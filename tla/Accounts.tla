------------------------------ MODULE Accounts ------------------------------
(***************************************************************************)
(* Accounts and the ways to sign in to them: registration, verification of *)
(* the email address with the memberships it brings, and Google sign-in    *)
(* (AuthService of services/identity-service), with the pages of the web   *)
(* application that lead through them and what they keep in localStorage.  *)
(*                                                                         *)
(* A request is what one page has under way.  It reads, and later writes   *)
(* what follows from what it read; a transaction whose first statement     *)
(* claims a row, or is refused by a unique index, is one step.  Sessions   *)
(* are the subject of the module Sessions: here an account has one or not. *)
(***************************************************************************)
EXTENDS Naturals, Sequences, FiniteSets

CONSTANTS
    Emails,         \* the addresses, each the key of at most one account
    Subjects,       \* Google accounts
    EmailOf,        \* [Subjects -> Emails]: the verified address of each
    Orgs, Root,     \* the organizations of one university, and its root
    Parent,         \* [Orgs -> Orgs \cup {None}]
    DomainOrg,      \* the organization that the addresses' domain belongs to
    Requests,
    None,
    MaxTokens,      \* bound: verification links that are mailed
    MaxRequests,    \* bound: requests that are made
    MaxChanges      \* bound: expiries, and changes by administrators

ASSUME AccountsAssumption ==
    /\ EmailOf \in [Subjects -> Emails]
    /\ Parent \in [Orgs -> Orgs \cup {None}]
    /\ Root \in Orgs /\ DomainOrg \in Orgs /\ Parent[Root] = None
    /\ None \notin Emails \cup Subjects \cup Orgs
    /\ {MaxTokens, MaxRequests, MaxChanges} \subseteq Nat

\* The hierarchy has no cycle, which a trigger of the database rejects: some
\* organization of every set of them has its parent outside of the set.
ASSUME HierarchyAssumption ==
    \A S \in SUBSET Orgs : S # {} => \E o \in S : Parent[o] \notin S

VARIABLES
    user,           \* table users: [Emails -> row or None]
    token,          \* table email_verification_tokens, in order of insertion
    identity,       \* table external_identities: [Subjects -> Emails or None]
    org,            \* [Orgs -> the status is ACTIVE]
    autoJoin,       \* the domain lets its users join
    allowlist,      \* [Orgs -> [Emails -> "none", "unused" or "used"]]
    member,         \* [Emails -> approved organizations]
    session,        \* accounts that a session was created for
    store,          \* localStorage of the browser
    flow,           \* its cookie resourcehive_google_oauth_flow
    req,            \* what each request has read
    made, changes   \* counters of the bounded events

vars == <<user, token, identity, org, autoJoin, allowlist, member, session,
          store, flow, req, made, changes>>
rules == <<org, autoJoin, allowlist>>

\* password: the account has one; how: how its address was proven.
Row == [password : BOOLEAN, verified : Nat, missed : BOOLEAN]
Token == [email : Emails, used : BOOLEAN, expired : BOOLEAN, fresh : BOOLEAN,
          mailed : BOOLEAN]
Store == [signup : Emails \cup {None}, signupVerified : BOOLEAN,
          verified : Emails \cup {None}, pending : Emails \cup {None}]

ASSUME NoneIsNoRow == None \notin Row

Idle == [op |-> "idle"]
Exists(e) == user[e] # None
Verified(e) == Exists(e) /\ user[e].verified > 0
HoldersOf(e) == {s \in Subjects : identity[s] = e}
LiveToken(i) == ~token[i].used /\ ~token[i].expired

Begin(p, request) ==
    /\ req[p] = Idle /\ made < MaxRequests
    /\ made' = made + 1
    /\ req' = [req EXCEPT ![p] = request]
Become(p, request) == req' = [req EXCEPT ![p] = request]
End(p) == Become(p, Idle)

-----------------------------------------------------------------------------
(* Registration and verification                                           *)

\* register: the domain's organization is active, and the address is free.
MayRegister(e) == org[DomainOrg] /\ ~Exists(e)

\* handleSubmit of the sign-up form; the two passwords agree.
submitSignup(p, e) ==
    /\ MayRegister(e)
    /\ Begin(p, [op |-> "register", email |-> e])
    /\ UNCHANGED <<user, token, identity, rules, member, session, store, flow, changes>>

NewToken(e, mailed) ==
    [email |-> e, used |-> FALSE, expired |-> FALSE, fresh |-> TRUE, mailed |-> mailed]

\* storeSignupDebugData of auth-storage.ts: the page remembers the sign-up.
storeSignupDebugData(e, verified) ==
    [store EXCEPT !.signup = e, !.signupVerified = verified,
                  !.pending = IF ~verified THEN e ELSE IF @ = e THEN None ELSE @]

\* The page learns of its account when the mail went out and the answer
\* arrives; else it shows an error, although the account is there.
registerAnswer(e, arrives) ==
    IF arrives THEN storeSignupDebugData(e, FALSE) ELSE store

\* The transaction creates the account and its verification link; the unique
\* index on the address refuses the second of two.
createUser(p, mailed, arrives) ==
    /\ req[p].op = "register"
    /\ LET e == req[p].email
       IN  IF Exists(e) THEN UNCHANGED <<user, token, store>>
           ELSE /\ Len(token) < MaxTokens
                /\ user' = [user EXCEPT ![e] =
                       [password |-> TRUE, verified |-> 0, missed |-> FALSE]]
                /\ token' = Append(token, NewToken(e, mailed))
                /\ store' = registerAnswer(e, mailed /\ arrives)
    /\ End(p)
    /\ UNCHANGED <<identity, rules, member, session, flow, made, changes>>

\* The page of the sign-up: the address that it offers to mail to, until it
\* knows of its verification and leaves.
SignupVerified == store.signup # None /\ (store.signupVerified \/ store.verified = store.signup)
VerificationEmail == IF store.signup # None THEN store.signup ELSE store.pending

\* resendVerificationEmail: the account waits for its verification, and no link
\* was mailed within the last minute.
LastToken(e) ==
    LET mine == {i \in DOMAIN token : token[i].email = e}
    IN  CHOOSE i \in mine : \A j \in mine : j <= i

CooledDown(e) ==
    \/ \A i \in DOMAIN token : token[i].email # e
    \/ ~token[LastToken(e)].fresh

resendVerificationEmail(p, e) ==
    /\ e = VerificationEmail /\ ~SignupVerified
    /\ Exists(e) /\ ~Verified(e) /\ CooledDown(e)
    /\ Begin(p, [op |-> "resend", email |-> e])
    /\ UNCHANGED <<user, token, identity, rules, member, session, store, flow, changes>>

resendSnapshot(p) ==
    /\ req[p].op = "resend"
    /\ Become(p, [op |-> "mail", email |-> req[p].email, upto |-> Len(token),
                  rows |-> {i \in DOMAIN token :
                               token[i].email = req[p].email /\ LiveToken(i)}])
    /\ UNCHANGED <<user, token, identity, rules, member, session, store,
                   flow, made, changes>>

\* Two requests that passed the cooldown together do not see each other's link:
\* both links stay live.
Overlooked(r) ==
    \E i \in DOMAIN token : i > r.upto /\ token[i].email = r.email /\ LiveToken(i)

resendCommit(p, mailed) ==
    /\ req[p].op = "mail" /\ Len(token) < MaxTokens
    /\ token' = Append([i \in DOMAIN token |->
                           IF i \in req[p].rows THEN [token[i] EXCEPT !.used = TRUE]
                           ELSE token[i]],
                       NewToken(req[p].email, mailed))
    /\ user' = [user EXCEPT ![req[p].email] =
                  [user[req[p].email] EXCEPT !.missed = @ \/ Overlooked(req[p])]]
    /\ End(p)
    /\ UNCHANGED <<identity, rules, member, session, store, flow, made, changes>>

\* verifyEmail reads the link: a verified account is told so, and a link that is
\* used or has expired, or whose domain is closed, is refused.
verifyEmail(p, i) ==
    /\ i \in DOMAIN token /\ token[i].mailed
    /\ LET e == token[i].email
       IN  \/ /\ Verified(e)
              /\ Begin(p, [op |-> "sync", email |-> e])
           \/ /\ ~Verified(e) /\ LiveToken(i) /\ org[DomainOrg]
              /\ Begin(p, [op |-> "verify", row |-> i])
    /\ UNCHANGED <<user, token, identity, rules, member, session, store, flow, changes>>

\* The organizations from o up to the root; None is among them when one of
\* them is not active.
Walk(o) ==
    LET up[c \in Orgs] ==
            IF ~org[c] THEN {None}
            ELSE IF c = Root THEN {c}
            ELSE IF Parent[c] = None THEN {None} ELSE {c} \cup up[Parent[c]]
    IN  up[o]

PathUnchecked(o) == Walk(o)
Path(o) == IF None \in Walk(o) THEN {} ELSE Walk(o)

\* The active organizations whose allowlist has the address, and the domain's
\* own if it lets its users join.
Matched(e) ==
    {o \in Orgs : org[o] /\ allowlist[o][e] = "unused"}
    \cup (IF autoJoin THEN {DomainOrg} ELSE {})

\* A match counts when its path is active: all of the path is joined.
OrganizationsToJoinUnchecked(e) == Matched(e)
OrganizationsToJoin(e) == UNION {Path(o) : o \in Matched(e)}
ConsumedEntries(e) == {o \in Matched(e) : Path(o) # {}}

ClaimableTokenAlways(i) == TRUE
ClaimableToken(i) == LiveToken(i)

\* The rest of the transaction: claim the link, join the organizations, use up
\* the allowlist entries and mark the address verified.
verifyCommit(p) ==
    /\ req[p].op = "verify"
    /\ LET i == req[p].row
           e == token[i].email
       IN  IF ClaimableToken(i)
           THEN /\ token' = [token EXCEPT ![i] = [token[i] EXCEPT !.used = TRUE]]
                /\ user' = [user EXCEPT ![e] = [user[e] EXCEPT !.verified = @ + 1]]
                /\ member' = [member EXCEPT ![e] = @ \cup OrganizationsToJoin(e)]
                /\ allowlist' = [o \in Orgs |-> [allowlist[o] EXCEPT ![e] =
                       IF o \in ConsumedEntries(e) /\ @ = "unused" THEN "used" ELSE @]]
                /\ Become(p, [op |-> "sync", email |-> e])
           ELSE /\ End(p)
                /\ UNCHANGED <<token, user, member, allowlist>>
    /\ UNCHANGED <<identity, org, autoJoin, session, store, flow, made, changes>>

\* markSignupEmailVerified, when the page of the link shows its success.
markSignupEmailVerifiedOfSignup(e) ==
    [store EXCEPT !.verified = IF store.signup # None THEN store.signup ELSE e]

markSignupEmailVerified(e) ==
    LET marked == [store EXCEPT !.verified = e,
                                !.pending = IF @ = e THEN None ELSE @]
    IN  IF store.signup = e THEN [marked EXCEPT !.signupVerified = TRUE] ELSE marked

showVerified(p) ==
    /\ req[p].op = "sync"
    /\ store' = markSignupEmailVerified(req[p].email)
    /\ End(p)
    /\ UNCHANGED <<user, token, identity, rules, member, session, flow, made, changes>>

-----------------------------------------------------------------------------
(* Signing in                                                              *)

\* hasPendingSignupForEmail: this browser signed the address up, and does not
\* know of its verification.
hasPendingSignupForEmail(e) ==
    store.signup = e /\ ~SignupVerified

MayLogInUnverified(e) == Exists(e) /\ user[e].password
MayLogIn(e) == Exists(e) /\ user[e].password /\ Verified(e)

\* login, with the right password or a wrong one.
login(p, e, right) ==
    /\ Begin(p, [op |-> IF right /\ MayLogIn(e) THEN "session"
                        ELSE IF right /\ Exists(e) /\ user[e].password
                        THEN "unverified" ELSE "refused",
                 email |-> e])
    /\ UNCHANGED <<user, token, identity, rules, member, session, store, flow, changes>>

\* createSessionForUser, and what the login form does with the success.
createSession(p) ==
    /\ req[p].op = "session"
    /\ session' = session \cup {req[p].email}
    /\ store' = markSignupEmailVerified(req[p].email)
    /\ End(p)
    /\ UNCHANGED <<user, token, identity, rules, member, flow, made, changes>>

\* The login form sends an account that waits for its verification to the
\* page of the sign-up.
loginRefused(p) ==
    /\ req[p].op \in {"unverified", "refused"}
    /\ store' = IF req[p].op = "unverified" \/ hasPendingSignupForEmail(req[p].email)
                THEN [store EXCEPT !.pending = req[p].email] ELSE store
    /\ End(p)
    /\ UNCHANGED <<user, token, identity, rules, member, session, flow, made, changes>>

\* Both ways to Google: createAuthorizationUrl draws a state, and the flow with
\* it goes into the one cookie of the browser.
createAuthorizationUrl(p, purpose, e) ==
    /\ Begin(p, [op |-> "google", state |-> made, purpose |-> purpose, email |-> e])
    /\ flow' = [state |-> made, purpose |-> purpose, email |-> e]
    /\ UNCHANGED <<user, token, identity, rules, member, session, store, changes>>

beginGoogleLogin(p) == createAuthorizationUrl(p, "LOGIN", None)

\* Connecting needs the password; there has to be one.
verifyPasswordOmitted(e) == TRUE
verifyPassword(e) == user[e].password

beginGoogleConnection(p, e) ==
    /\ e \in session /\ verifyPassword(e)
    /\ createAuthorizationUrl(p, "CONNECT", e)

\* completeGoogleCallback accepts the state of the cookie only.
OwnFlowUnchecked(p) == flow # None
OwnFlow(p) == flow # None /\ flow.state = req[p].state

\* CONNECT: the Google account belongs to nobody else, and the user has no
\* other one.
MayConnect(e, s) ==
    user[e].password /\ identity[s] \in {None, e} /\ HoldersOf(e) \subseteq {s}

\* What the callback goes on with, when Google says that the user is subject s.
Callback(p, s) ==
    LET asked == [purpose |-> req[p].purpose, by |-> req[p].email]
    IN  IF ~OwnFlow(p) THEN Idle
        ELSE IF flow.purpose = "CONNECT"
        THEN IF MayConnect(flow.email, s)
             THEN [op |-> "connect", email |-> flow.email, subject |-> s, asked |-> asked]
             ELSE Idle
        ELSE IF identity[s] # None
        THEN [op |-> "google session", email |-> identity[s], subject |-> s, asked |-> asked]
        ELSE IF ~Exists(EmailOf[s])
        THEN [op |-> "google create", subject |-> s, asked |-> asked]
        ELSE Idle

\* The controller clears the cookie before it looks at the answer; the user may
\* also have cancelled.
googleCallback(p, s) ==
    /\ req[p].op = "google"
    /\ flow' = None
    /\ Become(p, IF s = None THEN Idle ELSE Callback(p, s))
    /\ UNCHANGED <<user, token, identity, rules, member, session, store, made, changes>>

\* The transaction creates a verified account without a password.  When a
\* unique index refuses it, the identity that won the race is looked up.
GoogleRowUnverified == [password |-> FALSE, verified |-> 0, missed |-> FALSE]
GoogleRow == [password |-> FALSE, verified |-> 1, missed |-> FALSE]

googleCreate(p) ==
    /\ req[p].op = "google create"
    /\ LET s == req[p].subject
           e == EmailOf[s]
       IN  IF Exists(e) \/ identity[s] # None
           THEN /\ IF identity[s] # None
                   THEN Become(p, [op |-> "google session", email |-> identity[s],
                                   subject |-> s, asked |-> req[p].asked])
                   ELSE End(p)
                /\ UNCHANGED <<user, identity>>
           ELSE /\ user' = [user EXCEPT ![e] = GoogleRow]
                /\ identity' = [identity EXCEPT ![s] = e]
                /\ Become(p, [op |-> "google session", email |-> e, subject |-> s,
                               asked |-> req[p].asked])
    /\ UNCHANGED <<token, rules, member, session, store, flow, made, changes>>

\* The identity is touched first, which fails when it is gone.
googleSession(p) ==
    /\ req[p].op = "google session"
    /\ session' = IF identity[req[p].subject] = req[p].email
                  THEN session \cup {req[p].email} ELSE session
    /\ End(p)
    /\ UNCHANGED <<user, token, identity, rules, member, store, flow, made, changes>>

-----------------------------------------------------------------------------
(* Sign-in methods of an account that has a session                        *)

\* The upsert: an identity that is there by now keeps its account, and the
\* unique index on the user refuses a second one.
UserHasNoneUnchecked(e) == TRUE
UserHasNone(e) == HoldersOf(e) = {}

googleConnect(p) ==
    /\ req[p].op = "connect"
    /\ LET e == req[p].email
           s == req[p].subject
       IN  identity' = IF identity[s] = None /\ UserHasNone(e)
                       THEN [identity EXCEPT ![s] = e] ELSE identity
    /\ End(p)
    /\ UNCHANGED <<user, token, rules, member, session, store, flow, made, changes>>

disconnectGoogle(p, e, s) ==
    /\ e \in session /\ verifyPassword(e)
    /\ identity[s] = e
    /\ Begin(p, [op |-> "disconnect", email |-> e, subject |-> s])
    /\ UNCHANGED <<user, token, identity, rules, member, session, store, flow, changes>>

\* The row is deleted by its id.
googleDisconnect(p) ==
    /\ req[p].op = "disconnect"
    /\ identity' = [identity EXCEPT ![req[p].subject] =
                       IF @ = req[p].email THEN None ELSE @]
    /\ End(p)
    /\ UNCHANGED <<user, token, rules, member, session, store, flow, made, changes>>

\* requestPasswordSetup and requestPasswordReset mail a link to a verified
\* account, and resetPassword sets a password with it.
setUpPassword(e) ==
    /\ Verified(e) /\ ~user[e].password
    /\ changes < MaxChanges /\ changes' = changes + 1
    /\ user' = [user EXCEPT ![e] = [user[e] EXCEPT !.password = TRUE]]
    /\ UNCHANGED <<token, identity, rules, member, session, store, flow, req, made>>

-----------------------------------------------------------------------------
(* Time, and the administrators                                            *)

Change == changes < MaxChanges /\ changes' = changes + 1

tokenAges(i) ==
    /\ i \in DOMAIN token /\ ~token[i].expired /\ Change
    /\ token' = [token EXCEPT ![i] =
                     [token[i] EXCEPT !.expired = ~token[i].fresh, !.fresh = FALSE]]
    /\ UNCHANGED <<user, identity, rules, member, session, store, flow, req, made>>

organizationChanges(o) ==
    /\ Change
    /\ org' = [org EXCEPT ![o] = ~@]
    /\ UNCHANGED <<user, token, identity, autoJoin, allowlist, member, session,
                   store, flow, req, made>>

allowlistChanges(o, e) ==
    /\ Change
    /\ allowlist' = [allowlist EXCEPT ![o] =
                         [allowlist[o] EXCEPT ![e] = IF @ = "none" THEN "unused" ELSE "none"]]
    /\ UNCHANGED <<user, token, identity, org, autoJoin, member, session, store,
                   flow, req, made>>

\* Some accounts are settled; one may wait for its verification, with an old
\* link and signed up in this browser or in another.
Init ==
    \E waiting \in Emails \cup {None}, here \in BOOLEAN :
    \E settled \in SUBSET (Emails \ {waiting}) :
    /\ user = [e \in Emails |->
                  IF e \in settled THEN [password |-> TRUE, verified |-> 1, missed |-> FALSE]
                  ELSE IF e = waiting THEN [password |-> TRUE, verified |-> 0, missed |-> FALSE]
                  ELSE None]
    /\ token = IF waiting = None THEN <<>>
               ELSE <<[NewToken(waiting, TRUE) EXCEPT !.fresh = FALSE]>>
    /\ identity = [s \in Subjects |-> None]
    /\ org = [o \in Orgs |-> TRUE]
    /\ autoJoin \in BOOLEAN
    /\ allowlist = [o \in Orgs |-> [e \in Emails |-> "none"]]
    /\ member = [e \in Emails |-> {}]
    /\ session = settled
    /\ store = LET mine == IF here THEN waiting ELSE None
               IN  [signup |-> mine, signupVerified |-> FALSE,
                    verified |-> None, pending |-> mine]
    /\ flow = None
    /\ req = [p \in Requests |-> Idle]
    /\ made = 0 /\ changes = 0

Next ==
    \/ \E p \in Requests :
          \/ \E e \in Emails :
                \/ submitSignup(p, e) \/ resendVerificationEmail(p, e)
                \/ \E right \in BOOLEAN : login(p, e, right)
                \/ beginGoogleConnection(p, e)
                \/ \E s \in Subjects : disconnectGoogle(p, e, s)
          \/ beginGoogleLogin(p)
          \/ \E i \in 1..MaxTokens : verifyEmail(p, i)
          \/ \E mailed, arrives \in BOOLEAN : createUser(p, mailed, arrives)
          \/ resendSnapshot(p)
          \/ \E mailed \in BOOLEAN : resendCommit(p, mailed)
          \/ verifyCommit(p) \/ showVerified(p)
          \/ createSession(p) \/ loginRefused(p)
          \/ \E s \in Subjects \cup {None} : googleCallback(p, s)
          \/ googleCreate(p) \/ googleSession(p)
          \/ googleConnect(p) \/ googleDisconnect(p)
    \/ \E e \in Emails : setUpPassword(e)
    \/ \E i \in 1..MaxTokens : tokenAges(i)
    \/ \E o \in Orgs : organizationChanges(o)
    \/ \E o \in Orgs, e \in Emails : allowlistChanges(o, e)

Spec == Init /\ [][Next]_vars

-----------------------------------------------------------------------------
(* Correctness                                                             *)

TypeOK ==
    /\ user \in [Emails -> Row \cup {None}]
    /\ token \in Seq(Token)
    /\ identity \in [Subjects -> Emails \cup {None}]
    /\ org \in [Orgs -> BOOLEAN] /\ autoJoin \in BOOLEAN
    /\ allowlist \in [Orgs -> [Emails -> {"none", "unused", "used"}]]
    /\ member \in [Emails -> SUBSET Orgs]
    /\ session \subseteq Emails
    /\ store \in Store
    /\ flow = None \/ flow \in [state : Nat, purpose : {"LOGIN", "CONNECT"},
                                email : Emails \cup {None}]

\* Every account can be signed in to: Google is disconnected only from one with
\* a password, however the requests of two pages interleave.
AccountsStayReachable ==
    \A e \in Emails : Exists(e) => user[e].password \/ HoldersOf(e) # {}

\* Every session is of an account whose address was proven, although the
\* callback of Google sign-in does not look at emailVerifiedAt.
SessionsAreVerified == \A e \in session : Verified(e)

\* verifyEmail takes effect once for an account, unless two links were mailed at
\* the same moment and both stayed live.
VerifiedOnce ==
    \A e \in Emails : Exists(e) /\ ~user[e].missed => user[e].verified <= 1

\* An account has one Google account at most, even when two connections pass
\* the check together.
OneGoogleAccountEach == \A e \in Emails : Cardinality(HoldersOf(e)) <= 1

\* A callback does what its own tab asked for, although the tabs of a browser
\* share the cookie of the flow.
FlowsAreNotMixed ==
    \A p \in Requests :
        LET r == req[p]
        IN  /\ r.op = "connect" => r.asked = [purpose |-> "CONNECT", by |-> r.email]
            /\ r.op \in {"google create", "google session"} => r.asked.purpose = "LOGIN"

\* Whoever verifyEmail puts into an organization is in all those above it too.
MembersOfTheWholePath ==
    \A e \in Emails, o \in Orgs :
        o \in member[e] /\ Parent[o] # None => Parent[o] \in member[e]

\* What this browser remembers as verified is verified, so that the login page
\* and the page of the sign-up do not send a user round in circles.
RememberedIsVerified ==
    /\ store.verified # None => Verified(store.verified)
    /\ store.signup # None /\ store.signupVerified => Verified(store.signup)

\* Accounts keep a way in, whatever two pages do to them at once.
AccountsAreSound == TypeOK /\ AccountsStayReachable

\* Only proven addresses get a session or are remembered as proven.
AddressesAreProven == SessionsAreVerified /\ RememberedIsVerified

\* A verification takes effect once, for the whole path of an organization.
VerificationJoinsOnce == VerifiedOnce /\ MembersOfTheWholePath

\* Google flows that overlap neither mix accounts nor give one account two.
GoogleFlowsAreApart == OneGoogleAccountEach /\ FlowsAreNotMixed

=============================================================================
