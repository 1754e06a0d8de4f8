------------------------------ MODULE Sessions ------------------------------
(***************************************************************************)
(* The sessions of one user: the refresh-token families and the password   *)
(* reset links of AuthService (services/identity-service), the cookies     *)
(* that AuthController sets and clears, and the tabs of one browser, which *)
(* share those cookies and refresh the session through session-api.ts.     *)
(*                                                                         *)
(* Every handler reads before it writes, in separate statements, and an    *)
(* UPDATE ... WHERE of READ COMMITTED changes the rows that its snapshot   *)
(* holds, not the ones committed after it: such an update is a snapshot    *)
(* step and, later, an apply step.  An update of one row by its id is one  *)
(* step.  The user is active and verified throughout: no code changes a    *)
(* user's status, and no sign-in succeeds before the verification.         *)
(***************************************************************************)
EXTENDS Naturals, Sequences, FiniteSets

CONSTANTS
    Tabs,           \* the tabs of the browser
    Calls,          \* the calls the pages of those tabs may have under way
    TabOf,          \* [Calls -> Tabs]
    Roots,          \* the universities
    None,           \* no cookie, no university
    NoContext,      \* an access token without a university
    MaxCalls,       \* bound: calls that are made
    MaxTokens,      \* bound: refresh tokens that are issued
    MaxLinks,       \* bound: password reset links that are mailed
    MaxLost,        \* bound: answers that the network loses
    MaxChanges      \* bound: expiries and changes of memberships

ASSUME SessionsAssumption ==
    /\ TabOf \in [Calls -> Tabs]
    /\ {None, NoContext} \cap Roots = {}
    /\ None # NoContext
    /\ Tabs \cap Calls = {}
    /\ {MaxCalls, MaxTokens, MaxLinks, MaxLost, MaxChanges} \subseteq Nat
    /\ MaxTokens > 0

VARIABLES
    password,       \* how often the password was changed
    approved,       \* universities with an approved, active membership
    tokens,         \* table refresh_tokens, in the order of insertion
    lapsed,         \* families whose expiresAt has passed
    links,          \* table password_reset_tokens, in the same way
    cookies,        \* the browser's refresh and access cookies
    flight,         \* what each call, and each tab's refresh, is doing
    made, lost, changes,    \* counters of the bounded events
    presented,      \* [tokens -> tabs that sent it to /auth/refresh]
    ended,          \* families that were logged out or revoked
    chosen,         \* [families -> university last switched to, or None]
    causes          \* what the user or an administrator did to the session

vars == <<password, approved, tokens, lapsed, links, cookies, flight,
          made, lost, changes, presented, ended, chosen, causes>>
tables == <<password, tokens, links, presented, ended, chosen>>
world == <<approved, lapsed, made, lost, changes, causes>>

Procs == Calls \cup Tabs
TokenIds == 1..MaxTokens
LinkIds == 1..MaxLinks
Contexts == Roots \cup {NoContext}

\* row, rows, seen: what a handler read, among the first upto tokens or mailed
\* links; set: the cookies its answer sets or clears; late: a switch or a reset
\* has committed since it read.
Idle == [op |-> "none", pc |-> "idle", tok |-> 0, acc |-> None, row |-> 0,
         root |-> None, rows |-> {}, upto |-> 0, seen |-> {}, mailed |-> 0,
         pw |-> 0, again |-> FALSE, late |-> {}, ok |-> FALSE, set |-> <<>>]

\* The cookies that the controller's handlers set: none, the cleared ones, or
\* new ones.  refresh clears them when it fails, logout always, reset-password
\* when it succeeds.
Keep == <<>>
clearAuthenticationCookies == [tok |-> 0, acc |-> None]
loginCookies(tok, acc) == [tok |-> tok, acc |-> acc]
refreshCookies(ok, tok, acc) ==
    IF ok THEN [tok |-> tok, acc |-> acc] ELSE clearAuthenticationCookies
logoutCookies == clearAuthenticationCookies
resetCookies(ok) == IF ok THEN clearAuthenticationCookies ELSE Keep
switchCookies(acc) == [acc |-> acc]

Tab(p) == IF p \in Tabs THEN p ELSE TabOf[p]
Live(i) == ~tokens[i].used /\ ~tokens[i].revoked
                           /\ tokens[i].family \notin lapsed
LiveLink(i) == ~links[i].used /\ ~links[i].expired

-----------------------------------------------------------------------------
(* What the handlers share                                                 *)

\* resolveUniversityContext: the university asked for if its membership is
\* still approved; without one, that of the earliest approved membership.
resolveUniversityContext(root) ==
    IF root = None THEN approved ELSE approved \cap {root}

\* issueAccessToken signs the context that resolveUniversityContext finds.
issueAccessToken(root) ==
    IF resolveUniversityContext(root) = {} THEN {NoContext}
    ELSE resolveUniversityContext(root)

\* canActivate of JwtAuthGuard: the token is there, and the membership that it
\* was signed for is still approved.
canActivate(acc) == acc # None /\ (acc \in Roots => acc \in approved)

\* A handler answers with a status and the cookies it sets.
Answered(f, ok, set) ==
    [Idle EXCEPT !.op = f.op, !.pc = "answered", !.root = IF f.op = "switch" THEN f.root ELSE None,
                 !.again = f.again, !.ok = ok, !.set = set]

\* A handler, or a tab, goes on.
Goto(p, f) == flight' = [flight EXCEPT ![p] = f]
Respond(p, ok, set) == Goto(p, Answered(flight[p], ok, set))

\* The handlers of family f, or of the user, that have read a token, or
\* checked a password, and not yet inserted what follows from it.
Readers(f) == {t \in Tabs : /\ flight[t].pc \in {"resolve", "rotate"}
                            /\ tokens[flight[t].row].family = f}
LoggingIn == {c \in Calls : flight[c].pc = "issue"}

Late(ps, kind, flights) ==
    [p \in Procs |-> IF p \in ps THEN [flights[p] EXCEPT !.late = @ \cup {kind}]
                     ELSE flights[p]]

\* What the statement of this kind that f has under way does to row i of the
\* rows that it is about: it changes those of its snapshot, and misses those
\* that were committed after it.
Update(f, i, about, kind, changed) ==
    IF i \in f.rows THEN changed
    ELSE IF i > f.upto /\ i \in about THEN [tokens[i] EXCEPT !.missed = @ \cup {kind}]
    ELSE tokens[i]

\* revokeRefreshTokenFamily: one UPDATE of the family's rows with no revokedAt.
FamilyRows(f) == {i \in DOMAIN tokens : tokens[i].family = f /\ ~tokens[i].revoked}

revokeRefreshTokenFamily(p) ==
    /\ flight[p].pc = "revoke"
    /\ tokens' = [i \in DOMAIN tokens |->
           Update(flight[p], i, FamilyRows(tokens[flight[p].row].family), "end",
                  [tokens[i] EXCEPT !.revoked = TRUE])]
    /\ ended' = ended \cup {tokens[flight[p].row].family}
    /\ IF flight[p].op = "logout" THEN Respond(p, TRUE, logoutCookies)
       ELSE Respond(p, FALSE, refreshCookies(FALSE, 0, None))
    /\ UNCHANGED <<password, links, presented, chosen, cookies, world>>

-----------------------------------------------------------------------------
(* /auth/refresh                                                           *)

\* refreshSession reads the token; one that was used before, that was revoked
\* or that has lapsed, or whose university the user has left, revokes the
\* family.
refreshRead(t) ==
    LET f == flight[t]
        bad(row) == \/ row.used \/ row.revoked \/ row.family \in lapsed
                    \/ row.root # None /\ resolveUniversityContext(row.root) = {}
    IN  /\ f.op = "refresh" /\ f.pc = "sent"
        /\ IF f.tok = 0
           THEN Respond(t, FALSE, refreshCookies(FALSE, 0, None))
           ELSE Goto(t, [f EXCEPT !.pc = IF bad(tokens[f.tok]) THEN "family"
                                         ELSE "resolve",
                                  !.row = f.tok,
                                  !.root = tokens[f.tok].root])
        /\ UNCHANGED <<tables, cookies, world>>

\* The rows to revoke when token i is presented: those of its family.
RowsToRevokeOfTokenOnly(i) == {i}
RowsToRevoke(i) == FamilyRows(tokens[i].family)

\* The snapshot of the revocation.
revokeSnapshot(p) ==
    /\ flight[p].pc = "family"
    /\ Goto(p, [flight[p] EXCEPT !.pc = "revoke",
                                 !.rows = RowsToRevoke(flight[p].row),
                                 !.upto = Len(tokens)])
    /\ UNCHANGED <<tables, cookies, world>>

\* The access token is signed before the rotation.
refreshResolve(t) ==
    /\ flight[t].pc = "resolve"
    /\ \E acc \in issueAccessToken(flight[t].root) :
           Goto(t, [flight[t] EXCEPT !.pc = "rotate", !.acc = acc])
    /\ UNCHANGED <<tables, cookies, world>>

\* The WHERE of the claim.
ClaimableIgnoringUse(i) == ~tokens[i].revoked /\ tokens[i].family \notin lapsed
Claimable(i) == Live(i)

\* The successor of a row has the university that was read.
SuccessorWithoutRoot(row, f) == [row EXCEPT !.used = FALSE, !.root = None, !.missed = @ \cup f.late]
Successor(row, f) == [row EXCEPT !.used = FALSE, !.root = f.root, !.missed = @ \cup f.late]

\* The transaction claims the token, or fails, and inserts the successor.
refreshRotate(t) ==
    LET f == flight[t]
        row == tokens[f.row]
    IN  /\ f.pc = "rotate"
        /\ \/ /\ ~Claimable(f.row)
              /\ Respond(t, FALSE, refreshCookies(FALSE, 0, None))
              /\ UNCHANGED tokens
           \/ /\ Claimable(f.row)
              /\ Len(tokens) < MaxTokens
              /\ tokens' = Append([tokens EXCEPT ![f.row] = [row EXCEPT !.used = TRUE]],
                               Successor(row, f))
              /\ Respond(t, TRUE, refreshCookies(TRUE, Len(tokens) + 1, f.acc))
        /\ UNCHANGED <<password, links, presented, ended, chosen, cookies, world>>

-----------------------------------------------------------------------------
(* /auth/login, /auth/logout, /auth/active-university, /auth/me            *)

\* login: the password typed is the current one, or an earlier or wrong one.
loginCheck(c) ==
    /\ flight[c].op = "login" /\ flight[c].pc = "sent"
    /\ \/ Goto(c, [flight[c] EXCEPT !.pc = "issue", !.pw = password])
       \/ Respond(c, FALSE, Keep)
    /\ UNCHANGED <<tables, cookies, world>>

\* A session without a university has none in its row.
StoredRootAsSigned(acc) == acc
StoredRoot(acc) == IF acc = NoContext THEN None ELSE acc

\* createSessionForUser: a new family.
createSessionForUser(c) ==
    /\ flight[c].pc = "issue"
    /\ Len(tokens) < MaxTokens
    /\ \E root \in issueAccessToken(None) :
          /\ tokens' = Append(tokens,
                 [family |-> Len(tokens) + 1,
                  root |-> StoredRoot(root),
                  used |-> FALSE, revoked |-> FALSE,
                  pw |-> flight[c].pw, missed |-> flight[c].late])
          /\ Respond(c, TRUE, loginCookies(Len(tokens) + 1, root))
    /\ UNCHANGED <<password, links, presented, ended, chosen, cookies, world>>

\* revokeSession of logout: the family of the token presented, if any.
logout(c) ==
    /\ flight[c].op = "logout" /\ flight[c].pc = "sent"
    /\ IF flight[c].tok = 0
       THEN Respond(c, TRUE, logoutCookies)
       ELSE Goto(c, [flight[c] EXCEPT !.pc = "family", !.row = flight[c].tok])
    /\ UNCHANGED <<tables, cookies, world>>

\* switchActiveUniversity checks the membership and the presented token.
switchCheck(c) ==
    LET f == flight[c]
    IN  /\ f.op = "switch" /\ f.pc = "sent"
        /\ IF /\ canActivate(f.acc)
              /\ resolveUniversityContext(f.root) # {}
              /\ f.tok # 0 /\ Live(f.tok)
           THEN Goto(c, [f EXCEPT !.pc = "members", !.row = f.tok])
           ELSE Respond(c, FALSE, Keep)
        /\ UNCHANGED <<tables, cookies, world>>

switchSnapshot(c) ==
    /\ flight[c].pc = "members"
    /\ Goto(c, [flight[c] EXCEPT !.pc = "switch",
                                 !.rows = FamilyRows(tokens[flight[c].row].family),
                                 !.upto = Len(tokens)])
    /\ UNCHANGED <<tables, cookies, world>>

\* The rows of the snapshot that are still not revoked take the university,
\* and a new access token is signed for it.
switchApply(c) ==
    LET f == flight[c]
        family == tokens[f.row].family
    IN  /\ f.pc = "switch"
        /\ tokens' = [i \in DOMAIN tokens |->
                 Update(f, i, FamilyRows(family), "switch",
                        IF tokens[i].revoked THEN tokens[i]
                        ELSE [tokens[i] EXCEPT !.root = f.root,
                                               !.missed = @ \ {"switch"}])]
        /\ chosen' = [chosen EXCEPT ![family] = f.root]
        /\ \E acc \in issueAccessToken(f.root) :
              flight' = Late(Readers(family), "switch",
                             [flight EXCEPT ![c] = Answered(f, TRUE, switchCookies(acc))])
        /\ UNCHANGED <<password, links, presented, ended, cookies, world>>

\* me: a guarded handler that only reads.
me(c) ==
    /\ flight[c].op = "me" /\ flight[c].pc = "sent"
    /\ Respond(c, canActivate(flight[c].acc), Keep)
    /\ UNCHANGED <<tables, cookies, world>>

-----------------------------------------------------------------------------
(* Forgotten passwords                                                     *)

\* requestPasswordReset: no new link within a minute of the newest one.
forgotCheck(c) ==
    /\ flight[c].op = "forgot" /\ flight[c].pc = "sent"
    /\ IF links # <<>> /\ links[Len(links)].fresh
       THEN Respond(c, TRUE, Keep)
       ELSE Goto(c, [flight[c] EXCEPT !.pc = "forgot"])
    /\ UNCHANGED <<tables, cookies, world>>

\* The links that a new link or a new password uses up.
NoLinksToUseUp == {}
LinksToUseUp == {i \in DOMAIN links : LiveLink(i)}

\* The statement that uses up the user's live links, in the same way.
UseUp(f, i) ==
    IF i \in f.seen THEN [links[i] EXCEPT !.used = TRUE]
    ELSE [links[i] EXCEPT !.missed = @ \/ (i > f.mailed /\ LiveLink(i))]

forgotSnapshot(c) ==
    /\ flight[c].pc = "forgot"
    /\ Goto(c, [flight[c] EXCEPT !.pc = "mail", !.seen = LinksToUseUp,
                                 !.mailed = Len(links)])
    /\ UNCHANGED <<tables, cookies, world>>

\* The transaction uses up the live links of its snapshot, and inserts one.
forgotCommit(c) ==
    /\ flight[c].pc = "mail"
    /\ Len(links) < MaxLinks
    /\ links' = Append([i \in DOMAIN links |-> UseUp(flight[c], i)],
                       [used |-> FALSE, expired |-> FALSE, fresh |-> TRUE,
                        opens |-> 0, missed |-> FALSE])
    /\ Respond(c, TRUE, Keep)
    /\ UNCHANGED <<password, tokens, presented, ended, chosen, cookies, world>>

\* resetPassword: the link that was read is live, and the new password is not
\* the present one.
resetCheck(c) ==
    /\ flight[c].op = "reset" /\ flight[c].pc = "sent"
    /\ \/ /\ LiveLink(flight[c].row)
          /\ Goto(c, [flight[c] EXCEPT !.pc = "claim"])
       \/ Respond(c, FALSE, resetCookies(FALSE))
    /\ UNCHANGED <<tables, cookies, world>>

\* The WHERE of the claim of a link.
ClaimableLinkAlways(i) == TRUE
ClaimableLink(i) == LiveLink(i)

\* The transaction claims the link.  It holds the link's row and the user's
\* until it commits: a second one waits.
resetClaim(c) ==
    /\ flight[c].pc = "claim"
    /\ \A d \in Calls : flight[d].pc # "reset"
    /\ IF ClaimableLink(flight[c].row)
       THEN Goto(c, [flight[c] EXCEPT !.pc = "reset",
                         !.rows = {i \in DOMAIN tokens : ~tokens[i].revoked},
                         !.upto = Len(tokens),
                         !.seen = LinksToUseUp,
                         !.mailed = Len(links)])
       ELSE Respond(c, FALSE, resetCookies(FALSE))
    /\ UNCHANGED <<tables, cookies, world>>

\* Its commit changes the password, uses up the live links and revokes the
\* refresh tokens that its last statement saw.
resetCommit(c) ==
    LET f == flight[c]
    IN  /\ f.pc = "reset"
        /\ password' = password + 1
        /\ links' = [i \in DOMAIN links |->
               IF i = f.row THEN [links[i] EXCEPT !.used = TRUE, !.opens = @ + 1]
               ELSE UseUp(f, i)]
        /\ tokens' = [i \in DOMAIN tokens |->
               Update(f, i, DOMAIN tokens, "end",
                      [tokens[i] EXCEPT !.revoked = TRUE])]
        /\ flight' = Late(LoggingIn, "end",
                          [flight EXCEPT ![c] = Answered(f, TRUE, resetCookies(TRUE))])
        /\ UNCHANGED <<presented, ended, chosen, cookies, world>>

-----------------------------------------------------------------------------
(* The browser                                                             *)

\* A request leaves with the cookies of that moment; the path of the refresh
\* cookie is /auth.
extractRefreshToken(op, jar) ==
    IF op \in {"refresh", "logout", "switch"} THEN jar.tok ELSE 0
extractAccessToken(op, jar) == IF op \in {"me", "switch"} THEN jar.acc ELSE None

Send(op, root, row, jar) ==
    [Idle EXCEPT !.op = op, !.pc = "sent", !.root = root, !.row = row,
                 !.tok = extractRefreshToken(op, jar),
                 !.acc = extractAccessToken(op, jar)]

\* The requests of auth-api.ts.
getCurrentUser == Send("me", None, 0, cookies)
logoutRequest == Send("logout", None, 0, cookies)
loginRequest == Send("login", None, 0, cookies)
switchActiveUniversity(root) == Send("switch", root, 0, cookies)
requestPasswordReset == Send("forgot", None, 0, cookies)
resetPassword(i) == Send("reset", None, i, cookies)
performRefresh == Send("refresh", None, 0, cookies)

Start(c, request, why) ==
    /\ flight[c].pc = "idle" /\ made < MaxCalls
    /\ made' = made + 1
    /\ Goto(c, request)
    /\ causes' = causes \cup why
    /\ UNCHANGED <<tables, cookies, approved, lapsed, lost, changes>>

\* The dashboard loads the account (dashboard-current-user.tsx).
loadCurrentUser(c) == Start(c, getCurrentUser, {})

\* The user logs out (nav-user.tsx).
handleLogout(c) == Start(c, logoutRequest, {"logout"})

\* The user picks another university (app-sidebar.tsx).
selectUniversity(c, root) == Start(c, switchActiveUniversity(root), {})

\* proxy.ts shows the login page only without a valid access cookie.
LoginPageOpens == cookies.acc = None

\* The login form is submitted (login-form.tsx): it is disabled while the
\* session is restored.
submitLogin(c) ==
    LoginPageOpens /\ flight[TabOf[c]].pc = "idle" /\ Start(c, loginRequest, {})

\* The user asks for a link (forgot-password-form.tsx), and follows one
\* (reset-password-form.tsx).
submitForgotPassword(c) == Start(c, requestPasswordReset, {})
submitResetPassword(c, i) == i \in DOMAIN links /\ Start(c, resetPassword(i), {})

refreshSessionOfEachCall(t, flights) ==
    [flights EXCEPT ![t] = performRefresh]

\* refreshSession of session-api.ts joins the refresh of its tab that is under
\* way, and starts one if there is none.
refreshSession(t, flights) ==
    IF flights[t].pc = "idle" THEN [flights EXCEPT ![t] = performRefresh]
    ELSE flights

Present(t) ==
    presented' = IF flight[t].pc = "idle" /\ cookies.tok # 0
                 THEN [presented EXCEPT ![cookies.tok] = @ \cup {t}]
                 ELSE presented

\* The login page restores the session when it opens.
restoreSession(t) ==
    /\ LoginPageOpens /\ flight[t].pc = "idle" /\ made < MaxCalls
    /\ made' = made + 1
    /\ flight' = refreshSession(t, flight)
    /\ Present(t)
    /\ UNCHANGED <<password, tokens, links, ended, chosen, cookies,
                   approved, lapsed, lost, changes, causes>>

setCookies(set) ==
    cookies' = [k \in DOMAIN cookies |-> IF k \in DOMAIN set THEN set[k] ELSE cookies[k]]

\* fetchWithSessionRefresh: an answer 401 to the first attempt waits for the
\* refresh; other answers are final.  The dashboard logs out when its account
\* cannot be loaded for want of a session.
Refreshes(c) == flight[c].op \in {"me", "switch"} /\ ~flight[c].ok /\ ~flight[c].again

answerCall(c) ==
    /\ flight[c].pc = "answered"
    /\ setCookies(flight[c].set)
    /\ \/ /\ Refreshes(c)
          /\ flight' = refreshSession(TabOf[c],
                         [flight EXCEPT ![c] = [flight[c] EXCEPT !.pc = "waiting"]])
          /\ Present(TabOf[c])
       \/ /\ ~Refreshes(c)
          /\ flight[c].op = "me" /\ ~flight[c].ok
          /\ Goto(c, logoutRequest)
          /\ UNCHANGED presented
       \/ /\ ~Refreshes(c) /\ (flight[c].op # "me" \/ flight[c].ok)
          /\ Goto(c, Idle)
          /\ UNCHANGED presented
    /\ UNCHANGED <<password, tokens, links, ended, chosen, world>>

\* The calls that waited for the refresh are sent again, with the cookies that
\* its answer set; after a failure their answer 401 is final.
Waiting(t) == {c \in Calls : TabOf[c] = t /\ flight[c].pc = "waiting"}

Resend(t, set, ok) == [p \in Procs |->
    IF p = t THEN Idle
    ELSE IF p \in Waiting(t)
    THEN IF ok THEN [Send(flight[p].op, flight[p].root, 0, set) EXCEPT !.again = TRUE]
         ELSE [flight[p] EXCEPT !.pc = "answered", !.again = TRUE]
    ELSE flight[p]]

answerRefresh(t) ==
    /\ flight[t].pc = "answered"
    /\ setCookies(flight[t].set)
    /\ flight' = Resend(t, flight[t].set, flight[t].ok)
    /\ UNCHANGED <<tables, world>>

\* The answer is lost on its way: the fetch throws, and no cookie changes.
answerLost(p) ==
    /\ flight[p].pc = "answered" /\ lost < MaxLost
    /\ lost' = lost + 1
    /\ flight' = IF p \in Tabs THEN Resend(p, Keep, FALSE)
                 ELSE [flight EXCEPT ![p] = Idle]
    /\ UNCHANGED <<tables, cookies, approved, lapsed, made, changes, causes>>

-----------------------------------------------------------------------------
(* Time, and the other services                                            *)

Change == changes < MaxChanges /\ changes' = changes + 1

\* The access cookie lives as long as its token (getAccessTokenCookieOptions).
accessExpires ==
    /\ cookies.acc # None /\ Change
    /\ cookies' = [cookies EXCEPT !.acc = None]
    /\ UNCHANGED <<tables, flight, approved, lapsed, made, lost, causes>>

\* Memberships are approved or removed, or organizations suspended.
membershipChanges(now) ==
    /\ now # approved /\ Change
    /\ approved' = now
    /\ causes' = causes \cup {"membership"}
    /\ UNCHANGED <<tables, cookies, flight, lapsed, made, lost>>

familyLapses(f) ==
    /\ f \in {tokens[i].family : i \in DOMAIN tokens} \ lapsed /\ Change
    /\ lapsed' = lapsed \cup {f}
    /\ UNCHANGED <<tables, cookies, flight, approved, made, lost, causes>>

linkAges(i) ==
    /\ i \in DOMAIN links /\ ~links[i].expired /\ Change
    /\ links' = [links EXCEPT ![i] = [links[i] EXCEPT !.expired = ~links[i].fresh,
                                                      !.fresh = FALSE]]
    /\ UNCHANGED <<password, tokens, presented, ended, chosen, cookies, flight,
                   approved, lapsed, made, lost, causes>>

Init ==
    /\ password = 0
    /\ approved = Roots
    /\ \E r \in Roots :
          /\ tokens = <<[family |-> 1, root |-> r, used |-> FALSE, revoked |-> FALSE,
                         pw |-> 0, missed |-> {}]>>
          /\ cookies = [tok |-> 1, acc |-> r]
    /\ lapsed = {} /\ links = <<>>
    /\ flight = [p \in Procs |-> Idle]
    /\ made = 0 /\ lost = 0 /\ changes = 0
    /\ presented = [i \in TokenIds |-> {}]
    /\ ended = {} /\ causes = {}
    /\ chosen = [i \in TokenIds |-> None]

ServeCall(c) ==
    \/ loginCheck(c) \/ createSessionForUser(c) \/ logout(c) \/ me(c)
    \/ revokeSnapshot(c) \/ revokeRefreshTokenFamily(c)
    \/ switchCheck(c) \/ switchSnapshot(c) \/ switchApply(c)
    \/ forgotCheck(c) \/ forgotSnapshot(c) \/ forgotCommit(c)
    \/ resetCheck(c) \/ resetClaim(c) \/ resetCommit(c)

ServeRefresh(t) ==
    \/ refreshRead(t) \/ refreshResolve(t) \/ refreshRotate(t)
    \/ revokeSnapshot(t) \/ revokeRefreshTokenFamily(t)

Next ==
    \/ \E c \in Calls :
          \/ loadCurrentUser(c) \/ handleLogout(c) \/ submitLogin(c)
          \/ submitForgotPassword(c)
          \/ \E root \in Roots : selectUniversity(c, root)
          \/ \E i \in LinkIds : submitResetPassword(c, i)
          \/ ServeCall(c) \/ answerCall(c) \/ answerLost(c)
    \/ \E t \in Tabs : restoreSession(t) \/ ServeRefresh(t) \/ answerRefresh(t)
                       \/ answerLost(t)
    \/ accessExpires
    \/ \E now \in SUBSET Roots : membershipChanges(now)
    \/ \E f \in TokenIds : familyLapses(f)
    \/ \E i \in LinkIds : linkAges(i)

Spec == Init /\ [][Next]_vars

-----------------------------------------------------------------------------
(* Correctness                                                             *)

Jar == [tok : 0..MaxTokens, acc : Contexts \cup {None}]

Token == [family : TokenIds, root : Roots \cup {None}, used : BOOLEAN,
          revoked : BOOLEAN, pw : Nat, missed : SUBSET {"end", "switch"}]

Link == [used : BOOLEAN, expired : BOOLEAN, fresh : BOOLEAN, opens : Nat,
         missed : BOOLEAN]

Pcs == {"idle", "sent", "family", "revoke", "resolve", "rotate", "issue", "members",
        "switch", "forgot", "mail", "claim", "reset", "answered", "waiting"}

Flight == [op : {"none", "me", "login", "logout", "switch", "forgot", "reset",
                 "refresh"},
           pc : Pcs,
           tok : 0..MaxTokens, acc : Contexts \cup {None}, row : Nat,
           root : Roots \cup {None}, rows : SUBSET Nat, upto : Nat,
           seen : SUBSET Nat, mailed : Nat, pw : Nat, again : BOOLEAN,
           late : SUBSET {"end", "switch"}, ok : BOOLEAN,
           set : {Keep} \cup Jar \cup [acc : Contexts \cup {None}]]

TypeOK ==
    /\ password \in Nat
    /\ approved \subseteq Roots
    /\ tokens \in Seq(Token) /\ Len(tokens) <= MaxTokens
    /\ lapsed \cup ended \subseteq TokenIds
    /\ links \in Seq(Link) /\ Len(links) <= MaxLinks
    /\ cookies \in Jar
    /\ flight \in [Procs -> Flight]
    /\ presented \in [TokenIds -> SUBSET Tabs]
    /\ chosen \in [TokenIds -> Roots \cup {None}]

\* The rotation of refreshSession leaves a family with one usable token at
\* most, however many tabs present the same token at once.
OneLiveTokenPerFamily ==
    \A i, j \in DOMAIN tokens :
        Live(i) /\ Live(j) /\ tokens[i].family = tokens[j].family => i = j

\* Once revokeSession or a replayed token has revoked a family, or resetPassword
\* has changed the password, no token of those sessions is usable, except one
\* that a sign-in or a rotation then under way committed behind the UPDATE, and
\* the tokens rotated from it.
EndedSessionsStayEnded ==
    \A i \in DOMAIN tokens :
        Live(i) /\ (tokens[i].family \in ended \/ tokens[i].pw < password)
            => "end" \in tokens[i].missed

\* The university that switchActiveUniversity chose stays that of the session,
\* unless a rotation that had read the token before writes its old one back.
SwitchSticks ==
    \A i \in DOMAIN tokens :
        Live(i) /\ "switch" \notin tokens[i].missed /\ chosen[tokens[i].family] # None
            => tokens[i].root = chosen[tokens[i].family]

\* A password reset link changes the password once.
LinkOpensOnce == \A i \in DOMAIN links : links[i].opens <= 1

\* requestPasswordReset and resetPassword leave one usable link at most, unless
\* two requests passed the cooldown together and neither saw the other's link.
OneLiveLink ==
    \A i, j \in DOMAIN links :
        LiveLink(i) /\ LiveLink(j) /\ i # j => links[i].missed \/ links[j].missed

\* A browser whose user did not log out, reset the password, lose a membership
\* or stay away for the whole lifetime keeps its session while no answer is
\* lost, unless two of its tabs presented one token: session-api.ts makes one
\* refresh at a time in each tab.
SignedOutForCause ==
    \/ causes # {} \/ password > 0 \/ lapsed # {} \/ lost > 0
    \/ \E i \in TokenIds : Cardinality(presented[i]) > 1
    \/ /\ cookies.tok # 0
       /\ \E i \in DOMAIN tokens :
             Live(i) /\ tokens[i].family = tokens[cookies.tok].family

\* A session has one usable token, and that one is of the university that the
\* user chose for the session.
TokensFollowTheSession == TypeOK /\ OneLiveTokenPerFamily /\ SwitchSticks

\* A reset link changes the password once, and there is one to use.
ResetLinksAreSingle == LinkOpensOnce /\ OneLiveLink

=============================================================================
