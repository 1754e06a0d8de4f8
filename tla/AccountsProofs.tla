--------------------------- MODULE AccountsProofs ---------------------------
(***************************************************************************)
(* Proofs about Accounts, for any number of addresses, Google accounts,    *)
(* organizations, links and requests: every account keeps a way in, only   *)
(* proven addresses get a session, a verification takes effect once and    *)
(* for whole paths, and Google flows that overlap stay apart.              *)
(***************************************************************************)
EXTENDS Accounts, FiniteSetTheorems, TLAPS

\* A link belongs to an account; a Google account to a verified one, and to
\* at most one of the two accounts that want it.
TokensOwned == \A i \in DOMAIN token : Exists(token[i].email)
IdentitiesVerified == \A s \in Subjects : identity[s] # None => Verified(identity[s])
IdentitiesApart ==
    \A s, t \in Subjects : identity[s] # None /\ identity[s] = identity[t] => s = t

\* As long as nobody overlooked a link, an account that waits has one.
OneLiveToken ==
    \A i, j \in DOMAIN token :
        /\ LiveToken(i) /\ LiveToken(j)
        /\ token[i].email = token[j].email
        /\ ~user[token[i].email].missed /\ ~Verified(token[i].email)
        => i = j

\* The cookie holds the newest state that was drawn, of a user with a password
\* if it is to connect.
WithPassword(e) == e \in Emails /\ Verified(e) /\ user[e].password
FlowOK ==
    flow # None => flow.state < made
                   /\ (flow.purpose = "CONNECT" => WithPassword(flow.email))

\* What a request has read, as far as it cannot have changed since.
EmailRead(r) ==
    /\ r.op \in {"register", "unverified", "refused"} => r.email \in Emails
    /\ r.op \in {"resend", "mail"} => r.email \in Emails /\ Exists(r.email)
    /\ r.op \in {"sync", "session"} => r.email \in Emails /\ Verified(r.email)
    /\ r.op = "disconnect" => r.email \in Emails /\ r.subject \in Subjects
                              /\ Exists(r.email) /\ user[r.email].password

\* A new link will replace every live one that was there when it was prepared.
LinksRead(r) ==
    r.op = "mail" =>
        /\ r.upto \in 0..Len(token)
        /\ \A i \in 1..r.upto :
              token[i].email = r.email /\ LiveToken(i) => i \in r.rows

\* A verification under way holds a link, and nobody was faster with the same.
VerifyRead(r) ==
    r.op = "verify" =>
        /\ r.row \in DOMAIN token
        /\ LiveToken(r.row) /\ ~user[token[r.row].email].missed =>
              ~Verified(token[r.row].email)

\* The state that a tab drew is in the cookie with what that tab asked for.
GoogleRead(r) ==
    /\ r.op = "google" =>
          /\ r.state \in Nat /\ r.state < made
          /\ flow # None /\ flow.state = r.state =>
                flow.purpose = r.purpose /\ flow.email = r.email
    /\ r.op = "connect" =>
          WithPassword(r.email) /\ r.subject \in Subjects
          /\ r.asked = [purpose |-> "CONNECT", by |-> r.email]
    /\ r.op \in {"google create", "google session"} =>
          r.subject \in Subjects /\ r.asked.purpose = "LOGIN"
    /\ r.op = "google session" => r.email \in Emails /\ Verified(r.email)

ReadOK(r) == EmailRead(r) /\ LinksRead(r) /\ VerifyRead(r) /\ GoogleRead(r)

IInv ==
    /\ TypeOK /\ made \in Nat /\ DOMAIN req = Requests
    /\ TokensOwned /\ IdentitiesVerified /\ IdentitiesApart /\ OneLiveToken /\ FlowOK
    /\ \A p \in Requests : ReadOK(req[p])
    /\ AccountsStayReachable /\ SessionsAreVerified /\ RememberedIsVerified
    /\ VerifiedOnce /\ MembersOfTheWholePath

-----------------------------------------------------------------------------
(* Which actions change which table *)

UserStep ==
    \/ \E p \in Requests, mailed \in BOOLEAN, arrives \in BOOLEAN : createUser(p, mailed, arrives)
    \/ \E p \in Requests, mailed \in BOOLEAN : resendCommit(p, mailed)
    \/ \E p \in Requests : verifyCommit(p)
    \/ \E p \in Requests : googleCreate(p)
    \/ \E e \in Emails : setUpPassword(e)

TokenStep ==
    \/ \E p \in Requests, mailed \in BOOLEAN, arrives \in BOOLEAN : createUser(p, mailed, arrives)
    \/ \E p \in Requests, mailed \in BOOLEAN : resendCommit(p, mailed)
    \/ \E p \in Requests : verifyCommit(p)
    \/ \E i \in 1..MaxTokens : tokenAges(i)

IdentityStep ==
    \/ \E p \in Requests : googleCreate(p)
    \/ \E p \in Requests : googleConnect(p)
    \/ \E p \in Requests : googleDisconnect(p)

StoreStep ==
    \/ \E p \in Requests, mailed \in BOOLEAN, arrives \in BOOLEAN : createUser(p, mailed, arrives)
    \/ \E p \in Requests : showVerified(p)
    \/ \E p \in Requests : createSession(p)
    \/ \E p \in Requests : loginRefused(p)

SessionStep ==
    \/ \E p \in Requests : createSession(p)
    \/ \E p \in Requests : googleSession(p)

FlowStep ==
    \/ \E p \in Requests, e \in Emails : beginGoogleConnection(p, e)
    \/ \E p \in Requests : beginGoogleLogin(p)
    \/ \E p \in Requests, s \in Subjects \cup {None} : googleCallback(p, s)

RulesStep ==
    \/ \E p \in Requests : verifyCommit(p)
    \/ \E o \in Orgs : organizationChanges(o)
    \/ \E o \in Orgs, e \in Emails : allowlistChanges(o, e)

Frame ==
    /\ user' = user \/ UserStep
    /\ token' = token \/ TokenStep
    /\ identity' = identity \/ IdentityStep
    /\ store' = store \/ StoreStep
    /\ session' = session \/ SessionStep
    /\ flow' = flow \/ FlowStep
    /\ UNCHANGED rules \/ RulesStep
    /\ member' = member \/ \E p \in Requests : verifyCommit(p)

LEMMA StepFrame == ASSUME [Next]_vars PROVE Frame
<1> USE DEF Frame
<1>1. ASSUME NEW p \in Requests, NEW e \in Emails, submitSignup(p, e) PROVE Frame
  BY <1>1 DEF submitSignup, rules
<1>2. ASSUME NEW p \in Requests, NEW e \in Emails, resendVerificationEmail(p, e) PROVE Frame
  BY <1>2 DEF resendVerificationEmail, rules
<1>3. ASSUME NEW p \in Requests, NEW e \in Emails, NEW right \in BOOLEAN, login(p, e, right) PROVE Frame
  BY <1>3 DEF login, rules
<1>4. ASSUME NEW p \in Requests, NEW e \in Emails, beginGoogleConnection(p, e) PROVE Frame
  BY <1>4 DEF beginGoogleConnection, createAuthorizationUrl, rules, FlowStep
<1>5. ASSUME NEW p \in Requests, NEW e \in Emails, NEW s \in Subjects, disconnectGoogle(p, e, s) PROVE Frame
  BY <1>5 DEF disconnectGoogle, rules
<1>6. ASSUME NEW p \in Requests, beginGoogleLogin(p) PROVE Frame
  BY <1>6 DEF beginGoogleLogin, createAuthorizationUrl, rules, FlowStep
<1>7. ASSUME NEW p \in Requests, NEW i \in 1..MaxTokens, verifyEmail(p, i) PROVE Frame
  BY <1>7 DEF verifyEmail, rules
<1>8. ASSUME NEW p \in Requests, NEW mailed \in BOOLEAN, NEW arrives \in BOOLEAN, createUser(p, mailed, arrives) PROVE Frame
  BY <1>8 DEF createUser, rules, UserStep, TokenStep, StoreStep
<1>9. ASSUME NEW p \in Requests, resendSnapshot(p) PROVE Frame
  BY <1>9 DEF resendSnapshot, rules
<1>10. ASSUME NEW p \in Requests, NEW mailed \in BOOLEAN, resendCommit(p, mailed) PROVE Frame
  BY <1>10 DEF resendCommit, rules, UserStep, TokenStep
<1>11. ASSUME NEW p \in Requests, verifyCommit(p) PROVE Frame
  BY <1>11 DEF verifyCommit, rules, UserStep, TokenStep, RulesStep
<1>12. ASSUME NEW p \in Requests, showVerified(p) PROVE Frame
  BY <1>12 DEF showVerified, rules, StoreStep
<1>13. ASSUME NEW p \in Requests, createSession(p) PROVE Frame
  BY <1>13 DEF createSession, rules, StoreStep, SessionStep
<1>14. ASSUME NEW p \in Requests, loginRefused(p) PROVE Frame
  BY <1>14 DEF loginRefused, rules, StoreStep
<1>15. ASSUME NEW p \in Requests, NEW s \in Subjects \cup {None}, googleCallback(p, s) PROVE Frame
  BY <1>15 DEF googleCallback, rules, FlowStep
<1>16. ASSUME NEW p \in Requests, googleCreate(p) PROVE Frame
  BY <1>16 DEF googleCreate, rules, UserStep, IdentityStep
<1>17. ASSUME NEW p \in Requests, googleSession(p) PROVE Frame
  BY <1>17 DEF googleSession, rules, SessionStep
<1>18. ASSUME NEW p \in Requests, googleConnect(p) PROVE Frame
  BY <1>18 DEF googleConnect, rules, IdentityStep
<1>19. ASSUME NEW p \in Requests, googleDisconnect(p) PROVE Frame
  BY <1>19 DEF googleDisconnect, rules, IdentityStep
<1>20. ASSUME NEW e \in Emails, setUpPassword(e) PROVE Frame
  BY <1>20 DEF setUpPassword, rules, UserStep
<1>21. ASSUME NEW i \in 1..MaxTokens, tokenAges(i) PROVE Frame
  BY <1>21 DEF tokenAges, rules, TokenStep
<1>22. ASSUME NEW o \in Orgs, organizationChanges(o) PROVE Frame
  BY <1>22 DEF organizationChanges, rules, RulesStep
<1>23. ASSUME NEW o \in Orgs, NEW e \in Emails, allowlistChanges(o, e) PROVE Frame
  BY <1>23 DEF allowlistChanges, rules, RulesStep
<1>24. CASE UNCHANGED vars
  BY <1>24 DEF vars, rules
<1> QED
  BY <1>1, <1>2, <1>3, <1>4, <1>5, <1>6, <1>7, <1>8, <1>9, <1>10, <1>11, <1>12, <1>13, <1>14, <1>15, <1>16, <1>17, <1>18, <1>19, <1>20, <1>21, <1>22, <1>23, <1>24 DEF Next

-----------------------------------------------------------------------------
(* Accounts and links only grow *)

RowGrows(old, new) ==
    /\ new \in Row
    /\ old.password => new.password
    /\ old.missed => new.missed
    /\ new.verified >= old.verified

\* One account is created or changed.
UserEdit ==
    \E e \in Emails, row \in Row :
        /\ user' = [user EXCEPT ![e] = row]
        /\ Exists(e) => RowGrows(user[e], row)

UsersGrow ==
    \A e \in Emails : Exists(e) => Exists(e)' /\ RowGrows(user[e], user'[e])

LEMMA RowOf == ASSUME TypeOK, NEW e \in Emails, Exists(e) PROVE user[e] \in Row
  BY DEF TypeOK, Exists

LEMMA TokenOf ==
    ASSUME TypeOK, NEW i \in DOMAIN token
    PROVE  /\ token[i] \in Token /\ token[i].email \in Emails
           /\ i \in 1..Len(token) /\ Len(token) \in Nat /\ DOMAIN token = 1..Len(token)
<1>1. token \in Seq(Token)
  BY DEF TypeOK
<1>2. token[i] \in Token /\ i \in 1..Len(token)
  BY <1>1
<1> QED
  BY <1>1, <1>2 DEF Token

LEMMA Counted ==
    ASSUME NEW row \in Row, NEW new, new = [row EXCEPT !.verified = @ + 1]
    PROVE  RowGrows(row, new) /\ new.verified = row.verified + 1
           /\ new.password = row.password /\ new.missed = row.missed
  BY DEF Row, RowGrows

LEMMA WithMissed ==
    ASSUME NEW row \in Row, NEW b \in BOOLEAN, NEW new, new = [row EXCEPT !.missed = @ \/ b]
    PROVE  RowGrows(row, new) /\ new.verified = row.verified
           /\ new.password = row.password /\ (b => new.missed)
<1>1. new = [password |-> row.password, verified |-> row.verified,
             missed |-> row.missed \/ b]
  BY Zenon DEF Row
<1>2. (row.missed \/ b) \in BOOLEAN
  OBVIOUS
<1>3. new \in Row
  BY <1>1, <1>2 DEF Row
<1>4. new.password = row.password /\ new.verified = row.verified
  BY <1>1
<1>5. (row.missed => new.missed) /\ (b => new.missed)
  BY <1>1, Zenon
<1> QED
  BY <1>3, <1>4, <1>5 DEF RowGrows, Row

LEMMA WithAPassword ==
    ASSUME NEW row \in Row, NEW new, new = [row EXCEPT !.password = TRUE]
    PROVE  RowGrows(row, new) /\ new.verified = row.verified
           /\ new.missed = row.missed /\ new.password
<1>1. new = [password |-> TRUE, verified |-> row.verified, missed |-> row.missed]
  BY Zenon DEF Row
<1>2. new.password = TRUE /\ new.verified = row.verified /\ new.missed = row.missed
  BY <1>1
<1>3. new \in Row
  BY <1>1 DEF Row
<1> QED
  BY <1>2, <1>3 DEF RowGrows, Row

\* resendCommit changes one flag, whatever it overlooked.
LEMMA resendRow ==
    ASSUME IInv, NEW p \in Requests, NEW mailed \in BOOLEAN, resendCommit(p, mailed)
    PROVE  /\ req[p].email \in Emails /\ Exists(req[p].email)
           /\ \E row \in Row :
                 /\ user' = [user EXCEPT ![req[p].email] = row]
                 /\ RowGrows(user[req[p].email], row)
                 /\ row.verified = user[req[p].email].verified
                 /\ row.password = user[req[p].email].password
                 /\ Overlooked(req[p]) => row.missed
<1>1. req[p].email \in Emails /\ Exists(req[p].email)
  BY DEF IInv, ReadOK, EmailRead, resendCommit
<1>2. user[req[p].email] \in Row
  BY <1>1, RowOf DEF IInv
<1>3. PICK b \in BOOLEAN : b = Overlooked(req[p])
  BY DEF Overlooked
<1>4. PICK old \in Row : old = user[req[p].email]
  BY <1>2
<1>5. PICK row : row = [old EXCEPT !.missed = @ \/ b]
  OBVIOUS
<1>6. user' = [user EXCEPT ![req[p].email] = row]
  BY <1>3, <1>4, <1>5, Zenon DEF resendCommit
<1>7. /\ RowGrows(old, row) /\ row.verified = old.verified
      /\ row.password = old.password /\ (b => row.missed)
  BY <1>5, WithMissed
<1>8. row \in Row
  BY <1>7 DEF RowGrows
<1> QED
  BY <1>1, <1>3, <1>4, <1>6, <1>7, <1>8

\* verifyCommit counts one verification of the link's account.
LEMMA verifyRow ==
    ASSUME IInv, NEW p \in Requests, verifyCommit(p), ClaimableToken(req[p].row)
    PROVE  LET i == req[p].row
               e == token[i].email
           IN  /\ i \in DOMAIN token /\ e \in Emails /\ Exists(e)
               /\ \E row \in Row :
                     /\ user' = [user EXCEPT ![e] = row]
                     /\ RowGrows(user[e], row)
                     /\ row.verified = user[e].verified + 1
                     /\ row.password = user[e].password
                     /\ row.missed = user[e].missed
<1> DEFINE i == req[p].row
           e == token[i].email
<1>1. i \in DOMAIN token
  BY DEF IInv, ReadOK, VerifyRead, verifyCommit
<1>2. e \in Emails /\ Exists(e)
  BY <1>1, TokenOf DEF IInv, TokensOwned
<1>3. PICK old \in Row : old = user[e]
  BY <1>2, RowOf DEF IInv
<1>4. PICK row : row = [old EXCEPT !.verified = @ + 1]
  OBVIOUS
<1>5. user' = [user EXCEPT ![e] = row]
  BY <1>3, <1>4, Zenon DEF verifyCommit
<1>6. /\ RowGrows(old, row) /\ row.verified = old.verified + 1
      /\ row.password = old.password /\ row.missed = old.missed
  BY <1>4, Counted
<1>7. row \in Row
  BY <1>6 DEF RowGrows
<1> QED
  BY <1>1, <1>2, <1>3, <1>5, <1>6, <1>7

LEMMA UsersAreEdited ==
    ASSUME IInv, [Next]_vars
    PROVE  user' = user \/ UserEdit
<1>1. ASSUME NEW p \in Requests, NEW mailed \in BOOLEAN, NEW arrives \in BOOLEAN,
             createUser(p, mailed, arrives)
      PROVE  user' = user \/ UserEdit
  <2>1. req[p].email \in Emails
    BY <1>1 DEF IInv, ReadOK, EmailRead, createUser
  <2>2. [password |-> TRUE, verified |-> 0, missed |-> FALSE] \in Row
    BY DEF Row
  <2> QED
    BY <1>1, <2>1, <2>2, Zenon DEF createUser, UserEdit
<1>2. ASSUME NEW p \in Requests, NEW mailed \in BOOLEAN, resendCommit(p, mailed)
      PROVE  UserEdit
  BY <1>2, resendRow DEF UserEdit
<1>3. ASSUME NEW p \in Requests, verifyCommit(p)
      PROVE  user' = user \/ UserEdit
  <2>1. CASE ClaimableToken(req[p].row)
    BY <1>3, <2>1, verifyRow DEF UserEdit
  <2>2. CASE ~ClaimableToken(req[p].row)
    BY <1>3, <2>2 DEF verifyCommit
  <2> QED
    BY <2>1, <2>2
<1>4. ASSUME NEW p \in Requests, googleCreate(p)
      PROVE  user' = user \/ UserEdit
  <2>1. req[p].subject \in Subjects /\ EmailOf[req[p].subject] \in Emails
    BY <1>4, AccountsAssumption DEF IInv, ReadOK, GoogleRead, googleCreate
  <2>2. GoogleRow \in Row
    BY DEF Row, GoogleRow
  <2> QED
    BY <1>4, <2>1, <2>2, Zenon DEF googleCreate, UserEdit
<1>5. ASSUME NEW e \in Emails, setUpPassword(e)
      PROVE  UserEdit
  <2>1. PICK old \in Row : old = user[e]
    BY <1>5, RowOf DEF setUpPassword, Verified, IInv
  <2>2. PICK row : row = [old EXCEPT !.password = TRUE]
    OBVIOUS
  <2>3. RowGrows(old, row) /\ row \in Row
    BY <2>2, WithAPassword DEF RowGrows
  <2>4. user' = [user EXCEPT ![e] = row]
    BY <1>5, <2>1, <2>2, Zenon DEF setUpPassword
  <2> QED
    BY <2>1, <2>3, <2>4 DEF UserEdit
<1> QED
  BY <1>1, <1>2, <1>3, <1>4, <1>5, StepFrame DEF Frame, UserStep

LEMMA UserStepGrows ==
    ASSUME IInv, [Next]_vars
    PROVE  user' \in [Emails -> Row \cup {None}] /\ UsersGrow
<1>1. user \in [Emails -> Row \cup {None}]
  BY DEF IInv, TypeOK
<1>2. CASE user' = user
  <2>1. \A e \in Emails : Exists(e) => user[e] \in Row
    BY <1>1 DEF Exists
  <2> QED
    BY <1>1, <1>2, <2>1 DEF UsersGrow, Exists, RowGrows, Row
<1>3. CASE UserEdit
  <2>1. PICK e \in Emails, row \in Row :
           /\ user' = [user EXCEPT ![e] = row]
           /\ Exists(e) => RowGrows(user[e], row)
    BY <1>3 DEF UserEdit
  <2>2. user' \in [Emails -> Row \cup {None}]
    BY <1>1, <2>1
  <2>3. ASSUME NEW d \in Emails, Exists(d)
        PROVE  Exists(d)' /\ RowGrows(user[d], user'[d])
    <3>1. CASE d = e
      BY <1>1, <2>1, <2>3, <3>1, NoneIsNoRow DEF Exists
    <3>2. CASE d # e
      BY <1>1, <2>1, <2>3, <3>2 DEF Exists, RowGrows, Row
    <3> QED
      BY <3>1, <3>2
  <2> QED
    BY <2>2, <2>3 DEF UsersGrow
<1> QED
  BY <1>2, <1>3, UsersAreEdited

TokenGrows(old, new) ==
    /\ new \in Token
    /\ new.email = old.email
    /\ old.used => new.used
    /\ old.expired => new.expired

TokensGrow ==
    /\ token' \in Seq(Token)
    /\ Len(token) <= Len(token')
    /\ \A i \in 1..Len(token) : TokenGrows(token[i], token'[i])

LEMMA NewTokenOK ==
    ASSUME NEW e \in Emails, NEW mailed \in BOOLEAN
    PROVE  NewToken(e, mailed) \in Token /\ NewToken(e, mailed).email = e
  BY DEF NewToken, Token

LEMMA TokenUsed ==
    ASSUME NEW old \in Token, NEW new, new = [old EXCEPT !.used = TRUE]
    PROVE  TokenGrows(old, new) /\ new.used
<1>1. new = [email |-> old.email, used |-> TRUE, expired |-> old.expired,
             fresh |-> old.fresh, mailed |-> old.mailed]
  BY Zenon DEF Token
<1>2. new.email = old.email /\ new.used = TRUE /\ new.expired = old.expired
  BY <1>1
<1>3. new \in Token
  BY <1>1 DEF Token
<1> QED
  BY <1>2, <1>3 DEF TokenGrows

LEMMA TokenAged ==
    ASSUME NEW old \in Token, NEW new, ~old.expired,
           new = [old EXCEPT !.expired = ~old.fresh, !.fresh = FALSE]
    PROVE  TokenGrows(old, new)
<1>1. new = [email |-> old.email, used |-> old.used, expired |-> ~old.fresh,
             fresh |-> FALSE, mailed |-> old.mailed]
  BY Zenon DEF Token
<1>2. new.email = old.email /\ new.used = old.used
  BY <1>1
<1>3. (~old.fresh) \in BOOLEAN
  BY DEF Token
<1>4. new \in Token
  BY <1>1, <1>3 DEF Token
<1> QED
  BY <1>2, <1>4 DEF TokenGrows

LEMMA Appended ==
    ASSUME NEW old \in Seq(Token), NEW x \in Token, NEW new, new = Append(old, x)
    PROVE  /\ new \in Seq(Token) /\ Len(new) = Len(old) + 1
           /\ Len(old) \in Nat
           /\ \A i \in 1..Len(old) : new[i] = old[i]
           /\ new[Len(old) + 1] = x
  OBVIOUS

LEMMA Updated ==
    ASSUME NEW old \in Seq(Token), NEW k \in DOMAIN old, NEW x \in Token, NEW new,
           new = [old EXCEPT ![k] = x]
    PROVE  /\ new \in Seq(Token) /\ Len(new) = Len(old) /\ Len(old) \in Nat
           /\ \A i \in 1..Len(old) : new[i] = IF i = k THEN x ELSE old[i]
  OBVIOUS

LEMMA TokenStays == ASSUME NEW x \in Token PROVE TokenGrows(x, x)
  BY DEF TokenGrows

\* createUser inserts the account and its link together.
LEMMA createUserToken ==
    ASSUME IInv, NEW p \in Requests, NEW mailed \in BOOLEAN, NEW arrives \in BOOLEAN,
           createUser(p, mailed, arrives), ~Exists(req[p].email)
    PROVE  /\ req[p].email \in Emails
           /\ \E x \in Token : x.email = req[p].email /\ token' = Append(token, x)
           /\ \E row \in Row : row.verified = 0 /\ row.password /\ ~row.missed
                               /\ user' = [user EXCEPT ![req[p].email] = row]
<1>1. req[p].email \in Emails
  BY DEF IInv, ReadOK, EmailRead, createUser
<1>2. PICK x \in Token : x = NewToken(req[p].email, mailed) /\ x.email = req[p].email
  BY <1>1, NewTokenOK
<1>3. token' = Append(token, x)
  BY <1>2 DEF createUser
<1>4. PICK row \in Row : row = [password |-> TRUE, verified |-> 0, missed |-> FALSE]
  BY DEF Row
<1>5. user' = [user EXCEPT ![req[p].email] = row]
  BY <1>4 DEF createUser
<1>6. row.verified = 0 /\ row.password = TRUE /\ row.missed = FALSE
  BY <1>4
<1> QED
  BY <1>1, <1>2, <1>3, <1>5, <1>6

\* resendCommit uses up the links that it knows, and mails one.
LEMMA resendToken ==
    ASSUME IInv, NEW p \in Requests, NEW mailed \in BOOLEAN, resendCommit(p, mailed)
    PROVE  /\ token' \in Seq(Token)
           /\ Len(token') = Len(token) + 1
           /\ \A i \in 1..Len(token) :
                 /\ TokenGrows(token[i], token'[i])
                 /\ i \in req[p].rows => token'[i].used
           /\ token'[Len(token) + 1] \in Token
           /\ token'[Len(token) + 1].email = req[p].email
<1>1. req[p].email \in Emails
  BY DEF IInv, ReadOK, EmailRead, resendCommit
<1>2. PICK x \in Token : x = NewToken(req[p].email, mailed) /\ x.email = req[p].email
  BY <1>1, NewTokenOK
<1>3. token \in Seq(Token) /\ DOMAIN token = 1..Len(token) /\ Len(token) \in Nat
  BY DEF IInv, TypeOK
<1>4. PICK mid : mid = [i \in DOMAIN token |->
                           IF i \in req[p].rows THEN [token[i] EXCEPT !.used = TRUE]
                           ELSE token[i]]
  OBVIOUS
<1>5. token' = Append(mid, x)
  BY <1>2, <1>4 DEF resendCommit
<1>6. ASSUME NEW i \in 1..Len(token)
      PROVE  /\ TokenGrows(token[i], mid[i]) /\ mid[i] \in Token
             /\ i \in req[p].rows => mid[i].used
  <2>1. PICK old \in Token : old = token[i]
    BY <1>3
  <2>2. CASE i \in req[p].rows
    <3>1. mid[i] = [old EXCEPT !.used = TRUE]
      BY <1>3, <1>4, <2>1, <2>2
    <3> QED
      BY <2>1, <3>1, TokenUsed DEF TokenGrows
  <2>3. CASE i \notin req[p].rows
    BY <1>3, <1>4, <2>1, <2>3, TokenStays
  <2> QED
    BY <2>2, <2>3
<1>7. mid \in Seq(Token) /\ Len(mid) = Len(token)
  <2>1. mid \in [1..Len(token) -> Token]
    BY <1>3, <1>4, <1>6
  <2> QED
    BY <1>3, <2>1
<1>8. /\ token' \in Seq(Token) /\ Len(token') = Len(mid) + 1
      /\ \A i \in 1..Len(mid) : token'[i] = mid[i]
      /\ token'[Len(mid) + 1] = x
  BY <1>5, <1>7, Appended
<1> QED
  BY <1>2, <1>6, <1>7, <1>8

\* verifyCommit uses up the link that it claims.
LEMMA verifyToken ==
    ASSUME IInv, NEW p \in Requests, verifyCommit(p), ClaimableToken(req[p].row)
    PROVE  LET k == req[p].row
           IN  /\ token' \in Seq(Token) /\ Len(token') = Len(token)
               /\ k \in 1..Len(token) /\ token'[k].used
               /\ \A i \in 1..Len(token) : TokenGrows(token[i], token'[i])
<1> DEFINE k == req[p].row
<1>1. k \in DOMAIN token
  BY DEF IInv, ReadOK, VerifyRead, verifyCommit
<1>2. token \in Seq(Token) /\ DOMAIN token = 1..Len(token)
  BY DEF IInv, TypeOK
<1>3. PICK old \in Token : old = token[k]
  BY <1>1, <1>2
<1>4. PICK new : new = [old EXCEPT !.used = TRUE]
  OBVIOUS
<1>5. TokenGrows(old, new) /\ new.used /\ new \in Token
  BY <1>4, TokenUsed DEF TokenGrows
<1>6. token' = [token EXCEPT ![k] = new]
  BY <1>3, <1>4, Zenon DEF verifyCommit
<1>7. /\ token' \in Seq(Token) /\ Len(token') = Len(token)
      /\ \A i \in 1..Len(token) : token'[i] = IF i = k THEN new ELSE token[i]
  BY <1>1, <1>2, <1>5, <1>6, Updated
<1>8. ASSUME NEW i \in 1..Len(token) PROVE TokenGrows(token[i], token'[i])
  <2>1. token[i] \in Token
    BY <1>2
  <2> QED
    BY <1>3, <1>5, <1>7, <2>1, TokenStays
<1> QED
  BY <1>1, <1>2, <1>5, <1>7, <1>8

LEMMA agesToken ==
    ASSUME TypeOK, NEW k, tokenAges(k)
    PROVE  /\ token' \in Seq(Token) /\ Len(token') = Len(token)
           /\ \A i \in 1..Len(token) : TokenGrows(token[i], token'[i])
<1>1. k \in DOMAIN token /\ ~token[k].expired
  BY DEF tokenAges
<1>2. token \in Seq(Token) /\ DOMAIN token = 1..Len(token)
  BY DEF TypeOK
<1>3. PICK old \in Token : old = token[k]
  BY <1>1, <1>2
<1>4. PICK new : new = [old EXCEPT !.expired = ~old.fresh, !.fresh = FALSE]
  OBVIOUS
<1>5a. TokenGrows(old, new)
  BY <1>1, <1>3, <1>4, TokenAged, Zenon
<1>5. TokenGrows(old, new) /\ new \in Token
  BY <1>5a DEF TokenGrows
<1>6. token' = [token EXCEPT ![k] = new]
  BY <1>3, <1>4, Zenon DEF tokenAges
<1>7. /\ token' \in Seq(Token) /\ Len(token') = Len(token)
      /\ \A i \in 1..Len(token) : token'[i] = IF i = k THEN new ELSE token[i]
  BY <1>1, <1>2, <1>5, <1>6, Updated
<1>8. ASSUME NEW i \in 1..Len(token) PROVE TokenGrows(token[i], token'[i])
  <2>1. token[i] \in Token
    BY <1>2
  <2> QED
    BY <1>3, <1>5, <1>7, <2>1, TokenStays
<1> QED
  BY <1>7, <1>8

LEMMA TokenStepGrows == ASSUME IInv, [Next]_vars PROVE TokensGrow
<1>1. token \in Seq(Token) /\ Len(token) \in Nat
  BY DEF IInv, TypeOK
<1>2. \A i \in 1..Len(token) : token[i] \in Token
  BY <1>1
<1>3. ASSUME token' = token PROVE TokensGrow
  BY <1>1, <1>2, <1>3, TokenStays DEF TokensGrow
<1>4. ASSUME NEW p \in Requests, NEW mailed \in BOOLEAN, NEW arrives \in BOOLEAN,
             createUser(p, mailed, arrives)
      PROVE  TokensGrow
  <2>1. CASE Exists(req[p].email)
    BY <1>3, <1>4, <2>1 DEF createUser
  <2>2. CASE ~Exists(req[p].email)
    <3>1. PICK x \in Token : token' = Append(token, x)
      BY <1>4, <2>2, createUserToken
    <3>2. /\ token' \in Seq(Token) /\ Len(token') = Len(token) + 1
          /\ \A i \in 1..Len(token) : token'[i] = token[i]
      BY <1>1, <3>1, Appended
    <3> QED
      BY <1>1, <1>2, <3>2, TokenStays DEF TokensGrow
  <2> QED
    BY <2>1, <2>2
<1>5. ASSUME NEW p \in Requests, NEW mailed \in BOOLEAN, resendCommit(p, mailed)
      PROVE  TokensGrow
  BY <1>1, <1>5, resendToken DEF TokensGrow
<1>6. ASSUME NEW p \in Requests, verifyCommit(p)
      PROVE  TokensGrow
  <2>1. CASE ClaimableToken(req[p].row)
    BY <1>1, <1>6, <2>1, verifyToken DEF TokensGrow
  <2>2. CASE ~ClaimableToken(req[p].row)
    BY <1>3, <1>6, <2>2 DEF verifyCommit
  <2> QED
    BY <2>1, <2>2
<1>7. ASSUME NEW k, tokenAges(k) PROVE TokensGrow
  BY <1>1, <1>7, agesToken DEF TokensGrow, IInv
<1> QED
  BY <1>3, <1>4, <1>5, <1>6, <1>7, StepFrame DEF Frame, TokenStep

-----------------------------------------------------------------------------
(* What was read stays true *)

\* A new flow has a state that no request has drawn before.
FlowMoves ==
    /\ made' \in Nat /\ made <= made'
    /\ \/ flow' = flow
       \/ flow' = None
       \/ flow'.state = made /\ made' = made + 1
          /\ (flow'.purpose = "CONNECT" => WithPassword(flow.email)')

\* Nobody is verified by the step who had an account before.
NobodyVerified == \A e \in Emails : Exists(e) /\ ~Verified(e) => ~Verified(e)'

LEMMA Grown ==
    ASSUME TypeOK, UsersGrow
    PROVE  \A e \in Emails :
              /\ Exists(e) => Exists(e)' /\ (user[e].password => user'[e].password)
              /\ Exists(e) => (user[e].missed => user'[e].missed)
              /\ Verified(e) => Verified(e)'
              /\ WithPassword(e) => WithPassword(e)'
<1> SUFFICES ASSUME NEW e \in Emails, Exists(e)
             PROVE  /\ Exists(e)' /\ (user[e].password => user'[e].password)
                    /\ user[e].missed => user'[e].missed
                    /\ Verified(e) => Verified(e)'
  BY DEF Verified, WithPassword
<1>1. user[e] \in Row /\ RowGrows(user[e], user'[e]) /\ Exists(e)'
  BY RowOf DEF UsersGrow
<1>2. user[e].verified > 0 => user'[e].verified > 0
  BY <1>1 DEF RowGrows, Row
<1> QED
  BY <1>1, <1>2 DEF RowGrows, Verified

LEMMA LinksGrown ==
    ASSUME TypeOK, TokensGrow, NEW i \in DOMAIN token
    PROVE  /\ i \in DOMAIN token' /\ token'[i].email = token[i].email
           /\ LiveToken(i)' => LiveToken(i)
<1>1. token \in Seq(Token) /\ token' \in Seq(Token) /\ i \in 1..Len(token)
  BY DEF TypeOK, TokensGrow
<1>2. i \in DOMAIN token'
  BY <1>1 DEF TokensGrow
<1>3. TokenGrows(token[i], token'[i])
  BY <1>1 DEF TokensGrow
<1> QED
  BY <1>2, <1>3 DEF TokenGrows, LiveToken

LEMMA VerifyKept ==
    ASSUME IInv, UsersGrow, TokensGrow, NobodyVerified, NEW r, VerifyRead(r)
    PROVE  VerifyRead(r)'
<1> SUFFICES ASSUME r.op = "verify"
             PROVE  /\ r.row \in DOMAIN token'
                    /\ LiveToken(r.row)' /\ ~user'[token'[r.row].email].missed =>
                          (~Verified(token[r.row].email))'
  BY DEF VerifyRead
<1>1. PICK i \in DOMAIN token : i = r.row
  BY DEF VerifyRead
<1>2. PICK e \in Emails : e = token[i].email /\ Exists(e)
  BY TokenOf DEF IInv, TokensOwned
<1>3. /\ i \in DOMAIN token' /\ token'[i].email = e
      /\ LiveToken(i)' => LiveToken(i)
  BY <1>2, LinksGrown DEF IInv
<1>4. user[e].missed => user'[e].missed
  BY <1>2, Grown DEF IInv
<1>5. LiveToken(i) /\ ~user[e].missed => ~Verified(e)
  BY <1>1, <1>2 DEF VerifyRead
<1>6. ~Verified(e) => ~Verified(e)'
  BY <1>2 DEF NobodyVerified
<1> QED
  BY <1>1, <1>3, <1>4, <1>5, <1>6

LEMMA ReadKept ==
    ASSUME IInv, UsersGrow, TokensGrow, FlowMoves, NEW r, ReadOK(r), VerifyRead(r)'
    PROVE  ReadOK(r)'
<1>1. EmailRead(r)'
  <2>1. EmailRead(r)
    BY DEF ReadOK
  <2> QED
    BY <2>1, Grown DEF EmailRead, IInv
<1>2. LinksRead(r)'
  <2> SUFFICES ASSUME r.op = "mail"
               PROVE  /\ r.upto \in 0..Len(token')
                      /\ \A i \in 1..r.upto :
                            token'[i].email = r.email /\ LiveToken(i)' => i \in r.rows
    BY DEF LinksRead
  <2>1. /\ r.upto \in 0..Len(token)
        /\ \A i \in 1..r.upto : token[i].email = r.email /\ LiveToken(i) => i \in r.rows
    BY DEF ReadOK, LinksRead
  <2>2. token \in Seq(Token) /\ token' \in Seq(Token) /\ Len(token) <= Len(token')
    BY DEF IInv, TypeOK, TokensGrow
  <2>3. r.upto \in 0..Len(token')
    BY <2>1, <2>2
  <2>4. ASSUME NEW i \in 1..r.upto, token'[i].email = r.email, LiveToken(i)'
        PROVE  i \in r.rows
    <3>1. i \in DOMAIN token
      BY <2>1, <2>2
    <3>2. token'[i].email = token[i].email /\ LiveToken(i)
      BY <2>4, <3>1, LinksGrown DEF IInv
    <3> QED
      BY <2>1, <2>4, <3>2
  <2> QED
    BY <2>3, <2>4
<1>3. GoogleRead(r)'
  <2>1. GoogleRead(r) /\ made \in Nat
    BY DEF ReadOK, IInv
  <2>2. ASSUME r.op = "google"
        PROVE  /\ r.state \in Nat /\ r.state < made'
               /\ flow' # None /\ flow'.state = r.state =>
                     flow'.purpose = r.purpose /\ flow'.email = r.email
    BY <2>1, <2>2 DEF GoogleRead, FlowMoves
  <2>3. r.op = "connect" =>
           WithPassword(r.email)' /\ r.subject \in Subjects
           /\ r.asked = [purpose |-> "CONNECT", by |-> r.email]
    BY <2>1, Grown DEF GoogleRead, WithPassword, IInv
  <2>4. r.op = "google session" => r.email \in Emails /\ Verified(r.email)'
    BY <2>1, Grown DEF GoogleRead, IInv
  <2> QED
    BY <2>1, <2>2, <2>3, <2>4 DEF GoogleRead
<1> QED
  BY <1>1, <1>2, <1>3 DEF ReadOK

LEMMA MadeMoves ==
    ASSUME IInv, [Next]_vars
    PROVE  made' \in Nat /\ made <= made'
<1>1. made \in Nat
  BY DEF IInv
<1>2. made' = made \/ made' = made + 1
  <2>1. CASE UNCHANGED vars
    BY <2>1 DEF vars
  <2>2. ASSUME NEW p \in Requests, NEW e \in Emails,
               \/ submitSignup(p, e) \/ resendVerificationEmail(p, e)
               \/ \E right \in BOOLEAN : login(p, e, right)
               \/ beginGoogleConnection(p, e)
               \/ \E s \in Subjects : disconnectGoogle(p, e, s)
        PROVE  made' = made + 1
    BY <2>2, Zenon DEF submitSignup, resendVerificationEmail, login, beginGoogleConnection,
         createAuthorizationUrl, disconnectGoogle, Begin
  <2>3. ASSUME NEW p \in Requests, beginGoogleLogin(p) \/ \E i \in 1..MaxTokens : verifyEmail(p, i)
        PROVE  made' = made + 1
    BY <2>3, Zenon DEF beginGoogleLogin, createAuthorizationUrl, verifyEmail, Begin
  <2>4. ASSUME NEW p \in Requests,
               \/ \E mailed, arrives \in BOOLEAN : createUser(p, mailed, arrives)
               \/ resendSnapshot(p)
               \/ \E mailed \in BOOLEAN : resendCommit(p, mailed)
               \/ verifyCommit(p) \/ showVerified(p)
               \/ createSession(p) \/ loginRefused(p)
               \/ \E s \in Subjects \cup {None} : googleCallback(p, s)
               \/ googleCreate(p) \/ googleSession(p)
               \/ googleConnect(p) \/ googleDisconnect(p)
        PROVE  made' = made
    BY <2>4, Zenon DEF createUser, resendSnapshot, resendCommit, verifyCommit, showVerified,
         createSession, loginRefused, googleCallback, googleCreate, googleSession,
         googleConnect, googleDisconnect
  <2>5. ASSUME \/ \E e \in Emails : setUpPassword(e)
               \/ \E i \in 1..MaxTokens : tokenAges(i)
               \/ \E o \in Orgs : organizationChanges(o)
               \/ \E o \in Orgs, e \in Emails : allowlistChanges(o, e)
        PROVE  made' = made
    BY <2>5, Zenon DEF setUpPassword, tokenAges, organizationChanges, allowlistChanges
  <2> QED
    BY <2>1, <2>2, <2>3, <2>4, <2>5, Zenon DEF Next
<1> QED
  BY <1>1, <1>2

LEMMA FlowStepMoves == ASSUME IInv, [Next]_vars PROVE FlowMoves
<1>1. made' \in Nat /\ made <= made' /\ made \in Nat
  BY MadeMoves DEF IInv
<1>2. ASSUME NEW p \in Requests, NEW e \in Emails, beginGoogleConnection(p, e)
      PROVE  FlowMoves
  <2>1. /\ flow' = [state |-> made, purpose |-> "CONNECT", email |-> e]
        /\ made' = made + 1 /\ user' = user
    BY <1>2, Zenon DEF beginGoogleConnection, createAuthorizationUrl, Begin
  <2>2. WithPassword(e)
    BY <1>2 DEF beginGoogleConnection, verifyPassword, WithPassword, IInv, SessionsAreVerified
  <2>3. WithPassword(flow.email)'
    BY <2>1, <2>2 DEF WithPassword, Verified, Exists
  <2> QED
    BY <1>1, <2>1, <2>3 DEF FlowMoves
<1>3. ASSUME NEW p \in Requests, beginGoogleLogin(p)
      PROVE  FlowMoves
  <2>1. /\ flow' = [state |-> made, purpose |-> "LOGIN", email |-> None]
        /\ made' = made + 1
    BY <1>3, Zenon DEF beginGoogleLogin, createAuthorizationUrl, Begin
  <2> QED
    BY <1>1, <2>1 DEF FlowMoves
<1>4. ASSUME NEW p \in Requests, NEW s \in Subjects \cup {None}, googleCallback(p, s)
      PROVE  FlowMoves
  BY <1>1, <1>4 DEF googleCallback, FlowMoves
<1>5. CASE flow' = flow
  BY <1>1, <1>5 DEF FlowMoves
<1> QED
  BY <1>2, <1>3, <1>4, <1>5, StepFrame DEF Frame, FlowStep

LEMMA FlowInv == ASSUME IInv, [Next]_vars PROVE FlowOK'
<1>1. FlowMoves /\ UsersGrow
  BY FlowStepMoves, UserStepGrows
<1>2. CASE flow' = flow
  <2>1. flow # None => flow.state \in Nat
    BY DEF IInv, TypeOK
  <2>2. flow # None /\ flow.purpose = "CONNECT" => WithPassword(flow.email)'
    BY <1>1, <1>2, Grown DEF IInv, FlowOK, WithPassword
  <2> QED
    BY <1>1, <1>2, <2>1, <2>2 DEF FlowOK, FlowMoves, IInv
<1>3. CASE flow' = None
  BY <1>3 DEF FlowOK
<1>4. CASE flow'.state = made /\ made' = made + 1
           /\ (flow'.purpose = "CONNECT" => WithPassword(flow.email)')
  BY <1>4 DEF FlowOK, IInv
<1> QED
  BY <1>1, <1>2, <1>3, <1>4 DEF FlowMoves

\* Only verifyCommit verifies an account that is there.
LEMMA NobodyElseVerified ==
    ASSUME IInv, [Next]_vars,
           \A p \in Requests : verifyCommit(p) => ~ClaimableToken(req[p].row)
    PROVE  NobodyVerified
<1>1. user \in [Emails -> Row \cup {None}]
  BY DEF IInv, TypeOK
<1>2. CASE user' = user
  BY <1>2 DEF NobodyVerified, Verified, Exists
<1>3. ASSUME NEW e \in Emails, NEW row \in Row, user' = [user EXCEPT ![e] = row],
             Exists(e) => row.verified = user[e].verified
      PROVE  NobodyVerified
  <2>1. \A d \in Emails : Exists(d) => user'[d].verified = user[d].verified
    BY <1>1, <1>3
  <2> QED
    BY <2>1 DEF NobodyVerified, Verified
<1>4. ASSUME NEW p \in Requests, NEW mailed \in BOOLEAN, NEW arrives \in BOOLEAN,
             createUser(p, mailed, arrives)
      PROVE  NobodyVerified
  BY <1>2, <1>3, <1>4, createUserToken DEF createUser
<1>5. ASSUME NEW p \in Requests, NEW mailed \in BOOLEAN, resendCommit(p, mailed)
      PROVE  NobodyVerified
  BY <1>3, <1>5, resendRow
<1>6. ASSUME NEW p \in Requests, verifyCommit(p)
      PROVE  NobodyVerified
  BY <1>2, <1>6 DEF verifyCommit
<1>7. ASSUME NEW p \in Requests, googleCreate(p)
      PROVE  NobodyVerified
  <2>1. EmailOf[req[p].subject] \in Emails
    BY <1>7, AccountsAssumption DEF IInv, ReadOK, GoogleRead, googleCreate
  <2>2. GoogleRow \in Row
    BY DEF Row, GoogleRow
  <2>3. CASE Exists(EmailOf[req[p].subject])
    BY <1>2, <1>7, <2>3 DEF googleCreate
  <2>4. CASE ~Exists(EmailOf[req[p].subject])
    <3>1. user' = user \/ user' = [user EXCEPT ![EmailOf[req[p].subject]] = GoogleRow]
      BY <1>7, Zenon DEF googleCreate
    <3> QED
      BY <1>2, <1>3, <2>1, <2>2, <2>4, <3>1
  <2> QED
    BY <2>3, <2>4
<1>8. ASSUME NEW e \in Emails, setUpPassword(e)
      PROVE  NobodyVerified
  <2>1. PICK old \in Row : old = user[e]
    BY <1>8, RowOf DEF setUpPassword, Verified, IInv
  <2>2. PICK row : row = [old EXCEPT !.password = TRUE]
    OBVIOUS
  <2>3. row \in Row /\ row.verified = old.verified
    BY <2>2, WithAPassword DEF RowGrows
  <2>4. user' = [user EXCEPT ![e] = row]
    BY <1>8, <2>1, <2>2, Zenon DEF setUpPassword
  <2> QED
    BY <1>3, <2>1, <2>3, <2>4
<1> QED
  BY <1>2, <1>4, <1>5, <1>6, <1>7, <1>8, StepFrame DEF Frame, UserStep

-----------------------------------------------------------------------------
(* A verification takes effect once *)

LEMMA OldLinks ==
    ASSUME IInv, UsersGrow, TokensGrow, NEW i \in DOMAIN token
    PROVE  \E e \in Emails :
              /\ token[i].email = e /\ token'[i].email = e
              /\ Exists(e) /\ Exists(e)' /\ i \in DOMAIN token'
              /\ LiveToken(i)' => LiveToken(i)
              /\ user[e].missed => user'[e].missed
              /\ Verified(e) => Verified(e)'
<1>1. PICK e \in Emails : e = token[i].email /\ Exists(e)
  BY TokenOf DEF IInv, TokensOwned
<1>2. /\ i \in DOMAIN token' /\ token'[i].email = e
      /\ LiveToken(i)' => LiveToken(i)
  BY <1>1, LinksGrown DEF IInv
<1> QED
  BY <1>1, <1>2, Grown DEF IInv

\* The only new link is that of createUser or of resendCommit.
NewLink(e) ==
    /\ e \in Emails
    /\ Len(token') = Len(token) + 1
    /\ token'[Len(token) + 1].email = e
    /\ Exists(e)'

LEMMA LinksOfStep ==
    ASSUME IInv, [Next]_vars
    PROVE  \/ Len(token') = Len(token)
           \/ \E p \in Requests, mailed, arrives \in BOOLEAN :
                 /\ createUser(p, mailed, arrives)
                 /\ ~Exists(req[p].email) /\ NewLink(req[p].email)
           \/ \E p \in Requests, mailed \in BOOLEAN :
                 resendCommit(p, mailed) /\ NewLink(req[p].email)
<1>1. user \in [Emails -> Row \cup {None}] /\ token \in Seq(Token)
  BY DEF IInv, TypeOK
<1>2. ASSUME NEW p \in Requests, NEW mailed \in BOOLEAN, NEW arrives \in BOOLEAN,
             createUser(p, mailed, arrives)
      PROVE  token' = token \/ (~Exists(req[p].email) /\ NewLink(req[p].email))
  <2>1. CASE Exists(req[p].email)
    BY <1>2, <2>1 DEF createUser
  <2>2. CASE ~Exists(req[p].email)
    <3>1. PICK x \in Token : x.email = req[p].email /\ token' = Append(token, x)
      BY <1>2, <2>2, createUserToken
    <3>2. PICK row \in Row : user' = [user EXCEPT ![req[p].email] = row]
      BY <1>2, <2>2, createUserToken
    <3>3. req[p].email \in Emails
      BY <1>2, <2>2, createUserToken
    <3>4. PICK e \in Emails : e = req[p].email
      BY <3>3
    <3>5. user'[e] # None
      BY <1>1, <3>2, <3>4, NoneIsNoRow
    <3>6. Len(token') = Len(token) + 1 /\ token'[Len(token) + 1] = x
      BY <1>1, <3>1, Appended
    <3>7. NewLink(e)
      BY <3>1, <3>4, <3>5, <3>6 DEF NewLink, Exists
    <3> QED
      BY <2>2, <3>4, <3>7
  <2> QED
    BY <2>1, <2>2
<1>3. ASSUME NEW p \in Requests, NEW mailed \in BOOLEAN, resendCommit(p, mailed)
      PROVE  NewLink(req[p].email)
  <2>1. PICK e \in Emails : e = req[p].email /\ Exists(e)
    BY <1>3, resendRow
  <2>2. Exists(e)'
    BY <2>1, UserStepGrows DEF UsersGrow
  <2>3. NewLink(e)
    BY <1>3, <2>1, <2>2, resendToken DEF NewLink
  <2> QED
    BY <2>1, <2>3
<1>4. ASSUME NEW p \in Requests, verifyCommit(p)
      PROVE  Len(token') = Len(token)
  <2>1. CASE ClaimableToken(req[p].row)
    BY <1>4, <2>1, verifyToken
  <2>2. CASE ~ClaimableToken(req[p].row)
    BY <1>4, <2>2 DEF verifyCommit
  <2> QED
    BY <2>1, <2>2
<1>5. ASSUME NEW k, tokenAges(k) PROVE Len(token') = Len(token)
  BY <1>5, agesToken DEF IInv
<1> QED
  BY <1>2, <1>3, <1>4, <1>5, StepFrame DEF Frame, TokenStep

LEMMA TokensOwnedInv == ASSUME IInv, [Next]_vars PROVE TokensOwned'
<1>1. UsersGrow /\ TokensGrow
  BY UserStepGrows, TokenStepGrows
<1>2. /\ token \in Seq(Token) /\ token' \in Seq(Token)
      /\ Len(token) \in Nat /\ Len(token') \in Nat
      /\ DOMAIN token = 1..Len(token) /\ DOMAIN token' = 1..Len(token')
  BY <1>1 DEF IInv, TypeOK, TokensGrow
<1> SUFFICES ASSUME NEW i \in 1..Len(token') PROVE Exists(token[i].email)'
  BY <1>2 DEF TokensOwned
<1>3. CASE i \in 1..Len(token)
  <2>1. PICK e \in Emails : token'[i].email = e /\ Exists(e)'
    BY <1>1, <1>2, <1>3, OldLinks
  <2> QED
    BY <2>1 DEF Exists
<1>4. CASE i \notin 1..Len(token)
  <2>1. PICK e : NewLink(e)
    BY <1>2, <1>4, LinksOfStep
  <2>2. i = Len(token) + 1
    BY <1>2, <1>4, <2>1 DEF NewLink
  <2> QED
    BY <2>1, <2>2 DEF NewLink, Exists
<1> QED
  BY <1>3, <1>4

\* A link of a new account is its first; a new link of an old one leaves none
\* that it does not know of, unless the account remembers so.
LEMMA NewLinkIsAlone ==
    ASSUME IInv, [Next]_vars, NEW i \in 1..Len(token), NEW e, NewLink(e),
           token'[i].email = e, LiveToken(i)', ~user'[e].missed
    PROVE  FALSE
<1>1. UsersGrow /\ TokensGrow
  BY UserStepGrows, TokenStepGrows
<1>2. token \in Seq(Token) /\ Len(token) \in Nat /\ DOMAIN token = 1..Len(token)
  BY DEF IInv, TypeOK
<1>3. token[i].email = e /\ LiveToken(i) /\ Exists(e) /\ e \in Emails
  BY <1>1, <1>2, OldLinks
<1>4. ASSUME NEW p \in Requests, ~Exists(req[p].email), NewLink(req[p].email) PROVE FALSE
  BY <1>3, <1>4 DEF NewLink
<1>5. ASSUME NEW p \in Requests, NEW mailed \in BOOLEAN,
             resendCommit(p, mailed), NewLink(req[p].email)
      PROVE  FALSE
  <2>1. req[p].email = e
    BY <1>5 DEF NewLink
  <2>2. PICK row \in Row : /\ user' = [user EXCEPT ![e] = row]
                           /\ Overlooked(req[p]) => row.missed
    BY <1>5, <2>1, resendRow
  <2>3. ~Overlooked(req[p])
    BY <1>3, <2>2 DEF IInv, TypeOK
  <2>4. LinksRead(req[p]) /\ req[p].op = "mail"
    BY <1>5 DEF IInv, ReadOK, resendCommit
  <2>5. i <= req[p].upto /\ req[p].upto \in Nat
    BY <1>2, <1>3, <2>1, <2>3, <2>4 DEF Overlooked, LinksRead
  <2>6. i \in req[p].rows
    BY <1>3, <2>1, <2>4, <2>5 DEF LinksRead
  <2>7. token'[i].used
    BY <1>5, <2>6, resendToken
  <2> QED
    BY <2>7 DEF LiveToken
<1> QED
  <2>1. Len(token') # Len(token)
    <3>1. PICK n \in Nat : n = Len(token)
      BY <1>2
    <3>2. Len(token') = n + 1
      BY <3>1, Zenon DEF NewLink
    <3>3. n + 1 # n
      OBVIOUS
    <3> QED
      BY <3>1, <3>2, <3>3, Zenon
  <2> QED
    BY <1>4, <1>5, <2>1, LinksOfStep

LEMMA OneLiveTokenInv == ASSUME IInv, [Next]_vars PROVE OneLiveToken'
<1>1. UsersGrow /\ TokensGrow
  BY UserStepGrows, TokenStepGrows
<1>2. /\ token \in Seq(Token) /\ token' \in Seq(Token)
      /\ Len(token) \in Nat /\ Len(token') \in Nat
      /\ DOMAIN token = 1..Len(token) /\ DOMAIN token' = 1..Len(token')
  BY <1>1 DEF IInv, TypeOK, TokensGrow
<1> SUFFICES ASSUME NEW i \in 1..Len(token'), NEW j \in 1..Len(token'), NEW e,
                    LiveToken(i)', LiveToken(j)', e = token'[i].email, e = token'[j].email,
                    ~user'[e].missed, ~Verified(e)'
             PROVE  i = j
  <2>1. ASSUME NEW i \in 1..Len(token'), NEW j \in 1..Len(token'),
               LiveToken(i)', LiveToken(j)', token'[i].email = token'[j].email,
               ~user'[token'[i].email].missed, (~Verified(token[i].email))'
        PROVE  i = j
    <3>1. PICK e : e = token'[i].email
      OBVIOUS
    <3>2. ~Verified(e)'
      BY <2>1, <3>1 DEF Verified, Exists
    <3> QED
      BY <2>1, <3>1, <3>2
  <2> QED
    BY <1>2, <2>1 DEF OneLiveToken
<1>3. CASE i \in 1..Len(token) /\ j \in 1..Len(token)
  <2>1. /\ token[i].email = e /\ token[j].email = e
        /\ LiveToken(i) /\ LiveToken(j)
        /\ ~user[e].missed /\ ~Verified(e)
    BY <1>1, <1>2, <1>3, OldLinks
  <2> QED
    BY <1>2, <1>3, <2>1 DEF IInv, OneLiveToken
<1>4. CASE ~(i \in 1..Len(token) /\ j \in 1..Len(token))
  <2>1. PICK d : NewLink(d)
    BY <1>2, <1>4, LinksOfStep
  <2>2. Len(token') = Len(token) + 1
    BY <2>1 DEF NewLink
  <2>3. CASE i = Len(token) + 1 /\ j \in 1..Len(token)
    <3>1. d = e
      BY <2>1, <2>3 DEF NewLink
    <3> QED
      BY <2>1, <2>3, <3>1, NewLinkIsAlone
  <2>4. CASE j = Len(token) + 1 /\ i \in 1..Len(token)
    <3>1. d = e
      BY <2>1, <2>4 DEF NewLink
    <3> QED
      BY <2>1, <2>4, <3>1, NewLinkIsAlone
  <2> QED
    BY <1>2, <1>4, <2>2, <2>3, <2>4
<1> QED
  BY <1>3, <1>4

\* The step that verifies an account leaves every other verification of it
\* without a live link.
LEMMA VerifyReadInv ==
    ASSUME IInv, [Next]_vars, NEW r, VerifyRead(r)
    PROVE  VerifyRead(r)'
<1>1. UsersGrow /\ TokensGrow
  BY UserStepGrows, TokenStepGrows
<1>2. CASE \A p \in Requests : verifyCommit(p) => ~ClaimableToken(req[p].row)
  BY <1>1, <1>2, NobodyElseVerified, VerifyKept
<1>3. ASSUME NEW p \in Requests, verifyCommit(p), ClaimableToken(req[p].row)
      PROVE  VerifyRead(r)'
  <2> SUFFICES ASSUME r.op = "verify"
               PROVE  /\ r.row \in DOMAIN token'
                      /\ LiveToken(r.row)' /\ ~user'[token'[r.row].email].missed =>
                            (~Verified(token[r.row].email))'
    BY DEF VerifyRead
  <2>1. PICK j \in DOMAIN token : j = r.row
    BY DEF VerifyRead
  <2>2. PICK d \in Emails : /\ token[j].email = d /\ token'[j].email = d
                            /\ j \in DOMAIN token' /\ Exists(d)
                            /\ LiveToken(j)' => LiveToken(j)
                            /\ user[d].missed => user'[d].missed
    BY <1>1, OldLinks
  <2>3. PICK k \in DOMAIN token : k = req[p].row
    BY <1>3, verifyRow
  <2>4. PICK e \in Emails : e = token[k].email
    BY <2>3, TokenOf DEF IInv
  <2>5. PICK row \in Row : user' = [user EXCEPT ![e] = row]
    BY <1>3, <2>3, <2>4, verifyRow
  <2>6. ASSUME LiveToken(j)', ~user'[d].missed PROVE ~Verified(d)'
    <3>1. LiveToken(j) /\ ~user[d].missed
      BY <2>2, <2>6
    <3>2. ~Verified(d)
      BY <2>1, <2>2, <3>1 DEF VerifyRead
    <3>3. CASE d # e
      <4>1. user'[d] = user[d]
        BY <2>5, <3>3 DEF IInv, TypeOK
      <4> QED
        BY <3>2, <4>1 DEF Verified, Exists
    <3>4. CASE d = e
      <4>1. LiveToken(k)
        BY <1>3, <2>3 DEF ClaimableToken
      <4>2. j = k
        BY <2>2, <2>4, <3>1, <3>2, <3>4, <4>1 DEF IInv, OneLiveToken
      <4>3. token'[k].used
        BY <1>3, <2>3, verifyToken
      <4> QED
        BY <2>6, <4>2, <4>3 DEF LiveToken
    <3> QED
      BY <3>3, <3>4
  <2> QED
    BY <2>1, <2>2, <2>6
<1> QED
  BY <1>2, <1>3

\* Accounts that a step creates were verified once at most, by Google; one that
\* it verifies was not verified before.
LEMMA VerifiedOnceInv == ASSUME IInv, [Next]_vars PROVE VerifiedOnce'
<1>1. user \in [Emails -> Row \cup {None}]
  BY DEF IInv, TypeOK
<1>2. CASE user' = user
  BY <1>2 DEF IInv, VerifiedOnce, Exists
<1>3. ASSUME NEW e \in Emails, NEW row \in Row, user' = [user EXCEPT ![e] = row],
             ~row.missed => row.verified <= 1
      PROVE  VerifiedOnce'
  BY <1>1, <1>3 DEF IInv, VerifiedOnce, Exists
<1>4. ASSUME NEW e \in Emails, NEW row \in Row, user' = [user EXCEPT ![e] = row],
             Exists(e), RowGrows(user[e], row), row.verified = user[e].verified
      PROVE  VerifiedOnce'
  <2>1. ~row.missed => ~user[e].missed
    BY <1>4 DEF RowGrows
  <2>2. ~user[e].missed => user[e].verified <= 1
    BY <1>4 DEF IInv, VerifiedOnce
  <2> QED
    BY <1>3, <1>4, <2>1, <2>2
<1>5. ASSUME NEW p \in Requests, NEW mailed \in BOOLEAN, NEW arrives \in BOOLEAN,
             createUser(p, mailed, arrives)
      PROVE  VerifiedOnce'
  <2>1. CASE Exists(req[p].email)
    BY <1>2, <1>5, <2>1 DEF createUser
  <2>2. CASE ~Exists(req[p].email)
    BY <1>3, <1>5, <2>2, createUserToken
  <2> QED
    BY <2>1, <2>2
<1>6. ASSUME NEW p \in Requests, NEW mailed \in BOOLEAN, resendCommit(p, mailed)
      PROVE  VerifiedOnce'
  BY <1>4, <1>6, resendRow
<1>7. ASSUME NEW p \in Requests, verifyCommit(p)
      PROVE  VerifiedOnce'
  <2>1. CASE ClaimableToken(req[p].row)
    <3>1. PICK k \in DOMAIN token : k = req[p].row
      BY <1>7, <2>1, verifyRow
    <3>2. PICK e \in Emails : e = token[k].email /\ Exists(e)
      BY <3>1, TokenOf DEF IInv, TokensOwned
    <3>3. PICK row \in Row : /\ user' = [user EXCEPT ![e] = row]
                             /\ row.verified = user[e].verified + 1
                             /\ row.missed = user[e].missed
      BY <1>7, <2>1, <3>1, <3>2, verifyRow
    <3>4. ~user[e].missed => ~Verified(e)
      BY <1>7, <2>1, <3>1, <3>2 DEF IInv, ReadOK, VerifyRead, verifyCommit, ClaimableToken
    <3>5. user[e].verified \in Nat
      BY <3>2, RowOf DEF IInv, Row
    <3>6. ~row.missed => row.verified <= 1
      BY <3>2, <3>3, <3>4, <3>5 DEF Verified
    <3> QED
      BY <1>3, <3>3, <3>6
  <2>2. CASE ~ClaimableToken(req[p].row)
    BY <1>2, <1>7, <2>2 DEF verifyCommit
  <2> QED
    BY <2>1, <2>2
<1>8. ASSUME NEW p \in Requests, googleCreate(p)
      PROVE  VerifiedOnce'
  <2>1. EmailOf[req[p].subject] \in Emails
    BY <1>8, AccountsAssumption DEF IInv, ReadOK, GoogleRead, googleCreate
  <2>2. GoogleRow \in Row /\ GoogleRow.verified = 1
    BY DEF Row, GoogleRow
  <2>3. user' = user \/ user' = [user EXCEPT ![EmailOf[req[p].subject]] = GoogleRow]
    BY <1>8, Zenon DEF googleCreate
  <2> QED
    BY <1>2, <1>3, <2>1, <2>2, <2>3
<1>9. ASSUME NEW e \in Emails, setUpPassword(e)
      PROVE  VerifiedOnce'
  <2>1. PICK old \in Row : old = user[e] /\ Exists(e)
    BY <1>9, RowOf DEF setUpPassword, Verified, IInv
  <2>2. PICK row : row = [old EXCEPT !.password = TRUE]
    OBVIOUS
  <2>3. row \in Row /\ row.verified = old.verified /\ RowGrows(old, row)
    BY <2>2, WithAPassword DEF RowGrows
  <2>4. user' = [user EXCEPT ![e] = row]
    BY <1>9, <2>1, <2>2, Zenon DEF setUpPassword
  <2> QED
    BY <1>4, <2>1, <2>3, <2>4
<1> QED
  BY <1>2, <1>5, <1>6, <1>7, <1>8, <1>9, StepFrame DEF Frame, UserStep

-----------------------------------------------------------------------------
(* Google accounts *)

\* A Google account that is free goes to a verified user who has none.
Connected(s, e) ==
    /\ s \in Subjects /\ e \in Emails
    /\ identity[s] = None /\ \A t \in Subjects : identity[t] # e
    /\ identity' = [identity EXCEPT ![s] = e]
    /\ Verified(e)'

\* One that is taken away leaves a password.
Disconnected(s, e) ==
    /\ s \in Subjects /\ e \in Emails
    /\ identity' = [identity EXCEPT ![s] = IF @ = e THEN None ELSE @]
    /\ Exists(e) /\ user[e].password

LEMMA IdentityEdits ==
    ASSUME IInv, [Next]_vars
    PROVE  \/ identity' = identity
           \/ \E s \in Subjects, e \in Emails : Connected(s, e) \/ Disconnected(s, e)
<1>0. UsersGrow
  BY UserStepGrows
<1>1. ASSUME NEW p \in Requests, googleCreate(p)
      PROVE  \/ identity' = identity
             \/ \E s \in Subjects, e \in Emails : Connected(s, e)
  <2>1. PICK s \in Subjects : s = req[p].subject
    BY <1>1 DEF IInv, ReadOK, GoogleRead, googleCreate
  <2>2. PICK e \in Emails : e = EmailOf[s]
    BY AccountsAssumption
  <2>3. CASE Exists(e) \/ identity[s] # None
    BY <1>1, <2>1, <2>2, <2>3 DEF googleCreate
  <2>4. CASE ~(Exists(e) \/ identity[s] # None)
    <3>1. /\ user' = [user EXCEPT ![e] = GoogleRow]
          /\ identity' = [identity EXCEPT ![s] = e]
      BY <1>1, <2>1, <2>2, <2>4, Zenon DEF googleCreate
    <3>2. GoogleRow \in Row /\ GoogleRow.verified = 1
      BY DEF Row, GoogleRow
    <3>3. user'[e] = GoogleRow
      BY <3>1 DEF IInv, TypeOK
    <3>4. Verified(e)'
      BY <3>2, <3>3, NoneIsNoRow DEF Verified, Exists
    <3>5. \A t \in Subjects : identity[t] # e
      BY <2>4, AccountsAssumption DEF IInv, IdentitiesVerified, Verified
    <3> QED
      BY <2>4, <3>1, <3>4, <3>5 DEF Connected
  <2> QED
    BY <2>3, <2>4
<1>2. ASSUME NEW p \in Requests, googleConnect(p)
      PROVE  \/ identity' = identity
             \/ \E s \in Subjects, e \in Emails : Connected(s, e)
  <2>1. GoogleRead(req[p]) /\ req[p].op = "connect"
    BY <1>2 DEF IInv, ReadOK, googleConnect
  <2>2. PICK s \in Subjects : s = req[p].subject
    BY <2>1 DEF GoogleRead
  <2>3. PICK e \in Emails : e = req[p].email /\ Verified(e)
    BY <2>1 DEF GoogleRead, WithPassword
  <2>4. Verified(e)'
    BY <1>0, <2>3, Grown DEF IInv
  <2>5. identity' = IF identity[s] = None /\ UserHasNone(e)
                    THEN [identity EXCEPT ![s] = e] ELSE identity
    BY <1>2, <2>2, <2>3, Zenon DEF googleConnect
  <2>6. UserHasNone(e) => \A t \in Subjects : identity[t] # e
    BY DEF UserHasNone, HoldersOf
  <2> QED
    BY <2>4, <2>5, <2>6 DEF Connected
<1>3. ASSUME NEW p \in Requests, googleDisconnect(p)
      PROVE  \E s \in Subjects, e \in Emails : Disconnected(s, e)
  <2>1. EmailRead(req[p]) /\ req[p].op = "disconnect"
    BY <1>3 DEF IInv, ReadOK, googleDisconnect
  <2>2. PICK s \in Subjects : s = req[p].subject
    BY <2>1 DEF EmailRead
  <2>3. PICK e \in Emails : e = req[p].email /\ Exists(e) /\ user[e].password
    BY <2>1 DEF EmailRead
  <2>4. identity' = [identity EXCEPT ![s] = IF @ = e THEN None ELSE @]
    BY <1>3, <2>2, <2>3, Zenon DEF googleDisconnect
  <2> QED
    BY <2>3, <2>4 DEF Disconnected
<1> QED
  BY <1>1, <1>2, <1>3, StepFrame DEF Frame, IdentityStep

LEMMA IdentityInv ==
    ASSUME IInv, [Next]_vars
    PROVE  /\ identity' \in [Subjects -> Emails \cup {None}]
           /\ IdentitiesVerified' /\ IdentitiesApart'
<1>1. identity \in [Subjects -> Emails \cup {None}] /\ None \notin Emails
  BY AccountsAssumption DEF IInv, TypeOK
<1>2. \A s \in Subjects : identity[s] # None =>
         identity[s] \in Emails /\ Verified(identity[s])
  BY <1>1 DEF IInv, IdentitiesVerified
<1>3. \A e \in Emails : Verified(e) => Verified(e)'
  BY UserStepGrows, Grown DEF IInv
<1>4. \A s, t \in Subjects : identity[s] # None /\ identity[s] = identity[t] => s = t
  BY DEF IInv, IdentitiesApart
<1>5. ASSUME /\ identity' \in [Subjects -> Emails \cup {None}]
             /\ \A s \in Subjects, e \in Emails : identity'[s] = e => Verified(e)'
      PROVE  IdentitiesVerified'
  <2>1. ASSUME NEW s \in Subjects, identity'[s] # None PROVE Verified(identity[s])'
    <3>1. PICK e \in Emails : e = identity'[s]
      BY <1>5, <2>1
    <3>2. Verified(e)'
      BY <1>5, <3>1
    <3> QED
      BY <3>1, <3>2
  <2> QED
    BY <2>1 DEF IdentitiesVerified
<1>6. CASE identity' = identity
  <2>1. \A s \in Subjects, e \in Emails : identity'[s] = e => Verified(e)'
    BY <1>1, <1>2, <1>3, <1>6
  <2> QED
    BY <1>1, <1>4, <1>5, <1>6, <2>1 DEF IdentitiesApart
<1>7. ASSUME NEW s \in Subjects, NEW e \in Emails, Connected(s, e)
      PROVE  /\ identity' \in [Subjects -> Emails \cup {None}]
             /\ IdentitiesVerified' /\ IdentitiesApart'
  <2>1. /\ identity' \in [Subjects -> Emails \cup {None}]
        /\ \A t \in Subjects : identity'[t] = IF t = s THEN e ELSE identity[t]
        /\ Verified(e)' /\ \A t \in Subjects : identity[t] # e
    BY <1>1, <1>7 DEF Connected
  <2>2. \A t \in Subjects, d \in Emails : identity'[t] = d => Verified(d)'
    BY <1>1, <1>2, <1>3, <2>1
  <2>3. IdentitiesApart'
    BY <1>4, <2>1 DEF IdentitiesApart
  <2> QED
    BY <1>5, <2>1, <2>2, <2>3
<1>8. ASSUME NEW s \in Subjects, NEW e \in Emails, Disconnected(s, e)
      PROVE  /\ identity' \in [Subjects -> Emails \cup {None}]
             /\ IdentitiesVerified' /\ IdentitiesApart'
  <2>1. /\ identity' \in [Subjects -> Emails \cup {None}]
        /\ \A t \in Subjects : identity'[t] \in {identity[t], None}
    BY <1>1, <1>8 DEF Disconnected
  <2>2. \A t \in Subjects, d \in Emails : identity'[t] = d => Verified(d)'
    BY <1>1, <1>2, <1>3, <2>1
  <2>3. IdentitiesApart'
    BY <1>4, <2>1 DEF IdentitiesApart
  <2> QED
    BY <1>5, <2>1, <2>2, <2>3
<1> QED
  BY <1>6, <1>7, <1>8, IdentityEdits

\* An account is created with a password, or with the Google account.
LEMMA NewAccounts ==
    ASSUME IInv, [Next]_vars, NEW e \in Emails, ~Exists(e), Exists(e)'
    PROVE  user'[e].password \/ \E s \in Subjects : identity'[s] = e
<1>1. user \in [Emails -> Row \cup {None}]
  BY DEF IInv, TypeOK
<1>2. ASSUME NEW d \in Emails, NEW row, user' = [user EXCEPT ![d] = row]
      PROVE  d = e /\ user'[e] = row
  BY <1>1, <1>2 DEF Exists
<1>3. user' # user
  BY DEF Exists
<1>4. ASSUME NEW p \in Requests, NEW mailed \in BOOLEAN, NEW arrives \in BOOLEAN,
             createUser(p, mailed, arrives)
      PROVE  user'[e].password
  <2>1. ~Exists(req[p].email)
    BY <1>3, <1>4 DEF createUser
  <2> QED
    BY <1>2, <1>4, <2>1, createUserToken
<1>5. ASSUME NEW p \in Requests, NEW mailed \in BOOLEAN, resendCommit(p, mailed)
      PROVE  FALSE
  BY <1>2, <1>5, resendRow
<1>6. ASSUME NEW p \in Requests, verifyCommit(p)
      PROVE  FALSE
  <2>1. ClaimableToken(req[p].row)
    BY <1>3, <1>6 DEF verifyCommit
  <2> QED
    BY <1>2, <1>6, <2>1, verifyRow
<1>7. ASSUME NEW p \in Requests, googleCreate(p)
      PROVE  \E s \in Subjects : identity'[s] = e
  <2>1. PICK s \in Subjects : s = req[p].subject
    BY <1>7 DEF IInv, ReadOK, GoogleRead, googleCreate
  <2>2. PICK d \in Emails : d = EmailOf[s]
    BY AccountsAssumption
  <2>3. user' = [user EXCEPT ![d] = GoogleRow] /\ identity' = [identity EXCEPT ![s] = d]
    BY <1>3, <1>7, <2>1, <2>2, Zenon DEF googleCreate
  <2>4. d = e
    BY <1>2, <2>3
  <2> QED
    BY <2>3, <2>4 DEF IInv, TypeOK
<1>8. ASSUME NEW d \in Emails, setUpPassword(d)
      PROVE  FALSE
  <2>1. Exists(d)
    BY <1>8 DEF setUpPassword, Verified
  <2>2. d = e
    BY <1>2, <1>8 DEF setUpPassword
  <2> QED
    BY <2>1, <2>2
<1> QED
  BY <1>3, <1>4, <1>5, <1>6, <1>7, <1>8, StepFrame DEF Frame, UserStep

LEMMA ReachableInv == ASSUME IInv, [Next]_vars PROVE AccountsStayReachable'
<1>1. identity \in [Subjects -> Emails \cup {None}] /\ None \notin Emails
  BY AccountsAssumption DEF IInv, TypeOK
<1> SUFFICES ASSUME NEW e \in Emails, Exists(e)', ~user'[e].password
             PROVE  \E s \in Subjects : identity'[s] = e
  BY DEF AccountsStayReachable, HoldersOf
<1>2. CASE ~Exists(e)
  BY <1>2, NewAccounts
<1>3. CASE Exists(e)
  <2>1. ~user[e].password
    BY <1>3, UserStepGrows, Grown DEF IInv
  <2>2. PICK s \in Subjects : identity[s] = e
    BY <1>3, <2>1 DEF IInv, AccountsStayReachable, HoldersOf
  <2>3. ASSUME NEW t \in Subjects, NEW d \in Emails, Connected(t, d)
        PROVE  identity'[s] = e
    BY <1>1, <2>2, <2>3 DEF Connected
  <2>4. ASSUME NEW t \in Subjects, NEW d \in Emails, Disconnected(t, d)
        PROVE  identity'[s] = e
    BY <1>1, <2>1, <2>2, <2>4 DEF Disconnected
  <2> QED
    BY <2>2, <2>3, <2>4, IdentityEdits
<1> QED
  BY <1>2, <1>3

-----------------------------------------------------------------------------
(* Sessions, and what the browser remembers *)

LEMMA SessionInv ==
    ASSUME IInv, [Next]_vars
    PROVE  session' \in SUBSET Emails /\ SessionsAreVerified'
<1>1. session \subseteq Emails /\ \A e \in session : Verified(e)
  BY DEF IInv, TypeOK, SessionsAreVerified
<1>2. \A e \in Emails : Verified(e) => Verified(e)'
  BY UserStepGrows, Grown DEF IInv
<1>3. ASSUME NEW e \in Emails, Verified(e), session' \subseteq session \cup {e}
      PROVE  session' \in SUBSET Emails /\ SessionsAreVerified'
  BY <1>1, <1>2, <1>3 DEF SessionsAreVerified
<1>4. ASSUME NEW p \in Requests, createSession(p)
      PROVE  session' \in SUBSET Emails /\ SessionsAreVerified'
  <2>1. req[p].email \in Emails /\ Verified(req[p].email)
    BY <1>4 DEF IInv, ReadOK, EmailRead, createSession
  <2>2. session' \subseteq session \cup {req[p].email}
    BY <1>4 DEF createSession
  <2> QED
    BY <1>3, <2>1, <2>2
<1>5. ASSUME NEW p \in Requests, googleSession(p)
      PROVE  session' \in SUBSET Emails /\ SessionsAreVerified'
  <2>1. req[p].email \in Emails /\ Verified(req[p].email)
    BY <1>5 DEF IInv, ReadOK, GoogleRead, googleSession
  <2>2. session' \subseteq session \cup {req[p].email}
    BY <1>5 DEF googleSession
  <2> QED
    BY <1>3, <2>1, <2>2
<1>6. CASE session' = session
  BY <1>1, <1>2, <1>6 DEF SessionsAreVerified
<1> QED
  BY <1>4, <1>5, <1>6, StepFrame DEF Frame, SessionStep

Remembers(st) ==
    /\ st \in Store
    /\ st.verified # None => Verified(st.verified)
    /\ st.signup # None /\ st.signupVerified => Verified(st.signup)

LEMMA SignupStored ==
    ASSUME Remembers(store), NEW e \in Emails
    PROVE  Remembers(storeSignupDebugData(e, FALSE))
<1>1. PICK st \in Store : st = store
  BY DEF Remembers
<1>2. PICK new : new = storeSignupDebugData(e, FALSE)
  OBVIOUS
<1>3. new = [signup |-> e, signupVerified |-> FALSE, verified |-> st.verified,
             pending |-> e]
  BY <1>1, <1>2, Zenon DEF storeSignupDebugData, Store
<1>4. new \in Store /\ new.verified = st.verified /\ new.signupVerified = FALSE
  BY <1>3 DEF Store
<1> QED
  BY <1>1, <1>2, <1>4 DEF Remembers

LEMMA SignupMarked ==
    ASSUME Remembers(store), NEW e \in Emails, Verified(e)
    PROVE  Remembers(markSignupEmailVerified(e))
<1>1. PICK st \in Store : st = store
  BY DEF Remembers
<1>2. PICK marked : marked = [st EXCEPT !.verified = e,
                                        !.pending = IF @ = e THEN None ELSE @]
  OBVIOUS
<1>3. marked = [signup |-> st.signup, signupVerified |-> st.signupVerified, verified |-> e,
                pending |-> IF st.pending = e THEN None ELSE st.pending]
  BY <1>2, Zenon DEF Store
<1>4. /\ marked \in Store /\ marked.verified = e /\ marked.signup = st.signup
      /\ marked.signupVerified = st.signupVerified
  BY <1>3 DEF Store
<1>5. CASE st.signup = e
  <2>1. PICK new : new = [marked EXCEPT !.signupVerified = TRUE]
    OBVIOUS
  <2>2. new \in Store /\ new.verified = e /\ new.signup = e
    BY <1>4, <1>5, <2>1 DEF Store
  <2>3. markSignupEmailVerified(e) = new
    BY <1>1, <1>2, <1>5, <2>1, Zenon DEF markSignupEmailVerified
  <2> QED
    BY <2>2, <2>3 DEF Remembers
<1>6. CASE st.signup # e
  <2>1. markSignupEmailVerified(e) = marked
    BY <1>1, <1>2, <1>6, Zenon DEF markSignupEmailVerified
  <2> QED
    BY <1>1, <1>4, <2>1 DEF Remembers
<1> QED
  BY <1>5, <1>6

LEMMA PendingStored ==
    ASSUME Remembers(store), NEW e \in Emails
    PROVE  Remembers([store EXCEPT !.pending = e])
<1>1. PICK st \in Store : st = store
  BY DEF Remembers
<1>2. PICK new : new = [st EXCEPT !.pending = e]
  OBVIOUS
<1>3. /\ new \in Store /\ new.verified = st.verified /\ new.signup = st.signup
      /\ new.signupVerified = st.signupVerified
  BY <1>2 DEF Store
<1>4. [store EXCEPT !.pending = e] = new
  BY <1>1, <1>2
<1> QED
  BY <1>1, <1>3, <1>4 DEF Remembers

LEMMA StoreInv ==
    ASSUME IInv, [Next]_vars
    PROVE  store' \in Store /\ RememberedIsVerified'
<1>1. Remembers(store)
  BY DEF IInv, TypeOK, RememberedIsVerified, Remembers
<1>2. \A e \in Emails : Verified(e) => Verified(e)'
  BY UserStepGrows, Grown DEF IInv
<1>3. ASSUME NEW st, Remembers(st), store' = st
      PROVE  store' \in Store /\ RememberedIsVerified'
  <2>1. st.verified # None => Verified(st.verified)'
    BY <1>2, <1>3 DEF Remembers, Store
  <2>2. st.signup # None /\ st.signupVerified => Verified(st.signup)'
    BY <1>2, <1>3 DEF Remembers, Store
  <2> QED
    BY <1>3, <2>1, <2>2 DEF Remembers, RememberedIsVerified
<1>4. ASSUME NEW p \in Requests, NEW mailed \in BOOLEAN, NEW arrives \in BOOLEAN,
             createUser(p, mailed, arrives)
      PROVE  \E st : Remembers(st) /\ store' = st
  <2>1. req[p].email \in Emails
    BY <1>4 DEF IInv, ReadOK, EmailRead, createUser
  <2>2. store' = store \/ store' = storeSignupDebugData(req[p].email, FALSE)
    BY <1>4, Zenon DEF createUser, registerAnswer
  <2>3. Remembers(storeSignupDebugData(req[p].email, FALSE))
    BY <1>1, <2>1, SignupStored
  <2> QED
    BY <1>1, <2>2, <2>3
<1>5. ASSUME NEW p \in Requests, showVerified(p) \/ createSession(p)
      PROVE  \E st : Remembers(st) /\ store' = st
  <2>1. req[p].email \in Emails /\ Verified(req[p].email)
    BY <1>5 DEF IInv, ReadOK, EmailRead, showVerified, createSession
  <2>2. store' = markSignupEmailVerified(req[p].email)
    BY <1>5, Zenon DEF showVerified, createSession
  <2>3. Remembers(markSignupEmailVerified(req[p].email))
    BY <1>1, <2>1, SignupMarked
  <2> QED
    BY <2>2, <2>3
<1>6. ASSUME NEW p \in Requests, loginRefused(p)
      PROVE  \E st : Remembers(st) /\ store' = st
  <2>1. req[p].email \in Emails
    BY <1>6 DEF IInv, ReadOK, EmailRead, loginRefused
  <2>2. store' = store \/ store' = [store EXCEPT !.pending = req[p].email]
    BY <1>6, Zenon DEF loginRefused
  <2>3. Remembers([store EXCEPT !.pending = req[p].email])
    BY <1>1, <2>1, PendingStored
  <2> QED
    BY <1>1, <2>2, <2>3
<1> QED
  BY <1>1, <1>3, <1>4, <1>5, <1>6, StepFrame DEF Frame, StoreStep

-----------------------------------------------------------------------------
(* The path to the root *)

\* The equation of the recursive function in Walk.
Ascent(f) ==
    [c \in Orgs |->
        IF ~org[c] THEN {None}
        ELSE IF c = Root THEN {c}
        ELSE IF Parent[c] = None THEN {None} ELSE {c} \cup f[Parent[c]]]
Up == CHOOSE f : f = Ascent(f)

\* It has a solution: what is reached from an organization without a step
\* above one that is not active, or above a root.
Continues(c) == org[c] /\ c # Root /\ Parent[c] # None
Closed(S) == \A x \in S : Continues(x) => Parent[x] \in S
Reach(c) == {x \in Orgs : \A S \in SUBSET Orgs : c \in S /\ Closed(S) => x \in S}
Passes(x) == org[x] /\ (x = Root \/ Parent[x] # None)
Reached(R) == {x \in R : Passes(x)} \cup {y \in {None} : \E x \in R : ~Passes(x)}

LEMMA ReachStops ==
    ASSUME NEW c \in Orgs, ~Continues(c)
    PROVE  Reach(c) = {c}
<1>1. {c} \in SUBSET Orgs /\ Closed({c})
  BY DEF Closed
<1> QED
  BY <1>1 DEF Reach

LEMMA ReachContinues ==
    ASSUME NEW c \in Orgs, Continues(c)
    PROVE  Parent[c] \in Orgs /\ Reach(c) = {c} \cup Reach(Parent[c])
<1>1. PICK d \in Orgs : d = Parent[c]
  BY AccountsAssumption DEF Continues
<1>2. \A x \in Orgs : Parent[x] \in Orgs \cup {None}
  BY AccountsAssumption
<1>3. ASSUME NEW x \in Reach(d) PROVE x \in Reach(c)
  <2>1. ASSUME NEW S \in SUBSET Orgs, c \in S, Closed(S) PROVE x \in S
    <3>1. d \in S
      BY <1>1, <2>1 DEF Closed
    <3> QED
      BY <1>3, <2>1, <3>1 DEF Reach
  <2> QED
    BY <1>3, <2>1 DEF Reach
<1>4. c \in Reach(c)
  BY DEF Reach
<1>5. Closed(Reach(d))
  <2>1. ASSUME NEW x \in Reach(d), Continues(x) PROVE Parent[x] \in Reach(d)
    <3>1. x \in Orgs /\ Parent[x] \in Orgs
      BY <1>2, <2>1 DEF Continues, Reach
    <3>2. ASSUME NEW S \in SUBSET Orgs, d \in S, Closed(S) PROVE Parent[x] \in S
      <4>1. x \in S
        BY <2>1, <3>2 DEF Reach
      <4> QED
        BY <2>1, <3>2, <4>1 DEF Closed
    <3> QED
      BY <3>1, <3>2 DEF Reach
  <2> QED
    BY <2>1 DEF Closed
<1>6. d \in Reach(d)
  BY DEF Reach
<1>7. PICK T : T = {c} \cup Reach(d)
  OBVIOUS
<1>8. T \in SUBSET Orgs /\ c \in T
  BY <1>7 DEF Reach
<1>9. Closed(T)
  BY <1>1, <1>5, <1>6, <1>7 DEF Closed
<1>10. Reach(c) \subseteq T
  BY <1>8, <1>9 DEF Reach
<1> QED
  BY <1>1, <1>3, <1>4, <1>7, <1>10

LEMMA UpIsAscent == Up = Ascent(Up)
<1> DEFINE f == [c \in Orgs |-> Reached(Reach(c))]
<1>1. ASSUME NEW c \in Orgs PROVE f[c] = Ascent(f)[c]
  <2>1. CASE ~Continues(c)
    <3>1. f[c] = Reached({c})
      BY <2>1, ReachStops
    <3>2. Reached({c}) = IF Passes(c) THEN {c} ELSE {None}
      BY DEF Reached
    <3>3. Ascent(f)[c] = IF Passes(c) THEN {c} ELSE {None}
      BY <2>1 DEF Ascent, Passes, Continues
    <3> QED
      BY <3>1, <3>2, <3>3
  <2>2. CASE Continues(c)
    <3>1. PICK d \in Orgs : d = Parent[c] /\ Reach(c) = {c} \cup Reach(d)
      BY <2>2, ReachContinues
    <3>2. Passes(c)
      BY <2>2 DEF Passes, Continues
    <3>3. Reached({c} \cup Reach(d)) = {c} \cup Reached(Reach(d))
      BY <3>2 DEF Reached
    <3>4. f[c] = {c} \cup f[d]
      BY <3>1, <3>3
    <3>5. Ascent(f)[c] = {c} \cup f[d]
      BY <2>2, <3>1 DEF Ascent, Continues
    <3> QED
      BY <3>4, <3>5
  <2> QED
    BY <2>1, <2>2
<1>2. f = Ascent(f)
  <2>1. f = [c \in Orgs |-> f[c]]
    OBVIOUS
  <2>2. Ascent(f) = [c \in Orgs |-> Ascent(f)[c]]
    BY DEF Ascent
  <2> HIDE DEF f
  <2> QED
    BY <1>1, <2>1, <2>2
<1>3. \E g : g = Ascent(g)
  BY <1>2
<1> QED
  BY <1>3 DEF Up

LEMMA WalkIsUp == ASSUME NEW o PROVE Walk(o) = Up[o]
  BY DEF Walk, Up, Ascent

\* A walk that got to the root has its start and, with an organization, the
\* one above it.
WholePath(S) ==
    S \subseteq Orgs /\ \A x \in S : Parent[x] # None => Parent[x] \in S

LEMMA WalksAreWhole ==
    ASSUME NEW o \in Orgs, None \notin Up[o]
    PROVE  o \in Up[o] /\ WholePath(Up[o])
<1> DEFINE Good(c) == None \notin Up[c] => c \in Up[c] /\ WholePath(Up[c])
           Bad == {c \in Orgs : ~Good(c)}
<1>1. \A c \in Orgs : Up[c] =
         IF ~org[c] THEN {None}
         ELSE IF c = Root THEN {c}
         ELSE IF Parent[c] = None THEN {None} ELSE {c} \cup Up[Parent[c]]
  <2>1. PICK f : f = Up
    OBVIOUS
  <2>2. f = Ascent(f)
    BY <2>1, UpIsAscent
  <2>3. \A c \in Orgs : f[c] =
           IF ~org[c] THEN {None}
           ELSE IF c = Root THEN {c}
           ELSE IF Parent[c] = None THEN {None} ELSE {c} \cup f[Parent[c]]
    BY <2>2 DEF Ascent
  <2> QED
    BY <2>1, <2>3
<1>2. ASSUME Bad # {} PROVE FALSE
  <2>1. PICK c \in Bad : Parent[c] \notin Bad
    BY <1>2, HierarchyAssumption
  <2>2. c \in Orgs /\ None \notin Up[c] /\ ~Good(c)
    OBVIOUS
  <2>3. org[c] /\ (c = Root \/ Parent[c] # None)
    BY <1>1, <2>2
  <2>4. CASE c = Root
    <3>1. Up[c] = {c} /\ Parent[c] = None
      BY <1>1, <2>2, <2>3, <2>4, AccountsAssumption
    <3> QED
      BY <2>2, <3>1 DEF WholePath
  <2>5. CASE c # Root
    <3>1. PICK d \in Orgs : d = Parent[c]
      BY <2>2, <2>3, <2>5, AccountsAssumption
    <3>2. Up[c] = {c} \cup Up[d]
      BY <1>1, <2>2, <2>3, <2>5, <3>1
    <3>3. d \in Up[d] /\ WholePath(Up[d])
      BY <2>1, <2>2, <3>1, <3>2
    <3> QED
      BY <2>2, <3>1, <3>2, <3>3 DEF WholePath
  <2> QED
    BY <2>4, <2>5
<1> QED
  BY <1>2

LEMMA PathsAreWhole == ASSUME NEW o \in Orgs PROVE WholePath(Path(o))
  BY WalkIsUp, WalksAreWhole DEF Path, WholePath

LEMMA MemberInv ==
    ASSUME IInv, [Next]_vars
    PROVE  member' \in [Emails -> SUBSET Orgs] /\ MembersOfTheWholePath'
<1>1. /\ member \in [Emails -> SUBSET Orgs]
      /\ \A e \in Emails : WholePath(member[e])
  BY DEF IInv, TypeOK, MembersOfTheWholePath, WholePath
<1>2. ASSUME member' \in [Emails -> SUBSET Orgs], \A e \in Emails : WholePath(member'[e])
      PROVE  MembersOfTheWholePath'
  BY <1>2 DEF MembersOfTheWholePath, WholePath
<1>3. ASSUME NEW p \in Requests, verifyCommit(p), member' # member
      PROVE  member' \in [Emails -> SUBSET Orgs] /\ MembersOfTheWholePath'
  <2>1. PICK e \in Emails : e = token[req[p].row].email
    BY <1>3, verifyRow DEF verifyCommit
  <2>2. member' = [member EXCEPT ![e] = @ \cup OrganizationsToJoin(e)]
    BY <1>3, <2>1, Zenon DEF verifyCommit
  <2>3. Matched(e) \subseteq Orgs
    BY AccountsAssumption DEF Matched
  <2>4. WholePath(OrganizationsToJoin(e))
    <3>1. \A o \in Matched(e) : WholePath(Path(o))
      BY <2>3, PathsAreWhole
    <3> QED
      BY <3>1 DEF OrganizationsToJoin, WholePath
  <2>5. ASSUME NEW A, NEW B, WholePath(A), WholePath(B) PROVE WholePath(A \cup B)
    BY <2>5 DEF WholePath
  <2>6. member' \in [Emails -> SUBSET Orgs]
    BY <1>1, <2>2, <2>4 DEF WholePath
  <2>7. \A d \in Emails : WholePath(member'[d])
    BY <1>1, <2>2, <2>4, <2>5
  <2> QED
    BY <1>2, <2>6, <2>7
<1>4. CASE member' = member
  BY <1>1, <1>2, <1>4
<1> QED
  BY <1>3, <1>4, StepFrame DEF Frame

-----------------------------------------------------------------------------
(* Requests *)

LEMMA RulesInv ==
    ASSUME IInv, [Next]_vars
    PROVE  /\ org' \in [Orgs -> BOOLEAN] /\ autoJoin' \in BOOLEAN
           /\ allowlist' \in [Orgs -> [Emails -> {"none", "unused", "used"}]]
<1>1. /\ org \in [Orgs -> BOOLEAN] /\ autoJoin \in BOOLEAN
      /\ allowlist \in [Orgs -> [Emails -> {"none", "unused", "used"}]]
  BY DEF IInv, TypeOK
<1>2. CASE UNCHANGED rules
  BY <1>1, <1>2 DEF rules
<1>3. ASSUME NEW p \in Requests, verifyCommit(p)
      PROVE  /\ org' = org /\ autoJoin' = autoJoin
             /\ allowlist' \in [Orgs -> [Emails -> {"none", "unused", "used"}]]
  <2>1. org' = org /\ autoJoin' = autoJoin
    BY <1>3 DEF verifyCommit
  <2>2. CASE ~ClaimableToken(req[p].row)
    BY <1>1, <1>3, <2>1, <2>2 DEF verifyCommit
  <2>3. CASE ClaimableToken(req[p].row)
    <3>1. PICK e \in Emails : e = token[req[p].row].email
      BY <1>3, <2>3, verifyRow
    <3>2. allowlist' = [o \in Orgs |-> [allowlist[o] EXCEPT ![e] =
             IF o \in ConsumedEntries(e) /\ @ = "unused" THEN "used" ELSE @]]
      BY <1>3, <2>3, <3>1, Zenon DEF verifyCommit
    <3>3. ASSUME NEW o \in Orgs
          PROVE  [allowlist[o] EXCEPT ![e] =
                     IF o \in ConsumedEntries(e) /\ @ = "unused" THEN "used" ELSE @]
                 \in [Emails -> {"none", "unused", "used"}]
      BY <1>1
    <3> QED
      BY <2>1, <3>2, <3>3
  <2> QED
    BY <2>2, <2>3
<1>4. ASSUME NEW o \in Orgs, organizationChanges(o)
      PROVE  /\ org' \in [Orgs -> BOOLEAN] /\ autoJoin' = autoJoin
             /\ allowlist' = allowlist
  BY <1>1, <1>4 DEF organizationChanges
<1>5. ASSUME NEW o \in Orgs, NEW e \in Emails, allowlistChanges(o, e)
      PROVE  /\ org' = org /\ autoJoin' = autoJoin
             /\ allowlist' \in [Orgs -> [Emails -> {"none", "unused", "used"}]]
  <2>1. PICK new \in [Emails -> {"none", "unused", "used"}] :
           new = [allowlist[o] EXCEPT ![e] = IF @ = "none" THEN "unused" ELSE "none"]
    BY <1>1
  <2>2. allowlist' = [allowlist EXCEPT ![o] = new] /\ org' = org /\ autoJoin' = autoJoin
    BY <1>5, <2>1, Zenon DEF allowlistChanges
  <2> QED
    BY <1>1, <2>2
<1> QED
  BY <1>1, <1>2, <1>3, <1>4, <1>5, StepFrame DEF Frame, RulesStep

LEMMA FlowType ==
    ASSUME IInv, [Next]_vars
    PROVE  flow' = None \/ flow' \in [state : Nat, purpose : {"LOGIN", "CONNECT"},
                                      email : Emails \cup {None}]
<1>1. flow = None \/ flow \in [state : Nat, purpose : {"LOGIN", "CONNECT"},
                               email : Emails \cup {None}]
  BY DEF IInv, TypeOK
<1>2. made \in Nat
  BY DEF IInv
<1>3. ASSUME NEW p \in Requests, NEW e \in Emails, beginGoogleConnection(p, e)
      PROVE  flow' = [state |-> made, purpose |-> "CONNECT", email |-> e]
  BY <1>3, Zenon DEF beginGoogleConnection, createAuthorizationUrl
<1>4. ASSUME NEW p \in Requests, beginGoogleLogin(p)
      PROVE  flow' = [state |-> made, purpose |-> "LOGIN", email |-> None]
  BY <1>4, Zenon DEF beginGoogleLogin, createAuthorizationUrl
<1>5. ASSUME NEW p \in Requests, NEW s \in Subjects \cup {None}, googleCallback(p, s)
      PROVE  flow' = None
  BY <1>5 DEF googleCallback
<1>6. CASE flow' = flow
  BY <1>1, <1>6
<1> QED
  BY <1>2, <1>3, <1>4, <1>5, <1>6, StepFrame DEF Frame, FlowStep

LEMMA TypeInv == ASSUME IInv, [Next]_vars PROVE TypeOK'
<1>1. user' \in [Emails -> Row \cup {None}] /\ token' \in Seq(Token)
  BY UserStepGrows, TokenStepGrows DEF TokensGrow
<1>2. /\ identity' \in [Subjects -> Emails \cup {None}]
      /\ member' \in [Emails -> SUBSET Orgs]
      /\ session' \subseteq Emails /\ store' \in Store
  BY IdentityInv, MemberInv, SessionInv, StoreInv
<1> QED
  BY <1>1, <1>2, RulesInv, FlowType DEF TypeOK

\* A request that is replaced, while the others stay.
LEMMA Replaced ==
    ASSUME IInv, [Next]_vars, NEW p \in Requests, NEW r,
           req' = [req EXCEPT ![p] = r], ReadOK(r)'
    PROVE  DOMAIN req' = Requests /\ \A q \in Requests : ReadOK(req[q])'
<1>1. DOMAIN req = Requests
  BY DEF IInv
<1>2. ASSUME NEW q \in Requests, q # p PROVE ReadOK(req[q])'
  <2>1. PICK x : x = req[q]
    OBVIOUS
  <2>2. x = req'[q]
    BY <1>1, <1>2, <2>1
  <2>3. ReadOK(x) /\ VerifyRead(x)
    BY <2>1 DEF IInv, ReadOK
  <2>4. ReadOK(x)'
    BY <2>3, UserStepGrows, TokenStepGrows, FlowStepMoves, VerifyReadInv, ReadKept
  <2> QED
    BY <2>2, <2>4
<1>3. req'[p] = r
  BY <1>1
<1>4. ReadOK(req[p])'
  BY <1>3
<1> QED
  BY <1>1, <1>2, <1>4

\* It is enough that the new request is right about the state before the step.
LEMMA ReplacedBy ==
    ASSUME IInv, [Next]_vars, NEW p \in Requests, NEW r,
           req' = [req EXCEPT ![p] = r], ReadOK(r)
    PROVE  DOMAIN req' = Requests /\ \A q \in Requests : ReadOK(req[q])'
<1>1. VerifyRead(r)
  BY DEF ReadOK
<1>2. ReadOK(r)'
  BY <1>1, UserStepGrows, TokenStepGrows, FlowStepMoves, VerifyReadInv, ReadKept
<1> QED
  BY <1>2, Replaced

LEMMA IdleRead == ReadOK(Idle)
<1>1. Idle.op = "idle"
  BY DEF Idle
<1> QED
  BY <1>1 DEF ReadOK, EmailRead, LinksRead, VerifyRead, GoogleRead

\* Requests that know an address only.
LEMMA EmailRequest ==
    ASSUME NEW op, NEW e \in Emails, NEW r, r = [op |-> op, email |-> e],
           \/ op \in {"register", "unverified", "refused"}
           \/ op = "resend" /\ Exists(e)
           \/ op \in {"sync", "session"} /\ Verified(e)
    PROVE  ReadOK(r)
<1>1. r.op = op /\ r.email = e
  OBVIOUS
<1> QED
  BY <1>1 DEF ReadOK, EmailRead, LinksRead, VerifyRead, GoogleRead

ReadsKept == DOMAIN req' = Requests /\ \A q \in Requests : ReadOK(req[q])'

LEMMA Ended == ASSUME IInv, [Next]_vars, NEW p \in Requests, End(p) PROVE ReadsKept
  BY IdleRead, ReplacedBy DEF End, Become, ReadsKept

LEMMA NothingRead == ASSUME IInv, [Next]_vars, req' = req PROVE ReadsKept
<1>1. DOMAIN req' = Requests
  BY DEF IInv
<1>2. ASSUME NEW q \in Requests PROVE ReadOK(req[q])'
  <2>1. PICK x : x = req[q]
    OBVIOUS
  <2>2. ReadOK(x) /\ VerifyRead(x)
    BY <2>1 DEF IInv, ReadOK
  <2>3. ReadOK(x)'
    BY <2>2, UserStepGrows, TokenStepGrows, FlowStepMoves, VerifyReadInv, ReadKept
  <2> QED
    BY <2>1, <2>3
<1> QED
  BY <1>1, <1>2 DEF ReadsKept

\* The pages that begin with an address or with a link.
LEMMA BeginReads ==
    ASSUME IInv, [Next]_vars, NEW p \in Requests,
           \/ \E e \in Emails :
                 \/ submitSignup(p, e) \/ resendVerificationEmail(p, e)
                 \/ \E right \in BOOLEAN : login(p, e, right)
                 \/ \E s \in Subjects : disconnectGoogle(p, e, s)
           \/ \E i \in 1..MaxTokens : verifyEmail(p, i)
    PROVE  ReadsKept
<1>1. ASSUME NEW r, ReadOK(r), Begin(p, r) PROVE ReadsKept
  BY <1>1, ReplacedBy, Zenon DEF Begin, ReadsKept
<1>2. ASSUME NEW e \in Emails, submitSignup(p, e) PROVE ReadsKept
  BY <1>1, <1>2, EmailRequest DEF submitSignup
<1>3. ASSUME NEW e \in Emails, resendVerificationEmail(p, e) PROVE ReadsKept
  BY <1>1, <1>3, EmailRequest DEF resendVerificationEmail
<1>4. ASSUME NEW e \in Emails, NEW right \in BOOLEAN, login(p, e, right) PROVE ReadsKept
  <2>1. PICK op : op = IF right /\ MayLogIn(e) THEN "session"
                       ELSE IF right /\ Exists(e) /\ user[e].password
                       THEN "unverified" ELSE "refused"
    OBVIOUS
  <2>2. Begin(p, [op |-> op, email |-> e])
    BY <1>4, <2>1, Zenon DEF login
  <2>3. op \in {"unverified", "refused"} \/ (op = "session" /\ Verified(e))
    BY <2>1 DEF MayLogIn
  <2> QED
    BY <1>1, <2>2, <2>3, EmailRequest
<1>5. ASSUME NEW e \in Emails, NEW s \in Subjects, disconnectGoogle(p, e, s)
      PROVE  ReadsKept
  <2>1. PICK r : r = [op |-> "disconnect", email |-> e, subject |-> s]
    OBVIOUS
  <2>2. Exists(e) /\ user[e].password
    BY <1>5 DEF disconnectGoogle, verifyPassword, IInv, SessionsAreVerified, Verified
  <2>3. r.op = "disconnect" /\ r.email = e /\ r.subject = s
    BY <2>1
  <2>4. ReadOK(r)
    BY <2>2, <2>3 DEF ReadOK, EmailRead, LinksRead, VerifyRead, GoogleRead
  <2> QED
    BY <1>1, <1>5, <2>1, <2>4 DEF disconnectGoogle
<1>6. ASSUME NEW i \in 1..MaxTokens, verifyEmail(p, i) PROVE ReadsKept
  <2>1. i \in DOMAIN token
    BY <1>6 DEF verifyEmail
  <2>2. PICK e \in Emails : e = token[i].email
    BY <2>1, TokenOf DEF IInv
  <2>3. CASE Verified(e) /\ Begin(p, [op |-> "sync", email |-> e])
    BY <1>1, <2>3, EmailRequest
  <2>4. CASE ~Verified(e) /\ Begin(p, [op |-> "verify", row |-> i])
    <3>1. PICK r : r = [op |-> "verify", row |-> i]
      OBVIOUS
    <3>2. r.op = "verify" /\ r.row = i
      BY <3>1
    <3>3. ReadOK(r)
      BY <2>1, <2>2, <2>4, <3>2 DEF ReadOK, EmailRead, LinksRead, VerifyRead, GoogleRead
    <3> QED
      BY <1>1, <2>4, <3>1, <3>3
  <2> QED
    BY <1>6, <2>2, <2>3, <2>4, Zenon DEF verifyEmail
<1> QED
  BY <1>2, <1>3, <1>4, <1>5, <1>6

\* A tab that goes to Google.
LEMMA FlowReads ==
    ASSUME IInv, [Next]_vars, NEW p \in Requests, NEW purpose, NEW e,
           createAuthorizationUrl(p, purpose, e)
    PROVE  ReadsKept
<1>1. PICK r : r = [op |-> "google", state |-> made, purpose |-> purpose, email |-> e]
  OBVIOUS
<1>2. /\ req' = [req EXCEPT ![p] = r] /\ made' = made + 1
      /\ flow' = [state |-> made, purpose |-> purpose, email |-> e]
  BY <1>1, Zenon DEF createAuthorizationUrl, Begin
<1>3. r.op = "google" /\ r.state = made /\ r.purpose = purpose /\ r.email = e
  BY <1>1
<1>4. made \in Nat
  BY DEF IInv
<1>5. GoogleRead(r)'
  BY <1>2, <1>3, <1>4 DEF GoogleRead
<1>6. EmailRead(r)' /\ LinksRead(r)' /\ VerifyRead(r)'
  BY <1>3 DEF EmailRead, LinksRead, VerifyRead
<1> QED
  BY <1>2, <1>5, <1>6, Replaced DEF ReadOK, ReadsKept

LEMMA SnapshotReads ==
    ASSUME IInv, [Next]_vars, NEW p \in Requests, resendSnapshot(p)
    PROVE  ReadsKept
<1>1. PICK e \in Emails : e = req[p].email /\ Exists(e)
  BY DEF IInv, ReadOK, EmailRead, resendSnapshot
<1>2. PICK rows : rows = {i \in DOMAIN token : token[i].email = e /\ LiveToken(i)}
  OBVIOUS
<1>3. PICK r : r = [op |-> "mail", email |-> e, upto |-> Len(token), rows |-> rows]
  OBVIOUS
<1>4. req' = [req EXCEPT ![p] = r]
  BY <1>1, <1>2, <1>3, Zenon DEF resendSnapshot, Become
<1>5. r.op = "mail" /\ r.email = e /\ r.upto = Len(token) /\ r.rows = rows
  BY <1>3
<1>6. token \in Seq(Token) /\ Len(token) \in Nat /\ DOMAIN token = 1..Len(token)
  BY DEF IInv, TypeOK
<1>7. LinksRead(r)
  BY <1>2, <1>5, <1>6 DEF LinksRead
<1>8. EmailRead(r) /\ VerifyRead(r) /\ GoogleRead(r)
  BY <1>1, <1>5 DEF EmailRead, VerifyRead, GoogleRead
<1> QED
  BY <1>4, <1>7, <1>8, ReplacedBy DEF ReadOK, ReadsKept

LEMMA VerifyReads ==
    ASSUME IInv, [Next]_vars, NEW p \in Requests, verifyCommit(p)
    PROVE  ReadsKept
<1>1. CASE ~ClaimableToken(req[p].row)
  BY <1>1, Ended DEF verifyCommit
<1>2. CASE ClaimableToken(req[p].row)
  <2>1. PICK e \in Emails : e = token[req[p].row].email /\ Exists(e)
    BY <1>2, verifyRow
  <2>2. PICK row \in Row : /\ user' = [user EXCEPT ![e] = row]
                           /\ row.verified = user[e].verified + 1
    BY <1>2, <2>1, verifyRow
  <2>3. user[e].verified \in Nat
    BY <2>1, RowOf DEF IInv, Row
  <2>4. user'[e] = row
    BY <2>2 DEF IInv, TypeOK
  <2>5. Verified(e)'
    BY <2>2, <2>3, <2>4, NoneIsNoRow DEF Verified, Exists
  <2>6. PICK r : r = [op |-> "sync", email |-> e]
    OBVIOUS
  <2>7. req' = [req EXCEPT ![p] = r]
    BY <1>2, <2>1, <2>6, Zenon DEF verifyCommit, Become
  <2>8. r.op = "sync" /\ r.email = e
    BY <2>6
  <2>9. ReadOK(r)'
    BY <2>5, <2>8 DEF ReadOK, EmailRead, LinksRead, VerifyRead, GoogleRead
  <2> QED
    BY <2>7, <2>9, Replaced DEF ReadsKept
<1> QED
  BY <1>1, <1>2

\* A sign-in with Google goes on with a verified account.
LEMMA GoogleSessionRead ==
    ASSUME NEW e \in Emails, NEW s \in Subjects, NEW asked, asked.purpose = "LOGIN",
           NEW r, r = [op |-> "google session", email |-> e, subject |-> s, asked |-> asked]
    PROVE  (Verified(e) => ReadOK(r)) /\ (Verified(e)' => ReadOK(r)')
<1>1. /\ r.op = "google session" /\ r.email = e /\ r.subject = s
      /\ r.asked = asked
  OBVIOUS
<1>2. EmailRead(r) /\ LinksRead(r) /\ VerifyRead(r)
  BY <1>1 DEF EmailRead, LinksRead, VerifyRead
<1>3. EmailRead(r)' /\ LinksRead(r)' /\ VerifyRead(r)'
  BY <1>1 DEF EmailRead, LinksRead, VerifyRead
<1>4. Verified(e) => GoogleRead(r)
  BY <1>1 DEF GoogleRead
<1>5. Verified(e)' => GoogleRead(r)'
  BY <1>1 DEF GoogleRead
<1> QED
  BY <1>2, <1>3, <1>4, <1>5 DEF ReadOK

\* The callback goes on with what its own tab asked for: the cookie that it
\* accepts has the state of that tab.
LEMMA CallbackReads ==
    ASSUME IInv, NEW p \in Requests, req[p].op = "google", NEW s \in Subjects
    PROVE  ReadOK(Callback(p, s))
<1>1. PICK asked : asked = [purpose |-> req[p].purpose, by |-> req[p].email]
  OBVIOUS
<1>2. asked.purpose = req[p].purpose /\ asked.by = req[p].email
  BY <1>1
<1>3. CASE ~OwnFlow(p)
  BY <1>3, IdleRead DEF Callback
<1>4. CASE OwnFlow(p)
  <2>1. flow # None /\ flow.purpose = req[p].purpose /\ flow.email = req[p].email
    BY <1>4 DEF OwnFlow, IInv, ReadOK, GoogleRead
  <2>2. CASE flow.purpose = "CONNECT"
    <3>1. PICK e : e = flow.email /\ WithPassword(e)
      BY <2>1, <2>2 DEF IInv, FlowOK
    <3>2. PICK r : r = [op |-> "connect", email |-> e, subject |-> s, asked |-> asked]
      OBVIOUS
    <3>3. /\ r.op = "connect" /\ r.email = e /\ r.subject = s
          /\ r.asked = [purpose |-> "CONNECT", by |-> e]
      BY <1>1, <2>1, <2>2, <3>1, <3>2
    <3>4. ReadOK(r)
      BY <3>1, <3>3 DEF ReadOK, EmailRead, LinksRead, VerifyRead, GoogleRead
    <3>5. Callback(p, s) = r \/ Callback(p, s) = Idle
      BY <1>1, <1>4, <2>2, <3>1, <3>2, Zenon DEF Callback
    <3> QED
      BY <3>4, <3>5, IdleRead
  <2>3. CASE flow.purpose # "CONNECT"
    <3>1. asked.purpose = "LOGIN"
      BY <1>2, <2>1, <2>3 DEF IInv, TypeOK
    <3>2. CASE identity[s] # None
      <4>1. PICK e \in Emails : e = identity[s] /\ Verified(e)
        BY <3>2 DEF IInv, TypeOK, IdentitiesVerified
      <4>2. PICK r : r = [op |-> "google session", email |-> e, subject |-> s,
                          asked |-> asked]
        OBVIOUS
      <4>3. Callback(p, s) = r
        BY <1>1, <1>4, <2>3, <3>2, <4>1, <4>2, Zenon DEF Callback
      <4> QED
        BY <3>1, <4>1, <4>2, <4>3, GoogleSessionRead
    <3>3. CASE identity[s] = None
      <4>1. PICK r : r = [op |-> "google create", subject |-> s, asked |-> asked]
        OBVIOUS
      <4>2. r.op = "google create" /\ r.subject = s /\ r.asked = asked
        BY <4>1
      <4>3. ReadOK(r)
        BY <3>1, <4>2 DEF ReadOK, EmailRead, LinksRead, VerifyRead, GoogleRead
      <4>4. Callback(p, s) = r \/ Callback(p, s) = Idle
        BY <1>1, <1>4, <2>3, <3>3, <4>1, Zenon DEF Callback
      <4> QED
        BY <4>3, <4>4, IdleRead
    <3> QED
      BY <3>2, <3>3
  <2> QED
    BY <2>2, <2>3
<1> QED
  BY <1>3, <1>4

LEMMA GoogleCreateReads ==
    ASSUME IInv, [Next]_vars, NEW p \in Requests, googleCreate(p)
    PROVE  ReadsKept
<1>1. PICK s \in Subjects : s = req[p].subject
  BY DEF IInv, ReadOK, GoogleRead, googleCreate
<1>2. PICK asked : asked = req[p].asked /\ asked.purpose = "LOGIN"
  BY DEF IInv, ReadOK, GoogleRead, googleCreate
<1>3. PICK d \in Emails : d = EmailOf[s]
  BY AccountsAssumption
<1>4. CASE identity[s] # None
  <2>1. PICK e \in Emails : e = identity[s] /\ Verified(e)
    BY <1>4 DEF IInv, TypeOK, IdentitiesVerified
  <2>2. PICK r : r = [op |-> "google session", email |-> e, subject |-> s,
                      asked |-> asked]
    OBVIOUS
  <2>3. req' = [req EXCEPT ![p] = r]
    BY <1>1, <1>2, <1>4, <2>1, <2>2, Zenon DEF googleCreate, Become
  <2> QED
    BY <1>2, <2>1, <2>2, <2>3, GoogleSessionRead, ReplacedBy DEF ReadsKept
<1>5. CASE identity[s] = None /\ Exists(d)
  <2>1. End(p)
    BY <1>1, <1>3, <1>5, Zenon DEF googleCreate
  <2> QED
    BY <2>1, Ended
<1>6. CASE identity[s] = None /\ ~Exists(d)
  <2>1. PICK r : r = [op |-> "google session", email |-> d, subject |-> s,
                      asked |-> asked]
    OBVIOUS
  <2>2. /\ req' = [req EXCEPT ![p] = r]
        /\ user' = [user EXCEPT ![d] = GoogleRow]
    BY <1>1, <1>2, <1>3, <1>6, <2>1, Zenon DEF googleCreate, Become
  <2>3. GoogleRow \in Row /\ GoogleRow.verified = 1
    BY DEF Row, GoogleRow
  <2>4. user'[d] = GoogleRow
    BY <2>2 DEF IInv, TypeOK
  <2>5. Verified(d)'
    BY <2>3, <2>4, NoneIsNoRow DEF Verified, Exists
  <2> QED
    BY <1>2, <2>1, <2>2, <2>5, GoogleSessionRead, Replaced DEF ReadsKept
<1> QED
  BY <1>4, <1>5, <1>6

LEMMA ReadsInv == ASSUME IInv, [Next]_vars PROVE ReadsKept
<1>1. ASSUME NEW p \in Requests,
             \/ \E e \in Emails :
                   \/ submitSignup(p, e) \/ resendVerificationEmail(p, e)
                   \/ \E right \in BOOLEAN : login(p, e, right)
                   \/ \E s \in Subjects : disconnectGoogle(p, e, s)
             \/ \E i \in 1..MaxTokens : verifyEmail(p, i)
      PROVE  ReadsKept
  BY <1>1, BeginReads
<1>2. ASSUME NEW p \in Requests, NEW e \in Emails, beginGoogleConnection(p, e)
      PROVE  ReadsKept
  BY <1>2, FlowReads DEF beginGoogleConnection
<1>3. ASSUME NEW p \in Requests, beginGoogleLogin(p) PROVE ReadsKept
  BY <1>3, FlowReads DEF beginGoogleLogin
<1>4. ASSUME NEW p \in Requests,
             \/ \E mailed, arrives \in BOOLEAN : createUser(p, mailed, arrives)
             \/ \E mailed \in BOOLEAN : resendCommit(p, mailed)
             \/ showVerified(p) \/ createSession(p) \/ loginRefused(p)
             \/ googleSession(p) \/ googleConnect(p) \/ googleDisconnect(p)
      PROVE  ReadsKept
  <2>1. End(p)
    BY <1>4, Zenon DEF createUser, resendCommit, showVerified, createSession, loginRefused,
         googleSession, googleConnect, googleDisconnect
  <2> QED
    BY <2>1, Ended
<1>5. ASSUME NEW p \in Requests, resendSnapshot(p) PROVE ReadsKept
  BY <1>5, SnapshotReads
<1>6. ASSUME NEW p \in Requests, verifyCommit(p) PROVE ReadsKept
  BY <1>6, VerifyReads
<1>7. ASSUME NEW p \in Requests, NEW s \in Subjects \cup {None}, googleCallback(p, s)
      PROVE  ReadsKept
  <2>1. PICK r : r = IF s = None THEN Idle ELSE Callback(p, s)
    OBVIOUS
  <2>2. ReadOK(r)
    BY <1>7, <2>1, IdleRead, CallbackReads DEF googleCallback
  <2>3. req' = [req EXCEPT ![p] = r]
    BY <1>7, <2>1, Zenon DEF googleCallback, Become
  <2> QED
    BY <2>2, <2>3, ReplacedBy DEF ReadsKept
<1>8. ASSUME NEW p \in Requests, googleCreate(p) PROVE ReadsKept
  BY <1>8, GoogleCreateReads
<1>9. ASSUME \/ \E e \in Emails : setUpPassword(e)
             \/ \E i \in 1..MaxTokens : tokenAges(i)
             \/ \E o \in Orgs : organizationChanges(o)
             \/ \E o \in Orgs, e \in Emails : allowlistChanges(o, e)
             \/ UNCHANGED vars
      PROVE  ReadsKept
  <2>1. req' = req
    BY <1>9, Zenon DEF setUpPassword, tokenAges, organizationChanges, allowlistChanges, vars
  <2> QED
    BY <2>1, NothingRead
<1> QED
  BY <1>1, <1>2, <1>3, <1>4, <1>5, <1>6, <1>7, <1>8, <1>9, Zenon DEF Next

-----------------------------------------------------------------------------
(* The theorems *)

LEMMA Initially == Init => IInv
<1> SUFFICES ASSUME Init PROVE IInv
  OBVIOUS
<1>1. PICK waiting \in Emails \cup {None}, here \in BOOLEAN :
      \E settled \in SUBSET (Emails \ {waiting}) :
        /\ user = [e \in Emails |->
              IF e \in settled THEN [password |-> TRUE, verified |-> 1, missed |-> FALSE]
              ELSE IF e = waiting THEN [password |-> TRUE, verified |-> 0, missed |-> FALSE]
              ELSE None]
        /\ token = IF waiting = None THEN <<>>
                   ELSE <<[NewToken(waiting, TRUE) EXCEPT !.fresh = FALSE]>>
        /\ session = settled
        /\ store = LET mine == IF here THEN waiting ELSE None
                   IN  [signup |-> mine, signupVerified |-> FALSE,
                        verified |-> None, pending |-> mine]
  BY ZenonT(60) DEF Init
<1>2. PICK settled \in SUBSET (Emails \ {waiting}) :
        /\ user = [e \in Emails |->
              IF e \in settled THEN [password |-> TRUE, verified |-> 1, missed |-> FALSE]
              ELSE IF e = waiting THEN [password |-> TRUE, verified |-> 0, missed |-> FALSE]
              ELSE None]
        /\ session = settled
  BY <1>1
<1>3. /\ identity = [s \in Subjects |-> None] /\ org = [o \in Orgs |-> TRUE]
      /\ autoJoin \in BOOLEAN /\ allowlist = [o \in Orgs |-> [e \in Emails |-> "none"]]
      /\ member = [e \in Emails |-> {}] /\ flow = None
      /\ req = [p \in Requests |-> Idle] /\ made = 0
  BY DEF Init
<1>4. None \notin Emails
  BY AccountsAssumption
<1>5. user \in [Emails -> Row \cup {None}]
  BY <1>2 DEF Row
<1>6. /\ \A e \in settled : Exists(e) /\ user[e].verified = 1
      /\ waiting # None => Exists(waiting)
      /\ \A e \in Emails : Exists(e) => user[e].password /\ user[e].verified <= 1
  <2>1. PICK done, new : /\ done = [password |-> TRUE, verified |-> 1, missed |-> FALSE]
                         /\ new = [password |-> TRUE, verified |-> 0, missed |-> FALSE]
    OBVIOUS
  <2>2. /\ done \in Row /\ new \in Row
        /\ done.password = TRUE /\ done.verified = 1
        /\ new.password = TRUE /\ new.verified = 0
    BY <2>1 DEF Row
  <2>3. \A e \in Emails : user[e] = IF e \in settled THEN done
                                    ELSE IF e = waiting THEN new ELSE None
    BY <1>2, <2>1
  <2> QED
    BY <1>4, <2>2, <2>3, NoneIsNoRow DEF Exists
<1>7. token = <<>> \/ \E x \in Token : token = <<x>> /\ Exists(x.email)
  <2>1. CASE waiting = None
    BY <1>1, <2>1
  <2>2. CASE waiting # None
    <3>1. waiting \in Emails
      BY <2>2
    <3>2. PICK t \in Token : t = NewToken(waiting, TRUE) /\ t.email = waiting
      BY <3>1, NewTokenOK
    <3>3. PICK x : x = [t EXCEPT !.fresh = FALSE]
      OBVIOUS
    <3>4. x \in Token /\ x.email = waiting
      BY <3>2, <3>3 DEF Token
    <3>5. token = <<x>>
      BY <1>1, <2>2, <3>2, <3>3
    <3> QED
      BY <1>6, <2>2, <3>4, <3>5
  <2> QED
    BY <2>1, <2>2
<1>8. token \in Seq(Token) /\ \A i \in DOMAIN token : i = 1 /\ Exists(token[i].email)
  <2>1. CASE token = <<>>
    BY <2>1
  <2>2. ASSUME NEW x \in Token, token = <<x>>, Exists(x.email)
        PROVE  token \in Seq(Token) /\ \A i \in DOMAIN token : i = 1 /\ token[i] = x
    BY <2>2
  <2> QED
    BY <1>7, <2>1, <2>2
<1>9. PICK mine \in Emails \cup {None} :
         store = [signup |-> mine, signupVerified |-> FALSE,
                  verified |-> None, pending |-> mine]
  BY <1>1
<1>10. store \in Store /\ store.verified = None /\ store.signupVerified = FALSE
  BY <1>9 DEF Store
<1>11. TypeOK
  BY <1>2, <1>3, <1>5, <1>8, <1>10 DEF TypeOK
<1>12. TokensOwned /\ OneLiveToken
  BY <1>8 DEF TokensOwned, OneLiveToken
<1>13. IdentitiesVerified /\ IdentitiesApart /\ FlowOK
  BY <1>3 DEF IdentitiesVerified, IdentitiesApart, FlowOK
<1>14. made \in Nat /\ DOMAIN req = Requests /\ \A p \in Requests : ReadOK(req[p])
  BY <1>3, IdleRead
<1>15. AccountsStayReachable /\ VerifiedOnce
  BY <1>6 DEF AccountsStayReachable, VerifiedOnce
<1>16. SessionsAreVerified /\ RememberedIsVerified
  BY <1>2, <1>6, <1>10 DEF SessionsAreVerified, RememberedIsVerified, Verified
<1>17. MembersOfTheWholePath
  BY <1>3 DEF MembersOfTheWholePath
<1> QED
  BY <1>11, <1>12, <1>13, <1>14, <1>15, <1>16, <1>17 DEF IInv

LEMMA Inductive == IInv /\ [Next]_vars => IInv'
<1> SUFFICES ASSUME IInv, [Next]_vars PROVE IInv'
  OBVIOUS
<1>1. TypeOK' /\ made' \in Nat /\ ReadsKept
  BY TypeInv, MadeMoves, ReadsInv
<1>2. /\ TokensOwned' /\ IdentitiesVerified' /\ IdentitiesApart' /\ OneLiveToken' /\ FlowOK'
  BY TokensOwnedInv, IdentityInv, OneLiveTokenInv, FlowInv
<1>3. /\ AccountsStayReachable' /\ SessionsAreVerified' /\ RememberedIsVerified'
      /\ VerifiedOnce' /\ MembersOfTheWholePath'
  BY ReachableInv, SessionInv, StoreInv, VerifiedOnceInv, MemberInv
<1> QED
  BY <1>1, <1>2, <1>3 DEF IInv, ReadsKept

LEMMA Invariant == Spec => []IInv
  BY Initially, Inductive, PTL DEF Spec

\* Every account keeps a way in, whatever two pages do to it at once: Google is
\* disconnected only from an account that has, and keeps, a password.
THEOREM AccountsRemainReachable == Spec => []AccountsAreSound
<1>1. IInv => AccountsAreSound
  BY DEF IInv, AccountsAreSound
<1> QED
  BY <1>1, Invariant, PTL

\* Whoever gets a session, and whatever the browser remembers as verified, has
\* proven the address, by a mailed link or through Google.
THEOREM OnlyProvenAddresses == Spec => []AddressesAreProven
<1>1. IInv => AddressesAreProven
  BY DEF IInv, AddressesAreProven
<1> QED
  BY <1>1, Invariant, PTL

\* A verification takes effect once, unless two links stayed live, and joins the
\* whole path of every organization that it joins, of any depth.
THEOREM VerificationsJoinOnce == Spec => []VerificationJoinsOnce
<1>1. IInv => VerificationJoinsOnce
  BY DEF IInv, VerificationJoinsOnce
<1> QED
  BY <1>1, Invariant, PTL

\* However many tabs go to Google at once, each callback does what its own tab
\* asked for, and no account gets two Google accounts.
THEOREM GoogleFlowsStayApart == Spec => []GoogleFlowsAreApart
<1>1. ASSUME IInv PROVE OneGoogleAccountEach
  <2> SUFFICES ASSUME NEW e \in Emails PROVE Cardinality(HoldersOf(e)) <= 1
    BY DEF OneGoogleAccountEach
  <2>1. CASE HoldersOf(e) = {}
    BY <2>1, FS_EmptySet
  <2>2. CASE HoldersOf(e) # {}
    <3>1. PICK s \in Subjects : identity[s] = e
      BY <2>2 DEF HoldersOf
    <3>2. HoldersOf(e) = {s}
      BY <1>1, <3>1, AccountsAssumption DEF HoldersOf, IInv, IdentitiesApart
    <3>3. Cardinality({s}) = 1
      BY FS_Singleton
    <3> QED
      BY <3>2, <3>3
  <2> QED
    BY <2>1, <2>2
<1>2. ASSUME IInv PROVE FlowsAreNotMixed
  BY <1>2 DEF IInv, ReadOK, GoogleRead, FlowsAreNotMixed
<1>3. IInv => GoogleFlowsAreApart
  BY <1>1, <1>2 DEF GoogleFlowsAreApart
<1> QED
  BY <1>3, Invariant, PTL
=============================================================================
