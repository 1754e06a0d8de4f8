--------------------------- MODULE SessionsProofs ---------------------------
(***************************************************************************)
(* Proofs about Sessions, for any number of tabs, calls, tokens and links: *)
(* a family has one usable token, which is of the university that was      *)
(* chosen last; a session that was ended stays so but for what was under   *)
(* way, and one that nobody ended goes on; a reset link changes the        *)
(* password once.                                                          *)
(***************************************************************************)
EXTENDS Sessions, FiniteSetTheorems, TLAPS

\* A family is named by its first token; what the histories name exists.
FamiliesOK ==
    /\ \A i \in DOMAIN tokens : tokens[i].family <= i
    /\ lapsed \cup ended \subseteq DOMAIN tokens
    /\ \A f \in TokenIds : chosen[f] # None => f \in DOMAIN tokens

\* A link that changed the password is used up.
OpenedIsUsed ==
    \A i \in DOMAIN links : links[i].opens <= 1 /\ (links[i].opens > 0 => links[i].used)

\* An UPDATE under way knows the rows of the family that it read and that
\* nobody has revoked since.
KnowsFamily(f) ==
    /\ f.upto <= Len(tokens)
    /\ \A i \in 1..f.upto :
          ~tokens[i].revoked /\ tokens[i].family = tokens[f.row].family => i \in f.rows

\* What a handler or a tab holds names rows that exist.
HoldsRows(f) ==
    /\ f.tok <= Len(tokens)
    /\ f.set \in Jar => f.set.tok <= Len(tokens)
    /\ f.pc \in {"family", "revoke", "resolve", "rotate", "members", "switch"} =>
          f.row \in DOMAIN tokens
    /\ f.pc \in {"revoke", "switch"} => KnowsFamily(f)

\* A refresh carries the university of its token, unless a switch came between.
TabOK(f) ==
    /\ HoldsRows(f)
    /\ f.pc \in {"idle", "sent", "family", "revoke", "resolve", "rotate", "answered"}
    /\ f.pc \in {"resolve", "rotate"} /\ "switch" \notin f.late =>
          f.root = tokens[f.row].root
    /\ f.pc = "answered" /\ f.ok => f.set \in Jar

\* A switch updates one family; a sign-in knows of a reset since its check; a
\* reset holds an unopened link and knows the tokens to revoke, and a new link
\* the links to use up.
CallOK(f) ==
    /\ HoldsRows(f)
    /\ f.pc \notin {"resolve", "rotate"}
    /\ f.pc \in {"members", "switch"} => f.op = "switch"
    /\ f.op = "switch" => f.root \in Roots
    /\ f.pc = "switch" =>
          \A i \in f.rows : i \in DOMAIN tokens
                            /\ tokens[i].family = tokens[f.row].family
    /\ f.pc = "waiting" => f.op \in {"me", "switch"}
    /\ f.pc = "issue" => f.pw <= password /\ (f.pw < password => "end" \in f.late)
    /\ f.pc \in {"claim", "reset"} => f.op = "reset"
    /\ f.op = "reset" /\ f.pc \in {"sent", "claim", "reset"} => f.row \in DOMAIN links
    /\ f.pc = "reset" => /\ links[f.row].opens = 0
                         /\ f.upto <= Len(tokens)
                         /\ \A i \in 1..f.upto : ~tokens[i].revoked => i \in f.rows
    /\ f.pc = "mail" => /\ f.mailed <= Len(links)
                        /\ \A i \in 1..f.mailed : LiveLink(i) => i \in f.seen

FlightsOK ==
    /\ \A t \in Tabs : TabOK(flight[t])
    /\ \A c \in Calls : CallOK(flight[c])
    /\ \A c, d \in Calls : flight[c].pc = "reset" /\ flight[d].pc = "reset" => c = d

TokensInv ==
    /\ FamiliesOK /\ OneLiveTokenPerFamily /\ SwitchSticks /\ EndedSessionsStayEnded

LinksInv == OpenedIsUsed /\ OneLiveLink

IInv == /\ TypeOK /\ cookies.tok <= Len(tokens)
        /\ TokensInv /\ LinksInv /\ FlightsOK

-----------------------------------------------------------------------------
(* What a flight is after a step *)

LEMMA Bounds == /\ MaxTokens \in Nat \ {0} /\ MaxLinks \in Nat
                /\ None \notin Roots /\ None # NoContext /\ NoContext \notin Roots
  BY SessionsAssumption

LEMMA Jars ==
    /\ clearAuthenticationCookies \in Jar /\ clearAuthenticationCookies.tok = 0
    /\ \A n \in 0..MaxTokens, acc \in Contexts \cup {None} :
          /\ loginCookies(n, acc) \in Jar /\ loginCookies(n, acc).tok = n
          /\ refreshCookies(TRUE, n, acc) \in Jar /\ refreshCookies(TRUE, n, acc).tok = n
          /\ switchCookies(acc) \in [acc : Contexts \cup {None}]
    /\ Keep \notin Jar
    /\ \A s \in [acc : Contexts \cup {None}] : s \notin Jar
  BY Bounds DEF clearAuthenticationCookies, loginCookies, refreshCookies, switchCookies,
       Keep, Jar

LEMMA IdleOK == /\ Idle \in Flight
                /\ Idle.pc = "idle" /\ Idle.op = "none" /\ Idle.tok = 0 /\ Idle.set = Keep
                /\ Idle.root = None /\ Idle.late = {} /\ Idle.again = FALSE
  BY Bounds DEF Idle, Flight, Keep, Pcs

LEMMA AnsweredOK ==
    ASSUME NEW f \in Flight, NEW ok \in BOOLEAN,
           NEW set \in {Keep} \cup Jar \cup [acc : Contexts \cup {None}]
    PROVE  /\ Answered(f, ok, set) \in Flight
           /\ Answered(f, ok, set).op = f.op
           /\ Answered(f, ok, set).pc = "answered"
           /\ Answered(f, ok, set).tok = 0
           /\ f.op = "switch" => Answered(f, ok, set).root = f.root
           /\ Answered(f, ok, set).ok = ok
           /\ Answered(f, ok, set).set = set
           /\ Answered(f, ok, set).again = f.again
<1>1. PICK e \in Flight : e = Idle /\ e.tok = 0
  BY IdleOK
<1>2. PICK g : g = [e EXCEPT !.op = f.op, !.pc = "answered",
                             !.root = IF f.op = "switch" THEN f.root ELSE None,
                             !.again = f.again, !.ok = ok, !.set = set]
  OBVIOUS
<1>3. Answered(f, ok, set) = g
  BY <1>1, <1>2, Zenon DEF Answered
<1>4. f.root \in Roots \cup {None} /\ f.again \in BOOLEAN
  BY DEF Flight, Pcs
<1>5a. g = [op |-> f.op, pc |-> "answered", tok |-> e.tok, acc |-> e.acc, row |-> e.row,
            root |-> IF f.op = "switch" THEN f.root ELSE None, rows |-> e.rows,
            upto |-> e.upto, seen |-> e.seen, mailed |-> e.mailed, pw |-> e.pw,
            again |-> f.again, late |-> e.late, ok |-> ok, set |-> set]
  BY <1>1, <1>2, ZenonT(60) DEF Flight
<1>5. /\ g \in Flight /\ g.op = f.op /\ g.pc = "answered" /\ g.tok = 0
      /\ g.root = IF f.op = "switch" THEN f.root ELSE None
      /\ g.ok = ok /\ g.set = set /\ g.again = f.again
  BY <1>1, <1>5a, <1>4 DEF Flight, Pcs
<1> QED
  BY <1>3, <1>5

LEMMA LateOK ==
    ASSUME NEW f \in Flight, NEW k \in {"end", "switch"}, NEW g,
           g = [f EXCEPT !.late = @ \cup {k}]
    PROVE  /\ g \in Flight
           /\ g.late = f.late \cup {k}
           /\ g.op = f.op /\ g.pc = f.pc /\ g.tok = f.tok /\ g.row = f.row
           /\ g.root = f.root /\ g.rows = f.rows /\ g.upto = f.upto
           /\ g.seen = f.seen /\ g.mailed = f.mailed /\ g.pw = f.pw
           /\ g.ok = f.ok /\ g.set = f.set
           /\ g.acc = f.acc /\ g.again = f.again
  BY DEF Flight, Pcs

Requests == {"me", "login", "logout", "switch", "forgot", "reset", "refresh"}

LEMMA SentOK ==
    ASSUME NEW op \in Requests,
           NEW root \in Roots \cup {None}, NEW row \in Nat, NEW jar \in Jar
    PROVE  /\ Send(op, root, row, jar) \in Flight
           /\ Send(op, root, row, jar).op = op
           /\ Send(op, root, row, jar).pc = "sent"
           /\ Send(op, root, row, jar).root = root
           /\ Send(op, root, row, jar).row = row
           /\ Send(op, root, row, jar).tok \in {0, jar.tok}
           /\ Send(op, root, row, jar).set = Keep
<1>1. PICK e \in Flight : e = Idle /\ e.set = Keep
  BY IdleOK
<1>2. PICK tok, acc : tok = extractRefreshToken(op, jar) /\ acc = extractAccessToken(op, jar)
  OBVIOUS
<1>3. tok \in {0, jar.tok} /\ tok \in 0..MaxTokens /\ acc \in Contexts \cup {None}
  BY <1>2, Bounds DEF Jar, extractRefreshToken, extractAccessToken
<1>4. PICK g : g = [e EXCEPT !.op = op, !.pc = "sent", !.root = root, !.row = row,
                             !.tok = tok, !.acc = acc]
  OBVIOUS
<1>5. Send(op, root, row, jar) = g
  BY <1>1, <1>2, <1>4, Zenon DEF Send
<1>6a. g = [op |-> op, pc |-> "sent", tok |-> tok, acc |-> acc, row |-> row,
            root |-> root, rows |-> e.rows, upto |-> e.upto, seen |-> e.seen,
            mailed |-> e.mailed, pw |-> e.pw, again |-> e.again, late |-> e.late,
            ok |-> e.ok, set |-> e.set]
  BY <1>1, <1>4, ZenonT(60) DEF Flight
<1>6. /\ g \in Flight /\ g.op = op /\ g.pc = "sent" /\ g.root = root /\ g.row = row
      /\ g.tok = tok /\ g.set = Keep
  BY <1>1, <1>3, <1>6a DEF Flight, Pcs, Requests
<1> QED
  BY <1>3, <1>5, <1>6

LEMMA SentCarries ==
    ASSUME NEW op \in Requests,
           NEW root \in Roots \cup {None}, NEW row \in Nat, NEW jar \in Jar
    PROVE  LET g == Send(op, root, row, jar)
           IN  /\ g.again = FALSE
               /\ op = "refresh" => g.tok = jar.tok
               /\ op = "me" => g.acc = jar.acc
<1>1. PICK e \in Flight : e = Idle /\ e.again = FALSE
  BY IdleOK
<1>2. PICK tok, acc : tok = extractRefreshToken(op, jar) /\ acc = extractAccessToken(op, jar)
  OBVIOUS
<1>3. /\ op = "refresh" => tok = jar.tok
      /\ op = "me" => acc = jar.acc
  BY <1>2 DEF extractRefreshToken, extractAccessToken
<1>4. PICK g : g = [e EXCEPT !.op = op, !.pc = "sent", !.root = root, !.row = row,
                             !.tok = tok, !.acc = acc]
  OBVIOUS
<1>5. Send(op, root, row, jar) = g
  BY <1>1, <1>2, <1>4, Zenon DEF Send
<1>6. g.again = FALSE /\ g.tok = tok /\ g.acc = acc
  BY <1>1, <1>4, ZenonT(60) DEF Flight
<1> QED
  BY <1>3, <1>5, <1>6

\* What the steps of a handler set.
Moved(f, pc) == [f EXCEPT !.pc = pc]

LEMMA MovedOK ==
    ASSUME NEW f \in Flight, NEW pc \in Pcs
    PROVE  LET g == Moved(f, pc)
           IN  /\ g \in Flight
               /\ g.pc = pc
               /\ g.op = f.op /\ g.tok = f.tok /\ g.row = f.row
               /\ g.root = f.root /\ g.set = f.set /\ g.ok = f.ok
               /\ g.acc = f.acc /\ g.again = f.again
<1>1. PICK g : g = Moved(f, pc)
  OBVIOUS
<1>2. g = [op |-> f.op, pc |-> pc, tok |-> f.tok, acc |-> f.acc,
           row |-> f.row, root |-> f.root, rows |-> f.rows,
           upto |-> f.upto, seen |-> f.seen, mailed |-> f.mailed,
           pw |-> f.pw, again |-> f.again, late |-> f.late, ok |-> f.ok,
           set |-> f.set]
  BY <1>1, ZenonT(60) DEF Flight, Moved
<1>3. g \in Flight
  BY <1>2 DEF Flight
<1> QED
  BY <1>1, <1>2, <1>3

MovedRow(f, pc, row) == [f EXCEPT !.pc = pc, !.row = row]

LEMMA MovedRowOK ==
    ASSUME NEW f \in Flight, NEW pc \in Pcs, NEW row \in Nat
    PROVE  LET g == MovedRow(f, pc, row)
           IN  /\ g \in Flight
               /\ g.pc = pc /\ g.row = row
               /\ g.op = f.op /\ g.tok = f.tok /\ g.root = f.root
               /\ g.set = f.set /\ g.ok = f.ok
               /\ g.acc = f.acc /\ g.again = f.again
<1>1. PICK g : g = MovedRow(f, pc, row)
  OBVIOUS
<1>2. g = [op |-> f.op, pc |-> pc, tok |-> f.tok, acc |-> f.acc,
           row |-> row, root |-> f.root, rows |-> f.rows, upto |-> f.upto,
           seen |-> f.seen, mailed |-> f.mailed, pw |-> f.pw,
           again |-> f.again, late |-> f.late, ok |-> f.ok, set |-> f.set]
  BY <1>1, ZenonT(60) DEF Flight, MovedRow
<1>3. g \in Flight
  BY <1>2 DEF Flight
<1> QED
  BY <1>1, <1>2, <1>3

MovedRoot(f, pc, row, root) == [f EXCEPT !.pc = pc, !.row = row, !.root = root]

LEMMA MovedRootOK ==
    ASSUME NEW f \in Flight, NEW pc \in Pcs, NEW row \in Nat,
           NEW root \in Roots \cup {None}
    PROVE  LET g == MovedRoot(f, pc, row, root)
           IN  /\ g \in Flight
               /\ g.pc = pc /\ g.row = row /\ g.root = root
               /\ g.op = f.op /\ g.tok = f.tok /\ g.set = f.set /\ g.ok = f.ok
               /\ g.acc = f.acc /\ g.again = f.again
<1>1. PICK g : g = MovedRoot(f, pc, row, root)
  OBVIOUS
<1>2. g = [op |-> f.op, pc |-> pc, tok |-> f.tok, acc |-> f.acc,
           row |-> row, root |-> root, rows |-> f.rows, upto |-> f.upto,
           seen |-> f.seen, mailed |-> f.mailed, pw |-> f.pw,
           again |-> f.again, late |-> f.late, ok |-> f.ok, set |-> f.set]
  BY <1>1, ZenonT(60) DEF Flight, MovedRoot
<1>3. g \in Flight
  BY <1>2 DEF Flight
<1> QED
  BY <1>1, <1>2, <1>3

MovedAcc(f, pc, acc) == [f EXCEPT !.pc = pc, !.acc = acc]

LEMMA MovedAccOK ==
    ASSUME NEW f \in Flight, NEW pc \in Pcs, NEW acc \in Contexts \cup {None}
    PROVE  LET g == MovedAcc(f, pc, acc)
           IN  /\ g \in Flight
               /\ g.pc = pc /\ g.acc = acc
               /\ g.op = f.op /\ g.tok = f.tok /\ g.row = f.row
               /\ g.root = f.root /\ g.late = f.late /\ g.set = f.set
               /\ g.ok = f.ok
               /\ g.again = f.again
<1>1. PICK g : g = MovedAcc(f, pc, acc)
  OBVIOUS
<1>2. g = [op |-> f.op, pc |-> pc, tok |-> f.tok, acc |-> acc,
           row |-> f.row, root |-> f.root, rows |-> f.rows,
           upto |-> f.upto, seen |-> f.seen, mailed |-> f.mailed,
           pw |-> f.pw, again |-> f.again, late |-> f.late, ok |-> f.ok,
           set |-> f.set]
  BY <1>1, ZenonT(60) DEF Flight, MovedAcc
<1>3. g \in Flight
  BY <1>2 DEF Flight
<1> QED
  BY <1>1, <1>2, <1>3

MovedPw(f, pc, pw) == [f EXCEPT !.pc = pc, !.pw = pw]

LEMMA MovedPwOK ==
    ASSUME NEW f \in Flight, NEW pc \in Pcs, NEW pw \in Nat
    PROVE  LET g == MovedPw(f, pc, pw)
           IN  /\ g \in Flight
               /\ g.pc = pc /\ g.pw = pw
               /\ g.op = f.op /\ g.tok = f.tok /\ g.row = f.row
               /\ g.root = f.root /\ g.set = f.set /\ g.ok = f.ok
               /\ g.acc = f.acc /\ g.again = f.again
<1>1. PICK g : g = MovedPw(f, pc, pw)
  OBVIOUS
<1>2. g = [op |-> f.op, pc |-> pc, tok |-> f.tok, acc |-> f.acc,
           row |-> f.row, root |-> f.root, rows |-> f.rows,
           upto |-> f.upto, seen |-> f.seen, mailed |-> f.mailed,
           pw |-> pw, again |-> f.again, late |-> f.late, ok |-> f.ok,
           set |-> f.set]
  BY <1>1, ZenonT(60) DEF Flight, MovedPw
<1>3. g \in Flight
  BY <1>2 DEF Flight
<1> QED
  BY <1>1, <1>2, <1>3

MovedRows(f, pc, rows, upto) == [f EXCEPT !.pc = pc, !.rows = rows, !.upto = upto]

LEMMA MovedRowsOK ==
    ASSUME NEW f \in Flight, NEW pc \in Pcs, NEW rows \in SUBSET Nat, NEW upto \in Nat
    PROVE  LET g == MovedRows(f, pc, rows, upto)
           IN  /\ g \in Flight
               /\ g.pc = pc /\ g.rows = rows /\ g.upto = upto
               /\ g.op = f.op /\ g.tok = f.tok /\ g.row = f.row
               /\ g.root = f.root /\ g.set = f.set /\ g.ok = f.ok
               /\ g.acc = f.acc /\ g.again = f.again
<1>1. PICK g : g = MovedRows(f, pc, rows, upto)
  OBVIOUS
<1>2. g = [op |-> f.op, pc |-> pc, tok |-> f.tok, acc |-> f.acc,
           row |-> f.row, root |-> f.root, rows |-> rows, upto |-> upto,
           seen |-> f.seen, mailed |-> f.mailed, pw |-> f.pw,
           again |-> f.again, late |-> f.late, ok |-> f.ok, set |-> f.set]
  BY <1>1, ZenonT(60) DEF Flight, MovedRows
<1>3. g \in Flight
  BY <1>2 DEF Flight
<1> QED
  BY <1>1, <1>2, <1>3

MovedSeen(f, pc, seen, mailed) == [f EXCEPT !.pc = pc, !.seen = seen, !.mailed = mailed]

LEMMA MovedSeenOK ==
    ASSUME NEW f \in Flight, NEW pc \in Pcs, NEW seen \in SUBSET Nat, NEW mailed \in Nat
    PROVE  LET g == MovedSeen(f, pc, seen, mailed)
           IN  /\ g \in Flight
               /\ g.pc = pc /\ g.seen = seen /\ g.mailed = mailed
               /\ g.op = f.op /\ g.tok = f.tok /\ g.row = f.row
               /\ g.root = f.root /\ g.set = f.set /\ g.ok = f.ok
               /\ g.acc = f.acc /\ g.again = f.again
<1>1. PICK g : g = MovedSeen(f, pc, seen, mailed)
  OBVIOUS
<1>2. g = [op |-> f.op, pc |-> pc, tok |-> f.tok, acc |-> f.acc,
           row |-> f.row, root |-> f.root, rows |-> f.rows,
           upto |-> f.upto, seen |-> seen, mailed |-> mailed, pw |-> f.pw,
           again |-> f.again, late |-> f.late, ok |-> f.ok, set |-> f.set]
  BY <1>1, ZenonT(60) DEF Flight, MovedSeen
<1>3. g \in Flight
  BY <1>2 DEF Flight
<1> QED
  BY <1>1, <1>2, <1>3

MovedReset(f, pc, rows, upto, seen, mailed) == [f EXCEPT !.pc = pc, !.rows = rows, !.upto = upto, !.seen = seen, !.mailed = mailed]

LEMMA MovedResetOK ==
    ASSUME NEW f \in Flight, NEW pc \in Pcs, NEW rows \in SUBSET Nat, NEW upto \in Nat,
           NEW seen \in SUBSET Nat, NEW mailed \in Nat
    PROVE  LET g == MovedReset(f, pc, rows, upto, seen, mailed)
           IN  /\ g \in Flight
               /\ g.pc = pc /\ g.rows = rows /\ g.upto = upto /\ g.seen = seen
               /\ g.mailed = mailed
               /\ g.op = f.op /\ g.tok = f.tok /\ g.row = f.row
               /\ g.root = f.root /\ g.set = f.set /\ g.ok = f.ok
               /\ g.acc = f.acc /\ g.again = f.again
<1>1. PICK g : g = MovedReset(f, pc, rows, upto, seen, mailed)
  OBVIOUS
<1>2. g = [op |-> f.op, pc |-> pc, tok |-> f.tok, acc |-> f.acc,
           row |-> f.row, root |-> f.root, rows |-> rows, upto |-> upto,
           seen |-> seen, mailed |-> mailed, pw |-> f.pw,
           again |-> f.again, late |-> f.late, ok |-> f.ok, set |-> f.set]
  BY <1>1, ZenonT(60) DEF Flight, MovedReset
<1>3. g \in Flight
  BY <1>2 DEF Flight
<1> QED
  BY <1>1, <1>2, <1>3

MovedAgain(f, pc, again) == [f EXCEPT !.pc = pc, !.again = again]

LEMMA MovedAgainOK ==
    ASSUME NEW f \in Flight, NEW pc \in Pcs, NEW again \in BOOLEAN
    PROVE  LET g == MovedAgain(f, pc, again)
           IN  /\ g \in Flight
               /\ g.pc = pc /\ g.again = again
               /\ g.op = f.op /\ g.tok = f.tok /\ g.row = f.row
               /\ g.root = f.root /\ g.set = f.set /\ g.ok = f.ok
               /\ g.acc = f.acc
<1>1. PICK g : g = MovedAgain(f, pc, again)
  OBVIOUS
<1>2. g = [op |-> f.op, pc |-> pc, tok |-> f.tok, acc |-> f.acc,
           row |-> f.row, root |-> f.root, rows |-> f.rows,
           upto |-> f.upto, seen |-> f.seen, mailed |-> f.mailed,
           pw |-> f.pw, again |-> again, late |-> f.late, ok |-> f.ok,
           set |-> f.set]
  BY <1>1, ZenonT(60) DEF Flight, MovedAgain
<1>3. g \in Flight
  BY <1>2 DEF Flight
<1> QED
  BY <1>1, <1>2, <1>3

Again(f, again) == [f EXCEPT !.again = again]

LEMMA AgainOK ==
    ASSUME NEW f \in Flight, NEW again \in BOOLEAN
    PROVE  LET g == Again(f, again)
           IN  /\ g \in Flight
               /\ g.again = again
               /\ g.op = f.op /\ g.pc = f.pc /\ g.tok = f.tok /\ g.row = f.row
               /\ g.root = f.root /\ g.set = f.set /\ g.ok = f.ok
               /\ g.acc = f.acc
<1>1. PICK g : g = Again(f, again)
  OBVIOUS
<1>2. g = [op |-> f.op, pc |-> f.pc, tok |-> f.tok, acc |-> f.acc,
           row |-> f.row, root |-> f.root, rows |-> f.rows,
           upto |-> f.upto, seen |-> f.seen, mailed |-> f.mailed,
           pw |-> f.pw, again |-> again, late |-> f.late, ok |-> f.ok,
           set |-> f.set]
  BY <1>1, ZenonT(60) DEF Flight, Again
<1>3. g \in Flight
  BY <1>2 DEF Flight
<1> QED
  BY <1>1, <1>2, <1>3

-----------------------------------------------------------------------------
(* What others' steps leave true of a flight *)

\* A step adds rows, keeps their families and never takes a revocation back.
TokensKept ==
    /\ Len(tokens) <= Len(tokens')
    /\ \A i \in DOMAIN tokens :
          /\ tokens'[i].family = tokens[i].family
          /\ tokens[i].revoked => tokens'[i].revoked

\* A step adds links, and revives none.
LinksKept ==
    /\ Len(links) <= Len(links')
    /\ \A i \in DOMAIN links : LiveLink(i)' => LiveLink(i)

LEMMA Lengths ==
    ASSUME TypeOK
    PROVE  /\ Len(tokens) \in Nat /\ DOMAIN tokens = 1..Len(tokens)
           /\ Len(links) \in Nat /\ DOMAIN links = 1..Len(links)
           /\ \A i \in DOMAIN tokens : tokens[i] \in Token
           /\ \A i \in DOMAIN links : links[i] \in Link
           /\ Len(tokens) <= MaxTokens /\ DOMAIN tokens \subseteq TokenIds
<1>1. /\ tokens \in Seq(Token) /\ links \in Seq(Link) /\ Len(tokens) <= MaxTokens
  BY DEF TypeOK
<1> QED
  BY <1>1, Bounds DEF TokenIds

LEMMA NextLengths ==
    ASSUME TypeOK'
    PROVE  /\ Len(tokens') \in Nat /\ DOMAIN tokens' = 1..Len(tokens')
           /\ Len(links') \in Nat /\ DOMAIN links' = 1..Len(links')
           /\ \A i \in DOMAIN tokens' : tokens'[i] \in Token
           /\ \A i \in DOMAIN links' : links'[i] \in Link
           /\ Len(tokens') <= MaxTokens /\ DOMAIN tokens' \subseteq TokenIds
<1>1. /\ tokens' \in Seq(Token) /\ links' \in Seq(Link) /\ Len(tokens') <= MaxTokens
  BY DEF TypeOK
<1> QED
  BY <1>1, Bounds DEF TokenIds

LEMMA HoldsRowsStays ==
    ASSUME TypeOK, TypeOK', TokensKept, NEW f \in Flight, HoldsRows(f)
    PROVE  HoldsRows(f)'
<1>1. /\ Len(tokens) \in Nat /\ DOMAIN tokens = 1..Len(tokens)
      /\ Len(tokens') \in Nat /\ DOMAIN tokens' = 1..Len(tokens')
  BY Lengths, NextLengths
<1>2. f.tok \in Nat /\ f.upto \in Nat /\ (f.set \in Jar => f.set.tok \in Nat)
  BY DEF Flight, Jar
<1>3. DOMAIN tokens \subseteq DOMAIN tokens'
  BY <1>1 DEF TokensKept
<1>4. CASE f.pc \in {"revoke", "switch"}
  <2>1. f.row \in DOMAIN tokens /\ f.upto <= Len(tokens)
    BY <1>4 DEF HoldsRows, KnowsFamily
  <2>2. KnowsFamily(f)'
    <3> SUFFICES ASSUME NEW i \in 1..f.upto, ~tokens'[i].revoked,
                        tokens'[i].family = tokens'[f.row].family
                 PROVE  i \in f.rows
      BY <1>1, <1>2, <2>1 DEF KnowsFamily, TokensKept
    <3>1. i \in DOMAIN tokens
      BY <1>1, <1>2, <2>1
    <3> QED
      BY <1>4, <2>1, <3>1 DEF HoldsRows, KnowsFamily, TokensKept
  <2> QED
    BY <1>1, <1>2, <1>3, <2>1, <2>2 DEF HoldsRows, TokensKept
<1>5. CASE f.pc \notin {"revoke", "switch"}
  BY <1>1, <1>2, <1>3, <1>5 DEF HoldsRows, TokensKept
<1> QED
  BY <1>4, <1>5

LEMMA TabStays ==
    ASSUME TypeOK, TypeOK', TokensKept, NEW f \in Flight, TabOK(f),
           f.pc \in {"resolve", "rotate"} =>
              "switch" \in f.late \/ tokens'[f.row].root = tokens[f.row].root
    PROVE  TabOK(f)'
<1>1. HoldsRows(f)'
  BY HoldsRowsStays DEF TabOK
<1> QED
  BY <1>1 DEF TabOK

LEMMA CallStays ==
    ASSUME TypeOK, TypeOK', TokensKept, LinksKept, NEW f \in Flight, CallOK(f),
           f.pc = "issue" => \/ password' = password
                             \/ password < password' /\ "end" \in f.late,
           f.pc = "reset" => links'[f.row].opens = links[f.row].opens
    PROVE  CallOK(f)'
<1>1. HoldsRows(f)'
  BY HoldsRowsStays DEF CallOK
<1>2. /\ Len(tokens) \in Nat /\ DOMAIN tokens = 1..Len(tokens)
      /\ Len(tokens') \in Nat /\ DOMAIN tokens' = 1..Len(tokens')
      /\ Len(links) \in Nat /\ DOMAIN links = 1..Len(links)
      /\ Len(links') \in Nat /\ DOMAIN links' = 1..Len(links')
  BY Lengths, NextLengths
<1>3. f.pw \in Nat /\ f.upto \in Nat /\ f.mailed \in Nat /\ password \in Nat
      /\ password' \in Nat
  BY DEF Flight, TypeOK
<1>4. DOMAIN tokens \subseteq DOMAIN tokens' /\ DOMAIN links \subseteq DOMAIN links'
  BY <1>2 DEF TokensKept, LinksKept
<1>5. f.pc = "switch" =>
         \A i \in f.rows : i \in DOMAIN tokens'
                           /\ tokens'[i].family = tokens'[f.row].family
  BY <1>4 DEF CallOK, HoldsRows, TokensKept
<1>6. f.pc = "issue" => f.pw <= password' /\ (f.pw < password' => "end" \in f.late)
  BY <1>3 DEF CallOK
<1>7. f.pc = "reset" => /\ links'[f.row].opens = 0
                        /\ f.upto <= Len(tokens')
                        /\ \A i \in 1..f.upto : ~tokens'[i].revoked => i \in f.rows
  <2> SUFFICES ASSUME f.pc = "reset"
               PROVE  /\ links'[f.row].opens = 0
                      /\ f.upto <= Len(tokens')
                      /\ \A i \in 1..f.upto : ~tokens'[i].revoked => i \in f.rows
    OBVIOUS
  <2>1. /\ links[f.row].opens = 0 /\ f.upto <= Len(tokens)
        /\ \A i \in 1..f.upto : ~tokens[i].revoked => i \in f.rows
    BY DEF CallOK
  <2>2. \A i \in 1..f.upto : i \in DOMAIN tokens
    BY <1>2, <1>3, <2>1
  <2>3. links'[f.row].opens = 0
    BY <2>1
  <2>4. f.upto <= Len(tokens')
    BY <1>2, <1>3, <2>1 DEF TokensKept
  <2>5. \A i \in 1..f.upto : ~tokens'[i].revoked => i \in f.rows
    BY <2>1, <2>2 DEF TokensKept
  <2> QED
    BY <2>3, <2>4, <2>5
<1>8. f.pc = "mail" => /\ f.mailed <= Len(links')
                       /\ \A i \in 1..f.mailed : LiveLink(i)' => i \in f.seen
  <2> SUFFICES ASSUME f.pc = "mail"
               PROVE  /\ f.mailed <= Len(links')
                      /\ \A i \in 1..f.mailed : LiveLink(i)' => i \in f.seen
    OBVIOUS
  <2>1. /\ f.mailed <= Len(links)
        /\ \A i \in 1..f.mailed : LiveLink(i) => i \in f.seen
    BY DEF CallOK
  <2>2. \A i \in 1..f.mailed : i \in DOMAIN links
    BY <1>2, <1>3, <2>1
  <2>3. f.mailed <= Len(links')
    BY <1>2, <1>3, <2>1 DEF LinksKept
  <2>4. \A i \in 1..f.mailed : LiveLink(i)' => i \in f.seen
    BY <2>1, <2>2 DEF LinksKept
  <2> QED
    BY <2>3, <2>4
<1> QED
  BY <1>1, <1>4, <1>5, <1>6, <1>7, <1>8 DEF CallOK

\* A flight that is told of a switch or a reset holds what it held.
LEMMA LateStays ==
    ASSUME NEW f \in Flight, NEW k \in {"end", "switch"}, NEW g,
           g = [f EXCEPT !.late = @ \cup {k}]
    PROVE  (TabOK(f) => TabOK(g)) /\ (CallOK(f) => CallOK(g))
<1>1. /\ g.late = f.late \cup {k}
      /\ g.op = f.op /\ g.pc = f.pc /\ g.tok = f.tok /\ g.row = f.row
      /\ g.root = f.root /\ g.rows = f.rows /\ g.upto = f.upto
      /\ g.seen = f.seen /\ g.mailed = f.mailed /\ g.pw = f.pw
      /\ g.ok = f.ok /\ g.set = f.set
  BY LateOK
<1>2. HoldsRows(f) => HoldsRows(g)
  BY <1>1 DEF HoldsRows, KnowsFamily
<1>3. TabOK(f) => TabOK(g)
  BY <1>1, <1>2 DEF TabOK
<1>4. CallOK(f) => CallOK(g)
  BY <1>1, <1>2 DEF CallOK
<1> QED
  BY <1>3, <1>4

-----------------------------------------------------------------------------
(* Steps of one flight *)

LEMMA OneFlight ==
    ASSUME IInv, TypeOK', TokensKept, LinksKept, password' = password,
           \A i \in DOMAIN tokens : tokens'[i].root = tokens[i].root,
           \A i \in DOMAIN links : links'[i].opens = links[i].opens,
           NEW p \in Procs, NEW g \in Flight, flight' = [flight EXCEPT ![p] = g],
           p \in Tabs => TabOK(g)', p \in Calls => CallOK(g)',
           g.pc = "reset" => \A d \in Calls : flight[d].pc # "reset"
    PROVE  FlightsOK'
<1>1. TypeOK /\ FlightsOK /\ flight \in [Procs -> Flight]
  BY DEF IInv, TypeOK
<1>2. ASSUME NEW t \in Tabs PROVE TabOK(flight[t])'
  <2>1. PICK f \in Flight : f = flight[t] /\ TabOK(f)
    BY <1>1 DEF FlightsOK, Procs
  <2>2. CASE t = p
    <3>1. flight'[t] = g
      BY <1>1, <2>2
    <3> QED
      BY <2>2, <3>1
  <2>3. CASE t # p
    <3>1. flight'[t] = f
      BY <1>1, <2>1, <2>3 DEF Procs
    <3>2. f.pc \in {"resolve", "rotate"} => tokens'[f.row].root = tokens[f.row].root
      BY <2>1 DEF TabOK, HoldsRows
    <3>3. TabOK(f)'
      BY <1>1, <2>1, <3>2, TabStays
    <3> QED
      BY <3>1, <3>3
  <2> QED
    BY <2>2, <2>3
<1>3. ASSUME NEW c \in Calls PROVE CallOK(flight[c])'
  <2>1. PICK f \in Flight : f = flight[c] /\ CallOK(f)
    BY <1>1 DEF FlightsOK, Procs
  <2>2. CASE c = p
    <3>1. flight'[c] = g
      BY <1>1, <2>2
    <3> QED
      BY <2>2, <3>1
  <2>3. CASE c # p
    <3>1. flight'[c] = f
      BY <1>1, <2>1, <2>3 DEF Procs
    <3>2. f.pc = "reset" => links'[f.row].opens = links[f.row].opens
      BY <2>1 DEF CallOK
    <3>3. CallOK(f)'
      BY <1>1, <2>1, <3>2, CallStays
    <3> QED
      BY <3>1, <3>3
  <2> QED
    BY <2>2, <2>3
<1>4. \A c \in Procs : flight'[c] = IF c = p THEN g ELSE flight[c]
  BY <1>1
<1>5. \A c, d \in Calls : flight'[c].pc = "reset" /\ flight'[d].pc = "reset" => c = d
  BY <1>1, <1>4 DEF FlightsOK, Procs
<1> QED
  BY <1>2, <1>3, <1>5 DEF FlightsOK

\* Steps that write no table and let no family lapse.
LEMMA QuietStep ==
    ASSUME IInv, UNCHANGED <<password, tokens, links, ended, chosen, lapsed>>,
           approved' \subseteq Roots, cookies' \in Jar, cookies'.tok <= Len(tokens),
           presented' \in [TokenIds -> SUBSET Tabs],
           flight' \in [Procs -> Flight], FlightsOK'
    PROVE  IInv'
<1>1. TypeOK'
  BY DEF IInv, TypeOK
<1>2. TokensInv'
  BY DEF IInv, TokensInv, FamiliesOK, OneLiveTokenPerFamily, SwitchSticks,
         EndedSessionsStayEnded, Live
<1>3. LinksInv'
  BY DEF IInv, LinksInv, OpenedIsUsed, OneLiveLink, LiveLink
<1> QED
  BY <1>1, <1>2, <1>3 DEF IInv

LEMMA QuietFlight ==
    ASSUME IInv, UNCHANGED <<password, tokens, links, ended, chosen, lapsed>>,
           UNCHANGED <<approved, cookies, presented>>,
           NEW p \in Procs, NEW g \in Flight, flight' = [flight EXCEPT ![p] = g],
           p \in Tabs => TabOK(g), p \in Calls => CallOK(g),
           g.pc = "reset" => \A d \in Calls : flight[d].pc # "reset"
    PROVE  IInv'
<1>1. TypeOK /\ flight \in [Procs -> Flight]
  BY DEF IInv, TypeOK
<1>2. flight' \in [Procs -> Flight]
  BY <1>1
<1>3. TypeOK'
  BY <1>1, <1>2 DEF TypeOK
<1>4. TokensKept /\ LinksKept
  BY <1>1, Lengths DEF TokensKept, LinksKept, LiveLink
<1>5. (p \in Tabs => TabOK(g)') /\ (p \in Calls => CallOK(g)')
  BY DEF TabOK, CallOK, HoldsRows, KnowsFamily, LiveLink
<1>6. FlightsOK'
  BY <1>3, <1>4, <1>5, OneFlight
<1>7. cookies' \in Jar /\ cookies'.tok <= Len(tokens) /\ approved' \subseteq Roots
      /\ presented' \in [TokenIds -> SUBSET Tabs]
  BY <1>1 DEF IInv, TypeOK
<1> QED
  BY <1>2, <1>6, <1>7, QuietStep

\* What an answer holds.
LEMMA AnswerHolds ==
    ASSUME TypeOK, NEW f \in Flight, NEW ok \in BOOLEAN,
           NEW set \in {Keep} \cup Jar \cup [acc : Contexts \cup {None}],
           set \in Jar => set.tok <= Len(tokens)
    PROVE  /\ Answered(f, ok, set) \in Flight
           /\ Answered(f, ok, set).pc = "answered"
           /\ (ok => set \in Jar) => TabOK(Answered(f, ok, set))
           /\ CallOK(f) => CallOK(Answered(f, ok, set))
<1>1. PICK g : g = Answered(f, ok, set)
  OBVIOUS
<1>2. /\ g \in Flight /\ g.op = f.op /\ g.pc = "answered" /\ g.tok = 0
      /\ f.op = "switch" => g.root = f.root
      /\ g.ok = ok /\ g.set = set
  BY <1>1, AnsweredOK
<1>3. Len(tokens) \in Nat
  BY Lengths
<1>4. HoldsRows(g)
  BY <1>2, <1>3 DEF HoldsRows
<1>5. (ok => set \in Jar) => TabOK(g)
  BY <1>2, <1>4 DEF TabOK
<1>6. CallOK(f) => CallOK(g)
  BY <1>2, <1>4 DEF CallOK
<1> QED
  BY <1>1, <1>2, <1>5, <1>6

\* What a request holds that is sent with the cookies of the moment.
IsRequest(g, op) ==
    g \in Flight /\ g.pc = "sent" /\ g.op = op /\ TabOK(g) /\ CallOK(g)

LEMMA RequestHolds ==
    ASSUME TypeOK,
           NEW op \in Requests,
           NEW root \in Roots \cup {None}, NEW row \in Nat, NEW jar \in Jar,
           jar.tok <= Len(tokens), op = "switch" => root \in Roots,
           op = "reset" => row \in DOMAIN links
    PROVE  IsRequest(Send(op, root, row, jar), op)
<1>1. PICK g : g = Send(op, root, row, jar)
  OBVIOUS
<1>2. /\ g \in Flight /\ g.op = op /\ g.pc = "sent" /\ g.root = root /\ g.row = row
      /\ g.tok \in {0, jar.tok} /\ g.set = Keep
  BY <1>1, SentOK
<1>3. Len(tokens) \in Nat /\ Keep \notin Jar
  BY Lengths, Jars
<1>4. HoldsRows(g)
  BY <1>2, <1>3 DEF HoldsRows
<1>5. TabOK(g)
  BY <1>2, <1>4 DEF TabOK
<1>6. CallOK(g)
  BY <1>2, <1>4 DEF CallOK
<1> QED
  BY <1>1, <1>2, <1>5, <1>6 DEF IsRequest

LEMMA IdleHolds ==
    ASSUME TypeOK
    PROVE  Idle \in Flight /\ Idle.pc = "idle" /\ TabOK(Idle) /\ CallOK(Idle)
<1>1. Len(tokens) \in Nat /\ Keep \notin Jar
  BY Lengths, Jars
<1>2. PICK g : g = Idle
  OBVIOUS
<1>3. /\ g \in Flight /\ g.pc = "idle" /\ g.op = "none" /\ g.tok = 0 /\ g.set = Keep
  BY <1>2, IdleOK
<1>4. HoldsRows(g)
  BY <1>1, <1>3 DEF HoldsRows
<1>5. TabOK(g) /\ CallOK(g)
  BY <1>3, <1>4 DEF TabOK, CallOK
<1> QED
  BY <1>2, <1>3, <1>5

LEMMA QuietGoto ==
    ASSUME IInv, NEW p \in Procs, NEW g \in Flight, Goto(p, g),
           UNCHANGED <<tables, cookies, world>>,
           p \in Tabs => TabOK(g), p \in Calls => CallOK(g),
           g.pc = "reset" => \A d \in Calls : flight[d].pc # "reset"
    PROVE  IInv'
<1>1. UNCHANGED <<password, tokens, links, ended, chosen, lapsed>>
  BY DEF tables, world
<1>2. UNCHANGED <<approved, cookies, presented>>
  BY DEF tables, world
<1>3. flight' = [flight EXCEPT ![p] = g]
  BY Zenon DEF Goto
<1> QED
  BY <1>1, <1>2, <1>3, QuietFlight

LEMMA QuietAnswer ==
    ASSUME IInv, NEW p \in Procs, NEW ok \in BOOLEAN,
           NEW set \in {Keep} \cup Jar \cup [acc : Contexts \cup {None}],
           set \in Jar => set.tok <= Len(tokens),
           p \in Tabs /\ ok => set \in Jar,
           Respond(p, ok, set), UNCHANGED <<tables, cookies, world>>
    PROVE  IInv'
<1>1. PICK f \in Flight : f = flight[p] /\ (p \in Tabs => TabOK(f))
                                        /\ (p \in Calls => CallOK(f))
  BY DEF IInv, TypeOK, FlightsOK
<1>2. PICK g : g = Answered(f, ok, set)
  OBVIOUS
<1>3. Goto(p, g)
  BY <1>1, <1>2, Zenon DEF Respond
<1>4. /\ g \in Flight /\ g.pc = "answered"
      /\ (ok => set \in Jar) => TabOK(g)
      /\ CallOK(f) => CallOK(g)
  BY <1>2, AnswerHolds DEF IInv
<1> QED
  BY <1>1, <1>3, <1>4, QuietGoto

LEMMA FlightOf ==
    ASSUME IInv, NEW p \in Procs
    PROVE  /\ flight[p] \in Flight
           /\ p \in Tabs => TabOK(flight[p])
           /\ p \in Calls => CallOK(flight[p])
  BY DEF IInv, TypeOK, FlightsOK

-----------------------------------------------------------------------------
(* Reads *)

LEMMA RefreshReadIInv ==
    ASSUME IInv, NEW t \in Tabs, refreshRead(t)
    PROVE  IInv'
<1>1. t \in Procs /\ TypeOK
  BY DEF Procs, IInv
<1>2. PICK f \in Flight : f = flight[t] /\ TabOK(f)
  BY <1>1, FlightOf
<1>3. Len(tokens) \in Nat /\ DOMAIN tokens = 1..Len(tokens)
      /\ \A i \in DOMAIN tokens : tokens[i] \in Token
  BY <1>1, Lengths
<1>4. UNCHANGED <<tables, cookies, world>>
  BY DEF refreshRead
<1>5. CASE f.tok = 0
  <2>1. Respond(t, FALSE, clearAuthenticationCookies)
    BY <1>2, <1>5 DEF refreshRead, refreshCookies
  <2> QED
    <3>1. PICK set \in Jar : set = clearAuthenticationCookies /\ set.tok = 0
      BY Jars
    <3>2. set.tok <= Len(tokens)
      BY <1>3, <3>1
    <3>3. Respond(t, FALSE, set)
      BY <2>1, <3>1, Zenon
    <3> QED
      BY <1>1, <1>4, <3>2, <3>3, QuietAnswer, Zenon
<1>6. CASE f.tok # 0
  <2>1. PICK pc \in {"family", "resolve"} :
           Goto(t, MovedRoot(f, pc, f.tok, tokens[f.tok].root))
    BY <1>2, <1>6, Zenon DEF refreshRead, MovedRoot
  <2>2. PICK g, root : /\ g = MovedRoot(f, pc, f.tok, root)
                       /\ root = tokens[f.tok].root
    OBVIOUS
  <2>3. f.tok \in DOMAIN tokens /\ f.tok \in Nat /\ root \in Roots \cup {None}
    <3>1. f.tok \in DOMAIN tokens /\ f.tok \in Nat
      BY <1>2, <1>3, <1>6, Bounds DEF TabOK, HoldsRows, Flight
    <3> QED
      BY <1>3, <2>2, <3>1 DEF Token
  <2>4. pc \in Pcs
    BY DEF Pcs
  <2>5. /\ g \in Flight /\ g.pc = pc /\ g.row = f.tok /\ g.root = root
        /\ g.tok = f.tok /\ g.set = f.set
    BY <2>2, <2>3, <2>4, MovedRootOK
  <2>6. HoldsRows(g)
    BY <1>2, <2>3, <2>5 DEF TabOK, HoldsRows
  <2>7. TabOK(g)
    BY <2>2, <2>5, <2>6 DEF TabOK
  <2>8. t \notin Calls
    BY SessionsAssumption
  <2>9. Goto(t, g)
    BY <2>1, <2>2, Zenon
  <2> QED
    BY <1>1, <1>4, <2>5, <2>7, <2>8, <2>9, QuietGoto
<1> QED
  BY <1>5, <1>6

\* The snapshot of an UPDATE over a family holds its rows that are not revoked.
LEMMA SnapshotOK ==
    ASSUME TypeOK, NEW f \in Flight, NEW pc \in {"revoke", "switch"}, NEW g,
           f.row \in DOMAIN tokens, HoldsRows(f),
           g = MovedRows(f, pc, FamilyRows(tokens[f.row].family), Len(tokens))
    PROVE  /\ g \in Flight /\ g.pc = pc /\ g.op = f.op /\ g.root = f.root
           /\ HoldsRows(g)
           /\ \A i \in g.rows : i \in DOMAIN tokens
                                /\ tokens[i].family = tokens[g.row].family
<1>1. PICK rows, upto : rows = FamilyRows(tokens[f.row].family) /\ upto = Len(tokens)
  OBVIOUS
<1>2. /\ Len(tokens) \in Nat /\ DOMAIN tokens = 1..Len(tokens)
  BY Lengths
<1>3. rows \in SUBSET Nat /\ upto \in Nat /\ pc \in Pcs
  BY <1>1, <1>2 DEF FamilyRows, Pcs
<1>4. g = MovedRows(f, pc, rows, upto)
  BY <1>1
<1>5. /\ g \in Flight /\ g.pc = pc /\ g.op = f.op /\ g.root = f.root /\ g.row = f.row
      /\ g.tok = f.tok /\ g.set = f.set /\ g.rows = rows /\ g.upto = upto
  BY <1>3, <1>4, MovedRowsOK
<1>6. \A i \in DOMAIN tokens :
         i \in rows <=> ~tokens[i].revoked /\ tokens[i].family = tokens[f.row].family
  BY <1>1 DEF FamilyRows
<1>7. KnowsFamily(g)
  BY <1>1, <1>2, <1>5, <1>6 DEF KnowsFamily
<1>8. HoldsRows(g)
  BY <1>5, <1>7 DEF HoldsRows
<1> QED
  BY <1>1, <1>5, <1>6, <1>8 DEF FamilyRows

LEMMA RevokeSnapshotIInv ==
    ASSUME IInv, NEW p \in Procs, revokeSnapshot(p)
    PROVE  IInv'
<1>1. TypeOK
  BY DEF IInv
<1>2. PICK f \in Flight : f = flight[p] /\ (p \in Tabs => TabOK(f))
                          /\ (p \in Calls => CallOK(f))
  BY FlightOf
<1>3. HoldsRows(f) /\ f.pc = "family" /\ f.row \in DOMAIN tokens
  BY <1>2 DEF Procs, TabOK, CallOK, HoldsRows, revokeSnapshot
<1>4. PICK g : g = MovedRows(f, "revoke", FamilyRows(tokens[f.row].family), Len(tokens))
  OBVIOUS
<1>5. Goto(p, g)
  BY <1>2, <1>4, Zenon DEF revokeSnapshot, RowsToRevoke, MovedRows
<1>6. g \in Flight /\ g.pc = "revoke" /\ g.op = f.op /\ g.root = f.root /\ HoldsRows(g)
  BY <1>1, <1>3, <1>4, SnapshotOK
<1>7. (p \in Tabs => TabOK(g)) /\ (p \in Calls => CallOK(g))
  BY <1>2, <1>6 DEF TabOK, CallOK
<1>8. UNCHANGED <<tables, cookies, world>>
  BY DEF revokeSnapshot
<1> QED
  BY <1>5, <1>6, <1>7, <1>8, QuietGoto

LEMMA SwitchSnapshotIInv ==
    ASSUME IInv, NEW c \in Calls, switchSnapshot(c)
    PROVE  IInv'
<1>1. TypeOK /\ c \in Procs /\ c \notin Tabs
  BY SessionsAssumption DEF IInv, Procs
<1>2. PICK f \in Flight : f = flight[c] /\ CallOK(f)
  BY <1>1, FlightOf
<1>3. HoldsRows(f) /\ f.pc = "members" /\ f.row \in DOMAIN tokens
  BY <1>2 DEF CallOK, HoldsRows, switchSnapshot
<1>4. PICK g : g = MovedRows(f, "switch", FamilyRows(tokens[f.row].family), Len(tokens))
  OBVIOUS
<1>5. Goto(c, g)
  BY <1>2, <1>4, Zenon DEF switchSnapshot, MovedRows
<1>6. /\ g \in Flight /\ g.pc = "switch" /\ g.op = f.op /\ g.root = f.root /\ HoldsRows(g)
      /\ \A i \in g.rows : i \in DOMAIN tokens
                           /\ tokens[i].family = tokens[g.row].family
  BY <1>1, <1>3, <1>4, SnapshotOK
<1>7. CallOK(g)
  BY <1>2, <1>3, <1>6 DEF CallOK
<1>8. UNCHANGED <<tables, cookies, world>>
  BY DEF switchSnapshot
<1> QED
  BY <1>1, <1>5, <1>6, <1>7, <1>8, QuietGoto

LEMMA RefreshResolveIInv ==
    ASSUME IInv, NEW t \in Tabs, refreshResolve(t)
    PROVE  IInv'
<1>1. TypeOK /\ t \in Procs /\ t \notin Calls
  BY SessionsAssumption DEF IInv, Procs
<1>2. PICK f \in Flight : f = flight[t] /\ TabOK(f)
  BY <1>1, FlightOf
<1>3. PICK acc \in issueAccessToken(f.root) : Goto(t, MovedAcc(f, "rotate", acc))
  BY <1>2, Zenon DEF refreshResolve, MovedAcc
<1>4. PICK g : g = MovedAcc(f, "rotate", acc)
  OBVIOUS
<1>5. acc \in Contexts \cup {None} /\ "rotate" \in Pcs
  BY <1>1 DEF TypeOK, issueAccessToken, resolveUniversityContext, Contexts, Pcs
<1>6. /\ g \in Flight /\ g.pc = "rotate" /\ g.op = f.op /\ g.tok = f.tok /\ g.row = f.row
      /\ g.root = f.root /\ g.late = f.late /\ g.set = f.set
  BY <1>4, <1>5, MovedAccOK
<1>7. f.pc = "resolve" /\ UNCHANGED <<tables, cookies, world>>
  BY <1>2 DEF refreshResolve
<1>8. HoldsRows(g)
  BY <1>2, <1>6, <1>7 DEF HoldsRows, TabOK
<1>9. TabOK(g)
  BY <1>2, <1>6, <1>7, <1>8 DEF TabOK
<1>10. Goto(t, g)
  BY <1>3, <1>4, Zenon
<1> QED
  BY <1>1, <1>6, <1>7, <1>9, <1>10, QuietGoto

LEMMA QuietKeep ==
    ASSUME IInv, NEW c \in Calls, NEW ok \in BOOLEAN, Respond(c, ok, Keep),
           UNCHANGED <<tables, cookies, world>>
    PROVE  IInv'
<1>1. c \in Procs /\ c \notin Tabs
  BY SessionsAssumption DEF Procs
<1>2. PICK set \in {Keep} \cup Jar \cup [acc : Contexts \cup {None}] :
         set = Keep /\ set \notin Jar
  BY Jars, Zenon
<1>3. Respond(c, ok, set)
  BY <1>2, Zenon
<1> QED
  BY <1>1, <1>2, <1>3, QuietAnswer, Zenon

LEMMA LoginCheckIInv ==
    ASSUME IInv, NEW c \in Calls, loginCheck(c)
    PROVE  IInv'
<1>1. c \in Procs /\ c \notin Tabs /\ password \in Nat
  BY SessionsAssumption DEF Procs, IInv, TypeOK
<1>2. PICK f \in Flight : f = flight[c] /\ CallOK(f)
  BY <1>1, FlightOf
<1>3. UNCHANGED <<tables, cookies, world>>
  BY DEF loginCheck
<1>4. CASE Respond(c, FALSE, Keep)
  BY <1>3, <1>4, QuietKeep, Zenon
<1>5. CASE Goto(c, MovedPw(f, "issue", password))
  <2>1. PICK g : g = MovedPw(f, "issue", password)
    OBVIOUS
  <2>2. "issue" \in Pcs
    BY DEF Pcs
  <2>3. /\ g \in Flight /\ g.pc = "issue" /\ g.pw = password /\ g.op = f.op /\ g.tok = f.tok
        /\ g.root = f.root /\ g.set = f.set
    BY <1>1, <2>1, <2>2, MovedPwOK
  <2>4. HoldsRows(g)
    BY <1>2, <2>3 DEF CallOK, HoldsRows
  <2>5. CallOK(g)
    BY <1>1, <1>2, <2>3, <2>4 DEF CallOK
  <2> QED
    BY <1>1, <1>3, <1>5, <2>1, <2>3, <2>5, QuietGoto
<1> QED
  BY <1>2, <1>4, <1>5, Zenon DEF loginCheck, MovedPw

LEMMA LogoutIInv ==
    ASSUME IInv, NEW c \in Calls, logout(c)
    PROVE  IInv'
<1>1. c \in Procs /\ c \notin Tabs /\ TypeOK
  BY SessionsAssumption DEF Procs, IInv
<1>2. PICK f \in Flight : f = flight[c] /\ CallOK(f)
  BY <1>1, FlightOf
<1>3. UNCHANGED <<tables, cookies, world>>
  BY DEF logout
<1>4. Len(tokens) \in Nat /\ DOMAIN tokens = 1..Len(tokens)
  BY <1>1, Lengths
<1>5. CASE f.tok = 0
  <2>1. Respond(c, TRUE, clearAuthenticationCookies)
    BY <1>2, <1>5 DEF logout, logoutCookies
  <2>2. PICK set \in Jar : set = clearAuthenticationCookies /\ set.tok = 0
    BY Jars
  <2>3. set.tok <= Len(tokens)
    BY <1>4, <2>2
  <2>4. Respond(c, TRUE, set)
    BY <2>1, <2>2, Zenon
  <2> QED
    BY <1>1, <1>3, <2>3, <2>4, QuietAnswer, Zenon
<1>6. CASE f.tok # 0
  <2>1. Goto(c, MovedRow(f, "family", f.tok))
    BY <1>2, <1>6, Zenon DEF logout, MovedRow
  <2>2. PICK g : g = MovedRow(f, "family", f.tok)
    OBVIOUS
  <2>3. f.tok \in Nat /\ f.tok \in DOMAIN tokens /\ "family" \in Pcs
    BY <1>2, <1>4, <1>6, Bounds DEF CallOK, HoldsRows, Flight, Pcs
  <2>4. /\ g \in Flight /\ g.pc = "family" /\ g.row = f.tok /\ g.op = f.op
        /\ g.tok = f.tok /\ g.root = f.root /\ g.set = f.set
    BY <2>2, <2>3, MovedRowOK
  <2>5. HoldsRows(g)
    BY <1>2, <2>3, <2>4 DEF CallOK, HoldsRows
  <2>6. CallOK(g)
    BY <1>2, <2>4, <2>5 DEF CallOK
  <2> QED
    BY <1>1, <1>3, <2>1, <2>2, <2>4, <2>6, QuietGoto
<1> QED
  BY <1>5, <1>6

LEMMA SwitchCheckIInv ==
    ASSUME IInv, NEW c \in Calls, switchCheck(c)
    PROVE  IInv'
<1>1. c \in Procs /\ c \notin Tabs /\ TypeOK
  BY SessionsAssumption DEF Procs, IInv
<1>2. PICK f \in Flight : f = flight[c] /\ CallOK(f)
  BY <1>1, FlightOf
<1>3. UNCHANGED <<tables, cookies, world>>
  BY DEF switchCheck
<1>4. Len(tokens) \in Nat /\ DOMAIN tokens = 1..Len(tokens)
  BY <1>1, Lengths
<1>5. CASE Respond(c, FALSE, Keep)
  BY <1>3, <1>5, QuietKeep, Zenon
<1>6. CASE f.tok # 0 /\ f.op = "switch" /\ Goto(c, MovedRow(f, "members", f.tok))
  <2>1. PICK g : g = MovedRow(f, "members", f.tok)
    OBVIOUS
  <2>2. f.tok \in Nat /\ f.tok \in DOMAIN tokens /\ "members" \in Pcs
    BY <1>2, <1>4, <1>6, Bounds DEF CallOK, HoldsRows, Flight, Pcs
  <2>3. /\ g \in Flight /\ g.pc = "members" /\ g.row = f.tok /\ g.op = f.op
        /\ g.tok = f.tok /\ g.root = f.root /\ g.set = f.set
    BY <2>1, <2>2, MovedRowOK
  <2>4. HoldsRows(g)
    BY <1>2, <2>2, <2>3 DEF CallOK, HoldsRows
  <2>5. CallOK(g)
    BY <1>2, <1>6, <2>3, <2>4 DEF CallOK
  <2> QED
    BY <1>1, <1>3, <1>6, <2>1, <2>3, <2>5, QuietGoto
<1> QED
  BY <1>2, <1>5, <1>6, Zenon DEF switchCheck, MovedRow

LEMMA MeIInv ==
    ASSUME IInv, NEW c \in Calls, me(c)
    PROVE  IInv'
<1>1. PICK ok \in BOOLEAN : ok = canActivate(flight[c].acc)
  BY Zenon DEF canActivate
<1>2. Respond(c, ok, Keep) /\ UNCHANGED <<tables, cookies, world>>
  BY <1>1, Zenon DEF me
<1> QED
  BY <1>2, QuietKeep, Zenon

LEMMA ForgotIInv ==
    ASSUME IInv, NEW c \in Calls, forgotCheck(c) \/ forgotSnapshot(c)
    PROVE  IInv'
<1>1. c \in Procs /\ c \notin Tabs /\ TypeOK
  BY SessionsAssumption DEF Procs, IInv
<1>2. PICK f \in Flight : f = flight[c] /\ CallOK(f)
  BY <1>1, FlightOf
<1>3. UNCHANGED <<tables, cookies, world>>
  BY DEF forgotCheck, forgotSnapshot
<1>4. CASE Respond(c, TRUE, Keep)
  BY <1>3, <1>4, QuietKeep, Zenon
<1>5. CASE Goto(c, Moved(f, "forgot"))
  <2>1. PICK g : g = Moved(f, "forgot")
    OBVIOUS
  <2>2. "forgot" \in Pcs
    BY DEF Pcs
  <2>3. /\ g \in Flight /\ g.pc = "forgot" /\ g.op = f.op
        /\ g.tok = f.tok /\ g.root = f.root /\ g.set = f.set
    BY <2>1, <2>2, MovedOK
  <2>4. HoldsRows(g)
    BY <1>2, <2>3 DEF CallOK, HoldsRows
  <2>5. CallOK(g)
    BY <1>2, <2>3, <2>4 DEF CallOK
  <2> QED
    BY <1>1, <1>3, <1>5, <2>1, <2>3, <2>5, QuietGoto
<1>6. CASE Goto(c, MovedSeen(f, "mail", LinksToUseUp, Len(links)))
  <2>1. PICK seen, mailed : seen = LinksToUseUp /\ mailed = Len(links)
    OBVIOUS
  <2>2. PICK g : g = MovedSeen(f, "mail", seen, mailed)
    OBVIOUS
  <2>3. /\ seen \in SUBSET Nat /\ mailed \in Nat /\ "mail" \in Pcs
        /\ \A i \in 1..mailed : LiveLink(i) => i \in seen
    BY <1>1, <2>1, Lengths DEF LinksToUseUp, Pcs
  <2>4. /\ g \in Flight /\ g.pc = "mail" /\ g.op = f.op /\ g.seen = seen /\ g.mailed = mailed
        /\ g.tok = f.tok /\ g.root = f.root /\ g.set = f.set
    BY <2>2, <2>3, MovedSeenOK
  <2>5. HoldsRows(g)
    BY <1>2, <2>4 DEF CallOK, HoldsRows
  <2>6. CallOK(g)
    BY <1>2, <2>1, <2>3, <2>4, <2>5 DEF CallOK
  <2>7. Goto(c, g)
    BY <1>6, <2>1, <2>2, Zenon
  <2> QED
    BY <1>1, <1>3, <2>4, <2>6, <2>7, QuietGoto
<1> QED
  BY <1>2, <1>4, <1>5, <1>6, Zenon DEF forgotCheck, forgotSnapshot, Moved, MovedSeen

LEMMA ResetReadIInv ==
    ASSUME IInv, NEW c \in Calls, resetCheck(c) \/ resetClaim(c)
    PROVE  IInv'
<1>1. c \in Procs /\ c \notin Tabs /\ TypeOK
  BY SessionsAssumption DEF Procs, IInv
<1>2. PICK f \in Flight : f = flight[c] /\ CallOK(f)
  BY <1>1, FlightOf
<1>3. UNCHANGED <<tables, cookies, world>>
  BY DEF resetCheck, resetClaim
<1>4. CASE Respond(c, FALSE, Keep)
  BY <1>3, <1>4, QuietKeep, Zenon
<1>5. CASE f.op = "reset" /\ f.pc = "sent" /\ Goto(c, Moved(f, "claim"))
  <2>1. PICK g : g = Moved(f, "claim")
    OBVIOUS
  <2>2. "claim" \in Pcs
    BY DEF Pcs
  <2>3. /\ g \in Flight /\ g.pc = "claim" /\ g.op = f.op
        /\ g.tok = f.tok /\ g.row = f.row /\ g.root = f.root /\ g.set = f.set
    BY <2>1, <2>2, MovedOK
  <2>4. HoldsRows(g)
    BY <1>2, <2>3 DEF CallOK, HoldsRows
  <2>5. CallOK(g)
    BY <1>2, <1>5, <2>3, <2>4 DEF CallOK
  <2> QED
    BY <1>1, <1>3, <1>5, <2>1, <2>3, <2>5, QuietGoto
<1>6. CASE /\ f.pc = "claim" /\ LiveLink(f.row) /\ \A d \in Calls : flight[d].pc # "reset"
           /\ Goto(c, MovedReset(f, "reset", {i \in DOMAIN tokens : ~tokens[i].revoked},
                                 Len(tokens), LinksToUseUp, Len(links)))
  <2>1. PICK rows, upto, seen, mailed :
           /\ rows = {i \in DOMAIN tokens : ~tokens[i].revoked}
           /\ upto = Len(tokens)
           /\ seen = LinksToUseUp /\ mailed = Len(links)
    OBVIOUS
  <2>2. PICK g : g = MovedReset(f, "reset", rows, upto, seen, mailed)
    OBVIOUS
  <2>3. /\ seen \in SUBSET Nat /\ mailed \in Nat /\ "reset" \in Pcs
        /\ rows \in SUBSET Nat /\ upto \in Nat
        /\ \A i \in 1..upto : ~tokens[i].revoked => i \in rows
    BY <1>1, <2>1, Lengths DEF LinksToUseUp, Pcs
  <2>4. /\ g \in Flight /\ g.pc = "reset" /\ g.op = f.op /\ g.rows = rows /\ g.upto = upto
        /\ g.tok = f.tok /\ g.row = f.row /\ g.root = f.root /\ g.set = f.set
    BY <2>2, <2>3, MovedResetOK
  <2>5. HoldsRows(g)
    BY <1>2, <2>4 DEF CallOK, HoldsRows
  <2>6. f.op = "reset" /\ f.row \in DOMAIN links
    BY <1>2, <1>6 DEF CallOK
  <2>7. links[f.row].opens = 0
    <3>1. links[f.row].opens \in Nat /\ ~links[f.row].used
      BY <1>1, <1>6, <2>6, Lengths DEF LiveLink, Link
    <3>2. links[f.row].opens > 0 => links[f.row].used
      BY <2>6 DEF IInv, LinksInv, OpenedIsUsed
    <3> QED
      BY <3>1, <3>2
  <2>8. CallOK(g)
    BY <1>1, <1>2, <2>1, <2>3, <2>4, <2>5, <2>6, <2>7, Lengths DEF CallOK
  <2>9. Goto(c, g)
    BY <1>6, <2>1, <2>2, Zenon
  <2> QED
    BY <1>1, <1>3, <1>6, <2>4, <2>8, <2>9, QuietGoto
<1>7. CASE resetCheck(c)
  BY <1>2, <1>4, <1>5, <1>7, Zenon DEF resetCheck, resetCookies, Moved
<1>8. CASE resetClaim(c)
  BY <1>2, <1>4, <1>6, <1>8, Zenon DEF resetClaim, resetCookies, ClaimableLink, MovedReset
<1> QED
  BY <1>7, <1>8

-----------------------------------------------------------------------------
(* The browser *)

\* Steps of any flights that write no table and start no reset.
LEMMA QuietFlights ==
    ASSUME IInv, UNCHANGED <<password, tokens, links, ended, chosen, lapsed>>,
           approved' \subseteq Roots, cookies' \in Jar, cookies'.tok <= Len(tokens),
           presented' \in [TokenIds -> SUBSET Tabs],
           flight' \in [Procs -> Flight],
           \A t \in Tabs : TabOK(flight'[t]),
           \A c \in Calls : CallOK(flight'[c]),
           \A c \in Calls : flight'[c].pc = "reset" => flight[c].pc = "reset"
    PROVE  IInv'
<1>1. ASSUME NEW t \in Tabs PROVE TabOK(flight[t])'
  BY DEF TabOK, HoldsRows, KnowsFamily
<1>2. ASSUME NEW c \in Calls PROVE CallOK(flight[c])'
  BY DEF CallOK, HoldsRows, KnowsFamily, LiveLink
<1>3. \A c, d \in Calls : flight'[c].pc = "reset" /\ flight'[d].pc = "reset" => c = d
  BY DEF IInv, FlightsOK
<1>4. FlightsOK'
  BY <1>1, <1>2, <1>3 DEF FlightsOK
<1> QED
  BY <1>4, QuietStep

LEMMA StartIInv ==
    ASSUME IInv, NEW c \in Calls, NEW g \in Flight, NEW why, Start(c, g, why),
           CallOK(g), g.pc = "sent"
    PROVE  IInv'
<1>1. c \in Procs /\ c \notin Tabs
  BY SessionsAssumption DEF Procs
<1>2. UNCHANGED <<password, tokens, links, ended, chosen, lapsed>>
  BY DEF Start, tables
<1>3. UNCHANGED <<approved, cookies, presented>>
  BY DEF Start, tables
<1>4. flight' = [flight EXCEPT ![c] = g]
  BY Zenon DEF Start, Goto
<1> QED
  BY <1>1, <1>2, <1>3, <1>4, QuietFlight

LEMMA CookiesOK ==
    ASSUME IInv
    PROVE  /\ TypeOK /\ cookies \in Jar /\ cookies.tok <= Len(tokens)
           /\ None \in Roots \cup {None} /\ 0 \in Nat
  BY DEF IInv, TypeOK

LEMMA SubmitIInv ==
    ASSUME IInv, NEW c \in Calls,
           \/ loadCurrentUser(c) \/ handleLogout(c) \/ submitLogin(c)
           \/ submitForgotPassword(c)
           \/ \E root \in Roots : selectUniversity(c, root)
           \/ \E i \in LinkIds : submitResetPassword(c, i)
    PROVE  IInv'
<1>1. PICK jar \in Jar : jar = cookies /\ jar.tok <= Len(tokens)
  BY CookiesOK
<1>2. ASSUME NEW op \in Requests, NEW root \in Roots \cup {None}, NEW row \in Nat,
             NEW why, op = "switch" => root \in Roots,
             op = "reset" => row \in DOMAIN links,
             Start(c, Send(op, root, row, jar), why)
      PROVE  IInv'
  <2>1. PICK g : g = Send(op, root, row, jar)
    OBVIOUS
  <2>2a. IsRequest(g, op)
    BY <1>1, <1>2, <2>1, CookiesOK, RequestHolds
  <2>2. g \in Flight /\ g.pc = "sent" /\ CallOK(g)
    BY <2>2a DEF IsRequest
  <2>3. Start(c, g, why)
    BY <1>2, <2>1, Zenon
  <2> QED
    BY <2>2, <2>3, StartIInv
<1>3. /\ {"me", "logout", "login", "forgot", "reset", "switch"} \subseteq Requests
      /\ "me" # "switch" /\ "logout" # "switch" /\ "login" # "switch"
      /\ "forgot" # "switch" /\ "reset" # "switch"
      /\ "me" # "reset" /\ "logout" # "reset" /\ "login" # "reset"
      /\ "forgot" # "reset" /\ "switch" # "reset"
  BY DEF Requests
<1>4. None \in Roots \cup {None} /\ 0 \in Nat
  OBVIOUS
<1>5. CASE loadCurrentUser(c)
  <2>1. Start(c, Send("me", None, 0, jar), {})
    BY <1>1, <1>5, Zenon DEF loadCurrentUser, getCurrentUser
  <2> QED
    BY <1>2, <1>3, <1>4, <2>1, Zenon
<1>6. CASE handleLogout(c)
  <2>1. Start(c, Send("logout", None, 0, jar), {"logout"})
    BY <1>1, <1>6, Zenon DEF handleLogout, logoutRequest
  <2> QED
    BY <1>2, <1>3, <1>4, <2>1, Zenon
<1>7. CASE submitLogin(c)
  <2>1. Start(c, Send("login", None, 0, jar), {})
    BY <1>1, <1>7, Zenon DEF submitLogin, loginRequest
  <2> QED
    BY <1>2, <1>3, <1>4, <2>1, Zenon
<1>8. CASE submitForgotPassword(c)
  <2>1. Start(c, Send("forgot", None, 0, jar), {})
    BY <1>1, <1>8, Zenon DEF submitForgotPassword, requestPasswordReset
  <2> QED
    BY <1>2, <1>3, <1>4, <2>1, Zenon
<1>9. ASSUME NEW root \in Roots, selectUniversity(c, root)
      PROVE  IInv'
  <2>1. Start(c, Send("switch", root, 0, jar), {})
    BY <1>1, <1>9, Zenon DEF selectUniversity, switchActiveUniversity
  <2>2. root \in Roots \cup {None}
    OBVIOUS
  <2> QED
    BY <1>2, <1>3, <1>4, <1>9, <2>1, <2>2, Zenon
<1>10. ASSUME NEW i \in LinkIds, submitResetPassword(c, i)
       PROVE  IInv'
  <2>1. Start(c, Send("reset", None, i, jar), {})
    BY <1>1, <1>10, Zenon DEF submitResetPassword, resetPassword
  <2>2. i \in Nat /\ i \in DOMAIN links
    BY <1>10, Bounds DEF submitResetPassword, LinkIds
  <2> QED
    BY <1>2, <1>3, <1>4, <2>1, <2>2, Zenon
<1> QED
  BY <1>5, <1>6, <1>7, <1>8, <1>9, <1>10

LEMMA PresentOK ==
    ASSUME IInv, NEW t \in Tabs, Present(t)
    PROVE  presented' \in [TokenIds -> SUBSET Tabs]
<1>1. presented \in [TokenIds -> SUBSET Tabs] /\ cookies \in Jar
  BY DEF IInv, TypeOK
<1>2. CASE flight[t].pc = "idle" /\ cookies.tok # 0
  <2>1. cookies.tok \in TokenIds
    BY <1>1, <1>2, Bounds DEF Jar, TokenIds
  <2>2. presented' = [presented EXCEPT ![cookies.tok] = @ \cup {t}]
    BY <1>2 DEF Present
  <2> QED
    BY <1>1, <2>1, <2>2
<1>3. CASE ~(flight[t].pc = "idle" /\ cookies.tok # 0)
  BY <1>1, <1>3 DEF Present
<1> QED
  BY <1>2, <1>3

LEMMA SetCookiesOK ==
    ASSUME IInv, NEW set \in {Keep} \cup Jar \cup [acc : Contexts \cup {None}],
           set \in Jar => set.tok <= Len(tokens), setCookies(set)
    PROVE  cookies' \in Jar /\ cookies'.tok <= Len(tokens)
<1>1. /\ cookies \in [tok : 0..MaxTokens, acc : Contexts \cup {None}]
      /\ cookies.tok <= Len(tokens)
  BY DEF IInv, TypeOK, Jar
<1>2. DOMAIN cookies = {"tok", "acc"}
  BY <1>1
<1>3. cookies' = [k \in {"tok", "acc"} |-> IF k \in DOMAIN set THEN set[k] ELSE cookies[k]]
  BY <1>2 DEF setCookies
<1>4. CASE set = Keep
  <2>1. "tok" \notin DOMAIN set /\ "acc" \notin DOMAIN set
    BY <1>4 DEF Keep
  <2>2. cookies' = [tok |-> cookies.tok, acc |-> cookies.acc]
    BY <1>3, <2>1
  <2> QED
    BY <1>1, <2>2 DEF Jar
<1>5. CASE set \in Jar
  <2>1. "tok" \in DOMAIN set /\ "acc" \in DOMAIN set
    BY <1>5 DEF Jar
  <2>2. cookies' = [tok |-> set.tok, acc |-> set.acc]
    BY <1>3, <2>1
  <2> QED
    BY <1>5, <2>2 DEF Jar
<1>6. CASE set \in [acc : Contexts \cup {None}]
  <2>1. "tok" \notin DOMAIN set /\ "acc" \in DOMAIN set
    BY <1>6
  <2>2. cookies' = [tok |-> cookies.tok, acc |-> set.acc]
    BY <1>3, <2>1
  <2> QED
    BY <1>1, <1>6, <2>2 DEF Jar
<1> QED
  BY <1>4, <1>5, <1>6

LEMMA RestoreSessionIInv ==
    ASSUME IInv, NEW t \in Tabs, restoreSession(t)
    PROVE  IInv'
<1>1. t \in Procs /\ t \notin Calls /\ flight \in [Procs -> Flight]
  BY SessionsAssumption DEF Procs, IInv, TypeOK
<1>2. PICK jar \in Jar : jar = cookies /\ jar.tok <= Len(tokens)
  BY CookiesOK
<1>3. PICK g : g = Send("refresh", None, 0, jar)
  OBVIOUS
<1>4. "refresh" \in Requests /\ "refresh" # "switch" /\ "refresh" # "reset"
  BY DEF Requests
<1>5a. IsRequest(g, "refresh")
  BY <1>2, <1>3, <1>4, CookiesOK, RequestHolds
<1>5. g \in Flight /\ g.pc = "sent" /\ TabOK(g)
  BY <1>5a DEF IsRequest
<1>6. flight' = [flight EXCEPT ![t] = g]
  BY <1>2, <1>3, Zenon DEF restoreSession, refreshSession, performRefresh
<1>7. /\ UNCHANGED <<password, tokens, links, ended, chosen, lapsed>>
      /\ UNCHANGED <<approved, cookies>>
  BY DEF restoreSession
<1>8. presented' \in [TokenIds -> SUBSET Tabs]
  BY PresentOK DEF restoreSession
<1>9. flight' \in [Procs -> Flight] /\ \A p \in Procs : flight'[p] = IF p = t THEN g ELSE flight[p]
  BY <1>1, <1>5, <1>6
<1>10. \A u \in Tabs : TabOK(flight'[u])
  BY <1>5, <1>9 DEF IInv, FlightsOK, Procs
<1>11. \A c \in Calls : flight'[c] = flight[c]
  BY <1>1, <1>9 DEF Procs
<1>12. \A c \in Calls : CallOK(flight'[c])
  BY <1>11 DEF IInv, FlightsOK
<1>13. approved' \subseteq Roots /\ cookies' \in Jar /\ cookies'.tok <= Len(tokens)
  BY <1>7 DEF IInv, TypeOK
<1> QED
  BY <1>7, <1>8, <1>9, <1>10, <1>11, <1>12, <1>13, QuietFlights

\* fetchWithSessionRefresh waits for the refresh of its tab.
LEMMA WaitIInv ==
    ASSUME IInv, NEW c \in Calls, answerCall(c), Refreshes(c),
           flight' = refreshSession(TabOf[c],
                         [flight EXCEPT ![c] = [flight[c] EXCEPT !.pc = "waiting"]]),
           Present(TabOf[c])
    PROVE  IInv'
<1>1. PICK t \in Tabs : t = TabOf[c]
  BY SessionsAssumption
<1>2. c \in Procs /\ t \in Procs /\ c # t /\ c \notin Tabs /\ flight \in [Procs -> Flight]
  BY SessionsAssumption DEF Procs, IInv, TypeOK
<1>3. PICK f \in Flight : f = flight[c] /\ CallOK(f)
  BY <1>2, FlightOf
<1>4. PICK g : g = Moved(f, "waiting")
  OBVIOUS
<1>5. f.op \in {"me", "switch"} /\ "waiting" \in Pcs
  BY <1>3 DEF Refreshes, Pcs
<1>6. /\ g \in Flight /\ g.pc = "waiting" /\ g.op = f.op
      /\ g.tok = f.tok /\ g.root = f.root /\ g.set = f.set
  BY <1>4, <1>5, MovedOK
<1>7. HoldsRows(g)
  BY <1>3, <1>6 DEF CallOK, HoldsRows
<1>8. CallOK(g)
  BY <1>3, <1>5, <1>6, <1>7 DEF CallOK
<1>9. PICK jar \in Jar : jar = cookies /\ jar.tok <= Len(tokens)
  BY CookiesOK
<1>10. PICK h : h = Send("refresh", None, 0, jar)
  OBVIOUS
<1>11. "refresh" \in Requests /\ "refresh" # "switch" /\ "refresh" # "reset"
  BY DEF Requests
<1>12a. IsRequest(h, "refresh")
  BY <1>9, <1>10, <1>11, CookiesOK, RequestHolds
<1>12. h \in Flight /\ h.pc = "sent" /\ TabOK(h)
  BY <1>12a DEF IsRequest
<1>13. PICK w : w = [flight EXCEPT ![c] = g]
  OBVIOUS
<1>14. flight' = IF w[t].pc = "idle" THEN [w EXCEPT ![t] = h] ELSE w
  BY <1>1, <1>3, <1>4, <1>9, <1>10, <1>13, Zenon
     DEF refreshSession, performRefresh, Moved
<1>15. /\ w \in [Procs -> Flight]
       /\ \A p \in Procs : w[p] = IF p = c THEN g ELSE flight[p]
  BY <1>2, <1>6, <1>13
<1>16. /\ flight' \in [Procs -> Flight]
       /\ \A p \in Procs : flight'[p] = w[p] \/ (p = t /\ flight'[p] = h)
  BY <1>2, <1>12, <1>14, <1>15
<1>17. \A u \in Tabs : TabOK(flight'[u])
  BY <1>2, <1>12, <1>15, <1>16 DEF IInv, FlightsOK, Procs
<1>18. \A d \in Calls : flight'[d] = IF d = c THEN g ELSE flight[d]
  <2>1. \A d \in Calls : d \in Procs /\ d # t
    BY SessionsAssumption DEF Procs
  <2> QED
    BY <1>15, <1>16, <2>1
<1>19. \A d \in Calls : CallOK(flight'[d])
  BY <1>8, <1>18 DEF IInv, FlightsOK
<1>20. \A d \in Calls : flight'[d].pc = "reset" => flight[d].pc = "reset"
  BY <1>6, <1>18
<1>21. /\ UNCHANGED <<password, tokens, links, ended, chosen, lapsed>>
       /\ UNCHANGED approved /\ setCookies(f.set)
  BY <1>3 DEF answerCall, world
<1>22. presented' \in [TokenIds -> SUBSET Tabs]
  BY <1>1, PresentOK
<1>23. cookies' \in Jar /\ cookies'.tok <= Len(tokens)
  <2>1. /\ f.set \in {Keep} \cup Jar \cup [acc : Contexts \cup {None}]
        /\ f.set \in Jar => f.set.tok <= Len(tokens)
    BY <1>3 DEF Flight, CallOK, HoldsRows
  <2> QED
    BY <1>21, <2>1, SetCookiesOK
<1>24. approved' \subseteq Roots
  BY <1>21 DEF IInv, TypeOK
<1> QED
  BY <1>16, <1>17, <1>19, <1>20, <1>21, <1>22, <1>23, <1>24, QuietFlights

LEMMA AnswerCallIInv ==
    ASSUME IInv, NEW c \in Calls, answerCall(c)
    PROVE  IInv'
<1>1. c \in Procs /\ c \notin Tabs /\ flight \in [Procs -> Flight]
  BY SessionsAssumption DEF Procs, IInv, TypeOK
<1>2. PICK f \in Flight : f = flight[c] /\ CallOK(f)
  BY <1>1, FlightOf
<1>3. /\ UNCHANGED <<password, tokens, links, ended, chosen, lapsed>>
      /\ UNCHANGED approved /\ setCookies(f.set)
  BY <1>2 DEF answerCall, world
<1>4. cookies' \in Jar /\ cookies'.tok <= Len(tokens)
  <2>1. /\ f.set \in {Keep} \cup Jar \cup [acc : Contexts \cup {None}]
        /\ f.set \in Jar => f.set.tok <= Len(tokens)
    BY <1>2 DEF Flight, CallOK, HoldsRows
  <2> QED
    BY <1>3, <2>1, SetCookiesOK
<1>5. ASSUME NEW g \in Flight, CallOK(g), g.pc # "reset", Goto(c, g), UNCHANGED presented
      PROVE  IInv'
  <2>1. /\ flight' \in [Procs -> Flight]
        /\ \A p \in Procs : flight'[p] = IF p = c THEN g ELSE flight[p]
    BY <1>1, <1>5 DEF Goto
  <2>2. \A u \in Tabs : TabOK(flight'[u])
    BY <1>1, <2>1 DEF IInv, FlightsOK, Procs
  <2>3. \A d \in Calls : flight'[d] = IF d = c THEN g ELSE flight[d]
    BY <2>1 DEF Procs
  <2>4. \A d \in Calls : CallOK(flight'[d])
    BY <1>5, <2>3 DEF IInv, FlightsOK
  <2>5. \A d \in Calls : flight'[d].pc = "reset" => flight[d].pc = "reset"
    BY <1>5, <2>3
  <2>6. approved' \subseteq Roots /\ presented' \in [TokenIds -> SUBSET Tabs]
    BY <1>3, <1>5 DEF IInv, TypeOK
  <2> QED
    BY <1>3, <1>4, <2>1, <2>2, <2>4, <2>5, <2>6, QuietFlights
<1>6. CASE /\ Refreshes(c)
           /\ flight' = refreshSession(TabOf[c],
                  [flight EXCEPT ![c] = [flight[c] EXCEPT !.pc = "waiting"]])
           /\ Present(TabOf[c])
  BY <1>6, WaitIInv, Zenon
<1>7. CASE Goto(c, logoutRequest) /\ UNCHANGED presented
  <2>1. PICK jar \in Jar : jar = cookies /\ jar.tok <= Len(tokens)
    BY CookiesOK
  <2>2. PICK g : g = Send("logout", None, 0, jar)
    OBVIOUS
  <2>3. "logout" \in Requests /\ "logout" # "switch" /\ "logout" # "reset"
    BY DEF Requests
  <2>4a. IsRequest(g, "logout")
    BY <2>1, <2>2, <2>3, CookiesOK, RequestHolds
  <2>4. g \in Flight /\ g.pc = "sent" /\ CallOK(g)
    BY <2>4a DEF IsRequest
  <2>5. Goto(c, g)
    BY <1>7, <2>1, <2>2, Zenon DEF logoutRequest
  <2> QED
    BY <1>5, <1>7, <2>4, <2>5
<1>8. CASE Goto(c, Idle) /\ UNCHANGED presented
  <2>1. PICK g \in Flight : g = Idle /\ g.pc = "idle" /\ CallOK(g)
    BY IdleHolds DEF IInv
  <2> QED
    BY <1>5, <1>8, <2>1
<1> QED
  BY <1>6, <1>7, <1>8, Zenon DEF answerCall

\* A call that waited is sent again with the new cookies, or has its answer 401.
LEMMA ResendOK ==
    ASSUME IInv, NEW t \in Tabs, NEW set, NEW ok \in BOOLEAN,
           ok => set \in Jar /\ set.tok <= Len(tokens),
           flight' = Resend(t, set, ok)
    PROVE  /\ flight' \in [Procs -> Flight]
           /\ \A u \in Tabs : TabOK(flight'[u])
           /\ \A c \in Calls : CallOK(flight'[c])
           /\ \A c \in Calls : flight'[c].pc = "reset" => flight[c].pc = "reset"
<1>1. ASSUME NEW p \in Procs
      PROVE  /\ flight'[p] \in Flight
             /\ p \in Tabs => TabOK(flight'[p])
             /\ p \in Calls => CallOK(flight'[p])
             /\ flight'[p].pc = "reset" => flight[p].pc = "reset"
  <2>1. PICK f \in Flight : f = flight[p] /\ (p \in Tabs => TabOK(f))
                            /\ (p \in Calls => CallOK(f))
    BY FlightOf
  <2>2. CASE p = t
    <3>1. PICK g \in Flight : g = Idle /\ g.pc = "idle" /\ TabOK(g)
      BY IdleHolds DEF IInv
    <3>2. flight'[p] = g
      BY <2>2, <3>1 DEF Resend
    <3> QED
      BY <2>2, <3>1, <3>2, SessionsAssumption
  <2>3. CASE p # t /\ p \notin Waiting(t)
    <3>1. flight'[p] = f
      BY <2>1, <2>3 DEF Resend
    <3> QED
      BY <2>1, <3>1
  <2>4. CASE p # t /\ p \in Waiting(t)
    <3>1. p \in Calls /\ p \notin Tabs /\ f.pc = "waiting" /\ f.op \in {"me", "switch"}
      BY <2>1, <2>4, SessionsAssumption DEF Waiting, CallOK
    <3>2. CASE ok
      <4>1. PICK s \in Jar : s = set /\ s.tok <= Len(tokens)
        BY <3>2
      <4>3. /\ f.op \in Requests /\ f.root \in Roots \cup {None}
            /\ f.op = "switch" => f.root \in Roots
            /\ f.op # "reset"
        BY <2>1, <3>1 DEF Requests, Flight, CallOK
      <4>3a. PICK op \in Requests, root \in Roots \cup {None} :
                op = f.op /\ root = f.root /\ (op = "switch" => root \in Roots)
                /\ op # "reset"
        BY <4>3
      <4>2. PICK h : h = Send(op, root, 0, s)
        OBVIOUS
      <4>4a. TypeOK /\ 0 \in Nat
        BY DEF IInv
      <4>4c. IsRequest(h, op)
        BY <4>1, <4>2, <4>3a, <4>4a, RequestHolds
      <4>4b. h \in Flight /\ h.pc = "sent" /\ h.op = op /\ CallOK(h)
        BY <4>4c DEF IsRequest
      <4>4. h \in Flight /\ h.pc = "sent" /\ h.op = f.op /\ CallOK(h)
        BY <4>3a, <4>4b
      <4>5. PICK g : g = Again(h, TRUE)
        OBVIOUS
      <4>6. /\ g \in Flight /\ g.pc = "sent" /\ g.op = h.op /\ g.root = h.root
            /\ g.tok = h.tok /\ g.set = h.set
        BY <4>4, <4>5, AgainOK
      <4>7. HoldsRows(g)
        BY <4>4, <4>6 DEF CallOK, HoldsRows
      <4>8. CallOK(g)
        BY <3>1, <4>4, <4>6, <4>7 DEF CallOK
      <4>9. flight'[p] = g
        BY <2>1, <2>4, <3>2, <4>1, <4>2, <4>3a, <4>5, Zenon DEF Resend, Again
      <4> QED
        BY <3>1, <4>6, <4>8, <4>9
    <3>3. CASE ~ok
      <4>1. PICK g : g = MovedAgain(f, "answered", TRUE)
        OBVIOUS
      <4>2. "answered" \in Pcs
        BY DEF Pcs
      <4>3. /\ g \in Flight /\ g.pc = "answered" /\ g.op = f.op /\ g.root = f.root
            /\ g.tok = f.tok /\ g.set = f.set
        BY <4>1, <4>2, MovedAgainOK
      <4>4. HoldsRows(g)
        BY <2>1, <3>1, <4>3 DEF CallOK, HoldsRows
      <4>5. CallOK(g)
        BY <2>1, <3>1, <4>3, <4>4 DEF CallOK
      <4>6. flight'[p] = g
        BY <2>1, <2>4, <3>3, <4>1, Zenon DEF Resend, MovedAgain
      <4> QED
        BY <3>1, <4>3, <4>5, <4>6
    <3> QED
      BY <3>2, <3>3
  <2> QED
    BY <2>2, <2>3, <2>4
<1>2. flight' = [p \in Procs |-> flight'[p]]
  BY DEF Resend
<1>3. flight' \in [Procs -> Flight]
  BY <1>1, <1>2
<1> QED
  BY <1>1, <1>3 DEF Procs

LEMMA AnswerRefreshIInv ==
    ASSUME IInv, NEW t \in Tabs, answerRefresh(t)
    PROVE  IInv'
<1>1. t \in Procs
  BY DEF Procs
<1>2. PICK f \in Flight : f = flight[t] /\ TabOK(f)
  BY <1>1, FlightOf
<1>3a. PICK set : set = f.set
  OBVIOUS
<1>3b. PICK ok \in BOOLEAN : ok = f.ok
  BY DEF Flight
<1>3. set = f.set /\ ok = f.ok
  BY <1>3a, <1>3b
<1>4. /\ set \in {Keep} \cup Jar \cup [acc : Contexts \cup {None}]
      /\ set \in Jar => set.tok <= Len(tokens)
      /\ ok => set \in Jar
  BY <1>2, <1>3 DEF Flight, TabOK, HoldsRows, answerRefresh
<1>5. flight' = Resend(t, set, ok) /\ setCookies(set)
  BY <1>2, <1>3, Zenon DEF answerRefresh
<1>6. /\ flight' \in [Procs -> Flight]
      /\ \A u \in Tabs : TabOK(flight'[u])
      /\ \A c \in Calls : CallOK(flight'[c])
      /\ \A c \in Calls : flight'[c].pc = "reset" => flight[c].pc = "reset"
  BY <1>4, <1>5, ResendOK, Zenon
<1>7. cookies' \in Jar /\ cookies'.tok <= Len(tokens)
  BY <1>4, <1>5, SetCookiesOK
<1>8. /\ UNCHANGED <<password, tokens, links, ended, chosen, lapsed>>
      /\ UNCHANGED <<approved, presented>>
  BY DEF answerRefresh, tables, world
<1>9. approved' \subseteq Roots /\ presented' \in [TokenIds -> SUBSET Tabs]
  BY <1>8 DEF IInv, TypeOK
<1> QED
  BY <1>6, <1>7, <1>8, <1>9, QuietFlights

LEMMA AnswerLostIInv ==
    ASSUME IInv, NEW p \in Procs, answerLost(p)
    PROVE  IInv'
<1>1. /\ UNCHANGED <<password, tokens, links, ended, chosen, lapsed>>
      /\ UNCHANGED <<approved, cookies, presented>>
  BY DEF answerLost, tables
<1>2. CASE p \in Tabs
  <2>1. flight' = Resend(p, Keep, FALSE)
    BY <1>2, Zenon DEF answerLost
  <2>2. /\ flight' \in [Procs -> Flight]
        /\ \A u \in Tabs : TabOK(flight'[u])
        /\ \A c \in Calls : CallOK(flight'[c])
        /\ \A c \in Calls : flight'[c].pc = "reset" => flight[c].pc = "reset"
    BY <1>2, <2>1, ResendOK, Zenon
  <2>3. /\ approved' \subseteq Roots /\ presented' \in [TokenIds -> SUBSET Tabs]
        /\ cookies' \in Jar /\ cookies'.tok <= Len(tokens)
    BY <1>1 DEF IInv, TypeOK
  <2> QED
    BY <1>1, <2>2, <2>3, QuietFlights
<1>3. CASE p \notin Tabs
  <2>1. PICK g \in Flight : g = Idle /\ g.pc = "idle" /\ CallOK(g)
    BY IdleHolds DEF IInv
  <2>2. flight' = [flight EXCEPT ![p] = g]
    BY <1>3, <2>1, Zenon DEF answerLost
  <2> QED
    BY <1>1, <1>3, <2>1, <2>2, QuietFlight
<1> QED
  BY <1>2, <1>3

-----------------------------------------------------------------------------
(* Time, and the other services *)

LEMMA CookieOrMembershipIInv ==
    ASSUME IInv,
           accessExpires \/ \E now \in SUBSET Roots : membershipChanges(now)
    PROVE  IInv'
<1>1. UNCHANGED <<password, tokens, links, ended, chosen, lapsed, presented, flight>>
  BY DEF accessExpires, membershipChanges, tables
<1>2. cookies' \in Jar /\ cookies'.tok <= Len(tokens)
  <2>1. cookies \in Jar /\ cookies.tok <= Len(tokens)
    BY DEF IInv, TypeOK
  <2>2. CASE accessExpires
    <3>1. cookies' = [cookies EXCEPT !.acc = None]
      BY <2>2 DEF accessExpires
    <3> QED
      BY <2>1, <3>1 DEF Jar
  <2>3. CASE \E now \in SUBSET Roots : membershipChanges(now)
    BY <2>1, <2>3 DEF membershipChanges
  <2> QED
    BY <2>2, <2>3
<1>3. approved' \subseteq Roots
  BY DEF accessExpires, membershipChanges, IInv, TypeOK
<1>4. /\ flight' \in [Procs -> Flight] /\ presented' \in [TokenIds -> SUBSET Tabs]
      /\ \A t \in Tabs : TabOK(flight'[t])
      /\ \A c \in Calls : CallOK(flight'[c])
      /\ \A c \in Calls : flight'[c].pc = "reset" => flight[c].pc = "reset"
  BY <1>1 DEF IInv, TypeOK, FlightsOK
<1> QED
  BY <1>1, <1>2, <1>3, <1>4, QuietFlights

\* A step that leaves the flights and the tokens alone leaves what they hold,
\* if it revives no link and opens none.
LEMMA FlightsStay ==
    ASSUME IInv, TypeOK', TokensKept, LinksKept, UNCHANGED <<password, flight>>,
           \A i \in DOMAIN tokens : tokens'[i].root = tokens[i].root,
           \A i \in DOMAIN links : links'[i].opens = links[i].opens
    PROVE  FlightsOK'
<1>1. TypeOK /\ FlightsOK /\ flight \in [Procs -> Flight]
  BY DEF IInv, TypeOK
<1>2. ASSUME NEW t \in Tabs PROVE TabOK(flight[t])'
  <2>1. PICK f \in Flight : f = flight[t] /\ TabOK(f)
    BY <1>1 DEF FlightsOK, Procs
  <2>2. f.pc \in {"resolve", "rotate"} => tokens'[f.row].root = tokens[f.row].root
    BY <2>1 DEF TabOK, HoldsRows
  <2>3. TabOK(f)'
    BY <1>1, <2>1, <2>2, TabStays
  <2> QED
    BY <2>1, <2>3
<1>3. ASSUME NEW c \in Calls PROVE CallOK(flight[c])'
  <2>1. PICK f \in Flight : f = flight[c] /\ CallOK(f)
    BY <1>1 DEF FlightsOK, Procs
  <2>2. f.pc = "reset" => links'[f.row].opens = links[f.row].opens
    BY <2>1 DEF CallOK
  <2>3. CallOK(f)'
    BY <1>1, <2>1, <2>2, CallStays
  <2> QED
    BY <2>1, <2>3
<1> QED
  BY <1>1, <1>2, <1>3 DEF FlightsOK

LEMMA FamilyLapsesIInv ==
    ASSUME IInv, NEW f \in TokenIds, familyLapses(f)
    PROVE  IInv'
<1>1. /\ UNCHANGED <<password, tokens, links, ended, chosen>>
      /\ UNCHANGED <<presented, cookies, flight, approved>>
      /\ lapsed' = lapsed \cup {f}
  BY DEF familyLapses, tables
<1>2. TypeOK /\ TypeOK'
  BY <1>1 DEF IInv, TypeOK
<1>3. f \in DOMAIN tokens
  <2>1. PICK i \in DOMAIN tokens : f = tokens[i].family
    BY DEF familyLapses
  <2>2. f <= i /\ f \in Nat \ {0} /\ DOMAIN tokens = 1..Len(tokens) /\ Len(tokens) \in Nat
    BY <1>2, <2>1, Lengths DEF IInv, TokensInv, FamiliesOK, TokenIds
  <2> QED
    BY <2>1, <2>2
<1>4. \A i \in DOMAIN tokens : Live(i)' => Live(i)
  BY <1>1 DEF Live
<1>5. FamiliesOK'
  BY <1>1, <1>3 DEF IInv, TokensInv, FamiliesOK
<1>6. OneLiveTokenPerFamily'
  BY <1>1, <1>4 DEF IInv, TokensInv, OneLiveTokenPerFamily
<1>7. SwitchSticks' /\ EndedSessionsStayEnded'
  BY <1>1, <1>4 DEF IInv, TokensInv, SwitchSticks, EndedSessionsStayEnded
<1>8. LinksInv'
  BY <1>1 DEF IInv, LinksInv, OpenedIsUsed, OneLiveLink, LiveLink
<1>9. TokensKept /\ LinksKept
  BY <1>1, <1>2, Lengths DEF TokensKept, LinksKept, LiveLink
<1>10. FlightsOK'
  BY <1>1, <1>2, <1>9, FlightsStay
<1> QED
  BY <1>1, <1>2, <1>5, <1>6, <1>7, <1>8, <1>10 DEF IInv, TokensInv

LEMMA LinkAgesIInv ==
    ASSUME IInv, NEW i \in LinkIds, linkAges(i)
    PROVE  IInv'
<1>1. /\ UNCHANGED <<password, tokens, lapsed, ended, chosen>>
      /\ UNCHANGED <<presented, cookies, flight, approved>>
      /\ i \in DOMAIN links
  BY DEF linkAges
<1>2. TypeOK /\ links \in Seq(Link) /\ Len(links) <= MaxLinks
  BY DEF IInv, TypeOK
<1>3. PICK old \in Link : old = links[i]
  BY <1>1, <1>2, Lengths
<1>4. PICK row : row = [old EXCEPT !.expired = ~old.fresh, !.fresh = FALSE]
  OBVIOUS
<1>5. row = [used |-> old.used, expired |-> ~old.fresh, fresh |-> FALSE,
             opens |-> old.opens, missed |-> old.missed]
  BY <1>4, Zenon DEF Link
<1>6. row \in Link /\ row.used = old.used /\ row.opens = old.opens
      /\ row.missed = old.missed
  BY <1>5 DEF Link
<1>7. links' = [links EXCEPT ![i] = row] /\ ~old.expired
  BY <1>3, <1>4, Zenon DEF linkAges
<1>8. /\ links' \in Seq(Link) /\ Len(links') = Len(links) /\ DOMAIN links' = DOMAIN links
      /\ \A j \in DOMAIN links : links'[j] = IF j = i THEN row ELSE links[j]
  BY <1>1, <1>2, <1>6, <1>7
<1>9. TypeOK'
  BY <1>1, <1>2, <1>8 DEF TypeOK
<1>10. /\ \A j \in DOMAIN links : LiveLink(j)' => LiveLink(j)
       /\ \A j \in DOMAIN links : /\ links'[j].used = links[j].used
                                  /\ links'[j].opens = links[j].opens
                                  /\ links'[j].missed = links[j].missed
  BY <1>3, <1>6, <1>7, <1>8 DEF LiveLink
<1>11. TokensInv'
  BY <1>1 DEF IInv, TokensInv, FamiliesOK, OneLiveTokenPerFamily, SwitchSticks,
             EndedSessionsStayEnded, Live
<1>12. LinksInv'
  BY <1>8, <1>10 DEF IInv, LinksInv, OpenedIsUsed, OneLiveLink
<1>13. TokensKept /\ LinksKept
  BY <1>1, <1>2, <1>8, <1>10, Lengths DEF TokensKept, LinksKept
<1>14. FlightsOK'
  BY <1>1, <1>9, <1>10, <1>13, FlightsStay
<1> QED
  BY <1>1, <1>9, <1>11, <1>12, <1>14 DEF IInv

-----------------------------------------------------------------------------
(* Writes to the tables *)

\* An answer, with what the step that gave it has written.
LEMMA AnswerTyped ==
    ASSUME IInv, NEW p \in Procs, NEW ok \in BOOLEAN,
           NEW set \in {Keep} \cup Jar \cup [acc : Contexts \cup {None}],
           Respond(p, ok, set)
    PROVE  flight' \in [Procs -> Flight]
<1>1. PICK g \in Flight : g = Answered(flight[p], ok, set)
  BY FlightOf, AnsweredOK
<1>2. flight' = [flight EXCEPT ![p] = g]
  BY <1>1, Zenon DEF Respond, Goto
<1> QED
  BY <1>2 DEF IInv, TypeOK

\* What an answer holds in the state after the step that gave it.
LEMMA AnswerHoldsNext ==
    ASSUME TypeOK', NEW f \in Flight, NEW ok \in BOOLEAN,
           NEW set \in {Keep} \cup Jar \cup [acc : Contexts \cup {None}],
           set \in Jar => set.tok <= Len(tokens')
    PROVE  /\ Answered(f, ok, set) \in Flight
           /\ Answered(f, ok, set).pc = "answered"
           /\ (ok => set \in Jar) => TabOK(Answered(f, ok, set))'
           /\ (f.op = "switch" => f.root \in Roots) => CallOK(Answered(f, ok, set))'
<1>1. PICK g : g = Answered(f, ok, set)
  OBVIOUS
<1>2. /\ g \in Flight /\ g.op = f.op /\ g.pc = "answered" /\ g.tok = 0
      /\ f.op = "switch" => g.root = f.root
      /\ g.ok = ok /\ g.set = set
  BY <1>1, AnsweredOK
<1>3. Len(tokens') \in Nat
  BY NextLengths
<1>4. HoldsRows(g)'
  BY <1>2, <1>3 DEF HoldsRows
<1>5. (ok => set \in Jar) => TabOK(g)'
  BY <1>2, <1>4 DEF TabOK
<1>6. (f.op = "switch" => f.root \in Roots) => CallOK(g)'
  BY <1>2, <1>4 DEF CallOK
<1> QED
  BY <1>1, <1>2, <1>5, <1>6

LEMMA AnswerFlights ==
    ASSUME IInv, TypeOK', TokensKept, LinksKept, password' = password,
           \A i \in DOMAIN tokens : tokens'[i].root = tokens[i].root,
           \A i \in DOMAIN links : links'[i].opens = links[i].opens,
           NEW p \in Procs, NEW ok \in BOOLEAN,
           NEW set \in {Keep} \cup Jar \cup [acc : Contexts \cup {None}],
           set \in Jar => set.tok <= Len(tokens'),
           p \in Tabs /\ ok => set \in Jar,
           Respond(p, ok, set)
    PROVE  FlightsOK'
<1>1. PICK f \in Flight : f = flight[p] /\ (p \in Calls => CallOK(f))
  BY FlightOf
<1>2. PICK g : g = Answered(f, ok, set)
  OBVIOUS
<1>3. /\ g \in Flight /\ g.pc = "answered"
      /\ (ok => set \in Jar) => TabOK(g)'
      /\ p \in Calls => CallOK(g)'
  BY <1>1, <1>2, AnswerHoldsNext DEF CallOK
<1>4. flight' = [flight EXCEPT ![p] = g]
  BY <1>1, <1>2, Zenon DEF Respond, Goto
<1>5. (p \in Tabs => TabOK(g)') /\ (p \in Calls => CallOK(g)')
  BY <1>3
<1>6. g.pc = "reset" => \A d \in Calls : flight[d].pc # "reset"
  BY <1>3
<1> QED
  BY <1>3, <1>4, <1>5, <1>6, OneFlight

Kinds == {"end", "switch"}

\* What an UPDATE makes of row i: the changed one if its snapshot holds it;
\* otherwise the row stays, and says so when the UPDATE was about it.
IsUpdated(u, f, i, about, kind, changed) ==
    /\ u \in Token
    /\ i \in f.rows => u = changed
    /\ i \notin f.rows =>
          /\ u.family = tokens[i].family /\ u.root = tokens[i].root
          /\ u.used = tokens[i].used /\ u.revoked = tokens[i].revoked
          /\ u.pw = tokens[i].pw /\ tokens[i].missed \subseteq u.missed
          /\ i > f.upto /\ i \in about => kind \in u.missed

LEMMA UpdateOK ==
    ASSUME TypeOK, NEW f \in Flight, NEW i \in DOMAIN tokens, NEW about,
           NEW kind \in Kinds, NEW changed \in Token
    PROVE  IsUpdated(Update(f, i, about, kind, changed), f, i, about, kind, changed)
<1>0. PICK u : u = Update(f, i, about, kind, changed)
  OBVIOUS
<1>1. PICK row \in Token : row = tokens[i]
  BY Lengths
<1>2. PICK r : r = [row EXCEPT !.missed = @ \cup {kind}]
  OBVIOUS
<1>3. r = [family |-> row.family, root |-> row.root, used |-> row.used,
           revoked |-> row.revoked, pw |-> row.pw, missed |-> row.missed \cup {kind}]
  BY <1>2, Zenon DEF Token
<1>4. r \in Token
  BY <1>3 DEF Token, Kinds
<1>5. u = IF i \in f.rows THEN changed
          ELSE IF i > f.upto /\ i \in about THEN r ELSE row
  BY <1>0, <1>1, <1>2, Zenon DEF Update
<1> QED
  BY <1>0, <1>1, <1>3, <1>4, <1>5 DEF IsUpdated

RevokedRow(row) == [row EXCEPT !.revoked = TRUE]

LEMMA RevokedRowOK ==
    ASSUME NEW row \in Token
    PROVE  LET r == RevokedRow(row)
           IN  /\ r \in Token
               /\ r.revoked
               /\ r.family = row.family /\ r.root = row.root /\ r.used = row.used
               /\ r.pw = row.pw /\ r.missed = row.missed
<1>1. PICK r : r = RevokedRow(row)
  OBVIOUS
<1>2. r = [family |-> row.family, root |-> row.root, used |-> row.used,
           revoked |-> TRUE, pw |-> row.pw, missed |-> row.missed]
  BY <1>1, Zenon DEF Token, RevokedRow
<1>3. r \in Token
  BY <1>2 DEF Token
<1> QED
  BY <1>1, <1>2, <1>3

\* An UPDATE leaves the table its rows.
LEMMA TableOK ==
    ASSUME TypeOK, NEW T, T = [i \in DOMAIN tokens |-> T[i]],
           \A i \in DOMAIN tokens : T[i] \in Token
    PROVE  T \in Seq(Token) /\ Len(T) = Len(tokens) /\ DOMAIN T = DOMAIN tokens
<1>1. Len(tokens) \in Nat /\ DOMAIN tokens = 1..Len(tokens)
  BY Lengths
<1>2. T \in [1..Len(tokens) -> Token]
  BY <1>1
<1>3. T \in Seq(Token)
  BY <1>1, <1>2
<1>4. Len(T) = Len(tokens)
  BY <1>1, <1>2, <1>3
<1> QED
  BY <1>1, <1>2, <1>3, <1>4

\* No UPDATE makes a token usable again, so a family keeps one at most.
LEMMA Narrowed ==
    ASSUME IInv, tokens' \in Seq(Token), Len(tokens') = Len(tokens), lapsed' = lapsed,
           \A i \in DOMAIN tokens : /\ tokens'[i].family = tokens[i].family
                                    /\ tokens'[i].used = tokens[i].used
                                    /\ tokens[i].revoked => tokens'[i].revoked
    PROVE  /\ DOMAIN tokens' = DOMAIN tokens /\ TokensKept
           /\ \A i \in DOMAIN tokens : Live(i)' => Live(i)
           /\ OneLiveTokenPerFamily'
<1>1. Len(tokens) \in Nat /\ DOMAIN tokens = 1..Len(tokens)
  BY Lengths DEF IInv
<1>2. DOMAIN tokens' = DOMAIN tokens
  BY <1>1
<1>3. TokensKept
  BY <1>1 DEF TokensKept
<1>4. \A i \in DOMAIN tokens : Live(i)' => Live(i)
  BY DEF Live
<1>5. OneLiveTokenPerFamily'
  BY <1>2, <1>4 DEF IInv, TokensInv, OneLiveTokenPerFamily
<1> QED
  BY <1>2, <1>3, <1>4, <1>5

LEMMA RevokeIInv ==
    ASSUME IInv, NEW p \in Procs, revokeRefreshTokenFamily(p)
    PROVE  IInv'
<1>1. /\ UNCHANGED <<password, links, lapsed, chosen>>
      /\ UNCHANGED <<presented, cookies, approved>>
  BY DEF revokeRefreshTokenFamily, world
<1>2. TypeOK
  BY DEF IInv
<1>3. PICK f \in Flight : f = flight[p] /\ (p \in Tabs => TabOK(f))
                          /\ (p \in Calls => CallOK(f))
  BY FlightOf
<1>4. f.pc = "revoke" /\ HoldsRows(f)
  BY <1>3 DEF revokeRefreshTokenFamily, TabOK, CallOK, Procs
<1>5. f.row \in DOMAIN tokens /\ KnowsFamily(f)
  BY <1>4 DEF HoldsRows
<1>6. PICK family : family = tokens[f.row].family
  OBVIOUS
<1>7. /\ Len(tokens) \in Nat /\ DOMAIN tokens = 1..Len(tokens)
      /\ \A i \in DOMAIN tokens : tokens[i] \in Token
      /\ Len(tokens) <= MaxTokens /\ DOMAIN tokens \subseteq TokenIds
  BY <1>2, Lengths
<1>8. family \in DOMAIN tokens
  <2>1. family <= f.row /\ family \in Nat \ {0}
    BY <1>5, <1>6, <1>7, Bounds DEF IInv, TokensInv, FamiliesOK, Token, TokenIds
  <2> QED
    BY <1>5, <1>7, <2>1
<1>9. /\ tokens' = [i \in DOMAIN tokens |->
                       Update(f, i, FamilyRows(family), "end", RevokedRow(tokens[i]))]
      /\ ended' = ended \cup {family}
  BY <1>3, <1>6, Zenon DEF revokeRefreshTokenFamily, RevokedRow
<1>10. ASSUME NEW i \in DOMAIN tokens
       PROVE  /\ tokens'[i] \in Token
              /\ tokens'[i].family = tokens[i].family /\ tokens'[i].root = tokens[i].root
              /\ tokens'[i].used = tokens[i].used /\ tokens'[i].pw = tokens[i].pw
              /\ tokens[i].missed \subseteq tokens'[i].missed
              /\ tokens[i].revoked => tokens'[i].revoked
              /\ i \in f.rows => tokens'[i].revoked
              /\ i \notin f.rows /\ i > f.upto /\ i \in FamilyRows(family) =>
                    "end" \in tokens'[i].missed
  <2>1. PICK changed \in Token : /\ changed = RevokedRow(tokens[i]) /\ changed.revoked
                                 /\ changed.family = tokens[i].family
                                 /\ changed.root = tokens[i].root
                                 /\ changed.used = tokens[i].used
                                 /\ changed.pw = tokens[i].pw
                                 /\ changed.missed = tokens[i].missed
    BY <1>7, RevokedRowOK
  <2>2a. PICK about : about = FamilyRows(family)
    OBVIOUS
  <2>2b. "end" \in Kinds
    BY DEF Kinds
  <2>2. PICK u : u = Update(f, i, about, "end", changed)
    OBVIOUS
  <2>3. IsUpdated(u, f, i, about, "end", changed)
    BY <1>2, <2>2, <2>2b, UpdateOK
  <2>4. tokens'[i] = u
    BY <1>9, <2>1, <2>2a, <2>2
  <2> QED
    BY <2>1, <2>2a, <2>3, <2>4 DEF IsUpdated
<1>11. tokens' = [i \in DOMAIN tokens |-> tokens'[i]]
  BY <1>9
<1>12. tokens' \in Seq(Token) /\ Len(tokens') = Len(tokens) /\ DOMAIN tokens' = DOMAIN tokens
  BY <1>2, <1>10, <1>11, TableOK
<1>13. /\ TokensKept /\ OneLiveTokenPerFamily'
       /\ \A i \in DOMAIN tokens : Live(i)' => Live(i)
  BY <1>1, <1>10, <1>12, Narrowed
<1>14. FamiliesOK'
  BY <1>1, <1>8, <1>9, <1>10, <1>12 DEF IInv, TokensInv, FamiliesOK
<1>15. \A i \in DOMAIN tokens : Live(i)' => i \notin f.rows
  BY <1>10 DEF Live
<1>16. SwitchSticks'
  BY <1>1, <1>10, <1>12, <1>13 DEF IInv, TokensInv, SwitchSticks
<1>17. EndedSessionsStayEnded'
  <2> SUFFICES ASSUME NEW i \in DOMAIN tokens, Live(i)',
                      tokens'[i].family \in ended' \/ tokens'[i].pw < password'
               PROVE  "end" \in tokens'[i].missed
    BY <1>12 DEF EndedSessionsStayEnded
  <2>1. Live(i) /\ i \notin f.rows
    BY <1>13, <1>15
  <2>2. CASE tokens[i].family = family
    <3>1. ~tokens[i].revoked /\ i \in FamilyRows(family)
      BY <2>1, <2>2 DEF Live, FamilyRows
    <3>2. i > f.upto
      BY <1>5, <1>6, <1>7, <2>1, <2>2, <3>1 DEF KnowsFamily, Flight
    <3> QED
      BY <1>10, <2>1, <3>1, <3>2
  <2>3. CASE tokens[i].family # family
    <3>1. tokens[i].family \in ended \/ tokens[i].pw < password
      BY <1>1, <1>9, <1>10, <2>3
    <3>2. "end" \in tokens[i].missed
      BY <2>1, <3>1 DEF IInv, TokensInv, EndedSessionsStayEnded
    <3> QED
      BY <1>10, <3>2
  <2> QED
    BY <2>2, <2>3
<1>18. LinksInv' /\ LinksKept
  BY <1>1, <1>2, Lengths DEF IInv, LinksInv, OpenedIsUsed, OneLiveLink, LiveLink, LinksKept
<1>19. PICK set \in Jar : set = clearAuthenticationCookies /\ set.tok = 0
  BY Jars
<1>20. PICK ok \in BOOLEAN : Respond(p, ok, set)
  BY <1>19, Zenon DEF revokeRefreshTokenFamily, logoutCookies, refreshCookies
<1>21. flight' \in [Procs -> Flight]
  BY <1>20, AnswerTyped
<1>22. TypeOK'
  BY <1>1, <1>2, <1>7, <1>8, <1>9, <1>12, <1>21 DEF TypeOK
<1>23. set.tok <= Len(tokens')
  BY <1>7, <1>12, <1>19
<1>24. FlightsOK'
  BY <1>1, <1>10, <1>13, <1>18, <1>20, <1>22, <1>23, AnswerFlights
<1>25. cookies'.tok <= Len(tokens')
  BY <1>1, <1>12 DEF IInv
<1> QED
  BY <1>13, <1>14, <1>16, <1>17, <1>18, <1>22, <1>24, <1>25 DEF IInv, TokensInv

\* An INSERT.
LEMMA AppendedOK ==
    ASSUME TypeOK, Len(tokens) < MaxTokens, NEW T \in Seq(Token), Len(T) = Len(tokens),
           NEW s \in Token, tokens' = Append(T, s), NEW n, n = Len(tokens) + 1
    PROVE  /\ tokens' \in Seq(Token) /\ Len(tokens') = n /\ n <= MaxTokens
           /\ n \in TokenIds
           /\ DOMAIN tokens' = DOMAIN tokens \cup {n} /\ n \notin DOMAIN tokens
           /\ \A i \in DOMAIN tokens : tokens'[i] = T[i]
           /\ tokens'[n] = s
<1>1. Len(tokens) \in Nat /\ DOMAIN tokens = 1..Len(tokens) /\ DOMAIN T = 1..Len(tokens)
  BY Lengths
<1>2. tokens' \in Seq(Token) /\ Len(tokens') = n
  BY <1>1
<1>3. n <= MaxTokens /\ n \in TokenIds
  BY <1>1, Bounds DEF TokenIds
<1>4. DOMAIN tokens' = 1..n
  BY <1>2
<1>5. DOMAIN tokens' = DOMAIN tokens \cup {n} /\ n \notin DOMAIN tokens
  BY <1>1, <1>4
<1>6. \A i \in DOMAIN tokens : tokens'[i] = T[i]
  BY <1>1
<1>7. tokens'[n] = s
  BY <1>1
<1> QED
  BY <1>2, <1>3, <1>5, <1>6, <1>7

UsedRow(row) == [row EXCEPT !.used = TRUE]

LEMMA UsedRowOK ==
    ASSUME NEW row \in Token
    PROVE  LET r == UsedRow(row)
           IN  /\ r \in Token
               /\ r.used
               /\ r.family = row.family /\ r.root = row.root /\ r.revoked = row.revoked
               /\ r.pw = row.pw /\ r.missed = row.missed
<1>1. PICK r : r = UsedRow(row)
  OBVIOUS
<1>2. r = [family |-> row.family, root |-> row.root, used |-> TRUE,
           revoked |-> row.revoked, pw |-> row.pw, missed |-> row.missed]
  BY <1>1, Zenon DEF Token, UsedRow
<1>3. r \in Token
  BY <1>2 DEF Token
<1> QED
  BY <1>1, <1>2, <1>3

LEMMA SuccessorOK ==
    ASSUME NEW row \in Token, NEW f \in Flight
    PROVE  LET s == Successor(row, f)
           IN  /\ s \in Token
               /\ ~s.used /\ s.root = f.root /\ s.missed = row.missed \cup f.late
               /\ s.family = row.family /\ s.revoked = row.revoked /\ s.pw = row.pw
<1>1. PICK s : s = Successor(row, f)
  OBVIOUS
<1>2. s = [family |-> row.family, root |-> f.root, used |-> FALSE,
           revoked |-> row.revoked, pw |-> row.pw, missed |-> row.missed \cup f.late]
  BY <1>1, Zenon DEF Token, Successor
<1>3. f.root \in Roots \cup {None} /\ f.late \in SUBSET {"end", "switch"}
  BY DEF Flight
<1>4. s \in Token
  BY <1>2, <1>3 DEF Token
<1> QED
  BY <1>1, <1>2, <1>4

\* The claimed token was the family's usable one; its successor inherits what
\* the family missed.
LEMMA RotatedTokens ==
    ASSUME IInv, NEW f \in Flight, TabOK(f), f.pc = "rotate", Live(f.row),
           UNCHANGED <<password, lapsed, ended, chosen>>,
           NEW n, n = Len(tokens) + 1, n \in TokenIds, NEW u \in Token, NEW s \in Token,
           DOMAIN tokens' = DOMAIN tokens \cup {n}, n \notin DOMAIN tokens,
           \A i \in DOMAIN tokens : tokens'[i] = IF i = f.row THEN u ELSE tokens[i],
           tokens'[n] = s,
           u.used, u.family = tokens[f.row].family,
           s.root = f.root, s.missed = tokens[f.row].missed \cup f.late,
           s.family = tokens[f.row].family, s.pw = tokens[f.row].pw
    PROVE  TokensInv'
<1>1. f.row \in DOMAIN tokens
  BY DEF TabOK, HoldsRows
<1>2. /\ Len(tokens) \in Nat /\ DOMAIN tokens = 1..Len(tokens)
      /\ \A i \in DOMAIN tokens : tokens[i] \in Token
  BY Lengths DEF IInv
<1>3. PICK row \in Token : row = tokens[f.row]
  BY <1>1, <1>2
<1>4. \A i \in DOMAIN tokens : Live(i)' => Live(i) /\ i # f.row /\ tokens'[i] = tokens[i]
  BY DEF Live
<1>5. FamiliesOK'
  <2>1. \A i \in DOMAIN tokens : tokens[i].family <= i
    BY DEF IInv, TokensInv, FamiliesOK
  <2>2. \A i \in DOMAIN tokens : tokens'[i].family <= i
    BY <1>1, <2>1
  <2>3. row.family \in Nat /\ row.family <= f.row /\ f.row <= n /\ f.row \in Nat /\ n \in Nat
    BY <1>1, <1>2, <1>3, <2>1 DEF Token, TokenIds
  <2>4. tokens'[n].family <= n
    BY <1>3, <2>3
  <2>5. \A i \in DOMAIN tokens' : tokens'[i].family <= i
    BY <2>2, <2>4
  <2>6. lapsed' \cup ended' \subseteq DOMAIN tokens'
    BY DEF IInv, TokensInv, FamiliesOK
  <2>7. \A g \in TokenIds : chosen'[g] # None => g \in DOMAIN tokens'
    BY DEF IInv, TokensInv, FamiliesOK
  <2> QED
    BY <2>5, <2>6, <2>7 DEF FamiliesOK
<1>6. OneLiveTokenPerFamily'
  <2>1. \A i, j \in DOMAIN tokens :
           Live(i)' /\ Live(j)' /\ tokens'[i].family = tokens'[j].family => i = j
    BY <1>4 DEF IInv, TokensInv, OneLiveTokenPerFamily
  <2>2. \A j \in DOMAIN tokens : ~(Live(j)' /\ tokens'[j].family = tokens'[n].family)
    BY <1>1, <1>4 DEF IInv, TokensInv, OneLiveTokenPerFamily
  <2> QED
    BY <2>1, <2>2 DEF OneLiveTokenPerFamily
<1>7. SwitchSticks'
  <2>1. \A i \in DOMAIN tokens :
           Live(i)' /\ "switch" \notin tokens'[i].missed
              /\ chosen'[tokens'[i].family] # None
           => tokens'[i].root = chosen'[tokens'[i].family]
    BY <1>4 DEF IInv, TokensInv, SwitchSticks
  <2>2. "switch" \notin s.missed /\ chosen[s.family] # None => s.root = chosen[s.family]
    BY <1>1 DEF IInv, TokensInv, SwitchSticks, TabOK
  <2> QED
    BY <2>1, <2>2 DEF SwitchSticks
<1>8. EndedSessionsStayEnded'
  <2>1. \A i \in DOMAIN tokens :
           Live(i)' /\ (tokens'[i].family \in ended' \/ tokens'[i].pw < password')
           => "end" \in tokens'[i].missed
    BY <1>4 DEF IInv, TokensInv, EndedSessionsStayEnded
  <2>2. s.family \in ended \/ s.pw < password => "end" \in s.missed
    BY <1>1 DEF IInv, TokensInv, EndedSessionsStayEnded
  <2> QED
    BY <2>1, <2>2 DEF EndedSessionsStayEnded
<1> QED
  BY <1>5, <1>6, <1>7, <1>8 DEF TokensInv

LEMMA RefreshRotateIInv ==
    ASSUME IInv, NEW t \in Tabs, refreshRotate(t)
    PROVE  IInv'
<1>1. t \in Procs /\ TypeOK
  BY DEF Procs, IInv
<1>2. PICK f \in Flight : f = flight[t] /\ TabOK(f)
  BY <1>1, FlightOf
<1>3. PICK set \in Jar : set = clearAuthenticationCookies /\ set.tok = 0
  BY Jars
<1>4. /\ Len(tokens) \in Nat /\ DOMAIN tokens = 1..Len(tokens)
      /\ \A i \in DOMAIN tokens : tokens[i] \in Token
      /\ Len(tokens) <= MaxTokens
  BY <1>1, Lengths
<1>5. CASE ~Claimable(f.row)
  <2>1. Respond(t, FALSE, set) /\ UNCHANGED tokens
    BY <1>2, <1>3, <1>5, Zenon DEF refreshRotate, refreshCookies
  <2>2. UNCHANGED <<tables, cookies, world>>
    BY <2>1 DEF refreshRotate, tables
  <2>3. set.tok <= Len(tokens)
    BY <1>3, <1>4
  <2> QED
    BY <1>1, <2>1, <2>2, <2>3, QuietAnswer, Zenon
<1>6. CASE Claimable(f.row)
  <2>1. f.pc = "rotate" /\ f.row \in DOMAIN tokens /\ Live(f.row)
    BY <1>2, <1>6 DEF refreshRotate, TabOK, HoldsRows, Claimable
  <2>2. PICK row \in Token : row = tokens[f.row]
    BY <1>4, <2>1
  <2>3. PICK u \in Token : /\ u = UsedRow(row) /\ u.used
                           /\ u.family = row.family /\ u.root = row.root
                           /\ u.revoked = row.revoked
    BY UsedRowOK
  <2>4. PICK s \in Token : /\ s = Successor(row, f)
                           /\ s.root = f.root /\ s.missed = row.missed \cup f.late
                           /\ s.family = row.family /\ s.pw = row.pw
    BY SuccessorOK
  <2>5. PICK T : T = [tokens EXCEPT ![f.row] = u]
    OBVIOUS
  <2>6. PICK n : n = Len(tokens) + 1
    OBVIOUS
  <2>7. /\ tokens' = Append(T, s) /\ Len(tokens) < MaxTokens
        /\ Respond(t, TRUE, refreshCookies(TRUE, n, f.acc))
    BY <1>2, <1>6, <2>2, <2>3, <2>4, <2>5, <2>6, Zenon DEF refreshRotate, UsedRow
  <2>8. /\ T \in Seq(Token) /\ Len(T) = Len(tokens)
        /\ \A i \in DOMAIN tokens : T[i] = IF i = f.row THEN u ELSE tokens[i]
    <3>1. tokens \in Seq(Token)
      BY <1>1 DEF TypeOK
    <3> QED
      BY <2>1, <2>5, <3>1
  <2>9. /\ tokens' \in Seq(Token) /\ Len(tokens') = n /\ n <= MaxTokens
        /\ n \in TokenIds
        /\ DOMAIN tokens' = DOMAIN tokens \cup {n} /\ n \notin DOMAIN tokens
        /\ \A i \in DOMAIN tokens : tokens'[i] = T[i]
        /\ tokens'[n] = s
    BY <1>1, <2>6, <2>7, <2>8, AppendedOK
  <2>10. \A i \in DOMAIN tokens : tokens'[i] = IF i = f.row THEN u ELSE tokens[i]
    BY <2>8, <2>9
  <2>11. /\ UNCHANGED <<password, lapsed, ended, chosen>>
         /\ UNCHANGED <<links, presented, cookies, approved>>
    BY DEF refreshRotate, world
  <2>12. TokensInv'
    <3>1. /\ u.family = tokens[f.row].family
          /\ s.missed = tokens[f.row].missed \cup f.late
          /\ s.family = tokens[f.row].family /\ s.pw = tokens[f.row].pw
      BY <2>2, <2>3, <2>4
    <3> QED
      BY <1>2, <2>1, <2>3, <2>4, <2>6, <2>9, <2>10, <2>11, <3>1, RotatedTokens
  <2>13. LinksInv' /\ LinksKept
    BY <1>1, <2>11, Lengths
       DEF IInv, LinksInv, OpenedIsUsed, OneLiveLink, LiveLink, LinksKept
  <2>14. TokensKept
    BY <1>4, <2>2, <2>3, <2>6, <2>9, <2>10 DEF TokensKept
  <2>15. \A i \in DOMAIN tokens : tokens'[i].root = tokens[i].root
    BY <2>2, <2>3, <2>10
  <2>16. PICK jar \in Jar : jar = refreshCookies(TRUE, n, f.acc) /\ jar.tok = n
    <3>1. n \in 0..MaxTokens /\ f.acc \in Contexts \cup {None}
      BY <1>4, <2>6, <2>9 DEF Flight
    <3> QED
      BY <3>1, Jars
  <2>17. Respond(t, TRUE, jar)
    BY <2>7, <2>16, Zenon
  <2>18. flight' \in [Procs -> Flight]
    BY <1>1, <2>17, AnswerTyped
  <2>19. TypeOK'
    BY <1>1, <2>9, <2>11, <2>18 DEF TypeOK
  <2>20a. n \in Nat /\ n <= n
    BY <1>4, <2>6
  <2>20. jar.tok <= Len(tokens')
    BY <2>9, <2>16, <2>20a, Zenon
  <2>21. \A i \in DOMAIN links : links'[i].opens = links[i].opens
    BY <2>11
  <2>22. FlightsOK'
    BY <1>1, <2>11, <2>13, <2>14, <2>15, <2>17, <2>19, <2>20, <2>21, AnswerFlights
  <2>23. cookies'.tok <= Len(tokens')
    BY <1>1, <1>4, <2>6, <2>9, <2>11, Bounds DEF IInv, TypeOK, Jar
  <2> QED
    BY <2>12, <2>13, <2>19, <2>22, <2>23 DEF IInv
<1> QED
  BY <1>5, <1>6

\* A sign-in starts a family that nothing has ended, and knows of the reset
\* that committed since its check.
LEMMA CreateSessionIInv ==
    ASSUME IInv, NEW c \in Calls, createSessionForUser(c)
    PROVE  IInv'
<1>1. c \in Procs /\ c \notin Tabs /\ TypeOK
  BY SessionsAssumption DEF Procs, IInv
<1>2. PICK f \in Flight : f = flight[c] /\ CallOK(f)
  BY <1>1, FlightOf
<1>3. /\ Len(tokens) \in Nat /\ DOMAIN tokens = 1..Len(tokens)
      /\ \A i \in DOMAIN tokens : tokens[i] \in Token
      /\ Len(tokens) < MaxTokens /\ f.pc = "issue"
  BY <1>1, <1>2, Lengths DEF createSessionForUser
<1>4. PICK n : n = Len(tokens) + 1
  OBVIOUS
<1>5. PICK root \in issueAccessToken(None) :
         /\ tokens' = Append(tokens, [family |-> n, root |-> StoredRoot(root),
                                      used |-> FALSE, revoked |-> FALSE,
                                      pw |-> f.pw, missed |-> f.late])
         /\ Respond(c, TRUE, loginCookies(n, root))
  BY <1>2, <1>4, Zenon DEF createSessionForUser
<1>6. root \in Contexts
  BY <1>1 DEF issueAccessToken, resolveUniversityContext, TypeOK, Contexts
<1>7. PICK s : s = [family |-> n, root |-> StoredRoot(root), used |-> FALSE,
                    revoked |-> FALSE, pw |-> f.pw, missed |-> f.late]
  OBVIOUS
<1>8. n \in TokenIds /\ n \in Nat /\ n \in 0..MaxTokens
  BY <1>3, <1>4, Bounds DEF TokenIds
<1>9. StoredRoot(root) \in Roots \cup {None}
  BY <1>6 DEF StoredRoot, Contexts
<1>10. /\ s \in Token /\ s.family = n /\ s.pw = f.pw /\ s.missed = f.late
  BY <1>7, <1>8, <1>9 DEF Token, Flight
<1>11. tokens \in Seq(Token) /\ tokens' = Append(tokens, s)
  BY <1>1, <1>5, <1>7 DEF TypeOK
<1>12. /\ tokens' \in Seq(Token) /\ Len(tokens') = n /\ n <= MaxTokens
       /\ DOMAIN tokens' = DOMAIN tokens \cup {n} /\ n \notin DOMAIN tokens
       /\ \A i \in DOMAIN tokens : tokens'[i] = tokens[i]
       /\ tokens'[n] = s
  BY <1>1, <1>3, <1>4, <1>10, <1>11, AppendedOK
<1>13. /\ UNCHANGED <<password, lapsed, ended, chosen>>
       /\ UNCHANGED <<links, presented, cookies, approved>>
  BY DEF createSessionForUser, world
<1>14. FamiliesOK'
  <2>1. \A i \in DOMAIN tokens : tokens'[i].family <= i
    BY <1>12 DEF IInv, TokensInv, FamiliesOK
  <2>2. tokens'[n].family <= n
    BY <1>8, <1>10, <1>12
  <2>3. \A i \in DOMAIN tokens' : tokens'[i].family <= i
    BY <1>12, <2>1, <2>2
  <2>4. lapsed' \cup ended' \subseteq DOMAIN tokens'
    BY <1>12, <1>13 DEF IInv, TokensInv, FamiliesOK
  <2>5. \A g \in TokenIds : chosen'[g] # None => g \in DOMAIN tokens'
    BY <1>12, <1>13 DEF IInv, TokensInv, FamiliesOK
  <2> QED
    BY <2>3, <2>4, <2>5 DEF FamiliesOK
<1>15. \A i \in DOMAIN tokens : /\ tokens[i].family # n /\ (Live(i)' => Live(i))
                                /\ tokens'[i] = tokens[i]
  BY <1>3, <1>4, <1>12, <1>13 DEF IInv, TokensInv, FamiliesOK, Live, Token, TokenIds
<1>16. OneLiveTokenPerFamily'
  BY <1>10, <1>12, <1>15 DEF IInv, TokensInv, OneLiveTokenPerFamily
<1>17. n \notin ended /\ chosen[n] = None
  BY <1>8, <1>12 DEF IInv, TokensInv, FamiliesOK
<1>18. SwitchSticks'
  BY <1>10, <1>12, <1>13, <1>15, <1>17 DEF IInv, TokensInv, SwitchSticks
<1>19. s.pw < password => "end" \in s.missed
  BY <1>2, <1>3, <1>10 DEF CallOK
<1>20. EndedSessionsStayEnded'
  BY <1>10, <1>12, <1>13, <1>15, <1>17, <1>19 DEF IInv, TokensInv, EndedSessionsStayEnded
<1>21. LinksInv' /\ LinksKept
  BY <1>1, <1>13, Lengths
     DEF IInv, LinksInv, OpenedIsUsed, OneLiveLink, LiveLink, LinksKept
<1>22. TokensKept
  BY <1>3, <1>4, <1>12 DEF TokensKept
<1>23. \A i \in DOMAIN tokens : tokens'[i].root = tokens[i].root
  BY <1>12
<1>24. PICK jar \in Jar : jar = loginCookies(n, root) /\ jar.tok = n
  BY <1>6, <1>8, Jars
<1>25. Respond(c, TRUE, jar)
  BY <1>5, <1>24, Zenon
<1>26. flight' \in [Procs -> Flight]
  BY <1>1, <1>25, AnswerTyped
<1>27. TypeOK'
  BY <1>1, <1>12, <1>13, <1>26 DEF TypeOK
<1>28. jar.tok <= Len(tokens')
  BY <1>8, <1>12, <1>24
<1>29. \A i \in DOMAIN links : links'[i].opens = links[i].opens
  BY <1>13
<1>30. FlightsOK'
  BY <1>1, <1>13, <1>21, <1>22, <1>23, <1>25, <1>27, <1>28, <1>29, AnswerFlights
<1>31. cookies'.tok <= Len(tokens')
  BY <1>1, <1>3, <1>4, <1>12, <1>13, Bounds DEF IInv, TypeOK, Jar
<1> QED
  BY <1>14, <1>16, <1>18, <1>20, <1>21, <1>27, <1>30, <1>31 DEF IInv, TokensInv

\* A flight that is told of a switch or a reset.
LateFlight(f, k) == [f EXCEPT !.late = @ \cup {k}]

LEMMA LateFlightOK ==
    ASSUME NEW f \in Flight, NEW k \in Kinds
    PROVE  LET g == LateFlight(f, k)
           IN  /\ g \in Flight
               /\ k \in g.late /\ g.pc = f.pc /\ g.row = f.row /\ g.op = f.op
               /\ g.tok = f.tok /\ g.acc = f.acc /\ g.again = f.again
               /\ g.ok = f.ok /\ g.set = f.set
               /\ TabOK(f) => TabOK(g)
               /\ CallOK(f) => CallOK(g)
<1>1. PICK g : g = [f EXCEPT !.late = @ \cup {k}]
  OBVIOUS
<1>2. k \in {"end", "switch"}
  BY DEF Kinds
<1>3. /\ g \in Flight /\ k \in g.late /\ g.pc = f.pc /\ g.row = f.row /\ g.op = f.op
      /\ g.tok = f.tok /\ g.acc = f.acc /\ g.again = f.again
      /\ g.ok = f.ok /\ g.set = f.set
  BY <1>1, <1>2, LateOK
<1>4. (TabOK(f) => TabOK(g)) /\ (CallOK(f) => CallOK(g))
  BY <1>1, <1>2, LateStays
<1>5. LateFlight(f, k) = g
  BY <1>1, Zenon DEF LateFlight
<1> QED
  BY <1>3, <1>4, <1>5

LEMMA LateFlights ==
    ASSUME IInv, NEW c \in Calls, NEW g \in Flight, NEW ps, NEW k \in Kinds, c \notin ps,
           flight' = Late(ps, k, [flight EXCEPT ![c] = g])
    PROVE  /\ flight' \in [Procs -> Flight] /\ flight'[c] = g
           /\ \A q \in Procs : q # c /\ q \in ps => flight'[q] = LateFlight(flight[q], k)
           /\ \A q \in Procs : q # c /\ q \notin ps => flight'[q] = flight[q]
<1>1. flight \in [Procs -> Flight] /\ c \in Procs
  BY DEF IInv, TypeOK, Procs
<1>2. PICK e : e = [flight EXCEPT ![c] = g]
  OBVIOUS
<1>3. e[c] = g /\ \A q \in Procs : q # c => e[q] = flight[q]
  BY <1>1, <1>2
<1>4a. flight' = Late(ps, k, e)
  BY <1>2
<1>4. flight' = [q \in Procs |-> IF q \in ps THEN LateFlight(e[q], k) ELSE e[q]]
  BY <1>4a, Zenon DEF Late, LateFlight
<1>5. flight'[c] = g
  BY <1>1, <1>3, <1>4
<1>6. /\ \A q \in Procs : q # c /\ q \in ps => flight'[q] = LateFlight(flight[q], k)
      /\ \A q \in Procs : q # c /\ q \notin ps => flight'[q] = flight[q]
  BY <1>3, <1>4
<1>7. \A q \in Procs : LateFlight(flight[q], k) \in Flight
  BY <1>1, LateFlightOK
<1>8. \A q \in Procs : flight'[q] \in Flight
  BY <1>1, <1>5, <1>6, <1>7
<1>9. flight' = [q \in Procs |-> flight'[q]]
  BY <1>4
<1> QED
  BY <1>5, <1>6, <1>8, <1>9

SwitchedRow(row, root) ==
    IF row.revoked THEN row ELSE [row EXCEPT !.root = root, !.missed = @ \ {"switch"}]

LEMMA SwitchedRowOK ==
    ASSUME NEW row \in Token, NEW root \in Roots
    PROVE  LET r == SwitchedRow(row, root)
           IN  /\ r \in Token
               /\ r.family = row.family /\ r.used = row.used
               /\ r.revoked = row.revoked /\ r.pw = row.pw
               /\ "end" \in row.missed => "end" \in r.missed
               /\ ~row.revoked => r.root = root
<1>1. PICK r : r = SwitchedRow(row, root)
  OBVIOUS
<1>2. CASE row.revoked
  BY <1>2 DEF SwitchedRow
<1>3. CASE ~row.revoked
  <2>1. r = [family |-> row.family, root |-> root, used |-> row.used,
             revoked |-> row.revoked, pw |-> row.pw, missed |-> row.missed \ {"switch"}]
    BY <1>1, <1>3, Zenon DEF Token, SwitchedRow
  <2>2. r \in Token
    BY <2>1 DEF Token
  <2> QED
    BY <1>1, <2>1, <2>2
<1> QED
  BY <1>2, <1>3

\* The rows of the snapshot take the university; a row of the family behind it,
\* and a refresh that has read one, know that they missed it.
LEMMA SwitchApplyIInv ==
    ASSUME IInv, NEW c \in Calls, switchApply(c)
    PROVE  IInv'
<1>1. /\ UNCHANGED <<password, links, lapsed, ended>>
      /\ UNCHANGED <<presented, cookies, approved>>
  BY DEF switchApply, world
<1>2. TypeOK /\ FlightsOK /\ c \in Procs /\ c \notin Tabs
  BY SessionsAssumption DEF IInv, Procs
<1>3. PICK f \in Flight : f = flight[c] /\ CallOK(f)
  BY <1>2, FlightOf
<1>4. /\ f.pc = "switch" /\ f.op = "switch" /\ f.root \in Roots
      /\ f.row \in DOMAIN tokens /\ KnowsFamily(f)
      /\ \A i \in f.rows : i \in DOMAIN tokens
                           /\ tokens[i].family = tokens[f.row].family
  BY <1>3 DEF switchApply, CallOK, HoldsRows
<1>5. PICK family : family = tokens[f.row].family
  OBVIOUS
<1>6. /\ Len(tokens) \in Nat /\ DOMAIN tokens = 1..Len(tokens)
      /\ \A i \in DOMAIN tokens : tokens[i] \in Token
      /\ Len(tokens) <= MaxTokens /\ DOMAIN tokens \subseteq TokenIds
  BY <1>2, Lengths
<1>7. family \in DOMAIN tokens
  <2>1. family <= f.row /\ family \in Nat \ {0}
    BY <1>4, <1>5, <1>6, Bounds DEF IInv, TokensInv, FamiliesOK, Token, TokenIds
  <2> QED
    BY <1>4, <1>6, <2>1
<1>8. PICK root \in Roots : root = f.root
  BY <1>4
<1>9. /\ tokens' = [i \in DOMAIN tokens |->
                       Update(f, i, FamilyRows(family), "switch",
                              SwitchedRow(tokens[i], root))]
      /\ chosen' = [chosen EXCEPT ![family] = root]
  BY <1>3, <1>5, <1>8, Zenon DEF switchApply, SwitchedRow
<1>10. ASSUME NEW i \in DOMAIN tokens
       PROVE  /\ tokens'[i] \in Token
              /\ tokens'[i].family = tokens[i].family
              /\ tokens'[i].used = tokens[i].used /\ tokens'[i].pw = tokens[i].pw
              /\ tokens'[i].revoked = tokens[i].revoked
              /\ "end" \in tokens[i].missed => "end" \in tokens'[i].missed
              /\ i \in f.rows /\ ~tokens[i].revoked => tokens'[i].root = root
              /\ i \notin f.rows =>
                    /\ tokens'[i].root = tokens[i].root
                    /\ tokens[i].missed \subseteq tokens'[i].missed
                    /\ i > f.upto /\ i \in FamilyRows(family) =>
                          "switch" \in tokens'[i].missed
  <2>1. PICK changed \in Token : /\ changed = SwitchedRow(tokens[i], root)
                                 /\ changed.family = tokens[i].family
                                 /\ changed.used = tokens[i].used
                                 /\ changed.revoked = tokens[i].revoked
                                 /\ changed.pw = tokens[i].pw
                                 /\ "end" \in tokens[i].missed => "end" \in changed.missed
                                 /\ ~tokens[i].revoked => changed.root = root
    BY <1>6, SwitchedRowOK
  <2>2a. PICK about : about = FamilyRows(family)
    OBVIOUS
  <2>2b. "switch" \in Kinds
    BY DEF Kinds
  <2>2. PICK u : u = Update(f, i, about, "switch", changed)
    OBVIOUS
  <2>3. IsUpdated(u, f, i, about, "switch", changed)
    BY <1>2, <2>2, <2>2b, UpdateOK
  <2>4. tokens'[i] = u
    BY <1>9, <2>1, <2>2a, <2>2
  <2> QED
    BY <2>1, <2>2a, <2>3, <2>4 DEF IsUpdated
<1>11. tokens' = [i \in DOMAIN tokens |-> tokens'[i]]
  BY <1>9
<1>12. tokens' \in Seq(Token) /\ Len(tokens') = Len(tokens) /\ DOMAIN tokens' = DOMAIN tokens
  BY <1>2, <1>10, <1>11, TableOK
<1>13. /\ TokensKept /\ OneLiveTokenPerFamily'
       /\ \A i \in DOMAIN tokens : Live(i)' => Live(i)
  BY <1>1, <1>10, <1>12, Narrowed
<1>14. chosen \in [TokenIds -> Roots \cup {None}] /\ family \in TokenIds
  BY <1>2, <1>6, <1>7 DEF TypeOK
<1>15. /\ chosen' \in [TokenIds -> Roots \cup {None}]
       /\ chosen'[family] = root
       /\ \A g \in TokenIds : g # family => chosen'[g] = chosen[g]
  BY <1>9, <1>14
<1>16. FamiliesOK'
  <2>1. \A i \in DOMAIN tokens' : tokens'[i].family <= i
    BY <1>10, <1>12 DEF IInv, TokensInv, FamiliesOK
  <2>2. lapsed' \cup ended' \subseteq DOMAIN tokens'
    BY <1>1, <1>12 DEF IInv, TokensInv, FamiliesOK
  <2>3. \A g \in TokenIds : chosen'[g] # None => g \in DOMAIN tokens'
    BY <1>7, <1>12, <1>15 DEF IInv, TokensInv, FamiliesOK
  <2> QED
    BY <2>1, <2>2, <2>3 DEF FamiliesOK
<1>17. SwitchSticks'
  <2> SUFFICES ASSUME NEW i \in DOMAIN tokens, Live(i)', "switch" \notin tokens'[i].missed,
                      chosen'[tokens'[i].family] # None
               PROVE  tokens'[i].root = chosen'[tokens'[i].family]
    BY <1>12 DEF SwitchSticks
  <2>1. Live(i) /\ ~tokens[i].revoked /\ tokens'[i].family = tokens[i].family
        /\ tokens[i].family \in TokenIds
    BY <1>6, <1>10, <1>13 DEF Live, Token
  <2>2. CASE i \in f.rows
    <3>1. tokens[i].family = family /\ tokens'[i].root = root
      BY <1>4, <1>5, <1>10, <2>1, <2>2
    <3> QED
      BY <1>15, <2>1, <3>1
  <2>3. CASE i \notin f.rows
    <3>1. CASE tokens[i].family = family
      <4>1. i \in FamilyRows(family)
        BY <2>1, <3>1 DEF FamilyRows
      <4>2. i > f.upto
        BY <1>4, <1>5, <1>6, <2>1, <2>3, <3>1 DEF KnowsFamily, Flight
      <4> QED
        BY <1>10, <2>3, <4>1, <4>2
    <3>2. CASE tokens[i].family # family
      <4>1. "switch" \notin tokens[i].missed /\ chosen[tokens[i].family] # None
        BY <1>10, <1>15, <2>1, <2>3, <3>2
      <4>2. tokens[i].root = chosen[tokens[i].family]
        BY <2>1, <4>1 DEF IInv, TokensInv, SwitchSticks
      <4> QED
        BY <1>10, <1>15, <2>1, <2>3, <3>2, <4>2
    <3> QED
      BY <3>1, <3>2
  <2> QED
    BY <2>2, <2>3
<1>18. EndedSessionsStayEnded'
  BY <1>1, <1>10, <1>12, <1>13 DEF IInv, TokensInv, EndedSessionsStayEnded
<1>19. LinksInv' /\ LinksKept
  BY <1>1, <1>2, Lengths DEF IInv, LinksInv, OpenedIsUsed, OneLiveLink, LiveLink, LinksKept
<1>20. PICK acc \in issueAccessToken(root) :
          flight' = Late(Readers(family), "switch",
                         [flight EXCEPT ![c] = Answered(f, TRUE, switchCookies(acc))])
  BY <1>3, <1>5, <1>8, Zenon DEF switchApply
<1>21. PICK set \in [acc : Contexts \cup {None}] : set = switchCookies(acc) /\ set \notin Jar
  <2>1. acc \in Contexts
    BY <1>2, <1>20 DEF issueAccessToken, resolveUniversityContext, TypeOK, Contexts
  <2>2. 0 \in 0..MaxTokens
    BY Bounds
  <2>3. PICK set \in [acc : Contexts \cup {None}] : set = switchCookies(acc)
    BY <2>1, <2>2, Jars
  <2> QED
    BY <2>3, Jars
<1>22. PICK g : g = Answered(f, TRUE, set)
  OBVIOUS
<1>23a. set \in {Keep} \cup Jar \cup [acc : Contexts \cup {None}]
  BY <1>21
<1>23. g \in Flight /\ g.pc = "answered"
  BY <1>22, <1>23a, AnsweredOK, ZenonT(60)
<1>24. PICK ps : ps = Readers(family)
  OBVIOUS
<1>25. c \notin ps /\ "switch" \in Kinds
  BY <1>2, <1>24 DEF Readers, Kinds
<1>26. flight' = Late(ps, "switch", [flight EXCEPT ![c] = g])
  BY <1>20, <1>21, <1>22, <1>24, Zenon
<1>27. /\ flight' \in [Procs -> Flight] /\ flight'[c] = g
       /\ \A q \in Procs : q # c /\ q \in ps => flight'[q] = LateFlight(flight[q], "switch")
       /\ \A q \in Procs : q # c /\ q \notin ps => flight'[q] = flight[q]
  BY <1>23, <1>25, <1>26, LateFlights, ZenonT(60)
<1>28. TypeOK'
  BY <1>1, <1>2, <1>6, <1>12, <1>15, <1>27 DEF TypeOK
<1>29. ASSUME NEW t \in Tabs PROVE TabOK(flight[t])'
  <2>1. t \in Procs /\ t # c
    BY <1>2 DEF Procs
  <2>2. PICK h \in Flight : h = flight[t] /\ TabOK(h)
    BY <2>1, FlightOf
  <2>3. CASE t \in ps
    <3>1. PICK k \in Flight : k = LateFlight(h, "switch") /\ "switch" \in k.late /\ TabOK(k)
      BY <1>25, <2>2, LateFlightOK
    <3>2. TabOK(k)'
      BY <1>2, <1>13, <1>28, <3>1, TabStays
    <3> QED
      BY <1>27, <2>1, <2>2, <2>3, <3>1, <3>2
  <2>4. CASE t \notin ps
    <3>1. h.pc \in {"resolve", "rotate"} => tokens'[h.row].root = tokens[h.row].root
      <4> SUFFICES ASSUME h.pc \in {"resolve", "rotate"}
                   PROVE  tokens'[h.row].root = tokens[h.row].root
        OBVIOUS
      <4>1. h.row \in DOMAIN tokens
        BY <2>2 DEF TabOK, HoldsRows
      <4>2. tokens[h.row].family # family
        BY <1>24, <2>2, <2>4 DEF Readers
      <4>3. h.row \notin f.rows
        BY <1>4, <1>5, <4>2
      <4> QED
        BY <1>10, <4>1, <4>3
    <3>2. TabOK(h)'
      BY <1>2, <1>13, <1>28, <2>2, <3>1, TabStays
    <3> QED
      BY <1>27, <2>1, <2>2, <2>4, <3>2
  <2> QED
    BY <2>3, <2>4
<1>30. ASSUME NEW d \in Calls PROVE CallOK(flight[d])'
  <2>1. CASE d = c
    <3>1. f.op = "switch" => f.root \in Roots
      BY <1>4
    <3>2. CallOK(g)'
      BY <1>21, <1>22, <1>23a, <1>28, <3>1, AnswerHoldsNext
    <3> QED
      BY <1>27, <2>1, <3>2
  <2>2. CASE d # c
    <3>1. d \in Procs /\ d \notin ps
      BY <1>24, SessionsAssumption DEF Procs, Readers
    <3>2. PICK h \in Flight : h = flight[d] /\ CallOK(h)
      BY <3>1, FlightOf
    <3>3. CallOK(h)'
      BY <1>1, <1>2, <1>13, <1>19, <1>28, <3>2, CallStays
    <3> QED
      BY <1>27, <2>2, <3>1, <3>2, <3>3
  <2> QED
    BY <2>1, <2>2
<1>31. \A d \in Calls : d \in Procs /\ d \notin ps
  BY <1>24, SessionsAssumption DEF Procs, Readers
<1>32. FlightsOK'
  BY <1>2, <1>23, <1>27, <1>29, <1>30, <1>31 DEF FlightsOK
<1>33. cookies'.tok <= Len(tokens')
  BY <1>1, <1>12 DEF IInv
<1> QED
  BY <1>13, <1>16, <1>17, <1>18, <1>19, <1>28, <1>32, <1>33 DEF IInv, TokensInv

\* What using up the links makes of link i.
IsUsedUp(u, f, i) ==
    /\ u \in Link
    /\ u.opens = links[i].opens /\ u.expired = links[i].expired
    /\ links[i].used => u.used
    /\ links[i].missed => u.missed
    /\ i \in f.seen => u.used
    /\ i \notin f.seen /\ i > f.mailed /\ LiveLink(i) => u.missed

LEMMA UseUpOK ==
    ASSUME TypeOK, NEW f \in Flight, NEW i \in DOMAIN links
    PROVE  IsUsedUp(UseUp(f, i), f, i)
<1>0. PICK u : u = UseUp(f, i)
  OBVIOUS
<1>1. PICK row \in Link : row = links[i]
  BY Lengths
<1>2. PICK r, s : /\ r = [row EXCEPT !.used = TRUE]
                  /\ s = [row EXCEPT !.missed = row.missed \/ (i > f.mailed /\ LiveLink(i))]
  OBVIOUS
<1>3. PICK b \in BOOLEAN : b = (row.missed \/ (i > f.mailed /\ LiveLink(i)))
  OBVIOUS
<1>4. /\ r = [used |-> TRUE, expired |-> row.expired, fresh |-> row.fresh,
              opens |-> row.opens, missed |-> row.missed]
      /\ s = [used |-> row.used, expired |-> row.expired, fresh |-> row.fresh,
              opens |-> row.opens, missed |-> row.missed \/ (i > f.mailed /\ LiveLink(i))]
  BY <1>2, Zenon DEF Link
<1>5. r \in Link /\ s \in Link
  BY <1>4 DEF Link
<1>6. i \in f.seen => u = r
  BY <1>0, <1>1, <1>2, Zenon DEF UseUp
<1>7. i \notin f.seen => u = s
  BY <1>0, <1>1, <1>2, Zenon DEF UseUp
<1>8. CASE i \in f.seen
  <2>0. r = [used |-> TRUE, expired |-> row.expired, fresh |-> row.fresh,
             opens |-> row.opens, missed |-> row.missed]
    BY <1>4
  <2>1. u \in Link /\ u.opens = row.opens /\ u.expired = row.expired /\ u.used
        /\ u.missed = row.missed
    <3>1. u = r
      BY <1>6, <1>8
    <3>2. u.used = TRUE
      BY <2>0, <3>1
    <3>3. u.opens = row.opens /\ u.expired = row.expired /\ u.missed = row.missed
      BY <2>0, <3>1
    <3> QED
      BY <1>5, <3>1, <3>2, <3>3
  <2> QED
    BY <1>0, <1>1, <1>8, <2>1 DEF IsUsedUp
<1>9. CASE i \notin f.seen
  <2>1. u \in Link /\ u.opens = row.opens /\ u.expired = row.expired /\ u.used = row.used
        /\ u.missed = b
    BY <1>3, <1>4, <1>5, <1>7, <1>9
  <2>2. row.missed => u.missed
    BY <1>3, <2>1
  <2>3. i > f.mailed /\ LiveLink(i) => u.missed
    BY <1>3, <2>1
  <2> QED
    BY <1>0, <1>1, <1>9, <2>1, <2>2, <2>3 DEF IsUsedUp
<1> QED
  BY <1>8, <1>9

LEMMA LinkTableOK ==
    ASSUME TypeOK, NEW T, T = [i \in DOMAIN links |-> T[i]],
           \A i \in DOMAIN links : T[i] \in Link
    PROVE  T \in Seq(Link) /\ Len(T) = Len(links) /\ DOMAIN T = DOMAIN links
<1>1. Len(links) \in Nat /\ DOMAIN links = 1..Len(links)
  BY Lengths
<1>2. T \in [1..Len(links) -> Link]
  BY <1>1
<1>3. T \in Seq(Link)
  BY <1>1, <1>2
<1>4. Len(T) = Len(links)
  BY <1>1, <1>2, <1>3
<1> QED
  BY <1>1, <1>2, <1>3, <1>4

\* A new link is the only usable one, but for those that were mailed behind the
\* snapshot, which say so.
LEMMA ForgotCommitIInv ==
    ASSUME IInv, NEW c \in Calls, forgotCommit(c)
    PROVE  IInv'
<1>1. /\ UNCHANGED <<password, tokens, lapsed, ended, chosen>>
      /\ UNCHANGED <<presented, cookies, approved>>
  BY DEF forgotCommit, world
<1>2. TypeOK /\ c \in Procs /\ c \notin Tabs
  BY SessionsAssumption DEF IInv, Procs
<1>3. PICK f \in Flight : f = flight[c] /\ CallOK(f)
  BY <1>2, FlightOf
<1>4. /\ f.pc = "mail" /\ Len(links) < MaxLinks /\ f.mailed \in Nat
      /\ \A i \in 1..f.mailed : LiveLink(i) => i \in f.seen
  BY <1>3 DEF forgotCommit, CallOK, Flight
<1>5. PICK s : s = [used |-> FALSE, expired |-> FALSE, fresh |-> TRUE,
                    opens |-> 0, missed |-> FALSE]
  OBVIOUS
<1>6. s \in Link /\ s.opens = 0
  BY <1>5 DEF Link
<1>7. PICK T : T = [i \in DOMAIN links |-> UseUp(f, i)]
  OBVIOUS
<1>8. links' = Append(T, s)
  BY <1>3, <1>5, <1>7, Zenon DEF forgotCommit
<1>9. \A i \in DOMAIN links : IsUsedUp(T[i], f, i)
  BY <1>2, <1>7, UseUpOK
<1>10. T \in Seq(Link) /\ Len(T) = Len(links) /\ DOMAIN T = DOMAIN links
  <2>1. \A i \in DOMAIN links : T[i] \in Link
    BY <1>9 DEF IsUsedUp
  <2>2. T = [i \in DOMAIN links |-> T[i]]
    BY <1>7
  <2> QED
    BY <1>2, <2>1, <2>2, LinkTableOK
<1>11. Len(links) \in Nat /\ DOMAIN links = 1..Len(links) /\ MaxLinks \in Nat
  BY <1>2, Lengths, Bounds
<1>12. PICK n : n = Len(links) + 1
  OBVIOUS
<1>13. /\ links' \in Seq(Link) /\ Len(links') = n /\ n <= MaxLinks
       /\ \A i \in DOMAIN links : links'[i] = T[i]
       /\ links'[n] = s
  BY <1>4, <1>6, <1>8, <1>10, <1>11, <1>12
<1>14. DOMAIN links' = DOMAIN links \cup {n} /\ n \notin DOMAIN links
  BY <1>11, <1>12, <1>13
<1>15. \A i \in DOMAIN links : IsUsedUp(links'[i], f, i)
  BY <1>9, <1>13
<1>16. \A i \in DOMAIN links : LiveLink(i)' => LiveLink(i)
  BY <1>15 DEF IsUsedUp, LiveLink
<1>17. LinksKept
  BY <1>11, <1>12, <1>13, <1>16 DEF LinksKept
<1>18. OpenedIsUsed'
  <2>1. \A i \in DOMAIN links : /\ links'[i].opens <= 1
                                /\ links'[i].opens > 0 => links'[i].used
    BY <1>15 DEF IInv, LinksInv, OpenedIsUsed, IsUsedUp
  <2>2. links'[n].opens <= 1 /\ (links'[n].opens > 0 => links'[n].used)
    BY <1>6, <1>13
  <2> QED
    BY <1>14, <2>1, <2>2 DEF OpenedIsUsed
<1>19. OneLiveLink'
  <2>1. \A i, j \in DOMAIN links :
           LiveLink(i)' /\ LiveLink(j)' /\ i # j => links'[i].missed \/ links'[j].missed
    BY <1>15, <1>16 DEF IInv, LinksInv, OneLiveLink, IsUsedUp
  <2>2. ASSUME NEW i \in DOMAIN links, LiveLink(i)' PROVE links'[i].missed
    <3>1. LiveLink(i) /\ i \notin f.seen
      BY <1>15, <1>16, <2>2 DEF IsUsedUp, LiveLink
    <3>2. i > f.mailed
      BY <1>4, <1>11, <3>1
    <3> QED
      BY <1>15, <3>1, <3>2 DEF IsUsedUp
  <2> QED
    BY <1>14, <2>1, <2>2 DEF OneLiveLink
<1>20. TokensInv' /\ TokensKept
  <2>1. TokensInv'
    BY <1>1 DEF IInv, TokensInv, FamiliesOK, OneLiveTokenPerFamily, SwitchSticks,
               EndedSessionsStayEnded, Live
  <2>2. TokensKept
    BY <1>1, <1>2, Lengths DEF TokensKept
  <2> QED
    BY <2>1, <2>2
<1>21. PICK set \in {Keep} \cup Jar \cup [acc : Contexts \cup {None}] :
          set = Keep /\ set \notin Jar
  BY Jars
<1>22. Respond(c, TRUE, set)
  BY <1>21, Zenon DEF forgotCommit
<1>23. flight' \in [Procs -> Flight]
  BY <1>2, <1>22, AnswerTyped
<1>24. TypeOK'
  BY <1>1, <1>2, <1>13, <1>23 DEF TypeOK
<1>25. \A i \in DOMAIN links : links'[i].opens = links[i].opens
  BY <1>15 DEF IsUsedUp
<1>26. \A i \in DOMAIN tokens : tokens'[i].root = tokens[i].root
  BY <1>1
<1>27. FlightsOK'
  BY <1>1, <1>2, <1>17, <1>20, <1>21, <1>22, <1>24, <1>25, <1>26, AnswerFlights
<1>28. cookies'.tok <= Len(tokens')
  BY <1>1 DEF IInv
<1> QED
  BY <1>18, <1>19, <1>20, <1>24, <1>27, <1>28 DEF IInv, LinksInv

OpenedLink(link) == [link EXCEPT !.used = TRUE, !.opens = @ + 1]

LEMMA OpenedLinkOK ==
    ASSUME NEW link \in Link
    PROVE  LET r == OpenedLink(link)
           IN  r \in Link /\ r.used = TRUE /\ r.opens = link.opens + 1
<1>1. PICK r : r = OpenedLink(link)
  OBVIOUS
<1>2. r = [used |-> TRUE, expired |-> link.expired, fresh |-> link.fresh,
           opens |-> link.opens + 1, missed |-> link.missed]
  BY <1>1, Zenon DEF Link, OpenedLink
<1>3. r \in Link
  BY <1>2 DEF Link
<1> QED
  BY <1>1, <1>2, <1>3

\* The links after a reset: the one that was claimed is opened for the first
\* time, and none is usable that was not.
LEMMA ResetLinks ==
    ASSUME IInv, NEW c \in Calls, resetCommit(c)
    PROVE  /\ links' \in Seq(Link) /\ Len(links') = Len(links)
           /\ LinksInv' /\ LinksKept
           /\ \A i \in DOMAIN links : i # flight[c].row => links'[i].opens = links[i].opens
<1>1. TypeOK /\ c \in Procs
  BY DEF IInv, Procs
<1>2. PICK f \in Flight : f = flight[c] /\ CallOK(f)
  BY <1>1, FlightOf
<1>3. f.pc = "reset" /\ f.row \in DOMAIN links /\ links[f.row].opens = 0
  BY <1>2 DEF resetCommit, CallOK
<1>4. /\ Len(links) \in Nat /\ DOMAIN links = 1..Len(links)
      /\ \A i \in DOMAIN links : links[i] \in Link
  BY <1>1, Lengths
<1>5. PICK o \in Link : o = OpenedLink(links[f.row]) /\ o.used = TRUE /\ o.opens = 1
  <2>1. PICK link \in Link : link = links[f.row] /\ link.opens = 0
    BY <1>3, <1>4
  <2>2. PICK o \in Link : o = OpenedLink(link) /\ o.used = TRUE /\ o.opens = link.opens + 1
    BY OpenedLinkOK
  <2> QED
    BY <2>1, <2>2
<1>6. links' = [i \in DOMAIN links |->
                   IF i = f.row THEN OpenedLink(links[i]) ELSE UseUp(f, i)]
  BY <1>2, Zenon DEF resetCommit, OpenedLink
<1>7. links'[f.row] = o
  BY <1>3, <1>5, <1>6
<1>8. \A i \in DOMAIN links : i # f.row => IsUsedUp(links'[i], f, i)
  BY <1>1, <1>6, UseUpOK
<1>9. links' \in Seq(Link) /\ Len(links') = Len(links) /\ DOMAIN links' = DOMAIN links
  <2>1. \A i \in DOMAIN links : links'[i] \in Link
    BY <1>7, <1>8 DEF IsUsedUp
  <2>2. links' = [i \in DOMAIN links |-> links'[i]]
    BY <1>6
  <2> QED
    BY <1>1, <2>1, <2>2, LinkTableOK
<1>10. \A i \in DOMAIN links : LiveLink(i)' => LiveLink(i) /\ i # f.row
  BY <1>5, <1>7, <1>8 DEF IsUsedUp, LiveLink
<1>11. OneLiveLink'
  BY <1>8, <1>9, <1>10 DEF IInv, LinksInv, OneLiveLink, IsUsedUp
<1>12. OpenedIsUsed'
  <2>1. ASSUME NEW i \in DOMAIN links
        PROVE  links'[i].opens <= 1 /\ (links'[i].opens > 0 => links'[i].used)
    <3>1. CASE i = f.row
      BY <1>5, <1>7, <3>1
    <3>2. CASE i # f.row
      BY <1>8, <3>2 DEF IInv, LinksInv, OpenedIsUsed, IsUsedUp
    <3> QED
      BY <3>1, <3>2
  <2> QED
    BY <1>9, <2>1 DEF OpenedIsUsed
<1>13. LinksKept
  BY <1>4, <1>9, <1>10 DEF LinksKept
<1>14. \A i \in DOMAIN links : i # f.row => links'[i].opens = links[i].opens
  BY <1>8 DEF IsUsedUp
<1> QED
  BY <1>2, <1>9, <1>11, <1>12, <1>13, <1>14 DEF LinksInv

\* The tokens after a reset: a usable one was inserted behind its last
\* statement, and says so.
LEMMA ResetTokens ==
    ASSUME IInv, NEW c \in Calls, resetCommit(c)
    PROVE  /\ tokens' \in Seq(Token) /\ Len(tokens') = Len(tokens)
           /\ TokensInv' /\ TokensKept
           /\ \A i \in DOMAIN tokens : tokens'[i].root = tokens[i].root
<1>1. TypeOK /\ c \in Procs
  BY DEF IInv, Procs
<1>2. PICK f \in Flight : f = flight[c] /\ CallOK(f)
  BY <1>1, FlightOf
<1>3. /\ f.upto <= Len(tokens)
      /\ \A i \in 1..f.upto : ~tokens[i].revoked => i \in f.rows
  BY <1>2 DEF resetCommit, CallOK
<1>4. /\ Len(tokens) \in Nat /\ DOMAIN tokens = 1..Len(tokens) /\ f.upto \in Nat
      /\ \A i \in DOMAIN tokens : tokens[i] \in Token
  BY <1>1, Lengths DEF Flight
<1>5. tokens' = [i \in DOMAIN tokens |->
                    Update(f, i, DOMAIN tokens, "end", RevokedRow(tokens[i]))]
  BY <1>2, Zenon DEF resetCommit, RevokedRow
<1>6. ASSUME NEW i \in DOMAIN tokens
      PROVE  /\ tokens'[i] \in Token
             /\ tokens'[i].family = tokens[i].family /\ tokens'[i].root = tokens[i].root
             /\ tokens'[i].used = tokens[i].used /\ tokens'[i].pw = tokens[i].pw
             /\ tokens[i].missed \subseteq tokens'[i].missed
             /\ tokens[i].revoked => tokens'[i].revoked
             /\ i \in f.rows => tokens'[i].revoked
             /\ i \notin f.rows /\ i > f.upto => "end" \in tokens'[i].missed
  <2>1. PICK changed \in Token : /\ changed = RevokedRow(tokens[i]) /\ changed.revoked
                                 /\ changed.family = tokens[i].family
                                 /\ changed.root = tokens[i].root
                                 /\ changed.used = tokens[i].used
                                 /\ changed.pw = tokens[i].pw
                                 /\ changed.missed = tokens[i].missed
    BY <1>4, RevokedRowOK
  <2>2. PICK about : about = DOMAIN tokens
    OBVIOUS
  <2>3. "end" \in Kinds
    BY DEF Kinds
  <2>4. PICK u : u = Update(f, i, about, "end", changed)
    OBVIOUS
  <2>5. IsUpdated(u, f, i, about, "end", changed)
    BY <1>1, <2>3, <2>4, UpdateOK
  <2>6. tokens'[i] = u
    BY <1>5, <2>1, <2>2, <2>4
  <2> QED
    BY <2>1, <2>2, <2>5, <2>6 DEF IsUpdated
<1>7. tokens' = [i \in DOMAIN tokens |-> tokens'[i]]
  BY <1>5
<1>8. tokens' \in Seq(Token) /\ Len(tokens') = Len(tokens) /\ DOMAIN tokens' = DOMAIN tokens
  BY <1>1, <1>6, <1>7, TableOK
<1>9. UNCHANGED <<lapsed, ended, chosen>>
  BY DEF resetCommit, world
<1>10. /\ TokensKept /\ OneLiveTokenPerFamily'
       /\ \A i \in DOMAIN tokens : Live(i)' => Live(i)
  BY <1>6, <1>8, <1>9, Narrowed
<1>11. FamiliesOK'
  BY <1>6, <1>8, <1>9 DEF IInv, TokensInv, FamiliesOK
<1>12. SwitchSticks'
  BY <1>6, <1>8, <1>9, <1>10 DEF IInv, TokensInv, SwitchSticks
<1>13. EndedSessionsStayEnded'
  <2> SUFFICES ASSUME NEW i \in DOMAIN tokens, Live(i)'
               PROVE  "end" \in tokens'[i].missed
    BY <1>8 DEF EndedSessionsStayEnded
  <2>1. ~tokens[i].revoked /\ i \notin f.rows
    BY <1>6, <1>10 DEF Live
  <2>2. i > f.upto
    BY <1>3, <1>4, <2>1
  <2> QED
    BY <1>6, <2>1, <2>2
<1> QED
  BY <1>6, <1>8, <1>10, <1>11, <1>12, <1>13 DEF TokensInv

LEMMA ResetCommitIInv ==
    ASSUME IInv, NEW c \in Calls, resetCommit(c)
    PROVE  IInv'
<1>1. /\ UNCHANGED <<lapsed, ended, chosen>>
      /\ UNCHANGED <<presented, cookies, approved>>
      /\ password' = password + 1
  BY DEF resetCommit, world
<1>2. TypeOK /\ FlightsOK /\ c \in Procs /\ c \notin Tabs
  BY SessionsAssumption DEF IInv, Procs
<1>3. PICK f \in Flight : f = flight[c] /\ CallOK(f)
  BY <1>2, FlightOf
<1>4. f.pc = "reset" /\ (f.op = "switch" => f.root \in Roots)
  BY <1>3 DEF resetCommit, CallOK
<1>5. /\ links' \in Seq(Link) /\ Len(links') = Len(links)
      /\ LinksInv' /\ LinksKept
      /\ tokens' \in Seq(Token) /\ Len(tokens') = Len(tokens)
      /\ TokensInv' /\ TokensKept
      /\ \A i \in DOMAIN tokens : tokens'[i].root = tokens[i].root
  BY ResetLinks, ResetTokens
<1>6. PICK set \in Jar : set = clearAuthenticationCookies /\ set.tok = 0
  BY Jars
<1>7. PICK g : g = Answered(f, TRUE, set)
  OBVIOUS
<1>8. set \in {Keep} \cup Jar \cup [acc : Contexts \cup {None}]
  BY <1>6
<1>9. g \in Flight /\ g.pc = "answered"
  BY <1>7, <1>8, AnsweredOK, ZenonT(60)
<1>10. PICK ps : ps = LoggingIn
  OBVIOUS
<1>11. c \notin ps /\ "end" \in Kinds
  BY <1>3, <1>4, <1>10 DEF LoggingIn, Kinds
<1>12. flight' = Late(ps, "end", [flight EXCEPT ![c] = g])
  BY <1>3, <1>6, <1>7, <1>10, Zenon DEF resetCommit, resetCookies
<1>13. /\ flight' \in [Procs -> Flight] /\ flight'[c] = g
       /\ \A q \in Procs : q # c /\ q \in ps => flight'[q] = LateFlight(flight[q], "end")
       /\ \A q \in Procs : q # c /\ q \notin ps => flight'[q] = flight[q]
  BY <1>9, <1>11, <1>12, LateFlights, ZenonT(60)
<1>14. password \in Nat /\ password' \in Nat /\ password < password'
  BY <1>1, <1>2 DEF TypeOK
<1>15. TypeOK'
  BY <1>1, <1>2, <1>5, <1>13, <1>14 DEF TypeOK
<1>16. ASSUME NEW t \in Tabs PROVE TabOK(flight[t])'
  <2>1. t \in Procs /\ t # c /\ t \notin ps
    BY <1>2, <1>10, SessionsAssumption DEF Procs, LoggingIn
  <2>2. PICK h \in Flight : h = flight[t] /\ TabOK(h)
    BY <2>1, FlightOf
  <2>3. h.pc \in {"resolve", "rotate"} => tokens'[h.row].root = tokens[h.row].root
    BY <1>5, <2>2 DEF TabOK, HoldsRows
  <2>4. TabOK(h)'
    BY <1>2, <1>5, <1>15, <2>2, <2>3, TabStays
  <2> QED
    BY <1>13, <2>1, <2>2, <2>4
<1>17. \A d \in Calls : d # c => flight[d].pc # "reset"
  BY <1>2, <1>3, <1>4 DEF FlightsOK
<1>18. ASSUME NEW d \in Calls
       PROVE  CallOK(flight[d])' /\ (flight'[d].pc # "reset")
  <2>1. CASE d = c
    <3>1. set.tok <= Len(tokens')
      BY <1>6, <1>15, NextLengths
    <3>2. CallOK(g)'
      BY <1>4, <1>7, <1>8, <1>15, <3>1, AnswerHoldsNext
    <3> QED
      BY <1>9, <1>13, <2>1, <3>2
  <2>2. CASE d # c
    <3>1. d \in Procs
      BY DEF Procs
    <3>2. PICK h \in Flight : h = flight[d] /\ CallOK(h) /\ h.pc # "reset"
      BY <1>17, <2>2, <3>1, FlightOf
    <3>3. CASE d \in ps
      <4>1. PICK k \in Flight : /\ k = LateFlight(h, "end") /\ "end" \in k.late /\ CallOK(k)
                                /\ k.pc = h.pc
        BY <1>11, <3>2, LateFlightOK
      <4>2. CallOK(k)'
        BY <1>2, <1>5, <1>14, <1>15, <3>2, <4>1, CallStays
      <4> QED
        BY <1>13, <2>2, <3>1, <3>2, <3>3, <4>1, <4>2
    <3>4. CASE d \notin ps
      <4>1. h.pc # "issue"
        BY <1>10, <3>2, <3>4 DEF LoggingIn
      <4>2. CallOK(h)'
        BY <1>2, <1>5, <1>15, <3>2, <4>1, CallStays
      <4> QED
        BY <1>13, <2>2, <3>1, <3>2, <3>4, <4>2
    <3> QED
      BY <3>3, <3>4
  <2> QED
    BY <2>1, <2>2
<1>19. FlightsOK'
  BY <1>16, <1>18 DEF FlightsOK
<1>20. cookies'.tok <= Len(tokens')
  BY <1>1, <1>5 DEF IInv
<1> QED
  BY <1>5, <1>15, <1>19, <1>20 DEF IInv

-----------------------------------------------------------------------------
(* The theorems *)

LEMMA InitIInv == Init => IInv
<1> SUFFICES ASSUME Init PROVE IInv
  OBVIOUS
<1>1. PICK r \in Roots :
         /\ tokens = <<[family |-> 1, root |-> r, used |-> FALSE, revoked |-> FALSE,
                        pw |-> 0, missed |-> {}]>>
         /\ cookies = [tok |-> 1, acc |-> r]
  BY DEF Init
<1>2. PICK s : s = [family |-> 1, root |-> r, used |-> FALSE, revoked |-> FALSE,
                    pw |-> 0, missed |-> {}]
  OBVIOUS
<1>3. 1 \in TokenIds /\ 1 \in 0..MaxTokens /\ 1 <= MaxTokens
  BY Bounds DEF TokenIds
<1>4. s \in Token /\ s.family = 1 /\ s.pw = 0
  BY <1>2, <1>3 DEF Token
<1>5. /\ tokens \in Seq(Token) /\ Len(tokens) = 1 /\ DOMAIN tokens = {1} /\ tokens[1] = s
  BY <1>1, <1>2, <1>4
<1>6. cookies \in Jar /\ cookies.tok = 1
  BY <1>1, <1>3 DEF Jar, Contexts
<1>7. links = <<>> /\ links \in Seq(Link) /\ Len(links) = 0 /\ DOMAIN links = {}
  BY DEF Init
<1>8. Len(links) <= MaxLinks
  BY <1>7, Bounds
<1>9. PICK e \in Flight : e = Idle
  BY IdleOK
<1>10. flight = [p \in Procs |-> e]
  BY <1>9 DEF Init
<1>11. flight \in [Procs -> Flight]
  BY <1>10
<1>12. TypeOK
  BY <1>3, <1>5, <1>6, <1>7, <1>8, <1>11 DEF Init, TypeOK
<1>13. TabOK(e) /\ CallOK(e) /\ e.pc = "idle"
  BY <1>9, <1>12, IdleHolds
<1>14. FlightsOK
  BY <1>10, <1>13 DEF FlightsOK, Procs
<1>15. LinksInv
  BY <1>7 DEF LinksInv, OpenedIsUsed, OneLiveLink
<1>16. FamiliesOK
  BY <1>4, <1>5 DEF Init, FamiliesOK
<1>17. OneLiveTokenPerFamily
  BY <1>5 DEF OneLiveTokenPerFamily
<1>18. SwitchSticks /\ EndedSessionsStayEnded
  BY <1>3, <1>4, <1>5 DEF Init, SwitchSticks, EndedSessionsStayEnded
<1> QED
  BY <1>5, <1>6, <1>12, <1>14, <1>15, <1>16, <1>17, <1>18 DEF IInv, TokensInv

LEMMA NextIInv ==
    ASSUME IInv, [Next]_vars
    PROVE  IInv'
<1>1. CASE UNCHANGED vars
  <2>1. /\ UNCHANGED <<password, tokens, links, ended, chosen, lapsed>>
        /\ UNCHANGED <<approved, cookies, presented, flight>>
    BY <1>1 DEF vars
  <2>2. approved' \subseteq Roots /\ cookies' \in Jar /\ cookies'.tok <= Len(tokens)
        /\ presented' \in [TokenIds -> SUBSET Tabs] /\ flight' \in [Procs -> Flight]
    BY <2>1 DEF IInv, TypeOK
  <2>3. FlightsOK'
    BY <2>1 DEF IInv, FlightsOK, TabOK, CallOK, HoldsRows, KnowsFamily, LiveLink
  <2> QED
    BY <2>1, <2>2, <2>3, QuietStep
<1>2. ASSUME NEW c \in Calls,
             \/ loadCurrentUser(c) \/ handleLogout(c) \/ submitLogin(c)
             \/ submitForgotPassword(c)
             \/ \E root \in Roots : selectUniversity(c, root)
             \/ \E i \in LinkIds : submitResetPassword(c, i)
      PROVE  IInv'
  BY <1>2, SubmitIInv
<1>3. ASSUME NEW c \in Calls, ServeCall(c) PROVE IInv'
  <2>1. c \in Procs
    BY DEF Procs
  <2> QED
    BY <1>3, <2>1, LoginCheckIInv, CreateSessionIInv, LogoutIInv, MeIInv,
       RevokeSnapshotIInv, RevokeIInv, SwitchCheckIInv, SwitchSnapshotIInv,
       SwitchApplyIInv, ForgotIInv, ForgotCommitIInv, ResetReadIInv, ResetCommitIInv
       DEF ServeCall
<1>4. ASSUME NEW p \in Procs, answerLost(p) PROVE IInv'
  BY <1>4, AnswerLostIInv
<1>5. ASSUME NEW t \in Tabs, restoreSession(t) \/ ServeRefresh(t) \/ answerRefresh(t)
      PROVE  IInv'
  <2>1. t \in Procs
    BY DEF Procs
  <2> QED
    BY <1>5, <2>1, RestoreSessionIInv, RefreshReadIInv, RefreshResolveIInv,
       RefreshRotateIInv, RevokeSnapshotIInv, RevokeIInv, AnswerRefreshIInv
       DEF ServeRefresh
<1>6. CASE \E c \in Calls : answerCall(c)
  BY <1>6, AnswerCallIInv
<1>7. CASE accessExpires \/ \E now \in SUBSET Roots : membershipChanges(now)
  BY <1>7, CookieOrMembershipIInv
<1>8. CASE \E f \in TokenIds : familyLapses(f)
  BY <1>8, FamilyLapsesIInv
<1>9. CASE \E i \in LinkIds : linkAges(i)
  BY <1>9, LinkAgesIInv
<1> QED
  BY <1>1, <1>2, <1>3, <1>4, <1>5, <1>6, <1>7, <1>8, <1>9 DEF Next, Procs

\* The inductive invariant: what the tables say of one another, with what each
\* handler and each tab under way has read of them.
THEOREM Invariance == Spec => []IInv
<1>1. IInv /\ [Next]_vars => IInv'
  BY NextIInv
<1> QED
  BY <1>1, InitIInv, PTL DEF Spec

\* However many tabs and calls interleave, the rotation of refreshSession leaves a
\* family one usable token, and that one has the university of the last switch,
\* unless a rotation that read the token before the switch wrote its own back.
THEOREM SessionsAreFollowed == Spec => []TokensFollowTheSession
<1>1. IInv => TokensFollowTheSession
  BY DEF IInv, TokensInv, TokensFollowTheSession
<1> QED
  BY <1>1, Invariance, PTL

\* After a logout, a replay or a reset no token of the session is usable, but one
\* that a sign-in or a rotation under way inserted behind the UPDATE, and those
\* rotated from it.
THEOREM EndedForGood == Spec => []EndedSessionsStayEnded
<1>1. IInv => EndedSessionsStayEnded
  BY DEF IInv, TokensInv
<1> QED
  BY <1>1, Invariance, PTL

\* A reset link changes the password once, and two links are usable only when one
\* was mailed behind the snapshot of another request.
THEOREM LinksAreSingle == Spec => []ResetLinksAreSingle
<1>1. IInv => LinkOpensOnce
  BY DEF IInv, LinksInv, OpenedIsUsed, LinkOpensOnce
<1>2. IInv => ResetLinksAreSingle
  BY <1>1 DEF IInv, LinksInv, ResetLinksAreSingle
<1> QED
  BY <1>2, Invariance, PTL

-----------------------------------------------------------------------------
(* A session that nobody ended *)

\* Nothing has happened yet that would end the session.
Undisturbed ==
    /\ causes = {} /\ password = 0 /\ lapsed = {} /\ lost = 0
    /\ \A i \in TokenIds : ~(Cardinality(presented[i]) > 1)

Fresh(k) == k \in DOMAIN tokens /\ ~tokens[k].used

\* A tab that refreshes holds a token that it alone presented, and its answer
\* brings one that nobody presented.
Carries(t, k) == Fresh(k) /\ t \in presented[k]
Brings(set) == set \in Jar /\ Fresh(set.tok) /\ presented[set.tok] = {} /\ set.acc # None

TabPeace(t) ==
    LET f == flight[t]
    IN  /\ f.pc \in {"idle", "sent", "resolve", "rotate", "answered"}
        /\ f.pc # "idle" => f.op = "refresh"
        /\ f.pc = "sent" => Carries(t, f.tok)
        /\ f.pc \in {"resolve", "rotate"} => Carries(t, f.row)
        /\ f.pc = "rotate" => f.acc # None
        /\ f.pc = "answered" => f.ok /\ Brings(f.set)

\* No page logs out: an account that is asked for again is found.
CallPeace(c) ==
    LET f == flight[c]
    IN  /\ f.op # "logout"
        /\ f.pc \notin {"family", "revoke"}
        /\ f.pc = "issue" => f.op = "login"
        /\ f.op = "me" /\ f.again =>
              \/ f.pc = "sent" /\ f.acc # None
              \/ f.pc = "answered" /\ f.ok
        /\ f.pc = "answered" /\ f.set \in Jar =>
              Brings(f.set) /\ f.op \notin {"me", "switch"}

\* The cookie's token is usable, or its successor is on its way to the browser.
Replaces(t) ==
    LET f == flight[t]
        k == cookies.tok
    IN  \/ f.pc = "sent" /\ f.tok = k
        \/ f.pc \in {"resolve", "rotate"} /\ f.row = k
        \/ f.pc = "answered" /\ tokens[f.set.tok].family = tokens[k].family

CookiePeace ==
    /\ cookies.tok \in DOMAIN tokens
    /\ tokens[cookies.tok].used => presented[cookies.tok] # {}
    /\ \A t \in presented[cookies.tok] : Replaces(t)

\* No two answers bring the same token, nor the one that the browser holds.
Brought(p) == flight[p].pc = "answered" /\ flight[p].set \in Jar

AnswersApart ==
    \A p \in Procs : Brought(p) =>
        /\ flight[p].set.tok # cookies.tok
        /\ \A q \in Procs : Brought(q) /\ q # p => flight[q].set.tok # flight[p].set.tok

Peace ==
    /\ approved = Roots
    /\ \A i \in DOMAIN tokens : ~tokens[i].revoked
    /\ \A t \in Tabs : TabPeace(t)
    /\ \A c \in Calls : CallPeace(c)
    /\ CookiePeace
    /\ AnswersApart

\* Tokens are presented after they are issued, each by finitely many tabs.
HistoryOK ==
    /\ lost \in Nat
    /\ \A i \in TokenIds : /\ IsFiniteSet(presented[i])
                           /\ presented[i] # {} => i \in DOMAIN tokens

PeaceInv == HistoryOK /\ (Undisturbed => Peace)

\* One tab at most has presented a token.
LEMMA AtMostOne ==
    ASSUME NEW S, IsFiniteSet(S), ~(Cardinality(S) > 1), NEW t \in S
    PROVE  S = {t}
<1>1. Cardinality(S) \in Nat
  BY FS_CardinalityType
<1>2. Cardinality(S) # 0
  BY FS_EmptySet
<1>3. Cardinality(S) = 1
  BY <1>1, <1>2
<1>4. \E x : S = {x}
  BY <1>3, FS_Singleton
<1> QED
  BY <1>4

LEMMA PresentedOnce ==
    ASSUME HistoryOK, Undisturbed, NEW i \in TokenIds, NEW t \in presented[i]
    PROVE  presented[i] = {t}
  BY AtMostOne DEF HistoryOK, Undisturbed

\* A flight that a step leaves alone, or only marks as late.
Same(p) ==
    LET f == flight[p]
        g == flight'[p]
    IN  /\ g.pc = f.pc /\ g.op = f.op /\ g.tok = f.tok /\ g.row = f.row
        /\ g.acc = f.acc /\ g.again = f.again /\ g.ok = f.ok /\ g.set = f.set

\* A step that uses up token r and has token s presented.
TableStep(r, s) ==
    /\ \A k \in DOMAIN tokens : k \in DOMAIN tokens' /\ tokens'[k].family = tokens[k].family
    /\ \A k \in DOMAIN tokens : k # r => tokens'[k].used = tokens[k].used
    /\ \A k \in TokenIds : presented[k] \subseteq presented'[k]
    /\ \A k \in TokenIds : k # s => presented'[k] = presented[k]

LEMMA IdsOfTokens ==
    ASSUME TypeOK
    PROVE  /\ DOMAIN tokens = 1..Len(tokens) /\ DOMAIN tokens \subseteq TokenIds
           /\ \A i \in DOMAIN tokens : tokens[i] \in Token
           /\ Len(tokens) \in Nat /\ 0 \notin TokenIds
  BY Lengths, Bounds DEF TypeOK, TokenIds

LEMMA CarriesStays ==
    ASSUME TypeOK, NEW t \in Tabs, NEW r, NEW s, NEW k, k # r,
           Carries(t, k), TableStep(r, s)
    PROVE  Carries(t, k)'
  BY IdsOfTokens DEF Carries, Fresh, TableStep

LEMMA BringsStays ==
    ASSUME TypeOK, NEW r, NEW s, NEW set, set \in Jar => set.tok \notin {r, s},
           Brings(set), TableStep(r, s)
    PROVE  Brings(set)'
<1>1. set \in Jar /\ set.tok \in DOMAIN tokens /\ set.tok \in TokenIds
  BY IdsOfTokens DEF Brings, Fresh
<1> QED
  BY <1>1 DEF Brings, Fresh, TableStep

LEMMA TabStaysCalm ==
    ASSUME TypeOK, NEW t \in Tabs, NEW r, NEW s, TabPeace(t), Same(t), TableStep(r, s),
           flight[t].pc = "sent" => flight[t].tok # r,
           flight[t].pc \in {"resolve", "rotate"} => flight[t].row # r,
           Brought(t) => flight[t].set.tok \notin {r, s}
    PROVE  TabPeace(t)'
<1>1. PICK f : f = flight[t]
  OBVIOUS
<1>2. PICK g : g = flight'[t]
  OBVIOUS
<1>3. /\ g.pc = f.pc /\ g.op = f.op /\ g.tok = f.tok /\ g.row = f.row
      /\ g.acc = f.acc /\ g.ok = f.ok /\ g.set = f.set
  BY <1>1, <1>2 DEF Same
<1>4. /\ f.pc \in {"idle", "sent", "resolve", "rotate", "answered"}
      /\ f.pc # "idle" => f.op = "refresh"
      /\ f.pc = "sent" => Carries(t, f.tok)
      /\ f.pc \in {"resolve", "rotate"} => Carries(t, f.row)
      /\ f.pc = "rotate" => f.acc # None
      /\ f.pc = "answered" => f.ok /\ Brings(f.set)
  BY <1>1 DEF TabPeace
<1>5. f.pc = "sent" => Carries(t, f.tok)'
  BY <1>1, <1>4, CarriesStays
<1>6. f.pc \in {"resolve", "rotate"} => Carries(t, f.row)'
  BY <1>1, <1>4, CarriesStays
<1>7. f.pc = "answered" => Brings(f.set)'
  <2> HAVE f.pc = "answered"
  <2>1. Brings(f.set) /\ f.set \in Jar
    BY <1>4 DEF Brings
  <2>2. f.set.tok \notin {r, s}
    BY <1>1, <2>1 DEF Brought
  <2> QED
    BY <2>1, <2>2, BringsStays
<1> QED
  BY <1>2, <1>3, <1>4, <1>5, <1>6, <1>7 DEF TabPeace

LEMMA CallStaysCalm ==
    ASSUME TypeOK, NEW c \in Calls, NEW r, NEW s, CallPeace(c), Same(c), TableStep(r, s),
           Brought(c) => flight[c].set.tok \notin {r, s}
    PROVE  CallPeace(c)'
<1>1. PICK f : f = flight[c]
  OBVIOUS
<1>2. PICK g : g = flight'[c]
  OBVIOUS
<1>3. /\ g.pc = f.pc /\ g.op = f.op /\ g.acc = f.acc /\ g.again = f.again
      /\ g.ok = f.ok /\ g.set = f.set
  BY <1>1, <1>2 DEF Same
<1>4. /\ f.op # "logout" /\ f.pc \notin {"family", "revoke"}
      /\ f.pc = "issue" => f.op = "login"
      /\ f.op = "me" /\ f.again =>
            (f.pc = "sent" /\ f.acc # None) \/ (f.pc = "answered" /\ f.ok)
      /\ f.pc = "answered" /\ f.set \in Jar =>
            Brings(f.set) /\ f.op \notin {"me", "switch"}
  BY <1>1 DEF CallPeace
<1>5. f.pc = "answered" /\ f.set \in Jar => Brings(f.set)'
  <2> HAVE f.pc = "answered" /\ f.set \in Jar
  <2>1. Brings(f.set) /\ f.set.tok \notin {r, s}
    BY <1>1, <1>4 DEF Brought
  <2> QED
    BY <2>1, BringsStays
<1> QED
  BY <1>2, <1>3, <1>4, <1>5 DEF CallPeace

LEMMA CookieStaysCalm ==
    ASSUME TypeOK, NEW r, NEW s, CookiePeace, TableStep(r, s), \A t \in Tabs : TabPeace(t),
           cookies'.tok = cookies.tok, cookies.tok \notin {r, s},
           \A t \in presented[cookies.tok] : Same(t) \/ Replaces(t)'
    PROVE  CookiePeace'
<1>1. PICK k \in DOMAIN tokens : k = cookies.tok /\ cookies'.tok = k
  BY DEF CookiePeace
<1>2. /\ k \in TokenIds /\ k # r /\ k # s
      /\ k \in DOMAIN tokens' /\ tokens'[k].used = tokens[k].used
      /\ tokens'[k].family = tokens[k].family /\ presented'[k] = presented[k]
  BY <1>1, IdsOfTokens DEF TableStep
<1>3. ASSUME NEW t \in presented[k]
      PROVE  Replaces(t)'
  <2> SUFFICES ASSUME Same(t) PROVE Replaces(t)'
    BY <1>1, <1>3
  <2>1. PICK f : f = flight[t]
    OBVIOUS
  <2>2. PICK g : g = flight'[t]
    OBVIOUS
  <2>3. g.pc = f.pc /\ g.tok = f.tok /\ g.row = f.row /\ g.set = f.set
    BY <1>1, <1>3, <2>1, <2>2 DEF Same
  <2>4. t \in Tabs
    BY <1>2, <1>3 DEF TypeOK
  <2>5. \/ f.pc = "sent" /\ f.tok = k
        \/ f.pc \in {"resolve", "rotate"} /\ f.row = k
        \/ f.pc = "answered" /\ tokens[f.set.tok].family = tokens[k].family
    BY <1>1, <1>3, <2>1 DEF CookiePeace, Replaces
  <2>6. f.pc = "answered" => tokens'[f.set.tok].family = tokens[f.set.tok].family
    BY <2>1, <2>4 DEF TabPeace, Brings, Fresh, TableStep
  <2> QED
    BY <1>1, <1>2, <2>2, <2>3, <2>5, <2>6 DEF Replaces
<1> QED
  BY <1>1, <1>2, <1>3 DEF CookiePeace

\* The browser takes a token that nobody presented.
LEMMA CookieTaken ==
    ASSUME NEW set \in Jar, Brings(set)', cookies'.tok = set.tok
    PROVE  CookiePeace'
  BY DEF Brings, Fresh, CookiePeace

Unbrought(q) == Brought(q)' => Brought(q) /\ flight'[q].set = flight[q].set

LEMMA SameUnbrought ==
    ASSUME NEW q, Same(q)
    PROVE  Unbrought(q)
  BY DEF Same, Unbrought, Brought

LEMMA ApartStays ==
    ASSUME AnswersApart, cookies'.tok = cookies.tok, \A q \in Procs : Unbrought(q)
    PROVE  AnswersApart'
  BY DEF AnswersApart, Unbrought

\* An answer brings token n, which no answer brought before.
LEMMA ApartAdds ==
    ASSUME AnswersApart, cookies'.tok = cookies.tok, NEW p \in Procs,
           flight'[p].set.tok # cookies.tok,
           \A q \in Procs : Brought(q) => flight[q].set.tok # flight'[p].set.tok,
           \A q \in Procs : q # p => Unbrought(q)
    PROVE  AnswersApart'
  BY DEF AnswersApart, Unbrought

\* The browser takes the answer of p.
LEMMA ApartTakes ==
    ASSUME AnswersApart, NEW p \in Procs, Brought(p), cookies'.tok = flight[p].set.tok,
           ~Brought(p)', \A q \in Procs : q # p => Unbrought(q)
    PROVE  AnswersApart'
  BY DEF AnswersApart, Unbrought

\* A step that sets no token in the browser and brings none to it.
NoneRevoked == \A i \in DOMAIN tokens : ~tokens[i].revoked

TabMoves(t) ==
    \/ Same(t)
    \/ /\ TabPeace(t)' /\ ~Brought(t)'
       /\ t \in presented[cookies.tok] => Replaces(t)'

CallMoves(c) == Same(c) \/ (CallPeace(c)' /\ ~Brought(c)')

LEMMA PeaceMoves ==
    ASSUME TypeOK, Peace, TableStep(0, 0), NoneRevoked', approved' = approved,
           cookies'.tok = cookies.tok,
           \A t \in Tabs : TabMoves(t), \A c \in Calls : CallMoves(c)
    PROVE  Peace'
<1>1. /\ approved = Roots /\ CookiePeace /\ AnswersApart
      /\ \A t \in Tabs : TabPeace(t)
      /\ \A c \in Calls : CallPeace(c)
  BY DEF Peace
<1>2. 0 \notin DOMAIN tokens /\ \A t : ~Carries(t, 0)
  BY IdsOfTokens DEF Carries, Fresh
<1>3. ASSUME NEW t \in Tabs
      PROVE  TabPeace(t)'
  <2> SUFFICES ASSUME Same(t) PROVE TabPeace(t)'
    BY DEF TabMoves
  <2>1. /\ flight[t].pc = "sent" => flight[t].tok # 0
        /\ flight[t].pc \in {"resolve", "rotate"} => flight[t].row # 0
    BY <1>1, <1>2 DEF TabPeace
  <2>2. Brought(t) => flight[t].set.tok \notin {0, 0}
    BY <1>1, <1>2 DEF TabPeace, Brought, Brings, Fresh
  <2> QED
    BY <1>1, <2>1, <2>2, TabStaysCalm
<1>4. ASSUME NEW c \in Calls
      PROVE  CallPeace(c)'
  <2> SUFFICES ASSUME Same(c) PROVE CallPeace(c)'
    BY DEF CallMoves
  <2>1. Brought(c) => flight[c].set.tok \notin {0, 0}
    BY <1>1, <1>2 DEF CallPeace, Brought, Brings, Fresh
  <2> QED
    BY <1>1, <2>1, CallStaysCalm
<1>5. CookiePeace'
  <2>1. cookies.tok \notin {0, 0} /\ cookies.tok \in TokenIds
    BY <1>1, <1>2, IdsOfTokens DEF CookiePeace
  <2>2. \A t \in presented[cookies.tok] : Same(t) \/ Replaces(t)'
    BY <2>1 DEF TabMoves, TypeOK
  <2> QED
    BY <1>1, <2>1, <2>2, CookieStaysCalm
<1>6. AnswersApart'
  <2>1. \A q \in Procs : Unbrought(q)
    <3> TAKE q \in Procs
    <3>1. Same(q) \/ ~Brought(q)'
      BY DEF TabMoves, CallMoves, Procs
    <3> QED
      BY <3>1, SameUnbrought DEF Unbrought
  <2> QED
    BY <1>1, <2>1, ApartStays
<1> QED
  BY <1>1, <1>3, <1>4, <1>5, <1>6 DEF Peace, NoneRevoked

\* Flight p goes to g, which brings nothing, and the tables stay.
LEMMA FlightSame ==
    ASSUME TypeOK, NEW p \in Procs, NEW g, flight' = [flight EXCEPT ![p] = g]
    PROVE  flight'[p] = g /\ \A q \in Procs : q # p => flight'[q] = flight[q] /\ Same(q)
  BY DEF TypeOK, Same

LEMMA TableRests ==
    ASSUME UNCHANGED <<tokens, presented>>
    PROVE  TableStep(0, 0)
  BY DEF TableStep

\* A call's flight that logs nobody out and brings no token.
Harmless(g) ==
    /\ g \in Flight
    /\ g.op # "logout" /\ g.pc \notin {"family", "revoke"}
    /\ g.pc = "issue" => g.op = "login"
    /\ g.op = "me" /\ g.again =>
          (g.pc = "sent" /\ g.acc # None) \/ (g.pc = "answered" /\ g.ok)
    /\ g.pc = "answered" => g.set \notin Jar

LEMMA CallGoes ==
    ASSUME IInv, Peace, NEW c \in Calls, NEW g, Harmless(g), Goto(c, g),
           UNCHANGED <<tokens, presented, approved>>, cookies'.tok = cookies.tok
    PROVE  Peace'
<1>1. c \in Procs /\ c \notin Tabs
  BY SessionsAssumption DEF Procs
<1>2. flight'[c] = g /\ \A q \in Procs : q # c => Same(q)
  <2>1. flight' = [flight EXCEPT ![c] = g]
    BY Zenon DEF Goto
  <2> QED
    BY <1>1, <2>1, FlightSame DEF IInv
<1>3. CallPeace(c)' /\ ~Brought(c)'
  BY <1>2 DEF CallPeace, Brought, Harmless
<1>4. \A t \in Tabs : TabMoves(t)
  BY <1>1, <1>2 DEF TabMoves, Procs
<1>5. \A d \in Calls : CallMoves(d)
  BY <1>2, <1>3 DEF CallMoves, Procs
<1>6. NoneRevoked'
  BY DEF Peace, NoneRevoked
<1> QED
  BY <1>4, <1>5, <1>6, TableRests, PeaceMoves DEF IInv

\* What the steps of a call's handler go on from.
LEMMA PeacefulCall ==
    ASSUME IInv, Peace, NEW c \in Calls
    PROVE  /\ flight[c] \in Flight /\ CallOK(flight[c])
           /\ flight[c].op # "logout" /\ flight[c].pc \notin {"family", "revoke"}
           /\ flight[c].op = "me" /\ flight[c].again =>
                 \/ flight[c].pc = "sent" /\ flight[c].acc # None
                 \/ flight[c].pc = "answered" /\ flight[c].ok
  BY FlightOf DEF Peace, CallPeace, Procs

LEMMA AnswerHarmless ==
    ASSUME NEW f \in Flight, NEW ok \in BOOLEAN,
           NEW set \in {Keep} \cup [acc : Contexts \cup {None}],
           f.op # "logout", f.op = "me" /\ f.again => ok
    PROVE  Harmless(Answered(f, ok, set))
<1>1. PICK g : g = Answered(f, ok, set)
  OBVIOUS
<1>2. set \in {Keep} \cup Jar \cup [acc : Contexts \cup {None}] /\ set \notin Jar
  BY Jars
<1>3. /\ g \in Flight /\ g.op = f.op /\ g.pc = "answered" /\ g.ok = ok /\ g.set = set
      /\ g.again = f.again
  BY <1>1, <1>2, AnsweredOK
<1> QED
  BY <1>1, <1>2, <1>3 DEF Harmless

LEMMA KeepGoes ==
    ASSUME IInv, Peace, NEW c \in Calls, NEW ok \in BOOLEAN, Respond(c, ok, Keep),
           flight[c].op = "me" /\ flight[c].again => ok,
           UNCHANGED <<tokens, presented, approved, cookies>>
    PROVE  Peace'
<1>1. PICK f \in Flight : f = flight[c] /\ f.op # "logout"
  BY PeacefulCall
<1>2. PICK set \in {Keep} \cup [acc : Contexts \cup {None}] : set = Keep
  OBVIOUS
<1>3. PICK g : g = Answered(f, ok, set)
  OBVIOUS
<1>4. Harmless(g)
  BY <1>1, <1>3, AnswerHarmless
<1>5. Goto(c, g)
  BY <1>1, <1>2, <1>3, Zenon DEF Respond
<1> QED
  BY <1>4, <1>5, CallGoes

LEMMA RestsOf ==
    ASSUME UNCHANGED <<tables, cookies, world>>
    PROVE  /\ UNCHANGED <<tokens, presented, approved>> /\ UNCHANGED cookies
           /\ cookies'.tok = cookies.tok
           /\ UNCHANGED <<tokens, presented, approved, cookies>>
  BY DEF tables, world

LEMMA LoginCheckPeace ==
    ASSUME IInv, Peace, NEW c \in Calls, loginCheck(c)
    PROVE  Peace'
<1>1. PICK f \in Flight : f = flight[c] /\ f.op = "login"
  BY PeacefulCall DEF loginCheck
<1>2. /\ UNCHANGED <<tokens, presented, approved>> /\ cookies'.tok = cookies.tok
      /\ UNCHANGED <<tokens, presented, approved, cookies>>
  BY RestsOf DEF loginCheck
<1>3. CASE Respond(c, FALSE, Keep)
  BY <1>1, <1>2, <1>3, KeepGoes
<1>4. CASE Goto(c, MovedPw(f, "issue", password))
  <2>1. PICK g : g = MovedPw(f, "issue", password)
    OBVIOUS
  <2>2. "issue" \in Pcs /\ password \in Nat
    BY DEF Pcs, IInv, TypeOK
  <2>3. g \in Flight /\ g.pc = "issue" /\ g.op = f.op
    BY <2>1, <2>2, MovedPwOK
  <2>4. Harmless(g)
    BY <1>1, <2>3 DEF Harmless
  <2> QED
    BY <1>2, <1>4, <2>1, <2>4, CallGoes
<1> QED
  BY <1>1, <1>3, <1>4, Zenon DEF loginCheck, MovedPw

LEMMA MePeace ==
    ASSUME IInv, Peace, NEW c \in Calls, me(c)
    PROVE  Peace'
<1>1. PICK ok \in BOOLEAN : ok = canActivate(flight[c].acc)
  BY Zenon DEF canActivate
<1>2. Respond(c, ok, Keep) /\ UNCHANGED <<tokens, presented, approved, cookies>>
  <2>1. Respond(c, ok, Keep)
    BY <1>1, Zenon DEF me
  <2> QED
    BY <2>1, RestsOf DEF me
<1>3. flight[c].op = "me" /\ flight[c].again => ok
  BY <1>1, PeacefulCall DEF canActivate, Peace, me
<1> QED
  BY <1>2, <1>3, KeepGoes

LEMMA SwitchReadPeace ==
    ASSUME IInv, Peace, NEW c \in Calls, switchCheck(c) \/ switchSnapshot(c)
    PROVE  Peace'
<1>1. PICK f \in Flight : f = flight[c] /\ f.op = "switch" /\ CallOK(f)
  BY PeacefulCall DEF switchCheck, switchSnapshot, CallOK
<1>2. /\ UNCHANGED <<tokens, presented, approved>> /\ cookies'.tok = cookies.tok
      /\ UNCHANGED <<tokens, presented, approved, cookies>>
  BY RestsOf DEF switchCheck, switchSnapshot
<1>3. CASE Respond(c, FALSE, Keep)
  BY <1>1, <1>2, <1>3, KeepGoes
<1>4. CASE Goto(c, MovedRow(f, "members", f.tok))
  <2>1. PICK g : g = MovedRow(f, "members", f.tok)
    OBVIOUS
  <2>2. "members" \in Pcs /\ f.tok \in Nat
    BY Bounds DEF Pcs, Flight
  <2>3. g \in Flight /\ g.pc = "members" /\ g.op = f.op
    BY <2>1, <2>2, MovedRowOK
  <2>4. Harmless(g)
    BY <1>1, <2>3 DEF Harmless
  <2> QED
    BY <1>2, <1>4, <2>1, <2>4, CallGoes
<1>5. CASE switchSnapshot(c)
  <2>1. PICK g : g = MovedRows(f, "switch", FamilyRows(tokens[f.row].family), Len(tokens))
    OBVIOUS
  <2>2. f.row \in DOMAIN tokens /\ HoldsRows(f)
    BY <1>1, <1>5 DEF switchSnapshot, CallOK, HoldsRows
  <2>3. g \in Flight /\ g.pc = "switch" /\ g.op = f.op
    BY <2>1, <2>2, SnapshotOK DEF IInv
  <2>4. Harmless(g)
    BY <1>1, <2>3 DEF Harmless
  <2>5. Goto(c, g)
    BY <1>1, <1>5, <2>1, Zenon DEF switchSnapshot, MovedRows
  <2> QED
    BY <1>2, <2>4, <2>5, CallGoes
<1> QED
  BY <1>1, <1>3, <1>4, <1>5, Zenon DEF switchCheck, MovedRow

LEMMA ForgotPeace ==
    ASSUME IInv, Peace, NEW c \in Calls, forgotCheck(c) \/ forgotSnapshot(c)
    PROVE  Peace'
<1>1. PICK f \in Flight : /\ f = flight[c] /\ f.op # "logout"
                          /\ ~(f.op = "me" /\ f.again)
  BY PeacefulCall DEF forgotCheck, forgotSnapshot
<1>2. /\ UNCHANGED <<tokens, presented, approved>> /\ cookies'.tok = cookies.tok
      /\ UNCHANGED <<tokens, presented, approved, cookies>>
  BY RestsOf DEF forgotCheck, forgotSnapshot
<1>3. CASE Respond(c, TRUE, Keep)
  BY <1>1, <1>2, <1>3, KeepGoes
<1>4. CASE Goto(c, Moved(f, "forgot"))
  <2>1. PICK g : g = Moved(f, "forgot")
    OBVIOUS
  <2>2. "forgot" \in Pcs
    BY DEF Pcs
  <2>3. g \in Flight /\ g.pc = "forgot" /\ g.op = f.op /\ g.again = f.again
    BY <2>1, <2>2, MovedOK
  <2>4. Harmless(g)
    BY <1>1, <2>3 DEF Harmless
  <2> QED
    BY <1>2, <1>4, <2>1, <2>4, CallGoes
<1>5. CASE Goto(c, MovedSeen(f, "mail", LinksToUseUp, Len(links)))
  <2>1. PICK seen, mailed : seen = LinksToUseUp /\ mailed = Len(links)
    OBVIOUS
  <2>2. PICK g : g = MovedSeen(f, "mail", seen, mailed)
    OBVIOUS
  <2>3. seen \in SUBSET Nat /\ mailed \in Nat /\ "mail" \in Pcs
    BY <2>1, Lengths DEF LinksToUseUp, Pcs, IInv
  <2>4. g \in Flight /\ g.pc = "mail" /\ g.op = f.op /\ g.again = f.again
    BY <2>2, <2>3, MovedSeenOK
  <2>5. Harmless(g)
    BY <1>1, <2>4 DEF Harmless
  <2>6. Goto(c, g)
    BY <1>5, <2>1, <2>2, Zenon
  <2> QED
    BY <1>2, <2>5, <2>6, CallGoes
<1> QED
  BY <1>1, <1>3, <1>4, <1>5, Zenon DEF forgotCheck, forgotSnapshot, Moved, MovedSeen

LEMMA ResetReadPeace ==
    ASSUME IInv, Peace, NEW c \in Calls, resetCheck(c) \/ resetClaim(c)
    PROVE  Peace'
<1>1. PICK f \in Flight : f = flight[c] /\ f.op = "reset"
  BY PeacefulCall DEF resetCheck, resetClaim, CallOK
<1>2. /\ UNCHANGED <<tokens, presented, approved>> /\ cookies'.tok = cookies.tok
      /\ UNCHANGED <<tokens, presented, approved, cookies>>
  BY RestsOf DEF resetCheck, resetClaim
<1>3. CASE Respond(c, FALSE, Keep)
  BY <1>1, <1>2, <1>3, KeepGoes
<1>4. CASE Goto(c, Moved(f, "claim"))
  <2>1. PICK g : g = Moved(f, "claim")
    OBVIOUS
  <2>2. "claim" \in Pcs
    BY DEF Pcs
  <2>3. g \in Flight /\ g.pc = "claim" /\ g.op = f.op
    BY <2>1, <2>2, MovedOK
  <2>4. Harmless(g)
    BY <1>1, <2>3 DEF Harmless
  <2> QED
    BY <1>2, <1>4, <2>1, <2>4, CallGoes
<1>5. CASE Goto(c, MovedReset(f, "reset", {i \in DOMAIN tokens : ~tokens[i].revoked},
                              Len(tokens), LinksToUseUp, Len(links)))
  <2>1. PICK rows, upto, seen, mailed :
           /\ rows = {i \in DOMAIN tokens : ~tokens[i].revoked}
           /\ upto = Len(tokens)
           /\ seen = LinksToUseUp /\ mailed = Len(links)
    OBVIOUS
  <2>2. PICK g : g = MovedReset(f, "reset", rows, upto, seen, mailed)
    OBVIOUS
  <2>3. /\ seen \in SUBSET Nat /\ mailed \in Nat /\ "reset" \in Pcs
        /\ rows \in SUBSET Nat /\ upto \in Nat
    BY <2>1, Lengths DEF LinksToUseUp, Pcs, IInv
  <2>4. g \in Flight /\ g.pc = "reset" /\ g.op = f.op
    BY <2>2, <2>3, MovedResetOK
  <2>5. Harmless(g)
    BY <1>1, <2>4 DEF Harmless
  <2>6. Goto(c, g)
    BY <1>5, <2>1, <2>2, Zenon
  <2> QED
    BY <1>2, <2>5, <2>6, CallGoes
<1>6. CASE resetCheck(c)
  BY <1>1, <1>3, <1>4, <1>6, Zenon DEF resetCheck, resetCookies, Moved
<1>7. CASE resetClaim(c)
  BY <1>1, <1>3, <1>5, <1>7, Zenon DEF resetClaim, resetCookies, MovedReset
<1> QED
  BY <1>6, <1>7

LEMMA ForgotCommitPeace ==
    ASSUME IInv, Peace, NEW c \in Calls, forgotCommit(c)
    PROVE  Peace'
<1>1. flight[c].pc = "mail" /\ Respond(c, TRUE, Keep)
  BY Zenon DEF forgotCommit
<1>2. UNCHANGED <<tokens, presented, approved, cookies>>
  BY DEF forgotCommit, world
<1> QED
  BY <1>1, <1>2, KeepGoes

LEMMA SubmitPeace ==
    ASSUME IInv, Peace, NEW c \in Calls,
           \/ loadCurrentUser(c) \/ submitLogin(c)
           \/ submitForgotPassword(c)
           \/ \E root \in Roots : selectUniversity(c, root)
           \/ \E i \in LinkIds : submitResetPassword(c, i)
    PROVE  Peace'
<1>1. PICK jar \in Jar : jar = cookies /\ jar.tok <= Len(tokens)
  BY CookiesOK
<1>2. ASSUME NEW op \in Requests, op # "logout",
             NEW root \in Roots \cup {None}, NEW row \in Nat,
             Start(c, Send(op, root, row, jar), {})
      PROVE  Peace'
  <2>1. PICK g : g = Send(op, root, row, jar)
    OBVIOUS
  <2>2. g \in Flight /\ g.op = op /\ g.pc = "sent"
    BY <2>1, SentOK
  <2>3. g.again = FALSE
    BY <2>1, SentCarries
  <2>4. Harmless(g)
    BY <1>2, <2>2, <2>3 DEF Harmless
  <2>5. Goto(c, g)
    BY <1>2, <2>1, Zenon DEF Start
  <2>6. UNCHANGED <<tokens, presented, approved>> /\ cookies'.tok = cookies.tok
    BY <1>2 DEF Start, tables
  <2> QED
    BY <2>4, <2>5, <2>6, CallGoes
<1>3. /\ {"me", "login", "forgot", "reset", "switch"} \subseteq Requests
      /\ "me" # "logout" /\ "login" # "logout" /\ "forgot" # "logout"
      /\ "reset" # "logout" /\ "switch" # "logout"
  BY DEF Requests
<1>4. None \in Roots \cup {None} /\ 0 \in Nat
  OBVIOUS
<1>5. CASE loadCurrentUser(c)
  <2>1. Start(c, Send("me", None, 0, jar), {})
    BY <1>1, <1>5, Zenon DEF loadCurrentUser, getCurrentUser
  <2> QED
    BY <1>2, <1>3, <1>4, <2>1, Zenon
<1>6. CASE submitLogin(c)
  <2>1. Start(c, Send("login", None, 0, jar), {})
    BY <1>1, <1>6, Zenon DEF submitLogin, loginRequest
  <2> QED
    BY <1>2, <1>3, <1>4, <2>1, Zenon
<1>7. CASE submitForgotPassword(c)
  <2>1. Start(c, Send("forgot", None, 0, jar), {})
    BY <1>1, <1>7, Zenon DEF submitForgotPassword, requestPasswordReset
  <2> QED
    BY <1>2, <1>3, <1>4, <2>1, Zenon
<1>8. ASSUME NEW root \in Roots, selectUniversity(c, root)
      PROVE  Peace'
  <2>1. Start(c, Send("switch", root, 0, jar), {})
    BY <1>1, <1>8, Zenon DEF selectUniversity, switchActiveUniversity
  <2>2. root \in Roots \cup {None}
    OBVIOUS
  <2> QED
    BY <1>2, <1>3, <1>4, <2>1, <2>2, Zenon
<1>9. ASSUME NEW i \in LinkIds, submitResetPassword(c, i)
      PROVE  Peace'
  <2>1. Start(c, Send("reset", None, i, jar), {})
    BY <1>1, <1>9, Zenon DEF submitResetPassword, resetPassword
  <2>2. i \in Nat
    BY Bounds DEF LinkIds
  <2> QED
    BY <1>2, <1>3, <1>4, <2>1, <2>2, Zenon
<1> QED
  BY <1>5, <1>6, <1>7, <1>8, <1>9

LEMMA SwitchApplyPeace ==
    ASSUME IInv, Peace, NEW c \in Calls, switchApply(c)
    PROVE  Peace'
<1>1. UNCHANGED <<presented, cookies, approved>>
  BY DEF switchApply, world
<1>2. TypeOK /\ c \in Procs /\ c \notin Tabs
  BY SessionsAssumption DEF IInv, Procs
<1>3. PICK f \in Flight : f = flight[c] /\ f.op = "switch" /\ f.root \in Roots
  BY PeacefulCall DEF switchApply, CallOK
<1>4. PICK root \in Roots : root = f.root
  BY <1>3
<1>5. PICK family : family = tokens[f.row].family
  OBVIOUS
<1>6. tokens' = [i \in DOMAIN tokens |->
                   Update(f, i, FamilyRows(family), "switch", SwitchedRow(tokens[i], root))]
  BY <1>3, <1>4, <1>5, Zenon DEF switchApply, SwitchedRow
<1>7. ASSUME NEW i \in DOMAIN tokens
      PROVE  /\ tokens'[i].family = tokens[i].family
             /\ tokens'[i].used = tokens[i].used
             /\ tokens'[i].revoked = tokens[i].revoked
  <2>1. PICK changed \in Token : /\ changed = SwitchedRow(tokens[i], root)
                                 /\ changed.family = tokens[i].family
                                 /\ changed.used = tokens[i].used
                                 /\ changed.revoked = tokens[i].revoked
    BY <1>2, IdsOfTokens, SwitchedRowOK
  <2>2. PICK about : about = FamilyRows(family)
    OBVIOUS
  <2>3. "switch" \in Kinds
    BY DEF Kinds
  <2>4. PICK u : u = Update(f, i, about, "switch", changed)
    OBVIOUS
  <2>5. IsUpdated(u, f, i, about, "switch", changed)
    BY <1>2, <2>3, <2>4, UpdateOK
  <2>6. tokens'[i] = u
    BY <1>6, <2>1, <2>2, <2>4
  <2> QED
    BY <2>1, <2>5, <2>6 DEF IsUpdated
<1>8. DOMAIN tokens' = DOMAIN tokens
  BY <1>6
<1>9. TableStep(0, 0)
  BY <1>1, <1>7, <1>8 DEF TableStep
<1>10. NoneRevoked'
  BY <1>7, <1>8 DEF NoneRevoked, Peace
<1>11. PICK acc \in issueAccessToken(root) :
          flight' = Late(Readers(family), "switch",
                         [flight EXCEPT ![c] = Answered(f, TRUE, switchCookies(acc))])
  BY <1>3, <1>4, <1>5, Zenon DEF switchApply
<1>12. PICK set \in {Keep} \cup [acc : Contexts \cup {None}] : set = switchCookies(acc)
  <2>1. acc \in Contexts
    BY <1>2, <1>11 DEF issueAccessToken, resolveUniversityContext, TypeOK, Contexts
  <2>2. 0 \in 0..MaxTokens
    BY Bounds
  <2> QED
    BY <2>1, <2>2, Jars
<1>13. PICK g : g = Answered(f, TRUE, set)
  OBVIOUS
<1>14. Harmless(g)
  BY <1>3, <1>13, AnswerHarmless
<1>15. PICK ps : ps = Readers(family)
  OBVIOUS
<1>16. c \notin ps /\ "switch" \in Kinds
  BY <1>2, <1>15 DEF Readers, Kinds
<1>17. flight' = Late(ps, "switch", [flight EXCEPT ![c] = g])
  BY <1>11, <1>12, <1>13, <1>15, Zenon
<1>18. g \in Flight
  BY <1>14 DEF Harmless
<1>19. /\ flight' \in [Procs -> Flight] /\ flight'[c] = g
       /\ \A q \in Procs : q # c /\ q \in ps => flight'[q] = LateFlight(flight[q], "switch")
       /\ \A q \in Procs : q # c /\ q \notin ps => flight'[q] = flight[q]
  BY <1>16, <1>17, <1>18, LateFlights, ZenonT(60)
<1>20. ASSUME NEW q \in Procs, q # c
       PROVE  Same(q)
  <2>1. PICK h \in Flight : h = flight[q]
    BY FlightOf
  <2>2. CASE q \in ps
    <3>1. PICK k : k = LateFlight(h, "switch")
      OBVIOUS
    <3>2. /\ k.pc = h.pc /\ k.row = h.row /\ k.op = h.op
          /\ k.tok = h.tok /\ k.acc = h.acc /\ k.again = h.again
          /\ k.ok = h.ok /\ k.set = h.set
      BY <1>16, <3>1, LateFlightOK
    <3>3. flight'[q] = k
      BY <1>19, <1>20, <2>1, <2>2, <3>1
    <3> QED
      BY <2>1, <3>2, <3>3 DEF Same
  <2>3. CASE q \notin ps
    BY <1>19, <1>20, <2>3 DEF Same
  <2> QED
    BY <2>2, <2>3
<1>21. CallPeace(c)' /\ ~Brought(c)'
  BY <1>14, <1>19 DEF CallPeace, Brought, Harmless
<1>22. \A t \in Tabs : TabMoves(t)
  BY <1>2, <1>20 DEF TabMoves, Procs
<1>23. \A d \in Calls : CallMoves(d)
  BY <1>20, <1>21 DEF CallMoves, Procs
<1> QED
  BY <1>1, <1>2, <1>9, <1>10, <1>22, <1>23, PeaceMoves

\* A tab reads a usable token of a university that the user is in, and signs.
LEMMA TabGoes ==
    ASSUME IInv, Peace, NEW t \in Tabs, NEW g, Goto(t, g),
           UNCHANGED <<tokens, presented, approved>>, cookies'.tok = cookies.tok,
           g.op = "refresh", g.pc \in {"resolve", "rotate"}, Carries(t, g.row),
           g.pc = "rotate" => g.acc # None,
           flight[t].pc = "sent" => g.row = flight[t].tok,
           flight[t].pc # "sent" => flight[t].pc = "resolve" /\ g.row = flight[t].row
    PROVE  Peace'
<1>1. t \in Procs /\ t \notin Calls
  BY SessionsAssumption DEF Procs
<1>2. flight'[t] = g /\ \A q \in Procs : q # t => Same(q)
  <2>1. flight' = [flight EXCEPT ![t] = g]
    BY Zenon DEF Goto
  <2> QED
    BY <1>1, <2>1, FlightSame DEF IInv
<1>3. Carries(t, g.row)'
  BY DEF Carries, Fresh
<1>4. TabPeace(t)' /\ ~Brought(t)'
  BY <1>2, <1>3 DEF TabPeace, Brought
<1>5. t \in presented[cookies.tok] => Replaces(t)'
  BY <1>2 DEF Replaces, Peace, CookiePeace
<1>6. \A u \in Tabs : TabMoves(u)
  BY <1>2, <1>4, <1>5 DEF TabMoves, Procs
<1>7. \A d \in Calls : CallMoves(d)
  BY <1>1, <1>2 DEF CallMoves, Procs
<1>8. NoneRevoked'
  BY DEF Peace, NoneRevoked
<1> QED
  BY <1>6, <1>7, <1>8, TableRests, PeaceMoves DEF IInv

LEMMA RefreshReadPeace ==
    ASSUME IInv, Peace, lapsed = {}, NEW t \in Tabs, refreshRead(t)
    PROVE  Peace'
<1>1. t \in Procs /\ TypeOK
  BY DEF Procs, IInv
<1>2. PICK f \in Flight : f = flight[t]
  BY <1>1, FlightOf
<1>3. f.pc = "sent" /\ f.op = "refresh" /\ Carries(t, f.tok)
  BY <1>2 DEF refreshRead, Peace, TabPeace
<1>4. PICK row \in Token : row = tokens[f.tok] /\ ~row.used /\ ~row.revoked
  BY <1>1, <1>3, IdsOfTokens DEF Carries, Fresh, Peace
<1>5. f.tok # 0 /\ f.tok \in Nat
  BY <1>1, <1>3, IdsOfTokens DEF Carries, Fresh
<1>6. row.root # None => resolveUniversityContext(row.root) # {}
  BY <1>4 DEF resolveUniversityContext, Token, Peace
<1>7. PICK g : g = MovedRoot(f, "resolve", f.tok, row.root)
  OBVIOUS
<1>8. Goto(t, g)
  BY <1>2, <1>4, <1>5, <1>6, <1>7, Zenon DEF refreshRead, MovedRoot
<1>9. "resolve" \in Pcs /\ row.root \in Roots \cup {None}
  BY <1>4 DEF Pcs, Token
<1>10. g.op = "refresh" /\ g.pc = "resolve" /\ g.row = f.tok
  BY <1>3, <1>5, <1>7, <1>9, MovedRootOK
<1>11. UNCHANGED <<tokens, presented, approved>> /\ cookies'.tok = cookies.tok
  BY RestsOf DEF refreshRead
<1> QED
  BY <1>2, <1>3, <1>8, <1>10, <1>11, TabGoes

LEMMA RefreshResolvePeace ==
    ASSUME IInv, Peace, NEW t \in Tabs, refreshResolve(t)
    PROVE  Peace'
<1>1. t \in Procs /\ TypeOK
  BY DEF Procs, IInv
<1>2. PICK f \in Flight : f = flight[t]
  BY <1>1, FlightOf
<1>3. f.pc = "resolve" /\ f.op = "refresh" /\ Carries(t, f.row)
  BY <1>2 DEF refreshResolve, Peace, TabPeace
<1>4. PICK acc \in issueAccessToken(f.root) : Goto(t, MovedAcc(f, "rotate", acc))
  BY <1>2, Zenon DEF refreshResolve, MovedAcc
<1>5. PICK g : g = MovedAcc(f, "rotate", acc)
  OBVIOUS
<1>6. acc \in Contexts \cup {None} /\ acc # None /\ "rotate" \in Pcs
  BY <1>1, Bounds DEF TypeOK, issueAccessToken, resolveUniversityContext, Contexts, Pcs
<1>7. g.op = "refresh" /\ g.pc = "rotate" /\ g.row = f.row /\ g.acc = acc
  BY <1>3, <1>5, <1>6, MovedAccOK
<1>8. UNCHANGED <<tokens, presented, approved>> /\ cookies'.tok = cookies.tok
  BY RestsOf DEF refreshResolve
<1>9. Goto(t, g)
  BY <1>4, <1>5, Zenon
<1> QED
  BY <1>2, <1>3, <1>6, <1>7, <1>8, <1>9, TabGoes

\* An answer that sets a token brings one that nobody presented.
LEMMA Bringing ==
    ASSUME TypeOK, Peace, NEW q \in Procs, Brought(q)
    PROVE  /\ Brings(flight[q].set) /\ flight[q].set.tok \in DOMAIN tokens
           /\ flight[q].set.tok # 0 /\ flight[q].set.tok # cookies.tok
           /\ presented[flight[q].set.tok] = {}
<1>1. Brings(flight[q].set)
  BY DEF Peace, TabPeace, CallPeace, Brought, Procs
<1>2. flight[q].set.tok # cookies.tok
  BY DEF Peace, AnswersApart
<1> QED
  BY <1>1, <1>2, IdsOfTokens DEF Brings, Fresh

\* A handler answers with the new token n; if it is a refresh, token r, which
\* its tab alone presented, is used up.
LEMMA NewAnswer ==
    ASSUME IInv, HistoryOK, Undisturbed, Peace, NEW p \in Procs, NEW g, NEW r, NEW n,
           flight' = [flight EXCEPT ![p] = g],
           g.set \in Jar, g.set.tok = n, g.set.acc # None,
           n \in TokenIds, n \notin DOMAIN tokens, n \in DOMAIN tokens', ~tokens'[n].used,
           TableStep(r, 0), UNCHANGED <<presented, cookies>>,
           r = 0 \/ (r \in TokenIds /\ p \in presented[r])
    PROVE  /\ flight'[p] = g /\ Brings(g.set)'
           /\ \A q \in Procs : q # p => Same(q)
           /\ \A u \in Tabs : u # p => TabPeace(u)'
           /\ \A d \in Calls : d # p => CallPeace(d)'
           /\ AnswersApart'
<1>1. TypeOK
  BY DEF IInv
<1>2. flight'[p] = g /\ \A q \in Procs : q # p => Same(q)
  BY <1>1, FlightSame
<1>3. Brings(g.set)'
  BY DEF Brings, Fresh, HistoryOK
<1>4. ASSUME NEW q \in Procs, Brought(q)
      PROVE  flight[q].set.tok \notin {r, 0} /\ flight[q].set.tok # n
  BY <1>1, <1>4, Bringing
<1>5. ASSUME NEW u \in Tabs, u # p
      PROVE  TabPeace(u)'
  <2>1. u \in Procs /\ TabPeace(u) /\ Same(u)
    BY <1>2, <1>5 DEF Peace, Procs
  <2>2. ~Carries(u, r)
    <3>1. CASE r = 0
      BY <1>1, <3>1, IdsOfTokens DEF Carries, Fresh
    <3>2. CASE r \in TokenIds /\ p \in presented[r]
      BY <1>5, <3>2, PresentedOnce DEF Carries
    <3> QED
      BY <3>1, <3>2
  <2>3. /\ flight[u].pc = "sent" => flight[u].tok # r
        /\ flight[u].pc \in {"resolve", "rotate"} => flight[u].row # r
    BY <2>1, <2>2 DEF TabPeace
  <2>4. Brought(u) => flight[u].set.tok \notin {r, 0}
    BY <1>4, <2>1
  <2> QED
    BY <1>1, <2>1, <2>3, <2>4, TabStaysCalm
<1>6. ASSUME NEW d \in Calls, d # p
      PROVE  CallPeace(d)'
  <2>1. d \in Procs /\ CallPeace(d) /\ Same(d)
    BY <1>2, <1>6 DEF Peace, Procs
  <2>2. Brought(d) => flight[d].set.tok \notin {r, 0}
    BY <1>4, <2>1
  <2> QED
    BY <1>1, <2>1, <2>2, CallStaysCalm
<1>7. AnswersApart'
  <2>1. AnswersApart /\ cookies'.tok = cookies.tok /\ cookies.tok \in DOMAIN tokens
    BY DEF Peace, CookiePeace
  <2>2. flight'[p].set.tok # cookies.tok
    BY <1>2, <2>1
  <2>3. \A q \in Procs : Brought(q) => flight[q].set.tok # flight'[p].set.tok
    BY <1>2, <1>4
  <2>4. \A q \in Procs : q # p => Unbrought(q)
    BY <1>2, SameUnbrought
  <2> QED
    BY <2>1, <2>2, <2>3, <2>4, ApartAdds
<1> QED
  BY <1>2, <1>3, <1>5, <1>6, <1>7

\* The tab's token is claimed, and its answer brings the successor.
LEMMA RefreshRotatePeace ==
    ASSUME IInv, HistoryOK, Undisturbed, Peace, NEW t \in Tabs, refreshRotate(t)
    PROVE  Peace'
<1>1. t \in Procs /\ t \notin Calls /\ TypeOK
  BY SessionsAssumption DEF Procs, IInv
<1>2. PICK f \in Flight : f = flight[t]
  BY <1>1, FlightOf
<1>3. f.pc = "rotate" /\ f.op = "refresh" /\ Carries(t, f.row) /\ f.acc # None
  BY <1>2 DEF refreshRotate, Peace, TabPeace
<1>4. PICK r : r = f.row
  OBVIOUS
<1>5. /\ r \in DOMAIN tokens /\ r \in TokenIds /\ t \in presented[r]
      /\ ~tokens[r].used /\ ~tokens[r].revoked
  BY <1>1, <1>3, <1>4, IdsOfTokens DEF Carries, Fresh, Peace
<1>6. Claimable(f.row)
  BY <1>4, <1>5 DEF Claimable, Live, Undisturbed
<1>7. PICK row \in Token : row = tokens[r]
  BY <1>1, <1>5, IdsOfTokens
<1>8. PICK u \in Token : /\ u = UsedRow(row) /\ u.used
                         /\ u.family = row.family /\ u.revoked = row.revoked
  BY UsedRowOK
<1>9. PICK s \in Token : /\ s = Successor(row, f) /\ ~s.used
                         /\ s.family = row.family /\ s.revoked = row.revoked
  BY SuccessorOK
<1>10. PICK T : T = [tokens EXCEPT ![r] = u]
  OBVIOUS
<1>11. PICK n : n = Len(tokens) + 1
  OBVIOUS
<1>12. /\ tokens' = Append(T, s) /\ Len(tokens) < MaxTokens
       /\ Respond(t, TRUE, refreshCookies(TRUE, n, f.acc))
  BY <1>2, <1>4, <1>6, <1>7, <1>8, <1>9, <1>10, <1>11, Zenon DEF refreshRotate, UsedRow
<1>13. /\ T \in Seq(Token) /\ Len(T) = Len(tokens)
       /\ \A i \in DOMAIN tokens : T[i] = IF i = r THEN u ELSE tokens[i]
  <2>1. tokens \in Seq(Token)
    BY <1>1 DEF TypeOK
  <2> QED
    BY <1>5, <1>10, <2>1
<1>14. /\ n \in TokenIds
       /\ DOMAIN tokens' = DOMAIN tokens \cup {n} /\ n \notin DOMAIN tokens
       /\ \A i \in DOMAIN tokens : tokens'[i] = T[i]
       /\ tokens'[n] = s
  BY <1>1, <1>11, <1>12, <1>13, AppendedOK
<1>15. \A i \in DOMAIN tokens : tokens'[i] = IF i = r THEN u ELSE tokens[i]
  BY <1>13, <1>14
<1>16. UNCHANGED <<presented, cookies>> /\ approved' = approved
  BY DEF refreshRotate, world
<1>17. TableStep(r, 0)
  BY <1>7, <1>8, <1>14, <1>15, <1>16 DEF TableStep
<1>18. PICK jar \in Jar : /\ jar = refreshCookies(TRUE, n, f.acc)
                          /\ jar.tok = n /\ jar.acc = f.acc
  <2>1. n \in 0..MaxTokens /\ f.acc \in Contexts \cup {None}
    BY <1>14, Bounds DEF Flight, TokenIds
  <2>2. refreshCookies(TRUE, n, f.acc).acc = f.acc
    BY DEF refreshCookies
  <2>3. PICK jar \in Jar : jar = refreshCookies(TRUE, n, f.acc) /\ jar.tok = n
    BY <2>1, Jars
  <2> QED
    BY <2>2, <2>3
<1>19. PICK g : g = Answered(f, TRUE, jar)
  OBVIOUS
<1>20. flight' = [flight EXCEPT ![t] = g]
  BY <1>2, <1>12, <1>18, <1>19, Zenon DEF Respond, Goto
<1>21. g.op = "refresh" /\ g.pc = "answered" /\ g.ok = TRUE /\ g.set = jar
  <2>1. jar \in {Keep} \cup Jar \cup [acc : Contexts \cup {None}]
    OBVIOUS
  <2>2. PICK ok \in BOOLEAN : ok = TRUE
    OBVIOUS
  <2>3. g = Answered(f, ok, jar)
    BY <1>19, <2>2
  <2>4. g.op = f.op /\ g.pc = "answered" /\ g.ok = ok /\ g.set = jar
    BY <2>1, <2>3, AnsweredOK
  <2> QED
    BY <1>3, <2>2, <2>4
<1>22. /\ flight'[t] = g /\ Brings(g.set)'
       /\ \A q \in Procs : q # t => Same(q)
       /\ \A v \in Tabs : v # t => TabPeace(v)'
       /\ \A d \in Calls : d # t => CallPeace(d)'
       /\ AnswersApart'
  <2>1. /\ g.set \in Jar /\ g.set.tok = n /\ g.set.acc # None
        /\ n \in DOMAIN tokens' /\ ~tokens'[n].used
        /\ r = 0 \/ (r \in TokenIds /\ t \in presented[r])
    BY <1>3, <1>5, <1>9, <1>14, <1>18, <1>21
  <2> QED
    BY <1>1, <1>14, <1>16, <1>17, <1>20, <2>1, NewAnswer
<1>23. TabPeace(t)'
  BY <1>21, <1>22 DEF TabPeace
<1>24. NoneRevoked'
  BY <1>5, <1>7, <1>8, <1>9, <1>14, <1>15 DEF NoneRevoked, Peace
<1>25. CookiePeace'
  <2>1. cookies' = cookies /\ CookiePeace /\ presented' = presented
    BY <1>16 DEF Peace
  <2>2. CASE cookies.tok = r
    <3>1. presented[r] = {t}
      BY <1>5, PresentedOnce
    <3>2. tokens'[g.set.tok].family = tokens'[r].family
      <4>1. g.set.tok = n /\ tokens'[n] = s /\ tokens'[r] = u
        BY <1>5, <1>14, <1>15, <1>18, <1>21
      <4>2. s.family = u.family
        BY <1>8, <1>9
      <4> QED
        BY <4>1, <4>2
    <3>3. Replaces(t)'
      BY <1>21, <1>22, <2>1, <2>2, <3>2 DEF Replaces
    <3> QED
      BY <1>5, <1>14, <2>1, <2>2, <3>1, <3>3 DEF CookiePeace
  <2>3. CASE cookies.tok # r
    <3>1. cookies.tok \in TokenIds /\ cookies.tok \notin {r, 0}
      BY <1>1, <2>1, <2>3, IdsOfTokens DEF CookiePeace
    <3>2. t \notin presented[cookies.tok]
      BY <1>2, <1>3, <1>4, <2>1, <2>3 DEF CookiePeace, Replaces
    <3>3. presented[cookies.tok] \subseteq Procs
      BY <1>1, <3>1 DEF TypeOK, Procs
    <3>4. \A v \in presented[cookies.tok] : Same(v) \/ Replaces(v)'
      BY <1>22, <3>2, <3>3
    <3>5. \A v \in Tabs : TabPeace(v)
      BY DEF Peace
    <3> QED
      BY <1>1, <1>17, <2>1, <3>1, <3>4, <3>5, CookieStaysCalm
  <2> QED
    BY <2>2, <2>3
<1>26. \A v \in Tabs : TabPeace(v)'
  BY <1>22, <1>23
<1>27. \A d \in Calls : CallPeace(d)'
  BY <1>1, <1>22
<1> QED
  BY <1>16, <1>22, <1>24, <1>25, <1>26, <1>27 DEF Peace, NoneRevoked

\* A sign-in brings the first token of a new family.
LEMMA CreateSessionPeace ==
    ASSUME IInv, HistoryOK, Undisturbed, Peace, NEW c \in Calls, createSessionForUser(c)
    PROVE  Peace'
<1>1. c \in Procs /\ c \notin Tabs /\ TypeOK
  BY SessionsAssumption DEF Procs, IInv
<1>2. PICK f \in Flight : f = flight[c] /\ f.op = "login"
  BY PeacefulCall DEF createSessionForUser, Peace, CallPeace
<1>3. Len(tokens) < MaxTokens /\ Len(tokens) \in Nat
  BY <1>1, IdsOfTokens DEF createSessionForUser
<1>4. PICK n : n = Len(tokens) + 1
  OBVIOUS
<1>5. PICK root \in issueAccessToken(None) :
         /\ tokens' = Append(tokens, [family |-> n, root |-> StoredRoot(root),
                                      used |-> FALSE, revoked |-> FALSE,
                                      pw |-> f.pw, missed |-> f.late])
         /\ Respond(c, TRUE, loginCookies(n, root))
  BY <1>2, <1>4, Zenon DEF createSessionForUser
<1>6. root \in Contexts /\ root # None
  BY <1>1, Bounds DEF issueAccessToken, resolveUniversityContext, TypeOK, Contexts
<1>7. PICK s : s = [family |-> n, root |-> StoredRoot(root), used |-> FALSE,
                    revoked |-> FALSE, pw |-> f.pw, missed |-> f.late]
  OBVIOUS
<1>8. n \in TokenIds /\ n \in 0..MaxTokens
  BY <1>3, <1>4, Bounds DEF TokenIds
<1>9. StoredRoot(root) \in Roots \cup {None}
  BY <1>6 DEF StoredRoot, Contexts
<1>10. s \in Token /\ ~s.used /\ ~s.revoked
  BY <1>7, <1>8, <1>9 DEF Token, Flight
<1>11. tokens \in Seq(Token) /\ tokens' = Append(tokens, s)
  BY <1>1, <1>5, <1>7 DEF TypeOK
<1>12. /\ DOMAIN tokens' = DOMAIN tokens \cup {n} /\ n \notin DOMAIN tokens
       /\ \A i \in DOMAIN tokens : tokens'[i] = tokens[i]
       /\ tokens'[n] = s
  BY <1>1, <1>3, <1>4, <1>10, <1>11, AppendedOK
<1>13. UNCHANGED <<presented, cookies>> /\ approved' = approved
  BY DEF createSessionForUser, world
<1>14. TableStep(0, 0)
  BY <1>12, <1>13 DEF TableStep
<1>15. PICK jar \in Jar : jar = loginCookies(n, root) /\ jar.tok = n /\ jar.acc = root
  <2>1. loginCookies(n, root).acc = root
    BY DEF loginCookies
  <2>2. PICK jar \in Jar : jar = loginCookies(n, root) /\ jar.tok = n
    BY <1>6, <1>8, Jars
  <2> QED
    BY <2>1, <2>2
<1>16. PICK g : g = Answered(f, TRUE, jar)
  OBVIOUS
<1>17. flight' = [flight EXCEPT ![c] = g]
  BY <1>2, <1>5, <1>15, <1>16, Zenon DEF Respond, Goto
<1>18. g.op = "login" /\ g.pc = "answered" /\ g.set = jar
  <2>1. jar \in {Keep} \cup Jar \cup [acc : Contexts \cup {None}]
    OBVIOUS
  <2>2. PICK ok \in BOOLEAN : ok = TRUE
    OBVIOUS
  <2>3. g = Answered(f, ok, jar)
    BY <1>16, <2>2
  <2>4. g.op = f.op /\ g.pc = "answered" /\ g.set = jar
    BY <2>1, <2>3, AnsweredOK
  <2> QED
    BY <1>2, <2>4
<1>19. /\ flight'[c] = g /\ Brings(g.set)'
       /\ \A q \in Procs : q # c => Same(q)
       /\ \A v \in Tabs : v # c => TabPeace(v)'
       /\ \A d \in Calls : d # c => CallPeace(d)'
       /\ AnswersApart'
  <2>1. /\ g.set \in Jar /\ g.set.tok = n /\ g.set.acc # None
        /\ n \in DOMAIN tokens' /\ ~tokens'[n].used
    BY <1>6, <1>10, <1>12, <1>15, <1>18
  <2>2. PICK r : r = 0
    OBVIOUS
  <2>3. TableStep(r, 0) /\ (r = 0 \/ (r \in TokenIds /\ c \in presented[r]))
    BY <1>14, <2>2
  <2> QED
    BY <1>1, <1>8, <1>12, <1>13, <1>17, <2>1, <2>3, NewAnswer
<1>20. CallPeace(c)'
  BY <1>18, <1>19 DEF CallPeace
<1>21. NoneRevoked'
  BY <1>10, <1>12 DEF NoneRevoked, Peace
<1>22. CookiePeace'
  <2>1. cookies' = cookies /\ CookiePeace /\ \A v \in Tabs : TabPeace(v)
    BY <1>13 DEF Peace
  <2>2. cookies.tok \in TokenIds /\ cookies.tok \notin {0, 0}
    BY <1>1, <2>1, IdsOfTokens DEF CookiePeace
  <2>3. presented[cookies.tok] \subseteq Tabs
    BY <1>1, <2>2 DEF TypeOK
  <2>4. \A v \in presented[cookies.tok] : Same(v) \/ Replaces(v)'
    BY <1>1, <1>19, <2>3 DEF Procs
  <2> QED
    BY <1>1, <1>14, <2>1, <2>2, <2>4, CookieStaysCalm
<1>23. \A v \in Tabs : TabPeace(v)'
  BY <1>1, <1>19
<1>24. \A d \in Calls : CallPeace(d)'
  BY <1>19, <1>20
<1> QED
  BY <1>13, <1>19, <1>21, <1>22, <1>23, <1>24 DEF Peace, NoneRevoked

\* A tab without a refresh under way presents the browser's token: nobody has
\* done so before, or two tabs would have presented it.
LEMMA Presents ==
    ASSUME IInv, Peace, HistoryOK', Undisturbed', NEW t \in Tabs, NEW h,
           flight[t].pc = "idle", flight'[t] = h,
           h.op = "refresh", h.pc = "sent", h.tok = cookies.tok,
           Present(t), UNCHANGED <<tokens, approved>>, cookies'.tok = cookies.tok,
           \A u \in Tabs : u # t => Same(u), \A c \in Calls : CallMoves(c)
    PROVE  Peace'
<1>1. TypeOK /\ t \notin Calls
  BY SessionsAssumption DEF IInv
<1>2. /\ CookiePeace /\ AnswersApart /\ approved = Roots
      /\ \A u \in Tabs : TabPeace(u)
      /\ \A c \in Calls : CallPeace(c)
  BY DEF Peace
<1>3. PICK k \in DOMAIN tokens : k = cookies.tok /\ k \in TokenIds /\ k # 0
  BY <1>1, <1>2, IdsOfTokens DEF CookiePeace
<1>4. presented \in [TokenIds -> SUBSET Tabs]
  BY <1>1 DEF TypeOK
<1>5. presented' = [presented EXCEPT ![k] = @ \cup {t}]
  BY <1>3 DEF Present
<1>6. /\ presented'[k] = presented[k] \cup {t}
      /\ \A i \in TokenIds : i # k => presented'[i] = presented[i]
  BY <1>3, <1>4, <1>5
<1>7. presented'[k] = {t}
  <2>1. IsFiniteSet(presented'[k]) /\ ~(Cardinality(presented'[k]) > 1)
    BY <1>3 DEF HistoryOK, Undisturbed
  <2> QED
    BY <1>6, <2>1, AtMostOne
<1>8. t \notin presented[k]
  BY <1>2, <1>3 DEF CookiePeace, Replaces
<1>9. presented[k] = {} /\ ~tokens[k].used
  BY <1>2, <1>3, <1>6, <1>7, <1>8 DEF CookiePeace
<1>10. TableStep(0, k)
  BY <1>6 DEF TableStep
<1>11. ASSUME NEW q \in Procs, Brought(q)
       PROVE  flight[q].set.tok \notin {0, k}
  BY <1>1, <1>3, <1>11, Bringing
<1>12. ASSUME NEW u \in Tabs
       PROVE  TabPeace(u)'
  <2>1. CASE u = t
    <3>1. Carries(t, k)'
      BY <1>3, <1>7, <1>9 DEF Carries, Fresh
    <3> QED
      BY <1>3, <2>1, <3>1 DEF TabPeace
  <2>2. CASE u # t
    <3>1. u \in Procs /\ Same(u) /\ TabPeace(u)
      BY <1>2, <2>2 DEF Procs
    <3>2. ~Carries(u, 0)
      BY <1>1, IdsOfTokens DEF Carries, Fresh
    <3>3. /\ flight[u].pc = "sent" => flight[u].tok # 0
          /\ flight[u].pc \in {"resolve", "rotate"} => flight[u].row # 0
      BY <3>1, <3>2 DEF TabPeace
    <3>4. Brought(u) => flight[u].set.tok \notin {0, k}
      BY <1>11, <3>1
    <3> QED
      BY <1>1, <1>10, <3>1, <3>3, <3>4, TabStaysCalm
  <2> QED
    BY <2>1, <2>2
<1>13. ASSUME NEW c \in Calls
       PROVE  CallPeace(c)'
  <2> SUFFICES ASSUME Same(c) PROVE CallPeace(c)'
    BY DEF CallMoves
  <2>1. c \in Procs /\ CallPeace(c)
    BY <1>2 DEF Procs
  <2>2. Brought(c) => flight[c].set.tok \notin {0, k}
    BY <1>11, <2>1
  <2> QED
    BY <1>1, <1>10, <2>1, <2>2, CallStaysCalm
<1>14. CookiePeace'
  <2>1. Replaces(t)'
    BY DEF Replaces
  <2> QED
    BY <1>3, <1>7, <1>9, <2>1 DEF CookiePeace
<1>15. AnswersApart'
  <2>1. \A q \in Procs : Unbrought(q)
    <3> TAKE q \in Procs
    <3>1. CASE q = t
      BY <3>1 DEF Unbrought, Brought
    <3>2. CASE q # t
      <4>1. Same(q) \/ ~Brought(q)'
        BY <3>2 DEF CallMoves, Procs
      <4> QED
        BY <4>1, SameUnbrought DEF Unbrought
    <3> QED
      BY <3>1, <3>2
  <2> QED
    BY <1>2, <2>1, ApartStays
<1> QED
  BY <1>2, <1>12, <1>13, <1>14, <1>15 DEF Peace

LEMMA RefreshIsSent ==
    ASSUME IInv
    PROVE  /\ performRefresh \in Flight
           /\ performRefresh.op = "refresh" /\ performRefresh.pc = "sent"
           /\ performRefresh.tok = cookies.tok
<1>1. PICK jar \in Jar : jar = cookies
  BY CookiesOK
<1>2. "refresh" \in Requests /\ None \in Roots \cup {None} /\ 0 \in Nat
  BY DEF Requests
<1>3. PICK h : h = Send("refresh", None, 0, jar)
  OBVIOUS
<1>4. h \in Flight /\ h.op = "refresh" /\ h.pc = "sent"
  BY <1>2, <1>3, SentOK
<1>5. h.tok = jar.tok
  BY <1>2, <1>3, SentCarries
<1>6. performRefresh = h
  BY <1>1, <1>3, Zenon DEF performRefresh
<1> QED
  BY <1>1, <1>4, <1>5, <1>6

LEMMA RestoreSessionPeace ==
    ASSUME IInv, Peace, HistoryOK', Undisturbed', NEW t \in Tabs, restoreSession(t)
    PROVE  Peace'
<1>1. t \in Procs /\ t \notin Calls /\ TypeOK
  BY SessionsAssumption DEF Procs, IInv
<1>2. PICK h : /\ h = performRefresh /\ h.op = "refresh" /\ h.pc = "sent"
               /\ h.tok = cookies.tok
  BY RefreshIsSent
<1>3. flight' = [flight EXCEPT ![t] = h]
  BY <1>2, Zenon DEF restoreSession, refreshSession
<1>4. flight'[t] = h /\ \A q \in Procs : q # t => Same(q)
  BY <1>1, <1>3, FlightSame
<1>5. (\A u \in Tabs : u # t => Same(u)) /\ \A c \in Calls : CallMoves(c)
  BY <1>1, <1>4 DEF CallMoves, Procs
<1>6. flight[t].pc = "idle" /\ Present(t) /\ UNCHANGED <<tokens, approved>>
      /\ cookies'.tok = cookies.tok
  BY DEF restoreSession
<1> QED
  BY <1>2, <1>4, <1>5, <1>6, Presents

\* What an answer does to the cookie of the refresh token.
LEMMA SetToken ==
    ASSUME TypeOK, NEW set \in {Keep} \cup Jar \cup [acc : Contexts \cup {None}],
           setCookies(set)
    PROVE  /\ set \in Jar => cookies'.tok = set.tok
           /\ set \notin Jar => cookies'.tok = cookies.tok
<1>1. cookies \in [tok : 0..MaxTokens, acc : Contexts \cup {None}]
  BY DEF TypeOK, Jar
<1>2. DOMAIN cookies = {"tok", "acc"}
  BY <1>1
<1>3. cookies' = [k \in {"tok", "acc"} |-> IF k \in DOMAIN set THEN set[k] ELSE cookies[k]]
  BY <1>2 DEF setCookies
<1>4. cookies'.tok = IF "tok" \in DOMAIN set THEN set.tok ELSE cookies.tok
  BY <1>3
<1>5. CASE set \in Jar
  <2>1. "tok" \in DOMAIN set
    BY <1>5 DEF Jar
  <2> QED
    BY <1>4, <1>5, <2>1
<1>6. CASE set \notin Jar
  <2>1. "tok" \notin DOMAIN set
    BY <1>6 DEF Keep
  <2> QED
    BY <1>4, <1>6, <2>1
<1> QED
  BY <1>5, <1>6

\* The browser takes the token that the answer of p brings.
LEMMA Takes ==
    ASSUME IInv, Peace, NEW p \in Procs, Brought(p), ~Brought(p)',
           cookies'.tok = flight[p].set.tok, UNCHANGED <<tokens, presented, approved>>,
           \A u \in Tabs : Same(u) \/ (TabPeace(u)' /\ ~Brought(u)'),
           \A c \in Calls : CallMoves(c)
    PROVE  Peace'
<1>1. TypeOK
  BY DEF IInv
<1>2. /\ AnswersApart /\ approved = Roots
      /\ \A u \in Tabs : TabPeace(u)
      /\ \A c \in Calls : CallPeace(c)
  BY DEF Peace
<1>3. TableStep(0, 0)
  BY TableRests
<1>4. ASSUME NEW q \in Procs, Brought(q)
      PROVE  flight[q].set.tok \notin {0, 0}
  BY <1>1, <1>4, Bringing
<1>5. ASSUME NEW u \in Tabs
      PROVE  TabPeace(u)'
  <2> SUFFICES ASSUME Same(u) PROVE TabPeace(u)'
    OBVIOUS
  <2>1. ~Carries(u, 0) /\ u \in Procs
    BY <1>1, IdsOfTokens DEF Carries, Fresh, Procs
  <2>2. /\ flight[u].pc = "sent" => flight[u].tok # 0
        /\ flight[u].pc \in {"resolve", "rotate"} => flight[u].row # 0
    BY <1>2, <2>1 DEF TabPeace
  <2>3. Brought(u) => flight[u].set.tok \notin {0, 0}
    BY <1>4, <2>1
  <2> QED
    BY <1>1, <1>2, <1>3, <2>2, <2>3, TabStaysCalm
<1>6. ASSUME NEW c \in Calls
      PROVE  CallPeace(c)'
  <2> SUFFICES ASSUME Same(c) PROVE CallPeace(c)'
    BY DEF CallMoves
  <2>1. Brought(c) => flight[c].set.tok \notin {0, 0}
    BY <1>4 DEF Procs
  <2> QED
    BY <1>1, <1>2, <1>3, <2>1, CallStaysCalm
<1>7. CookiePeace'
  <2>1. PICK set : set = flight[p].set
    OBVIOUS
  <2>2. Brings(set)
    BY <1>1, <2>1, Bringing
  <2>3. Brings(set)' /\ set \in Jar
    BY <2>2 DEF Brings, Fresh
  <2> QED
    BY <2>1, <2>3, CookieTaken
<1>8. AnswersApart'
  <2>1. \A q \in Procs : Unbrought(q)
    <3> TAKE q \in Procs
    <3>1. Same(q) \/ ~Brought(q)'
      BY DEF CallMoves, Procs
    <3> QED
      BY <3>1, SameUnbrought DEF Unbrought
  <2> QED
    BY <1>2, <2>1, ApartTakes
<1>9. NoneRevoked'
  BY DEF Peace, NoneRevoked
<1> QED
  BY <1>2, <1>5, <1>6, <1>7, <1>8, <1>9 DEF Peace, NoneRevoked

LEMMA HarmlessIdle == Harmless(Idle)
  BY IdleOK DEF Harmless

\* A call waits for the refresh of its tab, and starts it if there is none.
LEMMA WaitPeace ==
    ASSUME IInv, Peace, HistoryOK', Undisturbed', NEW c \in Calls, answerCall(c),
           Refreshes(c),
           flight' = refreshSession(TabOf[c],
                         [flight EXCEPT ![c] = [flight[c] EXCEPT !.pc = "waiting"]]),
           Present(TabOf[c])
    PROVE  Peace'
<1>1. PICK t \in Tabs : t = TabOf[c]
  BY SessionsAssumption
<1>2. c \in Procs /\ t \in Procs /\ c # t /\ c \notin Tabs /\ flight \in [Procs -> Flight]
      /\ TypeOK
  BY SessionsAssumption DEF Procs, IInv, TypeOK
<1>3. PICK f \in Flight : /\ f = flight[c] /\ f.op \in {"me", "switch"} /\ ~f.again
                          /\ f.pc = "answered" /\ f.set \notin Jar
  <2>1. flight[c].op \in {"me", "switch"} /\ ~flight[c].again /\ flight[c].pc = "answered"
    BY DEF Refreshes, answerCall
  <2> QED
    BY <1>2, <2>1 DEF Peace, CallPeace
<1>4. cookies'.tok = cookies.tok
  <2>1. setCookies(f.set) /\ f.set \in {Keep} \cup Jar \cup [acc : Contexts \cup {None}]
    BY <1>3 DEF answerCall, Flight
  <2> QED
    BY <1>2, <1>3, <2>1, SetToken
<1>5. PICK g : g = Moved(f, "waiting")
  OBVIOUS
<1>6. Harmless(g)
  <2>1. "waiting" \in Pcs
    BY DEF Pcs
  <2>2. g \in Flight /\ g.pc = "waiting" /\ g.op = f.op /\ g.again = f.again
    BY <1>5, <2>1, MovedOK
  <2> QED
    BY <1>3, <2>2 DEF Harmless
<1>7. PICK h : /\ h = performRefresh /\ h.op = "refresh" /\ h.pc = "sent"
               /\ h.tok = cookies.tok
  BY RefreshIsSent
<1>8. PICK w : w = [flight EXCEPT ![c] = g]
  OBVIOUS
<1>9. flight' = IF w[t].pc = "idle" THEN [w EXCEPT ![t] = h] ELSE w
  BY <1>1, <1>3, <1>5, <1>7, <1>8, Zenon DEF refreshSession, Moved
<1>10. /\ DOMAIN w = Procs
       /\ \A p \in Procs : w[p] = IF p = c THEN g ELSE flight[p]
  BY <1>2, <1>8
<1>11. UNCHANGED <<tokens, approved>>
  BY DEF answerCall, world
<1>12. CASE flight[t].pc = "idle"
  <2>1. flight' = [w EXCEPT ![t] = h]
    BY <1>2, <1>9, <1>10, <1>12
  <2>2. /\ flight'[t] = h /\ flight'[c] = g
        /\ \A q \in Procs : q # t /\ q # c => flight'[q] = flight[q]
    BY <1>2, <1>10, <2>1
  <2>3. CallPeace(c)' /\ ~Brought(c)'
    BY <1>6, <2>2 DEF CallPeace, Brought, Harmless
  <2>4. \A q \in Procs : q # t /\ q # c => Same(q)
    BY <2>2 DEF Same
  <2>5. \A u \in Tabs : u # t => Same(u)
    BY <1>2, <2>4 DEF Procs
  <2>6. t \notin Calls
    BY SessionsAssumption
  <2>7. \A d \in Calls : CallMoves(d)
    BY <2>3, <2>4, <2>6 DEF CallMoves, Procs
  <2> QED
    BY <1>1, <1>4, <1>7, <1>11, <1>12, <2>2, <2>5, <2>7, Presents
<1>13. CASE flight[t].pc # "idle"
  <2>1. Goto(c, g)
    BY <1>2, <1>8, <1>9, <1>10, <1>13 DEF Goto
  <2>2. presented' = presented
    BY <1>1, <1>13 DEF Present
  <2> QED
    BY <1>4, <1>6, <1>11, <2>1, <2>2, CallGoes
<1> QED
  BY <1>12, <1>13

LEMMA AnswerCallPeace ==
    ASSUME IInv, Peace, HistoryOK', Undisturbed', NEW c \in Calls, answerCall(c)
    PROVE  Peace'
<1>1. c \in Procs /\ c \notin Tabs /\ TypeOK
  BY SessionsAssumption DEF Procs, IInv
<1>2. PICK f \in Flight : f = flight[c] /\ f.pc = "answered"
  BY <1>1, FlightOf DEF answerCall
<1>3. UNCHANGED <<tokens, approved>>
  BY DEF answerCall, world
<1>4. PICK set \in {Keep} \cup Jar \cup [acc : Contexts \cup {None}] :
         set = f.set /\ setCookies(set)
  BY <1>2 DEF answerCall, Flight
<1>5. CASE /\ Refreshes(c)
           /\ flight' = refreshSession(TabOf[c],
                  [flight EXCEPT ![c] = [flight[c] EXCEPT !.pc = "waiting"]])
           /\ Present(TabOf[c])
  BY <1>5, WaitPeace, Zenon
<1>6. CASE ~Refreshes(c) /\ flight[c].op = "me" /\ ~flight[c].ok
  BY <1>2, <1>6, PeacefulCall DEF Refreshes
<1>7. CASE Goto(c, Idle) /\ UNCHANGED presented
  <2>1. PICK g : g = Idle /\ Harmless(g) /\ g.pc = "idle"
    BY HarmlessIdle, IdleOK
  <2>2. Goto(c, g)
    BY <1>7, <2>1, Zenon
  <2>3. CASE set \notin Jar
    <3>1. cookies'.tok = cookies.tok
      BY <1>1, <1>4, <2>3, SetToken
    <3> QED
      BY <1>3, <1>7, <2>1, <2>2, <3>1, CallGoes
  <2>4. CASE set \in Jar
    <3>1. flight'[c] = g /\ \A q \in Procs : q # c => Same(q)
      <4>1. flight' = [flight EXCEPT ![c] = g]
        BY <2>2, Zenon DEF Goto
      <4> QED
        BY <1>1, <4>1, FlightSame
    <3>2. Brought(c) /\ ~Brought(c)' /\ cookies'.tok = flight[c].set.tok
      <4>1. cookies'.tok = set.tok
        BY <1>1, <1>4, <2>4, SetToken
      <4> QED
        BY <1>2, <1>4, <2>1, <2>4, <3>1, <4>1 DEF Brought
    <3>3. CallPeace(c)'
      BY <2>1, <3>1 DEF CallPeace, Harmless
    <3>4. \A u \in Tabs : Same(u) \/ (TabPeace(u)' /\ ~Brought(u)')
      BY <1>1, <3>1 DEF Procs
    <3>5. \A d \in Calls : CallMoves(d)
      BY <3>1, <3>2, <3>3 DEF CallMoves, Procs
    <3> QED
      BY <1>1, <1>3, <1>7, <3>2, <3>4, <3>5, Takes
  <2> QED
    BY <2>3, <2>4
<1> QED
  BY <1>5, <1>6, <1>7, Zenon DEF answerCall

\* The calls that waited are sent again with the new access token.
LEMMA AnswerRefreshPeace ==
    ASSUME IInv, Peace, NEW t \in Tabs, answerRefresh(t)
    PROVE  Peace'
<1>1. t \in Procs /\ t \notin Calls /\ TypeOK
  BY SessionsAssumption DEF Procs, IInv
<1>2. PICK f \in Flight : /\ f = flight[t] /\ f.pc = "answered" /\ f.ok = TRUE
                          /\ Brings(f.set)
  <2>1. flight[t] \in Flight /\ TabPeace(t) /\ flight[t].pc = "answered"
    BY <1>1, FlightOf DEF Peace, answerRefresh
  <2> QED
    BY <2>1 DEF TabPeace, Flight
<1>3. PICK set \in Jar : set = f.set /\ set.acc # None
  BY <1>2 DEF Brings
<1>4. flight' = Resend(t, set, TRUE) /\ setCookies(set)
  BY <1>2, <1>3, Zenon DEF answerRefresh
<1>5. cookies'.tok = flight[t].set.tok /\ Brought(t)
  <2>1. cookies'.tok = set.tok
    BY <1>1, <1>3, <1>4, SetToken
  <2> QED
    BY <1>2, <1>3, <2>1 DEF Brought
<1>6. flight'[t] = Idle
  BY <1>1, <1>4 DEF Resend
<1>7. TabPeace(t)' /\ ~Brought(t)'
  <2>1. PICK g : g = Idle /\ g.pc = "idle"
    BY IdleOK
  <2>2. flight'[t] = g
    BY <1>6, <2>1
  <2> QED
    BY <2>1, <2>2 DEF TabPeace, Brought
<1>8. \A q \in Procs : q # t /\ q \notin Waiting(t) => Same(q)
  BY <1>4 DEF Resend, Same
<1>9. \A u \in Tabs : u \notin Waiting(t)
  BY SessionsAssumption DEF Waiting
<1>10. \A u \in Tabs : Same(u) \/ (TabPeace(u)' /\ ~Brought(u)')
  BY <1>7, <1>8, <1>9 DEF Procs
<1>11. ASSUME NEW c \in Calls, c \in Waiting(t)
       PROVE  CallPeace(c)' /\ ~Brought(c)'
  <2>1. c \in Procs /\ c # t
    BY <1>1 DEF Procs
  <2>2. PICK e \in Flight : e = flight[c] /\ e.op \in {"me", "switch"}
    BY <1>11, <2>1, FlightOf DEF Waiting, CallOK
  <2>3. PICK op \in Requests, root \in Roots \cup {None} : op = e.op /\ root = e.root
    BY <2>2 DEF Requests, Flight
  <2>4. PICK h : h = Send(op, root, 0, set)
    OBVIOUS
  <2>5. 0 \in Nat
    OBVIOUS
  <2>6. h \in Flight /\ h.op = op /\ h.pc = "sent"
    BY <2>4, <2>5, SentOK
  <2>7. op = "me" => h.acc = set.acc
    BY <2>4, <2>5, SentCarries
  <2>8. PICK g : g = Again(h, TRUE)
    OBVIOUS
  <2>9. g \in Flight /\ g.pc = h.pc /\ g.op = h.op /\ g.acc = h.acc
    BY <2>6, <2>8, AgainOK
  <2>10. flight'[c] = g
    BY <1>4, <1>11, <2>1, <2>2, <2>3, <2>4, <2>8, Zenon DEF Resend, Again
  <2>11. Harmless(g)
    BY <1>3, <2>2, <2>3, <2>6, <2>7, <2>9 DEF Harmless
  <2> QED
    BY <2>10, <2>11 DEF CallPeace, Brought, Harmless
<1>12. \A c \in Calls : CallMoves(c)
  BY <1>1, <1>8, <1>11 DEF CallMoves, Procs
<1>13. UNCHANGED <<tokens, presented, approved>>
  BY DEF answerRefresh, tables, world
<1> QED
  BY <1>1, <1>5, <1>7, <1>10, <1>12, <1>13, Takes

\* The expiry of the access cookie and the aging of a link disturb nobody.
LEMMA TimePeace ==
    ASSUME IInv, Peace, UNCHANGED <<tokens, presented, approved, flight>>,
           cookies'.tok = cookies.tok
    PROVE  Peace'
<1>1. \A q : Same(q)
  BY DEF Same
<1>2. (\A t \in Tabs : TabMoves(t)) /\ \A c \in Calls : CallMoves(c)
  BY <1>1 DEF TabMoves, CallMoves
<1>3. NoneRevoked'
  BY DEF Peace, NoneRevoked
<1> QED
  BY <1>2, <1>3, TableRests, PeaceMoves DEF IInv

\* What a step does to the histories: it only adds to them.
Grows ==
    /\ causes \subseteq causes' /\ lapsed \subseteq lapsed'
    /\ password' = password \/ password' = password + 1
    /\ lost' = lost \/ lost' = lost + 1
    /\ DOMAIN tokens \subseteq DOMAIN tokens'
    /\ presented' = presented \/ \E t \in Tabs : Present(t)

LEMMA RestGrows ==
    ASSUME UNCHANGED <<tables, cookies, world>> \/ UNCHANGED <<tables, world>>
           \/ UNCHANGED vars
    PROVE  Grows
  BY DEF Grows, tables, world, vars

LEMMA CallsGrow ==
    ASSUME IInv, NEW c \in Calls,
           \/ loadCurrentUser(c) \/ handleLogout(c) \/ submitLogin(c)
           \/ submitForgotPassword(c)
           \/ \E root \in Roots : selectUniversity(c, root)
           \/ \E i \in LinkIds : submitResetPassword(c, i)
           \/ answerCall(c)
    PROVE  Grows
<1>1. ASSUME NEW g, NEW why, Start(c, g, why) PROVE Grows
  BY <1>1 DEF Start, tables, Grows
<1>2. CASE answerCall(c)
  <2>1. TabOf[c] \in Tabs
    BY SessionsAssumption
  <2>2. presented' = presented \/ Present(TabOf[c])
    BY <1>2 DEF answerCall
  <2>3. UNCHANGED <<password, tokens, lapsed, lost, causes>>
    BY <1>2 DEF answerCall, world
  <2> QED
    BY <2>1, <2>2, <2>3 DEF Grows
<1> QED
  BY <1>1, <1>2, Zenon DEF loadCurrentUser, handleLogout, submitLogin, submitForgotPassword,
       selectUniversity, submitResetPassword

LEMMA ServeGrows ==
    ASSUME IInv, NEW p \in Procs, ServeCall(p) \/ ServeRefresh(p)
    PROVE  Grows
<1>1. tokens \in Seq(Token)
  BY DEF IInv, TypeOK
<1>2. CASE \/ loginCheck(p) \/ logout(p) \/ me(p) \/ revokeSnapshot(p)
           \/ switchCheck(p) \/ switchSnapshot(p) \/ forgotCheck(p) \/ forgotSnapshot(p)
           \/ resetCheck(p) \/ resetClaim(p) \/ refreshRead(p) \/ refreshResolve(p)
  <2>1. UNCHANGED <<tables, cookies, world>>
    BY <1>2 DEF loginCheck, logout, me, revokeSnapshot, switchCheck, switchSnapshot,
         forgotCheck, forgotSnapshot, resetCheck, resetClaim, refreshRead, refreshResolve
  <2> QED
    BY <2>1, RestGrows
<1>3. CASE createSessionForUser(p)
  <2>1. PICK s : tokens' = Append(tokens, s)
    BY <1>3, Zenon DEF createSessionForUser
  <2>2. DOMAIN tokens \subseteq DOMAIN tokens'
    BY <1>1, <2>1
  <2>3. UNCHANGED <<password, presented, lapsed, lost, causes>>
    BY <1>3 DEF createSessionForUser, world
  <2> QED
    BY <2>2, <2>3 DEF Grows
<1>4. CASE refreshRotate(p)
  <2>1. UNCHANGED <<password, presented, lapsed, lost, causes>>
    BY <1>4 DEF refreshRotate, world
  <2>2. DOMAIN tokens \subseteq DOMAIN tokens'
    <3>1. tokens' = tokens \/ \E r, u, s : tokens' = Append([tokens EXCEPT ![r] = u], s)
      BY <1>4, Zenon DEF refreshRotate
    <3>2. ASSUME NEW r, NEW u, NEW s, tokens' = Append([tokens EXCEPT ![r] = u], s)
          PROVE  DOMAIN tokens \subseteq DOMAIN tokens'
      <4>1. PICK T : T = [tokens EXCEPT ![r] = u]
        OBVIOUS
      <4>2. DOMAIN T = 1..Len(tokens) /\ Len(tokens) \in Nat /\ DOMAIN tokens = 1..Len(tokens)
        BY <1>1, <4>1
      <4>3. Len(T) = Len(tokens)
        BY <4>2
      <4>4. tokens' = Append(T, s)
        BY <3>2, <4>1
      <4> QED
        BY <4>2, <4>3, <4>4
    <3> QED
      BY <3>1, <3>2
  <2> QED
    BY <2>1, <2>2 DEF Grows
<1>5. CASE revokeRefreshTokenFamily(p) \/ switchApply(p)
  <2>1. UNCHANGED <<password, presented, lapsed, lost, causes>>
    BY <1>5 DEF revokeRefreshTokenFamily, switchApply, world
  <2>2. DOMAIN tokens' = DOMAIN tokens
    BY <1>5 DEF revokeRefreshTokenFamily, switchApply
  <2> QED
    BY <2>1, <2>2 DEF Grows
<1>6. CASE forgotCommit(p)
  BY <1>6 DEF forgotCommit, world, Grows
<1>7. CASE resetCommit(p)
  <2>1. UNCHANGED <<presented, lapsed, lost, causes>> /\ password' = password + 1
    BY <1>7 DEF resetCommit, world
  <2>2. DOMAIN tokens' = DOMAIN tokens
    BY <1>7 DEF resetCommit
  <2> QED
    BY <2>1, <2>2 DEF Grows
<1> QED
  BY <1>2, <1>3, <1>4, <1>5, <1>6, <1>7 DEF ServeCall, ServeRefresh

LEMMA NextGrows ==
    ASSUME IInv, [Next]_vars
    PROVE  Grows
<1>1. CASE UNCHANGED vars
  BY <1>1, RestGrows
<1>2. ASSUME NEW p \in Procs, answerLost(p) PROVE Grows
  BY <1>2 DEF answerLost, tables, Grows
<1>3. ASSUME NEW t \in Tabs, restoreSession(t) PROVE Grows
  BY <1>3 DEF restoreSession, Grows
<1>4. ASSUME NEW t \in Tabs, answerRefresh(t) PROVE Grows
  BY <1>4, RestGrows DEF answerRefresh
<1>5. CASE accessExpires \/ (\E f \in TokenIds : familyLapses(f))
           \/ (\E now \in SUBSET Roots : membershipChanges(now))
  BY <1>5 DEF accessExpires, familyLapses, membershipChanges, tables, Grows
<1>6. CASE \E i \in LinkIds : linkAges(i)
  BY <1>6 DEF linkAges, Grows
<1> QED
  BY <1>1, <1>2, <1>3, <1>4, <1>5, <1>6, CallsGrow, ServeGrows DEF Next, Procs

LEMMA HistoryStays ==
    ASSUME IInv, HistoryOK, Grows
    PROVE  HistoryOK' /\ (Undisturbed' => Undisturbed)
<1>1. /\ presented \in [TokenIds -> SUBSET Tabs] /\ cookies \in Jar /\ TypeOK
      /\ cookies.tok <= Len(tokens) /\ password \in Nat
  BY DEF IInv, TypeOK
<1>2. lost' \in Nat
  BY DEF HistoryOK, Grows
<1>3. ASSUME NEW i \in TokenIds
      PROVE  /\ presented[i] \subseteq presented'[i] /\ IsFiniteSet(presented'[i])
             /\ presented'[i] # {} => i \in DOMAIN tokens'
  <2>1. CASE presented' = presented
    BY <2>1 DEF Grows, HistoryOK
  <2>2. ASSUME NEW t \in Tabs, Present(t), presented' # presented
        PROVE  /\ presented[i] \subseteq presented'[i] /\ IsFiniteSet(presented'[i])
               /\ presented'[i] # {} => i \in DOMAIN tokens'
    <3>1. /\ cookies.tok # 0
          /\ presented' = [presented EXCEPT ![cookies.tok] = @ \cup {t}]
      BY <2>2 DEF Present
    <3>2. cookies.tok \in DOMAIN tokens
      BY <1>1, <3>1, IdsOfTokens, Bounds DEF Jar
    <3>3. presented'[i] = IF i = cookies.tok THEN presented[i] \cup {t} ELSE presented[i]
      BY <1>1, <3>1
    <3>4. IsFiniteSet(presented[i]) /\ (presented[i] # {} => i \in DOMAIN tokens)
      BY DEF HistoryOK
    <3>5. IsFiniteSet(presented[i] \cup {t})
      BY <3>4, FS_AddElement
    <3> QED
      BY <3>2, <3>3, <3>4, <3>5 DEF Grows
  <2> QED
    BY <2>1, <2>2 DEF Grows
<1>4. HistoryOK'
  BY <1>2, <1>3 DEF HistoryOK
<1>5. ASSUME Undisturbed' PROVE Undisturbed
  <2>1. ASSUME NEW i \in TokenIds
        PROVE  ~(Cardinality(presented[i]) > 1)
    <3>1. PICK S : S = presented'[i]
      OBVIOUS
    <3>2. PICK R : R = presented[i]
      OBVIOUS
    <3>3. R \in SUBSET S /\ IsFiniteSet(S) /\ ~(Cardinality(S) > 1)
      BY <1>3, <1>5, <3>1, <3>2 DEF Undisturbed
    <3>4. IsFiniteSet(R) /\ Cardinality(R) <= Cardinality(S)
      BY <3>3, FS_Subset
    <3>5. Cardinality(R) \in Nat /\ Cardinality(S) \in Nat
      BY <3>3, <3>4, FS_CardinalityType
    <3> QED
      BY <3>2, <3>3, <3>4, <3>5
  <2>2. causes = {} /\ lapsed = {}
    BY <1>5 DEF Undisturbed, Grows
  <2>3. password = 0 /\ lost = 0
    BY <1>1, <1>5 DEF Undisturbed, Grows, HistoryOK
  <2> QED
    BY <2>1, <2>2, <2>3 DEF Undisturbed
<1> QED
  BY <1>4, <1>5

\* While nothing disturbs the session, no step logs out, revokes or loses a token.
LEMMA NextPeace ==
    ASSUME IInv, HistoryOK, Undisturbed, Peace, HistoryOK', Undisturbed', [Next]_vars
    PROVE  Peace'
<1>1. CASE UNCHANGED vars
  <2>1. UNCHANGED <<tokens, presented, approved, flight>> /\ cookies'.tok = cookies.tok
    BY <1>1 DEF vars
  <2> QED
    BY <2>1, TimePeace
<1>2. ASSUME NEW c \in Calls,
             \/ loadCurrentUser(c) \/ submitLogin(c) \/ submitForgotPassword(c)
             \/ \E root \in Roots : selectUniversity(c, root)
             \/ \E i \in LinkIds : submitResetPassword(c, i)
      PROVE  Peace'
  BY <1>2, SubmitPeace
<1>3. ASSUME NEW c \in Calls, handleLogout(c) PROVE FALSE
  BY <1>3 DEF handleLogout, Start, Undisturbed
<1>4. ASSUME NEW c \in Calls, ServeCall(c) PROVE Peace'
  <2>1. ~logout(c) /\ ~revokeSnapshot(c) /\ ~revokeRefreshTokenFamily(c)
    BY PeacefulCall DEF logout, revokeSnapshot, revokeRefreshTokenFamily
  <2>2. ~resetCommit(c)
    BY DEF resetCommit, Undisturbed
  <2> QED
    BY <1>4, <2>1, <2>2, LoginCheckPeace, CreateSessionPeace, MePeace, SwitchReadPeace,
       SwitchApplyPeace, ForgotPeace, ForgotCommitPeace, ResetReadPeace DEF ServeCall
<1>5. ASSUME NEW p \in Procs, answerLost(p) PROVE FALSE
  BY <1>5 DEF answerLost, Undisturbed
<1>6. ASSUME NEW t \in Tabs, ServeRefresh(t) PROVE Peace'
  <2>1. ~revokeSnapshot(t) /\ ~revokeRefreshTokenFamily(t)
    BY DEF Peace, TabPeace, revokeSnapshot, revokeRefreshTokenFamily
  <2>2. lapsed = {}
    BY DEF Undisturbed
  <2> QED
    BY <1>6, <2>1, <2>2, RefreshReadPeace, RefreshResolvePeace, RefreshRotatePeace
       DEF ServeRefresh
<1>7. ASSUME NEW t \in Tabs, restoreSession(t) PROVE Peace'
  BY <1>7, RestoreSessionPeace
<1>8. ASSUME NEW t \in Tabs, answerRefresh(t) PROVE Peace'
  BY <1>8, AnswerRefreshPeace
<1>9. ASSUME NEW c \in Calls, answerCall(c) PROVE Peace'
  BY <1>9, AnswerCallPeace
<1>10. CASE accessExpires
  <2>1. cookies \in Jar /\ cookies' = [cookies EXCEPT !.acc = None]
    BY <1>10 DEF IInv, TypeOK, accessExpires
  <2>2. cookies'.tok = cookies.tok
    BY <2>1 DEF Jar
  <2>3. UNCHANGED <<tokens, presented, approved, flight>>
    BY <1>10 DEF accessExpires, tables
  <2> QED
    BY <2>2, <2>3, TimePeace
<1>11. ASSUME NEW now \in SUBSET Roots, membershipChanges(now) PROVE FALSE
  BY <1>11 DEF membershipChanges, Undisturbed
<1>12. ASSUME NEW f \in TokenIds, familyLapses(f) PROVE FALSE
  BY <1>12 DEF familyLapses, Undisturbed
<1>13. ASSUME NEW i \in LinkIds, linkAges(i) PROVE Peace'
  <2>1. UNCHANGED <<tokens, presented, approved, flight>> /\ cookies'.tok = cookies.tok
    BY <1>13 DEF linkAges
  <2> QED
    BY <2>1, TimePeace
<1> QED
  BY <1>1, <1>2, <1>3, <1>4, <1>5, <1>6, <1>7, <1>8, <1>9, <1>10, <1>11, <1>12, <1>13
     DEF Next, Procs

LEMMA InitPeace == Init => PeaceInv
<1> SUFFICES ASSUME Init PROVE PeaceInv
  OBVIOUS
<1>1. PICK r \in Roots :
         /\ tokens = <<[family |-> 1, root |-> r, used |-> FALSE, revoked |-> FALSE,
                        pw |-> 0, missed |-> {}]>>
         /\ cookies = [tok |-> 1, acc |-> r]
  BY Zenon DEF Init
<1>2. DOMAIN tokens = {1} /\ ~tokens[1].used /\ ~tokens[1].revoked /\ cookies.tok = 1
  BY <1>1
<1>3. /\ \A i \in TokenIds : presented[i] = {}
      /\ lost = 0 /\ approved = Roots /\ 1 \in TokenIds
  BY Bounds DEF Init, TokenIds
<1>4. HistoryOK
  BY <1>3, FS_EmptySet DEF HistoryOK
<1>5. PICK g : g = Idle /\ g.pc = "idle" /\ g.op = "none"
  BY IdleOK
<1>6. \A p \in Procs : flight[p] = g
  BY <1>5 DEF Init
<1>7. (\A t \in Tabs : TabPeace(t)) /\ \A c \in Calls : CallPeace(c)
  BY <1>5, <1>6 DEF TabPeace, CallPeace, Procs
<1>8. CookiePeace
  BY <1>2, <1>3 DEF CookiePeace
<1>9. AnswersApart
  BY <1>5, <1>6 DEF AnswersApart, Brought
<1> QED
  BY <1>2, <1>3, <1>4, <1>7, <1>8, <1>9 DEF PeaceInv, Peace

\* A peaceful browser has a usable token, or the successor on its way.
LEMMA PeaceKeepsSession ==
    ASSUME IInv, HistoryOK, Undisturbed, Peace
    PROVE  SignedOutForCause
<1>1. TypeOK /\ CookiePeace /\ \A t \in Tabs : TabPeace(t)
  BY DEF IInv, Peace
<1>2. PICK k \in DOMAIN tokens : k = cookies.tok /\ k \in TokenIds /\ k # 0
  BY <1>1, IdsOfTokens DEF CookiePeace
<1>3. \A i \in DOMAIN tokens : ~tokens[i].used => Live(i)
  BY DEF Live, Peace, Undisturbed
<1>4. CASE ~tokens[k].used
  BY <1>2, <1>3, <1>4 DEF SignedOutForCause
<1>5. CASE tokens[k].used
  <2>1. PICK t \in presented[k] : Replaces(t)
    BY <1>1, <1>2, <1>5 DEF CookiePeace
  <2>2. t \in Tabs /\ TabPeace(t)
    BY <1>1, <1>2, <2>1 DEF TypeOK
  <2>3. ~Fresh(k)
    BY <1>5 DEF Fresh
  <2>4. flight[t].pc = "answered" /\ tokens[flight[t].set.tok].family = tokens[k].family
    BY <1>2, <2>1, <2>2, <2>3 DEF Replaces, TabPeace, Carries
  <2>5. Fresh(flight[t].set.tok)
    BY <2>2, <2>4 DEF TabPeace, Brings
  <2> QED
    BY <1>2, <1>3, <2>4, <2>5 DEF SignedOutForCause, Fresh
<1> QED
  BY <1>4, <1>5

\* A browser whose user did not log out, reset the password, lose a membership or
\* stay away for the whole lifetime keeps its session while no answer is lost and
\* no two of its tabs presented one token (session-api.ts, refreshSession), for any
\* number of tabs, calls and tokens.
THEOREM SignedOutOnlyForCause == Spec => []SignedOutForCause
<1>1. Init => IInv /\ PeaceInv
  BY InitIInv, InitPeace
<1>2. IInv /\ PeaceInv /\ [Next]_vars => (IInv /\ PeaceInv)'
  <2> SUFFICES ASSUME IInv, PeaceInv, [Next]_vars PROVE IInv' /\ PeaceInv'
    OBVIOUS
  <2>1. IInv' /\ HistoryOK' /\ (Undisturbed' => Undisturbed)
    BY NextIInv, NextGrows, HistoryStays DEF PeaceInv
  <2>2. Undisturbed' => Peace'
    BY <2>1, NextPeace DEF PeaceInv
  <2> QED
    BY <2>1, <2>2 DEF PeaceInv
<1>3. IInv /\ PeaceInv => SignedOutForCause
  <2> SUFFICES ASSUME IInv, PeaceInv, ~Undisturbed PROVE SignedOutForCause
    BY PeaceKeepsSession DEF PeaceInv
  <2> QED
    BY DEF Undisturbed, SignedOutForCause, PeaceInv, HistoryOK, IInv, TypeOK
<1> QED
  BY <1>1, <1>2, <1>3, PTL DEF Spec
=============================================================================
