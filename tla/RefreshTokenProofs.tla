--------------------------- MODULE RefreshTokenProofs --------------------------
(***************************************************************************)
(* Theorems about RefreshToken, for every set of browsers, requests and    *)
(* profiles and every choice of the durations.                             *)
(***************************************************************************)
EXTENDS RefreshToken, FiniteSetTheorems, TLAPS

(***************************************************************************)
(* The inductive invariant.                                                *)
(***************************************************************************)

(* Row was read from token t, or from one that t succeeds. *)
Same(row, t) ==
  /\ t \in Issued
  /\ row.profile = tokens[t].profile /\ row.mfa = tokens[t].mfa
  /\ row.root = tokens[t].root /\ row.life = tokens[t].life

(* Rows agree with their roots and successors. *)
RowAgrees(t) ==
  /\ Same(tokens[t], tokens[t].root)
  /\ tokens[t].next # NoToken => Same(tokens[t], tokens[t].next)
  /\ tokens[t].next = NoToken => tokens[t].expires = tokens[t].created + tokens[t].life
RowsAgree ==
  \A t \in Tokens : IF t \in Issued THEN RowAgrees(t) ELSE tokens[t].next = NoToken

(* The requests that may still put off the end of token t, or did not come to
   it: each puts it off by the grace time. *)
EndsInTime ==
  \A t \in Issued :
    tokens[t].next # NoToken =>
      tokens[t].expires + Grace * Cardinality(Replacing(t))
        <= tokens[t].created + tokens[t].life + Grace * Cardinality(Requests)

(* A request that uses a token has one. *)
HasToken(p) ==
  \/ pc[p] \in {"new", "done"}
  \/ req[p].refresh \in Tokens
  \/ req[p].kind = "signIn" /\ pc[p] \notin {"use", "create", "revoke"}
RequestsHaveTokens == \A p \in Requests : HasToken(p)

(* What requests have read still stands. *)
ReplacingAgrees(p) ==
  pc[p] \in {"create", "revoke"} =>
    /\ Same(req[p].found, req[p].refresh)
    /\ req[p].found.expires = req[p].found.created + req[p].found.life
    /\ pc[p] = "revoke" => Same(req[p].found, req[p].fresh)
SigningAgrees(p) ==
  pc[p] = "sign" =>
    /\ Same(req[p].found, req[p].fresh)
    /\ ~IsSessionToken(req[p].found) => req[p].found.life = DefaultLife

(* The cookies c, of a browser or of an answer, agree with their token. *)
Match(c) ==
  /\ c.refresh \in Issued
  /\ c.access = [profile |-> tokens[c.refresh].profile, groups |-> tokens[c.refresh].mfa]
  /\ c.persistent => tokens[c.refresh].life = DefaultLife
AnswerAgrees(p) == req[p].answer.does = "set" => Match(req[p].answer)

(* A request that came with a token that was signed out never uses it. *)
LateStaysOut(p) ==
  pc[p] \notin {"new", "done"} /\ req[p].late /\ req[p].kind # "signIn" =>
    /\ tokens[req[p].refresh].status = "deleted"
    /\ pc[p] \notin {"create", "revoke", "sign"}
    /\ req[p].answer.does # "set"

RequestOK(p) ==
  HasToken(p) /\ ReplacingAgrees(p) /\ SigningAgrees(p) /\ AnswerAgrees(p) /\ LateStaysOut(p)

Inv ==
  /\ TypeOK
  /\ RowsAgree
  /\ EndsInTime
  /\ \A p \in Requests : RequestOK(p)
  /\ CookiesAgree
-------------------------------------------------------------------------------
(* Type correctness. *)

LEMMA UnusedType == Unused \in Row
  BY DEF Unused, Row, AnyToken, Lives

LEMMA CookieTypes ==
  /\ NoCookies \in Cookies
  /\ Keep \in Answer
  /\ Clear \in Answer
  /\ \A b \in Browsers : Blank(b) \in Request
  BY UnusedType
     DEF NoCookies, Cookies, Keep, Clear, Answer, Blank, Request, Kinds, Anonymous, User,
         AnyToken

(* A new row is well typed. *)
LEMMA CreatedType ==
  ASSUME now \in Nat, NEW how, how.profile \in Profiles \cup {Nobody},
         how.mfa \in BOOLEAN, NEW root \in AnyToken
  PROVE  Created(how, root) \in Row
  BY ConstantsAssumption DEF Created, Row, Lives, AnyToken

LEMMA UserType ==
  ASSUME NEW how \in Users
  PROVE  how.profile \in Profiles /\ how.mfa \in BOOLEAN
  BY UsersAssumption DEF SignIns

LEMMA RevokedType ==
  ASSUME now \in Nat, NEW row \in Row, NEW new \in AnyToken
  PROVE  Revoked(row, new) \in Row
<1>1. now + Grace \in Nat
  BY ConstantsAssumption
<1>2. \A n \in Nat : [row EXCEPT !.expires = n, !.next = new] \in Row
  BY DEF Row
<1> QED
  BY <1>1, <1>2 DEF Revoked

LEMMA RemovedType ==
  ASSUME NEW row \in Row
  PROVE  Removed(row) \in Row
  BY DEF Removed, Row

(* The rows of those who have signed in at the start: a token has the row of
   the one browser that signed in with it. *)
LEMMA InitRows ==
  ASSUME NEW signedIn \in SUBSET Browsers, NEW with \in [signedIn -> Tokens],
         NEW row,
         \A b1, b2 \in signedIn : with[b1] = with[b2] => b1 = b2,
         tokens = [t \in Tokens |->
           IF \E b \in signedIn : with[b] = t
             THEN row[CHOOSE b \in signedIn : with[b] = t] ELSE Unused]
  PROVE  /\ \A b \in signedIn : tokens[with[b]] = row[b]
         /\ \A t \in Tokens : tokens[t] = Unused \/ \E b \in signedIn : with[b] = t
<1>1. ASSUME NEW b \in signedIn
      PROVE  tokens[with[b]] = row[b]
  <2> DEFINE c == CHOOSE c \in signedIn : with[c] = with[b]
  <2>1. c \in signedIn /\ with[c] = with[b]
    OBVIOUS
  <2>2. c = b
    BY <2>1
  <2>3. tokens[with[b]] = row[c]
    OBVIOUS
  <2> QED
    BY <2>2, <2>3
<1> QED
  BY <1>1

(* Init in these terms. *)
LEMMA InitShape ==
  ASSUME Init
  PROVE  \E signedIn \in SUBSET Browsers :
           \E with \in [signedIn -> Tokens], how \in [signedIn -> Users] :
             /\ \A b \in signedIn : tokens[with[b]] = Created(how[b], with[b])
             /\ \A t \in Tokens : tokens[t] = Unused \/ \E b \in signedIn : with[b] = t
             /\ tokens = [t \in Tokens |-> tokens[t]]
             /\ jar = [b \in Browsers |->
                  IF b \notin signedIn THEN NoCookies
                  ELSE [access |-> [profile |-> how[b].profile, groups |-> how[b].mfa],
                        refresh |-> with[b],
                        persistent |-> ~IsSessionToken(Created(how[b], with[b])),
                        calm |-> TRUE]]
<1>1. PICK signedIn \in SUBSET Browsers :
        \E with \in [signedIn -> Tokens \cap (1..Cardinality(signedIn))],
           how \in [signedIn -> Users] :
          LET row == [b \in signedIn |-> Created(how[b], with[b])] IN
          /\ \A b1, b2 \in signedIn : with[b1] = with[b2] => b1 = b2
          /\ tokens = [t \in Tokens |->
               IF \E b \in signedIn : with[b] = t
                 THEN row[CHOOSE b \in signedIn : with[b] = t] ELSE Unused]
          /\ jar = [b \in Browsers |->
               IF b \notin signedIn THEN NoCookies
               ELSE [access |-> [profile |-> how[b].profile, groups |-> how[b].mfa],
                     refresh |-> with[b], persistent |-> ~IsSessionToken(row[b]),
                     calm |-> TRUE]]
  BY DEF Init
<1>2. PICK with \in [signedIn -> Tokens \cap (1..Cardinality(signedIn))],
             how \in [signedIn -> Users] :
          LET row == [b \in signedIn |-> Created(how[b], with[b])] IN
          /\ \A b1, b2 \in signedIn : with[b1] = with[b2] => b1 = b2
          /\ tokens = [t \in Tokens |->
               IF \E b \in signedIn : with[b] = t
                 THEN row[CHOOSE b \in signedIn : with[b] = t] ELSE Unused]
          /\ jar = [b \in Browsers |->
               IF b \notin signedIn THEN NoCookies
               ELSE [access |-> [profile |-> how[b].profile, groups |-> how[b].mfa],
                     refresh |-> with[b], persistent |-> ~IsSessionToken(row[b]),
                     calm |-> TRUE]]
  BY <1>1
<1>3. with \in [signedIn -> Tokens]
  OBVIOUS
<1> DEFINE row == [b \in signedIn |-> Created(how[b], with[b])]
<1>4. /\ \A b \in signedIn : tokens[with[b]] = row[b]
      /\ \A t \in Tokens : tokens[t] = Unused \/ \E b \in signedIn : with[b] = t
  BY <1>2, <1>3, InitRows
<1>5. tokens = [t \in Tokens |-> tokens[t]]
  BY <1>2
<1>6. jar = [b \in Browsers |->
               IF b \notin signedIn THEN NoCookies
               ELSE [access |-> [profile |-> how[b].profile, groups |-> how[b].mfa],
                     refresh |-> with[b],
                     persistent |-> ~IsSessionToken(Created(how[b], with[b])),
                     calm |-> TRUE]]
  BY <1>2
<1>7. \A b \in signedIn : tokens[with[b]] = Created(how[b], with[b])
  BY <1>4
<1> HIDE DEF row
<1> QED
  BY <1>4, <1>5, <1>6, <1>7, <1>3

LEMMA InitType ==
  ASSUME Init
  PROVE  TypeOK
<1>1. PICK signedIn \in SUBSET Browsers :
        \E with \in [signedIn -> Tokens], how \in [signedIn -> Users] :
          /\ \A b \in signedIn : tokens[with[b]] = Created(how[b], with[b])
          /\ \A t \in Tokens : tokens[t] = Unused \/ \E b \in signedIn : with[b] = t
          /\ tokens = [t \in Tokens |-> tokens[t]]
          /\ jar = [b \in Browsers |->
               IF b \notin signedIn THEN NoCookies
               ELSE [access |-> [profile |-> how[b].profile, groups |-> how[b].mfa],
                     refresh |-> with[b],
                     persistent |-> ~IsSessionToken(Created(how[b], with[b])),
                     calm |-> TRUE]]
  BY InitShape
<1>2. PICK with \in [signedIn -> Tokens], how \in [signedIn -> Users] :
          /\ \A b \in signedIn : tokens[with[b]] = Created(how[b], with[b])
          /\ \A t \in Tokens : tokens[t] = Unused \/ \E b \in signedIn : with[b] = t
          /\ tokens = [t \in Tokens |-> tokens[t]]
          /\ jar = [b \in Browsers |->
               IF b \notin signedIn THEN NoCookies
               ELSE [access |-> [profile |-> how[b].profile, groups |-> how[b].mfa],
                     refresh |-> with[b],
                     persistent |-> ~IsSessionToken(Created(how[b], with[b])),
                     calm |-> TRUE]]
  BY <1>1
<1>3. now = 0 /\ now \in 0..MaxNow
  BY ConstantsAssumption DEF Init
<1>4. \A b \in signedIn : Created(how[b], with[b]) \in Row
  BY <1>3, CreatedType, UserType DEF AnyToken
<1>5. tokens \in [Tokens -> Row]
  <2>1. \A t \in Tokens : tokens[t] \in Row
    BY <1>2, <1>4, UnusedType
  <2> QED
    BY <1>2, <2>1
<1>6. jar \in [Browsers -> Cookies]
  <2>1. ASSUME NEW b \in signedIn
        PROVE  [access |-> [profile |-> how[b].profile, groups |-> how[b].mfa],
                refresh |-> with[b],
                persistent |-> ~IsSessionToken(Created(how[b], with[b])),
                calm |-> TRUE] \in Cookies
    BY UserType DEF Cookies, User, AnyToken
  <2> QED
    BY <1>2, <2>1, CookieTypes
<1>7. req \in [Requests -> Request] /\ pc \in [Requests -> Steps]
  BY CookieTypes DEF Init, Steps
<1> QED
  BY <1>3, <1>5, <1>6, <1>7 DEF TypeOK

(* Each action keeps the types. *)
LEMMA BrowserTypes ==
  ASSUME TypeOK, NEW p \in Requests
  PROVE  /\ \A b \in Browsers, kind \in Kinds : Send(p, b, kind) => TypeOK'
         /\ Respond(p) => TypeOK'
         /\ Lose(p) => TypeOK'
<1> USE DEF TypeOK
<1>1. ASSUME NEW b \in Browsers, NEW kind \in Kinds, Send(p, b, kind)
      PROVE  TypeOK'
  <2>1. jar[b].refresh \in AnyToken
    BY DEF Cookies
  <2>2. \A l \in BOOLEAN :
          [Blank(b) EXCEPT !.kind = kind, !.refresh = jar[b].refresh, !.late = l] \in Request
    <3>1. \A r \in Request, t \in AnyToken, l \in BOOLEAN :
            [r EXCEPT !.kind = kind, !.refresh = t, !.late = l] \in Request
      BY DEF Request
    <3> QED
      BY <2>1, <3>1, CookieTypes
  <2>3. req' \in [Requests -> Request]
    BY <1>1, <2>2 DEF Send
  <2>4. pc' \in [Requests -> Steps]
    BY <1>1 DEF Send, Steps
  <2>5. jar' \in [Browsers -> Cookies]
    BY <1>1 DEF Send, Cookies, InFlight
  <2> QED
    BY <1>1, <2>3, <2>4, <2>5 DEF Send
<1>2. ASSUME Respond(p)
      PROVE  TypeOK'
  <2>1. Blank(req[p].browser) \in Request
    BY CookieTypes DEF Request
  <2>2. req' \in [Requests -> Request] /\ pc' \in [Requests -> Steps]
    BY <1>2, <2>1 DEF Respond, Steps
  <2>3. req[p].answer \in Answer /\ req[p].browser \in Browsers
    BY DEF Request
  <2>4. jar' \in [Browsers -> Cookies]
    <3>1. CASE req[p].answer.does = "keep"
      BY <1>2, <2>3, <3>1 DEF Respond
    <3>2. CASE req[p].answer.does = "set"
      <4>1. [access |-> req[p].answer.access, refresh |-> req[p].answer.refresh,
             persistent |-> req[p].answer.persistent,
             calm |-> jar[req[p].browser].calm] \in Cookies
        BY <2>3 DEF Answer, Cookies
      <4> QED
        BY <1>2, <2>3, <3>2, <4>1 DEF Respond
    <3>3. CASE req[p].answer.does = "clear"
      <4>1. [NoCookies EXCEPT !.calm = jar[req[p].browser].calm] \in Cookies
        BY <2>3, CookieTypes DEF Cookies
      <4> QED
        BY <1>2, <2>3, <3>3, <4>1 DEF Respond
    <3> QED
      BY <2>3, <3>1, <3>2, <3>3 DEF Answer
  <2> QED
    BY <1>2, <2>2, <2>4 DEF Respond
<1>3. ASSUME Lose(p)
      PROVE  TypeOK'
  <2>1. Blank(req[p].browser) \in Request
    BY CookieTypes DEF Request
  <2>2. req' \in [Requests -> Request] /\ pc' \in [Requests -> Steps]
    BY <1>3, <2>1 DEF Lose, Steps
  <2>3. jar' \in [Browsers -> Cookies]
    <3>1. req[p].browser \in Browsers
      BY DEF Request
    <3>2. jar' = [jar EXCEPT ![req[p].browser].calm = FALSE]
      BY <1>3 DEF Lose
    <3>3. [jar[req[p].browser] EXCEPT !.calm = FALSE] \in Cookies
      BY <3>1 DEF Cookies
    <3> QED
      BY <3>1, <3>2, <3>3
  <2> QED
    BY <1>3, <2>2, <2>3 DEF Lose
<1> QED
  BY <1>1, <1>2, <1>3

LEMMA TimeTypes ==
  ASSUME TypeOK
  PROVE  /\ \A b \in Browsers : AccessExpires(b) => TypeOK'
         /\ Tick => TypeOK'
<1> USE DEF TypeOK
<1>1. ASSUME NEW b \in Browsers, AccessExpires(b)
      PROVE  TypeOK'
  <2>1. jar' \in [Browsers -> Cookies]
    BY <1>1 DEF AccessExpires, Cookies, Anonymous, User
  <2> QED
    BY <1>1, <2>1 DEF AccessExpires
<1>2. ASSUME Tick
      PROVE  TypeOK'
  BY <1>2, ConstantsAssumption DEF Tick
<1> QED
  BY <1>1, <1>2

(* Use, of a token the request has. *)
LEMMA UseTypes ==
  ASSUME TypeOK, RequestsHaveTokens, NEW p \in Requests, Use(p)
  PROVE  TypeOK'
<1> USE DEF TypeOK
<1>1. req[p].refresh \in Tokens
  BY DEF RequestsHaveTokens, HasToken, Use
<1>2. tokens[req[p].refresh] \in Row
  BY <1>1
<1>3. tokens[req[p].refresh].next \in AnyToken
  BY <1>2 DEF Row
<1>4. \A row \in Row, new \in AnyToken :
        [req EXCEPT ![p].found = row, ![p].fresh = new] \in [Requests -> Request]
  <2>1. \A r \in Request, row \in Row, new \in AnyToken :
          [r EXCEPT !.found = row, !.fresh = new] \in Request
    BY DEF Request
  <2> QED
    BY <2>1
<1>5. req' \in [Requests -> Request]
  <2> DEFINE row == tokens[req[p].refresh]
             read(new) == [req EXCEPT ![p].found = row, ![p].fresh = new]
  <2>1. \/ req' = req
        \/ req' = read(row.next)
        \/ req' = read(req[p].refresh)
        \/ req' = read(NoToken)
    BY DEF Use
  <2>2. /\ read(row.next) \in [Requests -> Request]
        /\ read(req[p].refresh) \in [Requests -> Request]
        /\ read(NoToken) \in [Requests -> Request]
    BY <1>1, <1>2, <1>3, <1>4 DEF AnyToken
  <2> QED
    BY <2>1, <2>2
<1>6. pc' \in [Requests -> Steps]
  BY DEF Use, Passed, Steps
<1> QED
  BY <1>5, <1>6 DEF Use

LEMMA RefreshTypes ==
  ASSUME TypeOK, RequestsHaveTokens, NEW p \in Requests
  PROVE  /\ CreateSuccessor(p) => TypeOK'
         /\ RevokeUsed(p) => TypeOK'
         /\ Sign(p) => TypeOK'
         /\ Fail(p) => TypeOK'
<1> USE DEF TypeOK
<1>0. req[p] \in Request /\ req[p].found \in Row
  BY DEF Request
<1>1. ASSUME CreateSuccessor(p)
      PROVE  TypeOK'
  <2> DEFINE row == req[p].found
             how == [profile |-> row.profile, session |-> IsSessionToken(row),
                     mfa |-> row.mfa]
  <2>1. Created(how, row.root) \in Row
    <3>1. how.profile \in Profiles \cup {Nobody} /\ how.mfa \in BOOLEAN
            /\ row.root \in AnyToken /\ now \in Nat
      BY <1>0 DEF Row
    <3> QED
      BY <3>1, CreatedType
  <2>2. tokens' \in [Tokens -> Row]
    BY <1>1, <2>1 DEF CreateSuccessor
  <2>3. req' \in [Requests -> Request]
    BY <1>1 DEF CreateSuccessor, Request, AnyToken
  <2> QED
    BY <1>1, <2>2, <2>3 DEF CreateSuccessor, Steps
<1>2. ASSUME RevokeUsed(p)
      PROVE  TypeOK'
  <2>1. req[p].refresh \in Tokens /\ req[p].fresh \in AnyToken
    BY <1>0, <1>2 DEF RequestsHaveTokens, HasToken, RevokeUsed, Request
  <2>2. Revoked(tokens[req[p].refresh], req[p].fresh) \in Row
    BY <2>1, RevokedType
  <2> QED
    BY <1>2, <2>1, <2>2 DEF RevokeUsed, Steps
<1>3. ASSUME Sign(p)
      PROVE  TypeOK'
  <2> DEFINE row == req[p].found
             user == [profile |-> row.profile, groups |-> row.mfa]
             answer == [does |-> "set", access |-> user, refresh |-> req[p].fresh,
                        persistent |-> ~IsSessionToken(row)]
  <2>1. answer \in Answer
    BY <1>0 DEF Answer, User, Row, Request
  <2>2. \A r \in Request, a \in Answer :
          [r EXCEPT !.found = Unused, !.fresh = NoToken, !.answer = a] \in Request
    BY UnusedType DEF Request, AnyToken
  <2>3. req' = [req EXCEPT ![p] =
          [@ EXCEPT !.found = Unused, !.fresh = NoToken, !.answer = answer]]
    BY <1>3 DEF Sign
  <2>4. req' \in [Requests -> Request]
    BY <1>0, <2>1, <2>2, <2>3
  <2>5. pc' \in [Requests -> Steps]
    BY <1>3 DEF Sign, Passed, Steps
  <2> QED
    BY <1>3, <2>4, <2>5 DEF Sign
<1>4. ASSUME Fail(p)
      PROVE  TypeOK'
  <2>0. \A r \in Request : [r EXCEPT !.found = Unused, !.fresh = NoToken] \in Request
    BY UnusedType DEF Request, AnyToken
  <2>1. req' \in [Requests -> Request]
    <3>1. req' = [req EXCEPT ![p] = [@ EXCEPT !.found = Unused, !.fresh = NoToken]]
      BY <1>4 DEF Fail
    <3>2. [req[p] EXCEPT !.found = Unused, !.fresh = NoToken] \in Request
      BY <1>0, <2>0
    <3> QED
      BY <1>0, <3>1, <3>2
  <2>2. jar' \in [Browsers -> Cookies]
    BY <1>0, <1>4 DEF Fail, Cookies, Request
  <2>3. pc' \in [Requests -> Steps]
    BY <1>4 DEF Fail, Passed, Steps
  <2> QED
    BY <1>4, <2>1, <2>2, <2>3 DEF Fail
<1> QED
  BY <1>1, <1>2, <1>3, <1>4

LEMMA HandlerTypes ==
  ASSUME TypeOK, RequestsHaveTokens, NEW p \in Requests
  PROVE  /\ RefreshEndpoint(p) => TypeOK'
         /\ SignOut(p) => TypeOK'
         /\ SignIn(p) => TypeOK'
<1> USE DEF TypeOK
<1>1. ASSUME RefreshEndpoint(p)
      PROVE  TypeOK'
  BY <1>1 DEF RefreshEndpoint, Request, Steps
<1>2. ASSUME SignOut(p)
      PROVE  TypeOK'
  <2>1. tokens' \in [Tokens -> Row]
    BY <1>2, RemovedType DEF SignOut, Request, AnyToken
  <2>2. req' \in [Requests -> Request]
    BY <1>2, CookieTypes DEF SignOut, Request
  <2> QED
    BY <1>2, <2>1, <2>2 DEF SignOut, Steps
<1>3. ASSUME SignIn(p)
      PROVE  TypeOK'
  <2>1. CASE UNCHANGED <<tokens, req>> /\ pc' = [pc EXCEPT ![p] = "respond"]
    BY <1>3, <2>1 DEF SignIn, Steps
  <2>2. ASSUME NEW t \in Tokens, NEW how \in Users,
               tokens' = [tokens EXCEPT ![t] = Created(how, t)],
               req' = [req EXCEPT ![p].found = Created(how, t), ![p].fresh = t,
                                  ![p].again = TRUE],
               pc' = [pc EXCEPT ![p] = "sign"]
        PROVE  TypeOK'
    <3>1. Created(how, t) \in Row
      BY CreatedType, UserType DEF AnyToken
    <3>2. \A r \in Request, row \in Row :
            [r EXCEPT !.found = row, !.fresh = t, !.again = TRUE] \in Request
      BY DEF Request, AnyToken
    <3>3. req' \in [Requests -> Request]
      BY <2>2, <3>1, <3>2
    <3> QED
      BY <1>3, <2>2, <3>1, <3>3 DEF SignIn, Steps
  <2> QED
    BY <1>3, <2>1, <2>2 DEF SignIn
<1> QED
  BY <1>1, <1>2, <1>3

LEMMA NextType ==
  ASSUME TypeOK, RequestsHaveTokens, [Next]_vars
  PROVE  TypeOK'
<1>1. CASE UNCHANGED vars
  BY <1>1 DEF vars, TypeOK
<1>2. CASE Next
  BY <1>2, BrowserTypes, TimeTypes, UseTypes, RefreshTypes, HandlerTypes
     DEF Next, Refresh, Handle
<1> QED
  BY <1>1, <1>2

-------------------------------------------------------------------------------
(* What a step leaves as it is. *)

(* Rows keep what they were created with, and deleted ones stay deleted. *)
Kept ==
  \A t \in Issued :
    /\ t \in Issued'
    /\ tokens'[t].profile = tokens[t].profile /\ tokens'[t].mfa = tokens[t].mfa
    /\ tokens'[t].root = tokens[t].root /\ tokens'[t].life = tokens[t].life
    /\ tokens'[t].created = tokens[t].created
    /\ tokens[t].status = "deleted" => tokens'[t].status = "deleted"

(* A step of request p leaves the others alone. *)
OthersKept(p) == \A q \in Requests \ {p} : req'[q] = req[q] /\ pc'[q] = pc[q]

LEMMA UnchangedKept ==
  ASSUME tokens' = tokens
  PROVE  Kept
  BY DEF Kept, Issued

LEMMA SameKept ==
  ASSUME Kept, NEW row, NEW t, Same(row, t)
  PROVE  Same(row, t)'
  BY DEF Same, Kept

LEMMA OtherRequestOK ==
  ASSUME TypeOK, Kept, NEW q \in Requests, RequestOK(q), req'[q] = req[q], pc'[q] = pc[q]
  PROVE  RequestOK(q)'
<1> USE DEF RequestOK
<1>1. HasToken(q)'
  BY DEF HasToken
<1>2. ReplacingAgrees(q)'
  BY SameKept DEF ReplacingAgrees
<1>3. SigningAgrees(q)'
  BY SameKept DEF SigningAgrees, IsSessionToken
<1>4. AnswerAgrees(q)'
  BY DEF AnswerAgrees, Match, Kept
<1>5. LateStaysOut(q)'
  <2>1. SUFFICES ASSUME pc[q] \notin {"new", "done"}, req[q].late, req[q].kind # "signIn"
                 PROVE  tokens'[req[q].refresh].status = "deleted"
    BY <2>1 DEF LateStaysOut
  <2>2. req[q].refresh \in Tokens
    BY <2>1 DEF HasToken
  <2>3. tokens[req[q].refresh].status = "deleted"
    BY <2>1 DEF LateStaysOut
  <2> QED
    BY <2>2, <2>3 DEF Kept, Issued
<1> QED
  BY <1>1, <1>2, <1>3, <1>4, <1>5

(* So the requests are all right after a step of p if p is. *)
LEMMA RequestsOK ==
  ASSUME TypeOK, Kept, NEW p \in Requests, \A q \in Requests : RequestOK(q),
         OthersKept(p), RequestOK(p)'
  PROVE  \A q \in Requests : RequestOK(q)'
  BY OtherRequestOK DEF OthersKept

(* Cookies that only lose their access token still agree. *)
LEMMA CookiesKept ==
  ASSUME Kept, CookiesAgree,
         \A b \in Browsers : /\ jar'[b].access \in {Anonymous, jar[b].access}
                             /\ jar'[b].refresh = jar[b].refresh
                             /\ jar'[b].persistent = jar[b].persistent
  PROVE  CookiesAgree'
<1> SUFFICES ASSUME NEW b \in Browsers
             PROVE  LET c == jar'[b] IN
                    /\ c.access # Anonymous =>
                         /\ c.refresh \in Issued'
                         /\ c.access = [profile |-> tokens'[c.refresh].profile,
                                        groups |-> tokens'[c.refresh].mfa]
                    /\ c.persistent => c.refresh \in Issued'
                                         /\ tokens'[c.refresh].life = DefaultLife
  BY DEF CookiesAgree, Anonymous
<1>1. CASE jar[b].refresh \in Issued
  <2>1. /\ jar[b].refresh \in Issued'
        /\ tokens'[jar[b].refresh].profile = tokens[jar[b].refresh].profile
        /\ tokens'[jar[b].refresh].mfa = tokens[jar[b].refresh].mfa
        /\ tokens'[jar[b].refresh].life = tokens[jar[b].refresh].life
    BY <1>1 DEF Kept
  <2>2. /\ jar[b].access # Anonymous =>
             jar[b].access = [profile |-> tokens[jar[b].refresh].profile,
                              groups |-> tokens[jar[b].refresh].mfa]
        /\ jar[b].persistent => tokens[jar[b].refresh].life = DefaultLife
    BY DEF CookiesAgree
  <2> QED
    BY <2>1, <2>2
<1>2. CASE jar[b].refresh \notin Issued
  BY <1>2 DEF CookiesAgree
<1> QED
  BY <1>1, <1>2

(* Rows that stay as they are still end in time, if no request more may replace
   them. *)
LEMMA ProductMonotone ==
  ASSUME NEW S, NEW T, IsFiniteSet(T), S \subseteq T
  PROVE  /\ Cardinality(S) \in Nat /\ Cardinality(T) \in Nat
         /\ Grace * Cardinality(S) \in Nat /\ Grace * Cardinality(T) \in Nat
         /\ Grace * Cardinality(S) <= Grace * Cardinality(T)
<1>1. /\ Cardinality(S) \in Nat /\ Cardinality(T) \in Nat
      /\ Cardinality(S) <= Cardinality(T)
  BY FS_Subset, FS_CardinalityType
<1>2. \A m, n, g \in Nat : m <= n => g * m \in Nat /\ g * n \in Nat /\ g * m <= g * n
  OBVIOUS
<1> QED
  BY <1>1, <1>2, ConstantsAssumption

LEMMA ReplacingFinite ==
  ASSUME NEW t
  PROVE  Replacing(t) \subseteq Requests /\ IsFiniteSet(Replacing(t))
  BY ConstantsAssumption, FS_Subset DEF Replacing

LEMMA EndsInTimeKept ==
  ASSUME TypeOK, TypeOK', EndsInTime,
         \A t \in Tokens : tokens'[t].next # NoToken =>
           /\ t \in Issued
           /\ tokens'[t].next = tokens[t].next /\ tokens'[t].expires = tokens[t].expires
           /\ tokens'[t].created = tokens[t].created /\ tokens'[t].life = tokens[t].life
           /\ Replacing(t)' \subseteq Replacing(t)
  PROVE  EndsInTime'
<1> SUFFICES ASSUME NEW t \in Tokens, tokens'[t].next # NoToken
             PROVE  tokens'[t].expires + Grace * Cardinality(Replacing(t)')
                      <= tokens'[t].created + tokens'[t].life + Grace * Cardinality(Requests)
  BY DEF EndsInTime, Issued
<1>1. /\ Grace * Cardinality(Replacing(t)') \in Nat /\ Grace * Cardinality(Replacing(t)) \in Nat
      /\ Grace * Cardinality(Replacing(t)') <= Grace * Cardinality(Replacing(t))
  BY ProductMonotone, ReplacingFinite
<1>2. Grace * Cardinality(Requests) \in Nat
  BY ProductMonotone, ConstantsAssumption
<1>3. /\ tokens[t].expires \in Nat /\ tokens[t].created \in Nat /\ tokens[t].life \in Nat
  BY ConstantsAssumption DEF TypeOK, Row, Lives
<1>4. tokens[t].expires + Grace * Cardinality(Replacing(t))
        <= tokens[t].created + tokens[t].life + Grace * Cardinality(Requests)
  BY DEF EndsInTime
<1> QED
  BY <1>1, <1>2, <1>3, <1>4

-------------------------------------------------------------------------------
(* Steps that leave the rows alone. *)

LEMMA RowsUnchanged ==
  ASSUME Inv, TypeOK', tokens' = tokens,
         \A t \in Tokens : tokens[t].next # NoToken => Replacing(t)' \subseteq Replacing(t)
  PROVE  RowsAgree' /\ EndsInTime' /\ Kept
<1>1. Kept
  BY UnchangedKept
<1>2. RowsAgree'
  BY DEF Inv, RowsAgree, RowAgrees, Same, Issued
<1>3. EndsInTime'
  <2>1. \A t \in Tokens : tokens[t].next # NoToken => t \in Issued
    BY DEF Inv, RowsAgree
  <2> QED
    BY <2>1, EndsInTimeKept DEF Inv
<1> QED
  BY <1>1, <1>2, <1>3

(* Not even p may replace a token unless it is about to. *)
LEMMA ReplacingShrinks ==
  ASSUME NEW p \in Requests, OthersKept(p), NEW t,
         pc'[p] \notin {"create", "revoke"} \/ req'[p].refresh # t
  PROVE  Replacing(t)' \subseteq Replacing(t)
  BY DEF Replacing, OthersKept

LEMMA SendInv ==
  ASSUME Inv, TypeOK', NEW p \in Requests, NEW b \in Browsers, NEW kind \in Kinds,
         Send(p, b, kind)
  PROVE  Inv'
<1> USE DEF Inv
<1>1. OthersKept(p)
  BY DEF OthersKept, Send, TypeOK
<1>2. tokens' = tokens /\ now' = now /\ now \in Nat
  BY DEF Send, TypeOK
<1>3. pc'[p] \in {"use", "handle"}
  BY DEF Send, TypeOK
<1>4. RowsAgree' /\ EndsInTime' /\ Kept
  BY <1>1, <1>2, <1>3, RowsUnchanged, ReplacingShrinks
<1>5. RequestOK(p)'
  <2> DEFINE late == ~(jar[b].access # Anonymous) /\ jar[b].refresh # NoToken
                       /\ tokens[jar[b].refresh].status = "deleted"
  <2>1. req'[p] = [Blank(b) EXCEPT !.kind = kind, !.refresh = jar[b].refresh, !.late = late]
    BY DEF Send, TypeOK
  <2>2. /\ req'[p].kind = kind /\ req'[p].refresh = jar[b].refresh
        /\ req'[p].late => tokens[jar[b].refresh].status = "deleted"
        /\ req'[p].answer.does = "keep"
    <3>1. req'[p].late = late
      BY <2>1 DEF Blank
    <3>2. req'[p].kind = kind /\ req'[p].refresh = jar[b].refresh /\ req'[p].answer = Keep
      <4> HIDE DEF late
      <4> QED
        BY <2>1 DEF Blank
    <3>3. req'[p].late => late
      <4> HIDE DEF late
      <4> QED
        BY <3>1, Zenon
    <3> QED
      BY <3>2, <3>3 DEF Keep
  <2>3. jar[b].refresh \in AnyToken
    BY DEF TypeOK, Cookies
  <2>4. HasToken(p)'
    <3>1. CASE jar[b].refresh \in Tokens
      BY <2>2, <3>1 DEF HasToken
    <3>2. CASE jar[b].refresh = NoToken
      <4>1. pc'[p] = "handle" /\ kind = "signIn"
        BY <3>2 DEF Send, TypeOK
      <4> QED
        BY <2>2, <4>1 DEF HasToken
    <3> QED
      BY <2>3, <3>1, <3>2 DEF AnyToken
  <2> QED
    BY <1>2, <1>3, <2>2, <2>4
       DEF RequestOK, ReplacingAgrees, SigningAgrees, AnswerAgrees, LateStaysOut
<1>6. CookiesAgree'
  <2>1. \A c \in Browsers : /\ jar'[c].access = jar[c].access /\ jar'[c].refresh = jar[c].refresh
                             /\ jar'[c].persistent = jar[c].persistent
    BY DEF Send, TypeOK, Cookies
  <2> QED
    BY <1>4, <2>1, CookiesKept
<1> QED
  BY <1>1, <1>4, <1>5, <1>6, RequestsOK

(* A request that is over is all right. *)
LEMMA DoneOK ==
  ASSUME NEW p \in Requests, NEW b, pc'[p] = "done", req'[p] = Blank(b)
  PROVE  RequestOK(p)'
  BY DEF RequestOK, HasToken, ReplacingAgrees, SigningAgrees, AnswerAgrees, LateStaysOut,
         Blank, Keep

LEMMA AnsweredInv ==
  ASSUME Inv, TypeOK', NEW p \in Requests, Respond(p) \/ Lose(p)
  PROVE  Inv'
<1> USE DEF Inv
<1>1. OthersKept(p)
  BY DEF OthersKept, Respond, Lose, TypeOK
<1>2. tokens' = tokens /\ now' = now /\ now \in Nat
  BY DEF Respond, Lose, TypeOK
<1>3. pc'[p] = "done" /\ req'[p] = Blank(req[p].browser)
  BY DEF Respond, Lose, TypeOK
<1>4. RowsAgree' /\ EndsInTime' /\ Kept
  BY <1>1, <1>2, <1>3, RowsUnchanged, ReplacingShrinks
<1>5. RequestOK(p)'
  BY <1>3, DoneOK
<1>6. CookiesAgree'
  <2>1. CASE Lose(p)
    <3>1. \A c \in Browsers :
            /\ jar'[c].access = jar[c].access /\ jar'[c].refresh = jar[c].refresh
            /\ jar'[c].persistent = jar[c].persistent
      BY <2>1 DEF Lose, TypeOK, Cookies
    <3> QED
      BY <1>4, <3>1, CookiesKept
  <2>2. CASE Respond(p)
    <3> DEFINE a == req[p].answer
               c == req[p].browser
    <3>1. c \in Browsers /\ a \in Answer /\ \A b \in Browsers \ {c} : jar'[b] = jar[b]
      BY <2>2 DEF Respond, TypeOK, Request
    <3>2. CASE a.does = "keep"
      <4>1. jar' = jar
        BY <2>2, <3>1, <3>2 DEF Respond, TypeOK
      <4> QED
        BY <1>4, <4>1, CookiesKept
    <3>3. CASE a.does = "set"
      <4>1. /\ jar'[c].access = a.access /\ jar'[c].refresh = a.refresh
            /\ jar'[c].persistent = a.persistent
        BY <2>2, <3>1, <3>3 DEF Respond, TypeOK
      <4>2. Match(a)
        BY <3>3 DEF RequestOK, AnswerAgrees
      <4> QED
        BY <1>2, <3>1, <4>1, <4>2 DEF CookiesAgree, Match, Issued
    <3>4. CASE a.does = "clear"
      <4>1. jar'[c] = [NoCookies EXCEPT !.calm = jar[c].calm]
        BY <2>2, <3>1, <3>4 DEF Respond, TypeOK
      <4>2. jar'[c].access = Anonymous /\ jar'[c].persistent = FALSE
        BY <4>1 DEF NoCookies
      <4> QED
        BY <1>2, <3>1, <4>2 DEF CookiesAgree, Issued
    <3> QED
      BY <3>1, <3>2, <3>3, <3>4 DEF Answer
  <2> QED
    BY <2>1, <2>2
<1> QED
  BY <1>1, <1>4, <1>5, <1>6, RequestsOK

LEMMA TimeInv ==
  ASSUME Inv, TypeOK', Tick \/ \E b \in Browsers : AccessExpires(b)
  PROVE  Inv'
<1> USE DEF Inv
<1>1. tokens' = tokens /\ req' = req /\ pc' = pc /\ now' >= now
  BY DEF Tick, AccessExpires, TypeOK
<1>2. RowsAgree' /\ EndsInTime' /\ Kept
  BY <1>1, RowsUnchanged DEF Replacing
<1>3. \A q \in Requests : RequestOK(q)'
  BY <1>1, <1>2, OtherRequestOK
<1>4. CookiesAgree'
  <2>1. CASE Tick
    BY <1>2, <2>1, CookiesKept DEF Tick
  <2>2. ASSUME NEW b \in Browsers, AccessExpires(b)
        PROVE  CookiesAgree'
    <3>1. \A c \in Browsers :
            /\ jar'[c].access \in {Anonymous, jar[c].access} /\ jar'[c].refresh = jar[c].refresh
            /\ jar'[c].persistent = jar[c].persistent
      BY <2>2 DEF AccessExpires, TypeOK, Cookies
    <3> QED
      BY <1>2, <3>1, CookiesKept
  <2> QED
    BY <2>1, <2>2
<1> QED
  BY <1>2, <1>3, <1>4

(* A session token is told from its lifetime, however often requests put off its
   end. *)
LEMMA SessionTold ==
  ASSUME Inv, NEW t \in Issued, ~IsSessionToken(tokens[t])
  PROVE  tokens[t].life = DefaultLife
<1> USE DEF Inv
<1>1. t \in Tokens /\ tokens[t] \in Row /\ RowAgrees(t)
  BY DEF Issued, TypeOK, RowsAgree
<1>2. /\ tokens[t].life \in {SessionLife, DefaultLife}
      /\ tokens[t].created \in Nat /\ tokens[t].expires \in Nat
  BY <1>1 DEF Row, Lives
<1>3. /\ Cardinality(Requests) \in Nat
      /\ Grace * Cardinality(Requests) = Cardinality(Requests) * Grace
      /\ Grace * Cardinality(Requests) \in Nat
  <2>1. \A m, n \in Nat : m * n = n * m /\ m * n \in Nat
    OBVIOUS
  <2> QED
    BY <2>1, ConstantsAssumption, FS_CardinalityType
<1>4. Grace * Cardinality(Replacing(t)) \in Nat
  BY ReplacingFinite, ProductMonotone
<1>5. tokens[t].expires <= tokens[t].created + tokens[t].life + Grace * Cardinality(Requests)
  <2>1. CASE tokens[t].next = NoToken
    BY <1>1, <1>2, <1>3, <2>1, ConstantsAssumption DEF RowAgrees
  <2>2. CASE tokens[t].next # NoToken
    <3>1. tokens[t].expires + Grace * Cardinality(Replacing(t))
            <= tokens[t].created + tokens[t].life + Grace * Cardinality(Requests)
      BY <2>2 DEF EndsInTime
    <3> QED
      BY <1>2, <1>3, <1>4, <3>1, ConstantsAssumption
  <2> QED
    BY <2>1, <2>2
<1>6. SessionLife + Grace * Cardinality(Requests) < DefaultLife
  BY <1>3, ConstantsAssumption
<1> QED
  BY <1>2, <1>3, <1>5, <1>6, ConstantsAssumption DEF IsSessionToken

LEMMA UseInv ==
  ASSUME Inv, TypeOK', NEW p \in Requests, Use(p)
  PROVE  Inv'
<1> USE DEF Inv
<1> DEFINE t == req[p].refresh
           row == tokens[t]
<1>1. OthersKept(p)
  BY DEF OthersKept, Use, TypeOK
<1>2. tokens' = tokens /\ now' = now /\ now \in Nat /\ jar' = jar
  BY DEF Use, TypeOK
<1>3. t \in Tokens /\ RequestOK(p)
  BY DEF RequestOK, HasToken, Use
<1>4. /\ req'[p].refresh = t /\ req'[p].answer = req[p].answer
      /\ req'[p].kind = req[p].kind /\ req'[p].late = req[p].late
  BY DEF Use, TypeOK, Request
<1>5. \/ pc'[p] \in {"respond", "handle"}
      \/ /\ Usable(t) /\ req'[p].found = row
         /\ \/ pc'[p] = "sign" /\ req'[p].fresh = row.next /\ row.next # NoToken
            \/ pc'[p] = "sign" /\ req'[p].fresh = t
            \/ pc'[p] = "create" /\ row.next = NoToken
  <2>1. CASE ~Usable(t)
    BY <2>1 DEF Use, TypeOK, Passed
  <2>2. ASSUME NEW new \in AnyToken, NEW step \in Steps,
               req' = [req EXCEPT ![p].found = row, ![p].fresh = new],
               pc' = [pc EXCEPT ![p] = step]
        PROVE  req'[p].found = row /\ req'[p].fresh = new /\ pc'[p] = step
    BY <2>2 DEF TypeOK, Request
  <2>3. row.next \in AnyToken /\ t \in AnyToken /\ NoToken \in AnyToken
    BY <1>3 DEF TypeOK, Row, AnyToken
  <2>4. CASE Usable(t)
    BY <2>2, <2>3, <2>4 DEF Use, Steps
  <2> QED
    BY <2>1, <2>4
<1>6. Usable(t) => t \in Issued
  BY <1>3 DEF Usable, Issued
<1>7. RowsAgree' /\ EndsInTime' /\ Kept
  <2>1. \A u \in Tokens : tokens[u].next # NoToken => Replacing(u)' \subseteq Replacing(u)
    BY <1>1, <1>4, <1>5, ReplacingShrinks
  <2> QED
    BY <1>2, <2>1, RowsUnchanged
<1>8. ReplacingAgrees(p)'
  <2>1. SUFFICES ASSUME pc'[p] \in {"create", "revoke"}
                 PROVE  /\ Same(req[p].found, req[p].refresh)'
                        /\ req'[p].found.expires = req'[p].found.created + req'[p].found.life
                        /\ pc'[p] # "revoke"
    BY DEF ReplacingAgrees
  <2>2. Usable(t) /\ req'[p].found = row /\ pc'[p] = "create" /\ row.next = NoToken
    BY <1>5, <2>1
  <2>3. RowAgrees(t)
    BY <1>6, <2>2 DEF RowsAgree, Issued
  <2> QED
    BY <1>2, <1>4, <1>6, <2>2, <2>3 DEF RowAgrees, Same, Issued
<1>9. SigningAgrees(p)'
  <2>1. SUFFICES ASSUME pc'[p] = "sign"
                 PROVE  /\ Same(req[p].found, req[p].fresh)'
                        /\ ~IsSessionToken(req'[p].found) => req'[p].found.life = DefaultLife
    BY DEF SigningAgrees, IsSessionToken
  <2>2. /\ Usable(t) /\ req'[p].found = row
        /\ \/ req'[p].fresh = row.next /\ row.next # NoToken
           \/ req'[p].fresh = t
    BY <1>5, <2>1
  <2>3. RowAgrees(t)
    BY <1>6, <2>2 DEF RowsAgree, Issued
  <2>4. Same(row, req'[p].fresh)
    BY <1>6, <2>2, <2>3 DEF RowAgrees, Same
  <2> QED
    BY <1>2, <1>6, <2>2, <2>4, SessionTold DEF Same, Issued
<1>10. LateStaysOut(p)'
  <2>1. SUFFICES ASSUME req[p].late, req[p].kind # "signIn"
                 PROVE  /\ tokens[t].status = "deleted"
                        /\ pc'[p] \notin {"create", "revoke", "sign"}
                        /\ req[p].answer.does # "set"
    BY <1>2, <1>4 DEF LateStaysOut
  <2>2. tokens[t].status = "deleted" /\ req[p].answer.does # "set"
    BY <1>3, <2>1 DEF RequestOK, LateStaysOut, Use
  <2> QED
    BY <1>5, <2>2 DEF Usable
<1>11. RequestOK(p)'
  <2>1. HasToken(p)' /\ AnswerAgrees(p)'
    BY <1>2, <1>3, <1>4 DEF RequestOK, HasToken, AnswerAgrees, Match, Issued
  <2> QED
    BY <1>8, <1>9, <1>10, <2>1 DEF RequestOK
<1> QED
  BY <1>1, <1>2, <1>7, <1>11, RequestsOK, CookiesKept

(* Steps of p after which it neither replaces nor signs. *)
LEMMA PassedInv ==
  ASSUME Inv, TypeOK', NEW p \in Requests, Sign(p) \/ Fail(p) \/ RefreshEndpoint(p)
  PROVE  Inv'
<1> USE DEF Inv
<1>1. OthersKept(p)
  BY DEF OthersKept, Sign, Fail, RefreshEndpoint, TypeOK
<1>2. tokens' = tokens /\ now' = now /\ now \in Nat
  BY DEF Sign, Fail, RefreshEndpoint, TypeOK
<1>3. RequestOK(p)
  OBVIOUS
<1>4. /\ req'[p].refresh = req[p].refresh /\ req'[p].kind = req[p].kind
      /\ req'[p].late = req[p].late
  <2>1. CASE Sign(p)
    <3> DEFINE answer == [does |-> "set",
                          access |-> [profile |-> req[p].found.profile,
                                      groups |-> req[p].found.mfa],
                          refresh |-> req[p].fresh,
                          persistent |-> ~IsSessionToken(req[p].found)]
    <3>1. req'[p] = [req[p] EXCEPT !.found = Unused, !.fresh = NoToken, !.answer = answer]
      BY <2>1 DEF Sign, TypeOK
    <3> HIDE DEF answer
    <3> QED
      BY <3>1 DEF TypeOK, Request
  <2>2. CASE Fail(p) \/ RefreshEndpoint(p)
    BY <2>2 DEF Fail, RefreshEndpoint, TypeOK, Request
  <2> QED
    BY <2>1, <2>2
<1>5. /\ pc'[p] \in {"respond", "handle", "use"}
      /\ pc'[p] = "use" => RefreshEndpoint(p)
      /\ pc[p] \notin {"new", "done"}
  BY DEF Sign, Fail, RefreshEndpoint, Handling, Passed, TypeOK
<1>6. RowsAgree' /\ EndsInTime' /\ Kept
  BY <1>1, <1>2, <1>5, RowsUnchanged, ReplacingShrinks
<1>7. HasToken(p)'
  <2>1. CASE req[p].refresh \in Tokens
    BY <1>4, <2>1 DEF HasToken
  <2>2. CASE req[p].kind = "signIn"
    BY <1>4, <1>5, <2>2 DEF HasToken, RefreshEndpoint, Handling
  <2> QED
    BY <1>3, <1>5, <2>1, <2>2 DEF RequestOK, HasToken
<1>8. ReplacingAgrees(p)' /\ SigningAgrees(p)'
  BY <1>5 DEF ReplacingAgrees, SigningAgrees
<1>9. CASE Sign(p)
  <2> DEFINE persistent == ~IsSessionToken(req[p].found)
             answer == [does |-> "set",
                        access |-> [profile |-> req[p].found.profile,
                                    groups |-> req[p].found.mfa],
                        refresh |-> req[p].fresh,
                        persistent |-> persistent]
  <2>1. /\ Same(req[p].found, req[p].fresh)
        /\ persistent => req[p].found.life = DefaultLife
    BY <1>3, <1>9 DEF RequestOK, SigningAgrees, Sign
  <2> HIDE DEF persistent
  <2>2. Match(answer)
    BY <2>1 DEF Same, Match
  <2>3. req'[p].answer = answer
    <3>1. req'[p] = [req[p] EXCEPT !.found = Unused, !.fresh = NoToken, !.answer = answer]
      BY <1>9 DEF Sign, TypeOK, persistent
    <3> HIDE DEF answer
    <3> QED
      BY <3>1 DEF TypeOK, Request
  <2>4. AnswerAgrees(p)'
    BY <1>2, <2>2, <2>3 DEF AnswerAgrees, Match, Issued
  <2>5. LateStaysOut(p)'
    BY <1>3, <1>4, <1>9 DEF RequestOK, LateStaysOut, Sign
  <2>6. RequestOK(p)'
    BY <1>7, <1>8, <2>4, <2>5 DEF RequestOK
  <2> QED
    BY <1>1, <1>6, <1>9, <2>6, RequestsOK, CookiesKept DEF Sign
<1>10. CASE Fail(p) \/ RefreshEndpoint(p)
  <2>1. req'[p].answer = req[p].answer
    BY <1>10 DEF Fail, RefreshEndpoint, TypeOK, Request
  <2>2. AnswerAgrees(p)'
    BY <1>2, <1>3, <2>1 DEF RequestOK, AnswerAgrees, Match, Issued
  <2>3. LateStaysOut(p)'
    BY <1>2, <1>3, <1>4, <1>5, <2>1 DEF RequestOK, LateStaysOut
  <2>4. RequestOK(p)'
    BY <1>7, <1>8, <2>2, <2>3 DEF RequestOK
  <2>5. \A b \in Browsers : /\ jar'[b].access = jar[b].access
                            /\ jar'[b].refresh = jar[b].refresh
                            /\ jar'[b].persistent = jar[b].persistent
    BY <1>10 DEF Fail, RefreshEndpoint, TypeOK, Cookies
  <2> QED
    BY <1>1, <1>6, <2>4, <2>5, RequestsOK, CookiesKept
<1> QED
  BY <1>9, <1>10

-------------------------------------------------------------------------------
(* Steps that write rows. *)

LEMMA SignOutInv ==
  ASSUME Inv, TypeOK', NEW p \in Requests, SignOut(p)
  PROVE  Inv'
<1> USE DEF Inv
<1>1. OthersKept(p)
  BY DEF OthersKept, SignOut, TypeOK
<1>2. now' = now /\ jar' = jar
  BY DEF SignOut
<1>3. \A t \in Tokens :
        /\ tokens'[t].profile = tokens[t].profile /\ tokens'[t].mfa = tokens[t].mfa
        /\ tokens'[t].root = tokens[t].root /\ tokens'[t].life = tokens[t].life
        /\ tokens'[t].created = tokens[t].created /\ tokens'[t].expires = tokens[t].expires
        /\ tokens'[t].next = tokens[t].next
        /\ tokens'[t].status = "unused" <=> tokens[t].status = "unused"
        /\ tokens'[t].status = "live" => tokens[t].status = "live"
        /\ tokens[t].status = "deleted" => tokens'[t].status = "deleted"
  <2>1. CASE req[p].refresh = NoToken
    BY <2>1 DEF SignOut
  <2>2. CASE req[p].refresh # NoToken
    <3>1. tokens' = [tokens EXCEPT ![req[p].refresh] = Removed(@)]
      BY <2>2 DEF SignOut
    <3> QED
      BY <3>1 DEF Removed, TypeOK, Row
  <2> QED
    BY <2>1, <2>2
<1>4. Kept
  BY <1>3 DEF Kept, Issued
<1>5. Issued' = Issued
  BY <1>3 DEF Issued
<1>6. RowsAgree'
  <2>1. ASSUME NEW t \in Tokens
        PROVE  (IF t \in Issued THEN RowAgrees(t) ELSE tokens[t].next = NoToken)'
    <3>1. CASE t \in Issued
      <4>1. RowAgrees(t)
        BY <3>1 DEF RowsAgree
      <4>2. tokens[t].root \in Tokens /\ (tokens[t].next # NoToken => tokens[t].next \in Tokens)
        BY <4>1 DEF RowAgrees, Same, Issued
      <4> QED
        BY <1>3, <1>5, <3>1, <4>1, <4>2 DEF RowAgrees, Same
    <3>2. CASE t \notin Issued
      BY <1>3, <1>5, <3>2 DEF RowsAgree
    <3> QED
      BY <3>1, <3>2
  <2> QED
    BY <2>1 DEF RowsAgree
<1>7. req'[p] = [req[p] EXCEPT !.answer = Clear] /\ pc'[p] = "respond"
  BY DEF SignOut, TypeOK
<1>8. EndsInTime'
  <2>1. \A t \in Tokens : Replacing(t)' \subseteq Replacing(t)
    BY <1>1, <1>7, ReplacingShrinks
  <2>2. \A t \in Tokens : tokens[t].next # NoToken => t \in Issued
    BY DEF RowsAgree
  <2> QED
    BY <1>3, <2>1, <2>2, EndsInTimeKept
<1>9. RequestOK(p)'
  <2>1. /\ req'[p].refresh = req[p].refresh /\ req'[p].kind = req[p].kind
        /\ req'[p].late = req[p].late /\ req'[p].answer.does = "clear"
    BY <1>7 DEF TypeOK, Request, Clear, Keep
  <2>2. RequestOK(p) /\ pc[p] = "handle" /\ req[p].kind = "signOut"
    BY DEF SignOut, Handling
  <2>3. req[p].refresh \in Tokens
    BY <2>2 DEF RequestOK, HasToken
  <2>4. LateStaysOut(p)'
    BY <1>3, <1>7, <2>1, <2>2, <2>3 DEF RequestOK, LateStaysOut
  <2> QED
    BY <1>7, <2>1, <2>3, <2>4
       DEF RequestOK, HasToken, ReplacingAgrees, SigningAgrees, AnswerAgrees
<1> QED
  BY <1>1, <1>2, <1>4, <1>6, <1>8, <1>9, RequestsOK, CookiesKept

(* A row is inserted: one of a sign-in, or one that agrees with its root. *)
LEMMA InsertedRows ==
  ASSUME Inv, TypeOK', NEW t \in Tokens, t \notin Issued, NEW row \in Row,
         tokens' = [tokens EXCEPT ![t] = row], now' = now,
         row.status = "live", row.next = NoToken, row.expires = row.created + row.life,
         row.root = t \/ (Same(row, row.root) /\ Same(tokens[row.root], row.root)),
         \A u \in Issued : Replacing(u)' \subseteq Replacing(u)
  PROVE  RowsAgree' /\ EndsInTime' /\ Kept /\ t \in Issued'
<1> USE DEF Inv
<1>1. Issued' = Issued \cup {t} /\ tokens'[t] = row
  BY DEF Issued, TypeOK
<1>2. \A u \in Tokens \ {t} : tokens'[u] = tokens[u]
  OBVIOUS
<1>3. Kept
  BY <1>1, <1>2 DEF Kept, Issued
<1>4. RowsAgree'
  <2>1. ASSUME NEW u \in Tokens
        PROVE  (IF u \in Issued THEN RowAgrees(u) ELSE tokens[u].next = NoToken)'
    <3>1. CASE u = t
      BY <1>1, <1>2, <3>1 DEF RowAgrees, Same, Issued
    <3>2. CASE u # t /\ u \in Issued
      <4>1. RowAgrees(u)
        BY <3>2 DEF RowsAgree
      <4> QED
        BY <1>1, <1>2, <3>2, <4>1 DEF RowAgrees, Same, Issued
    <3>3. CASE u # t /\ u \notin Issued
      BY <1>1, <1>2, <3>3 DEF RowsAgree
    <3> QED
      BY <3>1, <3>2, <3>3
  <2> QED
    BY <2>1 DEF RowsAgree
<1>5. EndsInTime'
  <2>1. \A u \in Tokens : tokens'[u].next # NoToken => u \in Issued /\ u # t
    BY <1>1, <1>2 DEF RowsAgree
  <2> QED
    BY <1>2, <2>1, EndsInTimeKept
<1> QED
  BY <1>1, <1>3, <1>4, <1>5

LEMMA SignInInv ==
  ASSUME Inv, TypeOK', NEW p \in Requests, SignIn(p)
  PROVE  Inv'
<1> USE DEF Inv
<1>1. OthersKept(p)
  BY DEF OthersKept, SignIn, TypeOK
<1>2. now' = now /\ jar' = jar /\ now \in Nat
  <2>1. UNCHANGED <<now, jar>>
    BY DEF SignIn
  <2> QED
    BY <2>1 DEF TypeOK
<1>3. RequestOK(p) /\ pc[p] = "handle" /\ req[p].kind = "signIn"
  BY DEF SignIn, Handling
<1>4. CASE pc' = [pc EXCEPT ![p] = "respond"] /\ UNCHANGED <<tokens, req>>
  <2>1. pc'[p] = "respond"
    BY <1>4 DEF TypeOK
  <2>2. RowsAgree' /\ EndsInTime' /\ Kept
    BY <1>1, <1>2, <1>4, <2>1, RowsUnchanged, ReplacingShrinks
  <2>3. RequestOK(p)'
    BY <1>3, <1>4, <2>1 DEF RequestOK, HasToken, ReplacingAgrees, SigningAgrees, AnswerAgrees,
         Match, LateStaysOut, Issued
  <2> QED
    BY <1>1, <1>2, <2>2, <2>3, RequestsOK, CookiesKept
<1>5. ASSUME NEW t \in Tokens, NEW how \in Users, Fresh(t),
             tokens' = [tokens EXCEPT ![t] = Created(how, t)],
             req' = [req EXCEPT ![p].found = Created(how, t), ![p].fresh = t,
                                ![p].again = TRUE],
             pc' = [pc EXCEPT ![p] = "sign"]
      PROVE  Inv'
  <2> DEFINE row == Created(how, t)
  <2>1. row \in Row
    BY <1>2, CreatedType, UserType DEF AnyToken
  <2>2. /\ row.status = "live" /\ row.next = NoToken /\ row.root = t
        /\ row.expires = row.created + row.life
    BY DEF Created
  <2>3. t \notin Issued
    BY <1>5 DEF Fresh, Issued
  <2>4. pc'[p] = "sign"
    BY <1>5 DEF TypeOK
  <2> HIDE DEF row
  <2>5. /\ req'[p].found = row /\ req'[p].fresh = t /\ req'[p].refresh = req[p].refresh
        /\ req'[p].answer = req[p].answer /\ req'[p].kind = "signIn"
    BY <1>3, <1>5 DEF TypeOK, Request, row
  <2>6. RowsAgree' /\ EndsInTime' /\ Kept /\ t \in Issued'
    <3>1. \A u \in Issued : Replacing(u)' \subseteq Replacing(u)
      BY <1>1, <2>4, ReplacingShrinks
    <3>2. tokens' = [tokens EXCEPT ![t] = row]
      BY <1>5 DEF row
    <3> QED
      BY <1>2, <2>1, <2>2, <2>3, <3>1, <3>2, InsertedRows
  <2>7. SigningAgrees(p)'
    <3>1. tokens'[t] = row
      BY <1>5 DEF TypeOK, row
    <3>2. Same(req[p].found, req[p].fresh)'
      BY <2>5, <2>6, <3>1 DEF Same
    <3>3. ~IsSessionToken(row) => row.life = DefaultLife
      <4>1. row.life \in {SessionLife, DefaultLife} /\ row.created \in Nat
        BY <2>1 DEF Row, Lives
      <4>2. SessionLife < DefaultLife
        <5>1. \A m, n \in Nat : m * n \in Nat
          OBVIOUS
        <5> QED
          BY <5>1, ConstantsAssumption, FS_CardinalityType
      <4> QED
        BY <2>2, <4>1, <4>2, ConstantsAssumption DEF IsSessionToken
    <3> QED
      BY <2>5, <3>2, <3>3 DEF SigningAgrees, IsSessionToken
  <2>8. AnswerAgrees(p)'
    <3>1. AnswerAgrees(p)
      BY <1>3 DEF RequestOK
    <3> QED
      BY <2>5, <2>6, <3>1 DEF AnswerAgrees, Match, Kept
  <2>9. RequestOK(p)'
    BY <2>4, <2>5, <2>7, <2>8 DEF RequestOK, HasToken, ReplacingAgrees, LateStaysOut
  <2> QED
    BY <1>1, <1>2, <2>6, <2>9, RequestsOK, CookiesKept
<1> QED
  BY <1>4, <1>5 DEF SignIn

LEMMA CreateInv ==
  ASSUME Inv, TypeOK', NEW p \in Requests, CreateSuccessor(p)
  PROVE  Inv'
<1> USE DEF Inv
<1> DEFINE found == req[p].found
           how == [profile |-> found.profile, session |-> IsSessionToken(found),
                   mfa |-> found.mfa]
           row == Created(how, found.root)
           r == req[p].refresh
<1>1. OthersKept(p)
  BY DEF OthersKept, CreateSuccessor, TypeOK
<1>2. now' = now /\ jar' = jar /\ now \in Nat
  <2>1. UNCHANGED <<now, jar>>
    BY DEF CreateSuccessor
  <2> QED
    BY <2>1 DEF TypeOK
<1>3. /\ RequestOK(p) /\ pc[p] = "create" /\ pc'[p] = "revoke"
      /\ Same(found, r) /\ found.expires = found.created + found.life
  BY DEF CreateSuccessor, RequestOK, ReplacingAgrees, TypeOK
<1>4. PICK t \in Tokens : /\ Fresh(t)
                          /\ tokens' = [tokens EXCEPT ![t] = row]
                          /\ req' = [req EXCEPT ![p].fresh = t]
  BY DEF CreateSuccessor
<1>5. found \in Row
  BY DEF TypeOK, Request
<1>6. row.life = found.life
  <2>1. found.life \in {SessionLife, DefaultLife} /\ found.created \in Nat
    BY <1>5 DEF Row, Lives
  <2>2. SessionLife < DefaultLife
    <3>1. \A m, n \in Nat : m * n \in Nat
      OBVIOUS
    <3> QED
      BY <3>1, ConstantsAssumption, FS_CardinalityType
  <2>3. CASE found.life = SessionLife
    <3>1. IsSessionToken(found)
      BY <1>3, <2>1, <2>2, <2>3, ConstantsAssumption DEF IsSessionToken
    <3> QED
      BY <2>3, <3>1 DEF Created
  <2>4. CASE found.life = DefaultLife
    <3>1. ~IsSessionToken(found)
      BY <1>3, <2>1, <2>4, ConstantsAssumption DEF IsSessionToken
    <3> QED
      BY <2>4, <3>1 DEF Created
  <2> QED
    BY <2>1, <2>3, <2>4
<1>7. /\ row.status = "live" /\ row.next = NoToken /\ row.root = found.root
      /\ row.profile = found.profile /\ row.mfa = found.mfa
      /\ row.expires = row.created + row.life
  BY DEF Created
<1>8. row \in Row
  <2>1. /\ how.profile \in Profiles \cup {Nobody} /\ how.mfa \in BOOLEAN
        /\ found.root \in AnyToken
    BY <1>5 DEF Row
  <2> QED
    BY <1>2, <2>1, CreatedType
<1> HIDE DEF row
<1>9. Same(row, row.root) /\ Same(tokens[row.root], row.root)
  <2>1. RowAgrees(r)
    BY <1>3 DEF RowsAgree, Same, Issued
  <2> QED
    BY <1>3, <1>6, <1>7, <2>1 DEF RowAgrees, Same
<1>10. /\ req'[p].found = found /\ req'[p].fresh = t /\ req'[p].refresh = r
       /\ req'[p].answer = req[p].answer /\ req'[p].kind = req[p].kind
       /\ req'[p].late = req[p].late
  BY <1>4 DEF TypeOK, Request
<1>11. RowsAgree' /\ EndsInTime' /\ Kept /\ t \in Issued'
  <2>1. \A u \in Issued : Replacing(u)' \subseteq Replacing(u)
    BY <1>1, <1>3, <1>10 DEF Replacing, OthersKept
  <2>2. t \notin Issued
    BY <1>4 DEF Fresh, Issued
  <2>3. tokens' = [tokens EXCEPT ![t] = row]
    BY <1>4
  <2> QED
    BY <1>2, <1>7, <1>8, <1>9, <2>1, <2>2, <2>3, InsertedRows
<1>12. ReplacingAgrees(p)'
  <2>1. tokens'[t] = row
    BY <1>4 DEF TypeOK
  <2>2. Same(found, t)'
    BY <1>6, <1>7, <1>10, <1>11, <2>1 DEF Same
  <2>3. Same(req[p].found, req[p].refresh)'
    BY <1>3, <1>10, <1>11 DEF Same, Kept
  <2> QED
    BY <1>3, <1>10, <2>2, <2>3 DEF ReplacingAgrees
<1>13. RequestOK(p)'
  <2>1. HasToken(p)'
    BY <1>3, <1>10 DEF Same, HasToken, Issued
  <2>2. AnswerAgrees(p)'
    BY <1>3, <1>10, <1>11 DEF RequestOK, AnswerAgrees, Match, Kept
  <2>3. ~(req[p].late /\ req[p].kind # "signIn")
    BY <1>3 DEF RequestOK, LateStaysOut
  <2> QED
    BY <1>3, <1>10, <1>12, <2>1, <2>2, <2>3 DEF RequestOK, SigningAgrees, LateStaysOut
<1> QED
  BY <1>1, <1>2, <1>11, <1>13, RequestsOK, CookiesKept

LEMMA RevokeInv ==
  ASSUME Inv, TypeOK', NEW p \in Requests, RevokeUsed(p)
  PROVE  Inv'
<1> USE DEF Inv
<1>0. PICK r, new : r = req[p].refresh /\ new = req[p].fresh
  OBVIOUS
<1>1. OthersKept(p)
  BY DEF OthersKept, RevokeUsed, TypeOK
<1>2. now' = now /\ jar' = jar /\ req' = req /\ now \in Nat
  BY DEF RevokeUsed, TypeOK
<1>3. /\ RequestOK(p) /\ pc[p] = "revoke" /\ pc'[p] = "sign"
      /\ Same(req[p].found, r) /\ Same(req[p].found, new)
      /\ req[p].found.expires = req[p].found.created + req[p].found.life
  BY <1>0 DEF RevokeUsed, RequestOK, ReplacingAgrees, TypeOK
<1>4. /\ r \in Tokens /\ new \in Tokens /\ r \in Issued
      /\ tokens' = [tokens EXCEPT ![r] = Revoked(tokens[r], new)]
  BY <1>0, <1>3 DEF Same, Issued, RevokeUsed
<1>5. /\ \A t \in Tokens \ {r} : tokens'[t] = tokens[t]
      /\ \/ tokens'[r] = tokens[r]
         \/ /\ tokens[r].status = "live" /\ tokens[r].expires >= now
            /\ tokens'[r] = [tokens[r] EXCEPT !.expires = now + Grace, !.next = new]
  BY <1>4 DEF Revoked, TypeOK
<1> DEFINE revoked == [tokens[r] EXCEPT !.expires = now + Grace, !.next = new]
<1>51. /\ revoked.profile = tokens[r].profile /\ revoked.mfa = tokens[r].mfa
      /\ revoked.root = tokens[r].root /\ revoked.life = tokens[r].life
      /\ revoked.created = tokens[r].created /\ revoked.status = tokens[r].status
      /\ revoked.expires = now + Grace /\ revoked.next = new
  BY <1>4 DEF TypeOK, Row
<1> HIDE DEF revoked
<1>52. tokens'[r] = tokens[r] \/ (tokens[r].expires >= now /\ tokens'[r] = revoked)
  BY <1>5 DEF revoked
<1>6. \A t \in Tokens :
        /\ tokens'[t].profile = tokens[t].profile /\ tokens'[t].mfa = tokens[t].mfa
        /\ tokens'[t].root = tokens[t].root /\ tokens'[t].life = tokens[t].life
        /\ tokens'[t].created = tokens[t].created /\ tokens'[t].status = tokens[t].status
  BY <1>5, <1>51, <1>52
<1>7. \/ tokens'[r] = tokens[r]
      \/ /\ tokens[r].expires >= now
         /\ tokens'[r].expires = now + Grace /\ tokens'[r].next = new
  BY <1>51, <1>52
<1>8. Kept /\ Issued' = Issued
  BY <1>6 DEF Kept, Issued
<1>9. RowsAgree'
  <2>1. ASSUME NEW t \in Tokens
        PROVE  (IF t \in Issued THEN RowAgrees(t) ELSE tokens[t].next = NoToken)'
    <3>1. CASE t \in Issued /\ tokens'[t] = tokens[t]
      <4>1. RowAgrees(t)
        BY <3>1 DEF RowsAgree
      <4>2. Same(tokens[t], tokens[t].root)'
        BY <1>8, <3>1, <4>1 DEF RowAgrees, Same, Kept
      <4>3. tokens[t].next # NoToken => Same(tokens[t], tokens[t].next)'
        BY <1>8, <3>1, <4>1 DEF RowAgrees, Same, Kept
      <4> QED
        BY <1>8, <3>1, <4>1, <4>2, <4>3 DEF RowAgrees
    <3>2. CASE t = r /\ tokens'[r].next = new
      <4>1. RowAgrees(r)
        BY <1>4 DEF RowsAgree
      <4>2. Same(tokens[r], tokens[r].root)'
        BY <1>4, <1>6, <1>8, <4>1 DEF RowAgrees, Same, Kept
      <4>3. Same(tokens[r], new)'
        <5>1. /\ new \in Issued
              /\ tokens[r].profile = tokens[new].profile /\ tokens[r].mfa = tokens[new].mfa
              /\ tokens[r].root = tokens[new].root /\ tokens[r].life = tokens[new].life
          BY <1>3 DEF Same
        <5>2. /\ tokens'[r].profile = tokens'[new].profile /\ tokens'[r].mfa = tokens'[new].mfa
              /\ tokens'[r].root = tokens'[new].root /\ tokens'[r].life = tokens'[new].life
          BY <1>4, <1>6, <5>1
        <5> QED
          BY <1>8, <5>1, <5>2 DEF Same
      <4>4. new # NoToken
        BY <1>4 DEF Tokens, NoToken
      <4> QED
        BY <1>4, <1>8, <3>2, <4>2, <4>3, <4>4 DEF RowAgrees
    <3>3. CASE t \notin Issued
      BY <1>4, <1>5, <1>8, <3>3 DEF RowsAgree
    <3> QED
      BY <1>5, <1>7, <3>1, <3>2, <3>3
  <2> QED
    BY <2>1 DEF RowsAgree
<1>10. \A t \in Tokens : Replacing(t)' \subseteq Replacing(t)
  BY <1>1, <1>3, ReplacingShrinks
<1>11. EndsInTime'
  <2>1. CASE tokens'[r] = tokens[r]
    <3>1. \A t \in Tokens : tokens[t].next # NoToken => t \in Issued
      BY DEF RowsAgree
    <3> QED
      BY <1>5, <1>10, <2>1, <3>1, EndsInTimeKept
  <2>2. CASE tokens'[r].expires = now + Grace /\ tokens[r].expires >= now
    <3> DEFINE all == Cardinality(Requests)
               before == Cardinality(Replacing(r))
               end == tokens[r].created + tokens[r].life
    <3>1. /\ tokens[r].expires \in Nat /\ tokens[r].created \in Nat /\ tokens[r].life \in Nat
      BY <1>4, ConstantsAssumption DEF TypeOK, Row, Lives
    <3>2. /\ before \in Nat /\ all \in Nat
          /\ Grace * before \in Nat /\ Grace * all \in Nat /\ Grace * before <= Grace * all
      BY ReplacingFinite, ProductMonotone, ConstantsAssumption
    <3>3. tokens[r].expires + Grace * before <= end + Grace * all
      <4>1. CASE tokens[r].next = NoToken
        <5>1. tokens[r].expires = end
          BY <1>4, <4>1 DEF RowsAgree, RowAgrees
        <5> QED
          BY <3>1, <3>2, <5>1
      <4>2. CASE tokens[r].next # NoToken
        BY <1>4, <4>2 DEF EndsInTime
      <4> QED
        BY <4>1, <4>2
    <3>4. Replacing(r)' = Replacing(r) \ {p} /\ p \in Replacing(r)
      BY <1>0, <1>1, <1>2, <1>3 DEF Replacing, OthersKept
    <3>5. Cardinality(Replacing(r)') = before - 1
      BY <3>4, ReplacingFinite, FS_RemoveElement
    <3>6. Grace * (before - 1) = Grace * before - Grace
      BY <3>2, ConstantsAssumption
    <3>7. tokens'[r].expires + Grace * Cardinality(Replacing(r)') <= end + Grace * all
      <4> HIDE DEF before, all, end
      <4>1. end \in Nat
        BY <3>1 DEF end
      <4> QED
        BY <1>2, <2>2, <3>1, <3>2, <3>3, <3>5, <3>6, <4>1, ConstantsAssumption
    <3>8. ASSUME NEW t \in Tokens \ {r}, tokens'[t].next # NoToken
          PROVE  tokens'[t].expires + Grace * Cardinality(Replacing(t)')
                   <= tokens'[t].created + tokens'[t].life + Grace * all
      <4>1. tokens'[t] = tokens[t] /\ t \in Issued
        BY <1>5, <3>8 DEF RowsAgree
      <4>2. tokens[t].expires + Grace * Cardinality(Replacing(t))
              <= tokens[t].created + tokens[t].life + Grace * all
        BY <3>8, <4>1 DEF EndsInTime
      <4>3. /\ Grace * Cardinality(Replacing(t)') \in Nat /\ Grace * Cardinality(Replacing(t)) \in Nat
            /\ Grace * Cardinality(Replacing(t)') <= Grace * Cardinality(Replacing(t))
        BY <1>10, ReplacingFinite, ProductMonotone
      <4>4. /\ tokens[t].expires \in Nat /\ tokens[t].created \in Nat /\ tokens[t].life \in Nat
        BY ConstantsAssumption DEF TypeOK, Row, Lives
      <4> QED
        BY <3>2, <4>1, <4>2, <4>3, <4>4
    <3> QED
      BY <1>4, <1>6, <3>7, <3>8 DEF EndsInTime, Issued
  <2> QED
    BY <1>7, <2>1, <2>2
<1>12. RequestOK(p)'
  <2>1. HasToken(p)'
    BY <1>0, <1>2, <1>4 DEF HasToken
  <2>2. AnswerAgrees(p)'
    BY <1>2, <1>3, <1>8 DEF RequestOK, AnswerAgrees, Match, Kept
  <2>3. SigningAgrees(p)'
    <3>1. Same(req[p].found, req[p].fresh)'
      BY <1>0, <1>2, <1>3, <1>8 DEF Same, Kept
    <3>2. req[p].found \in Row
      BY DEF TypeOK, Request
    <3>3. ~IsSessionToken(req[p].found) => req[p].found.life = DefaultLife
      <4>1. /\ req[p].found.life \in {SessionLife, DefaultLife}
            /\ req[p].found.created \in Nat
        BY <3>2 DEF Row, Lives
      <4>2. SessionLife < DefaultLife
        <5>1. \A m, n \in Nat : m * n \in Nat
          OBVIOUS
        <5> QED
          BY <5>1, ConstantsAssumption, FS_CardinalityType
      <4> QED
        BY <1>3, <4>1, <4>2, ConstantsAssumption DEF IsSessionToken
    <3> QED
      BY <1>2, <3>1, <3>3 DEF SigningAgrees, IsSessionToken
  <2>4. ~(req[p].late /\ req[p].kind # "signIn")
    BY <1>3 DEF RequestOK, LateStaysOut
  <2> QED
    BY <1>2, <1>3, <2>1, <2>2, <2>3, <2>4 DEF RequestOK, ReplacingAgrees, LateStaysOut
<1> QED
  BY <1>1, <1>2, <1>8, <1>9, <1>11, <1>12, RequestsOK, CookiesKept

-------------------------------------------------------------------------------
(* At the start there are the rows of those who have signed in. *)
LEMMA InitInv ==
  ASSUME Init
  PROVE  Inv
<1>1. TypeOK
  BY InitType
<1>2. PICK signedIn \in SUBSET Browsers :
        \E with \in [signedIn -> Tokens], how \in [signedIn -> Users] :
          /\ \A b \in signedIn : tokens[with[b]] = Created(how[b], with[b])
          /\ \A t \in Tokens : tokens[t] = Unused \/ \E b \in signedIn : with[b] = t
          /\ tokens = [t \in Tokens |-> tokens[t]]
          /\ jar = [b \in Browsers |->
               IF b \notin signedIn THEN NoCookies
               ELSE [access |-> [profile |-> how[b].profile, groups |-> how[b].mfa],
                     refresh |-> with[b],
                     persistent |-> ~IsSessionToken(Created(how[b], with[b])),
                     calm |-> TRUE]]
  BY InitShape
<1>3. PICK with \in [signedIn -> Tokens], how \in [signedIn -> Users] :
          /\ \A b \in signedIn : tokens[with[b]] = Created(how[b], with[b])
          /\ \A t \in Tokens : tokens[t] = Unused \/ \E b \in signedIn : with[b] = t
          /\ tokens = [t \in Tokens |-> tokens[t]]
          /\ jar = [b \in Browsers |->
               IF b \notin signedIn THEN NoCookies
               ELSE [access |-> [profile |-> how[b].profile, groups |-> how[b].mfa],
                     refresh |-> with[b],
                     persistent |-> ~IsSessionToken(Created(how[b], with[b])),
                     calm |-> TRUE]]
  BY <1>2
<1>4. ASSUME NEW t \in Tokens
      PROVE  \/ t \notin Issued /\ tokens[t].next = NoToken
             \/ /\ t \in Issued /\ tokens[t].root = t /\ tokens[t].next = NoToken
                /\ tokens[t].expires = tokens[t].created + tokens[t].life
  <2>1. CASE tokens[t] = Unused
    BY <2>1 DEF Unused, Issued
  <2>2. ASSUME NEW b \in signedIn, with[b] = t
        PROVE  /\ t \in Issued /\ tokens[t].root = t /\ tokens[t].next = NoToken
               /\ tokens[t].expires = tokens[t].created + tokens[t].life
    <3>1. tokens[t] = Created(how[b], t)
      BY <1>3, <2>2
    <3>2. /\ tokens[t].status = "live" /\ tokens[t].root = t /\ tokens[t].next = NoToken
          /\ tokens[t].expires = tokens[t].created + tokens[t].life
      BY <3>1 DEF Created
    <3> QED
      BY <3>2 DEF Issued
  <2> QED
    BY <1>3, <2>1, <2>2
<1>5. RowsAgree
  BY <1>4 DEF RowsAgree, RowAgrees, Same
<1>6. EndsInTime
  BY <1>4 DEF EndsInTime, Issued
<1>7. ASSUME NEW p \in Requests
      PROVE  RequestOK(p)
  <2>1. pc[p] = "new" /\ req[p].answer.does = "keep"
    BY <1>7 DEF Init, Blank, Keep
  <2> QED
    BY <2>1 DEF RequestOK, HasToken, ReplacingAgrees, SigningAgrees, AnswerAgrees, LateStaysOut
<1>8. CookiesAgree
  <2>1. ASSUME NEW b \in signedIn
        PROVE  /\ with[b] \in Issued
               /\ tokens[with[b]].profile = how[b].profile /\ tokens[with[b]].mfa = how[b].mfa
               /\ ~IsSessionToken(Created(how[b], with[b])) =>
                    tokens[with[b]].life = DefaultLife
    <3>1. tokens[with[b]] = Created(how[b], with[b]) /\ now = 0
      BY <1>3 DEF Init
    <3>2. SessionLife < DefaultLife
      <4>1. \A m, n \in Nat : m * n \in Nat
        OBVIOUS
      <4> QED
        BY <4>1, ConstantsAssumption, FS_CardinalityType
    <3> QED
      BY <3>1, <3>2, ConstantsAssumption DEF Created, Issued, IsSessionToken
  <2>2. ASSUME NEW b \in Browsers \ signedIn
        PROVE  jar[b].access = Anonymous /\ ~jar[b].persistent
    BY <1>3 DEF NoCookies
  <2>3. ASSUME NEW b \in signedIn
        PROVE  /\ jar[b].access = [profile |-> tokens[with[b]].profile,
                                   groups |-> tokens[with[b]].mfa]
               /\ jar[b].refresh = with[b]
               /\ jar[b].persistent => tokens[with[b]].life = DefaultLife
    <3> DEFINE persistent == ~IsSessionToken(Created(how[b], with[b]))
    <3>1. jar[b] = [access |-> [profile |-> how[b].profile, groups |-> how[b].mfa],
                    refresh |-> with[b], persistent |-> persistent, calm |-> TRUE]
      BY <1>3
    <3>2. persistent => tokens[with[b]].life = DefaultLife
      BY <2>1
    <3> HIDE DEF persistent
    <3> QED
      BY <2>1, <3>1, <3>2
  <2>4. \A b \in signedIn : with[b] \in Issued
    BY <2>1
  <2> QED
    BY <2>2, <2>3, <2>4 DEF CookiesAgree
<1> QED
  BY <1>1, <1>5, <1>6, <1>7, <1>8 DEF Inv

LEMMA NextInv ==
  ASSUME Inv, [Next]_vars
  PROVE  Inv'
<1>1. TypeOK'
  BY NextType DEF Inv, RequestOK, RequestsHaveTokens
<1>2. CASE UNCHANGED vars
  <2>1. UNCHANGED <<now, tokens, jar, req, pc>>
    BY <1>2 DEF vars
  <2>2. now' >= now
    BY <2>1 DEF Inv, TypeOK
  <2>3. RowsAgree' /\ EndsInTime' /\ Kept
    BY <1>1, <2>1, <2>2, RowsUnchanged DEF Replacing
  <2>4. \A q \in Requests : RequestOK(q)'
    BY <2>1, <2>3, OtherRequestOK DEF Inv
  <2> QED
    BY <1>1, <2>1, <2>3, <2>4, CookiesKept DEF Inv
<1>3. CASE Next
  BY <1>1, <1>3, SendInv, AnsweredInv, TimeInv, UseInv, PassedInv, SignOutInv, SignInInv,
     CreateInv, RevokeInv
     DEF Next, Refresh, Handle
<1> QED
  BY <1>2, <1>3

-------------------------------------------------------------------------------
(* The theorems. *)

LEMMA InvAlways == Spec => []Inv
  BY InitInv, NextInv, PTL DEF Spec

(* Tokens, cookies, requests and the clock have their types. *)
THEOREM TypeCorrect == Spec => []TypeOK
<1>1. Inv => TypeOK
  BY DEF Inv
<1> QED
  BY <1>1, InvAlways, PTL

(* Whatever requests replace a token, however they cross, its successors are for
   the profile that signed in, for as long and with the factors of that sign-in. *)
THEOREM ChainsAreKept == Spec => []ChainsKeepTheSignIn
<1>1. Inv => ChainsKeepTheSignIn
  <2> SUFFICES ASSUME Inv, NEW t \in Issued
               PROVE  LET root == tokens[tokens[t].root] IN
                      /\ tokens[t].profile = root.profile
                      /\ tokens[t].mfa = root.mfa
                      /\ tokens[t].life = root.life
    BY DEF ChainsKeepTheSignIn
  <2>1. RowAgrees(t)
    BY DEF Inv, RowsAgree, Issued
  <2> QED
    BY <2>1 DEF RowAgrees, Same
<1> QED
  BY <1>1, InvAlways, PTL

(* The access token of a browser is for the profile and with the factors of its
   refresh token, and its cookies outlive it only if that was asked for. *)
THEOREM CookiesAlwaysAgree == Spec => []CookiesAgree
<1>1. Inv => CookiesAgree
  BY DEF Inv
<1> QED
  BY <1>1, InvAlways, PTL

(* Only a request that is about to replace a token moves its end. *)
LEMMA LatestEndKept ==
  ASSUME Inv, NEW t \in Tokens, tokens[t].next # NoToken,
         tokens'[t].expires = tokens[t].expires, Replacing(t)' \subseteq Replacing(t)
  PROVE  LatestEnd(t)' <= LatestEnd(t)
<1>1. /\ Grace * Cardinality(Replacing(t)') \in Nat /\ Grace * Cardinality(Replacing(t)) \in Nat
      /\ Grace * Cardinality(Replacing(t)') <= Grace * Cardinality(Replacing(t))
  BY ProductMonotone, ReplacingFinite
<1>2. tokens[t].expires \in Nat
  BY DEF Inv, TypeOK, Row
<1> QED
  BY <1>1, <1>2 DEF LatestEnd

(* A request that replaces its token will not do it again. *)
LEMMA RevokeEnds ==
  ASSUME Inv, NEW p \in Requests, RevokeUsed(p), NEW t \in Tokens, tokens'[t].next # NoToken
  PROVE  LatestEnd(t)' <= IF tokens[t].next # NoToken THEN LatestEnd(t)
                          ELSE now + Grace * Cardinality(Replacing(t))
<1> USE DEF Inv
<1>1. OthersKept(p) /\ req' = req /\ pc[p] = "revoke" /\ pc'[p] = "sign"
  BY DEF OthersKept, RevokeUsed, TypeOK
<1>2. tokens' = [tokens EXCEPT ![req[p].refresh] = Revoked(@, req[p].fresh)]
  BY DEF RevokeUsed
<1>3. Replacing(t)' \subseteq Replacing(t)
  BY <1>1, ReplacingShrinks
<1>4. CASE tokens'[t] = tokens[t]
  BY <1>3, <1>4, LatestEndKept
<1>5. CASE t = req[p].refresh /\ tokens[t].expires >= now /\ tokens'[t].expires = now + Grace
  <2> DEFINE before == Cardinality(Replacing(t))
  <2>1. Replacing(t)' = Replacing(t) \ {p} /\ p \in Replacing(t)
    BY <1>1, <1>5 DEF Replacing, OthersKept
  <2>2. Cardinality(Replacing(t)') = before - 1 /\ before \in Nat
    BY <2>1, ReplacingFinite, FS_RemoveElement, FS_CardinalityType
  <2>3. Grace * (before - 1) = Grace * before - Grace /\ Grace * before \in Nat
    BY <2>2, ProductMonotone, ReplacingFinite, ConstantsAssumption
  <2>4. now \in Nat /\ tokens[t].expires \in Nat
    BY DEF TypeOK, Row
  <2>5. LatestEnd(t)' = now + Grace * before
    <3>1. LatestEnd(t)' = (now + Grace) + (Grace * before - Grace)
      BY <1>5, <2>2, <2>3 DEF LatestEnd
    <3> HIDE DEF before
    <3> QED
      BY <2>3, <2>4, <3>1, ConstantsAssumption
  <2>6. /\ now + Grace * before <= now + Grace * before
        /\ now + Grace * before <= tokens[t].expires + Grace * before
    <3> HIDE DEF before
    <3> QED
      BY <1>5, <2>3, <2>4
  <2>7. LatestEnd(t) = tokens[t].expires + Grace * before
    BY DEF LatestEnd
  <2> HIDE DEF before
  <2>8. CASE tokens[t].next # NoToken
    BY <2>5, <2>6, <2>7, <2>8
  <2>9. CASE tokens[t].next = NoToken
    <3>1. LatestEnd(t)' <= now + Grace * before
      BY <2>5, <2>6
    <3> QED
      BY <2>9, <3>1 DEF before
  <2> QED
    BY <2>8, <2>9
<1>6. tokens'[t] = tokens[t]
        \/ (t = req[p].refresh /\ tokens[t].expires >= now /\ tokens'[t].expires = now + Grace)
  BY <1>2 DEF Revoked, TypeOK, Row
<1> QED
  BY <1>4, <1>5, <1>6

(* No other step replaces a token; rows that are inserted have no successor, and a
   request finds a token not replaced only before it is. *)
LEMMA OthersReplaceNone ==
  ASSUME Inv, [Next]_vars, \A p \in Requests : ~RevokeUsed(p),
         NEW t \in Tokens, tokens'[t].next # NoToken
  PROVE  /\ tokens[t].next # NoToken /\ tokens'[t].expires = tokens[t].expires
         /\ Replacing(t)' \subseteq Replacing(t)
<1> USE DEF Inv
<1> DEFINE Stays == /\ tokens[t].next # NoToken /\ tokens'[t].expires = tokens[t].expires
                    /\ Replacing(t)' \subseteq Replacing(t)
<1>1. CASE UNCHANGED <<tokens, req, pc>>
  BY <1>1 DEF Replacing
<1>2. ASSUME NEW p \in Requests, OthersKept(p), tokens' = tokens,
             pc'[p] \notin {"create", "revoke"}
      PROVE  Stays
  BY <1>2, ReplacingShrinks
<1>3. ASSUME NEW p \in Requests, NEW b \in Browsers, NEW kind \in Kinds, Send(p, b, kind)
      PROVE  Stays
  <2>1. OthersKept(p) /\ tokens' = tokens /\ pc'[p] \in {"use", "handle"}
    BY <1>3 DEF OthersKept, Send, TypeOK
  <2> QED
    BY <1>2, <2>1
<1>4. ASSUME NEW p \in Requests, Respond(p) \/ Lose(p)
      PROVE  Stays
  <2>1. OthersKept(p) /\ tokens' = tokens /\ pc'[p] = "done"
    BY <1>4 DEF OthersKept, Respond, Lose, TypeOK
  <2> QED
    BY <1>2, <2>1
<1>5. ASSUME NEW p \in Requests, Sign(p) \/ Fail(p) \/ RefreshEndpoint(p)
      PROVE  Stays
  <2>1. OthersKept(p) /\ tokens' = tokens /\ pc'[p] \in {"use", "respond", "handle"}
    BY <1>5 DEF OthersKept, Sign, Fail, RefreshEndpoint, Passed, TypeOK
  <2> QED
    BY <1>2, <2>1
<1>6. ASSUME NEW p \in Requests, Use(p)
      PROVE  Stays
  <2>1. OthersKept(p) /\ tokens' = tokens
    BY <1>6 DEF OthersKept, Use, TypeOK
  <2>2. \/ pc'[p] \notin {"create", "revoke"}
        \/ tokens[req[p].refresh].next = NoToken /\ req'[p].refresh = req[p].refresh
    BY <1>6 DEF Use, Passed, TypeOK, Request
  <2>3. tokens[t].next # NoToken
    BY <2>1
  <2> QED
    BY <2>1, <2>2, <2>3, ReplacingShrinks
<1>7. ASSUME NEW p \in Requests, NEW new \in Tokens, NEW how, NEW root, OthersKept(p),
             Fresh(new), tokens' = [tokens EXCEPT ![new] = Created(how, root)],
             pc'[p] \notin {"create", "revoke"} \/ p \in Replacing(req'[p].refresh)
      PROVE  Stays
  <2>1. tokens'[new].next = NoToken /\ \A u \in Tokens \ {new} : tokens'[u] = tokens[u]
    BY <1>7 DEF Created, TypeOK
  <2>2. t # new
    BY <2>1
  <2>3. Replacing(t)' \subseteq Replacing(t)
    BY <1>7 DEF Replacing, OthersKept
  <2> QED
    BY <2>1, <2>2, <2>3
<1>8. ASSUME NEW p \in Requests, CreateSuccessor(p)
      PROVE  Stays
  <2>1. OthersKept(p) /\ req'[p].refresh = req[p].refresh /\ pc[p] = "create"
    BY <1>8 DEF OthersKept, CreateSuccessor, TypeOK, Request
  <2>2. p \in Replacing(req'[p].refresh)
    BY <2>1 DEF Replacing
  <2> QED
    BY <1>7, <1>8, <2>1, <2>2 DEF CreateSuccessor
<1>9. ASSUME NEW p \in Requests, SignIn(p)
      PROVE  Stays
  <2>1. OthersKept(p) /\ pc'[p] \in {"sign", "respond"}
    BY <1>9 DEF OthersKept, SignIn, TypeOK
  <2> QED
    BY <1>2, <1>7, <1>9, <2>1 DEF SignIn
<1>10. ASSUME NEW p \in Requests, SignOut(p)
       PROVE  Stays
  <2>1. OthersKept(p) /\ pc'[p] = "respond"
    BY <1>10 DEF OthersKept, SignOut, TypeOK
  <2>2. tokens'[t].next = tokens[t].next /\ tokens'[t].expires = tokens[t].expires
    BY <1>10 DEF SignOut, Removed, TypeOK, Row
  <2> QED
    BY <2>1, <2>2, ReplacingShrinks
<1> QED
  BY <1>1, <1>3, <1>4, <1>5, <1>6, <1>8, <1>9, <1>10
     DEF Next, Refresh, Handle, AccessExpires, Tick, vars

(* A token that is replaced ends within a grace time for each request that had found
   it not replaced, for any number of requests, browsers and lifetimes: no later use
   puts that end off. *)
THEOREM UsedTokensAlwaysEnd == Spec => UsedTokensEnd
<1>1. Inv /\ [Next]_vars =>
        [\A t \in Tokens :
           tokens'[t].next # NoToken =>
             LatestEnd(t)' <= IF tokens[t].next # NoToken THEN LatestEnd(t)
                              ELSE now + Grace * Cardinality(Replacing(t))]_vars
  <2> SUFFICES ASSUME Inv, [Next]_vars, NEW t \in Tokens, tokens'[t].next # NoToken
               PROVE  LatestEnd(t)' <= IF tokens[t].next # NoToken THEN LatestEnd(t)
                                       ELSE now + Grace * Cardinality(Replacing(t))
    OBVIOUS
  <2>1. CASE \E p \in Requests : RevokeUsed(p)
    BY <2>1, RevokeEnds
  <2>2. CASE \A p \in Requests : ~RevokeUsed(p)
    BY <2>2, OthersReplaceNone, LatestEndKept
  <2> QED
    BY <2>1, <2>2
<1> QED
  BY <1>1, InvAlways, PTL DEF Spec, UsedTokensEnd

(* A request that comes with a token that was signed out before gets no tokens. *)
THEOREM SignedOutStaysAnonymous == Spec => []SignedOutIsAnonymous
<1>1. Inv => SignedOutIsAnonymous
  BY DEF Inv, RequestOK, LateStaysOut, SignedOutIsAnonymous
<1> QED
  BY <1>1, InvAlways, PTL

-------------------------------------------------------------------------------
(* Browsers that send one request after the other. What they hold is of chains
   of their own, so that nobody else uses it up; and of what they hold one token
   is unspent, which the request in flight, if any, passes on. *)

Flies(p, b) == pc[p] \notin {"new", "done"} /\ req[p].browser = b
Carries(p) == {req[p].refresh, req[p].fresh, req[p].answer.refresh}
Holds(b, t) ==
  jar[b].refresh = t \/ \E p \in Requests : Flies(p, b) /\ t \in Carries(p)

(* Two browsers never hold tokens that go back to the same sign-in. *)
HoldersInv ==
  /\ \A b \in Browsers, t \in Tokens : Holds(b, t) => t \in Issued
  /\ \A b1, b2 \in Browsers : \A t1, t2 \in Tokens :
       Holds(b1, t1) /\ Holds(b2, t2) /\ tokens[t1].root = tokens[t2].root => b1 = b2

(* Nobody has used up an unspent token; who uses one that leads ends with one. *)
Unspent(t) == tokens[t].status = "live" /\ tokens[t].next = NoToken
Leads(t) ==
  tokens[t].status = "live" /\ (tokens[t].next = NoToken \/ Unspent(tokens[t].next))

(* The token that the browser has if the answer of p so far is what it gets. *)
Outcome(p, b) ==
  IF req[p].answer.does = "set" THEN req[p].answer.refresh ELSE jar[b].refresh

(* What a browser gets from its only request *)
Flight(p, b) ==
  /\ pc[p] \in {"use", "handle", "respond"} =>
       req[p].answer.does = "clear" \/ Outcome(p, b) = NoToken \/ Unspent(Outcome(p, b))
  /\ pc[p] \in {"use", "handle"} \/ (pc[p] = "sign" /\ ~req[p].again) =>
       req[p].refresh = NoToken \/ Leads(req[p].refresh)
  /\ pc[p] \in {"create", "revoke"} => Unspent(req[p].refresh)
  /\ pc[p] = "revoke" => req[p].fresh # req[p].refresh
  /\ pc[p] \in {"revoke", "sign"} => Unspent(req[p].fresh)

Calm(b) ==
  jar[b].calm =>
    /\ \A p, q \in Requests : Flies(p, b) /\ Flies(q, b) => p = q
    /\ (\A p \in Requests : ~Flies(p, b)) =>
         jar[b].refresh = NoToken \/ Unspent(jar[b].refresh)
    /\ \A p \in Requests : Flies(p, b) => Flight(p, b)
CalmInv == \A b \in Browsers : Calm(b)

LEMMA StepKept ==
  ASSUME Inv, [Next]_vars
  PROVE  Kept
<1>1. CASE tokens' = tokens
  BY <1>1, UnchangedKept
<1>2. ASSUME NEW t \in Tokens, NEW row, Fresh(t), tokens' = [tokens EXCEPT ![t] = row],
             row.status = "live"
      PROVE  Kept
  <2>1. t \notin Issued
    BY <1>2 DEF Fresh, Issued
  <2>2. \A s \in Issued : s # t /\ tokens'[s] = tokens[s]
    BY <1>2, <2>1 DEF Issued, Inv, TypeOK
  <2> QED
    BY <2>2 DEF Kept, Issued
<1>3. ASSUME NEW p \in Requests, CreateSuccessor(p) \/ SignIn(p)
      PROVE  Kept
  BY <1>1, <1>2, <1>3 DEF CreateSuccessor, SignIn, Created
<1>4. ASSUME NEW p \in Requests, RevokeUsed(p)
      PROVE  Kept
  <2>1. req[p].refresh \in Tokens
    BY <1>4 DEF Inv, RequestOK, HasToken, RevokeUsed
  <2>2. \A t \in Tokens : \/ tokens'[t] = tokens[t]
                          \/ tokens'[t] = Revoked(tokens[t], req[p].fresh)
    BY <1>4, <2>1 DEF RevokeUsed, Inv, TypeOK
  <2>3. \A t \in Tokens : tokens[t] \in Row
    BY DEF Inv, TypeOK
  <2> QED
    BY <2>2, <2>3 DEF Revoked, Kept, Issued, Row
<1>5. ASSUME NEW p \in Requests, SignOut(p)
      PROVE  Kept
  <2>2. \A t \in Tokens : tokens'[t] = tokens[t] \/ tokens'[t] = Removed(tokens[t])
    BY <1>5 DEF SignOut, Inv, TypeOK
  <2>3. \A t \in Tokens : tokens[t] \in Row
    BY DEF Inv, TypeOK
  <2> QED
    BY <2>2, <2>3 DEF Removed, Kept, Issued, Row
<1> QED
  BY <1>1, <1>3, <1>4, <1>5
     DEF Next, Refresh, Handle, Send, Respond, Lose, AccessExpires, Tick, Use, Sign, Fail,
         RefreshEndpoint, vars

(* What is held afterwards was held, or succeeds what was, or begins a chain. *)
LEMMA HoldersStep ==
  ASSUME Inv, HoldersInv, Kept, NEW b,
         \A c \in Browsers, t \in Tokens : Holds(c, t)' =>
           /\ t \in Issued'
           /\ \/ \E s \in Tokens : Holds(c, s) /\ tokens'[t].root = tokens[s].root
              \/ c = b /\ tokens'[t].root \notin Issued
  PROVE  HoldersInv'
<1>1. \A c \in Browsers, s \in Tokens :
        Holds(c, s) => tokens[s].root \in Issued
  BY DEF HoldersInv, Inv, RowsAgree, RowAgrees, Same
<1> QED
  BY <1>1 DEF HoldersInv

(* Steps of a request in flight. *)
LEMMA HoldersInFlight ==
  ASSUME Inv, HoldersInv, Kept, NEW p \in Requests, OthersKept(p),
         pc[p] \notin {"new", "done"}, req'[p].browser = req[p].browser,
         \A c \in Browsers :
           \/ jar'[c].refresh = jar[c].refresh
           \/ jar'[c].refresh = NoToken
           \/ c = req[p].browser /\ jar'[c].refresh \in Carries(p),
         \A t \in Tokens : t \in Carries(p)' =>
           \/ t \in Carries(p)
           \/ \E s \in Carries(p) \cap Tokens :
                t \in Issued /\ tokens[t].root = tokens[s].root
           \/ t \in Issued' /\ \E s \in Carries(p) \cap Tokens : tokens'[t].root = tokens[s].root
           \/ t \in Issued' /\ tokens'[t].root \notin Issued
  PROVE  HoldersInv'
<1> SUFFICES ASSUME NEW c \in Browsers, NEW t \in Tokens, Holds(c, t)'
             PROVE  /\ t \in Issued'
                    /\ \/ \E s \in Tokens : Holds(c, s) /\ tokens'[t].root = tokens[s].root
                       \/ c = req[p].browser /\ tokens'[t].root \notin Issued
  BY HoldersStep
<1>1. NoToken \notin Tokens
  BY DEF NoToken, Tokens
<1>2. CASE Holds(c, t)
  BY <1>2 DEF HoldersInv, Kept
<1>3. CASE jar'[c].refresh = t /\ ~Holds(c, t)
  BY <1>1, <1>2, <1>3 DEF Holds, Flies
<1>4. ASSUME NEW q \in Requests, Flies(q, c)', t \in Carries(q)', ~Holds(c, t)
      PROVE  /\ t \in Issued'
             /\ \/ \E s \in Tokens : Holds(c, s) /\ tokens'[t].root = tokens[s].root
                \/ c = req[p].browser /\ tokens'[t].root \notin Issued
  <2>1. q = p
    BY <1>4 DEF Holds, Flies, Carries, OthersKept
  <2>2. c = req[p].browser /\ Flies(p, c)
    BY <1>4, <2>1 DEF Flies
  <2>3. \A s \in Tokens : s \in Carries(p) => Holds(c, s)
    BY <2>2 DEF Holds
  <2> QED
    BY <1>4, <2>1, <2>2, <2>3 DEF Kept
<1> QED
  BY <1>2, <1>3, <1>4 DEF Holds

(* A browser that is not concerned stays calm. *)
LEMMA OthersStayCalm ==
  ASSUME Inv, HoldersInv, NEW p \in Requests, OthersKept(p), NEW b \in Browsers,
         NEW c \in Browsers \ {b}, ~Flies(p, c), ~Flies(p, c)',
         jar'[c].refresh = jar[c].refresh, jar'[c].calm = jar[c].calm,
         \A t \in Issued : \/ Holds(b, t)
                           \/ tokens'[t].status = tokens[t].status
                                /\ tokens'[t].next = tokens[t].next,
         Calm(c)
  PROVE  Calm(c)'
<1> SUFFICES ASSUME jar[c].calm
             PROVE  Calm(c)'
  BY DEF Calm
<1>1. \A q \in Requests : /\ Flies(q, c)' <=> Flies(q, c)
                          /\ Flies(q, c) => req'[q] = req[q] /\ pc'[q] = pc[q]
  BY DEF OthersKept, Flies
<1>2. NoToken \notin Tokens
  BY DEF NoToken, Tokens
<1>3. ASSUME NEW t \in Tokens, NEW s \in Tokens, Holds(c, s), t \in Issued,
             tokens[t].root = tokens[s].root
      PROVE  tokens'[t].status = tokens[t].status /\ tokens'[t].next = tokens[t].next
  BY <1>3 DEF HoldersInv
<1>4. ASSUME NEW t \in Tokens, Holds(c, t)
      PROVE  /\ Unspent(t) => Unspent(t)'
             /\ Leads(t) => Leads(t)'
  <2>1. t \in Issued
    BY <1>4 DEF HoldersInv
  <2>2. tokens'[t].status = tokens[t].status /\ tokens'[t].next = tokens[t].next
    BY <1>3, <1>4, <2>1
  <2>3. CASE tokens[t].next = NoToken
    BY <2>2, <2>3 DEF Unspent, Leads
  <2>4. CASE tokens[t].next # NoToken
    <3>1. Same(tokens[t], tokens[t].next)
      BY <2>1, <2>4 DEF Inv, RowsAgree, RowAgrees
    <3>2. /\ tokens'[tokens[t].next].status = tokens[tokens[t].next].status
          /\ tokens'[tokens[t].next].next = tokens[tokens[t].next].next
      BY <1>3, <1>4, <3>1 DEF Same, Issued
    <3> QED
      BY <2>2, <3>2 DEF Unspent, Leads
  <2> QED
    BY <2>3, <2>4
<1>5. jar[c].refresh \in AnyToken
  BY DEF Inv, TypeOK, Cookies
<1>6. jar[c].refresh = NoToken \/ (Unspent(jar[c].refresh) => Unspent(jar[c].refresh)')
  BY <1>4, <1>5 DEF AnyToken, Holds
<1>7. ASSUME NEW q \in Requests, Flies(q, c)
      PROVE  Flight(q, c)'
  <2>1. Flight(q, c)
    BY <1>7 DEF Calm
  <2>2. /\ req[q].refresh \in AnyToken /\ req[q].fresh \in AnyToken
        /\ req[q].answer.refresh \in AnyToken
    BY DEF Inv, TypeOK, Request, Answer
  <2>3. \A t \in Carries(q) \cap Tokens : Holds(c, t)
    BY <1>7 DEF Holds
  <2>4. pc[q] \in {"create", "revoke"} => req[q].refresh \in Tokens
    BY DEF Inv, RequestOK, HasToken
  <2>5. pc[q] \in {"revoke", "sign"} => req[q].fresh \in Tokens
    BY DEF Inv, RequestOK, ReplacingAgrees, SigningAgrees, Same, Issued
  <2>6. req'[q] = req[q] /\ pc'[q] = pc[q]
    BY <1>1, <1>7
  <2>7. Outcome(q, c)' = Outcome(q, c)
    BY <2>6 DEF Outcome
  <2>8. Outcome(q, c) = NoToken \/ (Unspent(Outcome(q, c)) => Unspent(Outcome(q, c))')
    BY <1>4, <1>6, <2>2, <2>3, <2>6, <2>7 DEF Outcome, AnyToken, Carries
  <2>9. req[q].refresh = NoToken \/ /\ Leads(req[q].refresh) => Leads(req[q].refresh)'
                                    /\ Unspent(req[q].refresh) => Unspent(req[q].refresh)'
    BY <1>4, <2>2, <2>3, <2>6 DEF AnyToken, Carries
  <2>10. req[q].fresh = NoToken \/ (Unspent(req[q].fresh) => Unspent(req[q].fresh)')
    BY <1>4, <2>2, <2>3, <2>6 DEF AnyToken, Carries
  <2> QED
    BY <1>2, <2>1, <2>4, <2>5, <2>6, <2>7, <2>8, <2>9, <2>10 DEF Flight
<1> QED
  BY <1>1, <1>6, <1>7 DEF Calm

(* The browser of the step's request stays calm if the request does its part:
   there is no other. *)
LEMMA OwnCalm ==
  ASSUME TypeOK, NEW p \in Requests, OthersKept(p), NEW b \in Browsers, Calm(b),
         Flies(p, b), req'[p].browser = b, jar'[b].calm => jar[b].calm,
         jar[b].calm /\ Flight(p, b) =>
           IF pc'[p] = "done" THEN jar'[b].refresh = NoToken \/ Unspent(jar[b].refresh)'
           ELSE pc'[p] # "new" /\ Flight(p, b)'
  PROVE  Calm(b)'
<1> SUFFICES ASSUME jar[b].calm
             PROVE  Calm(b)'
  BY DEF Calm
<1>1. Flight(p, b) /\ \A q \in Requests : Flies(q, b) => q = p
  BY DEF Calm
<1>2. \A q \in Requests : Flies(q, b)' => q = p
  BY <1>1 DEF OthersKept, Flies
<1>3. CASE pc'[p] = "done"
  BY <1>1, <1>2, <1>3 DEF Calm, Flies
<1>4. CASE pc'[p] # "done"
  BY <1>1, <1>2, <1>4 DEF Calm, Flies
<1> QED
  BY <1>3, <1>4

(* A step of a request in flight. *)
LEMMA CalmInFlight ==
  ASSUME Inv, HoldersInv, CalmInv, NEW p \in Requests, OthersKept(p), NEW b \in Browsers,
         Flies(p, b), req'[p].browser = b,
         \A c \in Browsers \ {b} : jar'[c] = jar[c],
         jar'[b].calm => jar[b].calm,
         \A t \in Issued : \/ Holds(b, t)
                           \/ tokens'[t].status = tokens[t].status
                                /\ tokens'[t].next = tokens[t].next,
         jar[b].calm /\ Flight(p, b) /\ jar'[b].calm =>
           IF pc'[p] = "done" THEN jar'[b].refresh = NoToken \/ Unspent(jar[b].refresh)'
           ELSE pc'[p] # "new" /\ Flight(p, b)'
  PROVE  CalmInv'
<1>1. ASSUME NEW c \in Browsers \ {b}
      PROVE  Calm(c)'
  <2>1. ~Flies(p, c) /\ ~Flies(p, c)'
    BY DEF Flies
  <2> QED
    BY <2>1, OthersStayCalm DEF CalmInv
<1>2. Calm(b)'
  <2>1. CASE jar'[b].calm
    BY <2>1, OwnCalm DEF CalmInv, Inv
  <2>2. CASE ~jar'[b].calm
    BY <2>2 DEF Calm
  <2> QED
    BY <2>1, <2>2
<1> QED
  BY <1>1, <1>2 DEF CalmInv

LEMMA SendCalm ==
  ASSUME Inv, HoldersInv, CalmInv, NEW p \in Requests, NEW b \in Browsers, NEW kind \in Kinds,
         Send(p, b, kind)
  PROVE  HoldersInv' /\ CalmInv'
<1> USE DEF Inv
<1>1. OthersKept(p) /\ pc[p] = "new" /\ pc'[p] \in {"use", "handle"} /\ tokens' = tokens
  BY DEF OthersKept, Send, TypeOK
<1>2. Kept
  BY <1>1, UnchangedKept
<1>3. /\ \A c \in Browsers \ {b} : jar'[c] = jar[c]
      /\ jar'[b].refresh = jar[b].refresh
      /\ jar'[b].calm <=> jar[b].calm /\ ~InFlight(b)
  BY DEF Send, TypeOK, Cookies
<1>4. /\ req'[p].browser = b /\ req'[p].refresh = jar[b].refresh /\ req'[p].fresh = NoToken
      /\ req'[p].answer = Keep
  <2> DEFINE late == ~(jar[b].access # Anonymous) /\ jar[b].refresh # NoToken
                       /\ tokens[jar[b].refresh].status = "deleted"
  <2>1. req'[p] = [Blank(b) EXCEPT !.kind = kind, !.refresh = jar[b].refresh, !.late = late]
    BY DEF Send, TypeOK
  <2> HIDE DEF late
  <2> QED
    BY <2>1 DEF Blank
<1>5. NoToken \notin Tokens
  BY DEF NoToken, Tokens
<1>6. HoldersInv'
  <2>1. ASSUME NEW c \in Browsers, NEW t \in Tokens, Holds(c, t)'
        PROVE  Holds(c, t)
    BY <1>1, <1>3, <1>4, <1>5, <2>1 DEF Holds, Flies, Carries, OthersKept, Keep
  <2> QED
    BY <1>2, <2>1, HoldersStep DEF HoldersInv, Kept
<1>7. ASSUME NEW c \in Browsers \ {b}
      PROVE  Calm(c)'
  <2>1. ~Flies(p, c) /\ ~Flies(p, c)'
    BY <1>1, <1>4 DEF Flies
  <2> QED
    BY <1>1, <1>3, <2>1, OthersStayCalm DEF CalmInv
<1>8. Calm(b)'
  <2> SUFFICES ASSUME jar[b].calm, ~InFlight(b)
               PROVE  Calm(b)'
    BY <1>3 DEF Calm
  <2>1. jar[b].refresh = NoToken \/ Unspent(jar[b].refresh)
    BY DEF Calm, CalmInv, InFlight, Flies
  <2>2. \A q \in Requests : Flies(q, b)' <=> q = p
    BY <1>1, <1>4 DEF Flies, InFlight, OthersKept
  <2>3. Flight(p, b)'
    BY <1>1, <1>3, <1>4, <2>1 DEF Flight, Outcome, Keep, Unspent, Leads
  <2> QED
    BY <2>2, <2>3 DEF Calm
<1> QED
  BY <1>6, <1>7, <1>8 DEF CalmInv

(* The clock and the access tokens have no part in this. *)
LEMMA TimeCalm ==
  ASSUME Inv, HoldersInv, CalmInv,
         UNCHANGED <<tokens, req, pc>>, \A b \in Browsers : /\ jar'[b].refresh = jar[b].refresh
                                                           /\ jar'[b].calm = jar[b].calm
  PROVE  HoldersInv' /\ CalmInv'
<1>1. \A b \in Browsers, t \in Tokens : Holds(b, t)' <=> Holds(b, t)
  BY DEF Holds, Flies, Carries
<1>2. HoldersInv'
  BY <1>1 DEF HoldersInv, Issued
<1>3. \A b \in Browsers, p \in Requests : Flight(p, b)' <=> Flight(p, b)
  BY DEF Flight, Outcome, Unspent, Leads
<1>4. CalmInv'
  BY <1>3 DEF CalmInv, Calm, Flies, Unspent
<1> QED
  BY <1>2, <1>4

(* The end of a request. *)
LEMMA EndCalm ==
  ASSUME Inv, HoldersInv, CalmInv, NEW p \in Requests, Respond(p) \/ Lose(p)
  PROVE  HoldersInv' /\ CalmInv'
<1> USE DEF Inv
<1>1. PICK b \in Browsers : req[p].browser = b /\ Flies(p, b)
  BY DEF TypeOK, Request, Respond, Lose, Flies
<1>2. OthersKept(p) /\ pc'[p] = "done" /\ req'[p] = Blank(b) /\ tokens' = tokens
  BY <1>1 DEF OthersKept, Respond, Lose, TypeOK
<1>3. Kept
  BY <1>2, UnchangedKept
<1>4. \A c \in Browsers \ {b} : jar'[c] = jar[c]
  BY <1>1 DEF Respond, Lose, TypeOK
<1>5. req'[p].browser = b /\ Carries(p)' = {NoToken}
  BY <1>2 DEF Carries, Blank, Keep
<1>6. /\ Lose(p) => jar'[b].refresh = jar[b].refresh /\ ~jar'[b].calm
      /\ Respond(p) => /\ jar'[b].calm = jar[b].calm
                       /\ jar'[b].refresh = IF req[p].answer.does = "clear" THEN NoToken
                                            ELSE Outcome(p, b)
  <2>1. req[p].answer.does \in {"keep", "set", "clear"}
    BY DEF TypeOK, Request, Answer
  <2>2. jar[b] \in Cookies
    BY <1>1 DEF TypeOK
  <2> QED
    BY <1>1, <2>1, <2>2 DEF Respond, Lose, TypeOK, Cookies, Outcome, NoCookies
<1>7. NoToken \notin Tokens
  BY DEF NoToken, Tokens
<1>8. HoldersInv'
  <2>1. \A c \in Browsers : \/ jar'[c].refresh = jar[c].refresh
                            \/ jar'[c].refresh = NoToken
                            \/ c = b /\ jar'[c].refresh \in Carries(p)
    BY <1>4, <1>6 DEF Outcome, Carries
  <2> QED
    BY <1>1, <1>2, <1>3, <1>5, <1>7, <2>1, HoldersInFlight DEF Flies
<1>9. CalmInv'
  <2>1. jar[b].calm /\ Flight(p, b) /\ jar'[b].calm =>
          jar'[b].refresh = NoToken \/ Unspent(jar[b].refresh)'
    <3> SUFFICES ASSUME Flight(p, b), jar'[b].calm, jar'[b].refresh # NoToken
                 PROVE  Unspent(jar[b].refresh)'
      OBVIOUS
    <3>1. Respond(p) /\ pc[p] = "respond"
      BY <1>6 DEF Respond
    <3>2. jar'[b].refresh = Outcome(p, b) /\ Unspent(Outcome(p, b))
      BY <1>6, <3>1 DEF Flight
    <3> QED
      BY <1>2, <3>2 DEF Unspent
  <2> QED
    BY <1>1, <1>2, <1>4, <1>5, <1>6, <2>1, CalmInFlight
<1> QED
  BY <1>8, <1>9

(* Steps that leave the rows and the cookies alone. *)
LEMMA UseCalm ==
  ASSUME Inv, HoldersInv, CalmInv, NEW p \in Requests, Use(p)
  PROVE  HoldersInv' /\ CalmInv'
<1> USE DEF Inv
<1>1. PICK b \in Browsers : req[p].browser = b /\ Flies(p, b)
  BY DEF TypeOK, Request, Use, Flies
<1>2. OthersKept(p) /\ tokens' = tokens /\ jar' = jar /\ pc[p] = "use"
  BY DEF OthersKept, Use, TypeOK
<1>3. Kept
  BY <1>2, UnchangedKept
<1>4. req[p] \in Request
  BY DEF TypeOK
<1>5. req[p].refresh \in Tokens
  BY <1>2 DEF RequestOK, HasToken
<1>6. /\ req'[p].browser = b /\ req'[p].refresh = req[p].refresh
      /\ req'[p].answer = req[p].answer /\ req'[p].again = req[p].again
  BY <1>1, <1>4 DEF Use, TypeOK, Request
<1>7. \/ pc'[p] = Passed(p) /\ req'[p].fresh = req[p].fresh
      \/ /\ pc'[p] = "sign" /\ req'[p].fresh = tokens[req[p].refresh].next
         /\ tokens[req[p].refresh].next # NoToken
      \/ /\ pc'[p] = "sign" /\ req'[p].fresh = req[p].refresh
         /\ tokens[req[p].refresh].next = NoToken
      \/ /\ pc'[p] = "create" /\ req'[p].fresh = NoToken
         /\ tokens[req[p].refresh].next = NoToken
  BY <1>4 DEF Use, TypeOK, Request
<1>8. NoToken \notin Tokens
  BY DEF NoToken, Tokens
<1>9. HoldersInv'
  <2>1. ASSUME NEW t \in Tokens, t \in Carries(p)'
        PROVE  \/ t \in Carries(p)
               \/ \E s \in Carries(p) \cap Tokens :
                    t \in Issued /\ tokens[t].root = tokens[s].root
    <3>1. CASE t = tokens[req[p].refresh].next
      <4>1. Holds(b, req[p].refresh)
        BY <1>1 DEF Holds, Carries
      <4>2. req[p].refresh \in Issued
        BY <1>5, <4>1 DEF HoldersInv
      <4>3. Same(tokens[req[p].refresh], t)
        BY <1>5, <1>8, <3>1, <4>2 DEF RowsAgree, RowAgrees
      <4> QED
        BY <1>5, <4>3 DEF Same, Carries
    <3>2. CASE t # tokens[req[p].refresh].next
      BY <1>6, <1>7, <1>8, <2>1, <3>2 DEF Carries
    <3> QED
      BY <3>1, <3>2
  <2> QED
    BY <1>1, <1>2, <1>3, <1>6, <2>1, HoldersInFlight DEF Flies
<1>10. CalmInv'
  <2>1. Flight(p, b) => pc'[p] \notin {"new", "done"} /\ Flight(p, b)'
    <3> SUFFICES ASSUME Flight(p, b)
                 PROVE  pc'[p] \notin {"new", "done"} /\ Flight(p, b)'
      OBVIOUS
    <3>1. Leads(req[p].refresh)
      BY <1>2, <1>5, <1>8 DEF Flight
    <3>2. \A t : (Unspent(t)' <=> Unspent(t)) /\ (Leads(t)' <=> Leads(t))
      BY <1>2 DEF Unspent, Leads
    <3>3. Outcome(p, b)' = Outcome(p, b)
      BY <1>2, <1>6 DEF Outcome
    <3>4. Passed(p) \in {"handle", "respond"}
      BY DEF Passed
    <3> QED
      BY <1>2, <1>6, <1>7, <3>1, <3>2, <3>3, <3>4 DEF Flight, Leads, Unspent, Outcome
  <2> QED
    BY <1>1, <1>2, <1>6, <2>1, CalmInFlight
<1> QED
  BY <1>9, <1>10

LEMMA PassedCalm ==
  ASSUME Inv, HoldersInv, CalmInv, NEW p \in Requests,
         Sign(p) \/ Fail(p) \/ RefreshEndpoint(p)
  PROVE  HoldersInv' /\ CalmInv'
<1> USE DEF Inv
<1>1. PICK b \in Browsers : req[p].browser = b /\ Flies(p, b)
  BY DEF TypeOK, Request, Sign, Fail, RefreshEndpoint, Handling, Flies
<1>2. OthersKept(p) /\ tokens' = tokens
  BY DEF OthersKept, Sign, Fail, RefreshEndpoint, TypeOK
<1>3. Kept
  BY <1>2, UnchangedKept
<1>4. req[p] \in Request /\ jar[b] \in Cookies
  BY DEF TypeOK
<1>5. \A c \in Browsers : /\ c # b => jar'[c] = jar[c]
                          /\ jar'[c].refresh = jar[c].refresh
                          /\ jar'[c].calm => jar[c].calm
  BY <1>1 DEF Sign, Fail, RefreshEndpoint, TypeOK, Cookies
<1>6. Fail(p) => ~jar'[b].calm
  BY <1>1 DEF Fail, TypeOK, Cookies
<1>7. /\ req'[p].browser = b /\ req'[p].refresh = req[p].refresh
      /\ Sign(p) => /\ req'[p].answer.does = "set" /\ req'[p].answer.refresh = req[p].fresh
                    /\ req'[p].again = req[p].again /\ req'[p].fresh = NoToken
      /\ Fail(p) => req'[p].answer = req[p].answer /\ req'[p].fresh = NoToken
      /\ RefreshEndpoint(p) => req'[p].answer = req[p].answer /\ req'[p].fresh = req[p].fresh
  BY <1>1, <1>4 DEF Sign, Fail, RefreshEndpoint, TypeOK, Request
<1>8. NoToken \notin Tokens
  BY DEF NoToken, Tokens
<1>9. HoldersInv'
  <2>1. \A t \in Tokens : t \in Carries(p)' => t \in Carries(p)
    BY <1>7, <1>8 DEF Carries
  <2> QED
    BY <1>1, <1>2, <1>3, <1>5, <1>7, <2>1, HoldersInFlight DEF Flies
<1>10. CalmInv'
  <2>1. ASSUME Flight(p, b), jar'[b].calm
        PROVE  pc'[p] \notin {"new", "done"} /\ Flight(p, b)'
    <3>1. \A t : (Unspent(t)' <=> Unspent(t)) /\ (Leads(t)' <=> Leads(t))
      BY <1>2 DEF Unspent, Leads
    <3>2. CASE Sign(p)
      <4>1. pc[p] = "sign" /\ pc'[p] = Passed(p)
        BY <3>2 DEF Sign, TypeOK
      <4>2. pc'[p] = "handle" => ~req[p].again
        BY <4>1 DEF Passed
      <4>3. pc'[p] \in {"handle", "respond"}
        BY <4>1 DEF Passed
      <4>4. Outcome(p, b)' = req[p].fresh
        BY <1>7, <3>2 DEF Outcome
      <4> QED
        BY <1>7, <2>1, <3>1, <3>2, <4>1, <4>2, <4>3, <4>4 DEF Flight
    <3>3. CASE RefreshEndpoint(p)
      <4>1. pc[p] = "handle" /\ pc'[p] = "use"
        BY <3>3 DEF RefreshEndpoint, Handling, TypeOK
      <4>2. Outcome(p, b)' = Outcome(p, b)
        BY <1>5, <1>7, <3>3 DEF Outcome
      <4> QED
        BY <1>7, <2>1, <3>1, <3>3, <4>1, <4>2 DEF Flight
    <3> QED
      BY <1>6, <2>1, <3>2, <3>3
  <2> QED
    BY <1>1, <1>2, <1>5, <1>7, <2>1, CalmInFlight
<1> QED
  BY <1>9, <1>10

(* The tokens that a request carries are held by its browser. *)
LEMMA CarriedAreHeld ==
  ASSUME HoldersInv, NEW p \in Requests, NEW b \in Browsers, Flies(p, b)
  PROVE  \A t \in Tokens \cap Carries(p) : Holds(b, t) /\ t \in Issued
  BY DEF HoldersInv, Holds

LEMMA SignOutCalm ==
  ASSUME Inv, HoldersInv, CalmInv, NEW p \in Requests, SignOut(p)
  PROVE  HoldersInv' /\ CalmInv'
<1> USE DEF Inv
<1>1. PICK b \in Browsers : req[p].browser = b /\ Flies(p, b)
  BY DEF TypeOK, Request, SignOut, Handling, Flies
<1>2. OthersKept(p) /\ jar' = jar /\ pc'[p] = "respond"
  BY DEF OthersKept, SignOut, TypeOK
<1>3. Kept
  BY StepKept DEF Next, Handle
<1>4. req[p] \in Request
  BY DEF TypeOK
<1>5. /\ req'[p].browser = b /\ req'[p].refresh = req[p].refresh
      /\ req'[p].fresh = req[p].fresh /\ req'[p].answer = Clear
  BY <1>1, <1>4 DEF SignOut, TypeOK, Request
<1>6. NoToken \notin Tokens
  BY DEF NoToken, Tokens
<1>7. HoldersInv'
  <2>1. \A t \in Tokens : t \in Carries(p)' => t \in Carries(p)
    BY <1>5, <1>6 DEF Carries, Clear, Keep
  <2> QED
    BY <1>1, <1>2, <1>3, <1>5, <2>1, HoldersInFlight DEF Flies
<1>8. CalmInv'
  <2>1. \A t \in Issued : t # req[p].refresh => tokens'[t] = tokens[t]
    BY DEF SignOut, TypeOK, Issued
  <2>2. \A t \in Issued : t = req[p].refresh => Holds(b, t)
    BY <1>1, CarriedAreHeld DEF Carries, Issued
  <2>3. Flight(p, b)'
    BY <1>2, <1>5 DEF Flight, Clear
  <2> QED
    BY <1>1, <1>2, <1>5, <2>1, <2>2, <2>3, CalmInFlight
<1> QED
  BY <1>7, <1>8

(* A new row is unspent, and the others are as they were. *)
LEMMA InsertedUnspent ==
  ASSUME TypeOK, NEW t \in Tokens, NEW how, NEW root, Fresh(t),
         tokens' = [tokens EXCEPT ![t] = Created(how, root)]
  PROVE  /\ t \notin Issued /\ t \in Issued' /\ tokens'[t].root = root
         /\ Unspent(t)' /\ ~Unspent(t)
         /\ \A s \in Tokens \ {t} : tokens'[s] = tokens[s]
<1>1. tokens'[t] = Created(how, root) /\ \A s \in Tokens \ {t} : tokens'[s] = tokens[s]
  BY DEF TypeOK
<1>2. /\ Created(how, root).status = "live" /\ Created(how, root).next = NoToken
      /\ Created(how, root).root = root
  BY DEF Created
<1>3. tokens[t].status = "unused"
  BY DEF Fresh
<1> QED
  BY <1>1, <1>2, <1>3 DEF Unspent, Issued

LEMMA SignInCalm ==
  ASSUME Inv, HoldersInv, CalmInv, NEW p \in Requests, SignIn(p)
  PROVE  HoldersInv' /\ CalmInv'
<1> USE DEF Inv
<1>1. PICK b \in Browsers : req[p].browser = b /\ Flies(p, b)
  BY DEF TypeOK, Request, SignIn, Handling, Flies
<1>2. OthersKept(p) /\ jar' = jar /\ pc[p] = "handle"
  BY DEF OthersKept, SignIn, Handling, TypeOK
<1>3. Kept
  BY StepKept DEF Next, Handle
<1>4. req[p] \in Request
  BY DEF TypeOK
<1>5. NoToken \notin Tokens
  BY DEF NoToken, Tokens
<1>6. CASE UNCHANGED <<tokens, req>> /\ pc' = [pc EXCEPT ![p] = "respond"]
  <2>1. \A t \in Tokens : t \in Carries(p)' => t \in Carries(p)
    BY <1>6 DEF Carries
  <2>2. HoldersInv'
    BY <1>1, <1>2, <1>3, <1>6, <2>1, HoldersInFlight DEF Flies
  <2>3. pc'[p] = "respond"
    BY <1>6 DEF TypeOK
  <2>4. Flight(p, b) => Flight(p, b)'
    BY <1>2, <1>6, <2>3 DEF Flight, Outcome, Unspent
  <2> QED
    BY <1>1, <1>2, <1>6, <2>2, <2>3, <2>4, CalmInFlight
<1>7. ASSUME NEW t \in Tokens, NEW how \in Users, Fresh(t),
             tokens' = [tokens EXCEPT ![t] = Created(how, t)],
             req' = [req EXCEPT ![p].found = Created(how, t), ![p].fresh = t,
                                ![p].again = TRUE],
             pc' = [pc EXCEPT ![p] = "sign"]
      PROVE  HoldersInv' /\ CalmInv'
  <2>1. /\ t \notin Issued /\ t \in Issued' /\ tokens'[t].root = t
        /\ Unspent(t)' /\ \A s \in Tokens \ {t} : tokens'[s] = tokens[s]
    BY <1>7, InsertedUnspent
  <2>2. /\ req'[p].browser = b /\ req'[p].refresh = req[p].refresh /\ req'[p].fresh = t
        /\ req'[p].answer = req[p].answer /\ req'[p].again
    BY <1>1, <1>4, <1>7 DEF TypeOK, Request
  <2>3. pc'[p] = "sign"
    BY <1>7 DEF TypeOK
  <2>4. HoldersInv'
    <3>1. \A s \in Tokens : s \in Carries(p)' =>
            s \in Carries(p) \/ (s \in Issued' /\ tokens'[s].root \notin Issued)
      BY <2>1, <2>2 DEF Carries
    <3> QED
      BY <1>1, <1>2, <1>3, <2>2, <3>1, HoldersInFlight DEF Flies
  <2>5. Flight(p, b)'
    BY <2>1, <2>2, <2>3 DEF Flight
  <2>6. \A s \in Issued : tokens'[s] = tokens[s]
    BY <2>1 DEF Issued
  <2> QED
    BY <1>1, <1>2, <2>2, <2>3, <2>4, <2>5, <2>6, CalmInFlight
<1> QED
  BY <1>6, <1>7 DEF SignIn

LEMMA CreateCalm ==
  ASSUME Inv, HoldersInv, CalmInv, NEW p \in Requests, CreateSuccessor(p)
  PROVE  HoldersInv' /\ CalmInv'
<1> USE DEF Inv
<1>1. PICK b \in Browsers : req[p].browser = b /\ Flies(p, b)
  BY DEF TypeOK, Request, CreateSuccessor, Flies
<1>2. OthersKept(p) /\ jar' = jar /\ pc[p] = "create" /\ pc'[p] = "revoke"
  BY DEF OthersKept, CreateSuccessor, TypeOK
<1>3. Kept
  BY StepKept DEF Next, Refresh
<1>4. req[p] \in Request /\ Same(req[p].found, req[p].refresh)
  BY <1>2 DEF TypeOK, RequestOK, ReplacingAgrees
<1> DEFINE row == req[p].found
           how == [profile |-> row.profile, session |-> IsSessionToken(row), mfa |-> row.mfa]
<1>5. PICK t \in Tokens :
        /\ Fresh(t) /\ tokens' = [tokens EXCEPT ![t] = Created(how, req[p].found.root)]
        /\ req' = [req EXCEPT ![p].fresh = t]
  BY DEF CreateSuccessor
<1> HIDE DEF how
<1>6. /\ t \notin Issued /\ t \in Issued' /\ tokens'[t].root = req[p].found.root
      /\ Unspent(t)' /\ ~Unspent(t) /\ \A s \in Tokens \ {t} : tokens'[s] = tokens[s]
  BY <1>5, InsertedUnspent
<1>7. /\ req'[p].browser = b /\ req'[p].refresh = req[p].refresh /\ req'[p].fresh = t
      /\ req'[p].answer = req[p].answer
  BY <1>1, <1>4, <1>5 DEF TypeOK, Request
<1>8. req[p].refresh \in Tokens \cap Carries(p) /\ tokens[req[p].refresh].root = req[p].found.root
  BY <1>4 DEF Same, Issued, Carries
<1>9. HoldersInv'
  <2>1. \A s \in Tokens : s \in Carries(p)' =>
          \/ s \in Carries(p)
          \/ s \in Issued' /\ \E r \in Carries(p) \cap Tokens : tokens'[s].root = tokens[r].root
    BY <1>6, <1>7, <1>8 DEF Carries
  <2> QED
    BY <1>1, <1>2, <1>3, <1>7, <2>1, HoldersInFlight DEF Flies
<1>10. CalmInv'
  <2>1. \A s \in Issued : tokens'[s] = tokens[s]
    BY <1>6 DEF Issued
  <2>2. Flight(p, b) => Flight(p, b)'
    <3> SUFFICES ASSUME Unspent(req[p].refresh)
                 PROVE  Flight(p, b)'
      BY <1>2 DEF Flight
    <3>1. req[p].refresh # t
      BY <1>6
    <3>2. Unspent(req[p].refresh)'
      BY <1>6, <1>7, <1>8, <3>1 DEF Unspent
    <3> QED
      BY <1>2, <1>6, <1>7, <3>1, <3>2 DEF Flight
  <2> QED
    BY <1>1, <1>2, <1>7, <2>1, <2>2, CalmInFlight
<1> QED
  BY <1>9, <1>10

LEMMA RevokeCalm ==
  ASSUME Inv, HoldersInv, CalmInv, NEW p \in Requests, RevokeUsed(p)
  PROVE  HoldersInv' /\ CalmInv'
<1> USE DEF Inv
<1>1. PICK b \in Browsers : req[p].browser = b /\ Flies(p, b)
  BY DEF TypeOK, Request, RevokeUsed, Flies
<1>2. OthersKept(p) /\ jar' = jar /\ req' = req /\ pc[p] = "revoke" /\ pc'[p] = "sign"
  BY DEF OthersKept, RevokeUsed, TypeOK
<1>3. Kept
  BY StepKept DEF Next, Refresh
<1>4. req[p] \in Request /\ Same(req[p].found, req[p].refresh) /\ Same(req[p].found, req[p].fresh)
  BY <1>2 DEF TypeOK, RequestOK, ReplacingAgrees
<1>5. /\ \A s \in Tokens : s # req[p].refresh => tokens'[s] = tokens[s]
      /\ tokens'[req[p].refresh] = Revoked(tokens[req[p].refresh], req[p].fresh)
  BY <1>4 DEF RevokeUsed, TypeOK, Same, Issued
<1>6. HoldersInv'
  <2>1. \A s \in Tokens : s \in Carries(p)' => s \in Carries(p)
    BY <1>2 DEF Carries
  <2> QED
    BY <1>1, <1>2, <1>3, <2>1, HoldersInFlight DEF Flies
<1>7. CalmInv'
  <2>1. \A s \in Issued : s # req[p].refresh => tokens'[s] = tokens[s]
    BY <1>5 DEF Issued
  <2>2. \A s \in Issued : s = req[p].refresh => Holds(b, s)
    BY <1>1, CarriedAreHeld DEF Carries, Issued
  <2>3. Flight(p, b) => Flight(p, b)'
    <3> SUFFICES ASSUME Unspent(req[p].refresh), Unspent(req[p].fresh), req[p].fresh # req[p].refresh
                 PROVE  Flight(p, b)'
      BY <1>2 DEF Flight
    <3>1. Unspent(req[p].fresh)'
      BY <1>2, <1>4, <2>1 DEF Unspent, Same
    <3>2. /\ tokens'[req[p].refresh].status = "live"
          /\ tokens'[req[p].refresh].next \in {NoToken, req[p].fresh}
      <4>1. tokens[req[p].refresh] \in Row
        BY <1>4 DEF TypeOK, Same, Issued
      <4> QED
        BY <1>5, <4>1 DEF Revoked, Unspent, Row
    <3>3. Leads(req[p].refresh)'
      BY <1>2, <3>1, <3>2 DEF Leads, Unspent
    <3> QED
      BY <1>2, <3>1, <3>3 DEF Flight
  <2> QED
    BY <1>1, <1>2, <2>1, <2>2, <2>3, CalmInFlight
<1> QED
  BY <1>6, <1>7

(* The tokens that there are at first are each of one browser. *)
LEMMA InitHolders ==
  ASSUME Init
  PROVE  \E signedIn \in SUBSET Browsers : \E with \in [signedIn -> Tokens] :
           /\ \A b1, b2 \in signedIn : with[b1] = with[b2] => b1 = b2
           /\ \A b \in Browsers :
                jar[b].refresh = IF b \in signedIn THEN with[b] ELSE NoToken
           /\ \A b \in signedIn :
                /\ tokens[with[b]].status = "live" /\ tokens[with[b]].next = NoToken
                /\ tokens[with[b]].root = with[b]
<1>1. PICK signedIn \in SUBSET Browsers :
        \E with \in [signedIn -> Tokens \cap (1..Cardinality(signedIn))],
           how \in [signedIn -> Users] :
          LET row == [b \in signedIn |-> Created(how[b], with[b])] IN
          /\ \A b1, b2 \in signedIn : with[b1] = with[b2] => b1 = b2
          /\ tokens = [t \in Tokens |->
               IF \E b \in signedIn : with[b] = t
                 THEN row[CHOOSE b \in signedIn : with[b] = t] ELSE Unused]
          /\ jar = [b \in Browsers |->
               IF b \notin signedIn THEN NoCookies
               ELSE [access |-> [profile |-> how[b].profile, groups |-> how[b].mfa],
                     refresh |-> with[b], persistent |-> ~IsSessionToken(row[b]),
                     calm |-> TRUE]]
  BY DEF Init
<1>2. PICK with \in [signedIn -> Tokens \cap (1..Cardinality(signedIn))],
             how \in [signedIn -> Users] :
          LET row == [b \in signedIn |-> Created(how[b], with[b])] IN
          /\ \A b1, b2 \in signedIn : with[b1] = with[b2] => b1 = b2
          /\ tokens = [t \in Tokens |->
               IF \E b \in signedIn : with[b] = t
                 THEN row[CHOOSE b \in signedIn : with[b] = t] ELSE Unused]
          /\ jar = [b \in Browsers |->
               IF b \notin signedIn THEN NoCookies
               ELSE [access |-> [profile |-> how[b].profile, groups |-> how[b].mfa],
                     refresh |-> with[b], persistent |-> ~IsSessionToken(row[b]),
                     calm |-> TRUE]]
  BY <1>1
<1>3. with \in [signedIn -> Tokens]
  OBVIOUS
<1> DEFINE row == [b \in signedIn |-> Created(how[b], with[b])]
<1>4. \A b \in signedIn : tokens[with[b]] = row[b]
  BY <1>2, <1>3, InitRows
<1>5. \A b \in signedIn : /\ tokens[with[b]].status = "live" /\ tokens[with[b]].next = NoToken
                          /\ tokens[with[b]].root = with[b]
  <2>1. \A h, r : /\ Created(h, r).status = "live" /\ Created(h, r).next = NoToken
                  /\ Created(h, r).root = r
    BY DEF Created
  <2>2. \A b \in signedIn : tokens[with[b]] = Created(how[b], with[b])
    BY <1>4
  <2> HIDE DEF row
  <2> QED
    BY <2>1, <2>2
<1>6. \A b \in Browsers : jar[b].refresh = IF b \in signedIn THEN with[b] ELSE NoToken
  BY <1>2 DEF NoCookies
<1>7. \A b1, b2 \in signedIn : with[b1] = with[b2] => b1 = b2
  BY <1>2
<1> HIDE DEF row
<1> QED
  BY <1>3, <1>5, <1>6, <1>7

LEMMA InitCalm ==
  ASSUME Init
  PROVE  HoldersInv /\ CalmInv
<1>1. PICK signedIn \in SUBSET Browsers : \E with \in [signedIn -> Tokens] :
        /\ \A b1, b2 \in signedIn : with[b1] = with[b2] => b1 = b2
        /\ \A b \in Browsers : jar[b].refresh = IF b \in signedIn THEN with[b] ELSE NoToken
        /\ \A b \in signedIn :
             /\ tokens[with[b]].status = "live" /\ tokens[with[b]].next = NoToken
             /\ tokens[with[b]].root = with[b]
  BY InitHolders
<1>2. PICK with \in [signedIn -> Tokens] :
        /\ \A b1, b2 \in signedIn : with[b1] = with[b2] => b1 = b2
        /\ \A b \in Browsers : jar[b].refresh = IF b \in signedIn THEN with[b] ELSE NoToken
        /\ \A b \in signedIn :
             /\ tokens[with[b]].status = "live" /\ tokens[with[b]].next = NoToken
             /\ tokens[with[b]].root = with[b]
  BY <1>1
<1>3. \A p \in Requests, b \in Browsers : ~Flies(p, b)
  BY DEF Init, Flies
<1>6. NoToken \notin Tokens
  BY DEF NoToken, Tokens
<1>7. HoldersInv
  <2>1. \A b \in Browsers, t \in Tokens : Holds(b, t) => b \in signedIn /\ with[b] = t
    BY <1>2, <1>3, <1>6 DEF Holds
  <2> QED
    BY <1>2, <2>1 DEF HoldersInv, Issued
<1>8. CalmInv
  BY <1>2, <1>3 DEF CalmInv, Calm, Unspent
<1> QED
  BY <1>7, <1>8

LEMMA NextCalm ==
  ASSUME Inv, HoldersInv, CalmInv, [Next]_vars
  PROVE  HoldersInv' /\ CalmInv'
<1>1. CASE UNCHANGED vars
  <2>1. UNCHANGED <<tokens, jar, req, pc>>
    BY <1>1 DEF vars
  <2> QED
    BY <2>1, TimeCalm
<1>2. ASSUME NEW b \in Browsers, AccessExpires(b)
      PROVE  HoldersInv' /\ CalmInv'
  <2>1. \A c \in Browsers : jar'[c].refresh = jar[c].refresh /\ jar'[c].calm = jar[c].calm
    BY <1>2 DEF AccessExpires, Inv, TypeOK, Cookies
  <2> QED
    BY <1>2, <2>1, TimeCalm DEF AccessExpires
<1>3. CASE Tick
  BY <1>3, TimeCalm DEF Tick
<1> QED
  BY <1>1, <1>2, <1>3, SendCalm, EndCalm, UseCalm, PassedCalm, SignOutCalm, SignInCalm,
     CreateCalm, RevokeCalm
     DEF Next, Refresh, Handle

(* A browser that sends one request after the other, none of which fails or
   whose answer is lost, always has a token that is neither replaced nor deleted
   and has its full lifetime: no request of another browser uses it up, and the
   refresh endpoint, which refreshes a second time with the token that the
   middleware has just replaced, hands out the one successor. *)
THEOREM CarefulAlwaysStaySignedIn == Spec => []CarefulBrowsersStaySignedIn
<1>1. Init => HoldersInv /\ CalmInv
  BY InitCalm
<1>2. Inv /\ HoldersInv /\ CalmInv /\ [Next]_vars => (HoldersInv /\ CalmInv)'
  BY NextCalm
<1>3. Inv /\ HoldersInv /\ CalmInv => CarefulBrowsersStaySignedIn
  <2> SUFFICES ASSUME Inv, HoldersInv, CalmInv, NEW b \in Browsers,
                      jar[b].calm, ~InFlight(b), jar[b].refresh # NoToken
               PROVE  LET row == tokens[jar[b].refresh] IN
                      row.status = "live" /\ row.next = NoToken
                        /\ row.expires = row.created + row.life
    BY DEF CarefulBrowsersStaySignedIn
  <2>1. Unspent(jar[b].refresh)
    BY DEF CalmInv, Calm, Flies, InFlight
  <2>2. jar[b].refresh \in Tokens
    BY DEF Inv, TypeOK, Cookies, AnyToken
  <2>3. jar[b].refresh \in Issued
    BY <2>2 DEF HoldersInv, Holds
  <2> QED
    BY <2>1, <2>2, <2>3 DEF Inv, RowsAgree, RowAgrees, Unspent
<1> QED
  BY <1>1, <1>2, <1>3, InvAlways, PTL DEF Spec
===============================================================================
