----------------------------- MODULE RefreshToken -----------------------------
(***************************************************************************)
(* Sessions: the refresh tokens of src/accounts/refresh-token, the cookies *)
(* that carry them and the access tokens made from them (src/auth and      *)
(* src/accounts/access-token), sign-in and sign-out.                       *)
(*                                                                         *)
(* Every request passes AuthMiddleware before its handler. A request whose *)
(* access token is no longer good uses its refresh token: a token of some  *)
(* age is replaced by a successor and stays good for a few seconds more,   *)
(* for the requests that were sent together with this one. Each step of a  *)
(* request is one await of the code; the requests of a browser overlap,    *)
(* fail, and their answers get lost or overtake each other.                *)
(*                                                                         *)
(* Time is counted in units of the lifetimes below. A refresh token is a   *)
(* row of PostgreSQL; a row that was deleted keeps its content here, with  *)
(* the status "deleted", to tell what became of it. root, life, late and   *)
(* calm are history: no step depends on them.                              *)
(***************************************************************************)
EXTENDS Integers, FiniteSets

CONSTANTS
  Browsers, Requests, \* Requests: that can be sent (bound)
  MaxTokens,          \* rows that can be inserted (bound)
  Profiles,
  Grace,              \* 5 seconds
  ReIssueAge,         \* 7 hours: SESSION_REFRESH_TOKEN_DURATION less one
  SessionLife,        \* 8 hours: SESSION_REFRESH_TOKEN_DURATION
  DefaultLife,        \* 30 days: DEFAULT_REFRESH_TOKEN_DURATION
  MaxNow,             \* the clock stops there (bound)
  MfaRequired,        \* the setting NUDCH_MFA_REQUIRED
  Users,              \* who signs in, and how, in a run: \subseteq SignIns
  Nobody

ASSUME ConstantsAssumption ==
  /\ Grace \in Nat /\ ReIssueAge \in Nat /\ SessionLife \in Nat /\ DefaultLife \in Nat
  /\ MaxNow \in Nat /\ MaxTokens \in Nat /\ IsFiniteSet(Requests)
  /\ 0 < Grace /\ Grace < SessionLife /\ ReIssueAge <= SessionLife
  /\ SessionLife + Cardinality(Requests) * Grace < DefaultLife
  /\ MfaRequired \in BOOLEAN
  /\ Nobody \notin Profiles

(* How the ways to sign in differ: a local user may ask for a persistent
   session; a provider tells whether the user has a second factor; who has
   just registered is signed in without. *)
SignIns ==
  {how \in [profile : Profiles, session : BOOLEAN, mfa : BOOLEAN] :
     how.session \/ how.mfa = ~MfaRequired}

ASSUME UsersAssumption == Users \subseteq SignIns

VARIABLES
  now,
  tokens, \* refresh_tokens
  jar,    \* the cookies of each browser
  req,    \* what each request carries and has read
  pc      \* the await each request is at

vars == <<now, tokens, jar, req, pc>>

(* Ids are random: a token has the number of its insertion here. *)
Tokens == 1..MaxTokens
NoToken == 0
AnyToken == Tokens \cup {NoToken}
Lives == {SessionLife, DefaultLife}
Kinds == {"visit", "refresh", "signOut", "signIn"}

(* The user an access token stands for: a profile, and whether the groups of
   the profile are in the token. Anonymous is the fallback user. *)
User == [profile : Profiles \cup {Nobody}, groups : BOOLEAN]
Anonymous == [profile |-> Nobody, groups |-> FALSE]

Row == [status : {"unused", "live", "deleted"}, profile : Profiles \cup {Nobody},
        created : Nat, expires : Nat, next : AnyToken, mfa : BOOLEAN,
        root : AnyToken, life : Lives]
Unused == [status |-> "unused", profile |-> Nobody, created |-> 0, expires |-> 0,
           next |-> NoToken, mfa |-> FALSE, root |-> NoToken, life |-> SessionLife]

(* access: Anonymous if there is no good access token *)
Cookies == [access : User, refresh : AnyToken, persistent : BOOLEAN, calm : BOOLEAN]
NoCookies == [access |-> Anonymous, refresh |-> NoToken,
              persistent |-> FALSE, calm |-> TRUE]

(* What the answer does to the cookies, last call of response.cookie first *)
Answer == [does : {"keep", "set", "clear"}, access : User, refresh : AnyToken,
           persistent : BOOLEAN]
Keep == [does |-> "keep", access |-> Anonymous, refresh |-> NoToken, persistent |-> FALSE]
Clear == [Keep EXCEPT !.does = "clear"]

(* again: the refreshing is that of the handler, the middleware has passed.
   late: its refresh token had been signed out when it was sent. *)
Request == [browser : Browsers, kind : Kinds, refresh : AnyToken, found : Row, fresh : AnyToken, answer : Answer,
            again : BOOLEAN, late : BOOLEAN]
Blank(b) == [browser |-> b, kind |-> "visit", refresh |-> NoToken,
             found |-> Unused, fresh |-> NoToken, answer |-> Keep,
             again |-> FALSE, late |-> FALSE]
Steps == {"new", "use", "create", "revoke", "sign", "handle", "respond", "done"}

TypeOK ==
  /\ now \in 0..MaxNow
  /\ tokens \in [Tokens -> Row]
  /\ jar \in [Browsers -> Cookies]
  /\ req \in [Requests -> Request]
  /\ pc \in [Requests -> Steps]

-------------------------------------------------------------------------------
(* RefreshTokenService *)

(* find: the row, unless it has expired *)
\* mutant: deleted rows are found
UsableIfDeleted(t) == tokens[t].status # "unused" /\ tokens[t].expires > now
Usable(t) == tokens[t].status = "live" /\ tokens[t].expires > now

ShouldReIssue(row) == now - row.created >= ReIssueAge

(* A session token is told from its lifetime. The minute that is taken off is
   less than a unit of time. *)
\* mutant: the rest of the lifetime is measured
IsSessionTokenByNow(row) == row.expires < now + DefaultLife
IsSessionToken(row) == row.expires < row.created + DefaultLife

(* create: also the row of a sign-in, which is its own root *)
Created(how, root) ==
  LET life == IF how.session THEN SessionLife ELSE DefaultLife IN
  [status |-> "live", profile |-> how.profile, created |-> now, expires |-> now + life,
   next |-> NoToken, mfa |-> how.mfa, root |-> root, life |-> life]

(* The next id. *)
Fresh(t) == tokens[t].status = "unused" /\ \A s \in 1..(t - 1) : tokens[s].status # "unused"

(* revokeToken with a successor: an update of the row that is still good *)
\* mutant: the used token expires long ago
RevokedBefore(row, new) ==
  IF row.status = "live" /\ row.expires >= now
    THEN [row EXCEPT !.expires = now - SessionLife, !.next = new]
    ELSE row
Revoked(row, new) ==
  IF row.status = "live" /\ row.expires >= now
    THEN [row EXCEPT !.expires = now + Grace, !.next = new]
    ELSE row

(* revokeToken without one: the row is deleted *)
Removed(row) == IF row.status = "live" THEN [row EXCEPT !.status = "deleted"] ELSE row

(* The requests start from any browser: each is new or has just signed in. *)
Init ==
  /\ now = 0
  /\ \E signedIn \in SUBSET Browsers :
       \E with \in [signedIn -> Tokens \cap (1..Cardinality(signedIn))],
          how \in [signedIn -> Users] :
         LET row == [b \in signedIn |-> Created(how[b], with[b])] IN
         /\ \A b1, b2 \in signedIn : with[b1] = with[b2] => b1 = b2
         /\ tokens = [t \in Tokens |->
              IF \E b \in signedIn : with[b] = t
                THEN row[CHOOSE b \in signedIn : with[b] = t] ELSE Unused]
         /\ jar = [b \in Browsers |->
              IF b \notin signedIn THEN NoCookies
              ELSE [access |-> [profile |-> how[b].profile, groups |-> how[b].mfa],
                    refresh |-> with[b], persistent |-> ~IsSessionToken(row[b]),
                    calm |-> TRUE]]
  /\ \E b \in Browsers : req = [p \in Requests |-> Blank(b)]
  /\ pc = [p \in Requests |-> "new"]

-------------------------------------------------------------------------------
(* Browsers *)

InFlight(b) == \E p \in Requests : pc[p] \notin {"new", "done"} /\ req[p].browser = b

(* A request is sent, and its access token is verified. Only if that is no good
   and there is a refresh token, it is used. Requests of which no more is to be
   told are left out: a visit with a good access token, a refresh by a client
   that has not dropped its access token cookie, a sign-out without a token. *)
Send(p, b, kind) ==
  /\ pc[p] = "new"
  /\ LET c == jar[b]
         signedIn == c.access # Anonymous IN
     /\ kind = "signIn" \/ c.refresh # NoToken
     /\ signedIn => kind \in {"signIn", "signOut"}
     /\ req' = [req EXCEPT ![p] =
          [Blank(b) EXCEPT !.kind = kind, !.refresh = c.refresh,
             !.late = ~signedIn /\ c.refresh # NoToken
                        /\ tokens[c.refresh].status = "deleted"]]
     /\ pc' = [pc EXCEPT ![p] =
          IF signedIn \/ c.refresh = NoToken THEN "handle" ELSE "use"]
     /\ jar' = [jar EXCEPT ![b].calm = @ /\ ~InFlight(b)]
  /\ UNCHANGED <<now, tokens>>

(* The answer arrives. *)
Respond(p) ==
  /\ pc[p] = "respond"
  /\ LET a == req[p].answer
         b == req[p].browser IN
     jar' = [jar EXCEPT ![b] =
       CASE a.does = "keep"  -> @
         [] a.does = "set"   -> [access |-> a.access, refresh |-> a.refresh,
              persistent |-> a.persistent, calm |-> jar[b].calm]
         [] a.does = "clear" -> [NoCookies EXCEPT !.calm = jar[b].calm]]
  /\ pc' = [pc EXCEPT ![p] = "done"]
  /\ req' = [req EXCEPT ![p] = Blank(@.browser)]
  /\ UNCHANGED <<now, tokens>>

(* The answer does not: the connection breaks, or the server dies (which at
   another await is to fail there and to get lost here). *)
Lose(p) ==
  /\ pc[p] \in {"handle", "respond"}
  /\ pc' = [pc EXCEPT ![p] = "done"]
  /\ jar' = [jar EXCEPT ![req[p].browser].calm = FALSE]
  /\ req' = [req EXCEPT ![p] = Blank(@.browser)]
  /\ UNCHANGED <<now, tokens>>

(* An access token runs out long before the refresh token (when is up to the
   library that signs and verifies it). *)
AccessExpires(b) ==
  /\ jar[b].access # Anonymous
  /\ jar' = [jar EXCEPT ![b].access = Anonymous]
  /\ UNCHANGED <<now, tokens, req, pc>>

-------------------------------------------------------------------------------
(* getUpdatedAccessToken, of the middleware and of the refresh endpoint *)

(* Where a request goes on once it is refreshed or not: the middleware calls
   the handler, which has nothing to say of sessions if this is a visit. *)
Passed(p) == IF req[p].again \/ req[p].kind = "visit" THEN "respond" ELSE "handle"

\* mutant: whether the token has a successor is not asked
UseAgain(p) ==
  /\ pc[p] = "use"
  /\ LET t == req[p].refresh
         row == tokens[t]
         goOn(new, step) ==
           /\ req' = [req EXCEPT ![p].found = row, ![p].fresh = new]
           /\ pc' = [pc EXCEPT ![p] = step] IN
     \/ /\ ~Usable(t)
        /\ pc' = [pc EXCEPT ![p] = Passed(p)]
        /\ UNCHANGED req
     \/ Usable(t) /\ ~ShouldReIssue(row) /\ goOn(t, "sign")
     \/ Usable(t) /\ ShouldReIssue(row) /\ goOn(NoToken, "create")
  /\ UNCHANGED <<now, tokens, jar>>
(* use: the row is read; its successor, itself or a new successor goes on. *)
Use(p) ==
  /\ pc[p] = "use"
  /\ LET t == req[p].refresh
         row == tokens[t]
         goOn(new, step) ==
           /\ req' = [req EXCEPT ![p].found = row, ![p].fresh = new]
           /\ pc' = [pc EXCEPT ![p] = step] IN
     \/ /\ ~Usable(t)
        /\ pc' = [pc EXCEPT ![p] = Passed(p)]
        /\ UNCHANGED req
     \/ Usable(t) /\ row.next # NoToken /\ goOn(row.next, "sign")
     \/ Usable(t) /\ row.next = NoToken /\ ~ShouldReIssue(row) /\ goOn(t, "sign")
     \/ Usable(t) /\ row.next = NoToken /\ ShouldReIssue(row) /\ goOn(NoToken, "create")
  /\ UNCHANGED <<now, tokens, jar>>

CreateSuccessor(p) ==
  /\ pc[p] = "create"
  /\ LET row == req[p].found
         how == [profile |-> row.profile, session |-> IsSessionToken(row), mfa |-> row.mfa] IN
     \E t \in Tokens :
       /\ Fresh(t)
       /\ tokens' = [tokens EXCEPT ![t] = Created(how, row.root)]
       /\ req' = [req EXCEPT ![p].fresh = t]
  /\ pc' = [pc EXCEPT ![p] = "revoke"]
  /\ UNCHANGED <<now, jar>>

RevokeUsed(p) ==
  /\ pc[p] = "revoke"
  /\ tokens' = [tokens EXCEPT ![req[p].refresh] = Revoked(@, req[p].fresh)]
  /\ pc' = [pc EXCEPT ![p] = "sign"]
  /\ UNCHANGED <<now, jar, req>>

(* An access token is signed, with the groups only if the sign-in was one of
   several factors, and both cookies are set. *)
\* mutant: the second factor is not asked for
SignWithGroups(p) ==
  /\ pc[p] = "sign"
  /\ LET row == req[p].found
         user == [profile |-> row.profile, groups |-> TRUE] IN
     req' = [req EXCEPT ![p].found = Unused, ![p].fresh = NoToken,
       ![p].answer = [does |-> "set", access |-> user, refresh |-> req[p].fresh,
                      persistent |-> ~IsSessionToken(row)]]
  /\ pc' = [pc EXCEPT ![p] = Passed(p)]
  /\ UNCHANGED <<now, tokens, jar>>
\* mutant: the successor goes only to those who came late
SignOldToken(p) ==
  /\ pc[p] = "sign"
  /\ LET row == req[p].found
         user == [profile |-> row.profile, groups |-> row.mfa] IN
     req' = [req EXCEPT ![p].found = Unused, ![p].fresh = NoToken,
       ![p].answer = [does |-> "set", access |-> user,
                      refresh |-> IF req[p].again THEN req[p].fresh ELSE req[p].refresh,
                      persistent |-> ~IsSessionToken(row)]]
  /\ pc' = [pc EXCEPT ![p] = Passed(p)]
  /\ UNCHANGED <<now, tokens, jar>>
Sign(p) ==
  /\ pc[p] = "sign"
  /\ LET row == req[p].found
         user == [profile |-> row.profile, groups |-> row.mfa] IN
     req' = [req EXCEPT ![p].found = Unused, ![p].fresh = NoToken,
       ![p].answer = [does |-> "set", access |-> user, refresh |-> req[p].fresh,
                      persistent |-> ~IsSessionToken(row)]]
  /\ pc' = [pc EXCEPT ![p] = Passed(p)]
  /\ UNCHANGED <<now, tokens, jar>>

(* A statement or the signing fails: the middleware goes on with the fallback
   user, a handler answers with an error. *)
Fail(p) ==
  /\ pc[p] \in {"use", "create", "revoke", "sign"}
  /\ pc' = [pc EXCEPT ![p] = Passed(p)]
  /\ req' = [req EXCEPT ![p].found = Unused, ![p].fresh = NoToken]
  /\ jar' = [jar EXCEPT ![req[p].browser].calm = FALSE]
  /\ UNCHANGED <<now, tokens>>

-------------------------------------------------------------------------------
(* Handlers *)

Handling(p, kind) == pc[p] = "handle" /\ req[p].kind = kind

(* POST accounts/refresh-token refreshes again, with the refresh token that the
   middleware may have used already. *)
RefreshEndpoint(p) ==
  /\ Handling(p, "refresh")
  /\ pc' = [pc EXCEPT ![p] = "use"]
  /\ req' = [req EXCEPT ![p].again = TRUE]
  /\ UNCHANGED <<now, tokens, jar>>

(* POST accounts/sign-out: the token of the request is deleted. *)
SignOut(p) ==
  /\ Handling(p, "signOut")
  /\ tokens' = IF req[p].refresh = NoToken THEN tokens
               ELSE [tokens EXCEPT ![req[p].refresh] = Removed(@)]
  /\ req' = [req EXCEPT ![p].answer = Clear]
  /\ pc' = [pc EXCEPT ![p] = "respond"]
  /\ UNCHANGED <<now, jar>>

(* setAccessRefreshTokenCookiesByProfile creates the row and signs the access
   token; or the credentials are no good. *)
SignIn(p) ==
  /\ Handling(p, "signIn")
  /\ \/ \E t \in Tokens, how \in Users :
          LET row == Created(how, t) IN
          /\ Fresh(t)
          /\ tokens' = [tokens EXCEPT ![t] = row]
          /\ req' = [req EXCEPT ![p].found = row, ![p].fresh = t, ![p].again = TRUE]
          /\ pc' = [pc EXCEPT ![p] = "sign"]
     \/ pc' = [pc EXCEPT ![p] = "respond"] /\ UNCHANGED <<tokens, req>>
  /\ UNCHANGED <<now, jar>>

Tick ==
  /\ now < MaxNow
  /\ now' = now + 1
  /\ UNCHANGED <<tokens, jar, req, pc>>

Refresh(p) == Use(p) \/ CreateSuccessor(p) \/ RevokeUsed(p) \/ Sign(p) \/ Fail(p)
Handle(p) == RefreshEndpoint(p) \/ SignOut(p) \/ SignIn(p)

Next ==
  \/ \E p \in Requests, b \in Browsers, kind \in Kinds : Send(p, b, kind)
  \/ \E p \in Requests : Refresh(p) \/ Handle(p) \/ Respond(p) \/ Lose(p)
  \/ \E b \in Browsers : AccessExpires(b)
  \/ Tick

Spec == Init /\ [][Next]_vars

-------------------------------------------------------------------------------
(* Properties. *)

Issued == {t \in Tokens : tokens[t].status # "unused"}

(* However often a token was replaced, by however many requests at once, its
   successors are for the profile that signed in, as a session or persistent
   as asked then, and carry groups only if that sign-in did. *)
ChainsKeepTheSignIn ==
  \A t \in Issued :
    LET root == tokens[tokens[t].root] IN
    /\ tokens[t].profile = root.profile
    /\ tokens[t].mfa = root.mfa
    /\ tokens[t].life = root.life

(* The two cookies of a browser belong together, whatever order the answers of
   different users' requests arrive in: the access token is for the profile of
   the refresh token, has groups only if that was a sign-in with a second
   factor, and the cookies outlive the browser only if a persistent session
   was asked for. *)
CookiesAgree ==
  \A b \in Browsers :
    LET c == jar[b] IN
    /\ c.access # Anonymous =>
         /\ c.refresh \in Issued
         /\ c.access = [profile |-> tokens[c.refresh].profile,
                        groups |-> tokens[c.refresh].mfa]
    /\ c.persistent => c.refresh \in Issued /\ tokens[c.refresh].life = DefaultLife

(* The requests that found token t not replaced yet, and may still replace it *)
Replacing(t) == {p \in Requests : pc[p] \in {"create", "revoke"} /\ req[p].refresh = t}
LatestEnd(t) == tokens[t].expires + Grace * Cardinality(Replacing(t))

(* A token that is replaced ends within the grace time, but for the requests that
   had already found it not replaced: each may replace it again and put its end off
   by one more grace time. From then on nothing moves that latest end, however
   often the token is used, by how many requests, and whatever they do. *)
UsedTokensEnd ==
  [][\A t \in Tokens :
       tokens'[t].next # NoToken =>
         LatestEnd(t)' <= IF tokens[t].next # NoToken THEN LatestEnd(t)
                          ELSE now + Grace * Cardinality(Replacing(t))]_vars

(* Who presents a token that was signed out before is nobody, whatever requests
   with the same token are being answered meanwhile. *)
SignedOutIsAnonymous ==
  \A p \in Requests :
    pc[p] \notin {"new", "done"} /\ req[p].late /\ req[p].kind # "signIn" =>
      req[p].answer.does # "set"

(* A browser that sends one request after the other, and gets all the answers,
   always ends up with a token that nobody has used up: neither replaced nor
   deleted, and good for its full lifetime. *)
CarefulBrowsersStaySignedIn ==
  \A b \in Browsers :
    jar[b].calm /\ ~InFlight(b) /\ jar[b].refresh # NoToken =>
      LET row == tokens[jar[b].refresh] IN
      row.status = "live" /\ row.next = NoToken /\ row.expires = row.created + row.life
===============================================================================
