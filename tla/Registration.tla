---------------------------- MODULE Registration ------------------------------
(****************************************************************************)
(* Signing in with an account of Google, Discord or GitLab, and registering *)
(* the first time (src/accounts/sign-in/oidc, registration and profile).    *)
(* Profiles and registration tokens are in MongoDB, the links of Discord    *)
(* and GitLab accounts to profiles in PostgreSQL.                           *)
(*                                                                          *)
(* reached and unsure are history: the profiles that an account was signed  *)
(* in to, and the accounts that could be told by their e-mail address only  *)
(* when that address was edited, came into a second profile, or into a      *)
(* first one while they were registering themselves.                        *)
(****************************************************************************)
EXTENDS Requests

CONSTANTS
  Accounts,    \* of the providers
  ProviderOf,  \* Accounts -> {"google", "discord", "gitlab"}
  EmailOf,     \* Accounts -> Emails or NoEmail
  Emails,
  NoEmail,
  Nobody,      \* the account of an invitation
  ProfileIds,  \* (bound)
  TokenIds     \* (bound)

ASSUME RegistrationAssumption ==
  /\ Nobody \notin Accounts
  /\ EmailOf \in [Accounts -> Emails \cup {NoEmail}]
  /\ 1 \in ProfileIds /\ 1 \in TokenIds

VARIABLES
  profile, \* profiles: id -> the account registered with, and e-mail addresses
  link,    \* profile_discords and profile_gitlabs: account -> profile and rank
  token,   \* tokens.registration: id -> account, and whether it has not expired
  reached, unsure

registrationVars == <<profile, link, token, reached, unsure>>

ProfileDoc == [account : Accounts \cup {Nobody}, emails : SUBSET Emails]
ProfileLink == [profile : ProfileIds, rank : Nat]
RegistrationToken == [account : Accounts \cup {Nobody}, valid : BOOLEAN]

RegistrationAwaits ==
  {"findById", "findByEmail", "findLink", "countLinks", "loadLink", "writeLink",
   "findToken", "insertToken", "createProfile"}

RegistrationTypeOK ==
  /\ area = "registration" => pc \in StepsAmong(RegistrationAwaits)
  /\ DOMAIN profile \subseteq ProfileIds
  /\ \A i \in DOMAIN profile : profile[i] \in ProfileDoc
  /\ DOMAIN link \subseteq Accounts
  /\ \A a \in DOMAIN link : link[a] \in ProfileLink
  /\ DOMAIN token \subseteq TokenIds
  /\ \A t \in DOMAIN token : token[t] \in RegistrationToken
  /\ reached \in [Accounts -> SUBSET ProfileIds]
  /\ unsure \subseteq Accounts

EmailsOf(a) == IF a = Nobody THEN {} ELSE {EmailOf[a]} \ {NoEmail}

(* Nobody; somebody about to register; or one profile, of somebody who registered
   or was invited, and who may have signed in with a Discord account since. *)
InitRegistration ==
  /\ unsure = {}
  /\ \/ /\ profile = <<>> /\ link = <<>> /\ reached = [a \in Accounts |-> {}]
        /\ \/ token = <<>>
           \/ /\ area = "registration"
              /\ \E a \in Accounts : token = <<[account |-> a, valid |-> TRUE]>>
     \/ /\ area = "registration" /\ token = <<>>
        /\ \E a \in Accounts \cup {Nobody} : \E emails \in
               IF a = Nobody THEN SUBSET Emails ELSE {EmailsOf(a)} :
             /\ profile = <<[account |-> a, emails |-> emails]>>
             /\ \E linked \in {{}} \cup
                   {{b} : b \in {b \in Accounts : ProviderOf[b] = "discord"
                                                /\ EmailsOf(b) \cap emails # {}}} :
                  /\ link = [b \in linked |-> [profile |-> 1, rank |-> 0]]
                  /\ reached = [b \in Accounts |-> IF b \in {a} \cup linked THEN {1} ELSE {}]

-------------------------------------------------------------------------------
(* findByGoogleId, findByDiscordId or findByGitlabId; and findByEmail: findOne
   may find any of several. *)
FoundById(a) ==
  IF ProviderOf[a] = "google" THEN {i \in DOMAIN profile : profile[i].account = a}
  ELSE {link[a].profile : b \in {a} \cap DOMAIN link}
FoundByEmail(a) == {i \in DOMAIN profile : EmailsOf(a) \cap profile[i].emails # {}}

Known(a) == FoundById(a) # {}

Sign(a, i) == reached' = [reached EXCEPT ![a] = @ \cup {i}]

(* GET accounts/sign-in/:provider/callback: the provider says which account *)
SignInWithProvider(p) ==
  /\ Arrives(p, "registration")
  /\ \E a \in Accounts :
       Accept(p, {<<"account", a>>, <<"links", ProviderOf[a]>>}, "findById",
              [account |-> a])
  /\ UNCHANGED registrationVars

(* findProfileId. The browser of a Discord user gets its answer now, and the link
   is stored meanwhile; that of a GitLab user waits for it. *)
FindById(p) ==
  /\ At(p, "findById")
  /\ LET a == Data(p).account IN
     \/ \E i \in FoundById(a) : Sign(a, i) /\ Finish(p)
     \/ ~Known(a) /\ Go(p, "findByEmail", Data(p)) /\ UNCHANGED reached
  /\ UNCHANGED <<profile, link, token, unsure>>

FindByEmail(p) ==
  /\ At(p, "findByEmail")
  /\ LET a == Data(p).account IN
     \/ \E i \in FoundByEmail(a) :
          /\ Sign(a, i)
          /\ IF ProviderOf[a] = "google" THEN Finish(p)
             ELSE Go(p, "findLink", [account |-> a, profile |-> i])
     \/ /\ FoundByEmail(a) = {}
        /\ Go(p, "findToken", Data(p)) /\ UNCHANGED reached
  /\ UNCHANGED <<profile, link, token, unsure>>

(* upsertDiscordProfile and upsertGitlabProfile. Only the first counts. *)
WithRank(d, rank) == [account |-> d.account, profile |-> d.profile, rank |-> rank]

\* mutant: the links of the profile are not counted
FindLinkUncounted(p) ==
  /\ At(p, "findLink")
  /\ IF Data(p).account \in DOMAIN link THEN Finish(p)
     ELSE Go(p, "loadLink", WithRank(Data(p), 0))
  /\ UNCHANGED registrationVars
FindLink(p) ==
  /\ At(p, "findLink")
  /\ LET d == Data(p) IN
     IF d.account \in DOMAIN link THEN Finish(p)
     ELSE IF ProviderOf[d.account] = "discord" THEN Go(p, "countLinks", d)
     ELSE Go(p, "loadLink", WithRank(d, 0))
  /\ UNCHANGED registrationVars

Links(i) == {b \in DOMAIN link : ProviderOf[b] = "discord" /\ link[b].profile = i}

CountLinks(p) ==
  /\ At(p, "countLinks")
  /\ LET d == Data(p) IN Go(p, "loadLink", WithRank(d, Cardinality(Links(d.profile))))
  /\ UNCHANGED registrationVars

(* save: a row that is there is updated, any other inserted, and only once. *)
LoadLink(p) ==
  /\ At(p, "loadLink")
  /\ LET d == Data(p) IN
     Go(p, "writeLink", [account |-> d.account, profile |-> d.profile, rank |-> d.rank,
                         insert |-> d.account \notin DOMAIN link])
  /\ UNCHANGED registrationVars

WriteLink(p) ==
  /\ At(p, "writeLink")
  /\ LET d == Data(p) IN
     link' = IF d.insert /\ d.account \in DOMAIN link THEN link
             ELSE Put(link, d.account, [profile |-> d.profile, rank |-> d.rank])
  /\ Finish(p)
  /\ UNCHANGED <<profile, token, reached, unsure>>

-------------------------------------------------------------------------------
(* RegistrationService *)

(* createRegistrationTokenFromProviderUser: createToken is an upsert; it renews the
   token with the same contents, and two upserts may both insert one. *)
FindToken(p) ==
  /\ At(p, "findToken")
  /\ LET a == Data(p).account
         same == {t \in DOMAIN token : token[t].account = a} IN
     \/ \E t \in same :
          token' = Put(token, t, [account |-> a, valid |-> TRUE]) /\ Finish(p)
     \/ same = {} /\ Go(p, "insertToken", Data(p)) /\ UNCHANGED token
  /\ UNCHANGED <<profile, link, reached, unsure>>

InsertToken(p) ==
  /\ At(p, "insertToken")
  /\ \E t \in TokenIds \ DOMAIN token :
       /\ \A s \in TokenIds \ DOMAIN token : t <= s
       /\ token' = Put(token, t, [account |-> Data(p).account, valid |-> TRUE])
  /\ Finish(p)
  /\ UNCHANGED <<profile, link, reached, unsure>>

(* POST accounts/registration: an invitation is a token with an empty profile *)
CreateAccountRegistrationToken(p) ==
  /\ Arrives(p, "registration")
  /\ Accept(p, {<<"account", Nobody>>}, "findToken", [account |-> Nobody])
  /\ UNCHANGED registrationVars

(* POST accounts/registration/:id: useToken deletes the token *)
\* mutant: the token is read and not deleted
SubmitAndKeepToken(p) ==
  /\ Arrives(p, "registration")
  /\ \E t \in DOMAIN token :
       /\ token[t].valid
       /\ Accept(p, {<<"account", token[t].account>>}, "createProfile",
                 [account |-> token[t].account])
  /\ UNCHANGED registrationVars
SubmitAccountRegistration(p) ==
  /\ Arrives(p, "registration")
  /\ \E t \in DOMAIN token :
       /\ token[t].valid
       /\ token' = [s \in DOMAIN token \ {t} |-> token[s]]
       /\ Accept(p, {<<"account", token[t].account>>}, "createProfile",
                 [account |-> token[t].account])
  /\ UNCHANGED <<profile, link, reached, unsure>>

(* Those whose e-mail address is in changed, and who have no other mark. *)
NewlyUnsure(changed) == {a \in Accounts : EmailsOf(a) \cap changed # {} /\ ~Known(a)}

(* Those who have a token, or are about to have one or to use it. *)
Registering ==
  {a \in Accounts :
     \/ \E t \in DOMAIN token : token[t].account = a
     \/ \E q \in Requests :
          pc[q] \in {"findToken", "insertToken", "createProfile"} /\ Data(q).account = a}

(* register, and sign in unless invited *)
CreateProfile(p) ==
  /\ At(p, "createProfile")
  /\ LET a == Data(p).account
         twice == {e \in EmailsOf(a) : \E i \in DOMAIN profile : e \in profile[i].emails} IN
     \E i \in ProfileIds \ DOMAIN profile :
       /\ \A j \in ProfileIds \ DOMAIN profile : i <= j
       /\ profile' = Put(profile, i, [account |-> a, emails |-> EmailsOf(a)])
       /\ reached' = [b \in Accounts |-> IF b = a THEN reached[b] \cup {i} ELSE reached[b]]
       /\ unsure' = unsure \cup NewlyUnsure(twice)
                           \cup ((NewlyUnsure(EmailsOf(a)) \cap Registering) \ {a})
  /\ Finish(p)
  /\ UNCHANGED <<link, token>>

(* PUT profiles/me/contacts or profiles/:profileId/contacts *)
UpdateContactInfo(p) ==
  /\ Arrives(p, "registration")
  /\ \E i \in DOMAIN profile, emails \in SUBSET Emails :
       LET old == profile[i].emails IN
       /\ profile' = Put(profile, i, [account |-> profile[i].account, emails |-> emails])
       /\ unsure' = unsure \cup NewlyUnsure((emails \ old) \cup (old \ emails))
       /\ Serve(p, {<<"profile", i>>})
  /\ UNCHANGED <<link, token, reached>>

(* A token expires a day after it was last renewed. *)
ExpireToken ==
  /\ area = "registration"
  /\ \E t \in DOMAIN token :
       /\ token[t].valid
       /\ token' = Put(token, t, [account |-> token[t].account, valid |-> FALSE])
  /\ UNCHANGED <<serverVars, profile, link, reached, unsure>>

RegistrationNext(p) ==
  \/ SignInWithProvider(p) \/ FindById(p) \/ FindByEmail(p)
  \/ FindLink(p) \/ CountLinks(p) \/ LoadLink(p) \/ WriteLink(p)
  \/ FindToken(p) \/ InsertToken(p)
  \/ CreateAccountRegistrationToken(p) \/ SubmitAccountRegistration(p) \/ CreateProfile(p)
  \/ UpdateContactInfo(p)

-------------------------------------------------------------------------------
(* Properties. *)

(* An account signs in to the same profile every time, whichever way it is found:
   by the id or the link that is stored of it, whatever becomes of its e-mail
   address; until then by the address, while that is not edited, comes into no
   second profile, and not into another's while the account has asked for a token
   of its own; and if no two of its requests are under way at once. *)
AccountsKeepTheirProfile ==
  \A a \in Accounts \ unsure :
    <<"account", a>> \notin crossed /\ (EmailsOf(a) # {} \/ ProviderOf[a] = "google") =>
      Cardinality(reached[a]) <= 1

(* The Discord accounts of a profile have different ranks, which number their
   nicknames, unless two Discord accounts sign in at once (the links are
   stored after the answers). *)
RanksDiffer ==
  <<"links", "discord">> \notin crossed =>
    \A a, b \in DOMAIN link :
      /\ ProviderOf[a] = "discord" /\ ProviderOf[b] = "discord"
      /\ link[a] = link[b]
      => a = b
===============================================================================
