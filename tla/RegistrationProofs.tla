--------------------------- MODULE RegistrationProofs --------------------------
(***************************************************************************)
(* Accounts keep their profile and the ranks of links differ, for any      *)
(* number of requests. Who has signed in, or asks for a token, has been    *)
(* found in the profiles or not; that stays so while nobody else's profile  *)
(* gets the address, which makes the account unsure, and no other request   *)
(* is about the account, which makes the two cross.                        *)
(*                                                                         *)
(* Searches over LDAP, too, are exact: what a search has read stays true of *)
(* the entries that nothing crosses, and an entry that matches the whole    *)
(* filter is among those that the filter's own clauses find.               *)
(***************************************************************************)
EXTENDS ServerProofs

LEMMA RegistrationSteps ==
  ASSUME [Next]_vars
  PROVE  \/ area = "registration" /\ \E p \in Requests : RegistrationNext(p)
         \/ UNCHANGED registrationVars /\ \E p \in Requests : Die(p)
         \/ ExpireToken
         \/ area # "registration" /\ UNCHANGED <<area, registrationVars>>
         \/ UNCHANGED <<serverVars, registrationVars>>
BY DEF Next, vars, Handle, Crash, Environment, PassTime, ExpireCache,
  ProcessPhoto, OutsideOfScheduler, OutsideOfRecruitment, OutsideOfRegistration,
  OutsideOfMembers, OutsideOfDiscordSync, OutsideOfAlbums, OutsideOfProfilePhotos,
  OutsideOfPhotoStream, OutsideOfForms, OutsideOfActivities, OutsideOfDirectory,
  OutsideOfAnnouncements, PassTick

(***************************************************************************)
(* The invariant                                                           *)
(***************************************************************************)

LinkSteps == {"findLink", "countLinks", "loadLink", "writeLink"}
SignInSteps == {"findById", "findByEmail"} \cup LinkSteps
TokenSteps == {"findToken", "insertToken", "createProfile"}

AccountRows ==
  /\ profile = [i \in DOMAIN profile |->
                  [account |-> profile[i].account, emails |-> profile[i].emails]]
  /\ link = [a \in DOMAIN link |-> [profile |-> link[a].profile, rank |-> link[a].rank]]
  /\ token = [t \in DOMAIN token |->
                [account |-> token[t].account, valid |-> token[t].valid]]
  /\ reached = [a \in Accounts |-> reached[a]]
  /\ \A t \in DOMAIN token : token[t].account \in Accounts \cup {Nobody}
  /\ IsFiniteSet(DOMAIN link)
  /\ \A a \in DOMAIN link : link[a].rank \in Nat

TokensOf(a) == {t \in DOMAIN token : token[t].account = a}

(* The accounts that the promise is about *)
Told(a) ==
  /\ a \in Accounts \ unsure
  /\ <<"account", a>> \notin crossed
  /\ EmailsOf(a) # {} \/ ProviderOf[a] = "google"

(* An account that registers is not found; one that was signed in is found at the
   profile it was signed in to, by its id or else by its address only. *)
AccountAgrees(a) ==
  Told(a) =>
    /\ \A i \in FoundById(a) : reached[a] = {i}
    /\ ~Known(a) =>
         reached[a] \subseteq FoundByEmail(a) /\ \A i, j \in FoundByEmail(a) : i = j
    /\ a \in Registering => ~Known(a) /\ FoundByEmail(a) = {}
    /\ \A s, t \in TokensOf(a) : s = t

(* What a request about an account has read of it *)
SignInAgrees(p) ==
  LET d == Data(p) IN
  /\ pc[p] \in SignInSteps \cup TokenSteps =>
       /\ d.account \in Accounts \cup {Nobody}
       /\ <<"account", d.account>> \in req[p].about
  /\ pc[p] \in SignInSteps =>
       /\ d.account \in Accounts
       /\ <<"links", ProviderOf[d.account]>> \in req[p].about
  /\ Told(d.account) =>
       /\ pc[p] = "findByEmail" => ~Known(d.account)
       /\ pc[p] \in LinkSteps => reached[d.account] = {d.profile}
       /\ pc[p] \in {"insertToken", "createProfile"} => TokensOf(d.account) = {}

LinksCrossed == <<"links", "discord">> \in crossed

(* What it has read of the links *)
LinkAgrees(p) ==
  LET d == Data(p) IN
  /\ pc[p] \in {"loadLink", "writeLink"} => d.rank \in Nat
  /\ ProviderOf[d.account] = "discord" /\ ~LinksCrossed =>
       /\ pc[p] \in {"countLinks", "loadLink", "writeLink"} => d.account \notin DOMAIN link
       /\ pc[p] \in {"loadLink", "writeLink"} => d.rank = Cardinality(Links(d.profile))

(* The ranks of the links of a profile are less than their number. *)
LinksAgree ==
  ~LinksCrossed =>
    \A a \in DOMAIN link :
      ProviderOf[a] = "discord" => link[a].rank < Cardinality(Links(link[a].profile))

RegistrationInv ==
  /\ area # "registration" => link = <<>> /\ reached = [a \in Accounts |-> {}]
  /\ area = "registration" =>
       /\ Sent /\ Alone
       /\ AccountRows
       /\ \A a \in Accounts : AccountAgrees(a)
       /\ LinksAgree /\ RanksDiffer
       /\ \A p \in Requests : SignInAgrees(p) /\ LinkAgrees(p)

-------------------------------------------------------------------------------
(***************************************************************************)
(* What a step leaves alone                                                *)
(***************************************************************************)

(* The marks of the past stay. *)
MarksStay == unsure \subseteq unsure' /\ crossed \subseteq crossed'

(* What is known of an account is as it was. *)
SameAccount(a) ==
  /\ reached'[a] = reached[a]
  /\ FoundById(a)' = FoundById(a)
  /\ TokensOf(a)' \subseteq TokensOf(a)

LEMMA AccountKept ==
  ASSUME MarksStay, NEW a \in Accounts, AccountAgrees(a),
         Told(a)' =>
           /\ SameAccount(a)
           /\ ~Known(a) => FoundByEmail(a)' = FoundByEmail(a)
           /\ a \in Registering' => a \in Registering
  PROVE  AccountAgrees(a)'
<1>1. Told(a)' => Told(a)
  BY DEF Told, MarksStay
<1>. QED  BY <1>1 DEF AccountAgrees, SameAccount, Known

(* Nothing is asked of the others, if only p takes a step. *)
LEMMA RegisteringKept ==
  ASSUME NEW p \in Requests, Others(p), NEW a \in Accounts,
         TokensOf(a)' \subseteq TokensOf(a),
         (pc[p] \in TokenSteps /\ Data(p).account = a)' => a \in Registering
  PROVE  a \in Registering' => a \in Registering
<1>. SUFFICES ASSUME a \in Registering'  PROVE a \in Registering
  OBVIOUS
<1>1. CASE (\E t \in DOMAIN token : token[t].account = a)'
  BY <1>1 DEF TokensOf, Registering
<1>2. CASE (\E q \in Requests : pc[q] \in TokenSteps /\ Data(q).account = a)'
  BY <1>2 DEF Others, TokenSteps, Registering, Data
<1>. QED  BY <1>1, <1>2 DEF Registering, TokenSteps

LEMMA OtherSignIn ==
  ASSUME NEW p \in Requests, NEW q \in Requests, q # p, Others(p), MarksStay,
         SignInAgrees(q), NEW a, a = Data(q).account, Told(a)' => SameAccount(a)
  PROVE  SignInAgrees(q)'
<1>1. pc'[q] = pc[q] /\ req'[q] = req[q] /\ Data(q)' = Data(q) /\ Data(q)'.account = a
  BY DEF Others, Data
<1>2. Told(a)' => Told(a) /\ SameAccount(a)
  BY DEF Told, MarksStay
<1>. QED  BY <1>1, <1>2 DEF SignInAgrees, SameAccount, Known

LEMMA OtherLink ==
  ASSUME NEW p \in Requests, NEW q \in Requests, q # p, Others(p), MarksStay,
         LinkAgrees(q), NEW a, a = Data(q).account,
         \/ link' = link
         \/ LinksCrossed' \/ ProviderOf[a] # "discord"
         \/ /\ a \notin DOMAIN link => a \notin DOMAIN link'
            /\ \A i : Links(i)' = Links(i)
  PROVE  LinkAgrees(q)'
<1>1. pc'[q] = pc[q] /\ req'[q] = req[q] /\ Data(q)' = Data(q) /\ Data(q)'.account = a
  BY DEF Others, Data
<1>2. LinksCrossed => LinksCrossed'
  BY DEF LinksCrossed, MarksStay
<1>3. link' = link => \A i : Links(i)' = Links(i)
  BY DEF Links
<1>. QED  BY <1>1, <1>2, <1>3 DEF LinkAgrees

(* While a request about an account is under way, another one about it has crossed
   with it, and those about others do not notice. *)
LEMMA OthersAbout ==
  ASSUME Alone, MarksStay, NEW p \in Requests, Others(p), InFlight(p),
         NEW a, <<"account", a>> \in req[p].about,
         \A b \in Accounts \ {a} : SameAccount(b),
         NEW q \in Requests, q # p, SignInAgrees(q)
  PROVE  SignInAgrees(q)'
<1>1. PICK b : b = Data(q).account
  OBVIOUS
<1>2. CASE pc[q] \notin SignInSteps \cup TokenSteps
  <2>1. pc'[q] = pc[q]
    BY DEF Others
  <2>. QED  BY <1>2, <2>1 DEF SignInAgrees, SignInSteps, TokenSteps, LinkSteps
<1>3. CASE pc[q] \in SignInSteps \cup TokenSteps
  <2>1. InFlight(q) /\ <<"account", b>> \in req[q].about
    BY <1>1, <1>3 DEF SignInAgrees, InFlight, SignInSteps, TokenSteps, LinkSteps
  <2>2. b = a => <<"account", a>> \in crossed
    BY <2>1 DEF Alone
  <2>3. Told(b)' => SameAccount(b)
    BY <2>2 DEF Told, MarksStay
  <2>. QED  BY <1>1, <2>3, OtherSignIn
<1>. QED  BY <1>2, <1>3

(* Steps that write no table, and in which nobody begins to register *)
LEMMA QuietRequest ==
  ASSUME RegistrationInv, area = "registration", NEW p \in Requests,
         Sent', Alone', Others(p), area' = area, MarksStay,
         UNCHANGED <<profile, link, token, reached>>,
         \A a \in Accounts : (pc[p] \in TokenSteps /\ Data(p).account = a)' => a \in Registering,
         SignInAgrees(p)', LinkAgrees(p)'
  PROVE  RegistrationInv'
<1>1. \A a : SameAccount(a) /\ FoundByEmail(a)' = FoundByEmail(a)
  BY DEF SameAccount, FoundById, FoundByEmail, TokensOf
<1>2. ASSUME NEW a \in Accounts  PROVE AccountAgrees(a)'
  <2>1. a \in Registering' => a \in Registering
    BY <1>1, RegisteringKept DEF SameAccount
  <2>. QED  BY <1>1, <2>1, AccountKept DEF RegistrationInv
<1>3. ASSUME NEW q \in Requests, q # p  PROVE SignInAgrees(q)' /\ LinkAgrees(q)'
  <2>1. PICK a : a = Data(q).account
    OBVIOUS
  <2>2. SignInAgrees(q)'
    BY <1>1, <1>3, <2>1, OtherSignIn DEF RegistrationInv
  <2>3. LinkAgrees(q)'
    BY <1>3, <2>1, OtherLink DEF RegistrationInv
  <2>. QED  BY <2>2, <2>3
<1>4. AccountRows' /\ (\A i : Links(i)' = Links(i))
  BY DEF RegistrationInv, AccountRows, Links
<1>5. LinksAgree' /\ RanksDiffer'
  BY <1>4 DEF RegistrationInv, LinksAgree, RanksDiffer, LinksCrossed, MarksStay
<1>. QED  BY <1>2, <1>3, <1>4, <1>5 DEF RegistrationInv

-------------------------------------------------------------------------------
(***************************************************************************)
(* The handlers of RegistrationService and SignInController, one by one     *)
(***************************************************************************)

LEMMA SignInWithProviderKeeps ==
  ASSUME RegistrationInv, NEW p \in Requests, SignInWithProvider(p)
  PROVE  RegistrationInv'
<1>1. PICK a \in Accounts :
        Accept(p, {<<"account", a>>, <<"links", ProviderOf[a]>>}, "findById", [account |-> a])
  BY DEF SignInWithProvider
<1>2. /\ area = "registration" /\ Sent /\ Alone
      /\ UNCHANGED <<profile, link, token, reached, unsure>>
  BY DEF SignInWithProvider, Arrives, RegistrationInv, registrationVars
<1>3. /\ Sent' /\ Others(p) /\ pc'[p] = "findById"
      /\ req'[p] = [about |-> {<<"account", a>>, <<"links", ProviderOf[a]>>},
                    data |-> [account |-> a]]
  <2>. DEFINE about == {<<"account", a>>, <<"links", ProviderOf[a]>>}
              data == [account |-> a]
  <2>1. Accept(p, about, "findById", data) /\ Sent
    BY <1>1, <1>2
  <2>. HIDE DEF about, data
  <2>2. Sent' /\ Others(p) /\ pc'[p] = "findById" /\ req'[p] = [about |-> about, data |-> data]
    BY <2>1, AcceptStep
  <2>. QED  BY <2>2 DEF about, data
<1>4. Alone' /\ MarksStay /\ area' = area
  BY <1>1, <1>2, AcceptAlone DEF MarksStay, Accept
<1>5. SignInAgrees(p)' /\ LinkAgrees(p)'
  BY <1>3 DEF SignInAgrees, LinkAgrees, Data, SignInSteps, TokenSteps, LinkSteps
<1>. QED  BY <1>2, <1>3, <1>4, <1>5, QuietRequest DEF TokenSteps

LEMMA CreateAccountRegistrationTokenKeeps ==
  ASSUME RegistrationInv, NEW p \in Requests, CreateAccountRegistrationToken(p)
  PROVE  RegistrationInv'
<1>1. Accept(p, {<<"account", Nobody>>}, "findToken", [account |-> Nobody])
  BY DEF CreateAccountRegistrationToken
<1>2. /\ area = "registration" /\ Sent /\ Alone
      /\ UNCHANGED <<profile, link, token, reached, unsure>>
  BY DEF CreateAccountRegistrationToken, Arrives, RegistrationInv, registrationVars
<1>3. /\ Sent' /\ Others(p) /\ pc'[p] = "findToken"
      /\ req'[p] = [about |-> {<<"account", Nobody>>}, data |-> [account |-> Nobody]]
  BY <1>1, <1>2, AcceptStep
<1>4. Alone' /\ MarksStay /\ area' = area
  BY <1>1, <1>2, AcceptAlone DEF MarksStay, Accept
<1>5. SignInAgrees(p)' /\ LinkAgrees(p)'
  BY <1>3 DEF SignInAgrees, LinkAgrees, Data, SignInSteps, TokenSteps, LinkSteps
<1>. QED  BY <1>2, <1>3, <1>4, <1>5, QuietRequest, RegistrationAssumption DEF Data

(* The request goes on from what it is about, or ends. *)
LEMMA Goes ==
  ASSUME RegistrationInv, area = "registration", NEW p \in Requests, InFlight(p),
         NEW step, NEW data, Go(p, step, data), unsure \subseteq unsure'
  PROVE  /\ Sent' /\ Alone' /\ Others(p) /\ area' = area /\ MarksStay /\ crossed' = crossed
         /\ pc'[p] = step /\ req'[p].about = req[p].about /\ Data(p)' = data
BY GoStep, GoAlone DEF RegistrationInv, MarksStay, Data, Go

LEMMA Ends ==
  ASSUME RegistrationInv, area = "registration", NEW p \in Requests,
         Finish(p) \/ Die(p), unsure \subseteq unsure'
  PROVE  /\ Sent' /\ Alone' /\ Others(p) /\ area' = area /\ MarksStay /\ crossed' = crossed
         /\ pc'[p] = "done" /\ SignInAgrees(p)' /\ LinkAgrees(p)'
         /\ (pc[p] \notin TokenSteps)'
<1>1. /\ Sent' /\ Alone' /\ Others(p) /\ area' = area /\ crossed' = crossed
      /\ pc'[p] = "done"
  BY FinishAlone DEF RegistrationInv
<1>2. SignInAgrees(p)' /\ LinkAgrees(p)' /\ (pc[p] \notin TokenSteps)'
  BY <1>1 DEF SignInAgrees, LinkAgrees, SignInSteps, TokenSteps, LinkSteps
<1>. QED  BY <1>1, <1>2 DEF MarksStay

LEMMA DieKeepsAccounts ==
  ASSUME RegistrationInv, area = "registration", UNCHANGED registrationVars,
         NEW p \in Requests, Die(p)
  PROVE  RegistrationInv'
<1>1. UNCHANGED <<profile, link, token, reached, unsure>>
  BY DEF registrationVars
<1>. QED  BY <1>1, Ends, QuietRequest

(* What a request about an account knows *)
LEMMA AboutWhom ==
  ASSUME RegistrationInv, area = "registration", NEW p \in Requests,
         pc[p] \in SignInSteps \cup TokenSteps, NEW a, a = Data(p).account
  PROVE  /\ InFlight(p) /\ a \in Accounts \cup {Nobody}
         /\ <<"account", a>> \in req[p].about
         /\ pc[p] \in SignInSteps => a \in Accounts
         /\ a \in Accounts => AccountAgrees(a)
         /\ pc[p] \in TokenSteps /\ a \in Accounts => a \in Registering
<1>1. SignInAgrees(p) /\ \A b \in Accounts : AccountAgrees(b)
  BY DEF RegistrationInv
<1>2. pc[p] \in TokenSteps /\ a \in Accounts => a \in Registering
  BY DEF TokenSteps, Registering
<1>. QED
  BY <1>1, <1>2 DEF SignInAgrees, InFlight, SignInSteps, TokenSteps, LinkSteps

(* Steps that are noticed by the request and its account alone *)
LEMMA StepAbout ==
  ASSUME RegistrationInv, area = "registration", NEW p \in Requests,
         pc[p] \in SignInSteps \cup TokenSteps, NEW a, a = Data(p).account,
         Sent', Alone', Others(p), area' = area, MarksStay, AccountRows', link' = link,
         \A b \in Accounts \ {a} : SameAccount(b) /\ FoundByEmail(b)' = FoundByEmail(b),
         (pc[p] \in TokenSteps => Data(p).account = a)',
         a \in Accounts => AccountAgrees(a)', SignInAgrees(p)', LinkAgrees(p)'
  PROVE  RegistrationInv'
<1>1. ASSUME NEW b \in Accounts \ {a}  PROVE AccountAgrees(b)'
  <2>1. b \in Registering' => b \in Registering
    BY <1>1, RegisteringKept DEF SameAccount
  <2>. QED  BY <2>1, AccountKept DEF RegistrationInv
<1>2. ASSUME NEW q \in Requests, q # p  PROVE SignInAgrees(q)' /\ LinkAgrees(q)'
  <2>1. PICK b : b = Data(q).account
    OBVIOUS
  <2>2. SignInAgrees(q)'
    BY <1>2, AboutWhom, OthersAbout DEF RegistrationInv
  <2>3. LinkAgrees(q)'
    BY <1>2, <2>1, OtherLink DEF RegistrationInv
  <2>. QED  BY <2>2, <2>3
<1>3. LinksAgree' /\ RanksDiffer'
  BY DEF RegistrationInv, LinksAgree, RanksDiffer, LinksCrossed, MarksStay, Links
<1>. QED  BY <1>1, <1>2, <1>3 DEF RegistrationInv

(* An account is signed in to a profile. *)
LEMMA SignIs ==
  ASSUME RegistrationInv, area = "registration", NEW a \in Accounts, NEW i, Sign(a, i),
         UNCHANGED <<profile, link, token>>
  PROVE  /\ AccountRows'
         /\ reached'[a] = reached[a] \cup {i}
         /\ \A b \in Accounts \ {a} : SameAccount(b)
         /\ \A b : /\ FoundById(b)' = FoundById(b)
                   /\ FoundByEmail(b)' = FoundByEmail(b)
                   /\ TokensOf(b)' = TokensOf(b)
<1>1. AccountRows
  BY DEF RegistrationInv
<1>2. \A b : /\ FoundById(b)' = FoundById(b)
             /\ FoundByEmail(b)' = FoundByEmail(b)
             /\ TokensOf(b)' = TokensOf(b)
  BY DEF FoundById, FoundByEmail, TokensOf
<1>3. /\ reached' = [b \in Accounts |-> reached'[b]]
      /\ reached'[a] = reached[a] \cup {i}
      /\ \A b \in Accounts \ {a} : reached'[b] = reached[b]
  BY <1>1 DEF Sign, AccountRows
<1>. QED  BY <1>1, <1>2, <1>3 DEF AccountRows, SameAccount

LEMMA FindByIdKeeps ==
  ASSUME RegistrationInv, area = "registration", NEW p \in Requests, FindById(p)
  PROVE  RegistrationInv'
<1>1. PICK a : a = Data(p).account
  OBVIOUS
<1>2. pc[p] = "findById" /\ UNCHANGED <<profile, link, token, unsure>>
  BY DEF FindById, At
<1>3. /\ InFlight(p) /\ a \in Accounts /\ <<"account", a>> \in req[p].about
      /\ AccountAgrees(a) /\ SignInAgrees(p) /\ AccountRows
  BY <1>1, <1>2, AboutWhom DEF SignInSteps, RegistrationInv
<1>4. CASE \E i \in FoundById(a) : Sign(a, i) /\ Finish(p)
  <2>1. PICK i \in FoundById(a) : Sign(a, i) /\ Finish(p)
    BY <1>4
  <2>2. /\ AccountRows'
        /\ reached'[a] = reached[a] \cup {i}
        /\ \A b \in Accounts \ {a} : SameAccount(b)
        /\ \A b : /\ FoundById(b)' = FoundById(b)
                  /\ FoundByEmail(b)' = FoundByEmail(b)
                  /\ TokensOf(b)' = TokensOf(b)
    BY <1>2, <1>3, <2>1, SignIs
  <2>3. /\ Sent' /\ Alone' /\ Others(p) /\ area' = area /\ MarksStay
        /\ SignInAgrees(p)' /\ LinkAgrees(p)' /\ (pc[p] \notin TokenSteps)'
    BY <1>2, <2>1, Ends
  <2>4. Told(a) => reached[a] = {i}
    BY <1>3, <2>1 DEF AccountAgrees
  <2>5. Told(a)' => SameAccount(a)
    BY <2>2, <2>3, <2>4 DEF Told, MarksStay, SameAccount
  <2>6. a \in Registering' => a \in Registering
    BY <1>3, <2>2, <2>3, RegisteringKept
  <2>7. AccountAgrees(a)'
    BY <1>3, <2>2, <2>3, <2>5, <2>6, AccountKept
  <2>. QED  BY <1>1, <1>2, <2>2, <2>3, <2>7, StepAbout DEF SignInSteps
<1>5. CASE ~Known(a) /\ Go(p, "findByEmail", Data(p)) /\ UNCHANGED reached
  <2>1. /\ Sent' /\ Alone' /\ Others(p) /\ area' = area /\ MarksStay /\ crossed' = crossed
        /\ pc'[p] = "findByEmail" /\ req'[p].about = req[p].about /\ Data(p)' = Data(p)
    BY <1>2, <1>3, <1>5, Goes
  <2>2. Known(a)' = Known(a)
    BY <1>2 DEF Known, FoundById
  <2>3. SignInAgrees(p)' /\ LinkAgrees(p)'
    BY <1>1, <1>2, <1>3, <1>5, <2>1, <2>2
       DEF SignInAgrees, LinkAgrees, SignInSteps, TokenSteps, LinkSteps
  <2>. QED  BY <1>2, <1>5, <2>1, <2>3, QuietRequest DEF TokenSteps
<1>. QED  BY <1>1, <1>4, <1>5 DEF FindById

LEMMA FindByEmailKeeps ==
  ASSUME RegistrationInv, area = "registration", NEW p \in Requests, FindByEmail(p)
  PROVE  RegistrationInv'
<1>1. PICK a : a = Data(p).account
  OBVIOUS
<1>2. pc[p] = "findByEmail" /\ UNCHANGED <<profile, link, token, unsure>>
  BY DEF FindByEmail, At
<1>3. /\ InFlight(p) /\ a \in Accounts /\ <<"account", a>> \in req[p].about
      /\ <<"links", ProviderOf[a]>> \in req[p].about
      /\ AccountAgrees(a) /\ SignInAgrees(p) /\ AccountRows
      /\ Told(a) => ~Known(a)
  BY <1>1, <1>2, AboutWhom DEF SignInSteps, RegistrationInv, SignInAgrees
<1>4. ASSUME NEW i \in FoundByEmail(a), Sign(a, i),
             IF ProviderOf[a] = "google" THEN Finish(p)
             ELSE Go(p, "findLink", [account |-> a, profile |-> i])
      PROVE  RegistrationInv'
  <2>2. /\ AccountRows'
        /\ reached'[a] = reached[a] \cup {i}
        /\ \A b \in Accounts \ {a} : SameAccount(b)
        /\ \A b : /\ FoundById(b)' = FoundById(b)
                  /\ FoundByEmail(b)' = FoundByEmail(b)
                  /\ TokensOf(b)' = TokensOf(b)
    BY <1>2, <1>3, <1>4, SignIs
  <2>4. Told(a) => reached'[a] = {i} /\ a \notin Registering
    BY <1>3, <1>4, <2>2 DEF AccountAgrees
  <2>5. \/ Finish(p)
        \/ Go(p, "findLink", [account |-> a, profile |-> i])
    BY <1>4
  <2>6. /\ Sent' /\ Alone' /\ Others(p) /\ area' = area /\ MarksStay
        /\ (pc[p] \notin TokenSteps)' /\ SignInAgrees(p)' /\ LinkAgrees(p)'
    <3>1. CASE Finish(p)
      BY <1>2, <3>1, Ends
    <3>2. CASE Go(p, "findLink", [account |-> a, profile |-> i])
      <4>. DEFINE data == [account |-> a, profile |-> i]
      <4>1. data.account = a /\ data.profile = i
        OBVIOUS
      <4>2. Go(p, "findLink", data)
        BY <3>2
      <4>. HIDE DEF data
      <4>3. /\ Sent' /\ Alone' /\ Others(p) /\ area' = area /\ MarksStay /\ crossed' = crossed
            /\ pc'[p] = "findLink" /\ req'[p].about = req[p].about /\ Data(p)' = data
        BY <1>2, <1>3, <4>2, Goes
      <4>4. Told(a)' => Told(a)
        BY <4>3 DEF MarksStay, Told
      <4>5. SignInAgrees(p)' /\ LinkAgrees(p)'
        BY <1>3, <2>4, <4>1, <4>3, <4>4
           DEF SignInAgrees, LinkAgrees, SignInSteps, TokenSteps, LinkSteps
      <4>. QED  BY <4>3, <4>5 DEF TokenSteps
    <3>. QED  BY <2>5, <3>1, <3>2
  <2>7. a \in Registering' => a \in Registering
    BY <1>3, <2>2, <2>6, RegisteringKept
  <2>8. Told(a)' => Told(a)
    BY <2>6 DEF Told, MarksStay
  <2>9. AccountAgrees(a)'
    BY <1>3, <1>4, <2>2, <2>4, <2>7, <2>8 DEF AccountAgrees, Known
  <2>. QED  BY <1>1, <1>2, <2>2, <2>6, <2>9, StepAbout DEF SignInSteps
<1>5. CASE FoundByEmail(a) = {} /\ Go(p, "findToken", Data(p)) /\ UNCHANGED reached
  <2>1. /\ Sent' /\ Alone' /\ Others(p) /\ area' = area /\ MarksStay /\ crossed' = crossed
        /\ pc'[p] = "findToken" /\ req'[p].about = req[p].about /\ Data(p)' = Data(p)
    BY <1>2, <1>3, <1>5, Goes
  <2>2. AccountRows' /\ \A b : SameAccount(b) /\ FoundByEmail(b)' = FoundByEmail(b)
    BY <1>2, <1>3, <1>5 DEF AccountRows, SameAccount, FoundById, FoundByEmail, TokensOf
  <2>3. SignInAgrees(p)' /\ LinkAgrees(p)'
    BY <1>1, <1>2, <1>3, <2>1
       DEF SignInAgrees, LinkAgrees, SignInSteps, TokenSteps, LinkSteps
  <2>4. Told(a)' => Told(a)
    BY <2>1 DEF Told, MarksStay
  <2>5. AccountAgrees(a)'
    BY <1>3, <1>5, <2>2, <2>4 DEF AccountAgrees, SameAccount, Known
  <2>. QED  BY <1>1, <1>2, <2>1, <2>2, <2>3, <2>5, StepAbout DEF SignInSteps
<1>. QED  BY <1>1, <1>4, <1>5 DEF FindByEmail

-------------------------------------------------------------------------------
(***************************************************************************)
(* The links of the accounts of Discord and GitLab                         *)
(***************************************************************************)

(* Steps of a request that is about to store a link, with what it found so far *)
LEMMA LinkStep ==
  ASSUME RegistrationInv, area = "registration", NEW p \in Requests, pc[p] \in LinkSteps,
         NEW step \in LinkSteps, NEW data, Go(p, step, data), UNCHANGED registrationVars,
         data.account = Data(p).account, data.profile = Data(p).profile,
         step \in {"loadLink", "writeLink"} => data.rank \in Nat,
         ProviderOf[data.account] = "discord" /\ ~LinksCrossed =>
           /\ step \in {"countLinks", "loadLink", "writeLink"} => data.account \notin DOMAIN link
           /\ step \in {"loadLink", "writeLink"} => data.rank = Cardinality(Links(data.profile))
  PROVE  RegistrationInv'
<1>1. PICK a : a = Data(p).account
  OBVIOUS
<1>2. UNCHANGED <<profile, link, token, reached, unsure>>
  BY DEF registrationVars
<1>3. /\ InFlight(p) /\ a \in Accounts /\ <<"account", a>> \in req[p].about
      /\ AccountAgrees(a) /\ SignInAgrees(p)
  BY <1>1, AboutWhom DEF SignInSteps, RegistrationInv
<1>4. /\ Sent' /\ Alone' /\ Others(p) /\ area' = area /\ MarksStay /\ crossed' = crossed
      /\ pc'[p] = step /\ req'[p].about = req[p].about /\ Data(p)' = data
  BY <1>2, <1>3, Goes
<1>5. Told(a)' => Told(a)
  BY <1>4 DEF MarksStay, Told
<1>6. SignInAgrees(p)'
  BY <1>1, <1>2, <1>3, <1>4, <1>5 DEF SignInAgrees, SignInSteps, TokenSteps, LinkSteps
<1>7. \A i : Links(i)' = Links(i)
  BY <1>2 DEF Links
<1>8. LinkAgrees(p)'
  BY <1>2, <1>4, <1>7 DEF LinkAgrees, LinksCrossed
<1>. QED  BY <1>2, <1>4, <1>6, <1>8, QuietRequest DEF TokenSteps, LinkSteps

LEMMA EndsQuietly ==
  ASSUME RegistrationInv, area = "registration", NEW p \in Requests, Finish(p),
         UNCHANGED registrationVars
  PROVE  RegistrationInv'
<1>1. UNCHANGED <<profile, link, token, reached, unsure>>
  BY DEF registrationVars
<1>. QED  BY <1>1, Ends, QuietRequest

LEMMA WithRankIs ==
  ASSUME NEW d, NEW n
  PROVE  /\ WithRank(d, n).account = d.account
         /\ WithRank(d, n).profile = d.profile
         /\ WithRank(d, n).rank = n
BY DEF WithRank

LEMMA FindLinkKeeps ==
  ASSUME RegistrationInv, area = "registration", NEW p \in Requests, FindLink(p)
  PROVE  RegistrationInv'
<1>1. PICK d : d = Data(p)
  OBVIOUS
<1>2. pc[p] = "findLink" /\ UNCHANGED registrationVars
  BY DEF FindLink, At
<1>3. CASE Finish(p)
  BY <1>2, <1>3, EndsQuietly
<1>4. CASE d.account \notin DOMAIN link /\ Go(p, "countLinks", d)
  BY <1>1, <1>2, <1>4, LinkStep DEF LinkSteps
<1>5. CASE ProviderOf[d.account] # "discord" /\ Go(p, "loadLink", WithRank(d, 0))
  BY <1>1, <1>2, <1>5, LinkStep, WithRankIs DEF LinkSteps
<1>. QED  BY <1>1, <1>3, <1>4, <1>5 DEF FindLink

LEMMA CountLinksKeeps ==
  ASSUME RegistrationInv, area = "registration", NEW p \in Requests, CountLinks(p)
  PROVE  RegistrationInv'
<1>1. PICK d : d = Data(p)
  OBVIOUS
<1>2. pc[p] = "countLinks" /\ UNCHANGED registrationVars
  BY DEF CountLinks, At
<1>3. Go(p, "loadLink", WithRank(d, Cardinality(Links(d.profile))))
  BY <1>1 DEF CountLinks
<1>4. Links(d.profile) \subseteq DOMAIN link /\ IsFiniteSet(DOMAIN link) /\ LinkAgrees(p)
  BY DEF Links, RegistrationInv, AccountRows
<1>5. Cardinality(Links(d.profile)) \in Nat
  BY <1>4, FS_Subset, FS_CardinalityType
<1>. QED  BY <1>1, <1>2, <1>3, <1>4, <1>5, LinkStep, WithRankIs DEF LinkSteps, LinkAgrees

LEMMA LoadLinkKeeps ==
  ASSUME RegistrationInv, area = "registration", NEW p \in Requests, LoadLink(p)
  PROVE  RegistrationInv'
<1>1. PICK d : d = Data(p)
  OBVIOUS
<1>2. pc[p] = "loadLink" /\ UNCHANGED registrationVars /\ LinkAgrees(p)
  BY DEF LoadLink, At, RegistrationInv
<1>. DEFINE data == [account |-> d.account, profile |-> d.profile, rank |-> d.rank,
                     insert |-> d.account \notin DOMAIN link]
<1>3. Go(p, "writeLink", data)
  BY <1>1 DEF LoadLink
<1>4. data.account = d.account /\ data.profile = d.profile /\ data.rank = d.rank
  OBVIOUS
<1>. HIDE DEF data
<1>. QED  BY <1>1, <1>2, <1>3, <1>4, LinkStep DEF LinkSteps, LinkAgrees

(* The ranks of the links, when one is added *)
LEMMA LinkAdded ==
  ASSUME RegistrationInv, area = "registration", NEW a, NEW i, NEW n \in Nat,
         link' = Put(link, a, [profile |-> i, rank |-> n]), crossed' = crossed,
         ProviderOf[a] = "discord" /\ ~LinksCrossed =>
           a \notin DOMAIN link /\ n = Cardinality(Links(i))
  PROVE  /\ LinksAgree' /\ RanksDiffer'
         /\ ProviderOf[a] # "discord" => \A j : Links(j)' = Links(j)
<1>1. /\ DOMAIN link' = DOMAIN link \cup {a}
      /\ link'[a].profile = i /\ link'[a].rank = n
      /\ \A b \in DOMAIN link \ {a} : link'[b] = link[b]
  BY DEF Put
<1>2. \A b \in DOMAIN link : link[b].rank \in Nat
  BY DEF RegistrationInv, AccountRows
<1>3. ProviderOf[a] # "discord" => \A j : Links(j)' = Links(j)
  BY <1>1 DEF Links
<1>4. LinksCrossed' = LinksCrossed
  BY DEF LinksCrossed
<1>5. CASE LinksCrossed
  BY <1>3, <1>4, <1>5 DEF LinksAgree, RanksDiffer, LinksCrossed
<1>6. CASE ~LinksCrossed /\ ProviderOf[a] # "discord"
  BY <1>1, <1>3, <1>4, <1>6 DEF LinksAgree, RanksDiffer, LinksCrossed, RegistrationInv
<1>7. CASE ~LinksCrossed /\ ProviderOf[a] = "discord"
  <2>1. a \notin DOMAIN link /\ n = Cardinality(Links(i))
    BY <1>7
  <2>2. /\ Links(i)' = Links(i) \cup {a} /\ a \notin Links(i)
        /\ \A j : j # i => Links(j)' = Links(j)
    BY <1>1, <1>7, <2>1 DEF Links
  <2>3. Links(i) \subseteq DOMAIN link /\ IsFiniteSet(DOMAIN link)
    BY DEF Links, RegistrationInv, AccountRows
  <2>4. IsFiniteSet(Links(i))
    BY <2>3, FS_Subset
  <2>5. Cardinality(Links(i) \cup {a}) = n + 1
    BY <2>1, <2>2, <2>4, FS_AddElement
  <2>6. ASSUME NEW b \in DOMAIN link', ProviderOf[b] = "discord", NEW j, j = link'[b].profile
        PROVE  link'[b].rank < Cardinality(Links(j)')
    <3>1. CASE b = a
      <4>1. j = i /\ link'[b].rank = n
        BY <1>1, <2>6, <3>1
      <4>2. Links(j)' = Links(i) \cup {a}
        BY <2>2, <4>1
      <4>. QED  BY <2>5, <4>1, <4>2
    <3>2. CASE b # a
      <4>1. b \in DOMAIN link /\ link'[b] = link[b]
        BY <1>1, <3>2
      <4>2. link[b].rank < Cardinality(Links(link[b].profile))
        BY <1>7, <2>6, <4>1 DEF RegistrationInv, LinksAgree
      <4>3. CASE link[b].profile = i
        BY <1>2, <2>1, <2>2, <2>5, <2>6, <4>1, <4>2, <4>3
      <4>4. CASE link[b].profile # i
        BY <2>2, <2>6, <4>1, <4>2, <4>4
      <4>. QED  BY <4>3, <4>4
    <3>. QED  BY <3>1, <3>2
  <2>7. ASSUME NEW b \in DOMAIN link, ProviderOf[b] = "discord", link[b].profile = i
        PROVE  link[b].rank < n
    BY <1>7, <2>1, <2>7 DEF RegistrationInv, LinksAgree
  <2>8. \A b, c \in DOMAIN link' :
          /\ ProviderOf[b] = "discord" /\ ProviderOf[c] = "discord"
          /\ link'[b] = link'[c]
          => b = c
    BY <1>1, <1>2, <1>7, <2>7 DEF RegistrationInv, RanksDiffer, LinksCrossed
  <2>9. LinksAgree'
    BY <2>6 DEF LinksAgree, Links
  <2>. QED  BY <1>7, <2>8, <2>9 DEF RanksDiffer
<1>. QED  BY <1>3, <1>5, <1>6, <1>7

LEMMA WriteLinkKeeps ==
  ASSUME RegistrationInv, area = "registration", NEW p \in Requests, WriteLink(p)
  PROVE  RegistrationInv'
<1>1. PICK d : d = Data(p)
  OBVIOUS
<1>2. PICK a : a = d.account
  OBVIOUS
<1>3. /\ pc[p] = "writeLink" /\ Finish(p)
      /\ UNCHANGED <<profile, token, reached, unsure>>
      /\ \/ link' = link
         \/ link' = Put(link, a, [profile |-> d.profile, rank |-> d.rank])
  BY <1>1, <1>2 DEF WriteLink, At
<1>4. /\ InFlight(p) /\ a \in Accounts /\ <<"account", a>> \in req[p].about
      /\ <<"links", ProviderOf[a]>> \in req[p].about
      /\ AccountAgrees(a) /\ SignInAgrees(p) /\ AccountRows /\ LinkAgrees(p)
      /\ Told(a) => reached[a] = {d.profile}
  BY <1>1, <1>2, <1>3, AboutWhom DEF SignInSteps, LinkSteps, RegistrationInv, SignInAgrees
<1>5. CASE link' = link
  BY <1>3, <1>5, EndsQuietly DEF registrationVars
<1>6. CASE link' = Put(link, a, [profile |-> d.profile, rank |-> d.rank])
  <2>1. /\ Sent' /\ Alone' /\ Others(p) /\ area' = area /\ MarksStay /\ crossed' = crossed
        /\ SignInAgrees(p)' /\ LinkAgrees(p)' /\ (pc[p] \notin TokenSteps)'
    BY <1>3, Ends
  <2>2. /\ DOMAIN link' = DOMAIN link \cup {a}
        /\ link' = [b \in DOMAIN link' |-> link'[b]]
        /\ link'[a] = [profile |-> d.profile, rank |-> d.rank]
        /\ \A b \in DOMAIN link \ {a} : link'[b] = link[b]
    BY <1>6 DEF Put
  <2>3. d.rank \in Nat
    BY <1>1, <1>3, <1>4 DEF LinkAgrees
  <2>4. IsFiniteSet(DOMAIN link')
    BY <1>4, <2>2, FS_AddElement DEF AccountRows
  <2>5. AccountRows'
    <3>1. \A b \in DOMAIN link' :
            /\ link'[b] = [profile |-> link'[b].profile, rank |-> link'[b].rank]
            /\ link'[b].rank \in Nat
      BY <1>4, <2>2, <2>3 DEF AccountRows
    <3>. QED  BY <1>3, <1>4, <2>2, <2>4, <3>1 DEF AccountRows
  <2>6. \A b : TokensOf(b)' = TokensOf(b) /\ FoundByEmail(b)' = FoundByEmail(b)
    BY <1>3 DEF TokensOf, FoundByEmail
  <2>7. \A b \in Accounts \ {a} : SameAccount(b)
    BY <1>3, <2>2, <2>6 DEF SameAccount, FoundById
  <2>8. ASSUME NEW b \in Accounts \ {a}  PROVE AccountAgrees(b)'
    <3>1. b \in Registering' => b \in Registering
      BY <2>1, <2>6, RegisteringKept
    <3>. QED  BY <2>1, <2>6, <2>7, <3>1, AccountKept DEF RegistrationInv
  <2>9. AccountAgrees(a)'
    <3>1. a \in Registering' => a \in Registering
      BY <1>4, <2>1, <2>6, RegisteringKept
    <3>2. Told(a)' => Told(a)
      BY <2>1 DEF Told, MarksStay
    <3>3. FoundById(a)' = IF ProviderOf[a] = "google" THEN FoundById(a) ELSE {d.profile}
      <4>1. a \in DOMAIN link' /\ link'[a].profile = d.profile
        BY <2>2
      <4>2. {link'[a].profile : b \in {a} \cap DOMAIN link'} = {d.profile}
        BY <4>1
      <4>. QED  BY <1>3, <4>2 DEF FoundById
    <3>4. Told(a) => a \notin Registering
      BY <1>4 DEF AccountAgrees
    <3>. QED  BY <1>3, <1>4, <2>6, <3>1, <3>2, <3>3, <3>4 DEF AccountAgrees, Known
  <2>10. ASSUME NEW q \in Requests, q # p  PROVE SignInAgrees(q)' /\ LinkAgrees(q)'
    <3>1. SignInAgrees(q)'
      BY <1>4, <2>1, <2>7, <2>10, OthersAbout DEF RegistrationInv
    <3>2. PICK b : b = Data(q).account
      OBVIOUS
    <3>3. CASE pc[q] \notin SignInSteps
      <4>1. pc'[q] = pc[q]
        BY <2>1, <2>10 DEF Others
      <4>2. pc'[q] \notin {"countLinks", "loadLink", "writeLink"}
        BY <3>3, <4>1 DEF SignInSteps, LinkSteps
      <4>. QED  BY <3>1, <4>2 DEF LinkAgrees
    <3>4. CASE pc[q] \in SignInSteps
      <4>1. InFlight(q) /\ <<"links", ProviderOf[b]>> \in req[q].about
        BY <3>2, <3>4 DEF RegistrationInv, SignInAgrees, InFlight, SignInSteps, LinkSteps
      <4>2. ProviderOf[b] = ProviderOf[a] => <<"links", ProviderOf[b]>> \in crossed
        BY <1>4, <2>10, <4>1 DEF Alone, RegistrationInv
      <4>3. /\ ProviderOf[a] # "discord" => \A i : Links(i)' = Links(i)
            /\ a # b => (b \notin DOMAIN link => b \notin DOMAIN link')
        BY <2>2 DEF Links
      <4>4. \/ LinksCrossed' \/ ProviderOf[b] # "discord"
            \/ /\ b \notin DOMAIN link => b \notin DOMAIN link'
               /\ \A i : Links(i)' = Links(i)
        BY <2>1, <4>2, <4>3 DEF LinksCrossed
      <4>5. LinkAgrees(q) /\ Others(p) /\ MarksStay /\ q # p
        BY <2>1, <2>10 DEF RegistrationInv
      <4>. QED  BY <3>1, <3>2, <4>4, <4>5, OtherLink
    <3>. QED  BY <3>1, <3>3, <3>4
  <2>11. LinksAgree' /\ RanksDiffer'
    <3>1. ProviderOf[a] = "discord" /\ ~LinksCrossed =>
            a \notin DOMAIN link /\ d.rank = Cardinality(Links(d.profile))
      BY <1>1, <1>2, <1>3, <1>4 DEF LinkAgrees
    <3>. QED  BY <1>6, <2>1, <2>3, <3>1, LinkAdded
  <2>. QED  BY <2>1, <2>5, <2>8, <2>9, <2>10, <2>11 DEF RegistrationInv
<1>. QED  BY <1>3, <1>5, <1>6

-------------------------------------------------------------------------------
(***************************************************************************)
(* The tokens of those who register                                        *)
(***************************************************************************)

LEMMA FindTokenKeeps ==
  ASSUME RegistrationInv, area = "registration", NEW p \in Requests, FindToken(p)
  PROVE  RegistrationInv'
<1>1. PICK a : a = Data(p).account
  OBVIOUS
<1>2. pc[p] = "findToken" /\ UNCHANGED <<profile, link, reached, unsure>>
  BY DEF FindToken, At
<1>3. /\ InFlight(p) /\ a \in Accounts \cup {Nobody} /\ <<"account", a>> \in req[p].about
      /\ a \in Accounts => AccountAgrees(a) /\ a \in Registering
      /\ SignInAgrees(p) /\ AccountRows
  BY <1>1, <1>2, AboutWhom DEF TokenSteps, RegistrationInv
<1>4. ASSUME NEW t \in DOMAIN token, token[t].account = a,
             token' = Put(token, t, [account |-> a, valid |-> TRUE]), Finish(p)
      PROVE  RegistrationInv'
  <2>1. /\ Sent' /\ Alone' /\ Others(p) /\ area' = area /\ MarksStay
        /\ SignInAgrees(p)' /\ LinkAgrees(p)' /\ (pc[p] \notin TokenSteps)'
    BY <1>2, <1>4, Ends
  <2>2. /\ DOMAIN token' = DOMAIN token
        /\ token' = [s \in DOMAIN token' |->
                       [account |-> token'[s].account, valid |-> token'[s].valid]]
        /\ \A s \in DOMAIN token : token'[s].account = token[s].account
    BY <1>3, <1>4 DEF AccountRows, Put
  <2>3. AccountRows'
    BY <1>2, <1>3, <2>2 DEF AccountRows
  <2>4. \A b : /\ SameAccount(b) /\ FoundByEmail(b)' = FoundByEmail(b)
               /\ TokensOf(b)' = TokensOf(b)
    BY <1>2, <2>2 DEF SameAccount, FoundById, FoundByEmail, TokensOf
  <2>5. ASSUME a \in Accounts  PROVE AccountAgrees(a)'
    <3>1. a \in Registering' => a \in Registering
      BY <1>3, <2>5
    <3>. QED  BY <1>3, <2>1, <2>4, <2>5, <3>1, AccountKept
  <2>. QED  BY <1>1, <1>2, <2>1, <2>3, <2>4, <2>5, StepAbout DEF TokenSteps
<1>5. CASE /\ {t \in DOMAIN token : token[t].account = a} = {}
           /\ Go(p, "insertToken", Data(p)) /\ UNCHANGED token
  <2>1. /\ Sent' /\ Alone' /\ Others(p) /\ area' = area /\ MarksStay /\ crossed' = crossed
        /\ pc'[p] = "insertToken" /\ req'[p].about = req[p].about /\ Data(p)' = Data(p)
    BY <1>2, <1>3, <1>5, Goes
  <2>2. TokensOf(a)' = {}
    BY <1>5 DEF TokensOf
  <2>3. SignInAgrees(p)' /\ LinkAgrees(p)'
    BY <1>1, <1>2, <1>3, <2>1, <2>2
       DEF SignInAgrees, LinkAgrees, SignInSteps, TokenSteps, LinkSteps
  <2>4. \A b \in Accounts : (pc[p] \in TokenSteps /\ Data(p).account = b)' => b \in Registering
    BY <1>1, <1>3, <2>1 DEF Data
  <2>. QED  BY <1>2, <1>5, <2>1, <2>3, <2>4, QuietRequest
<1>. QED  BY <1>1, <1>4, <1>5 DEF FindToken

LEMMA InsertTokenKeeps ==
  ASSUME RegistrationInv, area = "registration", NEW p \in Requests, InsertToken(p)
  PROVE  RegistrationInv'
<1>1. PICK a : a = Data(p).account
  OBVIOUS
<1>2. pc[p] = "insertToken" /\ Finish(p) /\ UNCHANGED <<profile, link, reached, unsure>>
  BY DEF InsertToken, At
<1>3. /\ InFlight(p) /\ a \in Accounts \cup {Nobody} /\ <<"account", a>> \in req[p].about
      /\ a \in Accounts => AccountAgrees(a) /\ a \in Registering
      /\ SignInAgrees(p) /\ AccountRows
  BY <1>1, <1>2, AboutWhom DEF TokenSteps, RegistrationInv
<1>4. PICK t \in TokenIds \ DOMAIN token :
        token' = Put(token, t, [account |-> a, valid |-> TRUE])
  BY <1>1 DEF InsertToken
<1>5. /\ Sent' /\ Alone' /\ Others(p) /\ area' = area /\ MarksStay
      /\ SignInAgrees(p)' /\ LinkAgrees(p)' /\ (pc[p] \notin TokenSteps)'
  BY <1>2, Ends
<1>6. /\ DOMAIN token' = DOMAIN token \cup {t}
      /\ token' = [s \in DOMAIN token' |-> token'[s]]
      /\ token'[t] = [account |-> a, valid |-> TRUE]
      /\ \A s \in DOMAIN token : token'[s] = token[s]
  BY <1>4 DEF Put
<1>7. AccountRows'
  <2>1. \A s \in DOMAIN token' :
          /\ token'[s] = [account |-> token'[s].account, valid |-> token'[s].valid]
          /\ token'[s].account \in Accounts \cup {Nobody}
    BY <1>3, <1>6 DEF AccountRows
  <2>. QED  BY <1>2, <1>3, <1>6, <2>1 DEF AccountRows
<1>8. /\ TokensOf(a)' = TokensOf(a) \cup {t}
      /\ \A b : b # a => TokensOf(b)' = TokensOf(b)
      /\ \A b : FoundById(b)' = FoundById(b) /\ FoundByEmail(b)' = FoundByEmail(b)
  BY <1>2, <1>6 DEF FoundById, FoundByEmail, TokensOf
<1>9. \A b \in Accounts \ {a} : SameAccount(b) /\ FoundByEmail(b)' = FoundByEmail(b)
  BY <1>2, <1>8 DEF SameAccount
<1>10. ASSUME a \in Accounts  PROVE AccountAgrees(a)'
  <2>1. Told(a)' => Told(a)
    BY <1>5 DEF Told, MarksStay
  <2>2. Told(a) => TokensOf(a) = {}
    BY <1>1, <1>2, <1>3 DEF SignInAgrees
  <2>. QED  BY <1>2, <1>3, <1>8, <1>10, <2>1, <2>2 DEF AccountAgrees, Known
<1>. QED  BY <1>1, <1>2, <1>5, <1>7, <1>9, <1>10, StepAbout DEF TokenSteps

LEMMA SubmitAccountRegistrationKeeps ==
  ASSUME RegistrationInv, NEW p \in Requests, SubmitAccountRegistration(p)
  PROVE  RegistrationInv'
<1>1. PICK t \in DOMAIN token :
        /\ token' = [s \in DOMAIN token \ {t} |-> token[s]]
        /\ Accept(p, {<<"account", token[t].account>>}, "createProfile",
                  [account |-> token[t].account])
  BY DEF SubmitAccountRegistration
<1>2. /\ area = "registration" /\ Sent /\ Alone /\ AccountRows
      /\ UNCHANGED <<profile, link, reached, unsure>>
  BY DEF SubmitAccountRegistration, Arrives, RegistrationInv
<1>3. PICK a \in Accounts \cup {Nobody} : a = token[t].account
  BY <1>2 DEF AccountRows
<1>4. /\ Sent' /\ Others(p) /\ pc'[p] = "createProfile"
      /\ req'[p] = [about |-> {<<"account", a>>}, data |-> [account |-> a]]
  <2>. DEFINE about == {<<"account", a>>}
              data == [account |-> a]
  <2>1. Accept(p, about, "createProfile", data)
    BY <1>1, <1>3
  <2>. HIDE DEF about, data
  <2>2. /\ Sent' /\ Others(p) /\ pc'[p] = "createProfile"
        /\ req'[p] = [about |-> about, data |-> data]
    BY <2>1, <1>2, AcceptStep
  <2>. QED  BY <2>2 DEF about, data
<1>5. Alone' /\ MarksStay /\ area' = area
  BY <1>1, <1>2, AcceptAlone DEF MarksStay, Accept
<1>6. /\ DOMAIN token' = DOMAIN token \ {t}
      /\ token' = [s \in DOMAIN token' |-> token'[s]]
      /\ \A s \in DOMAIN token' : token'[s] = token[s]
  BY <1>1
<1>7. AccountRows'
  <2>1. \A s \in DOMAIN token' :
          /\ token'[s] = [account |-> token'[s].account, valid |-> token'[s].valid]
          /\ token'[s].account \in Accounts \cup {Nobody}
    BY <1>2, <1>6 DEF AccountRows
  <2>. QED  BY <1>2, <1>6, <2>1 DEF AccountRows
<1>8. /\ TokensOf(a)' = TokensOf(a) \ {t} /\ t \in TokensOf(a)
      /\ \A b : TokensOf(b)' \subseteq TokensOf(b)
      /\ \A b : FoundById(b)' = FoundById(b) /\ FoundByEmail(b)' = FoundByEmail(b)
  BY <1>2, <1>3, <1>6 DEF FoundById, FoundByEmail, TokensOf
<1>9. \A b : SameAccount(b)
  BY <1>2, <1>8 DEF SameAccount
<1>10. ASSUME NEW b \in Accounts  PROVE AccountAgrees(b)'
  <2>1. (pc[p] \in TokenSteps /\ Data(p).account = b)' => b \in Registering
    BY <1>3, <1>4 DEF Data, Registering
  <2>2. b \in Registering' => b \in Registering
    BY <1>4, <1>8, <2>1, RegisteringKept
  <2>. QED  BY <1>2, <1>5, <1>8, <1>9, <2>2, AccountKept DEF RegistrationInv
<1>11. SignInAgrees(p)' /\ LinkAgrees(p)'
  <2>1. Told(a)' => TokensOf(a)' = {}
    BY <1>2, <1>5, <1>8 DEF RegistrationInv, AccountAgrees, Told, MarksStay
  <2>2. pc'[p] = "createProfile" /\ req'[p].about = {<<"account", a>>} /\ Data(p)'.account = a
    BY <1>4 DEF Data
  <2>. QED  BY <2>1, <2>2 DEF SignInAgrees, LinkAgrees, SignInSteps, TokenSteps, LinkSteps
<1>12. ASSUME NEW q \in Requests, q # p  PROVE SignInAgrees(q)' /\ LinkAgrees(q)'
  <2>1. PICK b : b = Data(q).account
    OBVIOUS
  <2>2. SignInAgrees(q)'
    BY <1>2, <1>4, <1>5, <1>9, <1>12, <2>1, OtherSignIn DEF RegistrationInv
  <2>3. LinkAgrees(q)'
    BY <1>2, <1>4, <1>5, <1>12, <2>1, OtherLink DEF RegistrationInv
  <2>. QED  BY <2>2, <2>3
<1>13. LinksAgree' /\ RanksDiffer'
  BY <1>2, <1>5 DEF RegistrationInv, LinksAgree, RanksDiffer, LinksCrossed, MarksStay, Links
<1>. QED
  BY <1>2, <1>4, <1>5, <1>7, <1>10, <1>11, <1>12, <1>13 DEF RegistrationInv

-------------------------------------------------------------------------------
(***************************************************************************)
(* Profiles, and the addresses in them                                     *)
(***************************************************************************)

LEMMA AddressOfOne == \A a : \A e, f \in EmailsOf(a) : e = f
BY DEF EmailsOf

LEMMA CreateProfileKeeps ==
  ASSUME RegistrationInv, area = "registration", NEW p \in Requests, CreateProfile(p)
  PROVE  RegistrationInv'
<1>1. PICK a : a = Data(p).account
  OBVIOUS
<1>. DEFINE twice == {e \in EmailsOf(a) : \E i \in DOMAIN profile : e \in profile[i].emails}
<1>2. /\ pc[p] = "createProfile" /\ Finish(p) /\ UNCHANGED <<link, token>>
  BY DEF CreateProfile, At
<1>3. PICK i \in ProfileIds \ DOMAIN profile :
        /\ profile' = Put(profile, i, [account |-> a, emails |-> EmailsOf(a)])
        /\ reached' = [b \in Accounts |-> IF b = a THEN reached[b] \cup {i} ELSE reached[b]]
        /\ unsure' = unsure \cup NewlyUnsure(twice)
                            \cup ((NewlyUnsure(EmailsOf(a)) \cap Registering) \ {a})
  BY <1>1 DEF CreateProfile
<1>4. /\ InFlight(p) /\ a \in Accounts \cup {Nobody} /\ <<"account", a>> \in req[p].about
      /\ a \in Accounts => AccountAgrees(a) /\ a \in Registering
      /\ SignInAgrees(p) /\ AccountRows
  BY <1>1, <1>2, AboutWhom DEF TokenSteps, RegistrationInv
<1>5. /\ Sent' /\ Alone' /\ Others(p) /\ area' = area /\ MarksStay
      /\ SignInAgrees(p)' /\ LinkAgrees(p)' /\ (pc[p] \notin TokenSteps)'
  BY <1>2, <1>3, Ends
<1>6. /\ DOMAIN profile' = DOMAIN profile \cup {i}
      /\ profile' = [j \in DOMAIN profile' |-> profile'[j]]
      /\ profile'[i] = [account |-> a, emails |-> EmailsOf(a)]
      /\ \A j \in DOMAIN profile : profile'[j] = profile[j]
  BY <1>3 DEF Put
<1>7. AccountRows'
  <2>1. \A j \in DOMAIN profile' :
          profile'[j] = [account |-> profile'[j].account, emails |-> profile'[j].emails]
    BY <1>4, <1>6 DEF AccountRows
  <2>. QED  BY <1>2, <1>3, <1>4, <1>6, <2>1 DEF AccountRows
<1>8. \A b : TokensOf(b)' = TokensOf(b)
  BY <1>2 DEF TokensOf
<1>9. \A b \in Accounts \ {a} : SameAccount(b)
  <2>1. \A b \in Accounts \ {a} : FoundById(b)' = FoundById(b)
    BY <1>2, <1>6 DEF FoundById
  <2>. QED  BY <1>3, <1>8, <2>1 DEF SameAccount
<1>10. ASSUME NEW b
       PROVE  FoundByEmail(b)' = FoundByEmail(b) \cup
                                 {j \in {i} : EmailsOf(b) \cap EmailsOf(a) # {}}
  BY <1>6 DEF FoundByEmail
(* Its own account is found nowhere, since it registers. *)
<1>11. ASSUME a \in Accounts  PROVE AccountAgrees(a)'
  <2>. SUFFICES ASSUME Told(a)'  PROVE AccountAgrees(a)'
    BY DEF AccountAgrees
  <2>1. Told(a)
    BY <1>5 DEF Told, MarksStay
  <2>2. /\ FoundById(a) = {} /\ reached[a] = {} /\ FoundByEmail(a) = {}
    BY <1>4, <1>11, <2>1 DEF AccountAgrees, Known
  <2>3. TokensOf(a)' = {}
    BY <1>1, <1>2, <1>4, <1>8, <2>1 DEF SignInAgrees
  <2>4. reached'[a] = {i}
    BY <1>3, <1>11, <2>2
  <2>5. FoundById(a)' \subseteq {i} /\ (ProviderOf[a] = "google" => i \in FoundById(a)')
    BY <1>2, <1>6, <2>2 DEF FoundById
  <2>6. FoundByEmail(a)' \subseteq {i} /\ (EmailsOf(a) # {} => i \in FoundByEmail(a)')
    BY <1>10, <2>2
  <2>7. a \notin Registering'
    <3>1. ASSUME NEW q \in Requests, (pc[q] \in TokenSteps /\ Data(q).account = a)'
          PROVE  FALSE
      <4>1. q # p /\ pc[q] \in TokenSteps /\ Data(q).account = a
        BY <1>5, <3>1 DEF Others, Data
      <4>2. InFlight(q) /\ <<"account", a>> \in req[q].about
        BY <4>1, AboutWhom
      <4>3. <<"account", a>> \in crossed
        BY <1>4, <4>1, <4>2 DEF RegistrationInv, Alone
      <4>. QED  BY <2>1, <4>3 DEF Told
    <3>. QED  BY <2>3, <3>1 DEF Registering, TokensOf, TokenSteps
  <2>8. EmailsOf(a) # {} \/ ProviderOf[a] = "google"
    BY <2>1 DEF Told
  <2>. QED  BY <2>3, <2>4, <2>5, <2>6, <2>7, <2>8 DEF AccountAgrees, Known
(* Another one that has this address and is not known by other means was found
   before, or asks for a token itself: it is unsure from now on. *)
<1>12. ASSUME NEW b \in Accounts \ {a}  PROVE AccountAgrees(b)'
  <2>. SUFFICES ASSUME Told(b)'  PROVE AccountAgrees(b)'
    BY DEF AccountAgrees
  <2>1. Told(b) /\ AccountAgrees(b) /\ SameAccount(b)
    BY <1>5, <1>9 DEF Told, MarksStay, RegistrationInv
  <2>2. b \in Registering' => b \in Registering
    BY <1>5, <1>8, RegisteringKept
  <2>3. CASE Known(b) \/ EmailsOf(b) \cap EmailsOf(a) = {}
    <3>1. ~Known(b) => FoundByEmail(b)' = FoundByEmail(b)
      BY <1>10, <2>3
    <3>. QED  BY <1>5, <2>1, <2>2, <3>1, AccountKept
  <2>4. CASE ~Known(b) /\ EmailsOf(b) \cap EmailsOf(a) # {}
    <3>1. b \notin NewlyUnsure(twice) /\ b \notin NewlyUnsure(EmailsOf(a)) \cap Registering
      BY <1>3 DEF Told
    <3>2. EmailsOf(b) \cap twice = {} /\ b \notin Registering
      BY <2>4, <3>1 DEF NewlyUnsure
    <3>3. EmailsOf(b) = EmailsOf(a)
      BY <2>4, AddressOfOne
    <3>4. FoundByEmail(b) = {}
      BY <3>2, <3>3 DEF FoundByEmail
    <3>5. FoundByEmail(b)' = {i}
      BY <1>10, <2>4, <3>4
    <3>6. Known(b)' = Known(b) /\ b \notin Registering'
      BY <2>1, <2>2, <3>2 DEF Known, SameAccount
    <3>. QED  BY <2>1, <2>4, <3>4, <3>5, <3>6 DEF AccountAgrees, SameAccount, Known
  <2>. QED  BY <2>3, <2>4
<1>13. ASSUME NEW q \in Requests, q # p  PROVE SignInAgrees(q)' /\ LinkAgrees(q)'
  <2>1. PICK b : b = Data(q).account
    OBVIOUS
  <2>2. SignInAgrees(q)'
    BY <1>4, <1>5, <1>9, <1>13, OthersAbout DEF RegistrationInv
  <2>3. LinkAgrees(q)'
    BY <1>2, <1>5, <1>13, <2>1, OtherLink DEF RegistrationInv
  <2>. QED  BY <2>2, <2>3
<1>14. LinksAgree' /\ RanksDiffer'
  BY <1>2, <1>5 DEF RegistrationInv, LinksAgree, RanksDiffer, LinksCrossed, MarksStay, Links
<1>. QED  BY <1>5, <1>7, <1>11, <1>12, <1>13, <1>14 DEF RegistrationInv

LEMMA UpdateContactInfoKeeps ==
  ASSUME RegistrationInv, NEW p \in Requests, UpdateContactInfo(p)
  PROVE  RegistrationInv'
<1>1. /\ area = "registration" /\ Sent /\ Alone /\ AccountRows
      /\ UNCHANGED <<link, token, reached>> /\ pc[p] = "new"
  BY DEF UpdateContactInfo, Arrives, At, RegistrationInv
<1>2. PICK i \in DOMAIN profile, emails \in SUBSET Emails :
        /\ profile' = Put(profile, i, [account |-> profile[i].account, emails |-> emails])
        /\ unsure' = unsure \cup NewlyUnsure((emails \ profile[i].emails)
                                             \cup (profile[i].emails \ emails))
        /\ Serve(p, {<<"profile", i>>})
  BY DEF UpdateContactInfo
<1>3. /\ Sent' /\ pc'[p] = "done" /\ Others(p) /\ area' = area /\ req' = req
      /\ crossed \subseteq crossed'
  BY <1>1, <1>2, ServeStep DEF Serve
<1>4. Alone' /\ MarksStay
  BY <1>1, <1>2, <1>3 DEF Alone, InFlight, Others, MarksStay
<1>5. /\ DOMAIN profile' = DOMAIN profile
      /\ profile' = [j \in DOMAIN profile' |-> profile'[j]]
      /\ profile'[i] = [account |-> profile[i].account, emails |-> emails]
      /\ \A j \in DOMAIN profile \ {i} : profile'[j] = profile[j]
  BY <1>2 DEF Put
<1>6. AccountRows'
  <2>1. \A j \in DOMAIN profile' :
          profile'[j] = [account |-> profile'[j].account, emails |-> profile'[j].emails]
    BY <1>1, <1>5 DEF AccountRows
  <2>. QED  BY <1>1, <1>5, <2>1 DEF AccountRows
<1>7. \A b : SameAccount(b) /\ TokensOf(b)' = TokensOf(b)
  <2>1. \A b : TokensOf(b)' = TokensOf(b)
    BY <1>1 DEF TokensOf
  <2>2. \A b : FoundById(b)' = FoundById(b)
    <3>1. \A j \in DOMAIN profile : profile'[j].account = profile[j].account
      BY <1>5
    <3>. QED  BY <1>1, <1>5, <3>1 DEF FoundById
  <2>. QED  BY <1>1, <2>1, <2>2 DEF SameAccount
<1>8. ASSUME NEW b \in Accounts  PROVE AccountAgrees(b)'
  <2>1. (pc[p] \in TokenSteps /\ Data(p).account = b)' => b \in Registering
    BY <1>3 DEF TokenSteps
  <2>2. b \in Registering' => b \in Registering
    BY <1>3, <1>7, <2>1, RegisteringKept
  <2>3. ASSUME Told(b)', ~Known(b)  PROVE FoundByEmail(b)' = FoundByEmail(b)
    <3>1. EmailsOf(b) \cap ((emails \ profile[i].emails) \cup (profile[i].emails \ emails)) = {}
      BY <1>2, <2>3 DEF Told, NewlyUnsure
    <3>. QED  BY <1>5, <3>1 DEF FoundByEmail
  <2>. QED  BY <1>1, <1>4, <1>7, <2>2, <2>3, AccountKept DEF RegistrationInv
<1>9. ASSUME NEW q \in Requests  PROVE SignInAgrees(q)' /\ LinkAgrees(q)'
  <2>1. CASE q = p
    BY <1>3, <2>1 DEF SignInAgrees, LinkAgrees, SignInSteps, TokenSteps, LinkSteps
  <2>2. CASE q # p
    <3>1. PICK b : b = Data(q).account
      OBVIOUS
    <3>2. SignInAgrees(q)'
      BY <1>1, <1>3, <1>4, <1>7, <2>2, <3>1, OtherSignIn DEF RegistrationInv
    <3>3. LinkAgrees(q)'
      BY <1>1, <1>3, <1>4, <2>2, <3>1, OtherLink DEF RegistrationInv
    <3>. QED  BY <3>2, <3>3
  <2>. QED  BY <2>1, <2>2
<1>10. LinksAgree' /\ RanksDiffer'
  BY <1>1, <1>4 DEF RegistrationInv, LinksAgree, RanksDiffer, LinksCrossed, MarksStay, Links
<1>. QED  BY <1>1, <1>3, <1>4, <1>6, <1>8, <1>9, <1>10 DEF RegistrationInv

LEMMA ExpireTokenKeeps ==
  ASSUME RegistrationInv, ExpireToken
  PROVE  RegistrationInv'
<1>1. /\ area = "registration" /\ Sent /\ Alone /\ AccountRows
      /\ UNCHANGED <<serverVars, profile, link, reached, unsure>>
  BY DEF ExpireToken, RegistrationInv
<1>2. PICK t \in DOMAIN token :
        token' = Put(token, t, [account |-> token[t].account, valid |-> FALSE])
  BY DEF ExpireToken
<1>3. /\ DOMAIN token' = DOMAIN token
      /\ token' = [s \in DOMAIN token' |->
                     [account |-> token'[s].account, valid |-> token'[s].valid]]
      /\ \A s \in DOMAIN token : token'[s].account = token[s].account
  BY <1>1, <1>2 DEF AccountRows, Put
<1>4. UNCHANGED <<area, pc, req, crossed, broken>> /\ Sent' /\ Alone' /\ AccountRows'
  BY <1>1, <1>3 DEF serverVars, Sent, Alone, InFlight, AccountRows
<1>5. \A b : /\ FoundById(b)' = FoundById(b) /\ FoundByEmail(b)' = FoundByEmail(b)
             /\ TokensOf(b)' = TokensOf(b)
  BY <1>1, <1>3 DEF FoundById, FoundByEmail, TokensOf
<1>6. \A b : SameAccount(b) /\ (Told(b)' => Told(b))
  BY <1>1, <1>4, <1>5 DEF SameAccount, Told
<1>7. MarksStay
  BY <1>1, <1>4 DEF MarksStay
<1>8. ASSUME NEW b \in Accounts  PROVE AccountAgrees(b)'
  <2>1. b \in Registering' => b \in Registering
    BY <1>3, <1>4 DEF Registering, Data
  <2>. QED  BY <1>1, <1>5, <1>6, <1>7, <2>1, AccountKept DEF RegistrationInv
<1>9. ASSUME NEW q \in Requests  PROVE SignInAgrees(q)' /\ LinkAgrees(q)'
  <2>1. SignInAgrees(q) /\ LinkAgrees(q)
    BY <1>1 DEF RegistrationInv
  <2>2. PICK d : d = Data(q)
    OBVIOUS
  <2>3. Data(q)' = d /\ pc'[q] = pc[q] /\ req'[q].about = req[q].about
    BY <1>4, <2>2 DEF Data
  <2>4. SignInAgrees(q)'
    BY <1>1, <1>5, <1>6, <2>1, <2>2, <2>3 DEF SignInAgrees, Known
  <2>5. LinkAgrees(q)'
    BY <1>1, <1>4, <2>1, <2>2, <2>3 DEF LinkAgrees, Links, LinksCrossed
  <2>. QED  BY <2>4, <2>5
<1>10. LinksAgree' /\ RanksDiffer'
  BY <1>1, <1>4 DEF RegistrationInv, LinksAgree, RanksDiffer, LinksCrossed, Links
<1>. QED  BY <1>1, <1>4, <1>8, <1>9, <1>10 DEF RegistrationInv

-------------------------------------------------------------------------------
(***************************************************************************)
(* The theorems                                                            *)
(***************************************************************************)

LEMMA RegistrationInvKept == RegistrationInv /\ [Next]_vars => RegistrationInv'
<1>. SUFFICES ASSUME RegistrationInv, [Next]_vars  PROVE RegistrationInv'
  OBVIOUS
<1>1. ASSUME area = "registration", NEW p \in Requests, RegistrationNext(p)
      PROVE  RegistrationInv'
  BY <1>1, SignInWithProviderKeeps, FindByIdKeeps, FindByEmailKeeps, FindLinkKeeps,
     CountLinksKeeps, LoadLinkKeeps, WriteLinkKeeps, FindTokenKeeps, InsertTokenKeeps,
     CreateAccountRegistrationTokenKeeps, SubmitAccountRegistrationKeeps,
     CreateProfileKeeps, UpdateContactInfoKeeps DEF RegistrationNext
<1>2. ASSUME UNCHANGED registrationVars, NEW p \in Requests, Die(p)  PROVE RegistrationInv'
  <2>1. CASE area = "registration"
    BY <1>2, <2>1, DieKeepsAccounts
  <2>2. CASE area # "registration"
    BY <1>2, <2>2 DEF Die, RegistrationInv, registrationVars
  <2>. QED  BY <2>1, <2>2
<1>3. CASE area # "registration" /\ UNCHANGED <<area, registrationVars>>
  BY <1>3 DEF RegistrationInv, registrationVars
<1>4. CASE UNCHANGED <<serverVars, registrationVars>>
  <2>1. UNCHANGED <<area, pc, req, crossed, broken, profile, link, token, reached, unsure>>
    BY <1>4 DEF serverVars, registrationVars
  <2>2. /\ Sent' = Sent /\ Alone' = Alone /\ AccountRows' = AccountRows
        /\ LinksAgree' = LinksAgree /\ RanksDiffer' = RanksDiffer
    BY <2>1 DEF Sent, Alone, InFlight, AccountRows, LinksAgree, LinksCrossed, Links,
       RanksDiffer
  <2>3. \A a : AccountAgrees(a)' = AccountAgrees(a)
    BY <2>1 DEF AccountAgrees, Told, FoundById, FoundByEmail, Known, Registering, Data,
       TokensOf
  <2>4. \A p : SignInAgrees(p)' = SignInAgrees(p) /\ LinkAgrees(p)' = LinkAgrees(p)
    BY <2>1 DEF SignInAgrees, LinkAgrees, Data, Told, Known, FoundById, TokensOf,
       LinksCrossed, Links
  <2>. QED  BY <2>1, <2>2, <2>3, <2>4 DEF RegistrationInv
<1>. QED  BY <1>1, <1>2, <1>3, <1>4, ExpireTokenKeeps, RegistrationSteps

LEMMA RegistrationInvAtFirst == Init => RegistrationInv
<1>. SUFFICES ASSUME Init  PROVE RegistrationInv
  OBVIOUS
<1>1. /\ Sent /\ \A p \in Requests : pc[p] = "new"
      /\ unsure = {}
  BY SentAtFirst DEF Init, InitRequests, InitRegistration
<1>2. /\ Alone /\ \A p \in Requests : SignInAgrees(p) /\ LinkAgrees(p)
  BY <1>1 DEF Alone, InFlight, SignInAgrees, LinkAgrees, SignInSteps, TokenSteps, LinkSteps
<1>3. CASE /\ profile = <<>> /\ link = <<>> /\ reached = [a \in Accounts |-> {}]
           /\ \/ token = <<>>
              \/ /\ area = "registration"
                 /\ \E a \in Accounts : token = <<[account |-> a, valid |-> TRUE]>>
  <2>1. PICK t, b : \/ token = <<>>
                    \/ b \in Accounts /\ token = <<[account |-> b, valid |-> TRUE]>>
    BY <1>3
  <2>2. /\ DOMAIN profile = {} /\ DOMAIN link = {} /\ DOMAIN token \subseteq {1}
        /\ \A s \in DOMAIN token : token[s] = [account |-> b, valid |-> TRUE] /\ b \in Accounts
    BY <1>3, <2>1
  <2>3. AccountRows
    <3>1. token = [s \in DOMAIN token |->
                     [account |-> token[s].account, valid |-> token[s].valid]]
      <4>1. CASE token = <<>>
        BY <4>1
      <4>2. CASE token = <<[account |-> b, valid |-> TRUE]>>
        BY <4>2
      <4>. QED  BY <2>1, <4>1, <4>2
    <3>2. /\ profile = [i \in DOMAIN profile |->
                         [account |-> profile[i].account, emails |-> profile[i].emails]]
          /\ link = [a \in DOMAIN link |-> [profile |-> link[a].profile, rank |-> link[a].rank]]
      BY <1>3
    <3>3. reached = [a \in Accounts |-> reached[a]]
      BY <1>3
    <3>. QED  BY <2>2, <3>1, <3>2, <3>3, FS_EmptySet DEF AccountRows
  <2>4. \A a \in Accounts : AccountAgrees(a)
    BY <1>3, <2>2 DEF AccountAgrees, FoundById, FoundByEmail, Known, TokensOf
  <2>5. LinksAgree /\ RanksDiffer
    BY <2>2 DEF LinksAgree, RanksDiffer
  <2>. QED  BY <1>1, <1>2, <1>3, <2>3, <2>4, <2>5 DEF RegistrationInv
<1>4. ASSUME area = "registration", token = <<>>, NEW a \in Accounts \cup {Nobody},
             NEW emails, a # Nobody => emails = EmailsOf(a),
             profile = <<[account |-> a, emails |-> emails]>>,
             NEW linked, \/ linked = {}
                         \/ \E b \in Accounts :
                              /\ linked = {b} /\ ProviderOf[b] = "discord"
                              /\ EmailsOf(b) \cap emails # {},
             link = [b \in linked |-> [profile |-> 1, rank |-> 0]],
             reached = [b \in Accounts |-> IF b \in {a} \cup linked THEN {1} ELSE {}]
      PROVE  RegistrationInv
  <2>1. /\ DOMAIN profile = {1} /\ profile[1] = [account |-> a, emails |-> emails]
        /\ profile = [i \in {1} |-> [account |-> a, emails |-> emails]]
        /\ DOMAIN link = linked /\ DOMAIN token = {}
        /\ \A b \in linked : link[b] = [profile |-> 1, rank |-> 0]
    BY <1>4
  <2>2. IsFiniteSet(linked) /\ linked \subseteq Accounts /\ \A b, c \in linked : b = c
    <3>1. CASE linked = {}
      BY <3>1, FS_EmptySet
    <3>2. ASSUME NEW b \in Accounts, linked = {b}
          PROVE  IsFiniteSet(linked) /\ linked \subseteq Accounts /\ \A c, d \in linked : c = d
      BY <3>2, FS_Singleton
    <3>. QED  BY <1>4, <3>1, <3>2
  <2>3. AccountRows
    BY <1>4, <2>1, <2>2 DEF AccountRows
  <2>4. ASSUME NEW b \in Accounts  PROVE AccountAgrees(b)
    <3>1. b \notin Registering /\ TokensOf(b) = {}
      BY <1>1, <2>1 DEF Registering, TokensOf
    <3>2. /\ FoundById(b) \subseteq {1} /\ FoundByEmail(b) \subseteq {1}
          /\ 1 \in FoundById(b) => reached[b] = {1}
      BY <1>4, <2>1 DEF FoundById, FoundByEmail
    <3>3. Told(b) /\ reached[b] # {} /\ ~Known(b) => reached[b] = {1} /\ FoundByEmail(b) = {1}
      <4>. SUFFICES ASSUME Told(b), reached[b] # {}, ~Known(b)
                    PROVE  reached[b] = {1} /\ FoundByEmail(b) = {1}
        OBVIOUS
      <4>1. reached[b] = {1} /\ b \in {a} \cup linked
        BY <1>4
      <4>2. CASE b \in linked
        BY <1>4, <2>1, <4>1, <4>2 DEF FoundByEmail
      <4>3. CASE b = a
        <5>1. a # Nobody /\ emails = EmailsOf(a)
          BY <1>4, <4>3, RegistrationAssumption
        <5>2. ProviderOf[b] # "google"
          BY <2>1, <4>3 DEF Known, FoundById
        <5>. QED  BY <2>1, <4>1, <4>3, <5>1, <5>2 DEF Told, FoundByEmail
      <4>. QED  BY <4>1, <4>2, <4>3
    <3>. QED  BY <3>1, <3>2, <3>3 DEF AccountAgrees, Known
  <2>5. ASSUME NEW b \in linked, ProviderOf[b] = "discord"
        PROVE  link[b].rank < Cardinality(Links(link[b].profile))
    <3>1. Links(1) = {b} /\ link[b].profile = 1 /\ link[b].rank = 0
      BY <2>1, <2>2, <2>5 DEF Links
    <3>2. Cardinality({b}) = 1
      BY FS_Singleton
    <3>. QED  BY <3>1, <3>2
  <2>6. LinksAgree /\ RanksDiffer
    BY <2>1, <2>2, <2>5 DEF LinksAgree, RanksDiffer
  <2>. QED  BY <1>1, <1>2, <1>4, <2>3, <2>4, <2>6 DEF RegistrationInv
<1>5. CASE \E a \in Accounts \cup {Nobody} : \E emails \in
               IF a = Nobody THEN SUBSET Emails ELSE {EmailsOf(a)} :
             /\ area = "registration" /\ token = <<>>
             /\ profile = <<[account |-> a, emails |-> emails]>>
             /\ \E linked \in {{}} \cup
                   {{b} : b \in {b \in Accounts : ProviderOf[b] = "discord"
                                                /\ EmailsOf(b) \cap emails # {}}} :
                  /\ link = [b \in linked |-> [profile |-> 1, rank |-> 0]]
                  /\ reached = [b \in Accounts |-> IF b \in {a} \cup linked THEN {1} ELSE {}]
  <2>1. PICK a \in Accounts \cup {Nobody} : \E emails \in
               IF a = Nobody THEN SUBSET Emails ELSE {EmailsOf(a)} :
             /\ area = "registration" /\ token = <<>>
             /\ profile = <<[account |-> a, emails |-> emails]>>
             /\ \E linked \in {{}} \cup
                   {{b} : b \in {b \in Accounts : ProviderOf[b] = "discord"
                                                /\ EmailsOf(b) \cap emails # {}}} :
                  /\ link = [b \in linked |-> [profile |-> 1, rank |-> 0]]
                  /\ reached = [b \in Accounts |-> IF b \in {a} \cup linked THEN {1} ELSE {}]
    BY <1>5
  <2>2. PICK emails :
             /\ a # Nobody => emails = EmailsOf(a)
             /\ area = "registration" /\ token = <<>>
             /\ profile = <<[account |-> a, emails |-> emails]>>
             /\ \E linked \in {{}} \cup
                   {{b} : b \in {b \in Accounts : ProviderOf[b] = "discord"
                                                /\ EmailsOf(b) \cap emails # {}}} :
                  /\ link = [b \in linked |-> [profile |-> 1, rank |-> 0]]
                  /\ reached = [b \in Accounts |-> IF b \in {a} \cup linked THEN {1} ELSE {}]
    BY <2>1
  <2>3. PICK linked :
          /\ \/ linked = {}
             \/ \E b \in Accounts :
                  /\ linked = {b} /\ ProviderOf[b] = "discord"
                  /\ EmailsOf(b) \cap emails # {}
          /\ link = [b \in linked |-> [profile |-> 1, rank |-> 0]]
          /\ reached = [b \in Accounts |-> IF b \in {a} \cup linked THEN {1} ELSE {}]
    BY <2>2
  <2>. QED  BY <1>4, <2>2, <2>3
<1>. QED  BY <1>3, <1>5 DEF Init, InitRegistration

(* An account signs in to one profile only, as long as no two requests are about it at
   once: findProfileId finds it by its id, its link or its address, and no step of
   another registration changes which without making it unsure. *)
THEOREM AccountsAlwaysKeepTheirProfile ==
  Spec => []AccountsKeepTheirProfile
<1>1. RegistrationInv => AccountsKeepTheirProfile
  <2>. SUFFICES ASSUME RegistrationInv, NEW a \in Accounts \ unsure,
                       <<"account", a>> \notin crossed,
                       EmailsOf(a) # {} \/ ProviderOf[a] = "google"
                PROVE  Cardinality(reached[a]) <= 1
    BY DEF AccountsKeepTheirProfile
  <2>1. \E i : reached[a] \subseteq {i}
    <3>1. CASE area # "registration"
      BY <3>1 DEF RegistrationInv
    <3>2. CASE area = "registration"
      <4>1. Told(a) /\ AccountAgrees(a)
        BY <3>2 DEF RegistrationInv, Told
      <4>2. CASE Known(a)
        BY <4>1, <4>2 DEF AccountAgrees, Known
      <4>3. CASE ~Known(a)
        BY <4>1, <4>3 DEF AccountAgrees
      <4>. QED  BY <4>2, <4>3
    <3>. QED  BY <3>1, <3>2
  <2>. QED  BY <2>1, OfOne
<1>. QED  BY <1>1, RegistrationInvAtFirst, RegistrationInvKept, PTL DEF Spec

(* The Discord accounts of a profile have different ranks, unless two sign in at once:
   the links that upsertDiscordProfile counts are numbered below their number. *)
THEOREM RanksAlwaysDiffer ==
  Spec => []RanksDiffer
<1>1. RegistrationInv => RanksDiffer
  BY DEF RegistrationInv, RanksDiffer
<1>. QED  BY <1>1, RegistrationInvAtFirst, RegistrationInvKept, PTL DEF Spec

(***************************************************************************)
(* Directory: searches and binds                                           *)
(***************************************************************************)

LEMMA DirectorySteps ==
  ASSUME [Next]_vars
  PROVE  \/ area = "directory" /\ \E p \in Requests : DirectoryNext(p)
         \/ UNCHANGED directoryVars /\ \E p \in Requests : Die(p)
         \/ area # "directory" /\ UNCHANGED <<area, directoryVars>>
         \/ UNCHANGED <<serverVars, directoryVars>>
BY DEF Next, vars, Handle, Crash, Environment, PassTime, ExpireToken, ExpireCache,
  ProcessPhoto, OutsideOfScheduler, OutsideOfRecruitment, OutsideOfRegistration,
  OutsideOfMembers, OutsideOfDiscordSync, OutsideOfAlbums, OutsideOfProfilePhotos,
  OutsideOfPhotoStream, OutsideOfForms, OutsideOfActivities, OutsideOfDirectory,
  OutsideOfAnnouncements, PassTick

DirectoryAreRows ==
  /\ DOMAIN account \subseteq Uids
  /\ \A u \in DOMAIN account : account[u] \in UserLocalUser
  /\ fullname = [o \in Owners |-> fullname[o]]
  /\ memberOf \subseteq Owners \X GroupNames

GroupEntry(g) == <<"entry", <<"cn", g>>>>
MembersOf(g) == {u \in DOMAIN account : <<account[u].profile, g>> \in memberOf}

(* A search has found the user, if there is such a user. *)
Wanted(s, u) ==
  LET names == NamedInBase(s, "uid") \cup Compared(s.filter, "uid") IN
  names = {} \/ u \in names

ReadFields == {"groups", "users", "members", "usernames", "mails", "names"}

(* What a search has read is as it was, of the entries that nothing crossed. *)
GroupsRead(d) ==
  /\ "groups" \notin d.todo => d.read.groups = GroupsToFind(d.search)
  /\ {"groups", "members"} \cap d.todo = {} =>
       \A g \in GroupNames : GroupEntry(g) \notin crossed =>
         \A o \in Owners :
           <<o, g>> \in d.read.members <=> g \in d.read.groups /\ <<o, g>> \in memberOf
  /\ {"groups", "members", "usernames"} \cap d.todo = {} =>
       \A g \in d.read.groups : GroupEntry(g) \notin crossed => UidsIn(d.read, g) = MembersOf(g)
UsersRead(d) ==
  /\ "users" \notin d.todo =>
       \A u \in Uids : EntryOf(u) \notin crossed =>
         (u \in d.read.users <=> u \in DOMAIN account /\ Wanted(d.search, u))
  /\ {"users", "profiles"} \cap d.todo = {} =>
       \A u \in DOMAIN account : EntryOf(u) \notin crossed =>
         (account[u].profile \in d.read.mails <=> account[u].profile \in mail)
  /\ {"users", "names"} \cap d.todo = {} =>
       \A u \in DOMAIN account : EntryOf(u) \notin crossed =>
         d.read.names[account[u].profile] = fullname[account[u].profile]

Rightly(d, dn) == HasEntry(dn) /\ Sends(d.search, dn, Attributes(dn))
Exact(d, dn) ==
  /\ dn \in d.sent => Rightly(d, dn)
  /\ /\ Rightly(d, dn)
     /\ Matches(d.search.filter, Attributes(dn))
     /\ ~Narrowed(d.search.filter, dn[1])
     => dn \in d.sent

RightPassword(d) ==
  /\ d.username \in DOMAIN account
  /\ ~account[d.username].disabled
  /\ account[d.username].password = d.password

DirectoryAgrees(p) ==
  /\ pc[p] \in {"search", "answered"} => req[p].about = {"entry"} \X Names
  /\ At(p, "search") =>
       /\ Data(p).search \in Searches
       /\ DOMAIN Data(p).read = ReadFields
       /\ GroupsRead(Data(p)) /\ UsersRead(Data(p))
  /\ At(p, "answered") =>
       \A dn \in Names : <<"entry", dn>> \notin crossed => Exact(Data(p), dn)
  /\ pc[p] \in {"signIn", "verify", "bound", "verifyCurrent", "updatePassword"} =>
       /\ Data(p).username \in Uids
       /\ req[p].about = {PasswordOf(Data(p).username)}
  /\ pc[p] \in {"verify", "bound"} /\ PasswordOf(Data(p).username) \notin crossed =>
       (Data(p).granted <=> RightPassword(Data(p)))
  /\ pc[p] \in {"verifyCurrent", "updatePassword"} =>
       Data(p).username \in DOMAIN account /\ Data(p).new \in Passwords

DirectoryInv ==
  area = "directory" =>
    /\ Sent /\ Alone
    /\ DirectoryAreRows
    /\ \A p \in Requests : DirectoryAgrees(p)

(***************************************************************************)
(* What a step leaves alone of the entries and passwords that were not     *)
(* crossed                                                                 *)
(***************************************************************************)

UserStays(u) ==
  /\ u \in DOMAIN account' <=> u \in DOMAIN account
  /\ u \in DOMAIN account =>
       /\ account'[u].profile = account[u].profile
       /\ account[u].profile \in mail' <=> account[u].profile \in mail
       /\ fullname'[account[u].profile] = fullname[account[u].profile]

GroupStays(g) ==
  /\ \A o \in Owners : <<o, g>> \in memberOf' <=> <<o, g>> \in memberOf
  /\ MembersOf(g)' = MembersOf(g)

PasswordStays(u) ==
  /\ u \in DOMAIN account' <=> u \in DOMAIN account
  /\ u \in DOMAIN account =>
       /\ account'[u].disabled = account[u].disabled
       /\ account'[u].password = account[u].password

StaysFor(about) ==
  /\ DOMAIN account \subseteq DOMAIN account'
  /\ \A u \in Uids : EntryOf(u) \in about \ crossed' => UserStays(u)
  /\ \A g \in GroupNames : GroupEntry(g) \in about \ crossed' => GroupStays(g)
  /\ \A u \in Uids : PasswordOf(u) \in about \ crossed' => PasswordStays(u)

LEMMA UntouchedStays ==
  ASSUME UNCHANGED <<account, mail, fullname, memberOf>>, NEW about
  PROVE  StaysFor(about)
BY DEF StaysFor, UserStays, GroupStays, MembersOf, PasswordStays

LEMMA HasEntryStays ==
  ASSUME NEW dn \in Names,
         \A u \in Uids : dn = <<"uid", u>> => UserStays(u),
         \A g \in GroupNames : dn = <<"cn", g>> => GroupStays(g)
  PROVE  /\ HasEntry(dn)' <=> HasEntry(dn)
         /\ HasEntry(dn) => Attributes(dn)' = Attributes(dn)
<1>1. CASE dn \in {"uid"} \X Uids
  <2>1. PICK u \in Uids : dn = <<"uid", u>>
    BY <1>1
  <2>2. UserStays(u) /\ dn[1] = "uid" /\ dn[2] = u
    BY <2>1
  <2>. QED  BY <2>2 DEF HasEntry, Attributes, UserStays
<1>2. CASE dn \in {"cn"} \X GroupNames
  <2>1. PICK g \in GroupNames : dn = <<"cn", g>>
    BY <1>2
  <2>2. GroupStays(g) /\ dn[1] = "cn" /\ dn[2] = g
    BY <2>1
  <2>3. Attributes(dn) = GroupAttributes(g, MembersOf(g))
    BY <2>2 DEF Attributes, MembersOf
  <2>4. Attributes(dn)' = GroupAttributes(g, MembersOf(g)')
    BY <2>2 DEF Attributes, MembersOf
  <2>. QED  BY <2>2, <2>3, <2>4 DEF HasEntry, GroupStays
<1>. QED  BY <1>1, <1>2 DEF Names

LEMMA ExactStill ==
  ASSUME NEW d, NEW dn \in Names, Exact(d, dn),
         \A u \in Uids : dn = <<"uid", u>> => UserStays(u),
         \A g \in GroupNames : dn = <<"cn", g>> => GroupStays(g)
  PROVE  Exact(d, dn)'
<1>1. /\ HasEntry(dn)' <=> HasEntry(dn)
      /\ HasEntry(dn) => Attributes(dn)' = Attributes(dn)
  BY HasEntryStays
<1>2. Rightly(d, dn)' <=> Rightly(d, dn)
  BY <1>1 DEF Rightly
<1>3. Rightly(d, dn) => Attributes(dn)' = Attributes(dn)
  BY <1>1 DEF Rightly
<1>. QED  BY <1>2, <1>3 DEF Exact

LEMMA GroupsReadStill ==
  ASSUME NEW d, GroupsRead(d), crossed \subseteq crossed', d.search \in Searches,
         \A g \in GroupNames : GroupEntry(g) \notin crossed' => GroupStays(g)
  PROVE  GroupsRead(d)'
<1>1. ASSUME {"groups", "members"} \cap d.todo = {}, NEW g \in GroupNames,
             GroupEntry(g) \notin crossed', NEW o \in Owners
      PROVE  <<o, g>> \in d.read.members <=> g \in d.read.groups /\ <<o, g>> \in memberOf'
  <2>1. GroupStays(g) /\ GroupEntry(g) \notin crossed
    BY <1>1
  <2>. QED  BY <2>1, <1>1 DEF GroupsRead, GroupStays
<1>2. ASSUME {"groups", "members", "usernames"} \cap d.todo = {}, NEW g \in d.read.groups,
             GroupEntry(g) \notin crossed'
      PROVE  UidsIn(d.read, g) = MembersOf(g)'
  <2>1. g \in GroupNames
    BY <1>2 DEF GroupsRead, GroupsToFind
  <2>2. GroupStays(g) /\ GroupEntry(g) \notin crossed
    BY <1>2, <2>1
  <2>. QED  BY <2>2, <1>2 DEF GroupsRead, GroupStays
<1>. QED  BY <1>1, <1>2 DEF GroupsRead

LEMMA UsersReadStill ==
  ASSUME NEW d, UsersRead(d), crossed \subseteq crossed', DirectoryAreRows, DirectoryAreRows',
         \A u \in Uids : EntryOf(u) \notin crossed' => UserStays(u)
  PROVE  UsersRead(d)'
<1>1. \A u \in Uids : EntryOf(u) \notin crossed' => EntryOf(u) \notin crossed /\ UserStays(u)
  OBVIOUS
<1>2. ASSUME "users" \notin d.todo, NEW u \in Uids, EntryOf(u) \notin crossed'
      PROVE  u \in d.read.users <=> u \in DOMAIN account' /\ Wanted(d.search, u)
  BY <1>1, <1>2 DEF UsersRead, UserStays
<1>3. ASSUME NEW u \in DOMAIN account', EntryOf(u) \notin crossed'
      PROVE  u \in DOMAIN account /\ EntryOf(u) \notin crossed /\ UserStays(u)
  BY <1>1, <1>3 DEF UserStays, DirectoryAreRows
<1>4. ASSUME {"users", "profiles"} \cap d.todo = {}, NEW u \in DOMAIN account',
             EntryOf(u) \notin crossed'
      PROVE  account'[u].profile \in d.read.mails <=> account'[u].profile \in mail'
  BY <1>3, <1>4 DEF UsersRead, UserStays
<1>5. ASSUME {"users", "names"} \cap d.todo = {}, NEW u \in DOMAIN account',
             EntryOf(u) \notin crossed'
      PROVE  d.read.names[account'[u].profile] = fullname'[account'[u].profile]
  BY <1>3, <1>5 DEF UsersRead, UserStays
<1>. QED  BY <1>2, <1>4, <1>5 DEF UsersRead

LEMMA OtherDirectoryAgrees ==
  ASSUME DirectoryAreRows, DirectoryAreRows', NEW q \in Requests, DirectoryAgrees(q),
         pc'[q] = pc[q], req'[q] = req[q], crossed \subseteq crossed',
         InFlight(q) => StaysFor(req[q].about)
  PROVE  DirectoryAgrees(q)'
<1>. PICK d : d = Data(q)
  OBVIOUS
<1>1. Data(q)' = d /\ pc'[q] = pc[q] /\ req'[q].about = req[q].about
  BY DEF Data
<1>2. ASSUME pc[q] \in {"search", "answered"}
      PROVE  /\ req[q].about = {"entry"} \X Names
             /\ \A u \in Uids : EntryOf(u) \notin crossed' => UserStays(u)
             /\ \A g \in GroupNames : GroupEntry(g) \notin crossed' => GroupStays(g)
  <2>1. req[q].about = {"entry"} \X Names /\ StaysFor(req[q].about)
    BY <1>2 DEF DirectoryAgrees, InFlight
  <2>2. \A u \in Uids : EntryOf(u) \in {"entry"} \X Names
    BY DEF EntryOf, Names
  <2>3. \A g \in GroupNames : GroupEntry(g) \in {"entry"} \X Names
    BY DEF GroupEntry, Names
  <2>. QED  BY <2>1, <2>2, <2>3 DEF StaysFor
<1>3. ASSUME pc[q] = "search"
      PROVE  /\ d.search \in Searches /\ DOMAIN d.read = ReadFields
             /\ GroupsRead(d)' /\ UsersRead(d)'
  <2>1. /\ d.search \in Searches /\ DOMAIN d.read = ReadFields
        /\ GroupsRead(d) /\ UsersRead(d)
    BY <1>3 DEF DirectoryAgrees, At
  <2>. QED  BY <2>1, <1>2, <1>3, GroupsReadStill, UsersReadStill
<1>4. ASSUME pc[q] = "answered", NEW dn \in Names, <<"entry", dn>> \notin crossed'
      PROVE  Exact(d, dn)'
  <2>1. Exact(d, dn)
    BY <1>4 DEF DirectoryAgrees, At
  <2>2. \A u \in Uids : dn = <<"uid", u>> => UserStays(u)
    BY <1>2, <1>4 DEF EntryOf
  <2>3. \A g \in GroupNames : dn = <<"cn", g>> => GroupStays(g)
    BY <1>2, <1>4 DEF GroupEntry
  <2>. QED  BY <2>1, <2>2, <2>3, ExactStill
<1>5. ASSUME pc[q] \in {"signIn", "verify", "bound", "verifyCurrent", "updatePassword"}
      PROVE  /\ d.username \in Uids /\ req[q].about = {PasswordOf(d.username)}
             /\ StaysFor(req[q].about)
  BY <1>5 DEF DirectoryAgrees, InFlight
<1>6. ASSUME pc[q] \in {"verify", "bound"}, PasswordOf(d.username) \notin crossed'
      PROVE  d.granted <=> RightPassword(d)'
  <2>1. d.granted <=> RightPassword(d)
    BY <1>6 DEF DirectoryAgrees
  <2>2. PasswordStays(d.username)
    BY <1>5, <1>6 DEF StaysFor
  <2>3. RightPassword(d)' <=> RightPassword(d)
    BY <2>2 DEF RightPassword, PasswordStays
  <2>. QED  BY <2>1, <2>3
<1>7. ASSUME pc[q] \in {"verifyCurrent", "updatePassword"}
      PROVE  d.username \in DOMAIN account' /\ d.new \in Passwords
  BY <1>5, <1>7 DEF DirectoryAgrees, StaysFor
<1>. QED  BY <1>1, <1>2, <1>3, <1>4, <1>5, <1>6, <1>7 DEF DirectoryAgrees, At

(***************************************************************************)
(* What a search sends                                                     *)
(***************************************************************************)

(* A filter that the entry matches compares its name with no other. *)
LEMMA NameIsCompared ==
  ASSUME NEW filter, NEW kind, NEW name, NEW attributes, Matches(filter, attributes),
         \A a \in attributes : a[1] = kind => a[2] = name,
         ~Narrowed(filter, kind), Compared(filter, kind) # {}
  PROVE  name \in Compared(filter, kind)
<1>1. /\ filter.op # "simple"
      /\ Compared(filter, kind)
           = {c[2] : c \in {c \in filter.of : c[1] = kind /\ c[2] # AnyValue}}
  BY DEF Compared
<1>2. PICK c \in filter.of : c[1] = kind /\ c[2] # AnyValue
  BY <1>1
<1>3. \E e \in filter.of : e[1] = kind /\ e[2] # AnyValue /\ Holds(e, attributes)
  <2>1. CASE filter.op = "or"
    <3>1. PICK e \in filter.of : Holds(e, attributes)
      BY <2>1 DEF Matches
    <3>2. e[1] = kind /\ e[2] # AnyValue
      BY <1>2, <2>1 DEF Narrowed
    <3>. QED  BY <3>1, <3>2
  <2>2. CASE filter.op # "or"
    BY <1>2, <2>2 DEF Matches
  <2>. QED  BY <2>1, <2>2
<1>4. PICK e \in filter.of : e[1] = kind /\ e[2] # AnyValue /\ Holds(e, attributes)
  BY <1>3
<1>5. e[2] = name
  BY <1>4 DEF Holds
<1>. QED  BY <1>1, <1>4, <1>5

LEMMA UserIsWanted ==
  ASSUME NEW s, NEW u, NEW name, Sends(s, <<"uid", u>>, UserAttributes(u, name)),
         Matches(s.filter, UserAttributes(u, name)), ~Narrowed(s.filter, "uid")
  PROVE  Wanted(s, u)
<1>1. \A a \in UserAttributes(u, name) : a[1] = "uid" => a[2] = u
  BY DEF UserAttributes
<1>2. Compared(s.filter, "uid") # {} => u \in Compared(s.filter, "uid")
  BY <1>1, NameIsCompared
<1>3. NamedInBase(s, "uid") # {} => u \in NamedInBase(s, "uid")
  BY DEF NamedInBase, NamedInDN, Sends
<1>. QED  BY <1>2, <1>3 DEF Wanted

LEMMA GroupIsFound ==
  ASSUME NEW s, NEW g \in GroupNames, NEW uids,
         Sends(s, <<"cn", g>>, GroupAttributes(g, uids)),
         Matches(s.filter, GroupAttributes(g, uids)), ~Narrowed(s.filter, "cn")
  PROVE  g \in GroupsToFind(s)
<1>1. \A a \in GroupAttributes(g, uids) : a[1] = "cn" => a[2] = g
  BY DEF GroupAttributes
<1>2. Compared(s.filter, "cn") # {} => g \in Compared(s.filter, "cn")
  BY <1>1, NameIsCompared
<1>3. NamedInBase(s, "cn") # {} => g \in NamedInBase(s, "cn")
  BY DEF NamedInBase, NamedInDN, Sends
<1>. QED  BY <1>2, <1>3 DEF GroupsToFind

LEMMA StaticIsNoName ==
  ASSUME NEW dn \in Names, NEW s
  PROVE  dn \notin StaticIn(s)
<1>1. PICK kind, name : dn = <<kind, name>> /\ kind \in {"uid", "cn"}
                          /\ (kind = "cn" => name \in GroupNames)
  BY DEF Names
<1>2. dn # <<"o">> /\ dn # <<"ou", "users">> /\ dn # <<"ou", "groups">>
  BY <1>1
<1>3. dn # ROOT
  BY <1>1, DirectoryAssumption DEF ROOT
<1>. QED  BY <1>2, <1>3 DEF StaticIn, Static

LEMMA UserIsExact ==
  ASSUME NEW d, NEW u \in Uids, UsersRead(d), d.todo = {}, EntryOf(u) \notin crossed,
         NEW e, e.search = d.search,
         <<"uid", u>> \in e.sent <=> u \in UsersIn(d.search, d.read)
  PROVE  Exact(e, <<"uid", u>>)
<1>. PICK dn : dn = <<"uid", u>>
  OBVIOUS
<1>0. dn[1] = "uid" /\ dn[2] = u
  OBVIOUS
<1>1. /\ u \in d.read.users <=> u \in DOMAIN account /\ Wanted(d.search, u)
      /\ u \in DOMAIN account =>
           /\ account[u].profile \in d.read.mails <=> account[u].profile \in mail
           /\ d.read.names[account[u].profile] = fullname[account[u].profile]
  BY DEF UsersRead
<1>2. Attributes(dn) = UserAttributes(u, fullname[account[u].profile])
  BY <1>0 DEF Attributes
<1>3. HasEntry(dn) <=>
        /\ u \in DOMAIN account
        /\ account[u].profile \in mail
        /\ fullname[account[u].profile] # NoName
  BY <1>0 DEF HasEntry
<1>4. dn \in e.sent <=> Rightly(e, dn) /\ Wanted(d.search, u)
  BY <1>1, <1>2, <1>3 DEF UsersIn, Rightly
<1>5. Rightly(e, dn) /\ Matches(e.search.filter, Attributes(dn))
        /\ ~Narrowed(e.search.filter, dn[1]) => Wanted(d.search, u)
  BY <1>0, <1>2, UserIsWanted DEF Rightly
<1>. QED  BY <1>4, <1>5 DEF Exact

LEMMA GroupIsExact ==
  ASSUME NEW d, NEW g \in GroupNames, GroupsRead(d), d.todo = {}, GroupEntry(g) \notin crossed,
         NEW e, e.search = d.search,
         <<"cn", g>> \in e.sent <=> g \in GroupsIn(d.search, d.read)
  PROVE  Exact(e, <<"cn", g>>)
<1>. PICK dn : dn = <<"cn", g>>
  OBVIOUS
<1>0. dn[1] = "cn" /\ dn[2] = g
  OBVIOUS
<1>1. /\ d.read.groups = GroupsToFind(d.search)
      /\ g \in d.read.groups => UidsIn(d.read, g) = MembersOf(g)
  BY DEF GroupsRead
<1>2. HasEntry(dn) /\ Attributes(dn) = GroupAttributes(g, MembersOf(g))
  BY <1>0 DEF HasEntry, Attributes, MembersOf
<1>3. dn \in e.sent <=> Rightly(e, dn) /\ g \in GroupsToFind(d.search)
  BY <1>1, <1>2 DEF GroupsIn, Rightly
<1>4. Rightly(e, dn) /\ Matches(e.search.filter, Attributes(dn))
        /\ ~Narrowed(e.search.filter, dn[1]) => g \in GroupsToFind(d.search)
  BY <1>0, <1>2, GroupIsFound DEF Rightly
<1>. QED  BY <1>3, <1>4 DEF Exact

LEMMA AnswerIsExact ==
  ASSUME NEW d, GroupsRead(d), UsersRead(d), d.todo = {},
         NEW dn \in Names, <<"entry", dn>> \notin crossed,
         NEW e, e.search = d.search,
         e.sent = ({"uid"} \X UsersIn(d.search, d.read))
                    \cup ({"cn"} \X GroupsIn(d.search, d.read)) \cup StaticIn(d.search)
  PROVE  Exact(e, dn)
<1>1. CASE dn \in {"uid"} \X Uids
  <2>1. PICK u \in Uids : dn = <<"uid", u>>
    BY <1>1
  <2>2. dn \in e.sent <=> u \in UsersIn(d.search, d.read)
    BY <2>1, StaticIsNoName
  <2>3. EntryOf(u) \notin crossed
    BY <2>1 DEF EntryOf
  <2>. QED  BY <2>1, <2>2, <2>3, UserIsExact
<1>2. CASE dn \in {"cn"} \X GroupNames
  <2>1. PICK g \in GroupNames : dn = <<"cn", g>>
    BY <1>2
  <2>2. dn \in e.sent <=> g \in GroupsIn(d.search, d.read)
    BY <2>1, StaticIsNoName
  <2>3. GroupEntry(g) \notin crossed
    BY <2>1 DEF GroupEntry
  <2>. QED  BY <2>1, <2>2, <2>3, GroupIsExact
<1>. QED  BY <1>1, <1>2 DEF Names

(***************************************************************************)
(* The steps of a search                                                   *)
(***************************************************************************)

LEMMA GroupsReadSame ==
  ASSUME NEW d, GroupsRead(d), NEW e, e.search = d.search, e.read.groups = d.read.groups,
         e.read.members = d.read.members, e.read.usernames = d.read.usernames,
         \A query \in {"groups", "members", "usernames"} :
           query \in e.todo <=> query \in d.todo
  PROVE  GroupsRead(e)
<1>1. \A g : UidsIn(e.read, g) = UidsIn(d.read, g)
  BY DEF UidsIn
<1>2. {"groups", "members"} \cap e.todo = {} <=> {"groups", "members"} \cap d.todo = {}
  OBVIOUS
<1>3. {"groups", "members", "usernames"} \cap e.todo = {}
        <=> {"groups", "members", "usernames"} \cap d.todo = {}
  OBVIOUS
<1>. QED  BY <1>1, <1>2, <1>3 DEF GroupsRead

LEMMA UsersReadSame ==
  ASSUME NEW d, UsersRead(d), NEW e, e.search = d.search, e.read.users = d.read.users,
         e.read.mails = d.read.mails, e.read.names = d.read.names,
         \A query \in {"users", "profiles", "names"} : query \in e.todo <=> query \in d.todo
  PROVE  UsersRead(e)
<1>1. {"users", "profiles"} \cap e.todo = {} <=> {"users", "profiles"} \cap d.todo = {}
  OBVIOUS
<1>2. {"users", "names"} \cap e.todo = {} <=> {"users", "names"} \cap d.todo = {}
  OBVIOUS
<1>. QED  BY <1>1, <1>2 DEF UsersRead

(* What a search carries once a read of it is answered *)
Answered(d, e, query, next, field, rows) ==
  /\ e.search = d.search
  /\ e.todo = (d.todo \ {query}) \cup next
  /\ e.read[field] = rows
  /\ \A f \in ReadFields \ {field} : e.read[f] = d.read[f]

LEMMA ReadsStep ==
  ASSUME Sent, Alone, NEW p \in Requests, DirectoryAgrees(p), NEW query, NEW next,
         NEW field \in ReadFields, NEW rows, Reads(p, query, next, field, rows),
         \A e : Answered(Data(p), e, query, next, field, rows) => GroupsRead(e) /\ UsersRead(e)
  PROVE  /\ Sent' /\ Alone' /\ Others(p) /\ crossed' = crossed
         /\ UNCHANGED <<area, account, mail, fullname, memberOf>>
         /\ DirectoryAgrees(p)'
<1>. PICK d : d = Data(p)
  OBVIOUS
<1>. PICK e : e = [search |-> d.search, todo |-> (d.todo \ {query}) \cup next,
                   read |-> [d.read EXCEPT ![field] = rows]]
  OBVIOUS
<1>1. Go(p, "search", e) /\ At(p, "search") /\ UNCHANGED directoryVars
  BY DEF Reads
<1>2. /\ Sent' /\ Alone' /\ Others(p) /\ crossed' = crossed /\ area' = area
      /\ pc'[p] = "search" /\ req'[p].about = req[p].about /\ req'[p].data = e
  <2>1. InFlight(p)
    BY <1>1 DEF At, InFlight
  <2>2. Sent' /\ Others(p) /\ pc'[p] = "search" /\ req'[p].about = req[p].about /\ req'[p].data = e
    BY <1>1, GoStep
  <2>3. Alone' /\ crossed' = crossed
    BY <1>1, <2>1, GoAlone
  <2>. QED  BY <2>2, <2>3, <1>1 DEF Go
<1>3. DOMAIN d.read = ReadFields /\ d.search \in Searches
  BY <1>1 DEF DirectoryAgrees
<1>4. DOMAIN e.read = ReadFields /\ Answered(d, e, query, next, field, rows)
  BY <1>3 DEF Answered
<1>5. GroupsRead(e) /\ UsersRead(e)
  BY <1>4
<1>6. GroupsRead(e)' /\ UsersRead(e)'
  BY <1>1, <1>2, <1>5 DEF GroupsRead, UsersRead, MembersOf, directoryVars
<1>7. req'[p].about = {"entry"} \X Names
  BY <1>1, <1>2 DEF DirectoryAgrees, At
<1>8. Data(p)' = e
  BY <1>2 DEF Data
<1>9. e.search \in Searches
  BY <1>3
<1>. QED
  BY <1>1, <1>2, <1>4, <1>6, <1>7, <1>8, <1>9 DEF DirectoryAgrees, At, directoryVars

LEMMA UsernamesAnswered ==
  ASSUME NEW d, NEW e, GroupsRead(d), DirectoryAreRows,
         {"groups", "members"} \cap d.todo = {},
         e.read.groups = d.read.groups, e.read.members = d.read.members,
         e.read.usernames =
           {n \in (DOMAIN account) \X Owners :
              account[n[1]].profile = n[2] /\ \E m \in d.read.members : m[1] = n[2]},
         NEW g \in d.read.groups, GroupEntry(g) \notin crossed
  PROVE  UidsIn(e.read, g) = MembersOf(g)
<1>1. g \in GroupNames
  BY DEF GroupsRead, GroupsToFind
<1>2. \A o \in Owners : <<o, g>> \in d.read.members <=> <<o, g>> \in memberOf
  BY <1>1 DEF GroupsRead
<1>3. ASSUME NEW u \in UidsIn(e.read, g)
      PROVE  u \in MembersOf(g)
  <2>1. PICK n \in e.read.usernames : n[1] = u /\ <<n[2], g>> \in d.read.members
    BY <1>3 DEF UidsIn
  <2>. QED  BY <2>1, <1>2 DEF MembersOf
<1>4. ASSUME NEW u \in MembersOf(g)
      PROVE  u \in UidsIn(e.read, g)
  <2>1. PICK o \in Owners : o = account[u].profile
    BY <1>4 DEF MembersOf, DirectoryAreRows, UserLocalUser
  <2>2. u \in DOMAIN account /\ <<o, g>> \in d.read.members
    BY <1>2, <1>4, <2>1 DEF MembersOf
  <2>3. \E m \in d.read.members : m[1] = o
    BY <2>2
  <2>4. <<u, o>> \in e.read.usernames
    BY <2>1, <2>2, <2>3
  <2>5. <<u, o>>[1] = u /\ <<u, o>>[2] = o
    OBVIOUS
  <2>6. <<u, o>> \in {n \in e.read.usernames : <<n[2], g>> \in e.read.members}
    BY <2>2, <2>4, <2>5
  <2>. QED  BY <2>5, <2>6 DEF UidsIn
<1>. QED  BY <1>3, <1>4

LEMMA SearchReads ==
  ASSUME DirectoryAreRows, Sent, Alone, NEW p \in Requests, DirectoryAgrees(p),
         \/ FindGroups(p) \/ PopulateUsers(p) \/ ProfileIdUsernameMap(p)
         \/ FindUsers(p) \/ ProfileMap(p) \/ ProfilesNameMap(p)
  PROVE  /\ Sent' /\ Alone' /\ Others(p) /\ crossed' = crossed
         /\ UNCHANGED <<area, account, mail, fullname, memberOf>>
         /\ DirectoryAgrees(p)'
<1>. PICK d : d = Data(p)
  OBVIOUS
<1>1. At(p, "search") => GroupsRead(d) /\ UsersRead(d)
  BY DEF DirectoryAgrees
<1>2. CASE FindGroups(p)
  <2>. PICK rows : rows = GroupsToFind(d.search)
    OBVIOUS
  <2>1. Reads(p, "groups", {"members"}, "groups", rows) /\ GroupsRead(d) /\ UsersRead(d)
    BY <1>1, <1>2 DEF FindGroups, Reads
  <2>2. ASSUME NEW e, Answered(d, e, "groups", {"members"}, "groups", rows)
        PROVE  GroupsRead(e) /\ UsersRead(e)
    <3>1. /\ e.read.groups = GroupsToFind(e.search) /\ "members" \in e.todo
          /\ e.search = d.search /\ e.read.users = d.read.users
          /\ e.read.mails = d.read.mails /\ e.read.names = d.read.names
          /\ \A query \in {"users", "profiles", "names"} : query \in e.todo <=> query \in d.todo
      BY <2>2 DEF Answered, ReadFields
    <3>2. GroupsRead(e)
      BY <3>1 DEF GroupsRead
    <3>. QED  BY <2>1, <3>1, <3>2, UsersReadSame
  <2>. QED  BY <2>1, <2>2, ReadsStep DEF ReadFields
<1>3. CASE PopulateUsers(p)
  <2>. PICK rows : rows = {m \in memberOf : m[2] \in d.read.groups}
    OBVIOUS
  <2>1. Reads(p, "members", {"usernames"}, "members", rows) /\ GroupsRead(d) /\ UsersRead(d)
    BY <1>1, <1>3 DEF PopulateUsers, Reads
  <2>2. ASSUME NEW e, Answered(d, e, "members", {"usernames"}, "members", rows)
        PROVE  GroupsRead(e) /\ UsersRead(e)
    <3>1. /\ e.read.members = rows /\ "usernames" \in e.todo
          /\ "groups" \in e.todo <=> "groups" \in d.todo
          /\ e.search = d.search /\ e.read.users = d.read.users
          /\ e.read.groups = d.read.groups
          /\ e.read.mails = d.read.mails /\ e.read.names = d.read.names
          /\ \A query \in {"users", "profiles", "names"} : query \in e.todo <=> query \in d.todo
      BY <2>2 DEF Answered, ReadFields
    <3>2. GroupsRead(e)
      BY <2>1, <3>1 DEF GroupsRead
    <3>. QED  BY <2>1, <3>1, <3>2, UsersReadSame
  <2>. QED  BY <2>1, <2>2, ReadsStep DEF ReadFields
<1>4. CASE ProfileIdUsernameMap(p)
  <2>. PICK rows : rows = {n \in (DOMAIN account) \X Owners :
                             /\ account[n[1]].profile = n[2]
                             /\ \E m \in d.read.members : m[1] = n[2]}
    OBVIOUS
  <2>1. Reads(p, "usernames", {}, "usernames", rows) /\ GroupsRead(d) /\ UsersRead(d)
    BY <1>1, <1>4 DEF ProfileIdUsernameMap, Reads
  <2>2. ASSUME NEW e, Answered(d, e, "usernames", {}, "usernames", rows)
        PROVE  GroupsRead(e) /\ UsersRead(e)
    <3>1. /\ e.read.usernames = rows /\ e.read.members = d.read.members
          /\ "groups" \in e.todo <=> "groups" \in d.todo
          /\ "members" \in e.todo <=> "members" \in d.todo
          /\ e.search = d.search /\ e.read.users = d.read.users
          /\ e.read.groups = d.read.groups
          /\ e.read.mails = d.read.mails /\ e.read.names = d.read.names
          /\ \A query \in {"users", "profiles", "names"} : query \in e.todo <=> query \in d.todo
      BY <2>2 DEF Answered, ReadFields
    <3>2. ASSUME {"groups", "members"} \cap e.todo = {}, NEW g \in e.read.groups,
                 GroupEntry(g) \notin crossed
          PROVE  UidsIn(e.read, g) = MembersOf(g)
      <4>1. {"groups", "members"} \cap d.todo = {}
        BY <3>1, <3>2
      <4>. QED  BY <2>1, <3>1, <3>2, <4>1, UsernamesAnswered
    <3>3. GroupsRead(e)
      BY <2>1, <3>1, <3>2 DEF GroupsRead
    <3>. QED  BY <2>1, <3>1, <3>3, UsersReadSame
  <2>. QED  BY <2>1, <2>2, ReadsStep DEF ReadFields
<1>5. CASE FindUsers(p)
  <2>. PICK rows : rows = UsersToFind(d.search)
    OBVIOUS
  <2>1. Reads(p, "users", {"profiles", "names"}, "users", rows) /\ GroupsRead(d) /\ UsersRead(d)
    BY <1>1, <1>5 DEF FindUsers, Reads
  <2>2. ASSUME NEW e, Answered(d, e, "users", {"profiles", "names"}, "users", rows)
        PROVE  GroupsRead(e) /\ UsersRead(e)
    <3>1. /\ e.read.users = UsersToFind(e.search) /\ {"profiles", "names"} \subseteq e.todo
          /\ e.search = d.search /\ e.read.groups = d.read.groups
          /\ e.read.members = d.read.members /\ e.read.usernames = d.read.usernames
          /\ \A query \in {"groups", "members", "usernames"} :
               query \in e.todo <=> query \in d.todo
      BY <2>2 DEF Answered, ReadFields
    <3>2. UsersRead(e)
      BY <3>1 DEF UsersRead, UsersToFind, Wanted
    <3>. QED  BY <2>1, <3>1, <3>2, GroupsReadSame
  <2>. QED  BY <2>1, <2>2, ReadsStep DEF ReadFields
<1>6. CASE ProfileMap(p)
  <2>. PICK rows : rows = mail
    OBVIOUS
  <2>1. Reads(p, "profiles", {}, "mails", rows) /\ GroupsRead(d) /\ UsersRead(d)
    BY <1>1, <1>6 DEF ProfileMap, Reads
  <2>2. ASSUME NEW e, Answered(d, e, "profiles", {}, "mails", rows)
        PROVE  GroupsRead(e) /\ UsersRead(e)
    <3>1. /\ e.read.mails = mail
          /\ "users" \in e.todo <=> "users" \in d.todo
          /\ "names" \in e.todo <=> "names" \in d.todo
          /\ e.search = d.search /\ e.read.groups = d.read.groups
          /\ e.read.users = d.read.users /\ e.read.names = d.read.names
          /\ e.read.members = d.read.members /\ e.read.usernames = d.read.usernames
          /\ \A query \in {"groups", "members", "usernames"} :
               query \in e.todo <=> query \in d.todo
      BY <2>2 DEF Answered, ReadFields
    <3>2. UsersRead(e)
      BY <2>1, <3>1 DEF UsersRead
    <3>. QED  BY <2>1, <3>1, <3>2, GroupsReadSame
  <2>. QED  BY <2>1, <2>2, ReadsStep DEF ReadFields
<1>7. CASE ProfilesNameMap(p)
  <2>. PICK rows : rows = fullname
    OBVIOUS
  <2>1. Reads(p, "names", {}, "names", rows) /\ GroupsRead(d) /\ UsersRead(d)
    BY <1>1, <1>7 DEF ProfilesNameMap, Reads
  <2>2. ASSUME NEW e, Answered(d, e, "names", {}, "names", rows)
        PROVE  GroupsRead(e) /\ UsersRead(e)
    <3>1. /\ e.read.names = fullname
          /\ "users" \in e.todo <=> "users" \in d.todo
          /\ "profiles" \in e.todo <=> "profiles" \in d.todo
          /\ e.search = d.search /\ e.read.groups = d.read.groups
          /\ e.read.users = d.read.users /\ e.read.mails = d.read.mails
          /\ e.read.members = d.read.members /\ e.read.usernames = d.read.usernames
          /\ \A query \in {"groups", "members", "usernames"} :
               query \in e.todo <=> query \in d.todo
      BY <2>2 DEF Answered, ReadFields
    <3>2. UsersRead(e)
      BY <2>1, <3>1 DEF UsersRead
    <3>. QED  BY <2>1, <3>1, <3>2, GroupsReadSame
  <2>. QED  BY <2>1, <2>2, ReadsStep DEF ReadFields
<1>. QED  BY <1>2, <1>3, <1>4, <1>5, <1>6, <1>7

LEMMA SendsExactly ==
  ASSUME DirectoryAreRows, Sent, Alone, NEW p \in Requests, DirectoryAgrees(p), SendEntries(p)
  PROVE  /\ Sent' /\ Alone' /\ Others(p) /\ crossed' = crossed
         /\ UNCHANGED <<area, account, mail, fullname, memberOf>>
         /\ DirectoryAgrees(p)'
<1>. PICK d : d = Data(p)
  OBVIOUS
<1>. PICK e : e = [search |-> d.search,
                   sent |-> ({"uid"} \X UsersIn(d.search, d.read))
                              \cup ({"cn"} \X GroupsIn(d.search, d.read)) \cup StaticIn(d.search)]
  OBVIOUS
<1>1. Go(p, "answered", e) /\ At(p, "search") /\ d.todo = {} /\ UNCHANGED directoryVars
  BY DEF SendEntries
<1>2. /\ Sent' /\ Alone' /\ Others(p) /\ crossed' = crossed /\ area' = area
      /\ pc'[p] = "answered" /\ req'[p].about = req[p].about /\ req'[p].data = e
  <2>1. InFlight(p)
    BY <1>1 DEF At, InFlight
  <2>2. Sent' /\ Others(p) /\ pc'[p] = "answered" /\ req'[p].about = req[p].about /\ req'[p].data = e
    BY <1>1, GoStep
  <2>3. Alone' /\ crossed' = crossed
    BY <1>1, <2>1, GoAlone
  <2>. QED  BY <2>2, <2>3, <1>1 DEF Go
<1>3. GroupsRead(d) /\ UsersRead(d)
  BY <1>1 DEF DirectoryAgrees
<1>4. ASSUME NEW dn \in Names, <<"entry", dn>> \notin crossed'
      PROVE  Exact(e, dn)'
  <2>1. Exact(e, dn)
    BY <1>1, <1>2, <1>3, <1>4, AnswerIsExact
  <2>2. (HasEntry(dn)' <=> HasEntry(dn)) /\ Attributes(dn)' = Attributes(dn)
    BY <1>1 DEF HasEntry, Attributes, directoryVars
  <2>. QED  BY <2>1, <2>2 DEF Exact, Rightly
<1>5. req'[p].about = {"entry"} \X Names
  BY <1>1, <1>2 DEF DirectoryAgrees, At
<1>6. Data(p)' = e
  BY <1>2 DEF Data
<1>. QED  BY <1>1, <1>2, <1>4, <1>5, <1>6 DEF DirectoryAgrees, At, directoryVars

(***************************************************************************)
(* The steps that write                                                    *)
(***************************************************************************)

LEMMA WriterStays ==
  ASSUME NEW p \in Requests, NEW about, Serve(p, about), DOMAIN account \subseteq DOMAIN account',
         \A u \in Uids : EntryOf(u) \notin about => UserStays(u),
         \A g \in GroupNames : GroupEntry(g) \notin about => GroupStays(g),
         \A u \in Uids : PasswordOf(u) \notin about => PasswordStays(u),
         NEW q \in Requests, InFlight(q)
  PROVE  StaysFor(req[q].about)
<1>1. about \cap req[q].about \subseteq crossed'
  BY DEF Serve, Shared
<1>. QED  BY <1>1 DEF StaysFor

LEMMA Different == \A u \in Uids, v \in Uids, g \in GroupNames :
  /\ EntryOf(u) = EntryOf(v) => u = v
  /\ PasswordOf(u) = PasswordOf(v) => u = v
  /\ EntryOf(u) # PasswordOf(v) /\ GroupEntry(g) # PasswordOf(v) /\ GroupEntry(g) # EntryOf(u)
BY DEF EntryOf, PasswordOf, GroupEntry

(* What a request that writes at once does to a search or a bind *)
Writes(p, about) ==
  /\ Serve(p, about)
  /\ DirectoryAreRows'
  /\ DOMAIN account \subseteq DOMAIN account'
  /\ \A u \in Uids : EntryOf(u) \notin about => UserStays(u)
  /\ \A g \in GroupNames : GroupEntry(g) \notin about => GroupStays(g)
  /\ \A u \in Uids : PasswordOf(u) \notin about => PasswordStays(u)

LEMMA CreateLocalUserWrites ==
  ASSUME DirectoryAreRows, NEW p \in Requests, CreateLocalUser(p)
  PROVE  \E about : Writes(p, about)
<1>1. PICK v \in Uids \ DOMAIN account, w \in Passwords :
        \E o \in Owners \ {account[u].profile : u \in DOMAIN account} :
         /\ account' = Put(account, v, [profile |-> o, password |-> w, disabled |-> FALSE])
         /\ Serve(p, EntriesOf(o) \cup {EntryOf(v), PasswordOf(v)})
  BY DEF CreateLocalUser
<1>2. PICK o \in Owners \ {account[u].profile : u \in DOMAIN account} :
         /\ account' = Put(account, v, [profile |-> o, password |-> w, disabled |-> FALSE])
         /\ Serve(p, EntriesOf(o) \cup {EntryOf(v), PasswordOf(v)})
  BY <1>1
<1>. PICK row : row = [profile |-> o, password |-> w, disabled |-> FALSE]
  OBVIOUS
<1>. PICK about : about = EntriesOf(o) \cup {EntryOf(v), PasswordOf(v)}
  OBVIOUS
<1>3. /\ DOMAIN account' = DOMAIN account \cup {v}
      /\ account'[v] = row
      /\ \A u \in DOMAIN account : account'[u] = account[u]
  BY <1>2 DEF Put
<1>4. UNCHANGED <<mail, fullname, memberOf>>
  BY DEF CreateLocalUser
<1>5. row \in UserLocalUser
  BY DEF UserLocalUser
<1>6. DirectoryAreRows'
  BY <1>3, <1>4, <1>5 DEF DirectoryAreRows
<1>7. ASSUME NEW u \in Uids, EntryOf(u) \notin about  PROVE UserStays(u)
  <2>1. u # v
    BY <1>7
  <2>. QED  BY <2>1, <1>3, <1>4 DEF UserStays
<1>8. ASSUME NEW g \in GroupNames, GroupEntry(g) \notin about  PROVE GroupStays(g)
  <2>1. <<o, g>> \notin memberOf
    <3>1. SUFFICES ASSUME <<o, g>> \in memberOf  PROVE FALSE
      OBVIOUS
    <3>2. <<o, g>>[1] = o /\ <<o, g>>[2] = g
      OBVIOUS
    <3>3. GroupEntry(g) \in EntriesOf(o)
      BY <3>1, <3>2 DEF EntriesOf, GroupEntry
    <3>. QED  BY <3>3, <1>8
  <2>. QED  BY <2>1, <1>3, <1>4 DEF GroupStays, MembersOf
<1>9. ASSUME NEW u \in Uids, PasswordOf(u) \notin about  PROVE PasswordStays(u)
  <2>1. u # v
    BY <1>9
  <2>. QED  BY <2>1, <1>3 DEF PasswordStays
<1>10. Serve(p, about)
  BY <1>2
<1>. QED  BY <1>3, <1>6, <1>7, <1>8, <1>9, <1>10 DEF Writes

(* The entries of an owner's users are of her. *)
LEMMA EntriesOfUsers ==
  ASSUME NEW o, NEW u \in DOMAIN account, account[u].profile = o
  PROVE  EntryOf(u) \in EntriesOf(o)
BY DEF EntriesOf

LEMMA OwnerWrites ==
  ASSUME DirectoryAreRows, NEW p \in Requests, UpdateContacts(p) \/ UpdateProfileName(p)
  PROVE  \E about : Writes(p, about)
<1>1. \E o \in Owners :
        /\ \A other \in Owners \ {o} :
             /\ other \in mail' <=> other \in mail
             /\ fullname'[other] = fullname[other]
        /\ fullname' = [other \in Owners |-> fullname'[other]]
        /\ UNCHANGED <<account, memberOf>>
        /\ Serve(p, EntriesOf(o))
  BY DEF UpdateContacts, UpdateProfileName, DirectoryAreRows
<1>2. PICK o \in Owners :
        /\ \A other \in Owners \ {o} :
             /\ other \in mail' <=> other \in mail
             /\ fullname'[other] = fullname[other]
        /\ fullname' = [other \in Owners |-> fullname'[other]]
        /\ UNCHANGED <<account, memberOf>>
        /\ Serve(p, EntriesOf(o))
  BY <1>1
<1>. PICK about : about = EntriesOf(o)
  OBVIOUS
<1>3. DirectoryAreRows'
  BY <1>2 DEF DirectoryAreRows
<1>4. ASSUME NEW u \in Uids, EntryOf(u) \notin about  PROVE UserStays(u)
  <2>1. ASSUME u \in DOMAIN account  PROVE account[u].profile \in Owners \ {o}
    BY <1>4, <2>1, EntriesOfUsers DEF DirectoryAreRows, UserLocalUser
  <2>. QED  BY <2>1, <1>2 DEF UserStays
<1>5. \A g \in GroupNames : GroupStays(g)
  BY <1>2 DEF GroupStays, MembersOf
<1>6. \A u \in Uids : PasswordStays(u)
  BY <1>2 DEF PasswordStays
<1>7. Serve(p, about) /\ account' = account
  BY <1>2
<1>. QED  BY <1>3, <1>4, <1>5, <1>6, <1>7 DEF Writes

LEMMA ChangeGroupsWrites ==
  ASSUME DirectoryAreRows, NEW p \in Requests, ChangeGroups(p)
  PROVE  \E about : Writes(p, about)
<1>1. PICK m \in Owners \X GroupNames :
        memberOf' \in {memberOf \cup {m}, memberOf \ {m}} /\ Serve(p, {GroupEntry(m[2])})
  BY DEF ChangeGroups, GroupEntry
<1>2. UNCHANGED <<account, mail, fullname>>
  BY DEF ChangeGroups
<1>. PICK about : about = {GroupEntry(m[2])}
  OBVIOUS
<1>3. DirectoryAreRows'
  BY <1>1, <1>2 DEF DirectoryAreRows
<1>4. ASSUME NEW g \in GroupNames, GroupEntry(g) \notin about  PROVE GroupStays(g)
  <2>1. \A o : <<o, g>> # m
    BY <1>4
  <2>2. \A o : <<o, g>> \in memberOf' <=> <<o, g>> \in memberOf
    BY <2>1, <1>1
  <2>. QED  BY <2>2, <1>2 DEF GroupStays, MembersOf
<1>5. \A u \in Uids : UserStays(u) /\ PasswordStays(u)
  BY <1>2 DEF UserStays, PasswordStays
<1>6. Serve(p, about)
  BY <1>1
<1>. QED  BY <1>2, <1>3, <1>4, <1>5, <1>6 DEF Writes

LEMMA UpdatePasswordStays ==
  ASSUME DirectoryAreRows, Alone, NEW p \in Requests, DirectoryAgrees(p), UpdatePassword(p)
  PROVE  /\ DirectoryAreRows'
         /\ \A q \in Requests \ {p} : InFlight(q) => StaysFor(req[q].about)
<1>. PICK d : d = Data(p)
  OBVIOUS
<1>. PICK v : v = d.username
  OBVIOUS
<1>1. v \in DOMAIN account /\ v \in Uids /\ req[p].about = {PasswordOf(v)} /\ d.new \in Passwords
  BY DEF DirectoryAgrees, UpdatePassword, At
<1>2. account' = Put(account, v, Edited(account[v], [password |-> d.new]))
        /\ UNCHANGED <<mail, fullname, memberOf>> /\ crossed' = crossed /\ InFlight(p)
  BY DEF UpdatePassword, Finish, InFlight, At
<1>3. account[v] \in UserLocalUser
  BY <1>1 DEF DirectoryAreRows
<1>4. PICK row : row = Edited(account[v], [password |-> d.new])
  OBVIOUS
<1>5. row \in UserLocalUser /\ row.profile = account[v].profile
  BY <1>1, <1>3, <1>4 DEF Edited, UserLocalUser
<1>6. /\ DOMAIN account' = DOMAIN account
      /\ account'[v] = row
      /\ \A u \in DOMAIN account \ {v} : account'[u] = account[u]
  BY <1>1, <1>2, <1>4 DEF Put
<1>7. DirectoryAreRows'
  BY <1>2, <1>5, <1>6 DEF DirectoryAreRows
<1>8. \A u \in DOMAIN account : account'[u].profile = account[u].profile
  BY <1>5, <1>6
<1>9. \A u : UserStays(u)
  BY <1>2, <1>6, <1>8 DEF UserStays
<1>10. \A g : GroupStays(g)
  BY <1>2, <1>6, <1>8 DEF GroupStays, MembersOf
<1>11. ASSUME NEW q \in Requests \ {p}, InFlight(q)  PROVE StaysFor(req[q].about)
  <2>1. PasswordOf(v) \in req[q].about => PasswordOf(v) \in crossed'
    BY <1>1, <1>2, <1>11 DEF Alone
  <2>2. \A u \in Uids \ {v} : PasswordStays(u)
    BY <1>6 DEF PasswordStays
  <2>. QED  BY <1>6, <1>9, <1>10, <2>1, <2>2 DEF StaysFor
<1>. QED  BY <1>7, <1>11

(***************************************************************************)
(* The invariant                                                           *)
(***************************************************************************)

LEMMA DirectoryInvAtFirst == Init => DirectoryInv
<1>. SUFFICES ASSUME Init  PROVE DirectoryInv
  OBVIOUS
<1>1. Sent /\ \A p \in Requests : pc[p] = "new"
  BY SentAtFirst DEF Init, InitRequests
<1>2. Alone /\ \A p \in Requests : DirectoryAgrees(p)
  BY <1>1 DEF Alone, InFlight, DirectoryAgrees, At
<1>3. ASSUME area = "directory"  PROVE DirectoryAreRows
  <2>1. account \in OldAccounts
    BY <1>3 DEF Init, InitDirectory
  <2>2. PICK name \in FullNames, g \in GroupNames :
          fullname = [o \in Owners |-> name] /\ memberOf = Owners \X {g}
    BY <1>3 DEF Init, InitDirectory
  <2>3. DOMAIN account \subseteq Uids /\ \A u \in DOMAIN account : account[u] \in UserLocalUser
    BY <2>1, DirectoryAssumption
  <2>4. fullname = [o \in Owners |-> fullname[o]]
    BY <2>2
  <2>5. memberOf \subseteq Owners \X GroupNames
    BY <2>2
  <2>. QED  BY <2>3, <2>4, <2>5 DEF DirectoryAreRows
<1>. QED  BY <1>1, <1>2, <1>3 DEF DirectoryInv

LEMMA DirectoryInvKept == DirectoryInv /\ [Next]_vars => DirectoryInv'
<1>. SUFFICES ASSUME DirectoryInv, [Next]_vars  PROVE DirectoryInv'
  OBVIOUS
<1>1. CASE area' # "directory"
  BY <1>1 DEF DirectoryInv
(* It is enough to look at the request, and what it leaves to the others. *)
<1>2. ASSUME DirectoryAreRows, \A q \in Requests : DirectoryAgrees(q),
             NEW p \in Requests, Sent', Alone', Others(p), crossed \subseteq crossed',
             DirectoryAreRows', DirectoryAgrees(p)',
             \A q \in Requests \ {p} : InFlight(q) => StaysFor(req[q].about)
      PROVE  DirectoryInv'
  <2>1. ASSUME NEW q \in Requests, q # p  PROVE DirectoryAgrees(q)'
    <3>1. pc'[q] = pc[q] /\ req'[q] = req[q]
      BY <1>2, <2>1 DEF Others
    <3>2. InFlight(q) => StaysFor(req[q].about)
      BY <1>2, <2>1
    <3>. QED  BY <3>1, <3>2, <1>2, OtherDirectoryAgrees
  <2>. QED  BY <2>1, <1>2 DEF DirectoryInv
(* Most steps change no table. *)
<1>3. ASSUME DirectoryAreRows, \A q \in Requests : DirectoryAgrees(q),
             NEW p \in Requests, Sent', Alone', Others(p), crossed \subseteq crossed',
             UNCHANGED <<account, mail, fullname, memberOf>>, DirectoryAgrees(p)'
      PROVE  DirectoryInv'
  <2>1. DirectoryAreRows'
    BY <1>3 DEF DirectoryAreRows
  <2>2. \A q \in Requests : StaysFor(req[q].about)
    BY <1>3, UntouchedStays
  <2>. QED  BY <2>1, <2>2, <1>2, <1>3
<1>4. ASSUME NEW p \in Requests, pc'[p] = "done"  PROVE DirectoryAgrees(p)'
  BY <1>4 DEF DirectoryAgrees, At
<1>5. CASE area = "directory" /\ UNCHANGED <<serverVars, directoryVars>>
  <2>1. Sent /\ Alone /\ DirectoryAreRows /\ \A q \in Requests : DirectoryAgrees(q)
    BY <1>5 DEF DirectoryInv
  <2>2. Sent' /\ Alone'
    BY <2>1, <1>5 DEF Sent, Alone, InFlight, serverVars
  <2>3. DirectoryAreRows'
    BY <2>1, <1>5 DEF DirectoryAreRows, directoryVars
  <2>4. ASSUME NEW q \in Requests  PROVE DirectoryAgrees(q)'
    <3>1. StaysFor(req[q].about)
      BY <1>5, UntouchedStays DEF directoryVars
    <3>2. pc'[q] = pc[q] /\ req'[q] = req[q] /\ crossed' = crossed
      BY <1>5 DEF serverVars
    <3>. QED  BY <3>1, <3>2, <2>1, <2>3, OtherDirectoryAgrees
  <2>. QED  BY <2>2, <2>3, <2>4 DEF DirectoryInv
<1>6. ASSUME area = "directory", UNCHANGED directoryVars, NEW p \in Requests, Die(p)
      PROVE  DirectoryInv'
  <2>1. Sent /\ Alone /\ DirectoryAreRows /\ \A q \in Requests : DirectoryAgrees(q)
    BY <1>6 DEF DirectoryInv
  <2>2. Sent' /\ Alone' /\ crossed' = crossed /\ Others(p) /\ pc'[p] = "done"
    BY <1>6, <2>1, FinishAlone
  <2>3. UNCHANGED <<account, mail, fullname, memberOf>>
    BY <1>6 DEF directoryVars
  <2>. QED  BY <2>1, <2>2, <2>3, <1>3, <1>4
<1>7. ASSUME area = "directory", NEW p \in Requests, DirectoryNext(p)  PROVE DirectoryInv'
  <2>. USE <1>7
  <2>0. Sent /\ Alone /\ DirectoryAreRows /\ \A q \in Requests : DirectoryAgrees(q)
    BY DEF DirectoryInv
  <2>1. CASE BindRoot(p)
    <3>1. Serve(p, {}) /\ UNCHANGED <<account, mail, fullname, memberOf>>
      BY <2>1 DEF BindRoot
    <3>2. Sent' /\ Others(p) /\ pc'[p] = "done" /\ UNCHANGED req /\ crossed \subseteq crossed'
      BY <3>1, <2>0, ServeStep DEF Serve
    <3>3. Alone'
      BY <3>2, <2>0 DEF Alone, Others, InFlight
    <3>. QED  BY <3>1, <3>2, <3>3, <2>0, <1>3, <1>4
  <2>2. CASE BindDn(p)
    <3>1. PICK u \in Uids, w \in Passwords :
            Accept(p, {PasswordOf(u)}, "signIn", [username |-> u, password |-> w])
      BY <2>2 DEF BindDn
    <3>2. /\ Sent' /\ Others(p) /\ pc'[p] = "signIn" /\ Alone' /\ crossed \subseteq crossed'
          /\ req'[p] = [about |-> {PasswordOf(u)}, data |-> [username |-> u, password |-> w]]
      BY <3>1, <2>0, AcceptStep, AcceptAlone
    <3>3. DirectoryAgrees(p)'
      BY <3>2 DEF DirectoryAgrees, At, Data
    <3>. QED  BY <3>2, <3>3, <2>0, <2>2, <1>3 DEF BindDn, directoryVars
  <2>3. CASE SignInLocal(p)
    <3>. PICK d : d = Data(p)
      OBVIOUS
    <3>. PICK found : found = (d.username \in DOMAIN account /\ ~account[d.username].disabled)
      OBVIOUS
    <3>. PICK e : e = [username |-> d.username, password |-> d.password,
                       granted |-> found /\ account[d.username].password = d.password]
      OBVIOUS
    <3>1. /\ Go(p, "verify", e) /\ e.username = d.username /\ e.password = d.password
          /\ e.granted <=> RightPassword(d)
      <4>1. Go(p, "verify", e)
        BY <2>3 DEF SignInLocal
      <4>2. e.granted <=> RightPassword(d)
        BY Zenon DEF RightPassword
      <4>. QED  BY <4>1, <4>2
    <3>2. At(p, "signIn") /\ InFlight(p) /\ UNCHANGED directoryVars
      BY <2>3 DEF SignInLocal, At, InFlight
    <3>3. /\ Sent' /\ Others(p) /\ pc'[p] = "verify" /\ Alone' /\ crossed' = crossed
          /\ req'[p].about = req[p].about /\ req'[p].data = e
      BY <3>1, <3>2, <2>0, GoStep, GoAlone
    <3>4. e.granted <=> RightPassword(e)'
      BY <3>1, <3>2 DEF RightPassword, directoryVars
    <3>5. e.username \in Uids /\ req'[p].about = {PasswordOf(e.username)}
      BY <3>1, <3>2, <3>3, <2>0 DEF DirectoryAgrees, At
    <3>6. Data(p)' = e
      BY <3>3 DEF Data
    <3>7. DirectoryAgrees(p)'
      BY <3>3, <3>4, <3>5, <3>6 DEF DirectoryAgrees, At
    <3>. QED  BY <3>2, <3>3, <3>7, <2>0, <1>3 DEF directoryVars
  <2>4. CASE EndBind(p)
    <3>. PICK d : d = Data(p)
      OBVIOUS
    <3>1. /\ Go(p, "bound", d) /\ At(p, "verify") /\ InFlight(p)
          /\ UNCHANGED <<account, mail, fullname, memberOf>>
      BY <2>4 DEF EndBind, At, InFlight
    <3>2. /\ Sent' /\ Others(p) /\ pc'[p] = "bound" /\ Alone' /\ crossed' = crossed
          /\ req'[p].about = req[p].about /\ req'[p].data = d
      BY <3>1, <2>0, GoStep, GoAlone
    <3>3. /\ d.username \in Uids /\ req'[p].about = {PasswordOf(d.username)}
          /\ PasswordOf(d.username) \notin crossed => (d.granted <=> RightPassword(d))
      BY <3>1, <3>2, <2>0 DEF DirectoryAgrees, At
    <3>4. RightPassword(d)' <=> RightPassword(d)
      BY <3>1 DEF RightPassword
    <3>5. Data(p)' = d
      BY <3>2 DEF Data
    <3>6. DirectoryAgrees(p)'
      BY <3>2, <3>3, <3>4, <3>5 DEF DirectoryAgrees, At
    <3>. QED  BY <3>1, <3>2, <3>6, <2>0, <1>3
  <2>5. CASE SearchDN(p)
    <3>1. PICK s \in Searches :
            Accept(p, {"entry"} \X Names, "search",
                   [search |-> s, todo |-> {"groups", "users"}, read |-> Nothing])
      BY <2>5 DEF SearchDN
    <3>2. PICK d : d = [search |-> s, todo |-> {"groups", "users"}, read |-> Nothing]
      OBVIOUS
    <3>3. PICK about : about = {"entry"} \X Names
      OBVIOUS
    <3>4. Accept(p, about, "search", d)
      BY <3>1, <3>2, <3>3
    <3>5. Sent' /\ Others(p) /\ pc'[p] = "search" /\ req'[p] = [about |-> about, data |-> d]
      BY <3>4, <2>0, AcceptStep
    <3>6. Alone' /\ crossed \subseteq crossed'
      BY <3>4, <2>0, AcceptAlone
    <3>7. d.search \in Searches /\ DOMAIN d.read = ReadFields
      BY <3>1, <3>2 DEF Nothing, ReadFields
    <3>8. GroupsRead(d)' /\ UsersRead(d)'
      BY <3>2 DEF GroupsRead, UsersRead
    <3>9. Data(p)' = d /\ req'[p].about = {"entry"} \X Names
      BY <3>3, <3>5 DEF Data
    <3>10. DirectoryAgrees(p)'
      BY <3>5, <3>7, <3>8, <3>9 DEF DirectoryAgrees, At
    <3>. QED  BY <3>5, <3>6, <3>10, <2>0, <2>5, <1>3 DEF SearchDN, directoryVars
  <2>6. CASE \/ FindGroups(p) \/ PopulateUsers(p) \/ ProfileIdUsernameMap(p)
             \/ FindUsers(p) \/ ProfileMap(p) \/ ProfilesNameMap(p)
    BY <2>6, <2>0, SearchReads, <1>3
  <2>7. CASE SendEntries(p)
    BY <2>7, <2>0, SendsExactly, <1>3
  <2>8. CASE EndSearch(p)
    <3>1. Finish(p) /\ UNCHANGED <<account, mail, fullname, memberOf>>
      BY <2>8 DEF EndSearch, directoryVars
    <3>2. Sent' /\ Alone' /\ crossed' = crossed /\ Others(p) /\ pc'[p] = "done"
      BY <3>1, <2>0, FinishAlone
    <3>. QED  BY <3>1, <3>2, <2>0, <1>3, <1>4
  <2>9. CASE \/ CreateLocalUser(p) \/ UpdateContacts(p) \/ UpdateProfileName(p)
             \/ ChangeGroups(p)
    <3>1. PICK about : Writes(p, about)
      BY <2>9, <2>0, CreateLocalUserWrites, OwnerWrites, ChangeGroupsWrites
    <3>2. /\ Sent' /\ Others(p) /\ pc'[p] = "done" /\ UNCHANGED req /\ crossed \subseteq crossed'
      BY <3>1, <2>0, ServeStep DEF Writes, Serve
    <3>3. Alone'
      BY <3>2, <2>0 DEF Alone, Others, InFlight
    <3>4. \A q \in Requests : InFlight(q) => StaysFor(req[q].about)
      BY <3>1, WriterStays DEF Writes
    <3>5. DirectoryAreRows'
      BY <3>1 DEF Writes
    <3>. QED  BY <3>2, <3>3, <3>4, <3>5, <2>0, <1>2, <1>4
  <2>10. CASE ChangePassword(p)
    <3>1. PICK u \in DOMAIN account, w \in Passwords, new \in Passwords :
            Accept(p, {PasswordOf(u)}, "verifyCurrent",
                   [username |-> u, current |-> w, new |-> new])
      BY <2>10 DEF ChangePassword
    <3>2. /\ Sent' /\ Others(p) /\ pc'[p] = "verifyCurrent" /\ Alone' /\ crossed \subseteq crossed'
          /\ req'[p] = [about |-> {PasswordOf(u)},
                        data |-> [username |-> u, current |-> w, new |-> new]]
      BY <3>1, <2>0, AcceptStep, AcceptAlone
    <3>3. UNCHANGED <<account, mail, fullname, memberOf>> /\ u \in Uids
      BY <2>10, <2>0 DEF ChangePassword, directoryVars, DirectoryAreRows
    <3>4. DirectoryAgrees(p)'
      BY <3>2, <3>3 DEF DirectoryAgrees, At, Data
    <3>. QED  BY <3>2, <3>3, <3>4, <2>0, <1>3
  <2>11. CASE VerifyCurrent(p)
    <3>. PICK d : d = Data(p)
      OBVIOUS
    <3>1. /\ At(p, "verifyCurrent") /\ InFlight(p)
          /\ UNCHANGED <<account, mail, fullname, memberOf>>
          /\ Go(p, "updatePassword", d) \/ Finish(p)
      BY <2>11 DEF VerifyCurrent, At, InFlight, directoryVars
    <3>2. CASE Finish(p)
      <4>1. Sent' /\ Alone' /\ crossed' = crossed /\ Others(p) /\ pc'[p] = "done"
        BY <3>2, <2>0, FinishAlone
      <4>. QED  BY <4>1, <3>1, <2>0, <1>3, <1>4
    <3>3. CASE Go(p, "updatePassword", d)
      <4>1. /\ Sent' /\ Others(p) /\ pc'[p] = "updatePassword" /\ Alone' /\ crossed' = crossed
            /\ req'[p].about = req[p].about /\ req'[p].data = d
        BY <3>1, <3>3, <2>0, GoStep, GoAlone
      <4>2. /\ d.username \in Uids /\ req'[p].about = {PasswordOf(d.username)}
            /\ d.username \in DOMAIN account /\ d.new \in Passwords
        BY <3>1, <4>1, <2>0 DEF DirectoryAgrees, At
      <4>3. Data(p)' = d
        BY <4>1 DEF Data
      <4>4. DirectoryAgrees(p)'
        BY <3>1, <4>1, <4>2, <4>3 DEF DirectoryAgrees, At
      <4>. QED  BY <4>1, <4>4, <3>1, <2>0, <1>3
    <3>. QED  BY <3>1, <3>2, <3>3
  <2>12. CASE UpdatePassword(p)
    <3>1. /\ DirectoryAreRows'
          /\ \A q \in Requests \ {p} : InFlight(q) => StaysFor(req[q].about)
      BY <2>12, <2>0, UpdatePasswordStays
    <3>2. Sent' /\ Alone' /\ crossed' = crossed /\ Others(p) /\ pc'[p] = "done"
      BY <2>12, <2>0, FinishAlone DEF UpdatePassword
    <3>. QED  BY <3>1, <3>2, <2>0, <1>2, <1>4
  <2>. QED
    BY <2>1, <2>2, <2>3, <2>4, <2>5, <2>6, <2>7, <2>8, <2>9, <2>10, <2>11, <2>12
    DEF DirectoryNext
<1>. QED
  <2>1. CASE area = "directory"
    BY <2>1, <1>5, <1>6, <1>7, DirectorySteps
  <2>2. CASE area # "directory"
    <3>1. area' = area
      BY <2>2, DirectorySteps DEF Die, serverVars
    <3>. QED  BY <3>1, <2>2, <1>1
  <2>. QED  BY <2>1, <2>2

(* Over LDAP a search sends who matches and nobody else, and who is granted a bind has
   the password (src/ldap-server), unless the entry or the password was changed
   meanwhile: for any number of users, groups and requests, whatever is searched for. *)
THEOREM SearchesAreAlwaysExact == Spec => []DirectoryIsExact
<1>1. DirectoryInv => DirectoryIsExact
  <2>. SUFFICES ASSUME DirectoryInv, area = "directory", NEW p \in Requests
                PROVE  /\ At(p, "answered") =>
                            \A dn \in Names : <<"entry", dn>> \notin crossed => Exact(Data(p), dn)
                       /\ At(p, "bound") /\ PasswordOf(Data(p).username) \notin crossed =>
                            (Data(p).granted <=> RightPassword(Data(p)))
    BY DEF DirectoryIsExact, Exact, Rightly, RightPassword
  <2>. QED  BY DEF DirectoryInv, DirectoryAgrees, At
<1>. QED  BY <1>1, DirectoryInvAtFirst, DirectoryInvKept, PTL DEF Spec
===============================================================================
