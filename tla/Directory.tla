------------------------------ MODULE Directory --------------------------------
(***************************************************************************)
(* The LDAP server (src/ldap-server): a connection binds as root or as a    *)
(* local user, and root may search the users and groups.                    *)
(*                                                                         *)
(* Local users are in PostgreSQL, profiles, names, groups and who is in     *)
(* them in MongoDB; a search reads them one after the other while handlers  *)
(* of other areas (src/accounts) write, here with a statement each. Nothing *)
(* but the filter's own clauses is looked at when users or groups are read; *)
(* what was read is then compared with the whole filter.                    *)
(***************************************************************************)
EXTENDS Requests

CONSTANTS
  Owners,     \* profiles
  Uids,       \* user names
  GroupNames,
  FullNames,
  NoName,     \* there is no name in English
  Passwords,
  Searches,   \* what clients ask for: scope, dn and filter (bound)
  OldAccounts, \* tables of local users at the start (bound)
  AnyValue    \* the value of a clause that only asks for an attribute

ROOT == <<"cn", "root">>
Anonymous == <<>>

VARIABLES
  boundDN,  \* of the connection
  account,  \* user_local_users: user name -> profile, password, disabled
  mail,     \* profiles that have an e-mail address
  fullname, \* names.profiles in English
  memberOf  \* users.groups: pairs of a profile and a group

directoryVars == <<boundDN, account, mail, fullname, memberOf>>

UserLocalUser == [profile : Owners, password : Passwords, disabled : BOOLEAN]

(* A group has not the name of root, which is an entry of its own, and a profile has
   one user (module Members says when). A filter is a clause, or one conjunction or
   disjunction of clauses: negation and nesting are left out. *)
ASSUME DirectoryAssumption ==
  /\ "root" \notin GroupNames
  /\ \A s \in Searches :
       /\ s.scope \in {"base", "sub"}
       /\ s.filter.op \in {"simple", "and", "or"}
       /\ s.filter.op = "simple" => Cardinality(s.filter.of) = 1
  /\ \A table \in OldAccounts :
       /\ DOMAIN table \subseteq Uids
       /\ \A u \in DOMAIN table : table[u] \in UserLocalUser
       /\ \A u, v \in DOMAIN table : table[u].profile = table[v].profile => u = v

DirectoryAwaits ==
  {"signIn", "verify", "bound", "search", "answered", "verifyCurrent", "updatePassword"}

DirectoryTypeOK ==
  /\ area = "directory" => pc \in StepsAmong(DirectoryAwaits)
  /\ boundDN \in {Anonymous, ROOT} \cup ({"uid"} \X Uids)
  /\ DOMAIN account \subseteq Uids
  /\ \A u \in DOMAIN account : account[u] \in UserLocalUser
  /\ mail \subseteq Owners
  /\ fullname \in [Owners -> FullNames \cup {NoName}]
  /\ memberOf \subseteq Owners \X GroupNames

InitDirectory ==
  /\ boundDN \in IF area = "directory" THEN {Anonymous, ROOT} ELSE {Anonymous}
  /\ account \in IF area = "directory" THEN OldAccounts ELSE {<<>>}
  /\ \E name \in FullNames, g \in GroupNames :
       IF area = "directory"
         THEN /\ mail \in SUBSET Owners
              /\ fullname = [o \in Owners |-> name]
              /\ memberOf = Owners \X {g}
         ELSE mail = {} /\ fullname = [o \in Owners |-> NoName] /\ memberOf = {}

-------------------------------------------------------------------------------
(* Entries and what a search sends *)

UserAttributes(u, name) ==
  {<<"uid", u>>, <<"cn", name>>, <<"objectclass", "top">>, <<"objectclass", "posixAccount">>}
GroupAttributes(g, uids) ==
  {<<"cn", g>>, <<"objectclass", "top">>, <<"objectclass", "posixGroup">>}
    \cup ({"memberUid"} \X uids)

(* The base, its units and root *)
Static == {<<"o">>, <<"ou", "users">>, <<"ou", "groups">>, ROOT}
StaticAttributes(dn) ==
  CASE dn = <<"o">> -> {<<"objectclass", "top">>, <<"objectclass", "organization">>}
    [] dn = ROOT -> {<<"objectclass", "organizationalRole">>}
    [] OTHER -> {dn, <<"objectclass", "top">>, <<"objectclass", "organizationalUnit">>}

Holds(clause, attributes) ==
  \E a \in attributes : a[1] = clause[1] /\ clause[2] \in {AnyValue, a[2]}
Matches(filter, attributes) ==
  IF filter.op = "or"
    THEN \E clause \in filter.of : Holds(clause, attributes)
    ELSE \A clause \in filter.of : Holds(clause, attributes)

(* In the scope of the base only the DN counts, in others only the filter. *)
Sends(s, dn, attributes) ==
  IF s.scope = "base" THEN s.dn = dn ELSE Matches(s.filter, attributes)

(* The values that the clauses of a filter compare an attribute with; a filter of
   one clause has no filters. *)
Compared(filter, attribute) ==
  IF filter.op = "simple" THEN {}
  ELSE {c[2] : c \in {c \in filter.of : c[1] = attribute /\ c[2] # AnyValue}}

NamedInDN(s, kind) == IF s.dn[1] = kind THEN {s.dn[2]} ELSE {}
NamedInBase(s, kind) == IF s.scope = "base" THEN NamedInDN(s, kind) ELSE {}

UsersToFind(s) ==
  LET names == NamedInBase(s, "uid") \cup Compared(s.filter, "uid") IN
  IF names = {} THEN DOMAIN account ELSE names \cap DOMAIN account

(* A second condition on the name of a group replaces the first. *)
GroupsToFind(s) ==
  LET names == IF Compared(s.filter, "cn") # {} THEN Compared(s.filter, "cn")
               ELSE NamedInBase(s, "cn") IN
  IF names = {} THEN GroupNames ELSE names \cap GroupNames

-------------------------------------------------------------------------------
(* Binding *)

EntryOf(u) == <<"entry", <<"uid", u>>>>
PasswordOf(u) == <<"password", u>>

(* Anybody's secret is right or wrong. *)
BindRoot(p) ==
  /\ Arrives(p, "directory")
  /\ boundDN' \in {ROOT, boundDN}
  /\ Serve(p, {})
  /\ UNCHANGED <<account, mail, fullname, memberOf>>

BindDn(p) ==
  /\ Arrives(p, "directory")
  /\ \E u \in Uids, w \in Passwords :
       Accept(p, {PasswordOf(u)}, "signIn", [username |-> u, password |-> w])
  /\ UNCHANGED directoryVars

(* signIn reads the user, *)
SignInLocal(p) ==
  /\ At(p, "signIn")
  /\ LET d == Data(p)
         found == d.username \in DOMAIN account /\ ~account[d.username].disabled IN
     Go(p, "verify",
        [username |-> d.username, password |-> d.password,
         granted |-> found /\ account[d.username].password = d.password])
  /\ UNCHANGED directoryVars

(* and verifies the password it has read. *)
EndBind(p) ==
  /\ At(p, "verify")
  /\ Go(p, "bound", Data(p))
  /\ boundDN' = IF Data(p).granted THEN <<"uid", Data(p).username>> ELSE boundDN
  /\ UNCHANGED <<account, mail, fullname, memberOf>>

-------------------------------------------------------------------------------
(* Searching, which only root is allowed. Searches change nothing, so one at a time
   is enough (bound). *)

Names == ({"uid"} \X Uids) \cup ({"cn"} \X GroupNames)
Nothing == [groups |-> {}, users |-> {}, members |-> {}, usernames |-> {}, mails |-> {},
            names |-> <<>>]

SearchDN(p) ==
  /\ Arrives(p, "directory")
  /\ boundDN = ROOT
  /\ \A q \in Requests : ~At(q, "search")
  /\ \E s \in Searches :
       Accept(p, {"entry"} \X Names, "search",
              [search |-> s, todo |-> {"groups", "users"}, read |-> Nothing])
  /\ UNCHANGED directoryVars

(* A read of two that run beside each other is answered, and the next are sent. *)
Reads(p, query, next, field, rows) ==
  /\ At(p, "search")
  /\ query \in Data(p).todo
  /\ Go(p, "search",
        [search |-> Data(p).search, todo |-> (Data(p).todo \ {query}) \cup next,
         read |-> [Data(p).read EXCEPT ![field] = rows]])
  /\ UNCHANGED directoryVars

FindGroups(p) ==
  Reads(p, "groups", {"members"}, "groups", GroupsToFind(Data(p).search))
PopulateUsers(p) ==
  Reads(p, "members", {"usernames"}, "members",
        {m \in memberOf : m[2] \in Data(p).read.groups})
ProfileIdUsernameMap(p) ==
  Reads(p, "usernames", {}, "usernames",
        {n \in (DOMAIN account) \X Owners :
           account[n[1]].profile = n[2] /\ \E m \in Data(p).read.members : m[1] = n[2]})
FindUsers(p) ==
  Reads(p, "users", {"profiles", "names"}, "users", UsersToFind(Data(p).search))
ProfileMap(p) == Reads(p, "profiles", {}, "mails", mail)
ProfilesNameMap(p) == Reads(p, "names", {}, "names", fullname)

(* What was read of a group's members, and which of the entries read are sent.
   toLdapObject: a user without a profile, name or address has no entry. The profile
   of a user never changes. *)
UidsIn(r, g) == {n[1] : n \in {n \in r.usernames : <<n[2], g>> \in r.members}}

UsersIn(s, r) ==
  {u \in r.users :
     /\ account[u].profile \in r.mails
     /\ r.names[account[u].profile] # NoName
     /\ Sends(s, <<"uid", u>>, UserAttributes(u, r.names[account[u].profile]))}
GroupsIn(s, r) ==
  {g \in r.groups : Sends(s, <<"cn", g>>, GroupAttributes(g, UidsIn(r, g)))}
StaticIn(s) == {dn \in Static : Sends(s, dn, StaticAttributes(dn))}

SendEntries(p) ==
  /\ At(p, "search")
  /\ Data(p).todo = {}
  /\ LET s == Data(p).search
         r == Data(p).read IN
     Go(p, "answered",
        [search |-> s,
         sent |-> ({"uid"} \X UsersIn(s, r)) \cup ({"cn"} \X GroupsIn(s, r)) \cup StaticIn(s)])
  /\ UNCHANGED directoryVars

EndSearch(p) ==
  /\ At(p, "answered") \/ At(p, "bound")
  /\ Finish(p)
  /\ UNCHANGED directoryVars

-------------------------------------------------------------------------------
(* What others write. The groups a profile is in change from outside. *)

EntriesOf(o) ==
  {EntryOf(u) : u \in {u \in DOMAIN account : account[u].profile = o}}
    \cup {<<"entry", <<"cn", m[2]>>>> : m \in {m \in memberOf : m[1] = o}}

CreateLocalUser(p) ==
  /\ Arrives(p, "directory")
  /\ \E u \in Uids \ DOMAIN account, w \in Passwords :
       \E o \in Owners \ {account[v].profile : v \in DOMAIN account} :
         /\ account' = Put(account, u, [profile |-> o, password |-> w, disabled |-> FALSE])
         /\ Serve(p, EntriesOf(o) \cup {EntryOf(u), PasswordOf(u)})
  /\ UNCHANGED <<boundDN, mail, fullname, memberOf>>

UpdateContacts(p) ==
  /\ Arrives(p, "directory")
  /\ \E o \in Owners :
       /\ mail' \in {mail \cup {o}, mail \ {o}}
       /\ Serve(p, EntriesOf(o))
  /\ UNCHANGED <<boundDN, account, fullname, memberOf>>

UpdateProfileName(p) ==
  /\ Arrives(p, "directory")
  /\ \E o \in Owners, name \in FullNames :
       /\ fullname' = [fullname EXCEPT ![o] = name]
       /\ Serve(p, EntriesOf(o))
  /\ UNCHANGED <<boundDN, account, mail, memberOf>>

ChangeGroups(p) ==
  /\ Arrives(p, "directory")
  /\ \E m \in Owners \X GroupNames :
       /\ memberOf' \in {memberOf \cup {m}, memberOf \ {m}}
       /\ Serve(p, {<<"entry", <<"cn", m[2]>>>>})
  /\ UNCHANGED <<boundDN, account, mail, fullname>>

(* PATCH users/local/password: the user is read by profile, the current password is
   verified and the new one hashed, and the row is updated by user name. *)
ChangePassword(p) ==
  /\ Arrives(p, "directory")
  /\ \E u \in DOMAIN account, w, new \in Passwords :
       Accept(p, {PasswordOf(u)}, "verifyCurrent",
              [username |-> u, current |-> w, new |-> new])
  /\ UNCHANGED directoryVars

VerifyCurrent(p) ==
  /\ At(p, "verifyCurrent")
  /\ IF account[Data(p).username].password = Data(p).current
       THEN Go(p, "updatePassword", Data(p))
       ELSE Finish(p)
  /\ UNCHANGED directoryVars

UpdatePassword(p) ==
  /\ At(p, "updatePassword")
  /\ LET u == Data(p).username IN
     account' = Put(account, u, Edited(account[u], [password |-> Data(p).new]))
  /\ Finish(p)
  /\ UNCHANGED <<boundDN, mail, fullname, memberOf>>

DirectoryNext(p) ==
  \/ BindRoot(p) \/ BindDn(p) \/ SignInLocal(p) \/ EndBind(p)
  \/ SearchDN(p) \/ SendEntries(p) \/ EndSearch(p)
  \/ FindGroups(p) \/ PopulateUsers(p) \/ ProfileIdUsernameMap(p)
  \/ FindUsers(p) \/ ProfileMap(p) \/ ProfilesNameMap(p)
  \/ CreateLocalUser(p) \/ UpdateContacts(p) \/ UpdateProfileName(p) \/ ChangeGroups(p)
  \/ ChangePassword(p) \/ VerifyCurrent(p) \/ UpdatePassword(p)

-------------------------------------------------------------------------------
(* The entry of a name, as it is. *)
HasEntry(dn) ==
  IF dn[1] = "cn" THEN TRUE
  ELSE /\ dn[2] \in DOMAIN account
       /\ LET o == account[dn[2]].profile IN o \in mail /\ fullname[o] # NoName
Attributes(dn) ==
  IF dn[1] = "cn"
    THEN GroupAttributes(dn[2],
           {u \in DOMAIN account : <<account[u].profile, dn[2]>> \in memberOf})
    ELSE UserAttributes(dn[2], fullname[account[dn[2]].profile])

(* A disjunction one side of which names users or groups finds no others. *)
Narrowed(filter, attribute) ==
  filter.op = "or" /\ \E c, d \in filter.of :
    c[1] = attribute /\ c[2] # AnyValue /\ (d[1] # attribute \/ d[2] = AnyValue)

(* A search that nothing crossed which the entry of a user or group is made of sends
   it if it is asked for and the filter matches, although the filter is evaluated in
   parts by two databases; and sends none that is not asked for. A disjunction of
   which one side names entries is excepted, as is a filter that the base's own entry
   does not match, which the code ignores. A bind is granted if and only if the user
   is enabled and has the password, unless it was changed meanwhile. *)
DirectoryIsExact ==
  area = "directory" => \A p \in Requests :
    /\ At(p, "answered") =>
         LET s == Data(p).search IN
         \A dn \in Names : <<"entry", dn>> \notin crossed =>
           /\ dn \in Data(p).sent =>
                HasEntry(dn) /\ Sends(s, dn, Attributes(dn))
           /\ /\ HasEntry(dn) /\ Sends(s, dn, Attributes(dn))
              /\ Matches(s.filter, Attributes(dn))
              /\ ~Narrowed(s.filter, dn[1])
              => dn \in Data(p).sent
    /\ At(p, "bound") /\ PasswordOf(Data(p).username) \notin crossed =>
         LET u == Data(p).username IN
         Data(p).granted <=>
           /\ u \in DOMAIN account
           /\ ~account[u].disabled
           /\ account[u].password = Data(p).password
===============================================================================
