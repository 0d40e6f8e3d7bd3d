------------------------------- MODULE MCServer -------------------------------
(* Server with a few requests in each of its areas. *)
EXTENDS Server

MCConfigured == <<"upcoming", "starting">>

(* One recruitment that is active, or another besides. *)
MCSetting == [open |-> 1, close |-> 2, announce |-> 3, active |-> TRUE, touched |-> {}]
MCOldSettings ==
  {"s1" :> MCSetting, "s1" :> MCSetting @@ "s2" :> [MCSetting EXCEPT !.active = FALSE]}
MCNewDtos == {[open |-> 1, close |-> 2, announce |-> 3, active |-> b] : b \in BOOLEAN}
MCEditDto(announce, active) ==
  [open |-> None, close |-> None, announce |-> announce, active |-> active]
MCEditDtos == {MCEditDto(None, TRUE), MCEditDto(None, FALSE), MCEditDto(4, None)}

(* Two accounts have an e-mail address in common, and two are of Discord. *)
MCProviderOf == [g |-> "google", d |-> "discord", e |-> "discord", l |-> "gitlab"]
MCEmailOf == [g |-> "x", d |-> "x", e |-> "y", l |-> "x"]

(* Two members whose shortest user name is the same. *)
MCCandidates == [ann |-> <<"ab", "abo">>, bob |-> <<"ab", "abi">>]
MCStudent(who, id) == [profile |-> who, student |-> id, year |-> 1]
MCOldStudents ==
  {<<>>, <<MCStudent("ann", "s1"), MCStudent("ann", "s2")>>,
   <<MCStudent(NoProfile, "s3"), MCStudent("ann", "s1")>>}
MCOldUsers == {{}, {<<"ab", "bob">>}}

(* A guild with all its roles, and one without that of the last year. *)
MCRole(kind, of) == [kind |-> kind, of |-> of]
MCOldRoles ==
  <<MCRole("other", Outsider), MCRole("year", 1), MCRole("team", "t"), MCRole("all", "t"),
    MCRole("team", "u"), MCRole("all", "u")>>
MCOldGuilds == {MCOldRoles, Append(MCOldRoles, MCRole("year", 2))}

(* A member who changed her team, or left. *)
MCOldTeams == {<<"t", "u">>, <<"t", Outsider>>}

(* A role that everybody is asked for, and one to select. *)
MCRoleRow(m, c) == [mandatory |-> m, collection |-> c]
MCOldForms ==
  {[role |-> "m" :> MCRoleRow(TRUE, "c") @@ "r" :> MCRoleRow(FALSE, "d"), question |-> "q" :> "c"],
   [role |-> "m" :> MCRoleRow(TRUE, "c") @@ "r" :> MCRoleRow(FALSE, NoCollection),
    question |-> "q" :> "c" @@ "u" :> "c"]}

(* One answer, or two. *)
MCBodies == {<<item>> : item \in Items} \cup Items \X Items

(* Searches below a user, whose name the filter may or may not be about, and of a
   single entry. *)
MCSearch(scope, dn, op, of) ==
  [scope |-> scope, dn |-> dn, filter |-> [op |-> op, of |-> of]]
MCFilters ==
  {<<"simple", {<<"objectclass", "posixGroup">>}>>,
   <<"simple", {<<"uid", "ann">>}>>,
   <<"and", {<<"uid", AnyValue>>, <<"cn", "Ann">>}>>,
   <<"and", {<<"uid", "ann">>, <<"cn", "Ann">>}>>,
   <<"and", {<<"cn", "staff">>, <<"memberUid", "ann">>}>>,
   <<"or", {<<"uid", "ann">>, <<"uid", "bob">>}>>,
   <<"or", {<<"uid", "ann">>, <<"cn", "staff">>}>>}
MCSearches ==
  {MCSearch("sub", <<"uid", "bob">>, f[1], f[2]) : f \in MCFilters}
    \cup {MCSearch("base", dn, "and", {<<"uid", "bob">>, <<"cn", "staff">>}) :
            dn \in {<<"uid", "ann">>, <<"cn", "staff">>}}
MCAccount(who, off) == [profile |-> who, password |-> "old", disabled |-> off]
MCOldAccounts == {"ann" :> MCAccount("a", off) : off \in BOOLEAN}

(* What starts now, and what is ahead; and events whose windows these cut apart. *)
MCPlan(ahead, period, cut) ==
  [ahead |-> ahead, period |-> period, range |-> period, cut |-> cut]
MCPlans == {MCPlan(0, 2, 1), MCPlan(2, 4, 0)}
MCEvent(start, end, kind) == [start |-> start, end |-> end, kind |-> kind]
MCEvents ==
  {MCEvent(2, 8, "timed"), MCEvent(3, 6, "timed"), MCEvent(6, 8, "timed"),
   MCEvent(2, 4, "allDay"), MCEvent(4, 6, "interview")}
MCOldCalendars ==
  {[e \in Meetings |-> IF e = "x" THEN old ELSE MCEvent(2, 8, "timed")] : old \in MCEvents}

(* No step tells requests or roles apart. *)
Symmetry == Permutations(Requests) \cup Permutations(Roles)
===============================================================================
