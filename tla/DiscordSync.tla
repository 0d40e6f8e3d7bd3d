----------------------------- MODULE DiscordSync ------------------------------
(***************************************************************************)
(* The roles that a member has in the Discord guild (src/discord) follow    *)
(* from her teams (src/accounts/team): one role per year, one per team she  *)
(* was ever in, and one for the team she is in this year; her nickname      *)
(* begins with the emoji of her latest team. A sync reads both sides and    *)
(* then changes the nickname and one role at a time; syncs of one member    *)
(* overlap (a job, a message and a request may each start one).             *)
(*                                                                         *)
(* The member is a single one, with an English name and in one team a year  *)
(* at most; at first she has all roles but those that she is due. What      *)
(* others belong to gives a year and a team a role in the guild; Discord    *)
(* and MongoDB answer as they are at the time, except that the roles of the *)
(* guild are kept in a cache for some seconds. stale and synced are history *)
(* of the syncs since the last one that began when no other was under way.  *)
(***************************************************************************)
EXTENDS Requests

CONSTANTS
  TeamYears,  \* 1.. , in which the primary group has members
  Teams,      \* team roles that have an emoji
  Outsider,   \* the team of the member in a year she is in none
  RoleIds,    \* of roles of the guild, 1.. (bound)
  OldGuilds,  \* roles of the guild at the start: id -> name
  OldTeams    \* of the member at the start (bound)

VARIABLES
  teamOf, \* teams.members of the member: TeamYears -> team
  guild,  \* roles of the guild: id -> name
  cache,  \* of the roles of the guild
  held,   \* roles of the member in the guild
  emoji,  \* that her nickname begins with: of a team, or none for Outsider
  stale,  \* a sync read what has changed since, or a call failed
  synced  \* a sync ended

discordVars == <<teamOf, guild, cache, held, emoji, stale, synced>>

(* Names of roles: of a year, of a team, and of a team with the suffix (All). *)
SyncedNames ==
  [kind : {"year"}, of : TeamYears] \cup [kind : {"team", "all"}, of : Teams]
RoleNames == SyncedNames \cup {[kind |-> "other", of |-> Outsider]}

ASSUME DiscordAssumption ==
  /\ IsFiniteSet(TeamYears) /\ TeamYears \subseteq Nat \ {0}
  /\ OldTeams \subseteq [TeamYears -> Teams \cup {Outsider}]
  /\ \A old \in OldGuilds :
       DOMAIN old \subseteq RoleIds /\ \A r \in DOMAIN old : old[r] \in RoleNames

DiscordAwaits == {"readName", "setNickname", "readSync", "changeRoles", "createRoles"}

DiscordTypeOK ==
  /\ area = "discord" => pc \in StepsAmong(DiscordAwaits)
  /\ teamOf \in [TeamYears -> Teams \cup {Outsider}]
  /\ DOMAIN guild \subseteq RoleIds
  /\ \A r \in DOMAIN guild : guild[r] \in RoleNames
  /\ DOMAIN cache \subseteq DOMAIN guild
  /\ held \subseteq DOMAIN guild
  /\ emoji \in Teams \cup {Outsider}
  /\ stale \in BOOLEAN /\ synced \in BOOLEAN

-------------------------------------------------------------------------------
(* TeamService *)

YearsIn(teams) == {y \in TeamYears : teams[y] # Outsider}
Newest(years) == IF years = {} THEN 0 ELSE CHOOSE y \in years : \A z \in years : z <= y
LatestTeam(teams) == LET y == Newest(YearsIn(teams)) IN IF y = 0 THEN Outsider ELSE teams[y]

-------------------------------------------------------------------------------
(* triggerProfileRoleSync: the roles the member should have among roles, those of
   the guild; where no role is named after a year, 0 stands for no year at all. *)
SyncedRoles(roles) == {r \in DOMAIN roles : roles[r] \in SyncedNames}

Target(teams, latest, roles) ==
  LET guildYears == {roles[r].of : r \in {r \in DOMAIN roles : roles[r].kind = "year"}}
      isActiveCurrentYear == Newest(guildYears) = Newest(YearsIn(teams))
      names == [kind : {"year"}, of : YearsIn(teams)]
                 \cup [kind : {"all"}, of : {teams[y] : y \in YearsIn(teams)} \cup {latest}]
                 \cup [kind : {"team"}, of : IF isActiveCurrentYear THEN {latest} ELSE {}] IN
  {r \in SyncedRoles(roles) : roles[r] \in names}

Due == Target(teamOf, LatestTeam(teamOf), guild)

InitDiscord ==
  /\ cache = <<>> /\ stale = FALSE /\ synced = FALSE
  /\ IF area # "discord"
       THEN /\ guild = <<>> /\ teamOf = [y \in TeamYears |-> Outsider]
            /\ held = {} /\ emoji = Outsider
       ELSE /\ guild \in OldGuilds
            /\ teamOf \in OldTeams
            /\ held = DOMAIN guild \ Due
            /\ emoji = Outsider

Syncing == {p \in Requests : InFlight(p) /\ <<"member">> \in req[p].about}

(* A job of the queue, a message or a request. *)
TriggerProfileSync(p) ==
  /\ Arrives(p, "discord")
  /\ Accept(p, {<<"member">>}, "readName", <<>>)
  /\ stale' = (stale /\ Syncing # {})
  /\ synced' = (synced /\ Syncing # {})
  /\ UNCHANGED <<teamOf, guild, cache, held, emoji>>

(* triggerProfileNameSync: her English name with the emoji; *)
GetNickName(p) ==
  /\ At(p, "readName")
  /\ Go(p, "setNickname", [emoji |-> LatestTeam(teamOf)])
  /\ UNCHANGED discordVars

(* setNickname logs a failure. *)
SetNickname(p) ==
  /\ At(p, "setNickname")
  /\ \/ emoji' = Data(p).emoji /\ UNCHANGED stale
     \/ stale' = TRUE /\ UNCHANGED emoji
  /\ Go(p, "readSync", <<>>)
  /\ UNCHANGED <<teamOf, guild, cache, held, synced>>

(* getRoles: from the cache, or asked and cached. An empty guild is not cached
   apart: it has at least the role of everyone. *)
GetRoles(roles) ==
  IF cache # <<>> THEN roles = cache /\ UNCHANGED cache
  ELSE roles = guild /\ cache' = guild

(* The four queries are under way together. *)
ReadSync(p) ==
  /\ At(p, "readSync")
  /\ LET answer(query, result) ==
           query \notin DOMAIN Data(p) /\ Go(p, "readSync", Put(Data(p), query, result)) IN
     \/ answer("latest", LatestTeam(teamOf)) /\ UNCHANGED <<cache, stale>>
     \/ answer("teams", teamOf) /\ UNCHANGED <<cache, stale>>
     \/ answer("held", held) /\ UNCHANGED <<cache, stale>>
     \/ \E roles \in {guild, cache} :
          /\ answer("roles", roles)
          /\ GetRoles(roles)
          /\ stale' = (stale \/ roles # guild)
  /\ UNCHANGED <<teamOf, guild, held, emoji, synced>>

(* getUserById finds nobody: the sync of the roles ends without a change. *)
MemberNotFound(p) ==
  /\ At(p, "readSync")
  /\ "held" \notin DOMAIN Data(p)
  /\ Finish(p)
  /\ UNCHANGED discordVars

\* mutant: roles are never removed
AddOnly(p) ==
  /\ At(p, "readSync")
  /\ DOMAIN Data(p) = {"latest", "teams", "held", "roles"}
  /\ LET d == Data(p) IN
     Go(p, "changeRoles", [add |-> Target(d.teams, d.latest, d.roles) \ d.held, remove |-> {}])
  /\ UNCHANGED discordVars
PlanSync(p) ==
  /\ At(p, "readSync")
  /\ DOMAIN Data(p) = {"latest", "teams", "held", "roles"}
  /\ LET d == Data(p)
         target == Target(d.teams, d.latest, d.roles) IN
     Go(p, "changeRoles", [add |-> target \ d.held,
                           remove |-> (SyncedRoles(d.roles) \cap d.held) \ target])
  /\ UNCHANGED discordVars

(* addRoleToMember: one call after the other, whose failure is logged; *)
AddRole(p) ==
  /\ At(p, "changeRoles")
  /\ \E r \in Data(p).add :
       /\ \A s \in Data(p).add : r <= s
       /\ \/ held' = held \cup {r} /\ UNCHANGED stale
          \/ stale' = TRUE /\ UNCHANGED held
       /\ Go(p, "changeRoles", [Data(p) EXCEPT !.add = @ \ {r}])
  /\ UNCHANGED <<teamOf, guild, cache, emoji, synced>>

(* and then removeRoleFromMember. *)
RemoveRole(p) ==
  /\ At(p, "changeRoles")
  /\ Data(p).add = {}
  /\ \E r \in Data(p).remove :
       /\ \A s \in Data(p).remove : r <= s
       /\ \/ held' = held \ {r} /\ UNCHANGED stale
          \/ stale' = TRUE /\ UNCHANGED held
       /\ Go(p, "changeRoles", [Data(p) EXCEPT !.remove = @ \ {r}])
  /\ UNCHANGED <<teamOf, guild, cache, emoji, synced>>

EndSync(p) ==
  /\ At(p, "changeRoles")
  /\ Data(p) = [add |-> {}, remove |-> {}]
  /\ Finish(p)
  /\ synced' = TRUE
  /\ UNCHANGED <<teamOf, guild, cache, held, emoji, stale>>

(* What a sync is to bring about has changed. *)
Overtaken == stale' = (stale \/ Syncing # {}) /\ synced' = FALSE

-------------------------------------------------------------------------------
(* triggerRoleSyncAll: the guild gets the roles it lacks, *)
SyncGuildRoles(p) ==
  /\ Arrives(p, "discord")
  /\ \E roles \in {guild, cache} :
       /\ GetRoles(roles)
       /\ Accept(p, {<<"guild">>}, "createRoles",
                 [names |-> SyncedNames \ {roles[r] : r \in DOMAIN roles}])
  /\ UNCHANGED <<teamOf, guild, held, emoji, stale, synced>>

(* createRole: one after the other, and failures are logged. *)
CreateRole(p) ==
  /\ At(p, "createRoles")
  /\ \E name \in Data(p).names :
       /\ \/ /\ \E r \in RoleIds \ DOMAIN guild :
                  /\ \A s \in RoleIds \ DOMAIN guild : r <= s
                  /\ guild' = Put(guild, r, name)
             /\ Overtaken
          \/ UNCHANGED <<guild, stale, synced>>
       /\ Go(p, "createRoles", [names |-> Data(p).names \ {name}])
  /\ UNCHANGED <<teamOf, cache, held, emoji>>

EndGuildRoles(p) ==
  /\ At(p, "createRoles")
  /\ Data(p).names = {}
  /\ Finish(p)
  /\ UNCHANGED discordVars

-------------------------------------------------------------------------------
(* Somebody writes teams.members. *)
ChangeTeams(p) ==
  /\ Arrives(p, "discord")
  /\ \E y \in TeamYears, t \in Teams \cup {Outsider} :
       t # teamOf[y] /\ teamOf' = [teamOf EXCEPT ![y] = t]
  /\ Serve(p, {<<"teams">>})
  /\ Overtaken
  /\ UNCHANGED <<guild, cache, held, emoji>>

ExpireCache ==
  /\ area = "discord"
  /\ cache # <<>>
  /\ cache' = <<>>
  /\ UNCHANGED <<serverVars, teamOf, guild, held, emoji, stale, synced>>

DiscordNext(p) ==
  \/ TriggerProfileSync(p) \/ GetNickName(p) \/ SetNickname(p)
  \/ ReadSync(p) \/ MemberNotFound(p) \/ PlanSync(p)
  \/ AddRole(p) \/ RemoveRole(p) \/ EndSync(p)
  \/ SyncGuildRoles(p) \/ CreateRole(p) \/ EndGuildRoles(p) \/ ChangeTeams(p)

-------------------------------------------------------------------------------
(* Once a sync ended, the member has those of the synced roles that her teams give
   her, neither more nor less, and the emoji of the latest team, however it and
   others overlap, in whatever order their queries are answered, and wherever others
   die; unless a call of theirs failed, or teams or roles changed behind one. *)
SyncsConverge ==
  area = "discord" /\ synced /\ ~stale =>
    held \cap SyncedRoles(guild) = Due /\ emoji = LatestTeam(teamOf)
===============================================================================
