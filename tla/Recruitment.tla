----------------------------- MODULE Recruitment ------------------------------
(***************************************************************************)
(* The recruitments, one of them active (src/recruit/setting and context), *)
(* their applicants, and the roles these select, are offered and accept    *)
(* (src/recruit/applicant and role). What a change of roles does to the    *)
(* booked interview is in RecruitInterview.                                *)
(*                                                                         *)
(* Rows of recruit_settings and recruit_applicant_roles are functions of   *)
(* their ids; an id is never given twice. TypeORM's save reads the row     *)
(* again (a Load step here) and writes the columns in which the entity     *)
(* differs from what it has read then (a Write step). touched, named and   *)
(* issued are history: what was done to a recruitment by hand, which role  *)
(* an offer was made for, and for whom the ids were made, one by one.      *)
(***************************************************************************)
EXTENDS Requests

CONSTANTS
  Settings, \* ids of recruitments (bound)
  Profiles,
  Roles,
  MaxTime,  \* of the clock and of all dates (bound)
  OldSettings, \* tables of recruitments at the start (bound)
  NewDtos,   \* bodies of POST and of PUT recruit/settings (bound): None for a
  EditDtos,  \* field that is not sent
  Deadlines, \* offerExpireAt (bound)
  None       \* null, or nothing

VARIABLES
  now,
  setting,    \* recruit_settings
  applicants, \* recruit_applicants: pairs of a profile and a recruitment
  selected,   \* recruit_applicant_roles
  issued      \* whose the ids of these are, or were

recruitmentVars == <<now, setting, applicants, selected, issued>>

Times == 1..MaxTime
DateColumns == {"open", "close", "announce"}

Setting == [open : Times, close : Times, announce : Times, active : BOOLEAN,
            touched : SUBSET {"dates", "off"}]
ApplicantRole ==
  [applicant : Profiles \X Settings, rank : Nat, role : Roles, expires : Times \cup {None},
   answered : Times \cup {None}, accepted : BOOLEAN, named : Roles \cup {None}]

(* Recruitments, and what is sent about them, are as the DTOs and the columns are;
   one recruitment is active at the start. *)
ASSUME RecruitmentAssumption ==
  /\ None \notin Settings /\ None \notin BOOLEAN
  /\ MaxTime \in Nat \ {0} /\ Deadlines \subseteq Times
  /\ \A table \in OldSettings :
       /\ DOMAIN table \subseteq Settings
       /\ \A s \in DOMAIN table : table[s] \in Setting /\ table[s].touched = {}
       /\ \E s \in DOMAIN table : \A t \in DOMAIN table : table[t].active <=> t = s
  /\ NewDtos \subseteq [open : Times, close : Times, announce : Times, active : BOOLEAN]
  /\ EditDtos \subseteq [open : Times \cup {None}, close : Times \cup {None},
                         announce : Times \cup {None}, active : BOOLEAN \cup {None}]

RecruitmentAwaits ==
  {"deactivate", "insertSetting", "loadSetting", "writeSetting", "insertApplicant",
   "selectRoles", "findSelected", "loadSelected", "writeSelected", "offerApplicantRole",
   "decideOffer", "checkReady", "findRole", "writeAnswer"}

RecruitmentTypeOK ==
  /\ area = "recruitment" => pc \in StepsAmong(RecruitmentAwaits)
  /\ now \in Times
  /\ DOMAIN setting \subseteq Settings
  /\ \A s \in DOMAIN setting : setting[s] \in Setting
  /\ applicants \subseteq Profiles \X Settings
  /\ issued \in Seq(Profiles \X Settings)
  /\ DOMAIN selected \subseteq DOMAIN issued
  /\ \A r \in DOMAIN selected : selected[r] \in ApplicantRole

Active == {s \in DOMAIN setting : setting[s].active}
RolesOf(a) == {r \in DOMAIN selected : selected[r].applicant = a}

(* A new row. *)
NewRole(a, role, rank) ==
  [applicant |-> a, rank |-> rank, role |-> role, expires |-> None,
   answered |-> None, accepted |-> FALSE, named |-> None]

(* Somebody may have applied, selected roles, been offered and accepted them. *)
InitRecruitment ==
  IF area # "recruitment"
    THEN now = 1 /\ setting = <<>> /\ applicants = {} /\ selected = <<>> /\ issued = <<>>
    ELSE /\ now \in Times
         /\ setting \in OldSettings
         /\ applicants \in SUBSET (Profiles \X DOMAIN setting)
         /\ \/ selected = <<>> /\ issued = <<>>
            \/ \E a \in applicants, deadline \in Deadlines \cup {None},
                  roles \in {<<r>> : r \in Roles} \cup {rs \in Roles \X Roles : rs[1] # rs[2]} :
                 /\ issued = [i \in 1..Len(roles) |-> a]
                 /\ \E answer \in {None} \cup
                     {t \in Deadlines \cap {deadline} : setting[a[2]].announce <= t /\ t <= now} :
                   selected = [i \in 1..Len(roles) |->
                     [NewRole(a, roles[i], i - 1) EXCEPT
                        !.expires = deadline,
                        !.answered = IF i = 1 THEN answer ELSE None,
                        !.accepted = i = 1 /\ answer # None]]

-------------------------------------------------------------------------------
(* RecruitSettingService *)

DatesInOrder(s) == s.open < s.close /\ s.close < s.announce

(* create: a recruitment that is to be active turns off the others first. The
   context middleware, which serves this route too, finds some recruitment: the
   active one, or the one in the header. *)
CreateSetting(p) ==
  /\ Arrives(p, "recruitment")
  /\ DOMAIN setting # {}
  /\ \E dto \in NewDtos :
       /\ DatesInOrder(dto)
       /\ Accept(p, {<<"settings">>},
            IF dto.active THEN "deactivate" ELSE "insertSetting",
            [id |-> None, edits |-> {},
             entity |-> [open |-> dto.open, close |-> dto.close, announce |-> dto.announce,
                         active |-> dto.active, touched |-> {}]])
  /\ UNCHANGED recruitmentVars

(* update: the row is read, and the fields that were sent replace its own. *)
Given(field, column) == IF field = None THEN column ELSE field
DatesSent(dto) == dto.open # None \/ dto.close # None \/ dto.announce # None

UpdateSetting(p) ==
  /\ Arrives(p, "recruitment")
  /\ \E s \in DOMAIN setting, dto \in EditDtos :
       LET row == setting[s]
           entity == [open |-> Given(dto.open, row.open), close |-> Given(dto.close, row.close),
                      announce |-> Given(dto.announce, row.announce),
                      active |-> Given(dto.active, row.active), touched |-> {}]
           edits == {e \in {"dates", "off"} :
                       IF e = "dates" THEN DatesSent(dto) ELSE dto.active = FALSE} IN
       /\ DatesSent(dto) => DatesInOrder(entity)
       /\ Accept(p, {<<"settings">>},
            IF dto.active = TRUE THEN "deactivate" ELSE "loadSetting",
            [id |-> s, edits |-> edits, entity |-> entity])
  /\ UNCHANGED recruitmentVars

(* deactivateOtherSettings: one statement *)
\* mutant: the others stay active
DeactivateNone(p) ==
  /\ At(p, "deactivate")
  /\ Go(p, IF Data(p).id = None THEN "insertSetting" ELSE "loadSetting", Data(p))
  /\ UNCHANGED recruitmentVars
Deactivate(p) ==
  /\ At(p, "deactivate")
  /\ setting' = [s \in DOMAIN setting |-> [setting[s] EXCEPT !.active = FALSE]]
  /\ Go(p, IF Data(p).id = None THEN "insertSetting" ELSE "loadSetting", Data(p))
  /\ UNCHANGED <<now, applicants, selected, issued>>

InsertSetting(p) ==
  /\ At(p, "insertSetting")
  /\ \E s \in Settings \ DOMAIN setting : setting' = Put(setting, s, Data(p).entity)
  /\ Finish(p)
  /\ UNCHANGED <<now, applicants, selected, issued>>

(* save *)
LoadSetting(p) ==
  /\ At(p, "loadSetting")
  /\ LET d == Data(p)
         differ == {c \in DateColumns \cup {"active"} : d.entity[c] # setting[d.id][c]} IN
     Go(p, "writeSetting",
        [id |-> d.id, edits |-> d.edits, columns |-> [c \in differ |-> d.entity[c]]])
  /\ UNCHANGED recruitmentVars

WriteSetting(p) ==
  /\ At(p, "writeSetting")
  /\ LET d == Data(p)
         row == Edited(setting[d.id], d.columns) IN
     setting' = [setting EXCEPT ![d.id] = [row EXCEPT !.touched = @ \cup d.edits]]
  /\ Finish(p)
  /\ UNCHANGED <<now, applicants, selected, issued>>

-------------------------------------------------------------------------------
(* The context of a request of profile who: RecruitContextMiddleware reads the
   recruitment, and then her row as its applicant. *)

(* findOne may find any of several active ones. *)
Found(header) == IF header = None THEN Active ELSE {header} \cap DOMAIN setting

InContext(p, who, step, asked) ==
  \E header \in Settings \cup {None} : \E s \in Found(header) :
    Accept(p, {<<"applicant", who, s>>}, step,
           [applicant |-> <<who, s>>, setting |-> setting[s], asked |-> asked])

(* isRegistrationOpenOrThrow and isAnnounced look at the row the context holds. *)
\* mutant: the dates are not compared
IsRegistrationOpenAlways(s) == TRUE
IsRegistrationOpen(s) == s.open <= now /\ now <= s.close
\* mutant: the date of closing is taken
IsAnnouncedAtClose(s) == now >= s.close
IsAnnounced(s) == now >= s.announce

-------------------------------------------------------------------------------
(* POST recruit/applicants: createApplicant. Its findOne is called with the two
   ids in the places of two others, and finds nobody; the unique constraint
   refuses a second row. *)
CreateApplicant(p) ==
  /\ Arrives(p, "recruitment")
  /\ \E who \in Profiles : InContext(p, who, "insertApplicant", <<>>)
  /\ UNCHANGED recruitmentVars

InsertApplicant(p) ==
  /\ At(p, "insertApplicant")
  /\ applicants' = applicants \cup {Data(p).applicant}
  /\ Finish(p)
  /\ UNCHANGED <<now, setting, selected, issued>>

-------------------------------------------------------------------------------
(* PUT recruit/roles: selectRoles *)

SelectRoles(p) ==
  /\ Arrives(p, "recruitment")
  /\ \E who \in Profiles, roles \in {<<>>} \cup (Roles \X Roles) \cup {<<r>> : r \in Roles} :
       InContext(p, who, "selectRoles", roles)
  /\ UNCHANGED recruitmentVars

BeginSelect(p) ==
  /\ At(p, "selectRoles")
  /\ IF Data(p).applicant \in applicants /\ IsRegistrationOpen(Data(p).setting)
       THEN Go(p, "findSelected", [applicant |-> Data(p).applicant, roles |-> Data(p).asked])
       ELSE Finish(p)
  /\ UNCHANGED recruitmentVars

(* The rows in the order of their ranks (which start at 0). *)
Ranked(a) == {s \in [1..Cardinality(RolesOf(a)) -> RolesOf(a)] :
                \A i, j \in DOMAIN s : i < j => /\ s[i] # s[j]
                                                /\ selected[s[i]].rank <= selected[s[j]].rank}

(* The transaction reads the rows. The object of each rank gets the new role of
   that rank and keeps everything else; ranks without a row get a new object, and
   an id; rows of higher ranks are deleted. *)
FindSelected(p) ==
  /\ At(p, "findSelected")
  /\ \E found \in Ranked(Data(p).applicant) :
       LET d == Data(p)
           missing == Len(d.roles) - Len(found)
           object(i) == IF i <= Len(found)
             THEN [id |-> found[i], row |-> [selected[found[i]] EXCEPT
                     !.rank = i - 1, !.role = d.roles[i]]]
             ELSE [id |-> Len(issued) + i - Len(found),
                   row |-> NewRole(d.applicant, d.roles[i], i - 1)] IN
       /\ Go(p, "loadSelected",
             [applicant |-> d.applicant,
              objects |-> [i \in 1..Len(d.roles) |-> object(i)],
              removed |-> {found[i] : i \in (Len(d.roles) + 1)..Len(found)}])
       /\ issued' = issued \o [i \in 1..missing |-> d.applicant]
  /\ UNCHANGED <<now, setting, applicants, selected>>

(* save reads the rows of the objects again; one that is gone is inserted. *)
Columns == {"rank", "role", "expires", "answered", "accepted"}
LoadSelected(p) ==
  /\ At(p, "loadSelected")
  /\ LET d == Data(p)
         stored(o) == o.id \in DOMAIN selected
         differ(o) == {c \in Columns : o.row[c] # selected[o.id][c]}
         change(o) == [id |-> o.id, insert |-> ~stored(o), row |-> o.row,
                       columns |-> IF stored(o) THEN differ(o) ELSE {}] IN
     Go(p, "writeSelected",
        [applicant |-> d.applicant, removed |-> d.removed,
         changes |-> [i \in DOMAIN d.objects |-> change(d.objects[i])]])
  /\ UNCHANGED recruitmentVars

(* The deletes, inserts and updates, in this order and one after the other, and
   the commit. Ids are unique, and the constraint that an applicant has a role once
   holds after each of them, or the transaction fails. *)
Unique(rows) ==
  \A r1, r2 \in DOMAIN rows :
    r1 # r2 => <<rows[r1].applicant, rows[r1].role>> # <<rows[r2].applicant, rows[r2].role>>

WriteSelected(p) ==
  /\ At(p, "writeSelected")
  /\ LET changes == Data(p).changes
         kept == DOMAIN selected \ Data(p).removed
         inserted == {changes[i].id : i \in {i \in DOMAIN changes : changes[i].insert}}
         change(r) == changes[CHOOSE i \in DOMAIN changes : changes[i].id = r]
         updates(n) == {changes[i].id : i \in {i \in DOMAIN changes : i <= n /\ ~changes[i].insert}}
         (* after the updates of the first n *)
         table(n) ==
           [r \in kept \cup inserted |->
              IF r \in inserted THEN change(r).row
              ELSE IF r \in updates(n)
                THEN Edited(selected[r], [c \in change(r).columns |-> change(r).row[c]])
              ELSE selected[r]] IN
     selected' = IF kept \cap inserted = {} /\ \A n \in 0..Len(changes) : Unique(table(n))
                   THEN table(Len(changes)) ELSE selected
  /\ Finish(p)
  /\ UNCHANGED <<now, setting, applicants, issued>>

-------------------------------------------------------------------------------
(* PATCH recruit/applicants/:id/offer, by a moderator who may: getApplicationRole *)
OfferApplicant(p) ==
  /\ Arrives(p, "recruitment")
  /\ \E r \in DOMAIN selected, deadline \in Deadlines \cup {None} :
       LET a == selected[r].applicant IN
       Accept(p, {<<"applicant", a[1], a[2]>>}, "offerApplicantRole",
              [applicant |-> a, row |-> r, role |-> selected[r].role, expires |-> deadline])
  /\ UNCHANGED recruitmentVars

(* offerApplicantRole: an update by id. named: once she can no longer select *)
OfferApplicantRole(p) ==
  /\ At(p, "offerApplicantRole")
  /\ LET d == Data(p) IN
     selected' = [r \in DOMAIN selected |->
       IF r # d.row THEN selected[r]
       ELSE [selected[r] EXCEPT
               !.expires = d.expires, !.answered = None, !.accepted = FALSE,
               !.named = IF d.expires # None /\ now > setting[selected[r].applicant[2]].close
                           THEN d.role ELSE None]]
  /\ Finish(p)
  /\ UNCHANGED <<now, setting, applicants, issued>>

(* PATCH recruit/applicants/me/offer *)
DecideOffer(p) ==
  /\ Arrives(p, "recruitment")
  /\ \E who \in Profiles, role \in Roles, accept \in BOOLEAN :
       InContext(p, who, "decideOffer", [role |-> role, accept |-> accept])
  /\ UNCHANGED recruitmentVars

BeginDecide(p) ==
  /\ At(p, "decideOffer")
  /\ LET d == Data(p) IN
     IF IsAnnounced(d.setting) /\ d.applicant \in applicants
       THEN Go(p, IF d.asked.accept THEN "checkReady" ELSE "findRole",
               [applicant |-> d.applicant, role |-> d.asked.role, accept |-> d.asked.accept])
       ELSE Finish(p)
  /\ UNCHANGED recruitmentVars

(* checkApplicantReadyToAcceptOfferOrThrow *)
\* mutant: an accepted offer is not looked for
CheckNothing(p) ==
  /\ At(p, "checkReady")
  /\ Go(p, "findRole", Data(p))
  /\ UNCHANGED recruitmentVars
CheckReady(p) ==
  /\ At(p, "checkReady")
  /\ IF \E r \in RolesOf(Data(p).applicant) : selected[r].accepted
       THEN Finish(p)
       ELSE Go(p, "findRole", Data(p))
  /\ UNCHANGED recruitmentVars

(* getApplicationRole and checkApplicantOfferOrThrow *)
ApplicationRoles(a, role) == {r \in RolesOf(a) : selected[r].role = role}

FindRole(p) ==
  /\ At(p, "findRole")
  /\ LET d == Data(p)
         offered == {r \in ApplicationRoles(d.applicant, d.role) :
                       selected[r].expires # None /\ selected[r].expires >= now} IN
     \/ \E r \in offered : Go(p, "writeAnswer",
                              [applicant |-> d.applicant, row |-> r, accept |-> d.accept,
                               at |-> now])
     \/ offered = {} /\ Finish(p)
  /\ UNCHANGED recruitmentVars

(* decideOffer: an update by id *)
WriteAnswer(p) ==
  /\ At(p, "writeAnswer")
  /\ LET d == Data(p) IN
     selected' = [r \in DOMAIN selected |->
       IF r # d.row THEN selected[r]
       ELSE [selected[r] EXCEPT !.accepted = d.accept, !.answered = d.at]]
  /\ Finish(p)
  /\ UNCHANGED <<now, setting, applicants, issued>>

-------------------------------------------------------------------------------
PassTime ==
  /\ area = "recruitment"
  /\ now < MaxTime
  /\ now' = now + 1
  /\ UNCHANGED <<serverVars, setting, applicants, selected, issued>>

RecruitmentNext(p) ==
  \/ CreateSetting(p) \/ UpdateSetting(p) \/ Deactivate(p) \/ InsertSetting(p)
  \/ LoadSetting(p) \/ WriteSetting(p)
  \/ CreateApplicant(p) \/ InsertApplicant(p)
  \/ SelectRoles(p) \/ BeginSelect(p) \/ FindSelected(p) \/ LoadSelected(p) \/ WriteSelected(p)
  \/ OfferApplicant(p) \/ OfferApplicantRole(p)
  \/ DecideOffer(p) \/ BeginDecide(p) \/ CheckReady(p) \/ FindRole(p) \/ WriteAnswer(p)

-------------------------------------------------------------------------------
(* Properties. *)

(* At most one recruitment is active; and once one is, one stays active, so that
   requests without a header have a context. That is between the requests of
   moderators who change recruitments one at a time, none of which died half
   way, and until one of them turns the active recruitment off by hand. *)
OneRecruitmentIsActive ==
  area = "recruitment" /\ <<"settings">> \notin crossed =>
    /\ Cardinality(Active) <= 1
    /\ \/ Active # {}
       \/ <<"settings">> \in broken
       \/ \E p \in Requests : <<"settings">> \in req[p].about
       \/ \E s \in DOMAIN setting : "off" \in setting[s].touched

Subject(r) == <<"applicant", selected[r].applicant[1], selected[r].applicant[2]>>

(* An applicant accepts at most one offer, unless two requests about her are
   under way at once; requests that die, offers that are renewed or taken back
   and roles selected again do not matter. *)
OneOfferIsAccepted ==
  \A r1, r2 \in DOMAIN selected :
    /\ selected[r1].applicant = selected[r2].applicant
    /\ selected[r1].accepted /\ selected[r2].accepted
    /\ Subject(r1) \notin crossed
    => r1 = r2

DatesStand(r) == "dates" \notin setting[selected[r].applicant[2]].touched

(* The rows of selected roles are reused by rank, with the offers they carry. But
   an offer that is made after the registration closed is still for the role it
   was made for, unless requests about the applicant crossed or the dates of
   the recruitment were moved. *)
OffersKeepTheirRole ==
  \A r \in DOMAIN selected :
    selected[r].named # None /\ DatesStand(r) /\ Subject(r) \notin crossed =>
      selected[r].role = selected[r].named

(* Every answer was given after the announcement, whatever requests cross, and
   to an offer that had not expired, unless they do. *)
AnswersAreInTime ==
  \A r \in DOMAIN selected :
    selected[r].answered # None /\ DatesStand(r) =>
      /\ setting[selected[r].applicant[2]].announce <= selected[r].answered
      /\ Subject(r) \notin crossed =>
           selected[r].expires # None /\ selected[r].answered <= selected[r].expires
===============================================================================
