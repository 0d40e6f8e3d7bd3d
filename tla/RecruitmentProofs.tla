--------------------------- MODULE RecruitmentProofs ---------------------------
(***************************************************************************)
(* The recruitments, and the offers of their applicants, for any number of *)
(* recruitments, applicants, roles and requests. Three things can disturb  *)
(* what a handler has read: a step of another request about recruitments,  *)
(* one about the same applicant, and the clock. The first two are excluded *)
(* while their subject is not crossed; what must hold beyond that only     *)
(* depends on columns that never change again, or change with a mark.      *)
(***************************************************************************)
EXTENDS ServerProofs, SequenceTheorems

LEMMA RecruitmentSteps ==
  ASSUME [Next]_vars
  PROVE  \/ area = "recruitment" /\ \E p \in Requests : RecruitmentNext(p)
         \/ area = "recruitment" /\ PassTime
         \/ UNCHANGED recruitmentVars /\ \E p \in Requests : Die(p)
         \/ area # "recruitment" /\ UNCHANGED <<area, recruitmentVars>>
         \/ UNCHANGED <<serverVars, recruitmentVars>>
<1>1. PassTime => area = "recruitment"
  BY DEF PassTime
<1>. QED
  BY <1>1 DEF Next, vars, Handle, Crash, Environment, ExpireToken, ExpireCache,
    ProcessPhoto, OutsideOfScheduler, OutsideOfRecruitment, OutsideOfRegistration,
    OutsideOfMembers, OutsideOfDiscordSync, OutsideOfAlbums, OutsideOfProfilePhotos,
    OutsideOfPhotoStream, OutsideOfForms, OutsideOfActivities, OutsideOfDirectory,
    OutsideOfAnnouncements, PassTick

(***************************************************************************)
(* Rows                                                                    *)
(***************************************************************************)

Marks == {"dates", "off"}

IsSetting(row) ==
  /\ DOMAIN row = {"open", "close", "announce", "active", "touched"}
  /\ row.open \in Times /\ row.close \in Times /\ row.announce \in Times
  /\ row.active \in BOOLEAN
  /\ row.touched \subseteq Marks

IsRole(row) ==
  /\ DOMAIN row = {"applicant", "rank", "role", "expires", "answered", "accepted", "named"}
  /\ row.expires \in Times \cup {None}
  /\ row.answered \in Times \cup {None}
  /\ row.accepted \in BOOLEAN

IsApplicant(a) == a \in Profiles \X Settings /\ a[2] \in DOMAIN setting

Of(a) == <<"applicant", a[1], a[2]>>

RowsAreRows ==
  /\ now \in Times
  /\ DOMAIN setting \subseteq Settings
  /\ \A s \in DOMAIN setting : IsSetting(setting[s])
  /\ issued \in Seq(Profiles \X Settings)
  /\ \A r \in DOMAIN issued : IsApplicant(issued[r])
  /\ DOMAIN selected \subseteq DOMAIN issued
  /\ \A r \in DOMAIN selected : IsRole(selected[r]) /\ selected[r].applicant = issued[r]

(***************************************************************************)
(* Requests about recruitments                                             *)
(***************************************************************************)

SettingSteps == {"deactivate", "insertSetting", "loadSetting", "writeSetting"}

Moved(id, edits) == "dates" \in edits \cup setting[id].touched

(* The dates that are about to be written are those that stand, or it is marked. *)
EntityAgrees(d) ==
  /\ d = [id |-> d.id, edits |-> d.edits, entity |-> d.entity]
  /\ IsSetting(d.entity) /\ d.entity.touched = {}
  /\ d.edits \subseteq Marks
  /\ d.id # None => d.id \in DOMAIN setting
  /\ d.id # None /\ ~Moved(d.id, d.edits) =>
       \A c \in DateColumns : d.entity[c] = setting[d.id][c]

ColumnsAgree(d) ==
  /\ d.id \in DOMAIN setting
  /\ d.edits \subseteq Marks
  /\ DOMAIN d.columns \subseteq DateColumns \cup {"active"}
  /\ \A c \in DOMAIN d.columns \cap DateColumns : d.columns[c] \in Times
  /\ "active" \in DOMAIN d.columns => d.columns["active"] \in BOOLEAN
  /\ DOMAIN d.columns \cap DateColumns # {} => Moved(d.id, d.edits)

(* A recruitment is active, or it is known why none is. *)
Standing ==
  \/ Active # {}
  \/ <<"settings">> \in broken
  \/ \E s \in DOMAIN setting : "off" \in setting[s].touched

(* What is to become active will be the only one, and what is not to be was turned
   off by hand. *)
Activates(p) ==
  LET d == Data(p) IN
  /\ At(p, "deactivate") => d.entity.active
  /\ At(p, "insertSetting") =>
       IF d.entity.active THEN Active = {} ELSE Standing
  /\ At(p, "loadSetting") =>
       /\ d.entity.active /\ ~setting[d.id].active => Active = {}
       /\ ~d.entity.active /\ setting[d.id].active => "off" \in d.edits
       /\ Standing \/ (d.entity.active /\ Active = {})
  /\ At(p, "writeSetting") =>
       IF "active" \in DOMAIN d.columns
         THEN IF d.columns["active"] THEN Active = {} ELSE "off" \in d.edits
         ELSE Standing

SettingAgrees(p) ==
  LET d == Data(p) IN
  /\ pc[p] \in SettingSteps => req[p].about = {<<"settings">>}
  /\ pc[p] \in {"deactivate", "insertSetting", "loadSetting"} => EntityAgrees(d)
  /\ At(p, "insertSetting") => d.id = None
  /\ At(p, "loadSetting") => d.id # None
  /\ At(p, "writeSetting") => ColumnsAgree(d)
  /\ <<"settings">> \notin crossed => Activates(p)

Idle == \A p \in Requests : <<"settings">> \notin req[p].about

OneActive ==
  <<"settings">> \notin crossed =>
    /\ \A s, t \in Active : s = t
    /\ Idle => Standing

(***************************************************************************)
(* Requests about applicants                                               *)
(***************************************************************************)

ApplicantSteps ==
  {"insertApplicant", "selectRoles", "findSelected", "loadSelected", "writeSelected",
   "offerApplicantRole", "decideOffer", "checkReady", "findRole", "writeAnswer"}

Steady(a) == "dates" \notin setting[a[2]].touched

(* An answer given at t, and one that could be given at t. *)
Timely(a, t) == t # None /\ Steady(a) => setting[a[2]].announce <= t
Open(a, t) == Steady(a) => setting[a[2]].announce <= t

SnapshotAgrees(a, row) ==
  /\ IsSetting(row)
  /\ Steady(a) => row.close = setting[a[2]].close /\ row.announce = setting[a[2]].announce

NoneNamed(a) ==
  Of(a) \notin crossed /\ Steady(a) => \A r \in RolesOf(a) : selected[r].named = None

NoneAccepted(a) ==
  Of(a) \notin crossed => \A r \in RolesOf(a) : ~selected[r].accepted

Unoffered(row) == row.named = None /\ row.answered = None /\ ~row.accepted

(* The object id, with row, that a request of a is about to save *)
ObjectAgrees(a, id, row) ==
  /\ id \in DOMAIN issued /\ issued[id] = a
  /\ IsRole(row) /\ row.applicant = a
  /\ Timely(a, row.answered)

Unchanged(id, row) ==
  IF id \in DOMAIN selected
    THEN /\ row.expires = selected[id].expires
         /\ row.answered = selected[id].answered
         /\ row.accepted = selected[id].accepted
    ELSE Unoffered(row)

ObjectsAgree(a, objects) ==
  /\ \A i \in DOMAIN objects :
       /\ ObjectAgrees(a, objects[i].id, objects[i].row)
       /\ Of(a) \notin crossed => Unchanged(objects[i].id, objects[i].row)
  /\ \A i, j \in DOMAIN objects : objects[i].id = objects[j].id => i = j

ChangesAgree(a, changes) ==
  /\ \A i \in DOMAIN changes :
       /\ ObjectAgrees(a, changes[i].id, changes[i].row)
       /\ changes[i].insert \in BOOLEAN
       /\ changes[i].columns \subseteq Columns
       /\ Of(a) \notin crossed =>
            IF changes[i].insert THEN Unoffered(changes[i].row)
                                 ELSE changes[i].columns \subseteq {"rank", "role"}
  /\ \A i, j \in DOMAIN changes : changes[i].id = changes[j].id => i = j

IsRowOf(a, r) == r \in DOMAIN issued /\ issued[r] = a

InTime(row, t) == row.expires # None /\ t <= row.expires

ApplicantAgrees(p) ==
  LET d == Data(p)
      a == d.applicant IN
  /\ pc[p] \in ApplicantSteps => IsApplicant(a) /\ req[p].about = {Of(a)}
  /\ pc[p] \in {"selectRoles", "decideOffer"} => SnapshotAgrees(a, d.setting)
  /\ At(p, "selectRoles") => Len(d.asked) \in Nat
  /\ At(p, "findSelected") => Len(d.roles) \in Nat
  /\ pc[p] \in {"findSelected", "loadSelected", "writeSelected"} => NoneNamed(a)
  /\ At(p, "loadSelected") => ObjectsAgree(a, d.objects)
  /\ At(p, "writeSelected") => ChangesAgree(a, d.changes)
  /\ pc[p] \in {"loadSelected", "writeSelected"} => \A r \in d.removed : IsRowOf(a, r)
  /\ At(p, "offerApplicantRole") =>
       /\ IsRowOf(a, d.row) /\ d.expires \in Times \cup {None}
       /\ Of(a) \notin crossed /\ d.row \in DOMAIN selected => selected[d.row].role = d.role
  /\ At(p, "decideOffer") => d.asked.accept \in BOOLEAN
  /\ pc[p] \in {"checkReady", "findRole", "writeAnswer"} => d.accept \in BOOLEAN
  /\ pc[p] \in {"checkReady", "findRole"} => Open(a, now)
  /\ pc[p] \in {"findRole", "writeAnswer"} => (d.accept => NoneAccepted(a))
  /\ At(p, "writeAnswer") =>
       /\ IsRowOf(a, d.row) /\ d.at \in Times /\ Open(a, d.at)
       /\ Of(a) \notin crossed /\ d.row \in DOMAIN selected => InTime(selected[d.row], d.at)

(***************************************************************************)
(* The invariant                                                           *)
(***************************************************************************)

RowAgrees(row) ==
  LET a == row.applicant IN
  /\ Timely(a, row.answered)
  /\ Of(a) \notin crossed /\ row.answered # None => InTime(row, row.answered)
  /\ Of(a) \notin crossed /\ Steady(a) /\ row.named # None =>
       row.role = row.named /\ now > setting[a[2]].close

RolesAgree ==
  /\ \A r \in DOMAIN selected : RowAgrees(selected[r])
  /\ \A r1, r2 \in DOMAIN selected :
       /\ selected[r1].applicant = selected[r2].applicant
       /\ Of(selected[r1].applicant) \notin crossed
       /\ selected[r1].accepted /\ selected[r2].accepted
       => r1 = r2

Underway(p) ==
  IF InFlight(p) THEN pc[p] \in SettingSteps \cup ApplicantSteps ELSE req[p].about = {}

Coherent ==
  /\ RowsAreRows /\ Sent /\ Alone /\ OneActive /\ RolesAgree
  /\ \A p \in Requests : Underway(p) /\ SettingAgrees(p) /\ ApplicantAgrees(p)

RecruitmentInv ==
  IF area = "recruitment" THEN Coherent ELSE setting = <<>> /\ selected = <<>>

(***************************************************************************)
(* What a step leaves as it was                                            *)
(***************************************************************************)

(* Dates only change with their mark. *)
SettingsStay ==
  \A s \in DOMAIN setting :
    /\ s \in DOMAIN setting'
    /\ setting[s].touched \subseteq setting'[s].touched
    /\ "dates" \notin setting'[s].touched =>
         /\ setting'[s].open = setting[s].open
         /\ setting'[s].close = setting[s].close
         /\ setting'[s].announce = setting[s].announce

IdsStay == \A r \in DOMAIN issued : r \in DOMAIN issued' /\ issued'[r] = issued[r]

LEMMA SameSettings == setting' = setting => SettingsStay
BY DEF SettingsStay

LEMMA SameIds == issued' = issued => IdsStay
BY DEF IdsStay

LEMMA NoSettingRequest ==
  ASSUME NEW p \in Requests, pc'[p] \notin SettingSteps
  PROVE  SettingAgrees(p)'
BY DEF SettingAgrees, SettingSteps, Activates, At

LEMMA NoApplicantRequest ==
  ASSUME NEW p \in Requests, pc'[p] \notin ApplicantSteps
  PROVE  ApplicantAgrees(p)'
BY DEF ApplicantAgrees, ApplicantSteps, At

LEMMA OtherSettingRequest ==
  ASSUME NEW q \in Requests, SettingAgrees(q), pc'[q] = pc[q], req'[q] = req[q],
         crossed \subseteq crossed', SettingsStay,
         <<"settings">> \notin crossed' /\ pc[q] \in SettingSteps =>
           setting' = setting /\ broken \subseteq broken'
  PROVE  SettingAgrees(q)'
<1>1. Data(q)' = Data(q) /\ \A step : At(q, step)' <=> At(q, step)
  BY DEF Data, At
<1>2. ASSUME NEW d, EntityAgrees(d)  PROVE EntityAgrees(d)'
  BY <1>2 DEF EntityAgrees, SettingsStay, Moved, DateColumns
<1>3. ASSUME NEW d, ColumnsAgree(d)  PROVE ColumnsAgree(d)'
  BY <1>3 DEF ColumnsAgree, SettingsStay, Moved
<1>4. <<"settings">> \notin crossed' => Activates(q)'
  BY <1>1 DEF SettingAgrees, Activates, SettingSteps, Standing, Active, At
<1>. QED  BY <1>1, <1>2, <1>3, <1>4 DEF SettingAgrees, SettingSteps

LEMMA StaySteady ==
  ASSUME SettingsStay, NEW a, IsApplicant(a)
  PROVE  /\ IsApplicant(a)'
         /\ Steady(a)' => /\ Steady(a)
                          /\ setting'[a[2]].announce = setting[a[2]].announce
                          /\ setting'[a[2]].close = setting[a[2]].close
BY DEF SettingsStay, IsApplicant, Steady

(* A request about another applicant, or about recruitments, while roles stay. *)
LEMMA OtherApplicantRequest ==
  ASSUME NEW q \in Requests, ApplicantAgrees(q), pc'[q] = pc[q], req'[q] = req[q],
         RowsAreRows, crossed \subseteq crossed', SettingsStay, IdsStay,
         selected' = selected, now' \in Times, now <= now'
  PROVE  ApplicantAgrees(q)'
<1>. DEFINE a == Data(q).applicant
<1>1. Data(q)' = Data(q) /\ \A step : At(q, step)' <=> At(q, step)
  BY DEF Data, At
<1>2. ASSUME NEW b, IsApplicant(b)
      PROVE  /\ IsApplicant(b)'
             /\ \A t : Timely(b, t) => Timely(b, t)'
             /\ \A t : Open(b, t) => Open(b, t)'
             /\ \A row : SnapshotAgrees(b, row) => SnapshotAgrees(b, row)'
             /\ NoneNamed(b) => NoneNamed(b)'
             /\ NoneAccepted(b) => NoneAccepted(b)'
             /\ Open(b, now) => Open(b, now)'
  <2>1. /\ IsApplicant(b)'
        /\ Steady(b)' => /\ Steady(b)
                         /\ setting'[b[2]].announce = setting[b[2]].announce
                         /\ setting'[b[2]].close = setting[b[2]].close
    BY <1>2, StaySteady
  <2>2. setting[b[2]].announce \in Times
    BY <1>2 DEF IsApplicant, RowsAreRows, IsSetting
  <2>3. Open(b, now) => Open(b, now)'
    BY <2>1, <2>2 DEF Open, RowsAreRows, Times
  <2>4. /\ \A t : Timely(b, t) => Timely(b, t)'
        /\ \A t : Open(b, t) => Open(b, t)'
        /\ \A row : SnapshotAgrees(b, row) => SnapshotAgrees(b, row)'
    BY <2>1 DEF Timely, Open, SnapshotAgrees
  <2>5. /\ NoneNamed(b) => NoneNamed(b)'
        /\ NoneAccepted(b) => NoneAccepted(b)'
    BY <2>1 DEF NoneNamed, NoneAccepted, RolesOf
  <2>. QED  BY <2>1, <2>3, <2>4, <2>5
<1>3. ASSUME NEW b, IsApplicant(b)
      PROVE  /\ \A objects : ObjectsAgree(b, objects) => ObjectsAgree(b, objects)'
             /\ \A changes : ChangesAgree(b, changes) => ChangesAgree(b, changes)'
             /\ \A r : IsRowOf(b, r) => IsRowOf(b, r)'
  <2>1. \A r : IsRowOf(b, r) => IsRowOf(b, r)'
    BY DEF IsRowOf, IdsStay
  <2>2. \A id, row : ObjectAgrees(b, id, row) => ObjectAgrees(b, id, row)'
    BY <1>2, <1>3 DEF ObjectAgrees, IdsStay
  <2>3. \A id, row : Unchanged(id, row)' <=> Unchanged(id, row)
    BY DEF Unchanged
  <2>. QED  BY <2>1, <2>2, <2>3 DEF ObjectsAgree, ChangesAgree
<1>4. pc[q] \in ApplicantSteps => IsApplicant(Data(q).applicant)
  BY DEF ApplicantAgrees
<1>5. CASE pc[q] \in ApplicantSteps
  BY <1>1, <1>2, <1>3, <1>4, <1>5 DEF ApplicantAgrees, At
<1>6. CASE pc[q] \notin ApplicantSteps
  BY <1>6, NoApplicantRequest
<1>. QED  BY <1>5, <1>6

(* Only rows of applicant a change. *)
OnlyOf(a) ==
  \A r \in DOMAIN issued :
    issued[r] # a =>
      /\ r \in DOMAIN selected' <=> r \in DOMAIN selected
      /\ r \in DOMAIN selected => selected'[r] = selected[r]

LEMMA OtherRoles ==
  ASSUME NEW q \in Requests, ApplicantAgrees(q), pc'[q] = pc[q], req'[q] = req[q],
         RowsAreRows, RowsAreRows', UNCHANGED <<crossed, setting, issued, now>>,
         NEW a, OnlyOf(a),
         pc[q] \in ApplicantSteps /\ Data(q).applicant = a => Of(a) \in crossed
  PROVE  ApplicantAgrees(q)'
<1>1. Data(q)' = Data(q) /\ \A step : At(q, step)' <=> At(q, step)
  BY DEF Data, At
<1>2. \A b : /\ IsApplicant(b)' <=> IsApplicant(b)
             /\ \A t : Timely(b, t)' <=> Timely(b, t)
             /\ \A t : Open(b, t)' <=> Open(b, t)
             /\ \A row : SnapshotAgrees(b, row)' <=> SnapshotAgrees(b, row)
             /\ Open(b, now)' <=> Open(b, now)
             /\ \A r : IsRowOf(b, r)' <=> IsRowOf(b, r)
  BY DEF IsApplicant, Timely, Open, SnapshotAgrees, Steady, IsRowOf
<1>3. \A b, id, row : ObjectAgrees(b, id, row)' <=> ObjectAgrees(b, id, row)
  BY <1>2 DEF ObjectAgrees
<1>4. ASSUME NEW b, b = a => Of(b) \in crossed
      PROVE  /\ NoneNamed(b) => NoneNamed(b)'
             /\ NoneAccepted(b) => NoneAccepted(b)'
             /\ \A objects : ObjectsAgree(b, objects) => ObjectsAgree(b, objects)'
             /\ \A changes : ChangesAgree(b, changes) => ChangesAgree(b, changes)'
  <2>1. \A changes : ChangesAgree(b, changes) => ChangesAgree(b, changes)'
    BY <1>3 DEF ChangesAgree
  <2>2. CASE Of(b) \in crossed
    BY <1>3, <2>1, <2>2 DEF NoneNamed, NoneAccepted, ObjectsAgree
  <2>3. CASE b # a
    <3>1. /\ RolesOf(b)' = RolesOf(b)
          /\ \A r \in RolesOf(b) : selected'[r] = selected[r]
      BY <2>3 DEF RolesOf, OnlyOf, RowsAreRows
    <3>2. /\ NoneNamed(b) => NoneNamed(b)'
          /\ NoneAccepted(b) => NoneAccepted(b)'
      BY <3>1 DEF NoneNamed, NoneAccepted, Steady
    <3>3. \A id, row : ObjectAgrees(b, id, row) /\ Unchanged(id, row) => Unchanged(id, row)'
      BY <2>3 DEF ObjectAgrees, Unchanged, OnlyOf
    <3>. QED  BY <1>3, <2>1, <3>2, <3>3 DEF ObjectsAgree
  <2>. QED  BY <1>4, <2>2, <2>3
<1>5. CASE pc[q] \in ApplicantSteps
  <2>. DEFINE b == Data(q).applicant
  <2>1. b = a => Of(b) \in crossed
    BY <1>5
  <2>2. /\ NoneNamed(b) => NoneNamed(b)'
        /\ NoneAccepted(b) => NoneAccepted(b)'
        /\ ObjectsAgree(b, Data(q).objects) => ObjectsAgree(b, Data(q).objects)'
        /\ ChangesAgree(b, Data(q).changes) => ChangesAgree(b, Data(q).changes)'
    BY <1>1, <1>4, <2>1
  <2>3. ASSUME NEW r, IsRowOf(b, r), Of(b) \notin crossed
        PROVE  /\ r \in DOMAIN selected' <=> r \in DOMAIN selected
               /\ r \in DOMAIN selected => selected'[r] = selected[r]
    BY <2>1, <2>3 DEF IsRowOf, OnlyOf
  <2>. QED  BY <1>1, <1>2, <1>5, <2>2, <2>3 DEF ApplicantAgrees, At
<1>6. CASE pc[q] \notin ApplicantSteps
  BY <1>6, NoApplicantRequest
<1>. QED  BY <1>5, <1>6

LEMMA SameRoles ==
  ASSUME RowsAreRows, RolesAgree, selected' = selected, SettingsStay,
         crossed \subseteq crossed', now' \in Times, now <= now'
  PROVE  RolesAgree'
<1>1. ASSUME NEW b, IsApplicant(b)
      PROVE  /\ Steady(b)' => /\ Steady(b)
                              /\ setting'[b[2]].announce = setting[b[2]].announce
                              /\ setting'[b[2]].close = setting[b[2]].close
             /\ setting[b[2]].close \in Times
  BY <1>1, StaySteady DEF IsApplicant, RowsAreRows, IsSetting
<1>2. \A r \in DOMAIN selected : IsApplicant(selected[r].applicant)
  BY DEF RowsAreRows
<1>3. ASSUME NEW row, RowAgrees(row), IsApplicant(row.applicant)
      PROVE  RowAgrees(row)'
  <2>. DEFINE b == row.applicant
  <2>1. /\ Steady(b)' => /\ Steady(b)
                         /\ setting'[b[2]].announce = setting[b[2]].announce
                         /\ setting'[b[2]].close = setting[b[2]].close
        /\ setting[b[2]].close \in Times
    BY <1>1, <1>3
  <2>2. Timely(b, row.answered) => Timely(b, row.answered)'
    BY <2>1 DEF Timely
  <2>3. now \in Times
    BY DEF RowsAreRows
  <2>. QED  BY <1>3, <2>1, <2>2, <2>3 DEF Times, RowAgrees
<1>. QED  BY <1>2, <1>3 DEF RolesAgree

LEMMA ChangedRoles ==
  ASSUME RowsAreRows, RolesAgree, UNCHANGED <<crossed, setting, issued, now>>,
         NEW a, OnlyOf(a), DOMAIN selected' \subseteq DOMAIN issued,
         \A r \in DOMAIN selected' :
           issued[r] = a =>
             IsRole(selected'[r]) /\ selected'[r].applicant = a /\ RowAgrees(selected'[r]),
         Of(a) \notin crossed =>
           \A r1, r2 \in DOMAIN selected' :
             /\ issued[r1] = a /\ issued[r2] = a
             /\ selected'[r1].accepted /\ selected'[r2].accepted
             => r1 = r2
  PROVE  RowsAreRows' /\ RolesAgree'
<1>1. \A r \in DOMAIN selected' :
        \/ issued[r] = a
        \/ r \in DOMAIN selected /\ selected'[r] = selected[r] /\ issued[r] # a
  BY DEF OnlyOf
<1>2. RowsAreRows'
  BY <1>1 DEF RowsAreRows, IsApplicant
<1>3. \A row : RowAgrees(row)' <=> RowAgrees(row)
  BY DEF RowAgrees, Timely, Steady
<1>4. \A r \in DOMAIN selected' : RowAgrees(selected'[r])
  BY <1>1 DEF RolesAgree
<1>5. \A r \in DOMAIN selected' : selected'[r].applicant = issued[r]
  BY <1>2 DEF RowsAreRows
<1>6. \A r \in DOMAIN selected : selected[r].applicant = issued[r]
  BY DEF RowsAreRows
<1>7. \A r1, r2 \in DOMAIN selected' :
       /\ selected'[r1].applicant = selected'[r2].applicant
       /\ Of(selected'[r1].applicant) \notin crossed'
       /\ selected'[r1].accepted /\ selected'[r2].accepted
       => r1 = r2
  BY <1>1, <1>5, <1>6 DEF RolesAgree
<1>. QED  BY <1>2, <1>3, <1>4, <1>7 DEF RolesAgree

(***************************************************************************)
(* Steps that only one request notices                                     *)
(***************************************************************************)

LEMMA OneActiveStays ==
  ASSUME OneActive, UNCHANGED setting, broken \subseteq broken', crossed \subseteq crossed',
         Idle' => Idle \/ <<"settings">> \in broken'
  PROVE  OneActive'
BY DEF OneActive, Standing, Active

LEMMA QuietStep ==
  ASSUME Coherent, NEW p \in Requests, Sent', Alone', Others(p), crossed \subseteq crossed',
         UNCHANGED <<now, setting, selected>>, IdsStay, RowsAreRows',
         broken \subseteq broken', Idle' => Idle \/ <<"settings">> \in broken',
         Underway(p)', SettingAgrees(p)', ApplicantAgrees(p)'
  PROVE  Coherent'
<1>1. SettingsStay /\ now \in Times /\ now <= now
  BY SameSettings DEF Coherent, RowsAreRows, Times
<1>2. OneActive' /\ RolesAgree'
  BY <1>1, OneActiveStays, SameRoles DEF Coherent
<1>3. ASSUME NEW q \in Requests, q # p
      PROVE  Underway(q)' /\ SettingAgrees(q)' /\ ApplicantAgrees(q)'
  <2>1. pc'[q] = pc[q] /\ req'[q] = req[q]
    BY <1>3 DEF Others
  <2>2. Underway(q)'
    BY <2>1 DEF Coherent, Underway, InFlight
  <2>3. SettingAgrees(q)'
    BY <1>1, <2>1, OtherSettingRequest DEF Coherent
  <2>4. ApplicantAgrees(q)'
    BY <1>1, <2>1, OtherApplicantRequest DEF Coherent
  <2>. QED  BY <2>2, <2>3, <2>4
<1>. QED  BY <1>2, <1>3 DEF Coherent

LEMMA AcceptQuietly ==
  ASSUME Coherent, NEW p \in Requests, At(p, "new"), NEW about, NEW step, NEW data,
         Accept(p, about, step, data), UNCHANGED recruitmentVars,
         step \in SettingSteps \cup ApplicantSteps, SettingAgrees(p)', ApplicantAgrees(p)'
  PROVE  Coherent'
<1>1. /\ Sent' /\ Others(p) /\ pc'[p] = step
      /\ Alone' /\ crossed \subseteq crossed' /\ broken' = broken
  BY AcceptStep, AcceptAlone DEF Coherent, Accept
<1>2. Underway(p)'
  BY <1>1 DEF Underway, InFlight, SettingSteps, ApplicantSteps
<1>3. req[p].about = {}
  BY DEF Coherent, Underway, InFlight, At
<1>4. Idle' => Idle
  BY <1>1, <1>3 DEF Idle, Others
<1>5. IdsStay /\ RowsAreRows'
  BY SameIds DEF Coherent, RowsAreRows, recruitmentVars, IsApplicant
<1>. QED  BY <1>1, <1>2, <1>4, <1>5, QuietStep DEF recruitmentVars

LEMMA GoQuietly ==
  ASSUME Coherent, NEW p \in Requests, InFlight(p), NEW step, NEW data,
         Go(p, step, data), UNCHANGED <<now, setting, selected>>, IdsStay, RowsAreRows',
         step \in SettingSteps \cup ApplicantSteps, SettingAgrees(p)', ApplicantAgrees(p)'
  PROVE  Coherent'
<1>1. /\ Sent' /\ Others(p) /\ pc'[p] = step /\ req'[p].about = req[p].about
      /\ Alone' /\ crossed' = crossed /\ broken' = broken
  BY GoStep, GoAlone DEF Coherent, Go
<1>2. Underway(p)'
  BY <1>1 DEF Underway, InFlight, SettingSteps, ApplicantSteps
<1>3. Idle' => Idle
  BY <1>1 DEF Idle, Others
<1>. QED  BY <1>1, <1>2, <1>3, QuietStep

(* A request about an applicant ends, or any dies. *)
LEMMA EndQuietly ==
  ASSUME Coherent, NEW p \in Requests, UNCHANGED <<now, setting, selected, issued>>,
         (Finish(p) /\ pc[p] \in ApplicantSteps) \/ Die(p)
  PROVE  Coherent'
<1>1. /\ Sent' /\ Others(p) /\ pc'[p] = "done" /\ Alone' /\ crossed' = crossed
  BY FinishAlone DEF Coherent
<1>2. req'[p] = Blank /\ broken \subseteq broken'
  BY DEF Coherent, Sent, Finish, Die
<1>3. Underway(p)' /\ SettingAgrees(p)' /\ ApplicantAgrees(p)'
  BY <1>1, <1>2, NoSettingRequest, NoApplicantRequest
     DEF Underway, InFlight, SettingSteps, ApplicantSteps, Blank
<1>4. IdsStay /\ RowsAreRows'
  BY SameIds DEF Coherent, RowsAreRows, IsApplicant
<1>5. Idle' => Idle \/ <<"settings">> \in broken'
  <2>1. CASE Die(p)
    BY <1>1, <2>1 DEF Idle, Others, Die
  <2>2. CASE pc[p] \in ApplicantSteps
    <3>1. req[p].about = {Of(Data(p).applicant)}
      BY <2>2 DEF Coherent, ApplicantAgrees
    <3>2. \A a : Of(a) # <<"settings">>
      BY DEF Of
    <3>. QED  BY <1>1, <3>1, <3>2 DEF Idle, Others
  <2>. QED  BY <2>1, <2>2
<1>. QED  BY <1>1, <1>2, <1>3, <1>4, <1>5, QuietStep

(***************************************************************************)
(* Recruitments                                                            *)
(***************************************************************************)

LEMMA ArrivesAlone ==
  ASSUME Coherent, NEW p \in Requests, At(p, "new"), NEW step, NEW data,
         Accept(p, {<<"settings">>}, step, data), <<"settings">> \notin crossed'
  PROVE  Standing /\ <<"settings">> \notin crossed
<1>1. crossed' = crossed \cup Shared({<<"settings">>})
  BY DEF Accept
<1>2. \A q \in Requests : InFlight(q) => <<"settings">> \notin req[q].about
  BY <1>1 DEF Shared
<1>3. Idle
  BY <1>2 DEF Idle, Coherent, Underway
<1>. QED  BY <1>1, <1>3 DEF Coherent, OneActive

LEMMA CreateSettingKeeps ==
  ASSUME Coherent, NEW p \in Requests, CreateSetting(p)
  PROVE  Coherent'
<1>. DEFINE data(dto) == [id |-> None, edits |-> {},
                          entity |-> [open |-> dto.open, close |-> dto.close,
                                      announce |-> dto.announce, active |-> dto.active,
                                      touched |-> {}]]
            step(dto) == IF dto.active THEN "deactivate" ELSE "insertSetting"
<1>1. PICK dto \in NewDtos : Accept(p, {<<"settings">>}, step(dto), data(dto))
  BY DEF CreateSetting
<1>2. /\ dto.open \in Times /\ dto.close \in Times /\ dto.announce \in Times
      /\ dto.active \in BOOLEAN
  BY RecruitmentAssumption
<1>3. At(p, "new") /\ UNCHANGED recruitmentVars
  BY DEF CreateSetting, Arrives
<1>4. pc'[p] = step(dto) /\ req'[p] = [about |-> {<<"settings">>}, data |-> data(dto)]
      /\ Data(p)' = data(dto)
  <2>. HIDE DEF step, data
  <2>. QED  BY <1>1, AcceptStep DEF Coherent, Data
<1>5. \A d : d = data(dto) => EntityAgrees(d)'
  BY <1>2 DEF EntityAgrees, IsSetting
<1>6. <<"settings">> \notin crossed' => Activates(p)'
  <2>1. <<"settings">> \notin crossed' => Standing
    BY <1>1, <1>3, ArrivesAlone
  <2>2. Standing' <=> Standing
    BY <1>1, <1>3 DEF Standing, Active, recruitmentVars, Accept
  <2>. QED  BY <1>4, <2>1, <2>2 DEF Activates, At
<1>7. SettingAgrees(p)'
  BY <1>4, <1>5, <1>6 DEF SettingAgrees, SettingSteps, At
<1>8. ApplicantAgrees(p)' /\ step(dto) \in SettingSteps
  BY <1>4, NoApplicantRequest DEF SettingSteps, ApplicantSteps
<1>. HIDE DEF data, step
<1>. QED  BY <1>1, <1>3, <1>7, <1>8, AcceptQuietly DEF data, step

LEMMA UpdateSettingKeeps ==
  ASSUME Coherent, NEW p \in Requests, UpdateSetting(p)
  PROVE  Coherent'
<1>. DEFINE entity(s, dto) ==
              [open |-> Given(dto.open, setting[s].open),
               close |-> Given(dto.close, setting[s].close),
               announce |-> Given(dto.announce, setting[s].announce),
               active |-> Given(dto.active, setting[s].active), touched |-> {}]
            edits(dto) == {e \in {"dates", "off"} :
                             IF e = "dates" THEN DatesSent(dto) ELSE dto.active = FALSE}
            step(dto) == IF dto.active = TRUE THEN "deactivate" ELSE "loadSetting"
            data(s, dto) == [id |-> s, edits |-> edits(dto), entity |-> entity(s, dto)]
<1>1. PICK s \in DOMAIN setting, dto \in EditDtos :
        Accept(p, {<<"settings">>}, step(dto), data(s, dto))
  BY DEF UpdateSetting
<1>. DEFINE e == entity(s, dto)
<1>2. /\ dto.open \in Times \cup {None} /\ dto.close \in Times \cup {None}
      /\ dto.announce \in Times \cup {None} /\ dto.active \in BOOLEAN \cup {None}
      /\ None \notin BOOLEAN
  BY RecruitmentAssumption
<1>3. At(p, "new") /\ UNCHANGED recruitmentVars
  BY DEF UpdateSetting, Arrives
<1>4. IsSetting(setting[s])
  BY DEF Coherent, RowsAreRows
<1>5. pc'[p] = step(dto) /\ req'[p] = [about |-> {<<"settings">>}, data |-> data(s, dto)]
      /\ Data(p)' = data(s, dto)
  <2>. HIDE DEF step, data
  <2>. QED  BY <1>1, AcceptStep DEF Coherent, Data
<1>6. IsSetting(e) /\ e.touched = {} /\ e.active = Given(dto.active, setting[s].active)
  BY <1>2, <1>4 DEF IsSetting, Given
<1>7. ~DatesSent(dto) => \A c \in DateColumns : e[c] = setting[s][c]
  BY DEF DatesSent, Given, DateColumns
<1>8. /\ edits(dto) \subseteq Marks
      /\ "dates" \in edits(dto) <=> DatesSent(dto)
      /\ "off" \in edits(dto) <=> dto.active = FALSE
  BY DEF Marks
<1>9. s # None
  BY RecruitmentAssumption DEF Coherent, RowsAreRows
<1>10. \A d : d = data(s, dto) => EntityAgrees(d)'
  <2>. HIDE DEF entity, edits
  <2>. QED  BY <1>3, <1>6, <1>7, <1>8, <1>9 DEF EntityAgrees, Moved, recruitmentVars
<1>11. <<"settings">> \notin crossed' => Activates(p)'
  <2>1. <<"settings">> \notin crossed' => Standing
    BY <1>1, <1>3, ArrivesAlone
  <2>2. Standing' <=> Standing
    BY <1>1, <1>3 DEF Standing, Active, recruitmentVars, Accept
  <2>. HIDE DEF entity, edits
  <2>3. /\ dto.active = TRUE => e.active
        /\ dto.active # TRUE /\ e.active => setting[s].active
        /\ ~e.active /\ setting[s].active => "off" \in edits(dto)
    BY <1>2, <1>4, <1>6, <1>8 DEF Given, IsSetting
  <2>4. /\ At(p, "deactivate")' => dto.active = TRUE
        /\ At(p, "loadSetting")' => dto.active # TRUE
        /\ ~At(p, "insertSetting")' /\ ~At(p, "writeSetting")'
    BY <1>5 DEF At
  <2>5. setting' = setting
    BY <1>3 DEF recruitmentVars
  <2>6. Data(p)'.id = s /\ Data(p)'.entity = e /\ Data(p)'.edits = edits(dto)
    BY <1>5
  <2>7. CASE At(p, "deactivate")'
    BY <2>3, <2>4, <2>6, <2>7 DEF Activates, At
  <2>8. CASE At(p, "loadSetting")'
    BY <2>1, <2>2, <2>3, <2>4, <2>5, <2>6, <2>8 DEF Activates, At
  <2>. QED  BY <2>4, <2>7, <2>8 DEF Activates
<1>12. SettingAgrees(p)'
  BY <1>5, <1>9, <1>10, <1>11 DEF SettingAgrees, SettingSteps, At
<1>13. ApplicantAgrees(p)' /\ step(dto) \in SettingSteps
  BY <1>5, NoApplicantRequest DEF SettingSteps, ApplicantSteps
<1>. HIDE DEF data, step
<1>. QED  BY <1>1, <1>3, <1>12, <1>13, AcceptQuietly DEF data, step

(* A step that changes recruitments *)
LEMMA SettingStepKeeps ==
  ASSUME Coherent, NEW p \in Requests, pc[p] \in SettingSteps,
         Sent', Alone', Others(p), crossed' = crossed,
         UNCHANGED <<now, applicants, selected, issued>>, SettingsStay,
         DOMAIN setting' \subseteq Settings, \A s \in DOMAIN setting' : IsSetting(setting'[s]),
         OneActive', Underway(p)', SettingAgrees(p)', ApplicantAgrees(p)'
  PROVE  Coherent'
<1>1. RowsAreRows /\ now \in Times /\ now <= now
  BY DEF Coherent, RowsAreRows, Times
<1>2. RowsAreRows'
  <2>1. \A a : IsApplicant(a) => IsApplicant(a)'
    BY StaySteady
  <2>. QED  BY <1>1, <2>1 DEF RowsAreRows
<1>3. RolesAgree'
  BY <1>1, SameRoles DEF Coherent
<1>4. ASSUME NEW q \in Requests, q # p
      PROVE  Underway(q)' /\ SettingAgrees(q)' /\ ApplicantAgrees(q)'
  <2>1. pc'[q] = pc[q] /\ req'[q] = req[q]
    BY <1>4 DEF Others
  <2>2. Underway(q)'
    BY <2>1 DEF Coherent, Underway, InFlight
  <2>3. ASSUME <<"settings">> \notin crossed'  PROVE pc[q] \notin SettingSteps
    <3>1. req[p].about = {<<"settings">>} /\ InFlight(p)
      BY DEF Coherent, SettingAgrees, SettingSteps, InFlight
    <3>2. pc[q] \in SettingSteps => req[q].about = {<<"settings">>} /\ InFlight(q)
      BY DEF Coherent, SettingAgrees, SettingSteps, InFlight
    <3>. QED  BY <1>4, <2>3, <3>1, <3>2 DEF Coherent, Alone
  <2>4. SettingAgrees(q)'
    BY <2>1, <2>3, OtherSettingRequest DEF Coherent
  <2>5. ApplicantAgrees(q)'
    BY <1>1, <2>1, SameIds, OtherApplicantRequest DEF Coherent
  <2>. QED  BY <2>2, <2>4, <2>5
<1>. QED  BY <1>2, <1>3, <1>4 DEF Coherent

LEMMA DeactivateKeeps ==
  ASSUME Coherent, NEW p \in Requests, Deactivate(p)
  PROVE  Coherent'
<1>. DEFINE d == Data(p)
            step == IF d.id = None THEN "insertSetting" ELSE "loadSetting"
<1>1. /\ pc[p] = "deactivate" /\ InFlight(p) /\ Go(p, step, d)
      /\ setting' = [s \in DOMAIN setting |-> [setting[s] EXCEPT !.active = FALSE]]
      /\ UNCHANGED <<now, applicants, selected, issued>>
  BY DEF Deactivate, At, InFlight
<1>2. /\ Sent' /\ Others(p) /\ pc'[p] = step /\ req'[p].about = req[p].about
      /\ req'[p].data = d
      /\ Alone' /\ crossed' = crossed /\ broken' = broken
  <2>. HIDE DEF d, step
  <2>. QED  BY <1>1, GoStep, GoAlone DEF Coherent, Go
<1>3. ASSUME NEW s \in DOMAIN setting
      PROVE  /\ IsSetting(setting'[s])
             /\ setting'[s].touched = setting[s].touched /\ ~setting'[s].active
             /\ \A c \in DateColumns : setting'[s][c] = setting[s][c]
  BY <1>1 DEF Coherent, RowsAreRows, IsSetting, DateColumns
<1>4. DOMAIN setting' = DOMAIN setting
  BY <1>1
<1>5. SettingsStay
  BY <1>3, <1>4 DEF SettingsStay, DateColumns
<1>6. Active' = {}
  BY <1>3, <1>4 DEF Active
<1>7. EntityAgrees(d) /\ req[p].about = {<<"settings">>}
  BY <1>1 DEF Coherent, SettingAgrees, SettingSteps
<1>8. OneActive'
  BY <1>2, <1>6, <1>7 DEF OneActive, Idle
<1>9. <<"settings">> \notin crossed' => Activates(p)'
  <2>1. <<"settings">> \notin crossed => d.entity.active
    BY <1>1 DEF Coherent, SettingAgrees, Activates, At
  <2>2. Data(p)' = d
    BY <1>2 DEF Data
  <2>. HIDE DEF d
  <2>. QED  BY <1>2, <1>6, <2>1, <2>2 DEF Activates, At
<1>10. SettingAgrees(p)'
  <2>1. Data(p)' = d
    BY <1>2 DEF Data
  <2>2. \A x : EntityAgrees(x) => EntityAgrees(x)'
    BY <1>3, <1>4 DEF EntityAgrees, Moved
  <2>. HIDE DEF d
  <2>. QED  BY <1>2, <1>7, <1>9, <2>1, <2>2 DEF SettingAgrees, At
<1>11. Underway(p)' /\ ApplicantAgrees(p)'
  BY <1>2, NoApplicantRequest DEF Underway, InFlight, SettingSteps, ApplicantSteps
<1>12. DOMAIN setting' \subseteq Settings /\ \A s \in DOMAIN setting' : IsSetting(setting'[s])
  BY <1>3, <1>4 DEF Coherent, RowsAreRows
<1>. QED
  BY <1>1, <1>2, <1>5, <1>8, <1>10, <1>11, <1>12, SettingStepKeeps DEF SettingSteps

LEMMA InsertSettingKeeps ==
  ASSUME Coherent, NEW p \in Requests, InsertSetting(p)
  PROVE  Coherent'
<1>. DEFINE d == Data(p)
<1>1. PICK s \in Settings \ DOMAIN setting : setting' = Put(setting, s, d.entity)
  BY DEF InsertSetting
<1>2. /\ pc[p] = "insertSetting" /\ Finish(p)
      /\ UNCHANGED <<now, applicants, selected, issued>>
  BY DEF InsertSetting, At
<1>3. /\ Sent' /\ Alone' /\ Others(p) /\ crossed' = crossed /\ broken' = broken
      /\ pc'[p] = "done" /\ req'[p] = Blank
  BY <1>2, FinishAlone DEF Coherent, Sent, Finish
<1>4. /\ EntityAgrees(d) /\ req[p].about = {<<"settings">>}
      /\ <<"settings">> \notin crossed =>
           IF d.entity.active THEN Active = {} ELSE Standing
  BY <1>2 DEF Coherent, SettingAgrees, SettingSteps, Activates, At
<1>5. /\ DOMAIN setting' = DOMAIN setting \cup {s} /\ setting'[s] = d.entity
      /\ \A t \in DOMAIN setting : setting'[t] = setting[t]
  BY <1>1 DEF Put
<1>6. SettingsStay
  BY <1>5 DEF SettingsStay
<1>7. DOMAIN setting' \subseteq Settings /\ \A t \in DOMAIN setting' : IsSetting(setting'[t])
  BY <1>4, <1>5 DEF Coherent, RowsAreRows, EntityAgrees
<1>8. OneActive'
  <2>1. Active' = IF d.entity.active THEN Active \cup {s} ELSE Active
    BY <1>5 DEF Active
  <2>2. Standing => Standing'
    BY <1>3, <1>5, <2>1 DEF Standing
  <2>3. <<"settings">> \notin crossed => \A t, u \in Active' : t = u
    BY <1>4, <2>1 DEF Coherent, OneActive
  <2>4. <<"settings">> \notin crossed => Standing'
    BY <1>4, <2>1, <2>2 DEF Standing
  <2>. QED  BY <1>3, <2>3, <2>4 DEF OneActive
<1>9. Underway(p)' /\ SettingAgrees(p)' /\ ApplicantAgrees(p)'
  BY <1>3, NoSettingRequest, NoApplicantRequest
     DEF Underway, InFlight, SettingSteps, ApplicantSteps, Blank
<1>. QED
  BY <1>2, <1>3, <1>6, <1>7, <1>8, <1>9, SettingStepKeeps DEF SettingSteps

LEMMA LoadSettingKeeps ==
  ASSUME Coherent, NEW p \in Requests, LoadSetting(p)
  PROVE  Coherent'
<1>. DEFINE d == Data(p)
            differ == {c \in DateColumns \cup {"active"} : d.entity[c] # setting[d.id][c]}
            data == [id |-> d.id, edits |-> d.edits, columns |-> [c \in differ |-> d.entity[c]]]
<1>1. pc[p] = "loadSetting" /\ InFlight(p) /\ Go(p, "writeSetting", data)
      /\ UNCHANGED recruitmentVars
  BY DEF LoadSetting, At, InFlight
<1>2. /\ pc'[p] = "writeSetting" /\ req'[p].about = req[p].about /\ Data(p)' = data
      /\ crossed' = crossed /\ broken' = broken
  <2>. HIDE DEF data
  <2>. QED  BY <1>1, GoStep DEF Coherent, Go, Data
<1>3. /\ EntityAgrees(d) /\ d.id # None /\ req[p].about = {<<"settings">>}
      /\ <<"settings">> \notin crossed =>
           /\ d.entity.active /\ ~setting[d.id].active => Active = {}
           /\ ~d.entity.active /\ setting[d.id].active => "off" \in d.edits
           /\ Standing \/ (d.entity.active /\ Active = {})
  BY <1>1 DEF Coherent, SettingAgrees, SettingSteps, Activates, At
<1>4. d.id \in DOMAIN setting /\ IsSetting(setting[d.id]) /\ IsSetting(d.entity)
  BY <1>3 DEF Coherent, RowsAreRows, EntityAgrees
<1>5. DOMAIN data.columns = differ /\ \A c \in differ : data.columns[c] = d.entity[c]
  OBVIOUS
<1>6. ColumnsAgree(data)
  <2>1. \A c \in DateColumns : d.entity[c] \in Times
    BY <1>4 DEF IsSetting, DateColumns
  <2>2. d.entity["active"] \in BOOLEAN
    BY <1>4 DEF IsSetting
  <2>3. differ \cap DateColumns # {} => Moved(d.id, d.edits)
    BY <1>3 DEF EntityAgrees
  <2>4. data.id = d.id /\ data.edits = d.edits
    OBVIOUS
  <2>. HIDE DEF data
  <2>. QED  BY <1>3, <1>4, <1>5, <2>1, <2>2, <2>3, <2>4 DEF ColumnsAgree, EntityAgrees
<1>7. <<"settings">> \notin crossed' => Activates(p)'
  <2>1. Standing' <=> Standing
    BY <1>1, <1>2 DEF Standing, Active, recruitmentVars
  <2>2. "active" \in differ <=> d.entity.active # setting[d.id].active
    OBVIOUS
  <2>3. d.entity.active \in BOOLEAN /\ setting[d.id].active \in BOOLEAN
    BY <1>4 DEF IsSetting
  <2>4. Active' = Active
    BY <1>1 DEF Active, recruitmentVars
  <2>5. Active # {} => Standing
    BY DEF Standing
  <2>6. d.id \in Active <=> setting[d.id].active
    BY <1>4 DEF Active
  <2>. SUFFICES ASSUME <<"settings">> \notin crossed
                PROVE IF "active" \in differ
                        THEN IF d.entity.active THEN Active = {} ELSE "off" \in d.edits
                        ELSE Standing
    BY <1>2, <1>5, <2>1, <2>4 DEF Activates, At
  <2>. QED  BY <1>3, <2>2, <2>3, <2>5, <2>6
<1>8. SettingAgrees(p)'
  <2>1. \A x : ColumnsAgree(x) => ColumnsAgree(x)'
    BY <1>1 DEF ColumnsAgree, Moved, recruitmentVars
  <2>. HIDE DEF data, d
  <2>. QED  BY <1>2, <1>3, <1>6, <1>7, <2>1 DEF SettingAgrees, At
<1>9. ApplicantAgrees(p)'
  BY <1>2, NoApplicantRequest DEF ApplicantSteps
<1>10. IdsStay /\ RowsAreRows'
  BY <1>1, SameIds DEF Coherent, RowsAreRows, recruitmentVars, IsApplicant
<1>. HIDE DEF data
<1>. QED  BY <1>1, <1>8, <1>9, <1>10, GoQuietly DEF recruitmentVars, SettingSteps

LEMMA WriteSettingKeeps ==
  ASSUME Coherent, NEW p \in Requests, WriteSetting(p)
  PROVE  Coherent'
<1>. DEFINE d == Data(p)
            row == setting[d.id]
            redone == Edited(row, d.columns)
<1>1. /\ pc[p] = "writeSetting" /\ Finish(p) /\ UNCHANGED <<now, applicants, selected, issued>>
      /\ setting' = [setting EXCEPT ![d.id] =
                       [redone EXCEPT !.touched = @ \cup d.edits]]
  BY DEF WriteSetting, At
<1>2. /\ Sent' /\ Alone' /\ Others(p) /\ crossed' = crossed /\ broken' = broken
      /\ pc'[p] = "done" /\ req'[p] = Blank
  BY <1>1, FinishAlone DEF Coherent, Sent, Finish
<1>3. /\ ColumnsAgree(d) /\ req[p].about = {<<"settings">>}
      /\ <<"settings">> \notin crossed =>
           IF "active" \in DOMAIN d.columns
             THEN IF d.columns["active"] THEN Active = {} ELSE "off" \in d.edits
             ELSE Standing
  BY <1>1 DEF Coherent, SettingAgrees, SettingSteps, Activates, At
<1>4. d.id \in DOMAIN setting /\ IsSetting(row)
  BY <1>3 DEF Coherent, RowsAreRows, ColumnsAgree
<1>5. /\ DOMAIN setting' = DOMAIN setting
      /\ \A s \in DOMAIN setting : s # d.id => setting'[s] = setting[s]
      /\ setting'[d.id] = [redone EXCEPT !.touched = @ \cup d.edits]
  <2>. HIDE DEF redone
  <2>. QED  BY <1>1, <1>4
<1>6. "touched" \notin DOMAIN d.columns
  BY <1>3 DEF ColumnsAgree, DateColumns
<1>7. /\ DOMAIN setting'[d.id] = {"open", "close", "announce", "active", "touched"}
      /\ setting'[d.id].touched = row.touched \cup d.edits
      /\ \A c \in DateColumns \cup {"active"} :
           setting'[d.id][c] = IF c \in DOMAIN d.columns THEN d.columns[c] ELSE row[c]
  <2>1. /\ DOMAIN redone = {"open", "close", "announce", "active", "touched"}
        /\ redone.touched = row.touched
        /\ \A c \in DateColumns \cup {"active"} :
             redone[c] = IF c \in DOMAIN d.columns THEN d.columns[c] ELSE row[c]
    BY <1>4, <1>6 DEF Edited, IsSetting, DateColumns
  <2>. HIDE DEF redone
  <2>. QED  BY <1>5, <2>1 DEF DateColumns
<1>8. IsSetting(setting'[d.id])
  <2>1. \A c \in DateColumns : setting'[d.id][c] \in Times
    BY <1>3, <1>4, <1>7 DEF ColumnsAgree, IsSetting, DateColumns
  <2>2. setting'[d.id].active \in BOOLEAN
    BY <1>3, <1>4, <1>7 DEF ColumnsAgree, IsSetting
  <2>3. setting'[d.id].touched \subseteq Marks
    BY <1>3, <1>4, <1>7 DEF ColumnsAgree, IsSetting
  <2>. QED  BY <1>7, <2>1, <2>2, <2>3 DEF IsSetting, DateColumns
<1>9. SettingsStay
  <2>1. "dates" \notin setting'[d.id].touched =>
          \A c \in DateColumns : setting'[d.id][c] = row[c]
    BY <1>3, <1>7 DEF ColumnsAgree, Moved
  <2>. QED  BY <1>4, <1>5, <1>7, <2>1 DEF SettingsStay, DateColumns
<1>10. DOMAIN setting' \subseteq Settings /\ \A s \in DOMAIN setting' : IsSetting(setting'[s])
  BY <1>5, <1>8 DEF Coherent, RowsAreRows
<1>11. OneActive'
  <2>. SUFFICES ASSUME <<"settings">> \notin crossed
                PROVE  (\A s, t \in Active' : s = t) /\ Standing'
    BY <1>2 DEF OneActive
  <2>1. \A s, t \in Active : s = t
    BY DEF Coherent, OneActive
  <2>2. \A s : s # d.id => (s \in Active' <=> s \in Active)
    BY <1>5 DEF Active
  <2>3. d.id \in Active' <=> setting'[d.id].active
    BY <1>4, <1>5 DEF Active
  <2>4. d.id \in Active <=> row.active
    BY <1>4 DEF Active
  <2>5. setting'[d.id].active =
          IF "active" \in DOMAIN d.columns THEN d.columns["active"] ELSE row.active
    BY <1>7
  <2>6. row.touched \subseteq setting'[d.id].touched /\ d.edits \subseteq setting'[d.id].touched
    BY <1>7
  <2>7. CASE "active" \notin DOMAIN d.columns
    <3>1. Active' = Active
      BY <2>2, <2>3, <2>4, <2>5, <2>7
    <3>. QED  BY <1>2, <1>3, <1>4, <1>5, <2>1, <2>6, <2>7, <3>1 DEF Standing
  <2>8. CASE "active" \in DOMAIN d.columns /\ d.columns["active"]
    <3>1. Active' = {d.id}
      BY <1>3, <2>2, <2>3, <2>5, <2>8
    <3>. QED  BY <3>1 DEF Standing
  <2>9. CASE "active" \in DOMAIN d.columns /\ ~d.columns["active"]
    <3>1. Active' \subseteq Active
      BY <2>2, <2>3, <2>5, <2>9
    <3>2. "off" \in setting'[d.id].touched
      BY <1>3, <2>6, <2>9
    <3>. QED  BY <1>4, <1>5, <2>1, <3>1, <3>2 DEF Standing
  <2>. QED  BY <2>7, <2>8, <2>9
<1>12. Underway(p)' /\ SettingAgrees(p)' /\ ApplicantAgrees(p)'
  BY <1>2, NoSettingRequest, NoApplicantRequest
     DEF Underway, InFlight, SettingSteps, ApplicantSteps, Blank
<1>. QED
  BY <1>1, <1>2, <1>9, <1>10, <1>11, <1>12, SettingStepKeeps DEF SettingSteps

(***************************************************************************)
(* Applicants: what arrives                                                *)
(***************************************************************************)

LEMMA InContextKeeps ==
  ASSUME Coherent, NEW p \in Requests, At(p, "new"), UNCHANGED recruitmentVars,
         NEW who \in Profiles, NEW step \in {"insertApplicant", "selectRoles", "decideOffer"},
         NEW asked, InContext(p, who, step, asked),
         step = "selectRoles" => Len(asked) \in Nat,
         step = "decideOffer" => asked.accept \in BOOLEAN
  PROVE  Coherent'
<1>. DEFINE data(s) == [applicant |-> <<who, s>>, setting |-> setting[s], asked |-> asked]
            about(s) == {<<"applicant", who, s>>}
<1>1. PICK s \in DOMAIN setting : Accept(p, about(s), step, data(s))
  <2>1. \A header : Found(header) \subseteq DOMAIN setting
    BY DEF Found, Active
  <2>. QED  BY <2>1 DEF InContext
<1>. DEFINE a == <<who, s>>
<1>2. s \in DOMAIN setting /\ s \in Settings /\ IsSetting(setting[s])
  BY <1>1 DEF Coherent, RowsAreRows
<1>3. IsApplicant(a) /\ a[2] = s /\ about(s) = {Of(a)}
  BY <1>2 DEF IsApplicant, Of
<1>4. pc'[p] = step /\ req'[p].about = {Of(a)} /\ Data(p)' = data(s)
  <2>. HIDE DEF data, about, a
  <2>1. pc'[p] = step /\ req'[p] = [about |-> about(s), data |-> data(s)]
    BY <1>1, AcceptStep DEF Coherent
  <2>. QED  BY <1>3, <2>1 DEF Data
<1>5. /\ data(s).applicant = a /\ data(s).setting = setting[s] /\ data(s).asked = asked
  OBVIOUS
<1>6. setting' = setting
  BY DEF recruitmentVars
<1>7. IsApplicant(a)' /\ SnapshotAgrees(a, setting[s])'
  <2>1. \A b : IsApplicant(b) => IsApplicant(b)'
    BY <1>6 DEF IsApplicant
  <2>2. \A b, row : SnapshotAgrees(b, row) => SnapshotAgrees(b, row)'
    BY <1>6 DEF SnapshotAgrees, Steady
  <2>3. SnapshotAgrees(a, setting[s])
    BY <1>2, <1>3 DEF SnapshotAgrees
  <2>. QED  BY <1>3, <1>6, <2>1, <2>2, <2>3
<1>8. ApplicantAgrees(p)'
  <2>. HIDE DEF data, a
  <2>. QED  BY <1>4, <1>5, <1>6, <1>7 DEF ApplicantAgrees, At
<1>9. SettingAgrees(p)' /\ step \in SettingSteps \cup ApplicantSteps
  BY <1>4, NoSettingRequest DEF SettingSteps, ApplicantSteps
<1>. HIDE DEF data, about
<1>. QED  BY <1>1, <1>8, <1>9, AcceptQuietly

LEMMA CreateApplicantKeeps ==
  ASSUME Coherent, NEW p \in Requests, CreateApplicant(p)
  PROVE  Coherent'
<1>1. PICK who \in Profiles : InContext(p, who, "insertApplicant", <<>>)
  BY DEF CreateApplicant
<1>. QED  BY <1>1, InContextKeeps DEF CreateApplicant, Arrives

LEMMA SelectRolesKeeps ==
  ASSUME Coherent, NEW p \in Requests, SelectRoles(p)
  PROVE  Coherent'
<1>1. PICK who \in Profiles,
           roles \in {<<>>} \cup (Roles \X Roles) \cup {<<r>> : r \in Roles} :
        InContext(p, who, "selectRoles", roles)
  BY DEF SelectRoles
<1>2. Len(roles) \in Nat
  <2>1. CASE roles \in Roles \X Roles
    <3>1. roles = <<roles[1], roles[2]>>
      BY <2>1
    <3>2. \A x, y : Len(<<x, y>>) = 2
      OBVIOUS
    <3>. QED  BY <3>1, <3>2
  <2>2. CASE roles \in {<<r>> : r \in Roles}
    BY <2>2
  <2>. QED  BY <2>1, <2>2
<1>. QED  BY <1>1, <1>2, InContextKeeps DEF SelectRoles, Arrives

LEMMA DecideOfferKeeps ==
  ASSUME Coherent, NEW p \in Requests, DecideOffer(p)
  PROVE  Coherent'
<1>1. PICK who \in Profiles, which \in Roles, accept \in BOOLEAN :
        InContext(p, who, "decideOffer", [role |-> which, accept |-> accept])
  BY DEF DecideOffer
<1>. QED  BY <1>1, InContextKeeps DEF DecideOffer, Arrives

LEMMA OfferApplicantKeeps ==
  ASSUME Coherent, NEW p \in Requests, OfferApplicant(p)
  PROVE  Coherent'
<1>. DEFINE data(r, deadline) == [applicant |-> selected[r].applicant, row |-> r,
                                  role |-> selected[r].role, expires |-> deadline]
            about(r) ==
              {<<"applicant", selected[r].applicant[1], selected[r].applicant[2]>>}
<1>1. PICK r \in DOMAIN selected, deadline \in Deadlines \cup {None} :
        Accept(p, about(r), "offerApplicantRole", data(r, deadline))
  BY DEF OfferApplicant
<1>. DEFINE a == selected[r].applicant
<1>2. IsApplicant(a) /\ IsRowOf(a, r) /\ about(r) = {Of(a)}
  BY DEF Coherent, RowsAreRows, IsRowOf, Of
<1>3. deadline \in Times \cup {None}
  BY RecruitmentAssumption
<1>4. At(p, "new") /\ UNCHANGED recruitmentVars
  BY DEF OfferApplicant, Arrives
<1>5. /\ pc'[p] = "offerApplicantRole" /\ req'[p].about = {Of(a)}
      /\ Data(p)' = data(r, deadline)
  <2>. HIDE DEF data, about, a
  <2>1. /\ pc'[p] = "offerApplicantRole"
        /\ req'[p] = [about |-> about(r), data |-> data(r, deadline)]
    BY <1>1, AcceptStep DEF Coherent
  <2>. QED  BY <1>2, <2>1 DEF Data
<1>6. /\ data(r, deadline).applicant = a /\ data(r, deadline).row = r
      /\ data(r, deadline).role = selected[r].role /\ data(r, deadline).expires = deadline
  OBVIOUS
<1>7. /\ \A b : IsApplicant(b) => IsApplicant(b)'
      /\ \A b, s : IsRowOf(b, s) => IsRowOf(b, s)'
      /\ selected' = selected
  BY <1>4 DEF IsApplicant, IsRowOf, recruitmentVars
<1>8. ApplicantAgrees(p)'
  <2>. HIDE DEF data
  <2>. QED  BY <1>2, <1>3, <1>5, <1>6, <1>7 DEF ApplicantAgrees, At
<1>9. SettingAgrees(p)' /\ "offerApplicantRole" \in ApplicantSteps
  BY <1>5, NoSettingRequest DEF SettingSteps, ApplicantSteps
<1>. HIDE DEF data, about
<1>. QED  BY <1>1, <1>4, <1>8, <1>9, AcceptQuietly

LEMMA InsertApplicantKeeps ==
  ASSUME Coherent, NEW p \in Requests, InsertApplicant(p)
  PROVE  Coherent'
BY EndQuietly DEF InsertApplicant, At, ApplicantSteps

(***************************************************************************)
(* Applicants: what is read                                                *)
(***************************************************************************)

LEMMA BeginSelectKeeps ==
  ASSUME Coherent, NEW p \in Requests, BeginSelect(p)
  PROVE  Coherent'
<1>. DEFINE d == Data(p)
            a == d.applicant
            data == [applicant |-> a, roles |-> d.asked]
<1>1. pc[p] = "selectRoles" /\ InFlight(p) /\ UNCHANGED recruitmentVars
  BY DEF BeginSelect, At, InFlight
<1>2. CASE Finish(p)
  BY <1>1, <1>2, EndQuietly DEF ApplicantSteps, recruitmentVars
<1>3. CASE IsRegistrationOpen(d.setting) /\ Go(p, "findSelected", data)
  <2>1. /\ IsApplicant(a) /\ req[p].about = {Of(a)} /\ SnapshotAgrees(a, d.setting)
        /\ Len(d.asked) \in Nat
    BY <1>1 DEF Coherent, ApplicantAgrees, ApplicantSteps, At
  <2>2. /\ pc'[p] = "findSelected" /\ req'[p].about = {Of(a)} /\ Data(p)' = data
        /\ crossed' = crossed
    <3>. HIDE DEF data
    <3>. QED  BY <1>1, <1>3, <2>1, GoStep DEF Coherent, Go, Data
  <2>3. NoneNamed(a)
    <3>. SUFFICES ASSUME Of(a) \notin crossed, Steady(a), NEW r \in RolesOf(a)
                  PROVE  selected[r].named = None
      BY DEF NoneNamed
    <3>1. RowAgrees(selected[r]) /\ selected[r].applicant = a
      BY DEF Coherent, RolesAgree, RolesOf
    <3>2. now <= setting[a[2]].close /\ now \in Times /\ setting[a[2]].close \in Times
      BY <1>3, <2>1
         DEF IsRegistrationOpen, SnapshotAgrees, Coherent, RowsAreRows, IsSetting
    <3>. QED  BY <3>1, <3>2 DEF RowAgrees, Times
  <2>4. \A b : (IsApplicant(b) => IsApplicant(b)') /\ (NoneNamed(b) => NoneNamed(b)')
    BY <1>1, <2>2 DEF IsApplicant, NoneNamed, RolesOf, Steady, recruitmentVars
  <2>5. ApplicantAgrees(p)'
    <3>1. data.applicant = a /\ data.roles = d.asked
      OBVIOUS
    <3>. HIDE DEF data, a, d
    <3>. QED  BY <2>1, <2>2, <2>3, <2>4, <3>1 DEF ApplicantAgrees, At
  <2>6. SettingAgrees(p)' /\ "findSelected" \in ApplicantSteps
    BY <2>2, NoSettingRequest DEF SettingSteps, ApplicantSteps
  <2>7. IdsStay /\ RowsAreRows'
    BY <1>1, SameIds DEF Coherent, RowsAreRows, recruitmentVars, IsApplicant
  <2>. HIDE DEF data
  <2>. QED  BY <1>1, <1>3, <2>5, <2>6, <2>7, GoQuietly DEF recruitmentVars
<1>. QED  BY <1>2, <1>3 DEF BeginSelect

LEMMA BeginDecideKeeps ==
  ASSUME Coherent, NEW p \in Requests, BeginDecide(p)
  PROVE  Coherent'
<1>. DEFINE d == Data(p)
            a == d.applicant
            step == IF d.asked.accept THEN "checkReady" ELSE "findRole"
            data == [applicant |-> a, role |-> d.asked.role, accept |-> d.asked.accept]
<1>1. pc[p] = "decideOffer" /\ InFlight(p) /\ UNCHANGED recruitmentVars
  BY DEF BeginDecide, At, InFlight
<1>2. CASE Finish(p)
  BY <1>1, <1>2, EndQuietly DEF ApplicantSteps, recruitmentVars
<1>3. CASE IsAnnounced(d.setting) /\ Go(p, step, data)
  <2>1. /\ IsApplicant(a) /\ req[p].about = {Of(a)} /\ SnapshotAgrees(a, d.setting)
        /\ d.asked.accept \in BOOLEAN
    BY <1>1 DEF Coherent, ApplicantAgrees, ApplicantSteps, At
  <2>2. pc'[p] = step /\ req'[p].about = {Of(a)} /\ Data(p)' = data
    <3>. HIDE DEF data, step
    <3>. QED  BY <1>1, <1>3, <2>1, GoStep DEF Coherent, Go, Data
  <2>3. Open(a, now)
    <3>1. now \in Times /\ d.setting.announce \in Times
      BY <2>1 DEF SnapshotAgrees, Coherent, RowsAreRows, IsSetting
    <3>. QED  BY <1>3, <2>1, <3>1 DEF IsAnnounced, SnapshotAgrees, Open, Times
  <2>4. \A b : (IsApplicant(b) => IsApplicant(b)') /\ (Open(b, now) => Open(b, now)')
    BY <1>1 DEF IsApplicant, Open, Steady, recruitmentVars
  <2>5. ApplicantAgrees(p)'
    <3>1. data.applicant = a /\ data.accept = d.asked.accept
      OBVIOUS
    <3>. HIDE DEF data, a, d
    <3>. QED  BY <2>1, <2>2, <2>3, <2>4, <3>1 DEF ApplicantAgrees, At
  <2>6. SettingAgrees(p)' /\ step \in ApplicantSteps
    BY <2>2, NoSettingRequest DEF SettingSteps, ApplicantSteps
  <2>7. IdsStay /\ RowsAreRows'
    BY <1>1, SameIds DEF Coherent, RowsAreRows, recruitmentVars, IsApplicant
  <2>. HIDE DEF data, step
  <2>. QED  BY <1>1, <1>3, <2>5, <2>6, <2>7, GoQuietly DEF recruitmentVars
<1>. QED  BY <1>2, <1>3 DEF BeginDecide

LEMMA CheckReadyKeeps ==
  ASSUME Coherent, NEW p \in Requests, CheckReady(p)
  PROVE  Coherent'
<1>. DEFINE d == Data(p)
            a == d.applicant
<1>1. pc[p] = "checkReady" /\ InFlight(p) /\ UNCHANGED recruitmentVars
  BY DEF CheckReady, At, InFlight
<1>2. CASE Finish(p)
  BY <1>1, <1>2, EndQuietly DEF ApplicantSteps, recruitmentVars
<1>3. CASE (\A r \in RolesOf(a) : ~selected[r].accepted) /\ Go(p, "findRole", d)
  <2>1. IsApplicant(a) /\ req[p].about = {Of(a)} /\ d.accept \in BOOLEAN /\ Open(a, now)
    BY <1>1 DEF Coherent, ApplicantAgrees, ApplicantSteps, At
  <2>2. pc'[p] = "findRole" /\ req'[p].about = {Of(a)} /\ Data(p)' = d /\ crossed' = crossed
    <3>. HIDE DEF d
    <3>. QED  BY <1>1, <1>3, <2>1, GoStep DEF Coherent, Go, Data
  <2>3. \A b : /\ IsApplicant(b) => IsApplicant(b)'
               /\ Open(b, now) => Open(b, now)'
               /\ NoneAccepted(b) => NoneAccepted(b)'
    BY <1>1, <2>2 DEF IsApplicant, Open, Steady, NoneAccepted, RolesOf, recruitmentVars
  <2>4. NoneAccepted(a)
    BY <1>3 DEF NoneAccepted
  <2>5. ApplicantAgrees(p)'
    <3>. HIDE DEF d
    <3>. QED  BY <2>1, <2>2, <2>3, <2>4 DEF ApplicantAgrees, At
  <2>6. SettingAgrees(p)' /\ "findRole" \in ApplicantSteps
    BY <2>2, NoSettingRequest DEF SettingSteps, ApplicantSteps
  <2>7. IdsStay /\ RowsAreRows'
    BY <1>1, SameIds DEF Coherent, RowsAreRows, recruitmentVars, IsApplicant
  <2>. HIDE DEF d
  <2>. QED  BY <1>1, <1>3, <2>5, <2>6, <2>7, GoQuietly DEF recruitmentVars
<1>. QED  BY <1>2, <1>3 DEF CheckReady

LEMMA FindRoleKeeps ==
  ASSUME Coherent, NEW p \in Requests, FindRole(p)
  PROVE  Coherent'
<1>. DEFINE d == Data(p)
            a == d.applicant
            data(r) == [applicant |-> a, row |-> r, accept |-> d.accept, at |-> now]
<1>1. pc[p] = "findRole" /\ InFlight(p) /\ UNCHANGED recruitmentVars
  BY DEF FindRole, At, InFlight
<1>2. CASE Finish(p)
  BY <1>1, <1>2, EndQuietly DEF ApplicantSteps, recruitmentVars
<1>3. ASSUME NEW r \in RolesOf(a), selected[r].expires # None, selected[r].expires >= now,
             Go(p, "writeAnswer", data(r))
      PROVE  Coherent'
  <2>1. /\ IsApplicant(a) /\ req[p].about = {Of(a)} /\ d.accept \in BOOLEAN /\ Open(a, now)
        /\ d.accept => NoneAccepted(a)
    BY <1>1 DEF Coherent, ApplicantAgrees, ApplicantSteps, At
  <2>2. /\ pc'[p] = "writeAnswer" /\ req'[p].about = {Of(a)} /\ Data(p)' = data(r)
        /\ crossed' = crossed
    <3>. HIDE DEF data
    <3>1. Sent
      BY DEF Coherent
    <3>2. pc'[p] = "writeAnswer" /\ req'[p].about = req[p].about /\ req'[p].data = data(r)
      BY <1>3, <3>1, GoStep
    <3>3. crossed' = crossed
      BY <1>3 DEF Go
    <3>. QED  BY <2>1, <3>2, <3>3 DEF Data
  <2>3. \A b : /\ IsApplicant(b) => IsApplicant(b)'
               /\ \A t : Open(b, t) => Open(b, t)'
               /\ \A t : IsRowOf(b, t) => IsRowOf(b, t)'
               /\ NoneAccepted(b) => NoneAccepted(b)'
    BY <1>1, <2>2
       DEF IsApplicant, IsRowOf, Open, Steady, NoneAccepted, RolesOf, recruitmentVars
  <2>4. now \in Times /\ IsRowOf(a, r) /\ selected[r].expires \in Times
    BY <1>3 DEF Coherent, RowsAreRows, IsRowOf, RolesOf, IsRole
  <2>5. InTime(selected[r], now)
    BY <1>3, <2>4 DEF InTime, Times
  <2>6. now' = now /\ selected' = selected
    BY <1>1 DEF recruitmentVars
  <2>7. ApplicantAgrees(p)'
    <3>1. /\ data(r).applicant = a /\ data(r).row = r /\ data(r).accept = d.accept
          /\ data(r).at = now
      OBVIOUS
    <3>2. \A row, t : InTime(row, t)' <=> InTime(row, t)
      BY DEF InTime
    <3>. HIDE DEF data, a, d
    <3>. QED
      BY <2>1, <2>2, <2>3, <2>4, <2>5, <2>6, <3>1, <3>2 DEF ApplicantAgrees, At
  <2>8. SettingAgrees(p)' /\ "writeAnswer" \in ApplicantSteps
    BY <2>2, NoSettingRequest DEF SettingSteps, ApplicantSteps
  <2>9. IdsStay /\ RowsAreRows'
    BY <1>1, SameIds DEF Coherent, RowsAreRows, recruitmentVars, IsApplicant
  <2>. HIDE DEF data
  <2>. QED  BY <1>1, <1>3, <2>7, <2>8, <2>9, GoQuietly DEF recruitmentVars
<1>. QED  BY <1>2, <1>3 DEF FindRole, ApplicationRoles

(* u is the sequence t of members of S with n times b behind it. *)
Grown(S, t, n, b, u) ==
  /\ u \in Seq(S)
  /\ \A i \in DOMAIN t : i \in DOMAIN u /\ u[i] = t[i]
  /\ \A i \in DOMAIN u : i \notin DOMAIN t => u[i] = b
  /\ \A i \in 1..n : Len(t) + i \in DOMAIN u /\ Len(t) + i \notin DOMAIN t

LEMMA Appended ==
  ASSUME NEW S, NEW t \in Seq(S), NEW new \in Seq(S), NEW b, \A i \in 1..Len(new) : new[i] = b
  PROVE  Grown(S, t, Len(new), b, t \o new)
<1>. DEFINE u == t \o new
<1>1. Len(t) \in Nat /\ Len(new) \in Nat /\ DOMAIN t = 1..Len(t)
  OBVIOUS
<1>2. u \in Seq(S) /\ Len(u) = Len(t) + Len(new)
  BY ConcatProperties
<1>3. \A i \in 1..(Len(t) + Len(new)) : u[i] = IF i <= Len(t) THEN t[i] ELSE new[i - Len(t)]
  BY ConcatProperties
<1>. HIDE DEF u
<1>4. DOMAIN u = 1..(Len(t) + Len(new))
  BY <1>1, <1>2
<1>5. \A i \in DOMAIN t : i \in DOMAIN u /\ u[i] = t[i]
  BY <1>1, <1>3, <1>4
<1>6. ASSUME NEW i \in DOMAIN u, i \notin DOMAIN t  PROVE u[i] = b
  <2>1. i - Len(t) \in 1..Len(new) /\ ~(i <= Len(t))
    BY <1>1, <1>4, <1>6
  <2>2. u[i] = new[i - Len(t)]
    BY <1>3, <1>4, <1>6, <2>1
  <2>. QED  BY <2>1, <2>2
<1>7. \A i \in 1..Len(new) : Len(t) + i \in DOMAIN u /\ Len(t) + i \notin DOMAIN t
  BY <1>1, <1>4
<1>8. Grown(S, t, Len(new), b, u)
  BY <1>2, <1>5, <1>6, <1>7 DEF Grown
<1>. QED  BY <1>8 DEF u

LEMMA IssuedGrows ==
  ASSUME NEW S, NEW t \in Seq(S), NEW n \in Int, NEW b \in S,
         NEW u, u = t \o [i \in 1..n |-> b]
  PROVE  Grown(S, t, n, b, u)
<1>. DEFINE m == IF n > 0 THEN n ELSE 0
            new == [i \in 1..n |-> b]
<1>1. m \in Nat /\ 1..n = 1..m
  OBVIOUS
<1>2. new \in Seq(S) /\ Len(new) = m
  <2>1. new = [i \in 1..m |-> b]
    BY <1>1
  <2>. HIDE DEF m, new
  <2>. QED  BY <1>1, <2>1
<1>3. \A i \in 1..Len(new) : new[i] = b
  BY <1>1, <1>2
<1>4. 1..n = 1..Len(new)
  BY <1>1, <1>2
<1>. HIDE DEF new, m
<1>5. Grown(S, t, Len(new), b, t \o new)
  BY <1>2, <1>3, Appended
<1>6. u = t \o new
  BY DEF new
<1>. QED  BY <1>4, <1>5, <1>6 DEF Grown

LEMMA RankedRows ==
  ASSUME RowsAreRows, NEW a, NEW found \in Ranked(a)
  PROVE  /\ Len(found) \in Nat
         /\ \A i \in 1..Len(found) : found[i] \in RolesOf(a)
         /\ \A i, j \in 1..Len(found) : found[i] = found[j] => i = j
<1>. DEFINE n == Cardinality(RolesOf(a))
<1>1. RolesOf(a) \subseteq 1..Len(issued) /\ Len(issued) \in Nat
  BY DEF RowsAreRows, RolesOf
<1>2. n \in Nat
  <2>1. IsFiniteSet(1..Len(issued))
    BY <1>1, FS_Interval
  <2>. QED  BY <1>1, <2>1, FS_Subset, FS_CardinalityType
<1>3. found \in [1..n -> RolesOf(a)]
  BY DEF Ranked
<1>4. found \in Seq(RolesOf(a)) /\ Len(found) = n
  <2>. HIDE DEF n
  <2>. QED  BY <1>2, <1>3
<1>5. \A i, j \in 1..n : i < j => found[i] # found[j]
  BY <1>3 DEF Ranked
<1>. HIDE DEF n
<1>. QED  BY <1>2, <1>3, <1>4, <1>5

LEMMA FindSelectedKeeps ==
  ASSUME Coherent, NEW p \in Requests, FindSelected(p)
  PROVE  Coherent'
<1>. DEFINE d == Data(p)
<1>. SUFFICES ASSUME NEW a, a = d.applicant
              PROVE  Coherent'
  OBVIOUS
<1>. DEFINE missing(found) == Len(d.roles) - Len(found)
            object(found, i) == IF i <= Len(found)
              THEN [id |-> found[i], row |-> [selected[found[i]] EXCEPT
                      !.rank = i - 1, !.role = d.roles[i]]]
              ELSE [id |-> Len(issued) + i - Len(found),
                    row |-> NewRole(a, d.roles[i], i - 1)]
            objects(found) == [i \in 1..Len(d.roles) |-> object(found, i)]
            removed(found) == {found[i] : i \in (Len(d.roles) + 1)..Len(found)}
            data(found) == [applicant |-> a, objects |-> objects(found),
                            removed |-> removed(found)]
<1>1. PICK found \in Ranked(a) :
        /\ Go(p, "loadSelected", data(found))
        /\ issued' = issued \o [i \in 1..missing(found) |-> a]
  BY DEF FindSelected
<1>2. /\ pc[p] = "findSelected" /\ InFlight(p)
      /\ UNCHANGED <<now, setting, applicants, selected>>
  BY DEF FindSelected, At, InFlight
<1>3. /\ IsApplicant(a) /\ req[p].about = {Of(a)} /\ NoneNamed(a) /\ Len(d.roles) \in Nat
  BY <1>2 DEF Coherent, ApplicantAgrees, ApplicantSteps, At
<1>4. /\ pc'[p] = "loadSelected" /\ req'[p].about = {Of(a)} /\ Data(p)' = data(found)
      /\ crossed' = crossed
  <2>. HIDE DEF data, d
  <2>. QED  BY <1>1, <1>2, <1>3, GoStep DEF Coherent, Go, Data
<1>5. /\ Len(found) \in Nat
      /\ \A i \in 1..Len(found) : found[i] \in RolesOf(a)
      /\ \A i, j \in 1..Len(found) : found[i] = found[j] => i = j
  BY <1>1, RankedRows DEF Coherent
<1>6. /\ issued' \in Seq(Profiles \X Settings)
      /\ \A r \in DOMAIN issued : r \in DOMAIN issued' /\ issued'[r] = issued[r]
      /\ \A r \in DOMAIN issued' : r \notin DOMAIN issued => issued'[r] = a
      /\ \A i \in 1..missing(found) :
           Len(issued) + i \in DOMAIN issued' /\ Len(issued) + i \notin DOMAIN issued
  <2>1. missing(found) \in Int /\ a \in Profiles \X Settings
    BY <1>3, <1>5 DEF IsApplicant
  <2>2. issued \in Seq(Profiles \X Settings)
    BY DEF Coherent, RowsAreRows
  <2>3. Grown(Profiles \X Settings, issued, missing(found), a, issued')
    <3>. HIDE DEF missing
    <3>. QED  BY <1>1, <2>1, <2>2, IssuedGrows
  <2>. HIDE DEF missing
  <2>. QED  BY <2>3 DEF Grown
<1>7. IdsStay /\ RowsAreRows'
  <2>1. IdsStay
    BY <1>6 DEF IdsStay
  <2>2. \A r \in DOMAIN issued' : IsApplicant(issued[r])'
    <3>1. \A r \in DOMAIN issued' : IsApplicant(issued'[r])
      BY <1>3, <1>6 DEF Coherent, RowsAreRows
    <3>. QED  BY <1>2, <3>1 DEF IsApplicant
  <2>3. \A r \in DOMAIN selected : r \in DOMAIN issued' /\ selected[r].applicant = issued'[r]
    BY <1>6 DEF Coherent, RowsAreRows
  <2>4. issued' \in Seq(Profiles \X Settings)
    BY <1>6
  <2>. QED  BY <1>2, <2>1, <2>2, <2>3, <2>4 DEF Coherent, RowsAreRows
<1>8. \A r \in RolesOf(a) : /\ r \in DOMAIN selected /\ r \in DOMAIN issued /\ issued[r] = a
                            /\ IsRole(selected[r]) /\ selected[r].applicant = a
                            /\ Timely(a, selected[r].answered)
  BY DEF Coherent, RowsAreRows, RolesOf, RolesAgree, RowAgrees
<1>9. ASSUME NEW i \in 1..Len(d.roles)
      PROVE  /\ object(found, i).id \in DOMAIN issued' /\ issued'[object(found, i).id] = a
             /\ IsRole(object(found, i).row) /\ object(found, i).row.applicant = a
             /\ Timely(a, object(found, i).row.answered)
             /\ Unchanged(object(found, i).id, object(found, i).row)
             /\ i > Len(found) => object(found, i).id \notin DOMAIN issued
  <2>1. CASE i <= Len(found)
    <3>. DEFINE r == found[i]
                row == [selected[r] EXCEPT !.rank = i - 1, !.role = d.roles[i]]
    <3>1. r \in RolesOf(a)
      BY <1>5, <2>1
    <3>2. object(found, i).id = r /\ object(found, i).row = row
      BY <2>1
    <3>3. IsRole(selected[r])
      BY <1>8, <3>1
    <3>4. /\ IsRole(row) /\ row.applicant = selected[r].applicant
          /\ row.expires = selected[r].expires /\ row.answered = selected[r].answered
          /\ row.accepted = selected[r].accepted
      BY <3>3 DEF IsRole
    <3>. HIDE DEF row, object
    <3>. QED  BY <1>6, <1>8, <2>1, <3>1, <3>2, <3>4 DEF Unchanged
  <2>2. CASE i > Len(found)
    <3>. DEFINE r == Len(issued) + i - Len(found)
                row == NewRole(a, d.roles[i], i - 1)
    <3>1. object(found, i).id = r /\ object(found, i).row = row
      BY <1>5, <2>2
    <3>2. Len(issued) \in Nat
      BY DEF Coherent, RowsAreRows
    <3>3. i - Len(found) \in 1..missing(found) /\ r = Len(issued) + (i - Len(found))
      BY <1>3, <1>5, <2>2, <3>2
    <3>4. r \in DOMAIN issued' /\ r \notin DOMAIN issued /\ issued'[r] = a
      BY <1>6, <3>3
    <3>5. IsRole(row) /\ row.applicant = a /\ Timely(a, row.answered) /\ Unoffered(row)
      BY DEF NewRole, IsRole, Timely, Unoffered
    <3>6. r \notin DOMAIN selected
      BY <3>4 DEF Coherent, RowsAreRows
    <3>. HIDE DEF row, object, r
    <3>. QED  BY <3>1, <3>4, <3>5, <3>6 DEF Unchanged
  <2>. QED  BY <1>3, <1>5, <2>1, <2>2
<1>10. ASSUME NEW i \in 1..Len(d.roles), NEW j \in 1..Len(d.roles),
              object(found, i).id = object(found, j).id
       PROVE  i = j
  <2>1. CASE i <= Len(found) /\ j <= Len(found)
    BY <1>5, <1>10, <2>1
  <2>2. CASE i > Len(found) /\ j > Len(found)
    <3>1. Len(issued) \in Nat
      BY DEF Coherent, RowsAreRows
    <3>. QED  BY <1>3, <1>5, <1>10, <2>2, <3>1
  <2>3. \A k \in 1..Len(d.roles) : k <= Len(found) => object(found, k).id \in DOMAIN issued
    BY <1>5, <1>8
  <2>4. (i > Len(found)) <=> (j > Len(found))
    <3>. HIDE DEF object
    <3>. QED  BY <1>3, <1>5, <1>9, <1>10, <2>3
  <2>. QED  BY <1>3, <1>5, <2>1, <2>2, <2>4
<1>11. ASSUME NEW x, x = objects(found)
       PROVE  ObjectsAgree(a, x)'
  <2>1. /\ DOMAIN objects(found) = 1..Len(d.roles)
        /\ \A i \in 1..Len(d.roles) : objects(found)[i] = object(found, i)
    OBVIOUS
  <2>2. /\ \A b, t : Timely(b, t) => Timely(b, t)'
        /\ \A id, row : Unchanged(id, row) => Unchanged(id, row)'
    BY <1>2 DEF Timely, Steady, Unchanged
  <2>3. (crossed' = crossed)
    BY <1>4
  <2>. HIDE DEF objects, object
  <2>. QED  BY <1>9, <1>10, <1>11, <2>1, <2>2, <2>3 DEF ObjectsAgree, ObjectAgrees
<1>12. \A r \in removed(found) : IsRowOf(a, r)'
  <2>1. \A r \in removed(found) : r \in RolesOf(a)
    BY <1>3, <1>5
  <2>. HIDE DEF removed
  <2>. QED  BY <1>6, <1>8, <2>1 DEF IsRowOf
<1>13. ApplicantAgrees(p)'
  <2>1. /\ data(found).applicant = a /\ data(found).objects = objects(found)
        /\ data(found).removed = removed(found)
    OBVIOUS
  <2>2. \A b : (IsApplicant(b) => IsApplicant(b)') /\ (NoneNamed(b) => NoneNamed(b)')
    BY <1>2, <1>4 DEF IsApplicant, NoneNamed, RolesOf, Steady
  <2>. HIDE DEF data, objects, object, removed, d
  <2>. QED  BY <1>3, <1>4, <1>11, <1>12, <2>1, <2>2 DEF ApplicantAgrees, At
<1>14. SettingAgrees(p)' /\ "loadSelected" \in ApplicantSteps
  BY <1>4, NoSettingRequest DEF SettingSteps, ApplicantSteps
<1>. HIDE DEF data
<1>. QED  BY <1>1, <1>2, <1>7, <1>13, <1>14, GoQuietly

LEMMA LoadSelectedKeeps ==
  ASSUME Coherent, NEW p \in Requests, LoadSelected(p)
  PROVE  Coherent'
<1>. DEFINE d == Data(p)
<1>. SUFFICES ASSUME NEW a, a = d.applicant
              PROVE  Coherent'
  OBVIOUS
<1>. DEFINE stored(o) == o.id \in DOMAIN selected
            differ(o) == {c \in Columns : o.row[c] # selected[o.id][c]}
            change(o) == [id |-> o.id, insert |-> ~stored(o), row |-> o.row,
                          columns |-> IF stored(o) THEN differ(o) ELSE {}]
            changes == [i \in DOMAIN d.objects |-> change(d.objects[i])]
            data == [applicant |-> a, removed |-> d.removed, changes |-> changes]
<1>1. /\ pc[p] = "loadSelected" /\ InFlight(p) /\ UNCHANGED recruitmentVars
      /\ Go(p, "writeSelected", data)
  BY DEF LoadSelected, At, InFlight
<1>2. /\ IsApplicant(a) /\ req[p].about = {Of(a)} /\ NoneNamed(a)
      /\ ObjectsAgree(a, d.objects) /\ \A r \in d.removed : IsRowOf(a, r)
  BY <1>1 DEF Coherent, ApplicantAgrees, ApplicantSteps, At
<1>3. /\ pc'[p] = "writeSelected" /\ req'[p].about = {Of(a)} /\ Data(p)' = data
      /\ crossed' = crossed
  <2>. HIDE DEF data, d
  <2>. QED  BY <1>1, <1>2, GoStep DEF Coherent, Go, Data
<1>4. ASSUME NEW o, ObjectAgrees(a, o.id, o.row)
      PROVE  /\ ObjectAgrees(a, change(o).id, change(o).row)
             /\ change(o).insert \in BOOLEAN /\ change(o).columns \subseteq Columns
             /\ Unchanged(o.id, o.row) =>
                  IF change(o).insert THEN Unoffered(change(o).row)
                                      ELSE change(o).columns \subseteq {"rank", "role"}
  <2>1. /\ change(o).id = o.id /\ change(o).row = o.row
        /\ change(o).insert = ~stored(o)
        /\ change(o).columns = IF stored(o) THEN differ(o) ELSE {}
    OBVIOUS
  <2>2. differ(o) \subseteq Columns
    OBVIOUS
  <2>3. ASSUME stored(o), Unchanged(o.id, o.row)
        PROVE  differ(o) \subseteq {"rank", "role"}
    BY <2>3 DEF Unchanged, Columns
  <2>4. ~stored(o) /\ Unchanged(o.id, o.row) => Unoffered(o.row)
    BY DEF Unchanged
  <2>. HIDE DEF change, differ
  <2>. QED  BY <1>4, <2>1, <2>2, <2>3, <2>4
<1>5. /\ DOMAIN changes = DOMAIN d.objects
      /\ \A i \in DOMAIN d.objects : changes[i] = change(d.objects[i])
  OBVIOUS
<1>6. ChangesAgree(a, changes)
  <2>1. \A i \in DOMAIN d.objects : changes[i].id = d.objects[i].id
    BY <1>5
  <2>. HIDE DEF changes, change, d
  <2>. QED  BY <1>2, <1>4, <1>5, <2>1 DEF ObjectsAgree, ChangesAgree
<1>7. ApplicantAgrees(p)'
  <2>1. /\ data.applicant = a /\ data.removed = d.removed /\ data.changes = changes
    OBVIOUS
  <2>2. \A b : /\ IsApplicant(b) => IsApplicant(b)'
               /\ NoneNamed(b) => NoneNamed(b)'
               /\ \A r : IsRowOf(b, r) => IsRowOf(b, r)'
    BY <1>1, <1>3 DEF IsApplicant, NoneNamed, RolesOf, Steady, IsRowOf, recruitmentVars
  <2>3. \A x : ChangesAgree(a, x) => ChangesAgree(a, x)'
    BY <1>1, <1>3 DEF ChangesAgree, ObjectAgrees, Timely, Steady, recruitmentVars
  <2>. HIDE DEF data, changes, d
  <2>. QED  BY <1>2, <1>3, <1>6, <2>1, <2>2, <2>3 DEF ApplicantAgrees, At
<1>8. SettingAgrees(p)' /\ "writeSelected" \in ApplicantSteps
  BY <1>3, NoSettingRequest DEF SettingSteps, ApplicantSteps
<1>9. IdsStay /\ RowsAreRows'
  BY <1>1, SameIds DEF Coherent, RowsAreRows, recruitmentVars, IsApplicant
<1>. HIDE DEF data
<1>. QED  BY <1>1, <1>7, <1>8, <1>9, GoQuietly DEF recruitmentVars

(***************************************************************************)
(* Applicants: what is written                                             *)
(***************************************************************************)

LEMMA RoleStepKeeps ==
  ASSUME Coherent, NEW p \in Requests, pc[p] \in ApplicantSteps, Finish(p),
         UNCHANGED <<now, setting, applicants, issued>>,
         NEW a, a = Data(p).applicant, OnlyOf(a), DOMAIN selected' \subseteq DOMAIN issued,
         \A r \in DOMAIN selected' :
           issued[r] = a =>
             IsRole(selected'[r]) /\ selected'[r].applicant = a /\ RowAgrees(selected'[r]),
         Of(a) \notin crossed =>
           \A r1, r2 \in DOMAIN selected' :
             /\ issued[r1] = a /\ issued[r2] = a
             /\ selected'[r1].accepted /\ selected'[r2].accepted
             => r1 = r2
  PROVE  Coherent'
<1>1. /\ Sent' /\ Alone' /\ Others(p) /\ crossed' = crossed /\ broken' = broken
      /\ pc'[p] = "done" /\ req'[p] = Blank
  BY FinishAlone DEF Coherent, Sent, Finish
<1>2. RowsAreRows /\ RolesAgree /\ UNCHANGED <<crossed, setting, issued, now>>
  BY <1>1 DEF Coherent
<1>3. RowsAreRows' /\ RolesAgree'
  BY <1>2, ChangedRoles
<1>4. req[p].about = {Of(a)} /\ InFlight(p)
  BY DEF Coherent, ApplicantAgrees, ApplicantSteps, InFlight
<1>5. SettingsStay
  BY SameSettings
<1>6. OneActive'
  <2>1. \A b : Of(b) # <<"settings">>
    BY DEF Of
  <2>2. Idle' => Idle
    BY <1>1, <1>4, <2>1 DEF Idle, Others
  <2>. QED  BY <1>1, <2>2, OneActiveStays DEF Coherent
<1>7. Underway(p)' /\ SettingAgrees(p)' /\ ApplicantAgrees(p)'
  BY <1>1, NoSettingRequest, NoApplicantRequest
     DEF Underway, InFlight, SettingSteps, ApplicantSteps, Blank
<1>8. ASSUME NEW q \in Requests, q # p
      PROVE  Underway(q)' /\ SettingAgrees(q)' /\ ApplicantAgrees(q)'
  <2>1. pc'[q] = pc[q] /\ req'[q] = req[q]
    BY <1>1, <1>8 DEF Others
  <2>2. Underway(q)'
    BY <2>1 DEF Coherent, Underway, InFlight
  <2>3. SettingAgrees(q)'
    BY <1>1, <1>5, <2>1, OtherSettingRequest DEF Coherent
  <2>4. pc[q] \in ApplicantSteps /\ Data(q).applicant = a => Of(a) \in crossed
    <3>1. pc[q] \in ApplicantSteps /\ Data(q).applicant = a =>
            req[q].about = {Of(a)} /\ InFlight(q)
      BY DEF Coherent, ApplicantAgrees, ApplicantSteps, InFlight
    <3>. QED  BY <1>4, <1>8, <3>1 DEF Coherent, Alone
  <2>5. ApplicantAgrees(q)
    BY DEF Coherent
  <2>6. ApplicantAgrees(q)'
    BY <1>2, <1>3, <2>1, <2>4, <2>5, OtherRoles
  <2>. QED  BY <2>2, <2>3, <2>6
<1>. QED  BY <1>1, <1>3, <1>6, <1>7, <1>8 DEF Coherent

LEMMA OfferApplicantRoleKeeps ==
  ASSUME Coherent, NEW p \in Requests, OfferApplicantRole(p)
  PROVE  Coherent'
<1>. DEFINE d == Data(p)
<1>. SUFFICES ASSUME NEW a, a = d.applicant
              PROVE  Coherent'
  OBVIOUS
<1>. DEFINE mark(r) == IF d.expires # None /\ now > setting[selected[r].applicant[2]].close
                         THEN d.role ELSE None
            new(r) == [selected[r] EXCEPT !.expires = d.expires, !.answered = None,
                                          !.accepted = FALSE, !.named = mark(r)]
<1>1. /\ pc[p] = "offerApplicantRole" /\ Finish(p)
      /\ UNCHANGED <<now, setting, applicants, issued>>
      /\ selected' = [r \in DOMAIN selected |-> IF r # d.row THEN selected[r] ELSE new(r)]
  BY DEF OfferApplicantRole, At
<1>2. /\ IsApplicant(a) /\ IsRowOf(a, d.row) /\ d.expires \in Times \cup {None}
      /\ Of(a) \notin crossed /\ d.row \in DOMAIN selected => selected[d.row].role = d.role
  BY <1>1 DEF Coherent, ApplicantAgrees, ApplicantSteps, At
<1>3. \A r \in DOMAIN selected : /\ IsRole(selected[r]) /\ selected[r].applicant = issued[r]
                                 /\ r \in DOMAIN issued /\ RowAgrees(selected[r])
  BY DEF Coherent, RowsAreRows, RolesAgree
<1>4. /\ DOMAIN selected' = DOMAIN selected
      /\ \A r \in DOMAIN selected : r # d.row => selected'[r] = selected[r]
      /\ d.row \in DOMAIN selected => selected'[d.row] = new(d.row)
  BY <1>1
<1>5. ASSUME d.row \in DOMAIN selected
      PROVE  IsRole(new(d.row)) /\ new(d.row).applicant = a /\ RowAgrees(new(d.row))
             /\ ~new(d.row).accepted
  <2>. DEFINE row == new(d.row)
  <2>1. selected[d.row].applicant = a /\ IsRole(selected[d.row])
    BY <1>2, <1>3, <1>5 DEF IsRowOf
  <2>2. /\ DOMAIN row = DOMAIN selected[d.row] /\ row.applicant = a
        /\ row.expires = d.expires /\ row.answered = None /\ row.accepted = FALSE
        /\ row.named = mark(d.row) /\ row.role = selected[d.row].role
    BY <2>1 DEF IsRole
  <2>3. row.named # None => row.named = d.role /\ now > setting[a[2]].close
    BY <2>1, <2>2
  <2>. HIDE DEF row, d
  <2>4. IsRole(row)
    BY <1>2, <2>1, <2>2 DEF IsRole
  <2>5. RowAgrees(row)
    BY <1>2, <1>5, <2>2, <2>3 DEF RowAgrees, Timely
  <2>. QED  BY <2>2, <2>4, <2>5 DEF row
<1>. HIDE DEF new
<1>6. OnlyOf(a)
  BY <1>2, <1>4 DEF OnlyOf, IsRowOf
<1>7. \A r \in DOMAIN selected' :
        issued[r] = a =>
          IsRole(selected'[r]) /\ selected'[r].applicant = a /\ RowAgrees(selected'[r])
  BY <1>3, <1>4, <1>5
<1>8. \A r \in DOMAIN selected' : selected'[r].accepted =>
        r \in DOMAIN selected /\ selected[r].accepted
  BY <1>4, <1>5
<1>9. Of(a) \notin crossed =>
        \A r1, r2 \in DOMAIN selected' :
          /\ issued[r1] = a /\ issued[r2] = a
          /\ selected'[r1].accepted /\ selected'[r2].accepted
          => r1 = r2
  BY <1>3, <1>8 DEF Coherent, RolesAgree
<1>10. DOMAIN selected' \subseteq DOMAIN issued
  BY <1>3, <1>4
<1>. QED  BY <1>1, <1>6, <1>7, <1>9, <1>10, RoleStepKeeps DEF ApplicantSteps

LEMMA WriteAnswerKeeps ==
  ASSUME Coherent, NEW p \in Requests, WriteAnswer(p)
  PROVE  Coherent'
<1>. DEFINE d == Data(p)
<1>. SUFFICES ASSUME NEW a, a = d.applicant
              PROVE  Coherent'
  OBVIOUS
<1>. DEFINE new(r) == [selected[r] EXCEPT !.accepted = d.accept, !.answered = d.at]
<1>1. /\ pc[p] = "writeAnswer" /\ Finish(p) /\ UNCHANGED <<now, setting, applicants, issued>>
      /\ selected' = [r \in DOMAIN selected |-> IF r # d.row THEN selected[r] ELSE new(r)]
  BY DEF WriteAnswer, At
<1>2. /\ IsApplicant(a) /\ IsRowOf(a, d.row) /\ d.at \in Times /\ Open(a, d.at)
      /\ d.accept \in BOOLEAN /\ (d.accept => NoneAccepted(a))
      /\ Of(a) \notin crossed /\ d.row \in DOMAIN selected => InTime(selected[d.row], d.at)
  BY <1>1 DEF Coherent, ApplicantAgrees, ApplicantSteps, At
<1>3. \A r \in DOMAIN selected : /\ IsRole(selected[r]) /\ selected[r].applicant = issued[r]
                                 /\ r \in DOMAIN issued /\ RowAgrees(selected[r])
  BY DEF Coherent, RowsAreRows, RolesAgree
<1>4. /\ DOMAIN selected' = DOMAIN selected
      /\ \A r \in DOMAIN selected : r # d.row => selected'[r] = selected[r]
      /\ d.row \in DOMAIN selected => selected'[d.row] = new(d.row)
  BY <1>1
<1>5. ASSUME d.row \in DOMAIN selected
      PROVE  IsRole(new(d.row)) /\ new(d.row).applicant = a /\ RowAgrees(new(d.row))
             /\ new(d.row).accepted = d.accept
  <2>. DEFINE row == new(d.row)
              old == selected[d.row]
  <2>1. old.applicant = a /\ IsRole(old) /\ RowAgrees(old)
    BY <1>2, <1>3, <1>5 DEF IsRowOf
  <2>2. /\ DOMAIN row = DOMAIN old /\ row.applicant = a
        /\ row.expires = old.expires /\ row.answered = d.at /\ row.accepted = d.accept
        /\ row.named = old.named /\ row.role = old.role
    BY <2>1 DEF IsRole
  <2>. HIDE DEF row, d
  <2>3. IsRole(row)
    BY <1>2, <2>1, <2>2 DEF IsRole
  <2>4. RowAgrees(row)
    BY <1>2, <1>5, <2>1, <2>2 DEF RowAgrees, Timely, Open, InTime
  <2>. QED  BY <2>2, <2>3, <2>4 DEF row
<1>. HIDE DEF new
<1>6. OnlyOf(a)
  BY <1>2, <1>4 DEF OnlyOf, IsRowOf
<1>7. \A r \in DOMAIN selected' :
        issued[r] = a =>
          IsRole(selected'[r]) /\ selected'[r].applicant = a /\ RowAgrees(selected'[r])
  BY <1>3, <1>4, <1>5
<1>8. \A r \in DOMAIN selected' : selected'[r].accepted =>
        r \in DOMAIN selected /\ (selected[r].accepted \/ (r = d.row /\ d.accept))
  BY <1>4, <1>5
<1>9. ASSUME Of(a) \notin crossed, NEW r1 \in DOMAIN selected', NEW r2 \in DOMAIN selected',
             issued[r1] = a, issued[r2] = a, selected'[r1].accepted, selected'[r2].accepted
      PROVE  r1 = r2
  <2>1. r1 \in RolesOf(a) /\ r2 \in RolesOf(a)
    BY <1>3, <1>4, <1>9 DEF RolesOf
  <2>2. CASE d.accept
    BY <1>2, <1>8, <1>9, <2>1, <2>2 DEF NoneAccepted
  <2>3. CASE ~d.accept
    BY <1>3, <1>8, <1>9, <2>3 DEF Coherent, RolesAgree
  <2>. QED  BY <2>2, <2>3
<1>10. DOMAIN selected' \subseteq DOMAIN issued
  BY <1>3, <1>4
<1>. QED  BY <1>1, <1>6, <1>7, <1>9, <1>10, RoleStepKeeps DEF ApplicantSteps

(* A row that is inserted, or whose columns are replaced *)
LEMMA SavedRow ==
  ASSUME RowsAreRows, RolesAgree, NEW a, IsApplicant(a), NoneNamed(a),
         NEW c, ObjectAgrees(a, c.id, c.row), c.columns \subseteq Columns,
         Of(a) \notin crossed =>
           IF c.insert THEN Unoffered(c.row) ELSE c.columns \subseteq {"rank", "role"},
         NEW r, r = c.id, ~c.insert => r \in DOMAIN selected,
         NEW row,
         row = IF c.insert THEN c.row
               ELSE Edited(selected[r], [k \in c.columns |-> c.row[k]])
  PROVE  /\ IsRole(row) /\ row.applicant = a /\ RowAgrees(row)
         /\ Of(a) \notin crossed /\ row.accepted => ~c.insert /\ selected[r].accepted
<1>1. CASE c.insert
  BY <1>1 DEF ObjectAgrees, RowAgrees, Unoffered
<1>2. CASE ~c.insert
  <2>. DEFINE old == selected[r]
  <2>1. r \in DOMAIN selected /\ IsRole(old) /\ old.applicant = a /\ RowAgrees(old)
    BY <1>2 DEF RowsAreRows, RolesAgree, ObjectAgrees
  <2>2. /\ DOMAIN row = DOMAIN old
        /\ \A k \in DOMAIN old : row[k] = IF k \in c.columns THEN c.row[k] ELSE old[k]
    BY <1>2 DEF Edited
  <2>3. row.applicant = a /\ row.named = old.named
    BY <2>1, <2>2 DEF Columns, IsRole
  <2>4. IsRole(row)
    BY <2>1, <2>2 DEF IsRole, ObjectAgrees, Columns
  <2>5. Timely(a, row.answered)
    BY <2>1, <2>2 DEF IsRole, ObjectAgrees, RowAgrees
  <2>6. Of(a) \notin crossed =>
          /\ row.expires = old.expires /\ row.answered = old.answered
          /\ row.accepted = old.accepted
    BY <1>2, <2>1, <2>2 DEF IsRole
  <2>7. Of(a) \notin crossed /\ Steady(a) => row.named = None
    BY <2>1, <2>3 DEF NoneNamed, RolesOf
  <2>8. RowAgrees(row)
    BY <2>1, <2>3, <2>5, <2>6, <2>7 DEF RowAgrees, InTime
  <2>. QED  BY <1>2, <2>3, <2>4, <2>6, <2>8
<1>. QED  BY <1>1, <1>2

(* The table of roles after the deletes, the inserts and the updates. *)
Written(changes, removed) ==
  LET kept == DOMAIN selected \ removed
      inserted == {changes[i].id : i \in {i \in DOMAIN changes : changes[i].insert}}
      change(r) == changes[CHOOSE i \in DOMAIN changes : changes[i].id = r]
      updates(n) == {changes[i].id : i \in {i \in DOMAIN changes : i <= n /\ ~changes[i].insert}}
  IN [r \in kept \cup inserted |->
        IF r \in inserted THEN change(r).row
        ELSE IF r \in updates(Len(changes))
          THEN Edited(selected[r], [c \in change(r).columns |-> change(r).row[c]])
        ELSE selected[r]]

(* The transaction commits all of it or, for a name taken twice, nothing. *)
LEMMA AllIsWrittenOrNone ==
  ASSUME NEW p \in Requests, WriteSelected(p)
  PROVE  selected' \in {Written(Data(p).changes, Data(p).removed), selected}
<1>1. selected' = Written(Data(p).changes, Data(p).removed) \/ selected' = selected
  BY Zenon DEF WriteSelected, Written
<1>. QED  BY <1>1

LEMMA WriteSelectedKeeps ==
  ASSUME Coherent, NEW p \in Requests, WriteSelected(p)
  PROVE  Coherent'
<1>. SUFFICES ASSUME NEW a, a = Data(p).applicant, NEW changes, changes = Data(p).changes,
                     NEW removed, removed = Data(p).removed
              PROVE  Coherent'
  OBVIOUS
<1>. DEFINE kept == DOMAIN selected \ removed
            inserted == {changes[i].id : i \in {i \in DOMAIN changes : changes[i].insert}}
            change(r) == changes[CHOOSE i \in DOMAIN changes : changes[i].id = r]
            updates(n) ==
              {changes[i].id : i \in {i \in DOMAIN changes : i <= n /\ ~changes[i].insert}}
            redone(r) == Edited(selected[r], [c \in change(r).columns |-> change(r).row[c]])
            table(n) == [r \in kept \cup inserted |->
                           IF r \in inserted THEN change(r).row
                           ELSE IF r \in updates(n) THEN redone(r) ELSE selected[r]]
            N == Len(changes)
<1>1. /\ pc[p] = "writeSelected" /\ Finish(p) /\ UNCHANGED <<now, setting, applicants, issued>>
      /\ selected' \in {table(N), selected}
  <2>1. selected' \in {Written(changes, removed), selected}
    BY AllIsWrittenOrNone
  <2>2. Written(changes, removed) = table(N)
    BY Zenon DEF Written
  <2>3. pc[p] = "writeSelected" /\ Finish(p) /\ UNCHANGED <<now, setting, applicants, issued>>
    BY DEF WriteSelected, At
  <2>. HIDE DEF table, N
  <2>. QED  BY <2>1, <2>2, <2>3
<1>2. /\ IsApplicant(a) /\ NoneNamed(a) /\ ChangesAgree(a, changes)
      /\ \A r \in removed : IsRowOf(a, r)
  BY <1>1 DEF Coherent, ApplicantAgrees, ApplicantSteps, At
<1>3. \A r \in DOMAIN selected : /\ IsRole(selected[r]) /\ selected[r].applicant = issued[r]
                                 /\ r \in DOMAIN issued /\ RowAgrees(selected[r])
  BY DEF Coherent, RowsAreRows, RolesAgree
<1>4. ASSUME NEW r, r \in inserted \/ r \in updates(N)
      PROVE  \E i \in DOMAIN changes :
               /\ change(r) = changes[i] /\ r = changes[i].id
               /\ changes[i].insert <=> r \in inserted
  <2>1. \E i \in DOMAIN changes : changes[i].id = r
    BY <1>4
  <2>2. PICK i \in DOMAIN changes : i = CHOOSE j \in DOMAIN changes : changes[j].id = r
    BY <2>1
  <2>3. changes[i].id = r /\ change(r) = changes[i]
    BY <2>1, <2>2
  <2>4. \A j \in DOMAIN changes : changes[j].id = r => j = i
    BY <1>2, <2>3 DEF ChangesAgree
  <2>. QED  BY <1>4, <2>3, <2>4
<1>5. ASSUME NEW r, r \in inserted \/ r \in updates(N)
      PROVE  r \in DOMAIN issued /\ issued[r] = a
  <2>1. PICK i \in DOMAIN changes : r = changes[i].id
    BY <1>4, <1>5
  <2>. QED  BY <1>2, <2>1 DEF ChangesAgree, ObjectAgrees
<1>6. ASSUME NEW r, r \in inserted \/ (r \in updates(N) /\ r \in DOMAIN selected),
             NEW row, row = IF r \in inserted THEN change(r).row ELSE redone(r)
      PROVE  /\ IsRole(row) /\ row.applicant = a /\ RowAgrees(row)
             /\ Of(a) \notin crossed /\ row.accepted => r \notin inserted /\ selected[r].accepted
  <2>1. PICK i \in DOMAIN changes :
          /\ change(r) = changes[i] /\ r = changes[i].id
          /\ changes[i].insert <=> r \in inserted
    <3>. HIDE DEF change, redone, inserted, updates
    <3>. QED  BY <1>4, <1>6
  <2>. SUFFICES ASSUME NEW c, c = changes[i]
                PROVE  /\ IsRole(row) /\ row.applicant = a /\ RowAgrees(row)
                       /\ Of(a) \notin crossed /\ row.accepted =>
                            ~c.insert /\ selected[r].accepted
    BY <2>1
  <2>2. /\ ObjectAgrees(a, c.id, c.row) /\ c.columns \subseteq Columns
        /\ Of(a) \notin crossed =>
             IF c.insert THEN Unoffered(c.row) ELSE c.columns \subseteq {"rank", "role"}
    BY <1>2 DEF ChangesAgree
  <2>3. row = IF c.insert THEN c.row
              ELSE Edited(selected[r], [k \in c.columns |-> c.row[k]])
    BY <1>6, <2>1
  <2>. HIDE DEF change, redone, inserted, updates
  <2>. QED  BY <1>2, <1>6, <2>1, <2>2, <2>3, SavedRow DEF Coherent
<1>7. CASE selected' = selected
  <2>1. OnlyOf(a)
    BY <1>7 DEF OnlyOf
  <2>2. \A r \in DOMAIN selected' :
          issued[r] = a =>
            IsRole(selected'[r]) /\ selected'[r].applicant = a /\ RowAgrees(selected'[r])
    BY <1>3, <1>7
  <2>3. Of(a) \notin crossed =>
          \A r1, r2 \in DOMAIN selected' :
            /\ issued[r1] = a /\ issued[r2] = a
            /\ selected'[r1].accepted /\ selected'[r2].accepted
            => r1 = r2
    BY <1>3, <1>7 DEF Coherent, RolesAgree
  <2>4. DOMAIN selected' \subseteq DOMAIN issued
    BY <1>3, <1>7
  <2>. QED  BY <1>1, <2>1, <2>2, <2>3, <2>4, RoleStepKeeps DEF ApplicantSteps
<1>8. CASE selected' = table(N)
  <2>1. /\ DOMAIN selected' = kept \cup inserted
        /\ \A r \in kept \cup inserted : selected'[r] =
             IF r \in inserted THEN change(r).row
             ELSE IF r \in updates(N) THEN redone(r) ELSE selected[r]
    <3>. HIDE DEF kept, inserted, change, redone, updates, N
    <3>. QED  BY <1>8
  <2>. HIDE DEF inserted, change, redone, updates, N
  <2>2. OnlyOf(a)
    BY <1>2, <1>5, <2>1 DEF OnlyOf, IsRowOf
  <2>3. ASSUME NEW r \in DOMAIN selected', issued[r] = a
        PROVE  /\ IsRole(selected'[r]) /\ selected'[r].applicant = a /\ RowAgrees(selected'[r])
               /\ Of(a) \notin crossed /\ selected'[r].accepted =>
                    r \in DOMAIN selected /\ selected[r].accepted
    <3>1. CASE r \in inserted \/ (r \in updates(N) /\ r \in DOMAIN selected)
      <4>1. selected'[r] = IF r \in inserted THEN change(r).row ELSE redone(r)
        BY <2>1, <3>1
      <4>2. /\ IsRole(selected'[r]) /\ selected'[r].applicant = a /\ RowAgrees(selected'[r])
            /\ Of(a) \notin crossed /\ selected'[r].accepted =>
                 r \notin inserted /\ selected[r].accepted
        BY <1>6, <3>1, <4>1
      <4>. QED  BY <3>1, <4>2
    <3>2. CASE r \notin inserted /\ r \notin updates(N)
      BY <1>3, <2>1, <2>3, <3>2
    <3>. QED  BY <2>1, <3>1, <3>2
  <2>4. Of(a) \notin crossed =>
          \A r1, r2 \in DOMAIN selected' :
            /\ issued[r1] = a /\ issued[r2] = a
            /\ selected'[r1].accepted /\ selected'[r2].accepted
            => r1 = r2
    BY <1>3, <2>3 DEF Coherent, RolesAgree
  <2>5. DOMAIN selected' \subseteq DOMAIN issued
    BY <1>3, <1>5, <2>1
  <2>. QED  BY <1>1, <2>2, <2>3, <2>4, <2>5, RoleStepKeeps DEF ApplicantSteps
<1>. HIDE DEF table
<1>. QED  BY <1>1, <1>7, <1>8

(***************************************************************************)
(* All together                                                            *)
(***************************************************************************)

LEMMA PassTimeKeeps ==
  ASSUME Coherent, PassTime
  PROVE  Coherent'
<1>1. /\ UNCHANGED <<serverVars, setting, applicants, selected, issued>>
      /\ now' \in Times /\ now <= now'
  BY RecruitmentAssumption DEF PassTime, Coherent, RowsAreRows, Times
<1>2. UNCHANGED <<area, pc, req, crossed, broken>>
  BY <1>1 DEF serverVars
<1>3. SettingsStay /\ IdsStay
  BY <1>1, SameSettings, SameIds
<1>4. RowsAreRows'
  BY <1>1 DEF Coherent, RowsAreRows, IsApplicant
<1>5. RolesAgree'
  BY <1>1, <1>2, <1>3, SameRoles DEF Coherent
<1>6. ASSUME NEW q \in Requests
      PROVE  Underway(q)' /\ SettingAgrees(q)' /\ ApplicantAgrees(q)'
  <2>1. Underway(q)'
    BY <1>2 DEF Coherent, Underway, InFlight
  <2>2. SettingAgrees(q)'
    BY <1>1, <1>2, <1>3, OtherSettingRequest DEF Coherent
  <2>3. ApplicantAgrees(q)'
    BY <1>1, <1>2, <1>3, OtherApplicantRequest DEF Coherent
  <2>. QED  BY <2>1, <2>2, <2>3
<1>7. Sent' /\ Alone' /\ OneActive'
  BY <1>1, <1>2 DEF Coherent, Sent, Alone, InFlight, OneActive, Idle, Standing, Active
<1>. QED  BY <1>4, <1>5, <1>6, <1>7 DEF Coherent

LEMMA RequestKeeps ==
  ASSUME Coherent, NEW p \in Requests, RecruitmentNext(p)
  PROVE  Coherent'
BY CreateSettingKeeps, UpdateSettingKeeps, DeactivateKeeps, InsertSettingKeeps,
   LoadSettingKeeps, WriteSettingKeeps, CreateApplicantKeeps, InsertApplicantKeeps,
   SelectRolesKeeps, BeginSelectKeeps, FindSelectedKeeps, LoadSelectedKeeps,
   WriteSelectedKeeps, OfferApplicantKeeps, OfferApplicantRoleKeeps, DecideOfferKeeps,
   BeginDecideKeeps, CheckReadyKeeps, FindRoleKeeps, WriteAnswerKeeps
   DEF RecruitmentNext

LEMMA AreaStays == [Next]_vars => area' = area
BY DEF Next, vars, serverVars, Handle, Crash, Environment, OutsideOfScheduler,
  OutsideOfRecruitment, OutsideOfRegistration, OutsideOfMembers, OutsideOfDiscordSync,
  OutsideOfAlbums, OutsideOfProfilePhotos, OutsideOfPhotoStream, OutsideOfForms,
  OutsideOfActivities, OutsideOfDirectory, OutsideOfAnnouncements

LEMMA RecruitmentInvKeeps == RecruitmentInv /\ [Next]_vars => RecruitmentInv'
<1>. SUFFICES ASSUME RecruitmentInv, [Next]_vars  PROVE RecruitmentInv'
  OBVIOUS
<1>1. area' = area
  BY AreaStays
<1>2. CASE area = "recruitment" /\ \E p \in Requests : RecruitmentNext(p)
  BY <1>1, <1>2, RequestKeeps DEF RecruitmentInv
<1>3. CASE area = "recruitment" /\ PassTime
  BY <1>1, <1>3, PassTimeKeeps DEF RecruitmentInv
<1>4. CASE UNCHANGED recruitmentVars /\ \E p \in Requests : Die(p)
  <2>1. area = "recruitment" => Coherent'
    BY <1>4, EndQuietly DEF RecruitmentInv, recruitmentVars
  <2>. QED  BY <1>1, <1>4, <2>1 DEF RecruitmentInv, recruitmentVars
<1>5. CASE area # "recruitment" /\ UNCHANGED <<area, recruitmentVars>>
  BY <1>5 DEF RecruitmentInv, recruitmentVars
<1>6. CASE UNCHANGED <<serverVars, recruitmentVars>>
  <2>1. UNCHANGED <<area, pc, req, crossed, broken, now, setting, applicants, selected, issued>>
    BY <1>6 DEF serverVars, recruitmentVars
  <2>2. Coherent => Coherent'
    <3>. SUFFICES ASSUME Coherent  PROVE Coherent'
      OBVIOUS
    <3>1. SettingsStay /\ IdsStay /\ now \in Times /\ now <= now'
      BY <2>1, SameSettings, SameIds DEF Coherent, RowsAreRows, Times
    <3>2. RowsAreRows'
      BY <2>1 DEF Coherent, RowsAreRows, IsApplicant
    <3>3. RolesAgree'
      BY <2>1, <3>1, SameRoles DEF Coherent
    <3>4. ASSUME NEW q \in Requests
          PROVE  Underway(q)' /\ SettingAgrees(q)' /\ ApplicantAgrees(q)'
      <4>1. Underway(q)'
        BY <2>1 DEF Coherent, Underway, InFlight
      <4>2. SettingAgrees(q)'
        BY <2>1, <3>1, OtherSettingRequest DEF Coherent
      <4>3. ApplicantAgrees(q)'
        BY <2>1, <3>1, OtherApplicantRequest DEF Coherent
      <4>. QED  BY <4>1, <4>2, <4>3
    <3>5. Sent' /\ Alone' /\ OneActive'
      BY <2>1 DEF Coherent, Sent, Alone, InFlight, OneActive, Idle, Standing, Active
    <3>. QED  BY <3>2, <3>3, <3>4, <3>5 DEF Coherent
  <2>. QED  BY <2>1, <2>2 DEF RecruitmentInv
<1>. QED  BY <1>2, <1>3, <1>4, <1>5, <1>6, RecruitmentSteps

LEMMA RecruitmentInvAtFirst == Init => RecruitmentInv
<1>. SUFFICES ASSUME Init  PROVE RecruitmentInv
  OBVIOUS
<1>1. InitRequests /\ InitRecruitment
  BY DEF Init
<1>2. CASE area # "recruitment"
  BY <1>1, <1>2 DEF InitRecruitment, RecruitmentInv
<1>3. CASE area = "recruitment"
  <2>1. /\ now \in Times /\ setting \in OldSettings
        /\ applicants \in SUBSET (Profiles \X DOMAIN setting)
    BY <1>1, <1>3 DEF InitRecruitment
  <2>2. /\ DOMAIN setting \subseteq Settings
        /\ \A s \in DOMAIN setting : IsSetting(setting[s]) /\ setting[s].touched = {}
        /\ \E s \in DOMAIN setting : \A t \in DOMAIN setting : setting[t].active <=> t = s
    <3>1. /\ DOMAIN setting \subseteq Settings
          /\ \A s \in DOMAIN setting : setting[s] \in Setting /\ setting[s].touched = {}
          /\ \E s \in DOMAIN setting : \A t \in DOMAIN setting : setting[t].active <=> t = s
      BY <2>1, RecruitmentAssumption, Zenon
    <3>2. \A row \in Setting : IsSetting(row)
      BY DEF Setting, IsSetting, Marks
    <3>. QED  BY <3>1, <3>2
  <2>3. \A p \in Requests : pc[p] = "new" /\ req[p] = Blank /\ ~InFlight(p)
    BY <1>1 DEF InitRequests, InFlight
  <2>4. Sent /\ Alone /\ \A p \in Requests : Underway(p)
    BY <1>1, <2>3, SentAtFirst DEF Alone, Underway, Blank
  <2>5. \A p \in Requests : SettingAgrees(p) /\ ApplicantAgrees(p)
    BY <2>3 DEF SettingAgrees, ApplicantAgrees, SettingSteps, ApplicantSteps, Activates, At
  <2>6. OneActive
    <3>1. (\A s, t \in Active : s = t) /\ Active # {}
      BY <2>2 DEF Active
    <3>. QED  BY <3>1 DEF OneActive, Standing
  <2>7. RowsAreRows /\ RolesAgree
    <3>1. CASE selected = <<>> /\ issued = <<>>
      BY <2>1, <2>2, <3>1 DEF RowsAreRows, RolesAgree
    <3>. DEFINE answers(a, deadline) == {None} \cup
                  {t \in Deadlines \cap {deadline} : setting[a[2]].announce <= t /\ t <= now}
                rows(a, deadline, roles, reply) ==
                  [i \in 1..Len(roles) |->
                     [NewRole(a, roles[i], i - 1) EXCEPT
                        !.expires = deadline,
                        !.answered = IF i = 1 THEN reply ELSE None,
                        !.accepted = i = 1 /\ reply # None]]
                lists == {<<r>> : r \in Roles} \cup {rs \in Roles \X Roles : rs[1] # rs[2]}
    <3>2. ASSUME NEW a \in applicants, NEW deadline \in Deadlines \cup {None},
                 NEW roles \in lists, issued = [i \in 1..Len(roles) |-> a],
                 NEW reply \in answers(a, deadline),
                 selected = rows(a, deadline, roles, reply)
          PROVE  RowsAreRows /\ RolesAgree
      <4>1. IsApplicant(a)
        BY <2>1, <2>2 DEF IsApplicant
      <4>2. Len(roles) \in Nat
        <5>1. CASE roles \in Roles \X Roles
          <6>1. roles = <<roles[1], roles[2]>>
            BY <5>1
          <6>2. \A x, y : Len(<<x, y>>) = 2
            OBVIOUS
          <6>. QED  BY <6>1, <6>2
        <5>2. CASE roles \in {<<r>> : r \in Roles}
          BY <5>2
        <5>. QED  BY <5>1, <5>2
      <4>3. /\ reply \in Times \cup {None} /\ deadline \in Times \cup {None}
            /\ reply # None => setting[a[2]].announce <= reply /\ reply = deadline
        BY RecruitmentAssumption
      <4>. DEFINE n == Len(roles)
                  row(i) == [NewRole(a, roles[i], i - 1) EXCEPT
                               !.expires = deadline,
                               !.answered = IF i = 1 THEN reply ELSE None,
                               !.accepted = i = 1 /\ reply # None]
      <4>4. ASSUME NEW i \in 1..n
            PROVE  /\ IsRole(row(i)) /\ row(i).applicant = a /\ row(i).named = None
                   /\ row(i).expires = deadline
                   /\ row(i).answered \in {reply, None} /\ (row(i).accepted => i = 1)
        BY <4>3 DEF NewRole, IsRole
      <4>5. /\ DOMAIN selected = 1..n /\ DOMAIN issued = 1..n
            /\ \A i \in 1..n : selected[i] = row(i) /\ issued[i] = a
        BY <3>2
      <4>6. issued \in Seq(Profiles \X Settings)
        <5>1. a \in Profiles \X Settings
          BY <4>1 DEF IsApplicant
        <5>2. \A m \in Nat : [i \in 1..m |-> a] \in Seq(Profiles \X Settings)
          BY <5>1
        <5>. QED  BY <3>2, <4>2, <5>2
      <4>. HIDE DEF row, n
      <4>7. RowsAreRows
        BY <2>1, <2>2, <4>1, <4>4, <4>5, <4>6 DEF RowsAreRows
      <4>8. \A i \in 1..n : RowAgrees(row(i))
        <5>1. None \in Times => None \in Nat
          BY RecruitmentAssumption DEF Times
        <5>2. reply # None => reply \in Times /\ reply <= reply
          BY <4>3 DEF Times
        <5>. QED  BY <4>3, <4>4, <5>2 DEF RowAgrees, Timely, InTime
      <4>9. RolesAgree
        BY <4>4, <4>5, <4>8 DEF RolesAgree
      <4>. QED  BY <4>7, <4>9
    <3>3. \/ selected = <<>> /\ issued = <<>>
          \/ \E a \in applicants, deadline \in Deadlines \cup {None}, roles \in lists :
               /\ issued = [i \in 1..Len(roles) |-> a]
               /\ \E reply \in answers(a, deadline) :
                    selected = rows(a, deadline, roles, reply)
      BY <1>1, <1>3, Zenon DEF InitRecruitment
    <3>. HIDE DEF answers, rows, lists
    <3>. QED  BY <3>1, <3>2, <3>3
  <2>. QED  BY <1>3, <2>4, <2>5, <2>6, <2>7 DEF RecruitmentInv, Coherent
<1>. QED  BY <1>2, <1>3

LEMMA RecruitmentInvAlways == Spec => []RecruitmentInv
BY RecruitmentInvAtFirst, RecruitmentInvKeeps, PTL DEF Spec

(* Whatever moderators who change recruitments one at a time do
   (RecruitSettingService.create and update, which turn off the others before they
   save), at most one recruitment is active; and one is, until a request dies half
   way or the active one is turned off by hand. *)
THEOREM OneRecruitmentIsActiveAlways == Spec => []OneRecruitmentIsActive
<1>1. RecruitmentInv => OneRecruitmentIsActive
  <2>. SUFFICES ASSUME RecruitmentInv, area = "recruitment", <<"settings">> \notin crossed
                PROVE  /\ Cardinality(Active) <= 1
                       /\ \/ Active # {}
                          \/ <<"settings">> \in broken
                          \/ \E p \in Requests : <<"settings">> \in req[p].about
                          \/ \E s \in DOMAIN setting : "off" \in setting[s].touched
    BY DEF OneRecruitmentIsActive
  <2>1. (\A s, t \in Active : s = t) /\ (Idle => Standing)
    BY DEF RecruitmentInv, Coherent, OneActive
  <2>2. Cardinality(Active) <= 1
    <3>1. \E s : Active \subseteq {s}
      BY <2>1
    <3>. QED  BY <3>1, OfOne
  <2>. QED  BY <2>1, <2>2 DEF Idle, Standing
<1>. QED  BY <1>1, RecruitmentInvAlways, PTL

(* An applicant whose requests are not under way at once never has two accepted
   offers (checkApplicantReadyToAcceptOfferOrThrow reads the offers long before
   decideOffer writes the answer), whatever roles are selected, offered and taken
   back between the two, and whatever dies. *)
THEOREM OneOfferIsAcceptedAlways == Spec => []OneOfferIsAccepted
<1>1. RecruitmentInv => OneOfferIsAccepted
  <2>1. \A r : Subject(r) = Of(selected[r].applicant)
    BY DEF Subject, Of
  <2>. QED
    BY <2>1 DEF RecruitmentInv, Coherent, RolesAgree, OneOfferIsAccepted
<1>. QED  BY <1>1, RecruitmentInvAlways, PTL

(* An offer made after the registration closed stays one for its role: selectRoles,
   which reuses the rows of an applicant by rank, reads the dates of the recruitment
   before it reads the rows. *)
THEOREM OffersKeepTheirRoleAlways == Spec => []OffersKeepTheirRole
<1>1. RecruitmentInv => OffersKeepTheirRole
  <2>1. \A r : /\ Subject(r) = Of(selected[r].applicant)
               /\ DatesStand(r) <=> Steady(selected[r].applicant)
    BY DEF Subject, Of, DatesStand, Steady
  <2>. QED
    BY <2>1 DEF RecruitmentInv, Coherent, RolesAgree, RowAgrees, OffersKeepTheirRole
<1>. QED  BY <1>1, RecruitmentInvAlways, PTL

(* Answers are never earlier than the announcement, whatever requests cross; and
   while none about the applicant do, none is later than the offer it answers. *)
THEOREM AnswersAreInTimeAlways == Spec => []AnswersAreInTime
<1>1. RecruitmentInv => AnswersAreInTime
  <2>1. \A r : /\ Subject(r) = Of(selected[r].applicant)
               /\ DatesStand(r) <=> Steady(selected[r].applicant)
    BY DEF Subject, Of, DatesStand, Steady
  <2>. QED
    BY <2>1 DEF RecruitmentInv, Coherent, RolesAgree, RowAgrees, Timely, InTime,
                AnswersAreInTime
<1>. QED  BY <1>1, RecruitmentInvAlways, PTL
===============================================================================
