----------------------------- MODULE MembersProofs -----------------------------
(***************************************************************************)
(* Members stay within their limits, for any number of requests: what a    *)
(* handler has read stays true, or can only become less, until it writes,  *)
(* because whoever could change it is about the same subject.              *)
(* Syncs of a member's roles in Discord converge: each of them brings the  *)
(* member nearer to what she is due, whatever others are doing.            *)
(* And forms are honest: for an applicant whose requests do not cross, as  *)
(* for a member, what a handler has read of her answers stays true.        *)
(***************************************************************************)
EXTENDS ServerProofs

LEMMA MembersSteps ==
  ASSUME [Next]_vars
  PROVE  \/ area = "members" /\ \E p \in Requests : MembersNext(p)
         \/ UNCHANGED memberVars /\ \E p \in Requests : Die(p)
         \/ area # "members" /\ UNCHANGED <<area, memberVars>>
         \/ UNCHANGED <<serverVars, memberVars>>
BY DEF Next, vars, Handle, Crash, Environment, PassTime, ExpireToken, ExpireCache,
  ProcessPhoto, OutsideOfScheduler, OutsideOfRecruitment, OutsideOfRegistration,
  OutsideOfMembers, OutsideOfDiscordSync, OutsideOfAlbums, OutsideOfProfilePhotos,
  OutsideOfPhotoStream, OutsideOfForms, OutsideOfActivities, OutsideOfDirectory,
  OutsideOfAnnouncements, PassTick

(***************************************************************************)
(* What the handlers of Members have read                                  *)
(***************************************************************************)

StudentsAreRows ==
  /\ students = [r \in DOMAIN students |-> students[r]]
  /\ DOMAIN students \subseteq StudentRows
  /\ \A r \in DOMAIN students : students[r] \in NudStudent

(* A request that writes entity is about its profile and its student. *)
Claims(p, entity) ==
  /\ entity.profile \in People /\ entity.student \in StudentIds
  /\ entity \in NudStudent
  /\ req[p].about = {<<"students", entity.profile>>, <<"student", entity.student>>}

OthersSeen(entity, n) ==
  <<"students", entity.profile>> \notin crossed => Cardinality(OthersOf(entity)) <= n

(* The student was found in the row id, of profile who; or in none, 0. *)
StudentSeen(entity, id, who) ==
  /\ id # 0 => id \in DOMAIN students /\ students[id].student = entity.student
  /\ <<"student", entity.student>> \notin crossed =>
       \A r \in DOMAIN students :
         students[r].student = entity.student => id # 0 /\ students[r].profile = who

NoNameSeen(p) ==
  LET who == Data(p).profile IN
  /\ req[p].about = {<<"user", who>>}
  /\ <<"user", who>> \notin crossed => NamesOf(localUsers, who) = {}

MemberAgrees(p) ==
  LET d == Data(p) IN
  /\ At(p, "readStudents") =>
       /\ d = [entity |-> d.entity, answers |-> d.answers]
       /\ Claims(p, d.entity)
       /\ "others" \in DOMAIN d.answers =>
            d.answers["others"] \in Nat /\ OthersSeen(d.entity, d.answers["others"])
       /\ "student" \in DOMAIN d.answers =>
            LET found == d.answers["student"] IN StudentSeen(d.entity, found.id, found.profile)
  /\ At(p, "saveStudent") =>
       /\ Claims(p, d.entity)
       /\ OthersSeen(d.entity, 1)
       /\ StudentSeen(d.entity, d.id, d.entity.profile)
  /\ At(p, "countUsers") => req[p].about = {<<"user", d.profile>>}
  /\ At(p, "findUsername") =>
       NoNameSeen(p) /\ d = [profile |-> d.profile, next |-> d.next]
  /\ At(p, "createUser") => NoNameSeen(p)

MembersInv ==
  /\ area # "members" => students = <<>> /\ localUsers = {}
  /\ area = "members" =>
       /\ Sent /\ Alone
       /\ StudentsAreRows
       /\ MembersStayWithinLimits
       /\ \A p \in Requests : MemberAgrees(p)

LEMMA MembersInvAtFirst == Init => MembersInv
<1>. SUFFICES ASSUME Init  PROVE MembersInv
  OBVIOUS
<1>1. Sent /\ \A p \in Requests : pc[p] = "new"
  BY SentAtFirst DEF Init, InitRequests
<1>2. Alone /\ \A p \in Requests : MemberAgrees(p)
  BY <1>1 DEF Alone, InFlight, MemberAgrees, At
<1>3. area = "members" => students \in OldStudents /\ localUsers \in OldUsers
  BY DEF Init, InitMembers
<1>4. area # "members" => students = <<>> /\ localUsers = {}
  BY DEF Init, InitMembers
<1>5. area = "members" => StudentsAreRows /\ MembersStayWithinLimits
  BY <1>3, MembersAssumption DEF StudentsAreRows, MembersStayWithinLimits
<1>. QED  BY <1>1, <1>2, <1>4, <1>5 DEF MembersInv

LEMMA MemberAgreesStill ==
  ASSUME NEW q \in Requests, MemberAgrees(q), pc'[q] = pc[q], req'[q] = req[q],
         UNCHANGED <<students, localUsers>>, crossed \subseteq crossed'
  PROVE  MemberAgrees(q)'
<1>1. \A entity, n : OthersSeen(entity, n) => OthersSeen(entity, n)'
  BY DEF OthersSeen, OthersOf
<1>2. \A entity : Claims(q, entity) => Claims(q, entity)'
  BY DEF Claims
<1>3. \A entity, id, who : StudentSeen(entity, id, who) => StudentSeen(entity, id, who)'
  BY DEF StudentSeen
<1>4. NoNameSeen(q) => NoNameSeen(q)'
  BY DEF NoNameSeen, Data
<1>. QED  BY <1>1, <1>2, <1>3, <1>4 DEF MemberAgrees, At, Data

(* Steps that leave the tables alone are noticed by one request only. *)
LEMMA OneMemberAgrees ==
  ASSUME \A q \in Requests : MemberAgrees(q), NEW p \in Requests, Others(p),
         UNCHANGED memberVars, crossed \subseteq crossed', MemberAgrees(p)'
  PROVE  (\A q \in Requests : MemberAgrees(q))'
<1>. SUFFICES ASSUME NEW q \in Requests, q # p  PROVE MemberAgrees(q)'
  OBVIOUS
<1>1. pc'[q] = pc[q] /\ req'[q] = req[q] /\ MemberAgrees(q)
  BY DEF Others
<1>2. UNCHANGED <<students, localUsers>>
  BY DEF memberVars
<1>. QED  BY <1>1, <1>2, MemberAgreesStill

(***************************************************************************)
(* A row is saved                                                          *)
(***************************************************************************)

(* Row i is new, or is of the same student. *)
Saves(i, entity) ==
  /\ i \in StudentRows
  /\ DOMAIN students' = DOMAIN students \cup {i}
  /\ students' = [r \in DOMAIN students' |-> students'[r]]
  /\ students'[i] = entity
  /\ \A r \in DOMAIN students \ {i} : students'[r] = students[r]
  /\ i \in DOMAIN students => students[i].student = entity.student

LEMMA SaveIs ==
  ASSUME NEW p \in Requests, SaveStudent(p), MemberAgrees(p), StudentsAreRows
  PROVE  students' = students \/ \E i : Saves(i, Data(p).entity)
<1>. DEFINE d == Data(p)
<1>1. /\ d.entity \in NudStudent
      /\ d.id # 0 => d.id \in DOMAIN students /\ students[d.id].student = d.entity.student
  BY DEF SaveStudent, MemberAgrees, StudentSeen, Claims
<1>2. \/ students' = students
      \/ d.id # 0 /\ students' = [students EXCEPT ![d.id] = d.entity]
      \/ \E r \in StudentRows \ DOMAIN students : students' = Put(students, r, d.entity)
  BY DEF SaveStudent
<1>3. CASE d.id # 0 /\ students' = [students EXCEPT ![d.id] = d.entity]
  <2>1. Saves(d.id, d.entity)
    BY <1>1, <1>3 DEF Saves, StudentsAreRows
  <2>. QED  BY <2>1
<1>4. ASSUME NEW r \in StudentRows \ DOMAIN students, students' = Put(students, r, d.entity)
      PROVE  Saves(r, d.entity)
  BY <1>4 DEF Saves, Put
<1>. QED  BY <1>2, <1>3, <1>4

LEMMA StudentsOfIs ==
  ASSUME NEW table, NEW who, NEW id
  PROVE  id \in StudentsOf(table, who) <=>
           \E r \in DOMAIN table : table[r].profile = who /\ table[r].student = id
BY DEF StudentsOf

LEMMA ProfilesOfIs ==
  ASSUME NEW table, NEW id, NEW who
  PROVE  who \in ProfilesOf(table, id) <=>
           \E r \in DOMAIN table : table[r].profile = who /\ table[r].student = id
BY DEF ProfilesOf

LEMMA FiniteTables ==
  ASSUME StudentsAreRows
  PROVE  /\ \A who : IsFiniteSet(StudentsOf(students, who))
         /\ \A id : IsFiniteSet(ProfilesOf(students, id))
         /\ \A entity : IsFiniteSet(OthersOf(entity))
<1>1. \A who : StudentsOf(students, who) \in SUBSET StudentIds
  BY DEF StudentsOf, StudentsAreRows, NudStudent
<1>2. \A id : ProfilesOf(students, id) \in SUBSET (People \cup {NoProfile})
  BY DEF ProfilesOf, StudentsAreRows, NudStudent
<1>3. \A entity : OthersOf(entity) \in SUBSET StudentRows
  BY DEF OthersOf, StudentsAreRows
<1>4. IsFiniteSet(People \cup {NoProfile})
  BY FS_AddElement, MembersAssumption
<1>. QED  BY <1>1, <1>2, <1>3, <1>4, FS_Subset, MembersAssumption

(* The rows that name a profile or a student after row i is saved *)
LEMMA SavedRows ==
  ASSUME NEW i, NEW e, Saves(i, e), StudentsAreRows
  PROVE  \A r \in DOMAIN students' :
           \/ students'[r] = e
           \/ r \in DOMAIN students /\ students'[r] = students[r]
BY DEF Saves

LEMMA SavedAreRows ==
  ASSUME NEW i, NEW e \in NudStudent, Saves(i, e), StudentsAreRows
  PROVE  StudentsAreRows'
BY DEF Saves, StudentsAreRows, NudStudent

LEMMA SavedWithinLimits ==
  ASSUME NEW p \in Requests, NEW i, NEW e, NEW id, StudentsAreRows, MembersStayWithinLimits,
         Claims(p, e), OthersSeen(e, 1), StudentSeen(e, id, e.profile),
         Saves(i, e), UNCHANGED <<localUsers, crossed>>
  PROVE  MembersStayWithinLimits'
<1>1. ASSUME NEW who \in People, <<"students", who>> \notin crossed
      PROVE  Cardinality(StudentsOf(students', who)) <= 2
  <2>1. CASE who # e.profile
    <3>1. StudentsOf(students', who) \in SUBSET StudentsOf(students, who)
      BY <2>1, SavedRows, StudentsOfIs
    <3>2. /\ IsFiniteSet(StudentsOf(students, who))
          /\ Cardinality(StudentsOf(students, who)) <= 2
      BY <1>1, FiniteTables DEF MembersStayWithinLimits
    <3>3. /\ Cardinality(StudentsOf(students', who)) \in Nat
          /\ Cardinality(StudentsOf(students, who)) \in Nat
          /\ Cardinality(StudentsOf(students', who)) <= Cardinality(StudentsOf(students, who))
      BY <3>1, <3>2, FS_Subset, FS_CardinalityType
    <3>. QED  BY <3>2, <3>3
  <2>2. CASE who = e.profile
    <3>1. IsFiniteSet(OthersOf(e)) /\ Cardinality(OthersOf(e)) <= 1
      BY <1>1, <2>2, FiniteTables DEF OthersSeen
    <3>2. PICK b : \A r \in OthersOf(e) : students[r].student = b
      <4>1. CASE OthersOf(e) = {}
        BY <4>1
      <4>2. CASE OthersOf(e) # {}
        <5>1. PICK x \in OthersOf(e) : TRUE
          BY <4>2
        <5>2. \A r \in OthersOf(e) : r = x
          BY <3>1, <5>1, AtMostOne
        <5>. QED  BY <5>2
      <4>. QED  BY <4>1, <4>2
    <3>3. StudentsOf(students', who) \subseteq {e.student, b}
      <4>. SUFFICES ASSUME NEW s \in StudentsOf(students', who)  PROVE s \in {e.student, b}
        OBVIOUS
      <4>1. PICK r \in DOMAIN students' : students'[r].profile = who /\ students'[r].student = s
        BY StudentsOfIs
      <4>2. CASE students'[r] = e
        BY <4>1, <4>2
      <4>3. CASE r \in DOMAIN students /\ students'[r] = students[r]
        <5>1. s = e.student \/ r \in OthersOf(e)
          BY <4>1, <4>3, <2>2 DEF OthersOf
        <5>. QED  BY <5>1, <3>2, <4>1, <4>3
      <4>. QED  BY <4>2, <4>3, <4>1, SavedRows
    <3>. QED  BY <3>3, OfTwo
  <2>. QED  BY <2>1, <2>2
<1>2. ASSUME NEW x \in StudentIds, <<"student", x>> \notin crossed
      PROVE  Cardinality(ProfilesOf(students', x)) <= 1
  <2>1. CASE x # e.student
    <3>1. ProfilesOf(students', x) \in SUBSET ProfilesOf(students, x)
      BY <2>1, SavedRows, ProfilesOfIs
    <3>2. /\ IsFiniteSet(ProfilesOf(students, x))
          /\ Cardinality(ProfilesOf(students, x)) <= 1
      BY <1>2, FiniteTables DEF MembersStayWithinLimits
    <3>3. /\ Cardinality(ProfilesOf(students', x)) \in Nat
          /\ Cardinality(ProfilesOf(students, x)) \in Nat
          /\ Cardinality(ProfilesOf(students', x)) <= Cardinality(ProfilesOf(students, x))
      BY <3>1, <3>2, FS_Subset, FS_CardinalityType
    <3>. QED  BY <3>2, <3>3
  <2>2. CASE x = e.student
    <3>1. \A r \in DOMAIN students : students[r].student = x => students[r].profile = e.profile
      BY <1>2, <2>2 DEF StudentSeen
    <3>2. ProfilesOf(students', x) \subseteq {e.profile}
      BY <3>1, SavedRows, ProfilesOfIs
    <3>. QED  BY <3>2, OfOne
  <2>. QED  BY <2>1, <2>2
<1>. QED  BY <1>1, <1>2 DEF MembersStayWithinLimits

(* What the other requests have seen of a profile and a student: if they are about
   the same, the two have crossed; if not, the row takes nothing from it. *)
LEMMA SavedOthersSeen ==
  ASSUME NEW i, NEW e, Saves(i, e), StudentsAreRows, NEW entity, NEW n \in Nat,
         OthersSeen(entity, n), UNCHANGED crossed,
         entity.profile = e.profile => <<"students", e.profile>> \in crossed
  PROVE  OthersSeen(entity, n)'
<1>. SUFFICES ASSUME <<"students", entity.profile>> \notin crossed
              PROVE  Cardinality(OthersOf(entity)') <= n
  BY DEF OthersSeen
<1>1. entity.profile # e.profile
  OBVIOUS
<1>2. OthersOf(entity)' \in SUBSET OthersOf(entity)
  BY <1>1, SavedRows DEF OthersOf
<1>3. IsFiniteSet(OthersOf(entity)) /\ Cardinality(OthersOf(entity)) <= n
  BY FiniteTables DEF OthersSeen
<1>4. /\ Cardinality(OthersOf(entity)') \in Nat /\ Cardinality(OthersOf(entity)) \in Nat
      /\ Cardinality(OthersOf(entity)') <= Cardinality(OthersOf(entity))
  BY <1>2, <1>3, FS_Subset, FS_CardinalityType
<1>. QED  BY <1>3, <1>4

LEMMA SavedStudentSeen ==
  ASSUME NEW i, NEW e, Saves(i, e), StudentsAreRows, NEW entity, NEW id, NEW who,
         StudentSeen(entity, id, who), UNCHANGED crossed,
         entity.student = e.student => <<"student", e.student>> \in crossed
  PROVE  StudentSeen(entity, id, who)'
<1>1. ASSUME id # 0
      PROVE  id \in DOMAIN students' /\ students'[id].student = entity.student
  BY <1>1 DEF StudentSeen, Saves
<1>2. ASSUME <<"student", entity.student>> \notin crossed, NEW r \in DOMAIN students',
             students'[r].student = entity.student
      PROVE  id # 0 /\ students'[r].profile = who
  BY <1>2, SavedRows DEF StudentSeen
<1>. QED  BY <1>1, <1>2 DEF StudentSeen

LEMMA SaveAgrees ==
  ASSUME NEW p \in Requests, NEW q \in Requests, q # p, Alone, InFlight(p),
         NEW i, NEW e, Claims(p, e), Saves(i, e), StudentsAreRows,
         MemberAgrees(q), Others(p), UNCHANGED <<localUsers, crossed>>
  PROVE  MemberAgrees(q)'
<1>. DEFINE d == Data(q)
<1>1. pc'[q] = pc[q] /\ req'[q] = req[q]
  BY DEF Others
<1>2. ASSUME Claims(q, d.entity), InFlight(q)
      PROVE  /\ d.entity.profile = e.profile => <<"students", e.profile>> \in crossed
             /\ d.entity.student = e.student => <<"student", e.student>> \in crossed
  BY <1>2 DEF Alone, Claims
<1>3. ASSUME At(q, "readStudents")
      PROVE  /\ d = [entity |-> d.entity, answers |-> d.answers]
             /\ Claims(q, d.entity)'
             /\ "others" \in DOMAIN d.answers =>
                  d.answers["others"] \in Nat /\ OthersSeen(d.entity, d.answers["others"])'
             /\ "student" \in DOMAIN d.answers =>
                  StudentSeen(d.entity, d.answers["student"].id, d.answers["student"].profile)'
  <2>1. /\ d = [entity |-> d.entity, answers |-> d.answers]
        /\ Claims(q, d.entity) /\ InFlight(q)
        /\ "others" \in DOMAIN d.answers =>
             d.answers["others"] \in Nat /\ OthersSeen(d.entity, d.answers["others"])
        /\ "student" \in DOMAIN d.answers =>
             StudentSeen(d.entity, d.answers["student"].id, d.answers["student"].profile)
    BY <1>3 DEF MemberAgrees, InFlight, At
  <2>2. Claims(q, d.entity)'
    BY <1>1, <2>1 DEF Claims, Data
  <2>3. Data(q)' = d
    BY <1>1 DEF Data
  <2>4. "others" \in DOMAIN d.answers => OthersSeen(d.entity, d.answers["others"])'
    BY <1>2, <2>1, <2>3, SavedOthersSeen
  <2>5. "student" \in DOMAIN d.answers =>
          StudentSeen(d.entity, d.answers["student"].id, d.answers["student"].profile)'
    BY <1>2, <2>1, <2>3, SavedStudentSeen
  <2>. QED  BY <2>1, <2>2, <2>4, <2>5
<1>4. ASSUME At(q, "saveStudent")
      PROVE  /\ Claims(q, d.entity)'
             /\ OthersSeen(d.entity, 1)'
             /\ StudentSeen(d.entity, d.id, d.entity.profile)'
  <2>1. /\ Claims(q, d.entity) /\ InFlight(q)
        /\ OthersSeen(d.entity, 1) /\ StudentSeen(d.entity, d.id, d.entity.profile)
    BY <1>4 DEF MemberAgrees, InFlight, At
  <2>2. Claims(q, d.entity)'
    BY <1>1, <2>1 DEF Claims, Data
  <2>3. Data(q)' = d
    BY <1>1 DEF Data
  <2>4. OthersSeen(d.entity, 1)'
    BY <1>2, <2>1, <2>3, SavedOthersSeen
  <2>5. StudentSeen(d.entity, d.id, d.entity.profile)'
    BY <1>2, <2>1, <2>3, SavedStudentSeen
  <2>. QED  BY <2>2, <2>4, <2>5
<1>5. /\ At(q, "countUsers") => req[q].about = {<<"user", d.profile>>}
      /\ At(q, "findUsername") => /\ NoNameSeen(q)
                                  /\ d = [profile |-> d.profile, next |-> d.next]
      /\ At(q, "createUser") => NoNameSeen(q)
  BY DEF MemberAgrees
<1>6. NoNameSeen(q) => NoNameSeen(q)'
  BY <1>1 DEF NoNameSeen, Data
<1>7. Data(q)' = d /\ \A step : At(q, step)' = At(q, step)
  BY <1>1 DEF Data, At
<1>. QED  BY <1>1, <1>3, <1>4, <1>5, <1>6, <1>7 DEF MemberAgrees

LEMMA CreatedWithinLimits ==
  ASSUME NEW p \in Requests, NEW name, NoNameSeen(p), MembersStayWithinLimits,
         localUsers' = localUsers \cup {<<name, Data(p).profile>>},
         UNCHANGED <<students, crossed>>
  PROVE  MembersStayWithinLimits'
<1>. DEFINE user == Data(p).profile
<1>1. ASSUME NEW who \in People, <<"user", who>> \notin crossed
      PROVE  Cardinality(NamesOf(localUsers', who)) <= 1
  <2>1. CASE who = user
    <3>1. NamesOf(localUsers, who) = {}
      BY <1>1, <2>1 DEF NoNameSeen
    <3>2. NamesOf(localUsers', who) \subseteq {name}
      BY <3>1 DEF NamesOf
    <3>. QED  BY <3>2, OfOne
  <2>2. CASE who # user
    <3>1. NamesOf(localUsers', who) = NamesOf(localUsers, who)
      BY <2>2 DEF NamesOf
    <3>. QED  BY <3>1, <1>1 DEF MembersStayWithinLimits
  <2>. QED  BY <2>1, <2>2
<1>. QED  BY <1>1 DEF MembersStayWithinLimits

LEMMA CreateAgrees ==
  ASSUME NEW p \in Requests, NEW q \in Requests, q # p, Alone, InFlight(p), NEW name,
         NoNameSeen(p), localUsers' = localUsers \cup {<<name, Data(p).profile>>},
         MemberAgrees(q), Others(p), UNCHANGED <<students, crossed>>
  PROVE  MemberAgrees(q)'
<1>1. /\ pc'[q] = pc[q] /\ req'[q] = req[q]
      /\ Data(q)' = Data(q) /\ \A step : At(q, step)' = At(q, step)
  BY DEF Others, Data, At
<1>2. ASSUME NoNameSeen(q), InFlight(q)  PROVE NoNameSeen(q)'
  <2>. DEFINE who == Data(q).profile
  <2>1. who = Data(p).profile => <<"user", who>> \in crossed
    BY <1>2 DEF Alone, NoNameSeen
  <2>2. who # Data(p).profile => NamesOf(localUsers', who) = NamesOf(localUsers, who)
    BY DEF NamesOf
  <2>. QED  BY <1>1, <1>2, <2>1, <2>2 DEF NoNameSeen, Data
<1>3. At(q, "findUsername") \/ At(q, "createUser") => InFlight(q)
  BY DEF At, InFlight
<1>. QED
  BY <1>1, <1>2, <1>3 DEF MemberAgrees, Claims, OthersSeen, OthersOf, StudentSeen

(***************************************************************************)
(* The inductive invariant                                                 *)
(***************************************************************************)

LEMMA LimitsStill ==
  ASSUME MembersStayWithinLimits, StudentsAreRows, UNCHANGED memberVars,
         crossed \subseteq crossed'
  PROVE  MembersStayWithinLimits' /\ StudentsAreRows'
<1>1. students' = students /\ localUsers' = localUsers
  BY DEF memberVars
<1>. QED  BY <1>1 DEF MembersStayWithinLimits, StudentsAreRows

LEMMA MembersInvKept == MembersInv /\ [Next]_vars => MembersInv'
<1>. SUFFICES ASSUME MembersInv, [Next]_vars  PROVE MembersInv'
  OBVIOUS
<1>1. CASE UNCHANGED <<serverVars, memberVars>>
  <2>1. UNCHANGED <<area, pc, req, crossed, students, localUsers>> /\ UNCHANGED memberVars
    BY <1>1 DEF serverVars, memberVars
  <2>2. CASE area = "members"
    <3>1. Sent' /\ Alone'
      BY <2>1, <2>2 DEF MembersInv, Sent, Alone, InFlight
    <3>2. StudentsAreRows' /\ MembersStayWithinLimits'
      BY <2>1, <2>2, LimitsStill DEF MembersInv
    <3>3. ASSUME NEW q \in Requests  PROVE MemberAgrees(q)'
      <4>1. MemberAgrees(q) /\ pc'[q] = pc[q] /\ req'[q] = req[q]
        BY <2>1, <2>2 DEF MembersInv
      <4>2. students' = students /\ localUsers' = localUsers /\ crossed' = crossed
        BY <2>1
      <4>. QED  BY <4>1, <4>2, MemberAgreesStill
    <3>. QED  BY <2>1, <2>2, <3>1, <3>2, <3>3 DEF MembersInv
  <2>. QED  BY <2>1, <2>2 DEF MembersInv
<1>2. CASE area # "members" /\ UNCHANGED <<area, memberVars>>
  BY <1>2 DEF MembersInv, memberVars
<1>3. ASSUME UNCHANGED memberVars, NEW p \in Requests, Die(p)  PROVE MembersInv'
  <2>1. area' = area /\ students' = students /\ localUsers' = localUsers
    BY <1>3 DEF Die, memberVars
  <2>2. CASE area = "members"
    <3>1. /\ Sent' /\ Alone' /\ crossed' = crossed /\ Others(p)
          /\ MemberAgrees(p)'
      BY <1>3, <2>2, FinishAlone DEF MembersInv, MemberAgrees, At
    <3>. QED  BY <1>3, <2>1, <2>2, <3>1, OneMemberAgrees, LimitsStill DEF MembersInv
  <2>. QED  BY <2>1, <2>2 DEF MembersInv
<1>4. ASSUME area = "members", NEW p \in Requests, MembersNext(p)  PROVE MembersInv'
  <2>1. /\ Sent /\ Alone /\ StudentsAreRows /\ MembersStayWithinLimits
        /\ MemberAgrees(p) /\ \A q \in Requests : MemberAgrees(q)
    BY <1>4 DEF MembersInv
  (* Where no table is written it is enough to look at the request. *)
  <2>2. ASSUME Sent', Alone', crossed \subseteq crossed', area' = area, Others(p),
               MemberAgrees(p)', UNCHANGED memberVars
        PROVE  MembersInv'
    BY <1>4, <2>1, <2>2, OneMemberAgrees, LimitsStill DEF MembersInv
  <2>3. ASSUME Finish(p), UNCHANGED memberVars  PROVE MembersInv'
    <3>1. /\ Sent' /\ Alone' /\ crossed' = crossed /\ area' = area /\ Others(p)
          /\ pc'[p] = "done"
      BY <2>1, <2>3, FinishAlone
    <3>2. MemberAgrees(p)'
      BY <3>1 DEF MemberAgrees, At
    <3>. QED  BY <3>1, <3>2, <2>2, <2>3
  <2>4. ASSUME NEW step, NEW data, Go(p, step, data), InFlight(p)
        PROVE  /\ Sent' /\ Alone' /\ crossed' = crossed /\ area' = area /\ Others(p)
               /\ pc'[p] = step /\ req'[p].about = req[p].about /\ Data(p)' = data
    <3>1. /\ Sent' /\ Others(p) /\ pc'[p] = step /\ req'[p].about = req[p].about
          /\ req'[p].data = data
      BY <2>1, <2>4, GoStep
    <3>2. Alone' /\ crossed' = crossed
      BY <2>1, <2>4, GoAlone
    <3>. QED  BY <3>1, <3>2, <2>4 DEF Go, Data
  <2>5. CASE UpdateNudStudent(p)
    <3>1. PICK e \in NudStudent :
            /\ e.profile \in People /\ e.student \in StudentIds
            /\ Accept(p, {<<"students", e.profile>>, <<"student", e.student>>},
                      "readStudents", [entity |-> e, answers |-> <<>>])
      <4>1. PICK who \in People, id \in StudentIds, year \in Years :
              Accept(p, {<<"students", who>>, <<"student", id>>}, "readStudents",
                     [entity |-> [profile |-> who, student |-> id, year |-> year],
                      answers |-> <<>>])
        BY <2>5 DEF UpdateNudStudent
      <4>. DEFINE e == [profile |-> who, student |-> id, year |-> year]
      <4>2. e \in NudStudent /\ e.profile = who /\ e.student = id
        BY DEF NudStudent
      <4>. QED  BY <4>1, <4>2
    <3>. DEFINE about == {<<"students", e.profile>>, <<"student", e.student>>}
                data == [entity |-> e, answers |-> <<>>]
    <3>2. /\ Sent' /\ Others(p) /\ pc'[p] = "readStudents"
          /\ req'[p] = [about |-> about, data |-> data]
      <4>1. Accept(p, about, "readStudents", data)
        BY <3>1
      <4>. HIDE DEF about, data
      <4>. QED  BY <4>1, <2>1, AcceptStep
    <3>3. Alone' /\ crossed \subseteq crossed' /\ area' = area
      BY <3>1, <2>1, AcceptAlone DEF Accept
    <3>4. /\ Data(p)' = data /\ req'[p].about = about
          /\ data.entity = e /\ DOMAIN data.answers = {}
      BY <3>2 DEF Data
    <3>5. MemberAgrees(p)'
      BY <3>1, <3>2, <3>4 DEF MemberAgrees, At, Claims
    <3>. QED  BY <3>2, <3>3, <3>5, <2>2, <2>5 DEF UpdateNudStudent
  <2>6. CASE ReadStudents(p)
    <3>. DEFINE d == Data(p)
    <3>1. /\ At(p, "readStudents") /\ InFlight(p) /\ UNCHANGED memberVars
          /\ d = [entity |-> d.entity, answers |-> d.answers]
          /\ Claims(p, d.entity)
          /\ "others" \in DOMAIN d.answers =>
               d.answers["others"] \in Nat /\ OthersSeen(d.entity, d.answers["others"])
          /\ "student" \in DOMAIN d.answers =>
               StudentSeen(d.entity, d.answers["student"].id, d.answers["student"].profile)
      BY <2>1, <2>6 DEF ReadStudents, MemberAgrees, InFlight, At
    <3>2. ASSUME NEW query, NEW result,
                 Go(p, "readStudents", [d EXCEPT !.answers = Put(@, query, result)]),
                 \/ query = "others" /\ result \in Nat /\ OthersSeen(d.entity, result)
                 \/ query = "student" /\ StudentSeen(d.entity, result.id, result.profile)
          PROVE  MembersInv'
      <4>. DEFINE answers == Put(d.answers, query, result)
      <4>1. [d EXCEPT !.answers = Put(@, query, result)]
              = [entity |-> d.entity, answers |-> answers]
        BY <3>1
      <4>2. /\ Sent' /\ Alone' /\ crossed' = crossed /\ area' = area /\ Others(p)
            /\ pc'[p] = "readStudents" /\ req'[p].about = req[p].about
            /\ Data(p)' = [entity |-> d.entity, answers |-> answers]
        BY <2>4, <3>1, <3>2, <4>1
      <4>3. /\ DOMAIN answers = DOMAIN d.answers \cup {query}
            /\ answers[query] = result
            /\ \A other \in DOMAIN d.answers : other # query => answers[other] = d.answers[other]
        BY DEF Put
      <4>4. /\ "others" \in DOMAIN answers =>
                 answers["others"] \in Nat /\ OthersSeen(d.entity, answers["others"])
            /\ "student" \in DOMAIN answers =>
                 StudentSeen(d.entity, answers["student"].id, answers["student"].profile)
        BY <3>1, <3>2, <4>3
      <4>5. MemberAgrees(p)'
        <5>1. students' = students
          BY <3>1 DEF memberVars
        <5>. HIDE DEF answers
        <5>. QED
          BY <3>1, <4>2, <4>4, <5>1 DEF MemberAgrees, At, Claims, OthersSeen, OthersOf,
            StudentSeen
      <4>. QED  BY <3>1, <4>2, <4>5, <2>2
    <3>3. \/ Go(p, "readStudents",
                [d EXCEPT !.answers = Put(@, "others", Cardinality(OthersOf(d.entity)))])
          \/ \E r \in DOMAIN students :
               /\ students[r].student = d.entity.student
               /\ Go(p, "readStudents",
                     [d EXCEPT !.answers =
                        Put(@, "student", [id |-> r, profile |-> students[r].profile])])
          \/ /\ \A r \in DOMAIN students : students[r].student # d.entity.student
             /\ Go(p, "readStudents",
                   [d EXCEPT !.answers = Put(@, "student", [id |-> 0, profile |-> NoProfile])])
      BY <2>6 DEF ReadStudents
    <3>4. /\ Cardinality(OthersOf(d.entity)) \in Nat
          /\ OthersSeen(d.entity, Cardinality(OthersOf(d.entity)))
      BY <2>1, FiniteTables, FS_CardinalityType DEF OthersSeen
    <3>5. ASSUME NEW r \in DOMAIN students, students[r].student = d.entity.student
          PROVE  StudentSeen(d.entity, r, students[r].profile)
      <4>1. r # 0
        BY <2>1, MembersAssumption DEF StudentsAreRows
      <4>2. ASSUME <<"student", d.entity.student>> \notin crossed, NEW s \in DOMAIN students,
                   students[s].student = d.entity.student
            PROVE  students[s].profile = students[r].profile
        <5>1. /\ students[s].profile \in ProfilesOf(students, d.entity.student)
              /\ students[r].profile \in ProfilesOf(students, d.entity.student)
          BY <3>5, <4>2, ProfilesOfIs
        <5>2. /\ IsFiniteSet(ProfilesOf(students, d.entity.student))
              /\ Cardinality(ProfilesOf(students, d.entity.student)) <= 1
          BY <2>1, <3>1, <4>2, FiniteTables DEF MembersStayWithinLimits, Claims
        <5>. QED  BY <5>1, <5>2, AtMostOne
      <4>. QED  BY <3>5, <4>1, <4>2 DEF StudentSeen
    <3>6. (\A r \in DOMAIN students : students[r].student # d.entity.student)
            => StudentSeen(d.entity, 0, NoProfile)
      BY DEF StudentSeen
    <3>7. ASSUME NEW r, NEW who  PROVE [id |-> r, profile |-> who].id = r
                                       /\ [id |-> r, profile |-> who].profile = who
      OBVIOUS
    <3>. QED  BY <3>2, <3>3, <3>4, <3>5, <3>6, <3>7
  <2>7. CASE CheckStudent(p)
    <3>. DEFINE d == Data(p)
                found == d.answers["student"]
    <3>1. /\ At(p, "readStudents") /\ InFlight(p) /\ UNCHANGED memberVars
          /\ Claims(p, d.entity)
          /\ d.answers["others"] \in Nat /\ OthersSeen(d.entity, d.answers["others"])
          /\ StudentSeen(d.entity, found.id, found.profile)
      BY <2>1, <2>7 DEF CheckStudent, MemberAgrees, InFlight, At
    <3>2. \/ Finish(p)
          \/ /\ ~(d.answers["others"] >= 2)
             /\ found.id = 0 \/ found.profile = d.entity.profile
             /\ Go(p, "saveStudent", [entity |-> d.entity, id |-> found.id])
      BY <2>7 DEF CheckStudent
    <3>3. CASE Finish(p)
      BY <3>1, <3>3, <2>3
    <3>4. CASE /\ ~(d.answers["others"] >= 2)
               /\ found.id = 0 \/ found.profile = d.entity.profile
               /\ Go(p, "saveStudent", [entity |-> d.entity, id |-> found.id])
      <4>1. /\ Sent' /\ Alone' /\ crossed' = crossed /\ area' = area /\ Others(p)
            /\ pc'[p] = "saveStudent" /\ req'[p].about = req[p].about
            /\ Data(p)' = [entity |-> d.entity, id |-> found.id]
        BY <2>4, <3>1, <3>4
      <4>2. OthersSeen(d.entity, 1)
        <5>1. d.answers["others"] <= 1
          BY <3>1, <3>4
        <5>2. Cardinality(OthersOf(d.entity)) \in Nat
          BY <2>1, FiniteTables, FS_CardinalityType
        <5>. QED  BY <3>1, <5>1, <5>2 DEF OthersSeen
      <4>3. StudentSeen(d.entity, found.id, d.entity.profile)
        BY <3>1, <3>4 DEF StudentSeen
      <4>4. MemberAgrees(p)'
        <5>1. students' = students
          BY <3>1 DEF memberVars
        <5>. QED
          BY <3>1, <4>1, <4>2, <4>3, <5>1 DEF MemberAgrees, At, Claims, OthersSeen, OthersOf,
            StudentSeen
      <4>. QED  BY <3>1, <4>1, <4>4, <2>2
    <3>. QED  BY <3>2, <3>3, <3>4
  <2>8. CASE SaveStudent(p)
    <3>. DEFINE e == Data(p).entity
    <3>1. /\ At(p, "saveStudent") /\ InFlight(p) /\ Finish(p) /\ UNCHANGED localUsers
          /\ Claims(p, e) /\ OthersSeen(e, 1) /\ StudentSeen(e, Data(p).id, e.profile)
      BY <2>1, <2>8 DEF SaveStudent, MemberAgrees, InFlight, At
    <3>2. CASE students' = students
      BY <3>1, <3>2, <2>3 DEF memberVars
    <3>3. ASSUME NEW i, Saves(i, e)  PROVE MembersInv'
      <4>1. /\ Sent' /\ Alone' /\ crossed' = crossed /\ area' = area /\ Others(p)
            /\ pc'[p] = "done"
        BY <2>1, <3>1, FinishAlone
      <4>2. StudentsAreRows'
        BY <2>1, <3>1, <3>3, SavedAreRows DEF Claims
      <4>3. MembersStayWithinLimits'
        BY <2>1, <3>1, <3>3, <4>1, SavedWithinLimits
      <4>4. ASSUME NEW q \in Requests  PROVE MemberAgrees(q)'
        <5>1. CASE q = p
          BY <4>1, <5>1 DEF MemberAgrees, At
        <5>2. CASE q # p
          BY <2>1, <3>1, <3>3, <4>1, <5>2, SaveAgrees
        <5>. QED  BY <5>1, <5>2
      <4>. QED  BY <1>4, <4>1, <4>2, <4>3, <4>4 DEF MembersInv
    <3>. QED  BY <2>1, <2>8, <3>2, <3>3, SaveIs
  <2>9. CASE RequestLocalUser(p)
    <3>1. PICK who \in People :
            Accept(p, {<<"user", who>>}, "countUsers", [profile |-> who])
      BY <2>9 DEF RequestLocalUser
    <3>2. /\ Sent' /\ Others(p) /\ pc'[p] = "countUsers"
          /\ req'[p] = [about |-> {<<"user", who>>}, data |-> [profile |-> who]]
      BY <3>1, <2>1, AcceptStep
    <3>3. Alone' /\ crossed \subseteq crossed' /\ area' = area
      BY <3>1, <2>1, AcceptAlone DEF Accept
    <3>4. MemberAgrees(p)'
      BY <3>2 DEF MemberAgrees, At, Data
    <3>. QED  BY <3>2, <3>3, <3>4, <2>2, <2>9 DEF RequestLocalUser
  <2>10. CASE CountUsers(p)
    <3>. DEFINE who == Data(p).profile
    <3>1. /\ At(p, "countUsers") /\ InFlight(p) /\ UNCHANGED memberVars
          /\ req[p].about = {<<"user", who>>}
      BY <2>1, <2>10 DEF CountUsers, MemberAgrees, InFlight, At
    <3>2. CASE \E name \in Usernames : <<name, who>> \in localUsers
      BY <3>1, <3>2, <2>3, <2>10 DEF CountUsers
    <3>3. CASE ~\E name \in Usernames : <<name, who>> \in localUsers
      <4>1. Go(p, "findUsername", [profile |-> who, next |-> 1])
        BY <2>10, <3>3 DEF CountUsers
      <4>2. /\ Sent' /\ Alone' /\ crossed' = crossed /\ area' = area /\ Others(p)
            /\ pc'[p] = "findUsername" /\ req'[p].about = req[p].about
            /\ Data(p)' = [profile |-> who, next |-> 1]
        BY <2>4, <3>1, <4>1
      <4>3. NamesOf(localUsers, who) = {} /\ localUsers' = localUsers
        BY <3>1, <3>3 DEF NamesOf, memberVars
      <4>4. MemberAgrees(p)'
        BY <3>1, <4>2, <4>3 DEF MemberAgrees, At, NoNameSeen
      <4>. QED  BY <3>1, <4>2, <4>4, <2>2
    <3>. QED  BY <3>2, <3>3
  <2>11. CASE FindUsername(p)
    <3>. DEFINE d == Data(p)
                names == Candidates[d.profile]
    <3>1. /\ At(p, "findUsername") /\ InFlight(p) /\ UNCHANGED memberVars
          /\ NoNameSeen(p) /\ d = [profile |-> d.profile, next |-> d.next]
      BY <2>1, <2>11 DEF FindUsername, MemberAgrees, InFlight, At
    <3>2. \/ Finish(p)
          \/ Go(p, "findUsername", [d EXCEPT !.next = @ + 1])
          \/ Go(p, "createUser", [profile |-> d.profile, username |-> names[d.next]])
      BY <2>11 DEF FindUsername
    <3>3. ASSUME NEW step, NEW data, Go(p, step, data), step \in {"findUsername", "createUser"},
                 data.profile = d.profile,
                 step = "findUsername" => data = [profile |-> data.profile, next |-> data.next]
          PROVE  MembersInv'
      <4>1. /\ Sent' /\ Alone' /\ crossed' = crossed /\ area' = area /\ Others(p)
            /\ pc'[p] = step /\ req'[p].about = req[p].about /\ Data(p)' = data
        BY <2>4, <3>1, <3>3
      <4>2. localUsers' = localUsers
        BY <3>1 DEF memberVars
      <4>3. NoNameSeen(p)'
        BY <3>1, <3>3, <4>1, <4>2 DEF NoNameSeen
      <4>4. MemberAgrees(p)'
        BY <3>3, <4>1, <4>3 DEF MemberAgrees, At
      <4>. QED  BY <3>1, <4>1, <4>4, <2>2
    <3>4. CASE Finish(p)
      BY <3>1, <3>4, <2>3
    <3>5. CASE Go(p, "findUsername", [d EXCEPT !.next = @ + 1])
      <4>1. [d EXCEPT !.next = @ + 1] = [profile |-> d.profile, next |-> d.next + 1]
        BY <3>1
      <4>. QED  BY <3>3, <3>5, <4>1
    <3>6. CASE Go(p, "createUser", [profile |-> d.profile, username |-> names[d.next]])
      BY <3>3, <3>6
    <3>. QED  BY <3>2, <3>4, <3>5, <3>6
  <2>12. CASE CreateUser(p)
    <3>. DEFINE d == Data(p)
    <3>1. /\ At(p, "createUser") /\ InFlight(p) /\ Finish(p) /\ UNCHANGED students
          /\ NoNameSeen(p)
          /\ \/ localUsers' = localUsers
             \/ localUsers' = localUsers \cup {<<d.username, d.profile>>}
      BY <2>1, <2>12 DEF CreateUser, MemberAgrees, InFlight, At
    <3>2. CASE localUsers' = localUsers
      BY <3>1, <3>2, <2>3 DEF memberVars
    <3>3. CASE localUsers' = localUsers \cup {<<d.username, d.profile>>}
      <4>1. /\ Sent' /\ Alone' /\ crossed' = crossed /\ area' = area /\ Others(p)
            /\ pc'[p] = "done"
        BY <2>1, <3>1, FinishAlone
      <4>2. StudentsAreRows'
        BY <2>1, <3>1 DEF StudentsAreRows
      <4>3. MembersStayWithinLimits'
        BY <2>1, <3>1, <3>3, <4>1, CreatedWithinLimits
      <4>4. ASSUME NEW q \in Requests  PROVE MemberAgrees(q)'
        <5>1. CASE q = p
          BY <4>1, <5>1 DEF MemberAgrees, At
        <5>2. CASE q # p
          BY <2>1, <3>1, <3>3, <4>1, <5>2, CreateAgrees
        <5>. QED  BY <5>1, <5>2
      <4>. QED  BY <1>4, <4>1, <4>2, <4>3, <4>4 DEF MembersInv
    <3>. QED  BY <3>1, <3>2, <3>3
  <2>. QED
    BY <1>4, <2>5, <2>6, <2>7, <2>8, <2>9, <2>10, <2>11, <2>12 DEF MembersNext
<1>. QED  BY <1>1, <1>2, <1>3, <1>4, MembersSteps

(* Unless two requests that are under way together name the same one, a profile has two
   student ids at most and one local user name, and a student id one profile
   (src/accounts/nud-student, updateStudent; src/accounts/user, requestUsername): for
   any number of members, students and requests, whatever the two queries of a handler
   see of each other and wherever a handler dies. *)
THEOREM MembersAlwaysWithinLimits == Spec => []MembersStayWithinLimits
<1>1. MembersInv => MembersStayWithinLimits
  <2>. SUFFICES ASSUME area # "members", students = <<>>, localUsers = {}
                PROVE  MembersStayWithinLimits
    BY DEF MembersInv
  <2>1. \A who : StudentsOf(students, who) = {} /\ ProfilesOf(students, who) = {}
    BY DEF StudentsOf, ProfilesOf
  <2>2. \A who : NamesOf(localUsers, who) = {}
    BY DEF NamesOf
  <2>3. \A S : S = {} => Cardinality(S) <= 1 /\ Cardinality(S) <= 2
    <3>1. Cardinality({}) = 0
      BY FS_EmptySet
    <3>. QED  BY <3>1
  <2>4. \A who : /\ Cardinality(StudentsOf(students, who)) <= 2
                 /\ Cardinality(ProfilesOf(students, who)) <= 1
    BY <2>1, <2>3, Zenon
  <2>5. \A who : Cardinality(NamesOf(localUsers, who)) <= 1
    BY <2>2, <2>3, Zenon
  <2>. QED  BY <2>4, <2>5 DEF MembersStayWithinLimits
<1>. QED  BY <1>1, MembersInvAtFirst, MembersInvKept, PTL DEF Spec

-------------------------------------------------------------------------------
(***************************************************************************)
(* DiscordSync: what a sync has read stays true while it is under way, and *)
(* what syncs write brings the member only closer to what she is due       *)
(***************************************************************************)

LEMMA DiscordSteps ==
  ASSUME [Next]_vars
  PROVE  \/ area = "discord" /\ \E p \in Requests : DiscordNext(p)
         \/ UNCHANGED discordVars /\ \E p \in Requests : Die(p)
         \/ ExpireCache
         \/ area # "discord" /\ UNCHANGED <<area, discordVars>>
         \/ UNCHANGED <<serverVars, discordVars>>
BY DEF Next, vars, Handle, Crash, Environment, PassTime, ExpireToken,
  ProcessPhoto, OutsideOfScheduler, OutsideOfRecruitment, OutsideOfRegistration,
  OutsideOfMembers, OutsideOfDiscordSync, OutsideOfAlbums, OutsideOfProfilePhotos,
  OutsideOfPhotoStream, OutsideOfForms, OutsideOfActivities, OutsideOfDirectory,
  OutsideOfAnnouncements, PassTick

SyncSteps == {"readName", "setNickname", "readSync", "changeRoles"}

Converged == held \cap SyncedRoles(guild) = Due /\ emoji = LatestTeam(teamOf)

(* A sync is about the member, and ends with two sets of roles to change. *)
AboutMember(p) ==
  /\ pc[p] \in SyncSteps => <<"member">> \in req[p].about
  /\ At(p, "changeRoles") => Data(p) = [add |-> Data(p).add, remove |-> Data(p).remove]

(* What it has read is so, or was changed by another sync for the better. *)
SyncAgrees(p) ==
  LET d == Data(p) IN
  /\ At(p, "setNickname") => d.emoji = LatestTeam(teamOf)
  /\ At(p, "readSync") =>
       /\ emoji = LatestTeam(teamOf)
       /\ "latest" \in DOMAIN d => d["latest"] = LatestTeam(teamOf)
       /\ "teams" \in DOMAIN d => d["teams"] = teamOf
       /\ "roles" \in DOMAIN d => d["roles"] = guild
       /\ "held" \in DOMAIN d => /\ Due \cap d["held"] \subseteq held
                                 /\ (held \cap SyncedRoles(guild)) \ Due \subseteq d["held"]
  /\ At(p, "changeRoles") =>
       /\ emoji = LatestTeam(teamOf)
       /\ Due \ held \subseteq d.add /\ d.add \subseteq Due
       /\ (held \cap SyncedRoles(guild)) \ Due \subseteq d.remove
       /\ d.remove \subseteq SyncedRoles(guild) \ Due

DiscordInv ==
  area = "discord" =>
    /\ Sent
    /\ \A p \in Requests : AboutMember(p)
    /\ ~stale => (synced => Converged) /\ \A p \in Requests : SyncAgrees(p)

LEMMA DueIsSynced == Due \subseteq SyncedRoles(guild)
BY DEF Due, Target

LEMMA OtherAboutMember ==
  ASSUME NEW p \in Requests, Others(p), \A q \in Requests : AboutMember(q), AboutMember(p)'
  PROVE  (\A q \in Requests : AboutMember(q))'
BY DEF AboutMember, Others, At, Data

(* A step of a request that leaves the teams and the guild as they are, and brings
   the member no further from what she is due *)
LEMMA Closer ==
  ASSUME DiscordInv, area = "discord", NEW p \in Requests, Sent', Others(p), area' = area,
         UNCHANGED <<teamOf, guild>>, AboutMember(p)',
         ~stale' =>
           /\ ~stale
           /\ Due \cap held \subseteq held'
           /\ (held' \cap SyncedRoles(guild)) \ Due \subseteq held
           /\ emoji' \in {emoji, LatestTeam(teamOf)}
           /\ SyncAgrees(p)'
           /\ synced' => synced \/ Converged'
  PROVE  DiscordInv'
<1>1. (\A q \in Requests : AboutMember(q))'
  BY OtherAboutMember DEF DiscordInv
<1>2. /\ Due' = Due /\ SyncedRoles(guild)' = SyncedRoles(guild)
      /\ LatestTeam(teamOf)' = LatestTeam(teamOf)
  BY DEF Due
<1>3. ASSUME ~stale'  PROVE (synced => Converged)' /\ (\A q \in Requests : SyncAgrees(q))'
  <2>1. (synced => Converged) /\ \A q \in Requests : SyncAgrees(q)
    BY <1>3 DEF DiscordInv
  <2>2. Converged => Converged'
    BY <1>2, <1>3, DueIsSynced DEF Converged
  <2>3. ASSUME NEW q \in Requests, q # p  PROVE SyncAgrees(q)'
    <3>1. pc'[q] = pc[q] /\ Data(q)' = Data(q)
      BY <2>3 DEF Others, Data
    <3>2. PICK d : d = Data(q)
      OBVIOUS
    <3>. QED  BY <1>2, <1>3, <2>1, <3>1, <3>2 DEF SyncAgrees, At
  <2>. QED  BY <1>3, <2>1, <2>2, <2>3
<1>. QED  BY <1>1, <1>3 DEF DiscordInv

(* If teams or roles change, or the first sync begins, no sync is under way, or
   the syncs that are know nothing. *)
LEMMA Overtakes ==
  ASSUME DiscordInv, area = "discord", NEW p \in Requests, Sent', Others(p), area' = area,
         pc'[p] \notin SyncSteps \ {"readName"}, AboutMember(p)',
         ~stale' => Syncing = {} /\ ~synced'
  PROVE  DiscordInv'
<1>1. (\A q \in Requests : AboutMember(q))'
  BY OtherAboutMember DEF DiscordInv
<1>2. ASSUME ~stale'  PROVE (synced => Converged)' /\ (\A q \in Requests : SyncAgrees(q))'
  <2>1. ASSUME NEW q \in Requests  PROVE pc'[q] \notin SyncSteps \ {"readName"}
    <3>1. CASE q # p
      <4>1. pc[q] \notin SyncSteps
        BY <1>2 DEF DiscordInv, AboutMember, Syncing, InFlight, SyncSteps
      <4>. QED  BY <3>1, <4>1 DEF Others
    <3>. QED  BY <3>1
  <2>2. \A q \in Requests : SyncAgrees(q)'
    BY <2>1 DEF SyncAgrees, At, SyncSteps
  <2>. QED  BY <1>2, <2>2
<1>. QED  BY <1>1, <1>2 DEF DiscordInv

LEMMA DiscordInvAtFirst == Init => DiscordInv
BY SentAtFirst DEF Init, InitRequests, InitDiscord, DiscordInv, AboutMember, SyncAgrees,
   SyncSteps, At

(* A sync goes on, with what it has found. *)
LEMMA SyncGoes ==
  ASSUME DiscordInv, area = "discord", NEW p \in Requests, NEW step, NEW data,
         Go(p, step, data)
  PROVE  /\ Sent' /\ Others(p) /\ area' = area
         /\ pc'[p] = step /\ Data(p)' = data
         /\ AboutMember(p) /\ (~stale => SyncAgrees(p))
         /\ /\ pc[p] \in SyncSteps \/ step \notin SyncSteps
            /\ step = "changeRoles" => data = [add |-> data.add, remove |-> data.remove]
            => AboutMember(p)'
<1>1. /\ Sent' /\ Others(p) /\ area' = area /\ pc'[p] = step /\ Data(p)' = data
      /\ req'[p].about = req[p].about
  BY GoStep DEF DiscordInv, Go, Data
<1>2. AboutMember(p) /\ (~stale => SyncAgrees(p))
  BY DEF DiscordInv
<1>. QED  BY <1>1, <1>2 DEF AboutMember, At, SyncSteps

LEMMA TriggerProfileSyncKeeps ==
  ASSUME DiscordInv, area = "discord", NEW p \in Requests, TriggerProfileSync(p)
  PROVE  DiscordInv'
<1>. DEFINE about == {<<"member">>}
            data == <<>>
<1>1. /\ Accept(p, about, "readName", data)
      /\ stale' = (stale /\ Syncing # {}) /\ synced' = (synced /\ Syncing # {})
      /\ UNCHANGED <<teamOf, guild, held, emoji>>
  BY DEF TriggerProfileSync
<1>. HIDE DEF data
<1>2. area' = area /\ Sent
  BY <1>1 DEF Accept, DiscordInv
<1>. HIDE DEF about
<1>3. /\ Sent' /\ Others(p) /\ pc'[p] = "readName"
      /\ req'[p] = [about |-> about, data |-> data]
  BY <1>1, <1>2, AcceptStep
<1>4. AboutMember(p)' /\ SyncAgrees(p)'
  <2>1. req'[p].about = about /\ <<"member">> \in about
    BY <1>3 DEF about
  <2>. QED  BY <1>3, <2>1 DEF AboutMember, SyncAgrees, At
<1>5. CASE Syncing = {}
  BY <1>1, <1>2, <1>3, <1>4, <1>5, Overtakes
<1>6. CASE Syncing # {}
  BY <1>1, <1>2, <1>3, <1>4, <1>6, Closer
<1>. QED  BY <1>5, <1>6

LEMMA GetNickNameKeeps ==
  ASSUME DiscordInv, area = "discord", NEW p \in Requests, GetNickName(p)
  PROVE  DiscordInv'
<1>. DEFINE data == [emoji |-> LatestTeam(teamOf)]
<1>1. /\ pc[p] = "readName" /\ Go(p, "setNickname", data)
      /\ UNCHANGED <<teamOf, guild, held, emoji, stale, synced>>
  BY DEF GetNickName, At, discordVars
<1>2. data.emoji = LatestTeam(teamOf)
  OBVIOUS
<1>. HIDE DEF data
<1>3. /\ Sent' /\ Others(p) /\ area' = area
      /\ pc'[p] = "setNickname" /\ Data(p)' = data /\ AboutMember(p)'
  BY <1>1, SyncGoes DEF SyncSteps
<1>4. SyncAgrees(p)'
  <2>1. LatestTeam(teamOf)' = LatestTeam(teamOf)
    BY <1>1
  <2>. QED  BY <1>2, <1>3, <2>1 DEF SyncAgrees, At
<1>. QED  BY <1>1, <1>3, <1>4, Closer

LEMMA SetNicknameKeeps ==
  ASSUME DiscordInv, area = "discord", NEW p \in Requests, SetNickname(p)
  PROVE  DiscordInv'
<1>. DEFINE data == <<>>
<1>1. /\ pc[p] = "setNickname" /\ Go(p, "readSync", data)
      /\ UNCHANGED <<teamOf, guild, held, synced>>
      /\ stale' \/ (emoji' = Data(p).emoji /\ stale' = stale)
  BY DEF SetNickname, At
<1>2. DOMAIN data = {}
  OBVIOUS
<1>. HIDE DEF data
<1>3. /\ Sent' /\ Others(p) /\ area' = area
      /\ pc'[p] = "readSync" /\ Data(p)' = data
      /\ AboutMember(p)' /\ (~stale => SyncAgrees(p))
  BY <1>1, SyncGoes DEF SyncSteps
<1>4. ~stale' => ~stale /\ emoji' = LatestTeam(teamOf) /\ LatestTeam(teamOf)' = LatestTeam(teamOf)
  BY <1>1, <1>3 DEF SyncAgrees, At
<1>5. ~stale' => SyncAgrees(p)'
  BY <1>2, <1>3, <1>4 DEF SyncAgrees, At
<1>. QED  BY <1>1, <1>3, <1>4, <1>5, Closer

LEMMA ReadSyncKeeps ==
  ASSUME DiscordInv, area = "discord", NEW p \in Requests, ReadSync(p)
  PROVE  DiscordInv'
<1>1. PICK d : d = Data(p)
  OBVIOUS
<1>2. /\ pc[p] = "readSync"
      /\ UNCHANGED <<teamOf, guild, held, emoji, synced>>
      /\ \E query, result :
           /\ Go(p, "readSync", Put(d, query, result))
           /\ \/ query = "latest" /\ result = LatestTeam(teamOf) /\ stale' = stale
              \/ query = "teams" /\ result = teamOf /\ stale' = stale
              \/ query = "held" /\ result = held /\ stale' = stale
              \/ query = "roles" /\ stale' = (stale \/ result # guild)
  BY <1>1 DEF ReadSync, At
<1>3. PICK query, result :
           /\ Go(p, "readSync", Put(d, query, result))
           /\ \/ query = "latest" /\ result = LatestTeam(teamOf) /\ stale' = stale
              \/ query = "teams" /\ result = teamOf /\ stale' = stale
              \/ query = "held" /\ result = held /\ stale' = stale
              \/ query = "roles" /\ stale' = (stale \/ result # guild)
  BY <1>2
<1>. DEFINE data == Put(d, query, result)
<1>4. /\ DOMAIN data = DOMAIN d \cup {query} /\ data[query] = result
      /\ \A k \in DOMAIN d \ {query} : data[k] = d[k]
  BY DEF Put
<1>5. Go(p, "readSync", data)
  BY <1>3
<1>. HIDE DEF data
<1>6. /\ Sent' /\ Others(p) /\ area' = area
      /\ pc'[p] = "readSync" /\ Data(p)' = data
      /\ AboutMember(p)' /\ (~stale => SyncAgrees(p))
  BY <1>2, <1>5, SyncGoes DEF SyncSteps
<1>7. ASSUME ~stale'  PROVE ~stale /\ SyncAgrees(p)'
  <2>1. ~stale /\ (query = "roles" => result = guild)
    <3>1. CASE stale' = (stale \/ result # guild)
      BY <1>7, <3>1, Zenon
    <3>2. CASE stale' = stale /\ query # "roles"
      BY <1>7, <3>2, Zenon
    <3>. QED  BY <1>3, <3>1, <3>2
  <2>2. /\ emoji = LatestTeam(teamOf)
        /\ "latest" \in DOMAIN d => d["latest"] = LatestTeam(teamOf)
        /\ "teams" \in DOMAIN d => d["teams"] = teamOf
        /\ "roles" \in DOMAIN d => d["roles"] = guild
        /\ "held" \in DOMAIN d => /\ Due \cap d["held"] \subseteq held
                                  /\ (held \cap SyncedRoles(guild)) \ Due \subseteq d["held"]
    BY <1>1, <1>2, <1>6, <2>1 DEF SyncAgrees, At
  <2>3. /\ Due' = Due /\ SyncedRoles(guild)' = SyncedRoles(guild)
        /\ LatestTeam(teamOf)' = LatestTeam(teamOf)
    BY <1>2 DEF Due
  <2>4. /\ "latest" \in DOMAIN data => data["latest"] = LatestTeam(teamOf)
        /\ "teams" \in DOMAIN data => data["teams"] = teamOf
        /\ "roles" \in DOMAIN data => data["roles"] = guild
        /\ "held" \in DOMAIN data =>
             /\ Due \cap data["held"] \subseteq held
             /\ (held \cap SyncedRoles(guild)) \ Due \subseteq data["held"]
    <3>1. CASE query = "latest"
      BY <1>3, <1>4, <2>2, <3>1
    <3>2. CASE query = "teams"
      BY <1>3, <1>4, <2>2, <3>2
    <3>3. CASE query = "held"
      BY <1>3, <1>4, <2>2, <3>3
    <3>4. CASE query = "roles"
      BY <1>3, <1>4, <2>1, <2>2, <3>4
    <3>. QED  BY <1>3, <3>1, <3>2, <3>3, <3>4
  <2>. QED  BY <1>2, <1>6, <2>1, <2>2, <2>3, <2>4 DEF SyncAgrees, At
<1>. QED  BY <1>2, <1>6, <1>7, Closer

LEMMA PlanSyncKeeps ==
  ASSUME DiscordInv, area = "discord", NEW p \in Requests, PlanSync(p)
  PROVE  DiscordInv'
<1>1. PICK d : d = Data(p)
  OBVIOUS
<1>. DEFINE target == Target(d.teams, d.latest, d.roles)
            data == [add |-> target \ d.held,
                     remove |-> (SyncedRoles(d.roles) \cap d.held) \ target]
<1>2. /\ pc[p] = "readSync" /\ DOMAIN d = {"latest", "teams", "held", "roles"}
      /\ Go(p, "changeRoles", data)
      /\ UNCHANGED <<teamOf, guild, held, emoji, stale, synced>>
  BY <1>1 DEF PlanSync, At, discordVars
<1>3. /\ data.add = target \ d.held
      /\ data.remove = (SyncedRoles(d.roles) \cap d.held) \ target
      /\ data = [add |-> data.add, remove |-> data.remove]
  OBVIOUS
<1>. HIDE DEF data
<1>4. /\ Sent' /\ Others(p) /\ area' = area
      /\ pc'[p] = "changeRoles" /\ Data(p)' = data
      /\ AboutMember(p)' /\ (~stale => SyncAgrees(p))
  BY <1>2, <1>3, SyncGoes DEF SyncSteps
<1>5. ASSUME ~stale'  PROVE SyncAgrees(p)'
  <2>1. /\ emoji = LatestTeam(teamOf) /\ d["latest"] = LatestTeam(teamOf)
        /\ d["teams"] = teamOf /\ d["roles"] = guild
        /\ Due \cap d["held"] \subseteq held
        /\ (held \cap SyncedRoles(guild)) \ Due \subseteq d["held"]
    BY <1>1, <1>2, <1>4, <1>5 DEF SyncAgrees, At
  <2>2. target = Due /\ d.roles = guild
    BY <2>1 DEF Due
  <2>3. /\ Due' = Due /\ SyncedRoles(guild)' = SyncedRoles(guild)
        /\ LatestTeam(teamOf)' = LatestTeam(teamOf)
    BY <1>2 DEF Due
  <2>4. /\ Due \ held \subseteq data.add /\ data.add \subseteq Due
        /\ (held \cap SyncedRoles(guild)) \ Due \subseteq data.remove
        /\ data.remove \subseteq SyncedRoles(guild) \ Due
    BY <1>3, <2>1, <2>2
  <2>. QED  BY <1>2, <1>4, <2>1, <2>3, <2>4 DEF SyncAgrees, At
<1>. QED  BY <1>2, <1>4, <1>5, Closer

(* A role is added or removed, or the call fails; then it is no longer to be. *)
LEMMA ChangesRoles ==
  ASSUME DiscordInv, area = "discord", NEW p \in Requests, pc[p] = "changeRoles",
         NEW adds, NEW removes, Go(p, "changeRoles", [add |-> adds, remove |-> removes]),
         UNCHANGED <<teamOf, guild, emoji, synced>>,
         adds \subseteq Data(p).add, removes \subseteq Data(p).remove,
         ~stale' => /\ ~stale
                    /\ held \subseteq held' \cup Data(p).remove
                    /\ held' \subseteq held \cup Data(p).add
                    /\ Data(p).add \ adds \subseteq held'
                    /\ (Data(p).remove \ removes) \cap held' = {}
  PROVE  DiscordInv'
<1>. DEFINE data == [add |-> adds, remove |-> removes]
<1>1. data.add = adds /\ data.remove = removes /\ data = [add |-> data.add, remove |-> data.remove]
  OBVIOUS
<1>2. Go(p, "changeRoles", data)
  OBVIOUS
<1>. HIDE DEF data
<1>3. /\ Sent' /\ Others(p) /\ area' = area
      /\ pc'[p] = "changeRoles" /\ Data(p)' = data
      /\ AboutMember(p)' /\ (~stale => SyncAgrees(p))
  BY <1>1, <1>2, SyncGoes DEF SyncSteps
<1>4. ASSUME ~stale'
      PROVE  /\ ~stale
             /\ Due \cap held \subseteq held'
             /\ (held' \cap SyncedRoles(guild)) \ Due \subseteq held
             /\ SyncAgrees(p)'
  <2>1. PICK d : d = Data(p)
    OBVIOUS
  <2>2. /\ ~stale /\ emoji = LatestTeam(teamOf)
        /\ Due \ held \subseteq d.add /\ d.add \subseteq Due
        /\ (held \cap SyncedRoles(guild)) \ Due \subseteq d.remove
        /\ d.remove \subseteq SyncedRoles(guild) \ Due
    BY <1>3, <1>4, <2>1 DEF SyncAgrees, At
  <2>3. /\ adds \subseteq d.add /\ removes \subseteq d.remove
        /\ held \subseteq held' \cup d.remove
        /\ held' \subseteq held \cup d.add
        /\ d.add \ adds \subseteq held'
        /\ (d.remove \ removes) \cap held' = {}
    BY <1>4, <2>1
  <2>4. Due \cap held \subseteq held' /\ (held' \cap SyncedRoles(guild)) \ Due \subseteq held
    BY <2>2, <2>3
  <2>5. /\ Due \ held' \subseteq adds /\ adds \subseteq Due
        /\ (held' \cap SyncedRoles(guild)) \ Due \subseteq removes
        /\ removes \subseteq SyncedRoles(guild) \ Due
    BY <2>2, <2>3, <2>4
  <2>6. /\ Due' = Due /\ SyncedRoles(guild)' = SyncedRoles(guild)
        /\ LatestTeam(teamOf)' = LatestTeam(teamOf)
    BY DEF Due
  <2>7. SyncAgrees(p)'
    BY <1>1, <1>3, <2>2, <2>5, <2>6 DEF SyncAgrees, At
  <2>. QED  BY <2>2, <2>4, <2>7
<1>. QED  BY <1>3, <1>4, Closer

LEMMA AddRoleKeeps ==
  ASSUME DiscordInv, area = "discord", NEW p \in Requests, AddRole(p)
  PROVE  DiscordInv'
<1>1. PICK d : d = Data(p)
  OBVIOUS
<1>2. /\ pc[p] = "changeRoles" /\ d = [add |-> d.add, remove |-> d.remove]
      /\ UNCHANGED <<teamOf, guild, emoji, synced>>
  BY <1>1 DEF AddRole, At, DiscordInv, AboutMember
<1>3. PICK r \in d.add :
        /\ (held' = held \cup {r} /\ stale' = stale) \/ stale'
        /\ Go(p, "changeRoles", [d EXCEPT !.add = @ \ {r}])
  BY <1>1 DEF AddRole
<1>4. [d EXCEPT !.add = @ \ {r}] = [add |-> d.add \ {r}, remove |-> d.remove]
  BY <1>2
<1>5. ~stale' => ~stale /\ held' = held \cup {r}
  BY <1>3, Zenon
<1>6. Go(p, "changeRoles", [add |-> d.add \ {r}, remove |-> d.remove])
  BY <1>3, <1>4
<1>7. ~stale' => /\ ~stale
                 /\ held \subseteq held' \cup d.remove
                 /\ held' \subseteq held \cup d.add
                 /\ d.add \ (d.add \ {r}) \subseteq held'
                 /\ (d.remove \ d.remove) \cap held' = {}
  BY <1>5
<1>8. d.add \ {r} \subseteq d.add
  OBVIOUS
<1>. QED  BY <1>1, <1>2, <1>6, <1>7, <1>8, ChangesRoles

LEMMA RemoveRoleKeeps ==
  ASSUME DiscordInv, area = "discord", NEW p \in Requests, RemoveRole(p)
  PROVE  DiscordInv'
<1>1. PICK d : d = Data(p)
  OBVIOUS
<1>2. /\ pc[p] = "changeRoles" /\ d = [add |-> d.add, remove |-> d.remove]
      /\ UNCHANGED <<teamOf, guild, emoji, synced>>
  BY <1>1 DEF RemoveRole, At, DiscordInv, AboutMember
<1>3. PICK r \in d.remove :
        /\ (held' = held \ {r} /\ stale' = stale) \/ stale'
        /\ Go(p, "changeRoles", [d EXCEPT !.remove = @ \ {r}])
  BY <1>1 DEF RemoveRole
<1>4. [d EXCEPT !.remove = @ \ {r}] = [add |-> d.add, remove |-> d.remove \ {r}]
  BY <1>2
<1>5. ~stale' => ~stale /\ held' = held \ {r} /\ d.add = {}
  <2>1. Data(p).add = {}
    BY DEF RemoveRole
  <2>. QED  BY <1>1, <1>3, <2>1, Zenon
<1>6. Go(p, "changeRoles", [add |-> d.add, remove |-> d.remove \ {r}])
  BY <1>3, <1>4
<1>7. ~stale' => /\ ~stale
                 /\ held \subseteq held' \cup d.remove
                 /\ held' \subseteq held \cup d.add
                 /\ d.add \ d.add \subseteq held'
                 /\ (d.remove \ (d.remove \ {r})) \cap held' = {}
  BY <1>5
<1>8. d.remove \ {r} \subseteq d.remove
  OBVIOUS
<1>. QED  BY <1>1, <1>2, <1>6, <1>7, <1>8, ChangesRoles

(* A request ends; if it was a sync that changed the last role, she has converged. *)
LEMMA EndsSync ==
  ASSUME DiscordInv, area = "discord", NEW p \in Requests, Finish(p) \/ Die(p),
         UNCHANGED <<teamOf, guild, held, emoji, stale>>,
         ~stale /\ synced' => synced \/ Converged
  PROVE  DiscordInv'
<1>1. Sent' /\ pc'[p] = "done" /\ Others(p) /\ area' = area
  BY FinishStep, DieStep DEF DiscordInv, Finish, Die
<1>2. AboutMember(p)' /\ SyncAgrees(p)'
  BY <1>1 DEF AboutMember, SyncAgrees, SyncSteps, At
<1>3. Converged' = Converged
  BY DEF Converged, Due
<1>. QED  BY <1>1, <1>2, <1>3, Closer

LEMMA EndSyncKeeps ==
  ASSUME DiscordInv, area = "discord", NEW p \in Requests, EndSync(p)
  PROVE  DiscordInv'
<1>1. PICK d : d = Data(p)
  OBVIOUS
<1>2. /\ pc[p] = "changeRoles" /\ d = [add |-> {}, remove |-> {}] /\ Finish(p)
      /\ UNCHANGED <<teamOf, guild, held, emoji, stale>>
  BY <1>1 DEF EndSync, At
<1>3. ASSUME ~stale  PROVE Converged
  <2>1. /\ emoji = LatestTeam(teamOf)
        /\ Due \ held \subseteq d.add
        /\ (held \cap SyncedRoles(guild)) \ Due \subseteq d.remove
    BY <1>1, <1>2, <1>3 DEF DiscordInv, SyncAgrees, At
  <2>2. d.add = {} /\ d.remove = {}
    BY <1>2
  <2>. QED  BY <2>1, <2>2, DueIsSynced DEF Converged
<1>. QED  BY <1>2, <1>3, EndsSync

LEMMA SyncGuildRolesKeeps ==
  ASSUME DiscordInv, area = "discord", NEW p \in Requests, SyncGuildRoles(p)
  PROVE  DiscordInv'
<1>1. PICK names : Accept(p, {<<"guild">>}, "createRoles", [names |-> names])
  BY DEF SyncGuildRoles
<1>2. UNCHANGED <<teamOf, guild, held, emoji, stale, synced>> /\ area' = area /\ Sent
  BY <1>1 DEF SyncGuildRoles, Accept, DiscordInv
<1>3. Sent' /\ Others(p) /\ pc'[p] = "createRoles"
  BY <1>1, <1>2, AcceptStep
<1>4. AboutMember(p)' /\ SyncAgrees(p)'
  BY <1>3 DEF AboutMember, SyncAgrees, SyncSteps, At
<1>. QED  BY <1>2, <1>3, <1>4, Closer

LEMMA CreateRoleKeeps ==
  ASSUME DiscordInv, area = "discord", NEW p \in Requests, CreateRole(p)
  PROVE  DiscordInv'
<1>1. PICK data : Go(p, "createRoles", data)
  BY DEF CreateRole
<1>2. /\ UNCHANGED <<teamOf, held, emoji>>
      /\ \/ stale' = (stale \/ Syncing # {}) /\ synced' = FALSE
         \/ UNCHANGED <<guild, stale, synced>>
  BY DEF CreateRole, Overtaken
<1>3. /\ Sent' /\ Others(p) /\ area' = area /\ pc'[p] = "createRoles" /\ AboutMember(p)'
  BY <1>1, SyncGoes DEF SyncSteps
<1>4. SyncAgrees(p)' /\ pc'[p] \notin SyncSteps \ {"readName"}
  BY <1>3 DEF SyncAgrees, SyncSteps, At
<1>5. CASE stale' = (stale \/ Syncing # {}) /\ synced' = FALSE
  <2>1. ~stale' => Syncing = {} /\ ~synced'
    BY <1>5, Zenon
  <2>. QED  BY <1>3, <1>4, <2>1, Overtakes
<1>6. CASE UNCHANGED <<guild, stale, synced>>
  BY <1>2, <1>3, <1>4, <1>6, Closer
<1>. QED  BY <1>2, <1>5, <1>6

LEMMA ChangeTeamsKeeps ==
  ASSUME DiscordInv, area = "discord", NEW p \in Requests, ChangeTeams(p)
  PROVE  DiscordInv'
<1>1. Serve(p, {<<"teams">>}) /\ stale' = (stale \/ Syncing # {}) /\ synced' = FALSE
  BY DEF ChangeTeams, Overtaken
<1>2. Sent' /\ pc'[p] = "done" /\ Others(p) /\ area' = area
  BY <1>1, ServeStep DEF DiscordInv
<1>3. AboutMember(p)' /\ pc'[p] \notin SyncSteps \ {"readName"}
  BY <1>2 DEF AboutMember, SyncSteps, At
<1>4. ~stale' => Syncing = {} /\ ~synced'
  BY <1>1, Zenon
<1>. QED  BY <1>2, <1>3, <1>4, Overtakes

LEMMA DiscordInvKept == DiscordInv /\ [Next]_vars => DiscordInv'
<1>. SUFFICES ASSUME DiscordInv, [Next]_vars  PROVE DiscordInv'
  OBVIOUS
<1>1. ASSUME area = "discord", NEW p \in Requests, DiscordNext(p)  PROVE DiscordInv'
  <2>1. CASE MemberNotFound(p) \/ EndGuildRoles(p)
    BY <1>1, <2>1, EndsSync DEF MemberNotFound, EndGuildRoles, discordVars
  <2>. QED
    BY <1>1, <2>1, TriggerProfileSyncKeeps, GetNickNameKeeps, SetNicknameKeeps,
       ReadSyncKeeps, PlanSyncKeeps, AddRoleKeeps, RemoveRoleKeeps, EndSyncKeeps,
       SyncGuildRolesKeeps, CreateRoleKeeps, ChangeTeamsKeeps DEF DiscordNext
<1>2. ASSUME UNCHANGED discordVars, NEW p \in Requests, Die(p)  PROVE DiscordInv'
  <2>1. CASE area = "discord"
    BY <1>2, <2>1, EndsSync DEF discordVars
  <2>2. CASE area # "discord"
    BY <1>2, <2>2 DEF Die, DiscordInv
  <2>. QED  BY <2>1, <2>2
<1>3. CASE area # "discord" /\ UNCHANGED <<area, discordVars>>
  BY <1>3 DEF DiscordInv
<1>4. CASE ExpireCache \/ UNCHANGED <<serverVars, discordVars>>
  <2>1. UNCHANGED <<area, pc, req, teamOf, guild, held, emoji, stale, synced>>
    BY <1>4 DEF ExpireCache, serverVars, discordVars
  <2>2. Sent' = Sent /\ Converged' = Converged
    BY <2>1 DEF Sent, Converged, Due
  <2>3. \A p : AboutMember(p)' = AboutMember(p) /\ SyncAgrees(p)' = SyncAgrees(p)
    BY <2>1 DEF AboutMember, SyncAgrees, At, Data, Due
  <2>. QED  BY <2>1, <2>2, <2>3 DEF DiscordInv
<1>. QED  BY <1>1, <1>2, <1>3, <1>4, DiscordSteps

(* Once a sync of triggerProfileSync ended, the member has the roles and the emoji she
   is due, whatever other syncs do and wherever they die, until teams or roles change
   or a call fails. *)
THEOREM SyncsAlwaysConverge ==
  Spec => []SyncsConverge
<1>1. DiscordInv => SyncsConverge
  BY DEF DiscordInv, SyncsConverge, Converged
<1>. QED  BY <1>1, DiscordInvAtFirst, DiscordInvKept, PTL DEF Spec

(***************************************************************************)
(* Forms: answers, and the bookings that rest on them                      *)
(***************************************************************************)

LEMMA FormSteps ==
  ASSUME [Next]_vars
  PROVE  \/ area = "forms" /\ \E p \in Requests : FormsNext(p)
         \/ UNCHANGED formVars /\ \E p \in Requests : Die(p)
         \/ area # "forms" /\ UNCHANGED <<area, formVars>>
         \/ UNCHANGED <<serverVars, formVars>>
BY DEF Next, vars, Handle, Crash, Environment, PassTime, ExpireToken, ExpireCache,
  ProcessPhoto, OutsideOfScheduler, OutsideOfRecruitment, OutsideOfRegistration,
  OutsideOfMembers, OutsideOfDiscordSync, OutsideOfAlbums, OutsideOfProfilePhotos,
  OutsideOfPhotoStream, OutsideOfForms, OutsideOfActivities, OutsideOfDirectory,
  OutsideOfAnnouncements, PassTick

FormsAreRows ==
  /\ IsFiniteSet(DOMAIN question) /\ DOMAIN question \subseteq Questions
  /\ DOMAIN answer \subseteq Applicants \X DOMAIN question
  /\ chosen = [a \in Applicants |-> chosen[a]]
  /\ said \in [Applicants \X Questions -> (Texts \ Meaningless) \cup {Unanswered}]

(* The answers of an applicant are what she said, and an id is of one of them. *)
Heard(a) ==
  /\ \A q \in Questions :
       IF said[<<a, q>>] = Unanswered
         THEN <<a, q>> \notin DOMAIN answer
         ELSE <<a, q>> \in DOMAIN answer /\ answer[<<a, q>>].text = said[<<a, q>>]
  /\ \A q, r \in Questions :
       <<a, q>> \in DOMAIN answer /\ <<a, r>> \in DOMAIN answer
         /\ answer[<<a, q>>].id = answer[<<a, r>>].id => q = r

Fulfilled(a) ==
  /\ chosen[a] # {}
  /\ \A c \in MandatoryCollections \cup SelectedCollections(a) : IsCompleted(a, c)

(* A request that will confirm or cancel the booking of an applicant *)
Rebooks(p, a) ==
  /\ (At(p, "book") /\ Data(p).again) \/ At(p, "cancelSlot")
  /\ Data(p).applicant = a

Deserved(a) ==
  a \in booked \ revised /\ FormOf(a) \notin crossed \cup broken =>
    Fulfilled(a) \/ \E p \in Requests : Rebooks(p, a)

AskedIn(body) == {body[i].question : i \in DOMAIN body}

IdsAgree(d) ==
  /\ DOMAIN d.ids = {q \in AskedIn(d.body) : <<d.applicant, q>> \in DOMAIN answer}
  /\ \A q \in DOMAIN d.ids : d.ids[q] = answer[<<d.applicant, q>>].id

(* What has been read for a booking still holds. *)
ReadsAgree(d) ==
  /\ "roles" \notin d.unread /\ d.roles => chosen[d.applicant] # {}
  /\ "mandatory" \notin d.unread => MandatoryCollections \subseteq d.asked
  /\ "selected" \notin d.unread => SelectedCollections(d.applicant) \subseteq d.asked
  /\ "count" \notin d.unread =>
       /\ "mandatory" \notin d.unread /\ "selected" \notin d.unread
       /\ d.complete => \A c \in d.asked : IsCompleted(d.applicant, c)

FormAgrees(p) ==
  /\ pc[p] \in {"findAnswers", "writeAnswers", "book", "cancelSlot"} =>
       /\ Data(p).applicant \in Applicants
       /\ req[p].about = {FormOf(Data(p).applicant)}
  /\ pc[p] \in {"mark", "unmark"} => Data(p).applicant \in Applicants
  /\ pc[p] \in {"findAnswers", "writeAnswers"} =>
       /\ Data(p).body \in Seq(Items)
       /\ AskedIn(Data(p).body) \subseteq DOMAIN question
  /\ At(p, "writeAnswers") /\ FormOf(Data(p).applicant) \notin crossed => IdsAgree(Data(p))
  /\ At(p, "book") /\ FormOf(Data(p).applicant) \notin crossed =>
       IF p \in revised
         THEN Data(p).unread = BookingReads \/ Data(p).applicant \in revised
         ELSE ReadsAgree(Data(p))

FormsInv ==
  /\ area # "forms" =>
       DOMAIN answer = {} /\ booked = {} /\ \A k \in Applicants \X Questions : said[k] = Unanswered
  /\ area = "forms" =>
       /\ Sent /\ Alone
       /\ FormsAreRows
       /\ \A p \in Requests : FormAgrees(p)
       /\ \A a \in Applicants : Deserved(a) /\ (FormOf(a) \notin crossed => Heard(a))

(***************************************************************************)
(* What a step leaves alone for an applicant                               *)
(***************************************************************************)

FormAwaits == {"findAnswers", "writeAnswers", "book", "cancelSlot"}

AnswersStay(a) ==
  \A q \in Questions :
    /\ <<a, q>> \in DOMAIN answer' <=> <<a, q>> \in DOMAIN answer
    /\ <<a, q>> \in DOMAIN answer => answer'[<<a, q>>] = answer[<<a, q>>]
    /\ said'[<<a, q>>] = said[<<a, q>>]

FormStays(a) ==
  /\ UNCHANGED formTables
  /\ chosen'[a] = chosen[a]
  /\ AnswersStay(a)

LEMMA CollectionsStay ==
  ASSUME role' = role
  PROVE  MandatoryCollections' = MandatoryCollections
BY DEF MandatoryCollections, CollectionsOf

LEMMA SelectedStay ==
  ASSUME role' = role, NEW a, chosen'[a] = chosen[a]
  PROVE  SelectedCollections(a)' = SelectedCollections(a)
BY DEF SelectedCollections, CollectionsOf

LEMMA CompletionStays ==
  ASSUME FormsAreRows, NEW a, FormStays(a), NEW c
  PROVE  IsCompleted(a, c)' <=> IsCompleted(a, c)
<1>1. QuestionsOf(c)' = QuestionsOf(c) /\ QuestionsOf(c) \subseteq Questions
  BY DEF QuestionsOf, FormStays, formTables, FormsAreRows
<1>2. {q \in QuestionsOf(c) : <<a, q>> \in DOMAIN answer'}
        = {q \in QuestionsOf(c) : <<a, q>> \in DOMAIN answer}
  BY <1>1 DEF FormStays, AnswersStay
<1>. QED  BY <1>1, <1>2 DEF IsCompleted

LEMMA FulfilledStays ==
  ASSUME FormsAreRows, NEW a, FormStays(a)
  PROVE  Fulfilled(a)' <=> Fulfilled(a)
<1>1. /\ MandatoryCollections' = MandatoryCollections
      /\ SelectedCollections(a)' = SelectedCollections(a)
  BY CollectionsStay, SelectedStay DEF FormStays, formTables
<1>2. \A c : IsCompleted(a, c)' <=> IsCompleted(a, c)
  BY CompletionStays
<1>. QED  BY <1>1, <1>2 DEF Fulfilled, FormStays

LEMMA HeardStays ==
  ASSUME NEW a, AnswersStay(a), Heard(a)
  PROVE  Heard(a)'
<1>1. \A q \in Questions :
        IF said'[<<a, q>>] = Unanswered
          THEN <<a, q>> \notin DOMAIN answer'
          ELSE <<a, q>> \in DOMAIN answer' /\ answer'[<<a, q>>].text = said'[<<a, q>>]
  BY DEF Heard, AnswersStay
<1>2. \A q, r \in Questions :
        <<a, q>> \in DOMAIN answer' /\ <<a, r>> \in DOMAIN answer'
          /\ answer'[<<a, q>>].id = answer'[<<a, r>>].id => q = r
  BY DEF Heard, AnswersStay
<1>. QED  BY <1>1, <1>2 DEF Heard

LEMMA ReadsAgreeStill ==
  ASSUME FormsAreRows, NEW d, FormStays(d.applicant), ReadsAgree(d)
  PROVE  ReadsAgree(d)'
<1>1. /\ MandatoryCollections' = MandatoryCollections
      /\ SelectedCollections(d.applicant)' = SelectedCollections(d.applicant)
      /\ chosen'[d.applicant] = chosen[d.applicant]
  BY CollectionsStay, SelectedStay DEF FormStays, formTables
<1>2. \A c : IsCompleted(d.applicant, c)' <=> IsCompleted(d.applicant, c)
  BY CompletionStays
<1>. QED  BY <1>1, <1>2 DEF ReadsAgree

LEMMA IdsAgreeStill ==
  ASSUME NEW d, AnswersStay(d.applicant), AskedIn(d.body) \subseteq Questions, IdsAgree(d)
  PROVE  IdsAgree(d)'
<1>1. {q \in AskedIn(d.body) : <<d.applicant, q>> \in DOMAIN answer'}
        = {q \in AskedIn(d.body) : <<d.applicant, q>> \in DOMAIN answer}
  BY DEF AnswersStay
<1>2. \A q \in DOMAIN d.ids : d.ids[q] = answer'[<<d.applicant, q>>].id
  BY DEF AnswersStay, IdsAgree
<1>. QED  BY <1>1, <1>2 DEF IdsAgree

(* A request that the step was not of. *)
LEMMA OtherFormAgrees ==
  ASSUME FormsAreRows, NEW q \in Requests, FormAgrees(q),
         pc'[q] = pc[q], req'[q] = req[q], crossed \subseteq crossed',
         DOMAIN question \subseteq DOMAIN question',
         pc[q] \in FormAwaits /\ FormOf(Data(q).applicant) \notin crossed' =>
           /\ AnswersStay(Data(q).applicant)
           /\ \/ Data(q).applicant \in revised' /\ q \in revised'
              \/ /\ FormStays(Data(q).applicant)
                 /\ q \in revised' <=> q \in revised
                 /\ Data(q).applicant \in revised => Data(q).applicant \in revised'
  PROVE  FormAgrees(q)'
<1>. PICK d : d = Data(q)
  OBVIOUS
<1>1. Data(q)' = d /\ pc'[q] = pc[q] /\ req'[q].about = req[q].about
  BY DEF Data
<1>2. pc[q] \in FormAwaits => d.applicant \in Applicants /\ req[q].about = {FormOf(d.applicant)}
  BY DEF FormAgrees, FormAwaits
<1>3. pc[q] \in {"findAnswers", "writeAnswers"} =>
        /\ d.body \in Seq(Items)
        /\ AskedIn(d.body) \subseteq DOMAIN question
        /\ AskedIn(d.body) \subseteq DOMAIN question'
  BY DEF FormAgrees
<1>4. ASSUME pc[q] = "writeAnswers", FormOf(d.applicant) \notin crossed'
      PROVE  IdsAgree(d)'
  <2>1. IdsAgree(d) /\ AnswersStay(d.applicant)
    BY <1>4 DEF FormAgrees, FormAwaits, At
  <2>2. AskedIn(d.body) \subseteq Questions
    BY <1>3, <1>4 DEF FormsAreRows
  <2>. QED  BY <2>1, <2>2, IdsAgreeStill
<1>5. ASSUME pc[q] = "book", FormOf(d.applicant) \notin crossed'
      PROVE  IF q \in revised' THEN d.unread = BookingReads \/ d.applicant \in revised'
                               ELSE ReadsAgree(d)'
  <2>1. IF q \in revised THEN d.unread = BookingReads \/ d.applicant \in revised
                         ELSE ReadsAgree(d)
    BY <1>5 DEF FormAgrees, At
  <2>2. CASE d.applicant \in revised' /\ q \in revised'
    BY <2>2
  <2>3. CASE ~(d.applicant \in revised' /\ q \in revised')
    <3>1. /\ FormStays(d.applicant)
          /\ q \in revised' <=> q \in revised
          /\ d.applicant \in revised => d.applicant \in revised'
      BY <1>5, <2>3 DEF FormAwaits
    <3>2. ReadsAgree(d) => ReadsAgree(d)'
      BY <3>1, ReadsAgreeStill
    <3>. QED  BY <2>1, <3>1, <3>2
  <2>. QED  BY <2>2, <2>3
<1>6. pc[q] \in {"mark", "unmark"} => d.applicant \in Applicants
  BY DEF FormAgrees
<1>. QED  BY <1>1, <1>2, <1>3, <1>4, <1>5, <1>6 DEF FormAgrees, FormAwaits, At

(***************************************************************************)
(* A step of a request about one applicant                                 *)
(***************************************************************************)

FormsInvInside ==
  /\ area = "forms"
  /\ Sent /\ Alone
  /\ FormsAreRows
  /\ \A p \in Requests : FormAgrees(p)
  /\ \A a \in Applicants : Deserved(a) /\ (FormOf(a) \notin crossed => Heard(a))

Sole(p, a) == \A q \in Requests \ {p} : InFlight(q) => FormOf(a) \notin req[q].about

(* No other applicant, and no other request, notices. *)
OnlyFormOf(p, a) ==
  /\ \A b \in Applicants \ {a} :
       /\ FormStays(b)
       /\ b \in revised' <=> b \in revised
       /\ b \in booked' <=> b \in booked
  /\ \A q \in Requests \ {p} : q \in revised' <=> q \in revised

LEMMA FormStepKeeps ==
  ASSUME FormsInvInside, NEW p \in Requests, NEW a \in Applicants,
         Others(p), area' = area, Sent', Alone', FormsAreRows',
         crossed \subseteq crossed', broken \subseteq broken', UNCHANGED formTables,
         OnlyFormOf(p, a),
         FormOf(a) \notin crossed' => Sole(p, a) /\ Heard(a)',
         \A b \in Applicants \ {a} : ~Rebooks(p, b),
         FormAgrees(p)', Deserved(a)'
  PROVE  FormsInvInside'
<1>1. ASSUME NEW q \in Requests \ {p}
      PROVE  FormAgrees(q)'
  <2>. PICK b : b = Data(q).applicant
    OBVIOUS
  <2>1. pc'[q] = pc[q] /\ req'[q] = req[q]
    BY DEF Others
  <2>2. ASSUME pc[q] \in FormAwaits, FormOf(b) \notin crossed'
        PROVE  b \in Applicants \ {a}
    <3>1. b \in Applicants /\ FormOf(b) \in req[q].about /\ InFlight(q)
      BY <2>2 DEF FormsInvInside, FormAgrees, FormAwaits, InFlight
    <3>2. b # a
      BY <2>2, <3>1 DEF Sole
    <3>. QED  BY <3>1, <3>2
  <2>3. ASSUME pc[q] \in FormAwaits, FormOf(b) \notin crossed'
        PROVE  AnswersStay(b) /\ FormStays(b) /\ (q \in revised' <=> q \in revised)
                 /\ (b \in revised => b \in revised')
    BY <2>2, <2>3 DEF OnlyFormOf, FormStays
  <2>4. DOMAIN question \subseteq DOMAIN question'
    BY DEF formTables
  <2>5. FormsAreRows /\ FormAgrees(q)
    BY DEF FormsInvInside
  <2>. QED  BY <2>1, <2>3, <2>4, <2>5, OtherFormAgrees
<1>2. ASSUME NEW b \in Applicants \ {a}
      PROVE  Deserved(b)' /\ (FormOf(b) \notin crossed' => Heard(b)')
  <2>1. FormStays(b) /\ AnswersStay(b)
    BY DEF OnlyFormOf, FormStays
  <2>2. Fulfilled(b)' <=> Fulfilled(b)
    BY <2>1, FulfilledStays DEF FormsInvInside
  <2>3. \A q \in Requests : Rebooks(q, b) => Rebooks(q, b)'
    BY DEF Others, Rebooks, At, Data
  <2>4. Deserved(b)'
    BY <2>2, <2>3 DEF FormsInvInside, Deserved, OnlyFormOf
  <2>. QED  BY <2>1, <2>4, HeardStays DEF FormsInvInside
<1>. QED  BY <1>1, <1>2 DEF FormsInvInside

LEMMA SoleNow ==
  ASSUME Alone, NEW p \in Requests, InFlight(p), NEW a, req[p].about = {FormOf(a)},
         FormOf(a) \notin crossed
  PROVE  Sole(p, a)
BY DEF Alone, Sole

LEMMA SoleThen ==
  ASSUME Alone', NEW p \in Requests, Others(p), InFlight(p)', NEW a,
         req'[p].about = {FormOf(a)}, FormOf(a) \notin crossed'
  PROVE  Sole(p, a)
BY DEF Alone, Sole, Others, InFlight

(* What the other steps have in common: the answers and the forms stay. *)
LEMMA FormsStay ==
  ASSUME FormsAreRows, UNCHANGED <<formTables, answer, said>>
  PROVE  /\ \A a : AnswersStay(a)
         /\ \A a : chosen'[a] = chosen[a] => FormStays(a)
         /\ chosen' = [a \in Applicants |-> chosen'[a]] => FormsAreRows'
<1>1. \A a : AnswersStay(a)
  BY DEF AnswersStay
<1>. QED  BY <1>1 DEF FormStays, FormsAreRows, formTables

(***************************************************************************)
(* Moderators                                                              *)
(***************************************************************************)

LEMMA ServeAlone ==
  ASSUME Sent, Alone, NEW p \in Requests, Serve(p, {})
  PROVE  /\ Sent' /\ Alone' /\ area' = area /\ crossed' = crossed /\ broken' = broken
         /\ pc'[p] = "done" /\ Others(p)
<1>1. /\ Sent' /\ area' = area /\ crossed' = crossed /\ broken' = broken
      /\ pc'[p] = "done" /\ Others(p)
  BY ServeStep DEF Serve, Shared
<1>. QED  BY <1>1 DEF Alone, Others, InFlight

LEMMA RevisionKeeps ==
  ASSUME FormsInvInside, NEW p \in Requests, Serve(p, {}), Revise,
         IsFiniteSet(DOMAIN question'), DOMAIN question' \subseteq Questions,
         DOMAIN question \subseteq DOMAIN question',
         UNCHANGED <<answer, chosen, booked, said>>
  PROVE  FormsInvInside'
<1>1. /\ Sent' /\ Alone' /\ area' = area /\ crossed' = crossed /\ broken' = broken
      /\ pc'[p] = "done" /\ Others(p)
  BY ServeAlone DEF FormsInvInside
<1>2. FormsAreRows'
  BY DEF FormsInvInside, FormsAreRows
<1>3. \A a : AnswersStay(a)
  BY DEF AnswersStay
<1>4. ASSUME NEW q \in Requests
      PROVE  FormAgrees(q)'
  <2>1. CASE q = p
    BY <1>1, <2>1 DEF FormAgrees, At
  <2>2. CASE q # p
    <3>1. pc'[q] = pc[q] /\ req'[q] = req[q]
      BY <1>1, <2>2 DEF Others
    <3>2. pc[q] \in FormAwaits => Data(q).applicant \in revised' /\ q \in revised'
      BY DEF FormsInvInside, FormAgrees, FormAwaits, Revise
    <3>. QED  BY <1>1, <1>3, <3>1, <3>2, OtherFormAgrees DEF FormsInvInside
  <2>. QED  BY <2>1, <2>2
<1>5. ASSUME NEW a \in Applicants
      PROVE  Deserved(a)' /\ (FormOf(a) \notin crossed' => Heard(a)')
  BY <1>1, <1>3, HeardStays DEF FormsInvInside, Deserved, Revise
<1>. QED  BY <1>1, <1>2, <1>4, <1>5 DEF FormsInvInside

LEMMA ModeratorKeeps ==
  ASSUME FormsInvInside, NEW p \in Requests,
         \/ CreateRecruitRole(p) \/ UpdateRecruitRole(p) \/ DeleteRecruitRole(p)
         \/ CreateRecruitFormQuestion(p)
  PROVE  FormsInvInside'
<1>1. Serve(p, {}) /\ Revise /\ UNCHANGED <<answer, chosen, booked, said>>
  BY DEF CreateRecruitRole, UpdateRecruitRole, DeleteRecruitRole, CreateRecruitFormQuestion
<1>2. IsFiniteSet(DOMAIN question) /\ DOMAIN question \subseteq Questions
  BY DEF FormsInvInside, FormsAreRows
<1>3. \/ question' = question
      \/ \E q \in Questions : DOMAIN question' = DOMAIN question \cup {q}
  <2>1. CASE CreateRecruitFormQuestion(p)
    BY <2>1 DEF CreateRecruitFormQuestion, Put
  <2>2. CASE CreateRecruitRole(p) \/ UpdateRecruitRole(p) \/ DeleteRecruitRole(p)
    BY <2>2 DEF CreateRecruitRole, UpdateRecruitRole, DeleteRecruitRole
  <2>. QED  BY <2>1, <2>2
<1>4. /\ IsFiniteSet(DOMAIN question') /\ DOMAIN question' \subseteq Questions
      /\ DOMAIN question \subseteq DOMAIN question'
  BY <1>2, <1>3, FS_AddElement
<1>. QED  BY <1>1, <1>4, RevisionKeeps

(***************************************************************************)
(* Applicants: the steps that leave answers alone                          *)
(***************************************************************************)

(* A request of an applicant arrives. *)
LEMMA AcceptKeeps ==
  ASSUME FormsInvInside, NEW p \in Requests, NEW a \in Applicants, NEW step, NEW data,
         At(p, "new"), Accept(p, {FormOf(a)}, step, data), step \in FormAwaits,
         UNCHANGED <<formTables, answer, said, booked, revised>>,
         chosen' = [b \in Applicants |-> chosen'[b]],
         \A b \in Applicants \ {a} : chosen'[b] = chosen[b],
         chosen'[a] = chosen[a] \/ (step = "book" /\ data.again /\ data.applicant = a),
         FormAgrees(p)'
  PROVE  FormsInvInside'
<1>1. Sent' /\ Alone' /\ crossed \subseteq crossed' /\ Others(p)
  BY AcceptStep, AcceptAlone DEF FormsInvInside
<1>2. area' = area /\ broken' = broken
  BY DEF Accept
<1>3. pc'[p] = step /\ req'[p] = [about |-> {FormOf(a)}, data |-> data]
  BY AcceptStep DEF FormsInvInside
<1>4. FormsAreRows' /\ (\A b : AnswersStay(b)) /\ (\A b : chosen'[b] = chosen[b] => FormStays(b))
  BY FormsStay DEF FormsInvInside
<1>5. OnlyFormOf(p, a)
  BY <1>4 DEF OnlyFormOf
<1>6. ASSUME FormOf(a) \notin crossed'
      PROVE  Sole(p, a) /\ Heard(a)'
  <2>1. InFlight(p)' /\ req'[p].about = {FormOf(a)}
    BY <1>3 DEF InFlight, FormAwaits
  <2>2. Sole(p, a)
    BY <1>1, <1>6, <2>1, SoleThen
  <2>3. Heard(a)
    BY <1>1, <1>6 DEF FormsInvInside
  <2>. QED  BY <1>4, <2>2, <2>3, HeardStays
<1>7. \A b : ~Rebooks(p, b)
  BY DEF Rebooks, At
<1>8. Deserved(a)'
  <2>1. CASE chosen'[a] = chosen[a]
    <3>1. Fulfilled(a)' <=> Fulfilled(a)
      BY <1>4, <2>1, FulfilledStays DEF FormsInvInside
    <3>2. \A q \in Requests : Rebooks(q, a) => Rebooks(q, a)'
      BY <1>1, <1>7 DEF Others, Rebooks, At, Data
    <3>. QED  BY <1>1, <1>2, <3>1, <3>2 DEF FormsInvInside, Deserved
  <2>2. CASE step = "book" /\ data.again /\ data.applicant = a
    <3>1. Rebooks(p, a)'
      BY <1>3, <2>2 DEF Rebooks, At, Data
    <3>. QED  BY <3>1 DEF Deserved
  <2>. QED  BY <2>1, <2>2
<1>. QED  BY <1>1, <1>2, <1>4, <1>5, <1>6, <1>7, <1>8, FormStepKeeps

LEMMA AnswerQuestionsKeeps ==
  ASSUME FormsInvInside, NEW p \in Requests, AnswerRecruitFormQuestions(p)
  PROVE  FormsInvInside'
<1>1. PICK a \in Applicants, body \in Bodies :
        /\ \A i \in DOMAIN body : body[i].question \in DOMAIN question
        /\ Accept(p, {FormOf(a)}, "findAnswers", [applicant |-> a, body |-> body])
  BY DEF AnswerRecruitFormQuestions
<1>2. At(p, "new") /\ UNCHANGED <<formTables, answer, chosen, said, booked, revised>>
  BY DEF AnswerRecruitFormQuestions, Arrives, formVars, formTables
<1>3. FormAgrees(p)'
  <2>1. /\ pc'[p] = "findAnswers"
        /\ req'[p] = [about |-> {FormOf(a)}, data |-> [applicant |-> a, body |-> body]]
    BY <1>1, AcceptStep DEF FormsInvInside
  <2>2. body \in Seq(Items) /\ AskedIn(body) \subseteq DOMAIN question'
    BY <1>1, <1>2, FormsAssumption DEF AskedIn, formTables
  <2>. QED  BY <2>1, <2>2 DEF FormAgrees, At, Data
<1>. QED  BY <1>1, <1>2, <1>3, AcceptKeeps DEF FormAwaits, FormsInvInside, FormsAreRows

(* A booking that has read nothing agrees. *)
LEMMA BookingAgrees ==
  ASSUME Sent, NEW p \in Requests, NEW a \in Applicants, NEW again, NEW data,
         data = Booking(a, again), Accept(p, {FormOf(a)}, "book", data)
  PROVE  FormAgrees(p)'
<1>1. pc'[p] = "book" /\ req'[p] = [about |-> {FormOf(a)}, data |-> data]
  BY AcceptStep
<1>2. Data(p)' = data /\ data.applicant = a /\ data.unread = BookingReads
  BY <1>1 DEF Data, Booking
<1>3. ReadsAgree(data)'
  BY <1>2 DEF ReadsAgree, BookingReads
<1>. QED  BY <1>1, <1>2, <1>3 DEF FormAgrees, At

LEMMA BookInterviewSlotKeeps ==
  ASSUME FormsInvInside, NEW p \in Requests, BookInterviewSlot(p)
  PROVE  FormsInvInside'
<1>1. PICK a \in Applicants : Accept(p, {FormOf(a)}, "book", Booking(a, FALSE))
  BY DEF BookInterviewSlot
<1>2. At(p, "new") /\ UNCHANGED <<formTables, answer, chosen, said, booked, revised>>
  BY DEF BookInterviewSlot, Arrives, formVars, formTables
<1>. PICK again : again = FALSE
  OBVIOUS
<1>. PICK data : data = Booking(a, again)
  OBVIOUS
<1>3. Accept(p, {FormOf(a)}, "book", data)
  BY <1>1
<1>4. FormAgrees(p)'
  BY <1>3, BookingAgrees DEF FormsInvInside
<1>. QED  BY <1>2, <1>3, <1>4, AcceptKeeps DEF FormAwaits, FormsInvInside, FormsAreRows

LEMMA SelectRecruitRolesKeeps ==
  ASSUME FormsInvInside, NEW p \in Requests, SelectRecruitRoles(p)
  PROVE  FormsInvInside'
<1>1. PICK a \in Applicants, roles \in SUBSET DOMAIN role :
        /\ chosen' = [chosen EXCEPT ![a] = roles]
        /\ Accept(p, {FormOf(a)}, "book", Booking(a, TRUE))
  BY DEF SelectRecruitRoles
<1>2. At(p, "new") /\ UNCHANGED <<formTables, answer, said, booked, revised>>
  BY DEF SelectRecruitRoles, Arrives, formTables
<1>. PICK again : again = TRUE
  OBVIOUS
<1>. PICK data : data = Booking(a, again)
  OBVIOUS
<1>3. Accept(p, {FormOf(a)}, "book", data)
  BY <1>1
<1>4. FormAgrees(p)'
  BY <1>3, BookingAgrees DEF FormsInvInside
<1>5. /\ chosen' = [b \in Applicants |-> chosen'[b]]
      /\ \A b \in Applicants \ {a} : chosen'[b] = chosen[b]
  BY <1>1 DEF FormsInvInside, FormsAreRows
<1>6. data.again /\ data.applicant = a
  BY DEF Booking
<1>. QED  BY <1>2, <1>3, <1>4, <1>5, <1>6, AcceptKeeps DEF FormAwaits

(* A step of a request between its first and its last that leaves answers alone. *)
LEMMA GoOnKeeps ==
  ASSUME FormsInvInside, NEW p \in Requests, NEW a \in Applicants, NEW step, NEW data,
         pc[p] \in FormAwaits, Data(p).applicant = a, Go(p, step, data), step \in FormAwaits,
         UNCHANGED <<formTables, answer, said, chosen>>,
         OnlyFormOf(p, a), FormAgrees(p)', Deserved(a)'
  PROVE  FormsInvInside'
<1>1. /\ req[p].about = {FormOf(a)} /\ InFlight(p)
      /\ \A b \in Applicants \ {a} : ~Rebooks(p, b)
  BY DEF FormsInvInside, FormAgrees, FormAwaits, InFlight, Rebooks
<1>2. Sent' /\ Alone' /\ crossed' = crossed /\ Others(p) /\ area' = area /\ broken' = broken
  BY <1>1, GoStep, GoAlone DEF FormsInvInside, Go
<1>3. FormsAreRows' /\ AnswersStay(a)
  BY FormsStay DEF FormsInvInside, FormsAreRows
<1>4. FormOf(a) \notin crossed' => Sole(p, a) /\ Heard(a)'
  BY <1>1, <1>2, <1>3, SoleNow, HeardStays DEF FormsInvInside
<1>. QED  BY <1>1, <1>2, <1>3, <1>4, FormStepKeeps

LEMMA EndKeeps ==
  ASSUME FormsInvInside, NEW p \in Requests, NEW a \in Applicants,
         pc[p] \in FormAwaits, Data(p).applicant = a, Finish(p),
         UNCHANGED <<formTables, answer, said, chosen>>,
         OnlyFormOf(p, a), Deserved(a)'
  PROVE  FormsInvInside'
<1>1. /\ req[p].about = {FormOf(a)} /\ InFlight(p)
      /\ \A b \in Applicants \ {a} : ~Rebooks(p, b)
  BY DEF FormsInvInside, FormAgrees, FormAwaits, InFlight, Rebooks
<1>2. /\ Sent' /\ Alone' /\ crossed' = crossed /\ Others(p) /\ area' = area /\ broken' = broken
      /\ pc'[p] = "done"
  BY FinishAlone DEF FormsInvInside, Finish
<1>3. FormsAreRows' /\ AnswersStay(a)
  BY FormsStay DEF FormsInvInside, FormsAreRows
<1>4. FormOf(a) \notin crossed' => Sole(p, a) /\ Heard(a)'
  BY <1>1, <1>2, <1>3, SoleNow, HeardStays DEF FormsInvInside
<1>5. FormAgrees(p)'
  BY <1>2 DEF FormAgrees, At
<1>. QED  BY <1>1, <1>2, <1>3, <1>4, <1>5, FormStepKeeps

LEMMA AllStay ==
  ASSUME FormsAreRows, NEW p, UNCHANGED formVars
  PROVE  /\ \A a : OnlyFormOf(p, a)
         /\ \A a : FormStays(a) /\ AnswersStay(a)
         /\ UNCHANGED <<formTables, answer, said, chosen, booked, revised>>
<1>1. UNCHANGED <<formTables, answer, said, chosen, booked, revised>>
  BY DEF formVars, formTables
<1>2. \A a : FormStays(a) /\ AnswersStay(a)
  BY <1>1, FormsStay
<1>. QED  BY <1>1, <1>2 DEF OnlyFormOf

LEMMA FindAnswersKeeps ==
  ASSUME FormsInvInside, NEW p \in Requests, FindAnswers(p)
  PROVE  FormsInvInside'
<1>. PICK d : d = Data(p)
  OBVIOUS
<1>. PICK a : a = d.applicant
  OBVIOUS
<1>. PICK found : found = {q \in AskedIn(d.body) : <<a, q>> \in DOMAIN answer}
  OBVIOUS
<1>. PICK ids : ids = [q \in found |-> answer[<<a, q>>].id]
  OBVIOUS
<1>. PICK e : e = [applicant |-> a, body |-> d.body, ids |-> ids]
  OBVIOUS
<1>1. At(p, "findAnswers") /\ Go(p, "writeAnswers", e) /\ UNCHANGED formVars
  BY DEF FindAnswers, AskedIn
<1>2. /\ a \in Applicants /\ req[p].about = {FormOf(a)}
      /\ d.body \in Seq(Items) /\ AskedIn(d.body) \subseteq DOMAIN question
  BY <1>1 DEF FormsInvInside, FormAgrees, At
<1>3. /\ UNCHANGED <<formTables, answer, said, chosen, booked, revised>>
      /\ OnlyFormOf(p, a) /\ FormStays(a)
  BY <1>1, AllStay DEF FormsInvInside
<1>4. FormAgrees(p)'
  <2>1. pc'[p] = "writeAnswers" /\ req'[p].about = {FormOf(a)} /\ req'[p].data = e
    BY <1>1, <1>2, GoStep DEF FormsInvInside
  <2>2. AskedIn(e.body) \subseteq DOMAIN question'
    BY <1>2, <1>3 DEF formTables
  <2>3. IdsAgree(e)'
    BY <1>3 DEF IdsAgree
  <2>4. e.applicant = a /\ e.body \in Seq(Items)
    BY <1>2
  <2>5. /\ Data(p)' = e
        /\ \A s : At(p, s)' <=> s = "writeAnswers"
    BY <2>1 DEF Data, At
  <2>. QED  BY <1>2, <2>1, <2>2, <2>3, <2>4, <2>5 DEF FormAgrees
<1>5. Deserved(a)'
  <2>1. Fulfilled(a)' <=> Fulfilled(a)
    BY <1>3, FulfilledStays DEF FormsInvInside
  <2>2. ~Rebooks(p, a)
    BY <1>1 DEF Rebooks, At
  <2>3. \A q \in Requests : Rebooks(q, a) => Rebooks(q, a)'
    BY <1>1, <2>2, GoStep DEF FormsInvInside, Others, Rebooks, At, Data
  <2>4. crossed' = crossed /\ broken' = broken
    BY <1>1 DEF Go
  <2>. QED  BY <1>2, <1>3, <2>1, <2>3, <2>4 DEF FormsInvInside, Deserved
<1>. QED  BY <1>1, <1>2, <1>3, <1>4, <1>5, GoOnKeeps DEF FormAwaits, At

(* d is what a request knows before it reads, and e what it knows then. *)
LEMMA ReadKeeps ==
  ASSUME FormsInvInside, NEW p \in Requests, NEW a \in Applicants, a # p,
         At(p, "book"), req[p].about = {FormOf(a)},
         NEW d, d = Data(p), d.applicant = a, NEW read \in d.unread,
         read = "count" => d.unread \cap {"mandatory", "selected"} = {},
         NEW e, e.applicant = a, e.again = d.again, e.unread = d.unread \ {read},
         e.asked = d.asked \cup (IF read = "mandatory" THEN MandatoryCollections
                                 ELSE IF read = "selected" THEN SelectedCollections(a)
                                 ELSE {}),
         e.roles => IF read = "roles" THEN chosen[a] # {} ELSE d.roles,
         e.complete => IF read = "count" THEN \A c \in d.asked : IsCompleted(a, c)
                                         ELSE d.complete,
         Go(p, "book", e),
         UNCHANGED <<formTables, answer, chosen, booked, said>>,
         revised' = IF d.unread = BookingReads THEN revised \ {p} ELSE revised
  PROVE  FormsInvInside'
<1>1. (\A b : AnswersStay(b)) /\ (\A b : FormStays(b))
  BY FormsStay DEF FormsInvInside
<1>2. /\ a \in revised' <=> a \in revised
      /\ \A b \in Applicants : b \in revised' <=> b \in revised
      /\ \A q \in Requests \ {p} : q \in revised' <=> q \in revised
  BY FormsAssumption
<1>3. OnlyFormOf(p, a)
  BY <1>1, <1>2 DEF OnlyFormOf
<1>4. /\ pc'[p] = "book" /\ req'[p].about = {FormOf(a)} /\ req'[p].data = e
      /\ Others(p) /\ crossed' = crossed /\ broken' = broken
  <2>1. Sent
    BY DEF FormsInvInside
  <2>2. /\ pc'[p] = "book" /\ req'[p].about = req[p].about /\ req'[p].data = e
        /\ Others(p)
    BY <2>1, GoStep
  <2>3. crossed' = crossed /\ broken' = broken
    BY DEF Go
  <2>. QED  BY <2>2, <2>3
<1>5. ASSUME FormOf(a) \notin crossed
      PROVE  IF p \in revised' THEN a \in revised' ELSE ReadsAgree(e)'
  <2>1. IF p \in revised THEN d.unread = BookingReads \/ a \in revised ELSE ReadsAgree(d)
    BY <1>5 DEF FormsInvInside, FormAgrees, At
  <2>2. CASE p \in revised'
    BY <1>2, <2>1, <2>2
  <2>3. CASE p \notin revised'
    <3>1. ReadsAgree(d)
      <4>1. CASE d.unread = BookingReads
        BY <4>1 DEF ReadsAgree, BookingReads
      <4>2. CASE d.unread # BookingReads
        BY <2>1, <2>3, <4>2
      <4>. QED  BY <4>1, <4>2
    <3>2. "roles" \notin e.unread /\ e.roles => chosen[a] # {}
      BY <3>1 DEF ReadsAgree
    <3>3. /\ "mandatory" \notin e.unread => MandatoryCollections \subseteq e.asked
          /\ "selected" \notin e.unread => SelectedCollections(a) \subseteq e.asked
      BY <3>1 DEF ReadsAgree
    <3>4. "count" \notin e.unread => "mandatory" \notin e.unread /\ "selected" \notin e.unread
      BY <3>1 DEF ReadsAgree
    <3>5. ASSUME "count" \notin e.unread, e.complete
          PROVE  \A c \in e.asked : IsCompleted(a, c)
      <4>1. e.asked = d.asked
        BY <3>1, <3>5 DEF ReadsAgree
      <4>2. CASE read = "count"
        BY <3>5, <4>1, <4>2
      <4>3. CASE read # "count"
        BY <3>1, <3>5, <4>1, <4>3 DEF ReadsAgree
      <4>. QED  BY <4>2, <4>3
    <3>6. ReadsAgree(e)
      BY <3>2, <3>3, <3>4, <3>5 DEF ReadsAgree
    <3>. QED  BY <1>1, <2>3, <3>6, ReadsAgreeStill DEF FormsInvInside
  <2>. QED  BY <2>2, <2>3
<1>6. FormAgrees(p)'
  BY <1>4, <1>5 DEF FormAgrees, At, Data
<1>7. Deserved(a)'
  <2>1. Fulfilled(a)' <=> Fulfilled(a)
    BY <1>1, FulfilledStays DEF FormsInvInside
  <2>2. \A q \in Requests : Rebooks(q, a) => Rebooks(q, a)'
    BY <1>4 DEF Others, Rebooks, At, Data
  <2>. QED  BY <1>2, <1>4, <2>1, <2>2 DEF FormsInvInside, Deserved
<1>. QED  BY <1>3, <1>6, <1>7, GoOnKeeps DEF FormAwaits, At

LEMMA ReadForBookingKeeps ==
  ASSUME FormsInvInside, NEW p \in Requests, ReadForBooking(p)
  PROVE  FormsInvInside'
<1>. PICK d : d = Data(p)
  OBVIOUS
<1>. PICK a : a = d.applicant
  OBVIOUS
<1>1. PICK read \in d.unread :
        /\ read = "count" => d.unread \cap {"mandatory", "selected"} = {}
        /\ Go(p, "book",
             [applicant |-> a,
              again |-> d.again,
              unread |-> d.unread \ {read},
              slot |-> IF read = "slots" THEN a \in booked \cup interviewed ELSE d.slot,
              roles |-> IF read = "roles" THEN chosen[a] # {} ELSE d.roles,
              asked |-> d.asked \cup (IF read = "mandatory" THEN MandatoryCollections
                                     ELSE IF read = "selected" THEN SelectedCollections(a)
                                     ELSE {}),
              complete |-> IF read = "count" THEN \A c \in d.asked : IsCompleted(a, c)
                           ELSE d.complete])
        /\ revised' = IF d.unread = BookingReads THEN revised \ {p} ELSE revised
  BY DEF ReadForBooking
<1>2. PICK e :
       e = [applicant |-> a,
            again |-> d.again,
            unread |-> d.unread \ {read},
            slot |-> IF read = "slots" THEN a \in booked \cup interviewed ELSE d.slot,
            roles |-> IF read = "roles" THEN chosen[a] # {} ELSE d.roles,
            asked |-> d.asked \cup (IF read = "mandatory" THEN MandatoryCollections
                                   ELSE IF read = "selected" THEN SelectedCollections(a)
                                   ELSE {}),
            complete |-> IF read = "count" THEN \A c \in d.asked : IsCompleted(a, c)
                         ELSE d.complete]
  OBVIOUS
<1>3. /\ e.applicant = a /\ e.again = d.again /\ e.unread = d.unread \ {read}
      /\ e.asked = d.asked \cup (IF read = "mandatory" THEN MandatoryCollections
                                   ELSE IF read = "selected" THEN SelectedCollections(a)
                                   ELSE {})
  BY <1>2
<1>4. e.roles => IF read = "roles" THEN chosen[a] # {} ELSE d.roles
  BY <1>2
<1>5. e.complete => IF read = "count" THEN \A c \in d.asked : IsCompleted(a, c) ELSE d.complete
  BY <1>2
<1>6. Go(p, "book", e)
  BY <1>1, <1>2
<1>7. /\ At(p, "book") /\ UNCHANGED <<formTables, answer, chosen, booked, said>>
  BY DEF ReadForBooking
<1>8. a \in Applicants /\ req[p].about = {FormOf(a)} /\ a # p
  BY <1>7, FormsAssumption DEF FormsInvInside, FormAgrees, At
<1>9. /\ read = "count" => d.unread \cap {"mandatory", "selected"} = {}
      /\ revised' = IF d.unread = BookingReads THEN revised \ {p} ELSE revised
  BY <1>1
<1>. QED  BY <1>3, <1>4, <1>5, <1>6, <1>7, <1>8, <1>9, ReadKeeps

LEMMA BookKeeps ==
  ASSUME FormsInvInside, NEW p \in Requests, Book(p)
  PROVE  FormsInvInside'
<1>. PICK d : d = Data(p)
  OBVIOUS
<1>. PICK a : a = d.applicant
  OBVIOUS
<1>1. /\ At(p, "book") /\ d.unread = {}
      /\ UNCHANGED <<formTables, answer, chosen, said>>
  BY DEF Book
<1>2. /\ a \in Applicants /\ req[p].about = {FormOf(a)} /\ InFlight(p)
      /\ FormOf(a) \notin crossed => IF p \in revised THEN a \in revised ELSE ReadsAgree(d)
  BY <1>1 DEF FormsInvInside, FormAgrees, At, InFlight, BookingReads
<1>3. (\A b : AnswersStay(b)) /\ (\A b : FormStays(b)) /\ (Fulfilled(a)' <=> Fulfilled(a))
  BY <1>1, FormsStay, FulfilledStays DEF FormsInvInside
<1>4. CASE /\ d.complete /\ d.roles
           /\ booked' \in {booked, booked \cup {a}}
           /\ revised' = IF p \in revised THEN revised ELSE revised \ {a}
           /\ Finish(p)
  <2>1. OnlyFormOf(p, a)
    BY <1>2, <1>3, <1>4, FormsAssumption DEF OnlyFormOf
  <2>2. ASSUME a \notin revised', FormOf(a) \notin crossed
        PROVE  Fulfilled(a)
    <3>1. ReadsAgree(d)
      BY <1>2, <1>4, <2>2
    <3>. QED  BY <1>1, <1>4, <3>1 DEF ReadsAgree, Fulfilled
  <2>3. Deserved(a)'
    BY <1>3, <1>4, <2>2 DEF Deserved, Finish
  <2>. QED  BY <1>1, <1>2, <1>4, <2>1, <2>3, EndKeeps DEF FormAwaits, At
<1>5. CASE /\ IF d.again THEN Go(p, "cancelSlot", d) ELSE Finish(p)
           /\ UNCHANGED <<booked, revised>>
  <2>1. OnlyFormOf(p, a)
    BY <1>3, <1>5 DEF OnlyFormOf
  <2>2. CASE d.again /\ Go(p, "cancelSlot", d)
    <3>1. /\ pc'[p] = "cancelSlot" /\ req'[p].about = {FormOf(a)} /\ req'[p].data = d
      BY <1>2, <2>2, GoStep DEF FormsInvInside
    <3>2. Deserved(a)' /\ FormAgrees(p)'
      BY <1>2, <3>1 DEF Deserved, Rebooks, FormAgrees, At, Data
    <3>. QED  BY <1>1, <1>2, <2>1, <2>2, <3>2, GoOnKeeps DEF FormAwaits, At
  <2>3. CASE ~d.again /\ Finish(p)
    <3>1. Others(p) /\ crossed' = crossed /\ broken' = broken
      BY <2>3, FinishStep DEF FormsInvInside, Finish
    <3>2. ~Rebooks(p, a)
      BY <1>1, <2>3 DEF Rebooks, At
    <3>3. \A q \in Requests : Rebooks(q, a) => Rebooks(q, a)'
      BY <3>1, <3>2 DEF Others, Rebooks, At, Data
    <3>4. Deserved(a)'
      BY <1>2, <1>3, <1>5, <3>1, <3>3 DEF FormsInvInside, Deserved
    <3>. QED  BY <1>1, <1>2, <2>1, <2>3, <3>4, EndKeeps DEF FormAwaits, At
  <2>. QED  BY <1>5, <2>2, <2>3
<1>. QED  BY <1>4, <1>5 DEF Book

LEMMA CancelInterviewSlotKeeps ==
  ASSUME FormsInvInside, NEW p \in Requests, CancelInterviewSlot(p)
  PROVE  FormsInvInside'
<1>1. PICK a \in Applicants : Accept(p, {FormOf(a)}, "cancelSlot", [applicant |-> a])
  BY DEF CancelInterviewSlot
<1>2. At(p, "new") /\ UNCHANGED <<formTables, answer, chosen, said, booked, revised>>
  BY DEF CancelInterviewSlot, Arrives, formVars, formTables
<1>3. FormAgrees(p)'
  <2>1. /\ pc'[p] = "cancelSlot"
        /\ req'[p] = [about |-> {FormOf(a)}, data |-> [applicant |-> a]]
    BY <1>1, AcceptStep DEF FormsInvInside
  <2>. QED  BY <2>1 DEF FormAgrees, At, Data
<1>. QED  BY <1>1, <1>2, <1>3, AcceptKeeps DEF FormAwaits, FormsInvInside, FormsAreRows

LEMMA CancelSlotKeeps ==
  ASSUME FormsInvInside, NEW p \in Requests, CancelSlot(p)
  PROVE  FormsInvInside'
<1>. PICK a : a = Data(p).applicant
  OBVIOUS
<1>1. /\ At(p, "cancelSlot") /\ Finish(p) /\ booked' = booked \ {a}
      /\ UNCHANGED <<formTables, answer, chosen, said, revised>>
  BY DEF CancelSlot
<1>2. a \in Applicants
  BY <1>1 DEF FormsInvInside, FormAgrees, At
<1>3. OnlyFormOf(p, a)
  BY <1>1, FormsStay DEF FormsInvInside, OnlyFormOf
<1>4. Deserved(a)'
  BY <1>1 DEF Deserved
<1>. QED  BY <1>1, <1>2, <1>3, <1>4, EndKeeps DEF FormAwaits, At

(***************************************************************************)
(* Marks as interviewed: a booking ends, or is given back and revised      *)
(***************************************************************************)

LEMMA MarkingKeeps ==
  ASSUME FormsInvInside, NEW p \in Requests, pc[p] \notin FormAwaits,
         Others(p), area' = area, Sent', Alone', UNCHANGED <<crossed, broken>>,
         UNCHANGED <<formTables, answer, chosen, said>>,
         revised \subseteq revised', \A q \in Requests : q \in revised' => q \in revised,
         booked' \ revised' \subseteq booked \ revised, FormAgrees(p)'
  PROVE  FormsInvInside'
<1>1. /\ FormsAreRows'
      /\ \A b : FormStays(b) /\ AnswersStay(b)
  BY FormsStay DEF FormsInvInside, FormsAreRows
<1>2. ASSUME NEW q \in Requests \ {p}
      PROVE  FormAgrees(q)'
  <2>1. /\ pc'[q] = pc[q] /\ req'[q] = req[q]
        /\ q \in revised' <=> q \in revised
    BY DEF Others
  <2>2. DOMAIN question' = DOMAIN question
    BY DEF formTables
  <2>3. FormsAreRows /\ FormAgrees(q)
    BY DEF FormsInvInside
  <2>. QED  BY <1>1, <2>1, <2>2, <2>3, OtherFormAgrees
<1>3. ASSUME NEW b \in Applicants
      PROVE  Deserved(b)' /\ (FormOf(b) \notin crossed' => Heard(b)')
  <2>1. Fulfilled(b)' <=> Fulfilled(b)
    BY <1>1, FulfilledStays DEF FormsInvInside
  <2>2. \A q \in Requests : Rebooks(q, b) => Rebooks(q, b)'
    BY DEF Others, Rebooks, At, Data, FormAwaits
  <2>3. Deserved(b)'
    BY <2>1, <2>2 DEF FormsInvInside, Deserved
  <2>. QED  BY <1>1, <2>3, HeardStays DEF FormsInvInside
<1>. QED  BY <1>1, <1>2, <1>3 DEF FormsInvInside

LEMMA MarksKeep ==
  ASSUME FormsInvInside, NEW p \in Requests,
         \/ MarkAsInterviewed(p) \/ UnmarkAsInterviewed(p)
         \/ WriteMark(p) \/ WriteUnmark(p)
  PROVE  FormsInvInside'
<1>. PICK a : a = Data(p).applicant
  OBVIOUS
<1>1. CASE MarkAsInterviewed(p) \/ UnmarkAsInterviewed(p)
  <2>1. PICK b \in Applicants, step \in {"mark", "unmark"} :
          Accept(p, {}, step, [applicant |-> b])
    BY <1>1 DEF MarkAsInterviewed, UnmarkAsInterviewed
  <2>2. At(p, "new") /\ UNCHANGED <<formTables, answer, chosen, said, booked, revised>>
    BY <1>1 DEF MarkAsInterviewed, UnmarkAsInterviewed, Arrives, formVars, formTables
  <2>3. /\ Sent' /\ Alone' /\ Others(p) /\ pc'[p] = step
        /\ req'[p] = [about |-> {}, data |-> [applicant |-> b]]
    BY <2>1, AcceptStep, AcceptAlone DEF FormsInvInside
  <2>4. area' = area /\ UNCHANGED <<crossed, broken>>
    BY <2>1 DEF Accept, Shared
  <2>5. FormAgrees(p)'
    BY <2>3 DEF FormAgrees, At, Data
  <2>. QED  BY <2>2, <2>3, <2>4, <2>5, MarkingKeeps DEF At, FormAwaits
<1>2. CASE WriteMark(p) \/ WriteUnmark(p)
  <2>1. /\ pc[p] \in {"mark", "unmark"} /\ Finish(p)
        /\ UNCHANGED <<formTables, answer, chosen, said>>
        /\ \/ booked' = booked \ {a} /\ revised' = revised
           \/ /\ booked' = booked \cup (interviewed \cap {a})
              /\ revised' = revised \cup (interviewed \cap {a})
    BY <1>2 DEF WriteMark, WriteUnmark, At
  <2>2. a \in Applicants
    BY <2>1 DEF FormsInvInside, FormAgrees
  <2>3. \A q \in Requests : q # a
    BY <2>2, FormsAssumption
  <2>4. /\ Sent' /\ Alone' /\ crossed' = crossed /\ broken' = broken /\ area' = area
        /\ pc'[p] = "done" /\ Others(p)
    BY <2>1, FinishAlone DEF FormsInvInside, Finish
  <2>5. FormAgrees(p)'
    BY <2>4 DEF FormAgrees, At
  <2>6. /\ revised \subseteq revised' /\ \A q \in Requests : q \in revised' => q \in revised
        /\ booked' \ revised' \subseteq booked \ revised
    BY <2>1, <2>3
  <2>. QED  BY <2>1, <2>4, <2>5, <2>6, MarkingKeeps DEF FormAwaits
<1>. QED  BY <1>1, <1>2

IdFor(q, d, new) == IF q \in DOMAIN d.ids THEN d.ids[q] ELSE new[q]

(* The table that WriteAnswers leaves, question by question *)
AnswersFollow(d, new) ==
  \A q \in Questions :
    LET k == <<d.applicant, q>> IN
    IF q \in Upserts(d.body)
      THEN IF IdFor(q, d, new) \in Removed(d)
             THEN k \notin DOMAIN answer' /\ said'[k] = Unanswered
             ELSE /\ k \in DOMAIN answer' /\ said'[k] = TextFor(q, d.body)
                  /\ answer'[k].id = IdFor(q, d, new) /\ answer'[k].text = TextFor(q, d.body)
      ELSE /\ k \in DOMAIN answer' <=> k \in DOMAIN answer /\ answer[k].id \notin Removed(d)
           /\ k \in DOMAIN answer' => answer'[k] = answer[k]
           /\ said'[k] = IF q \in Blanks(d.body) THEN Unanswered ELSE said[k]

(* Answers are replaced by key and removed by an id: what d says of the answers of
   its applicant is true, so she has then said what her answers are. *)
LEMMA AnswersReplaced ==
  ASSUME FormsAreRows, NEW a \in Applicants, Heard(a),
         NEW d, d.applicant = a, IdsAgree(d), AskedIn(d.body) \subseteq Questions,
         AskedIn(d.body) = Blanks(d.body) \cup Upserts(d.body),
         NEW new, \A q \in Upserts(d.body) \ DOMAIN d.ids :
                    \A r \in Questions : <<a, r>> \in DOMAIN answer => answer[<<a, r>>].id # new[q],
         \A q, r \in Upserts(d.body) \ DOMAIN d.ids : new[q] = new[r] => q = r,
         \A q \in Upserts(d.body) : TextFor(q, d.body) \in Texts \ Meaningless,
         AnswersFollow(d, new)
  PROVE  Heard(a)'
<1>. PICK blank : blank = Blanks(d.body)
  OBVIOUS
<1>. PICK upserts : upserts = Upserts(d.body)
  OBVIOUS
<1>. PICK removed : removed = Removed(d)
  OBVIOUS
<1>0. removed = {d.ids[q] : q \in blank \cap DOMAIN d.ids}
  BY DEF Removed
<1>0a. \A q \in Questions :
         IF q \in upserts
           THEN IF IdFor(q, d, new) \in removed
                  THEN <<a, q>> \notin DOMAIN answer' /\ said'[<<a, q>>] = Unanswered
                  ELSE /\ <<a, q>> \in DOMAIN answer' /\ said'[<<a, q>>] = TextFor(q, d.body)
                       /\ answer'[<<a, q>>].id = IdFor(q, d, new) /\ answer'[<<a, q>>].text = TextFor(q, d.body)
           ELSE /\ <<a, q>> \in DOMAIN answer' <=>
                     <<a, q>> \in DOMAIN answer /\ answer[<<a, q>>].id \notin removed
                /\ <<a, q>> \in DOMAIN answer' => answer'[<<a, q>>] = answer[<<a, q>>]
                /\ said'[<<a, q>>] = IF q \in blank THEN Unanswered ELSE said[<<a, q>>]
  BY DEF AnswersFollow
<1>1. /\ DOMAIN d.ids \subseteq Questions
      /\ \A q \in blank \cup upserts : q \in DOMAIN d.ids <=> <<a, q>> \in DOMAIN answer
      /\ \A q \in DOMAIN d.ids : <<a, q>> \in DOMAIN answer /\ d.ids[q] = answer[<<a, q>>].id
  BY DEF IdsAgree
<1>2. \A q, r \in Questions :
        <<a, q>> \in DOMAIN answer /\ <<a, r>> \in DOMAIN answer
          /\ answer[<<a, q>>].id = answer[<<a, r>>].id => q = r
  BY DEF Heard
<1>3. ASSUME NEW q \in Questions, q \notin upserts, <<a, q>> \in DOMAIN answer
      PROVE  answer[<<a, q>>].id \in removed <=> q \in blank
  <2>1. CASE q \in blank
    BY <1>0, <1>1, <1>3, <2>1
  <2>2. CASE answer[<<a, q>>].id \in removed
    <3>1. PICK r \in blank \cap DOMAIN d.ids : d.ids[r] = answer[<<a, q>>].id
      BY <1>0, <2>2
    <3>2. r \in Questions /\ <<a, r>> \in DOMAIN answer /\ d.ids[r] = answer[<<a, r>>].id
      BY <1>1, <3>1
    <3>3. r = q
      BY <1>2, <1>3, <3>1, <3>2
    <3>. QED  BY <2>2, <3>1, <3>3
  <2>. QED  BY <2>1, <2>2
<1>4. ASSUME NEW q \in Questions
      PROVE  IF said'[<<a, q>>] = Unanswered
               THEN <<a, q>> \notin DOMAIN answer'
               ELSE <<a, q>> \in DOMAIN answer' /\ answer'[<<a, q>>].text = said'[<<a, q>>]
  <2>1. CASE q \in upserts
    BY <1>0a, <2>1, TextsAssumption
  <2>2. CASE q \notin upserts
    <3>1. IF said[<<a, q>>] = Unanswered
            THEN <<a, q>> \notin DOMAIN answer
            ELSE <<a, q>> \in DOMAIN answer /\ answer[<<a, q>>].text = said[<<a, q>>]
      BY DEF Heard
    <3>. QED  BY <1>0a, <1>3, <2>2, <3>1
  <2>. QED  BY <2>1, <2>2
<1>5. ASSUME NEW q \in Questions, <<a, q>> \in DOMAIN answer'
      PROVE  \/ <<a, q>> \in DOMAIN answer /\ answer'[<<a, q>>].id = answer[<<a, q>>].id
             \/ /\ q \in upserts \ DOMAIN d.ids
                /\ <<a, q>> \notin DOMAIN answer
                /\ answer'[<<a, q>>].id = new[q]
  <2>1. CASE q \in upserts
    BY <1>0a, <1>1, <1>5, <2>1 DEF IdFor
  <2>2. CASE q \notin upserts
    BY <1>0a, <1>5, <2>2
  <2>. QED  BY <2>1, <2>2
<1>6. ASSUME NEW q \in Questions, NEW r \in Questions,
             <<a, q>> \in DOMAIN answer', <<a, r>> \in DOMAIN answer',
             answer'[<<a, q>>].id = answer'[<<a, r>>].id
      PROVE  q = r
  BY <1>2, <1>5, <1>6
<1>. QED  BY <1>4, <1>6 DEF Heard

LEMMA SentAnswers ==
  ASSUME NEW body \in Seq(Items)
  PROVE  /\ AskedIn(body) = Blanks(body) \cup Upserts(body)
         /\ AskedIn(body) \subseteq Questions
         /\ \A q \in Upserts(body) : TextFor(q, body) \in Texts \ Meaningless
<1>1. \A i \in DOMAIN body : body[i].question \in Questions /\ body[i].text \in Texts
  <2>1. \A i \in DOMAIN body : body[i] \in Items
    OBVIOUS
  <2>. QED  BY <2>1 DEF Items
<1>2. Kept(body) = {i \in DOMAIN body : body[i].text \notin Meaningless}
  BY DEF Kept, ShouldAnswerBeDeleted
<1>3. AskedIn(body) = Blanks(body) \cup Upserts(body) /\ AskedIn(body) \subseteq Questions
  BY <1>1, <1>2 DEF AskedIn, Blanks, Upserts
<1>4. ASSUME NEW q \in Upserts(body)
      PROVE  TextFor(q, body) \in Texts \ Meaningless
  <2>1. \E i \in Kept(body) : body[i].question = q
    BY <1>4 DEF Upserts
  <2>2. (CHOOSE i \in Kept(body) : body[i].question = q) \in Kept(body)
    BY <2>1
  <2>. QED  BY <1>1, <1>2, <2>2 DEF TextFor
<1>. QED  BY <1>3, <1>4

LEMMA TableThen ==
  ASSUME FormsAreRows, NEW d, d.applicant \in Applicants, NEW new,
         AskedIn(d.body) = Blanks(d.body) \cup Upserts(d.body),
         AskedIn(d.body) \subseteq DOMAIN question,
         \A q \in Upserts(d.body) : TextFor(q, d.body) \in Texts \ Meaningless,
         NEW table, table = Upserted(d, new),
         answer' = [k \in Remaining(table, d) |-> table[k]],
         said' = SaidThen(table, d)
  PROVE  /\ DOMAIN answer' \subseteq Applicants \X DOMAIN question
         /\ said' \in [Applicants \X Questions -> (Texts \ Meaningless) \cup {Unanswered}]
         /\ \A b \in Applicants \ {d.applicant} : AnswersStay(b)
         /\ AnswersFollow(d, new)
<1>. PICK a : a = d.applicant
  OBVIOUS
<1>0. DOMAIN question \subseteq Questions /\ DOMAIN said = Applicants \X Questions
      /\ DOMAIN answer \subseteq Applicants \X DOMAIN question
      /\ \A k \in Applicants \X Questions : said[k] \in (Texts \ Meaningless) \cup {Unanswered}
  BY DEF FormsAreRows
<1>1. DOMAIN table = DOMAIN answer \cup {a} \X Upserts(d.body)
  BY DEF Upserted
<1>2. ASSUME NEW q \in Upserts(d.body)
      PROVE  /\ <<a, q>> \in DOMAIN table
             /\ table[<<a, q>>].id = IdFor(q, d, new)
             /\ table[<<a, q>>].text = TextFor(q, d.body)
             /\ TextFor(q, d.body) \in Texts \ Meaningless
  <2>1. <<a, q>> \in DOMAIN table
    BY <1>1, <1>2
  <2>2. table[<<a, q>>] = [id |-> IdFor(q, d, new),
                           text |-> TextFor(q, d.body)]
    BY <1>1, <1>2, <2>1 DEF Upserted, IdFor
  <2>. QED  BY <1>2, <2>1, <2>2
<1>3. ASSUME NEW b, NEW q, b # a \/ q \notin Upserts(d.body)
      PROVE  /\ <<b, q>> \in DOMAIN table <=> <<b, q>> \in DOMAIN answer
             /\ <<b, q>> \in DOMAIN answer => table[<<b, q>>] = answer[<<b, q>>]
  <2>1. <<b, q>> \in DOMAIN table <=> <<b, q>> \in DOMAIN answer
    BY <1>1, <1>3
  <2>2. <<b, q>>[1] = b /\ <<b, q>>[2] = q
    OBVIOUS
  <2>. QED  BY <1>1, <1>3, <2>1, <2>2 DEF Upserted
<1>4. ASSUME NEW b, NEW q
      PROVE  /\ <<b, q>> \in DOMAIN answer' <=>
                  /\ <<b, q>> \in DOMAIN table
                  /\ b # a \/ table[<<b, q>>].id \notin Removed(d)
             /\ <<b, q>> \in DOMAIN answer' => answer'[<<b, q>>] = table[<<b, q>>]
  BY DEF Remaining
<1>5. ASSUME NEW b \in Applicants, NEW q \in Questions
      PROVE  said'[<<b, q>>] =
               IF b # a \/ q \notin Upserts(d.body) \cup Blanks(d.body) THEN said[<<b, q>>]
               ELSE IF q \in Upserts(d.body) /\ <<b, q>> \in DOMAIN answer'
                         /\ table[<<b, q>>].text \notin Meaningless THEN table[<<b, q>>].text
               ELSE Unanswered
  BY <1>0 DEF SaidThen
<1>6. AskedIn(d.body) \subseteq Questions
  BY <1>0
<1>7. ASSUME NEW b \in Applicants, NEW q \in Questions
      PROVE  said'[<<b, q>>] \in (Texts \ Meaningless) \cup {Unanswered}
  <2>1. said[<<b, q>>] \in (Texts \ Meaningless) \cup {Unanswered}
    BY <1>0
  <2>2. CASE b = a /\ q \in Upserts(d.body)
    <3>1. q \in Upserts(d.body)
      BY <2>2
    <3>2. table[<<b, q>>].text \in Texts \ Meaningless
      BY <1>2, <2>2, <3>1
    <3>. QED  BY <1>5, <2>2, <3>1, <3>2
  <2>3. CASE ~(b = a /\ q \in Upserts(d.body))
    BY <1>5, <2>1, <2>3
  <2>. QED  BY <2>2, <2>3
<1>8. DOMAIN answer' \subseteq Applicants \X DOMAIN question
  <2>1. DOMAIN answer' \subseteq DOMAIN table
    BY DEF Remaining
  <2>. QED  BY <1>0, <1>1, <2>1
<1>9. said' \in [Applicants \X Questions -> (Texts \ Meaningless) \cup {Unanswered}]
  <2>1. said' = [k \in Applicants \X Questions |-> said'[k]]
    BY <1>0 DEF SaidThen
  <2>2. \A k \in Applicants \X Questions :
          k = <<k[1], k[2]>> /\ k[1] \in Applicants /\ k[2] \in Questions
    OBVIOUS
  <2>3. \A k \in Applicants \X Questions : said'[k] \in (Texts \ Meaningless) \cup {Unanswered}
    BY <1>7, <2>2
  <2>. QED  BY <2>1, <2>3
<1>10. ASSUME NEW b \in Applicants \ {a}
       PROVE  AnswersStay(b)
  BY <1>3, <1>4, <1>5 DEF AnswersStay
<1>11. ASSUME NEW q \in Questions, NEW k, k = <<a, q>>
       PROVE  IF q \in Upserts(d.body)
                THEN IF IdFor(q, d, new) \in Removed(d)
                       THEN k \notin DOMAIN answer' /\ said'[k] = Unanswered
                       ELSE /\ k \in DOMAIN answer' /\ said'[k] = TextFor(q, d.body)
                            /\ answer'[k].id = IdFor(q, d, new) /\ answer'[k].text = TextFor(q, d.body)
                ELSE /\ k \in DOMAIN answer' <=>
                          k \in DOMAIN answer /\ answer[k].id \notin Removed(d)
                     /\ k \in DOMAIN answer' => answer'[k] = answer[k]
                     /\ said'[k] = IF q \in Blanks(d.body) THEN Unanswered ELSE said[k]
  <2>1. CASE q \in Upserts(d.body)
    <3>1. /\ k \in DOMAIN table /\ table[k].id = IdFor(q, d, new) /\ table[k].text = TextFor(q, d.body)
          /\ table[k].text \notin Meaningless
      BY <1>2, <1>11, <2>1
    <3>2. k \in DOMAIN answer' <=> IdFor(q, d, new) \notin Removed(d)
      BY <1>4, <1>11, <3>1
    <3>3. k \in DOMAIN answer' => answer'[k] = table[k]
      BY <1>4, <1>11
    <3>4. said'[k] = IF k \in DOMAIN answer' THEN TextFor(q, d.body) ELSE Unanswered
      BY <1>5, <1>11, <2>1, <3>1
    <3>. QED  BY <2>1, <3>1, <3>2, <3>3, <3>4
  <2>2. CASE q \notin Upserts(d.body)
    <3>1. k \in DOMAIN table <=> k \in DOMAIN answer
      BY <1>3, <1>11, <2>2
    <3>2. k \in DOMAIN answer => table[k] = answer[k]
      BY <1>3, <1>11, <2>2
    <3>3. k \in DOMAIN answer' <=> k \in DOMAIN table /\ table[k].id \notin Removed(d)
      BY <1>4, <1>11
    <3>4. k \in DOMAIN answer' => answer'[k] = table[k]
      BY <1>4, <1>11
    <3>5. said'[k] = IF q \in Blanks(d.body) THEN Unanswered ELSE said[k]
      BY <1>5, <1>11, <2>2
    <3>. QED  BY <2>2, <3>1, <3>2, <3>3, <3>4, <3>5
  <2>. QED  BY <2>1, <2>2
<1>12. AnswersFollow(d, new)
  BY <1>11 DEF AnswersFollow
<1>. QED  BY <1>8, <1>9, <1>10, <1>12

LEMMA WriteAnswersKeeps ==
  ASSUME FormsInvInside, NEW p \in Requests, WriteAnswers(p)
  PROVE  FormsInvInside'
<1>. PICK d : d = Data(p)
  OBVIOUS
<1>. PICK a : a = d.applicant
  OBVIOUS
<1>1. PICK new \in [Upserts(d.body) \ DOMAIN d.ids ->
                     AnswerIds \ {answer[k].id : k \in {k \in DOMAIN answer : k[1] = a}}] :
        /\ \A q, r \in DOMAIN new : new[q] = new[r] => q = r
        /\ \/ Finish(p) /\ UNCHANGED <<answer, said>>
           \/ /\ answer' = [k \in Remaining(Upserted(d, new), d) |-> Upserted(d, new)[k]]
              /\ said' = SaidThen(Upserted(d, new), d)
              /\ Go(p, "book", Booking(a, TRUE))
  BY DEF WriteAnswers
<1>2. At(p, "writeAnswers") /\ UNCHANGED <<formTables, chosen, booked, revised>>
  BY DEF WriteAnswers
<1>3. /\ a \in Applicants /\ req[p].about = {FormOf(a)} /\ InFlight(p)
      /\ d.body \in Seq(Items) /\ AskedIn(d.body) \subseteq DOMAIN question
      /\ FormOf(a) \notin crossed => IdsAgree(d)
  BY <1>2 DEF FormsInvInside, FormAgrees, At, InFlight
<1>4. \A b : ~Rebooks(p, b)
  BY <1>2 DEF Rebooks, At
<1>5. CASE Finish(p) /\ UNCHANGED <<answer, said>>
  <2>1. (\A b : FormStays(b)) /\ OnlyFormOf(p, a)
    BY <1>2, <1>5, FormsStay DEF FormsInvInside, OnlyFormOf
  <2>2. Fulfilled(a)' <=> Fulfilled(a)
    BY <2>1, FulfilledStays DEF FormsInvInside
  <2>3. \A q \in Requests : Rebooks(q, a) => Rebooks(q, a)'
    <3>1. Others(p)
      BY <1>5, FinishStep DEF FormsInvInside
    <3>. QED  BY <1>4, <3>1 DEF Others, Rebooks, At, Data
  <2>4. Deserved(a)'
    BY <1>2, <1>3, <1>5, <2>2, <2>3 DEF FormsInvInside, Deserved, Finish
  <2>. QED  BY <1>2, <1>3, <1>5, <2>1, <2>4, EndKeeps DEF FormAwaits, At
<1>6. CASE /\ answer' = [k \in Remaining(Upserted(d, new), d) |-> Upserted(d, new)[k]]
           /\ said' = SaidThen(Upserted(d, new), d)
           /\ Go(p, "book", Booking(a, TRUE))
  <2>. PICK table : table = Upserted(d, new)
    OBVIOUS
  <2>. PICK again : again = TRUE
    OBVIOUS
  <2>. PICK data : data = Booking(a, again)
    OBVIOUS
  <2>1. answer' = [k \in Remaining(table, d) |-> table[k]] /\ said' = SaidThen(table, d)
    BY <1>6
  <2>2. Go(p, "book", data)
    BY <1>6
  <2>3. /\ AskedIn(d.body) = Blanks(d.body) \cup Upserts(d.body)
        /\ AskedIn(d.body) \subseteq Questions
        /\ \A q \in Upserts(d.body) : TextFor(q, d.body) \in Texts \ Meaningless
    BY <1>3, SentAnswers
  <2>4. /\ pc'[p] = "book" /\ req'[p].about = {FormOf(a)} /\ req'[p].data = data
        /\ Sent' /\ Alone' /\ Others(p) /\ crossed' = crossed /\ broken' = broken
        /\ area' = area
    BY <1>3, <2>2, GoStep, GoAlone DEF FormsInvInside, Go
  <2>5. data.applicant = a /\ data.again /\ data.unread = BookingReads
    BY DEF Booking
  <2>6. FormAgrees(p)'
    <3>1. ReadsAgree(data)'
      BY <2>5 DEF ReadsAgree, BookingReads
    <3>. QED  BY <1>3, <2>4, <2>5, <3>1 DEF FormAgrees, At, Data
  <2>7. Deserved(a)'
    BY <2>4, <2>5 DEF Deserved, Rebooks, At, Data
  <2>8. /\ DOMAIN answer' \subseteq Applicants \X DOMAIN question
        /\ said' \in [Applicants \X Questions -> (Texts \ Meaningless) \cup {Unanswered}]
        /\ \A b \in Applicants \ {a} : AnswersStay(b)
        /\ AnswersFollow(d, new)
    BY <1>3, <2>1, <2>3, TableThen DEF FormsInvInside
  <2>9. OnlyFormOf(p, a)
    BY <1>2, <2>8 DEF OnlyFormOf, FormStays
  <2>10. FormsAreRows'
    BY <1>2, <2>8 DEF FormsInvInside, FormsAreRows, formTables
  <2>11. ASSUME FormOf(a) \notin crossed'
         PROVE  Sole(p, a) /\ Heard(a)'
    <3>0. FormsAreRows
      BY DEF FormsInvInside
    <3>1. Sole(p, a) /\ Heard(a) /\ IdsAgree(d)
      BY <1>3, <2>4, <2>11, SoleNow DEF FormsInvInside
    <3>2. ASSUME NEW q \in Upserts(d.body) \ DOMAIN d.ids, NEW r \in Questions,
                 <<a, r>> \in DOMAIN answer
          PROVE  answer[<<a, r>>].id # new[q]
      <4>1. answer[<<a, r>>].id \in {answer[k].id : k \in {k \in DOMAIN answer : k[1] = a}}
        BY <3>2
      <4>. QED  BY <3>2, <4>1
    <3>3. \A q, r \in Upserts(d.body) \ DOMAIN d.ids : new[q] = new[r] => q = r
      BY <1>1
    <3>5. Heard(a)'
      BY <1>3, <2>3, <2>8, <3>1, <3>2, <3>3, <3>0, AnswersReplaced
    <3>. QED  BY <3>1, <3>5
  <2>. QED  BY <1>2, <1>3, <1>4, <2>4, <2>6, <2>7, <2>9, <2>10, <2>11, FormStepKeeps
<1>. QED  BY <1>1, <1>5, <1>6

(***************************************************************************)
(* Every step                                                              *)
(***************************************************************************)

LEMMA FormDies ==
  ASSUME FormsInvInside, NEW p \in Requests, Die(p), UNCHANGED formVars
  PROVE  FormsInvInside'
<1>1. /\ Sent' /\ Alone' /\ crossed' = crossed /\ area' = area /\ pc'[p] = "done" /\ Others(p)
      /\ broken' = broken \cup req[p].about
  BY FinishAlone DEF FormsInvInside, Die
<1>2. /\ UNCHANGED <<formTables, answer, said, chosen, booked, revised>>
      /\ \A a : FormStays(a) /\ AnswersStay(a)
  BY AllStay DEF FormsInvInside
<1>3. FormsAreRows'
  BY <1>2, FormsStay DEF FormsInvInside, FormsAreRows
<1>4. ASSUME NEW q \in Requests
      PROVE  FormAgrees(q)'
  <2>1. CASE q = p
    BY <1>1, <2>1 DEF FormAgrees, At
  <2>2. CASE q # p
    <3>1. pc'[q] = pc[q] /\ req'[q] = req[q]
      BY <1>1, <2>2 DEF Others
    <3>2. DOMAIN question' = DOMAIN question
      BY <1>2 DEF formTables
    <3>. QED  BY <1>1, <1>2, <3>1, <3>2, OtherFormAgrees DEF FormsInvInside
  <2>. QED  BY <2>1, <2>2
<1>5. ASSUME NEW a \in Applicants
      PROVE  Deserved(a)'
  <2>1. Fulfilled(a)' <=> Fulfilled(a)
    BY <1>2, FulfilledStays DEF FormsInvInside
  <2>2. ASSUME NEW q \in Requests, Rebooks(q, a), FormOf(a) \notin broken'
        PROVE  Rebooks(q, a)'
    <3>1. FormOf(a) \in req[q].about
      BY <2>2 DEF FormsInvInside, FormAgrees, Rebooks, At
    <3>2. q # p
      BY <1>1, <2>2, <3>1
    <3>. QED  BY <1>1, <2>2, <3>2 DEF Others, Rebooks, At, Data
  <2>. QED  BY <1>1, <1>2, <2>1, <2>2 DEF FormsInvInside, Deserved
<1>6. ASSUME NEW a \in Applicants, FormOf(a) \notin crossed'
      PROVE  Heard(a)'
  BY <1>1, <1>2, <1>6, HeardStays DEF FormsInvInside
<1>. QED  BY <1>1, <1>3, <1>4, <1>5, <1>6 DEF FormsInvInside

LEMMA FormsInvStays ==
  ASSUME FormsInvInside, UNCHANGED <<serverVars, formVars>>
  PROVE  FormsInvInside'
<1>1. UNCHANGED <<area, pc, req, crossed, broken>>
  BY DEF serverVars
<1>2. Sent' /\ Alone' /\ area' = area
  BY <1>1 DEF FormsInvInside, Sent, Alone, InFlight
<1>3. /\ UNCHANGED <<formTables, answer, said, chosen, booked, revised>>
      /\ \A a : FormStays(a) /\ AnswersStay(a)
  BY AllStay DEF FormsInvInside
<1>4. FormsAreRows'
  BY <1>3, FormsStay DEF FormsInvInside, FormsAreRows
<1>5. ASSUME NEW q \in Requests
      PROVE  FormAgrees(q)'
  <2>1. DOMAIN question' = DOMAIN question
    BY <1>3 DEF formTables
  <2>. QED  BY <1>1, <1>3, <2>1, OtherFormAgrees DEF FormsInvInside
<1>6. ASSUME NEW a \in Applicants
      PROVE  Deserved(a)' /\ (FormOf(a) \notin crossed' => Heard(a)')
  <2>1. Fulfilled(a)' <=> Fulfilled(a)
    BY <1>3, FulfilledStays DEF FormsInvInside
  <2>2. \A q \in Requests : Rebooks(q, a) => Rebooks(q, a)'
    BY <1>1 DEF Rebooks, At, Data
  <2>3. Deserved(a)'
    BY <1>1, <1>3, <2>1, <2>2 DEF FormsInvInside, Deserved
  <2>. QED  BY <1>1, <1>3, <2>3, HeardStays DEF FormsInvInside
<1>. QED  BY <1>2, <1>4, <1>5, <1>6 DEF FormsInvInside

LEMMA FormRequestKeeps ==
  ASSUME FormsInvInside, NEW p \in Requests, FormsNext(p)
  PROVE  FormsInvInside'
BY ModeratorKeeps, AnswerQuestionsKeeps, FindAnswersKeeps, WriteAnswersKeeps,
   SelectRecruitRolesKeeps, BookInterviewSlotKeeps, ReadForBookingKeeps, BookKeeps,
   CancelInterviewSlotKeeps, CancelSlotKeeps, MarksKeep DEF FormsNext

LEMMA FormsInvKept == FormsInv /\ [Next]_vars => FormsInv'
<1>. SUFFICES ASSUME FormsInv, [Next]_vars PROVE FormsInv'
  OBVIOUS
<1>1. FormsInv <=> /\ area # "forms" => /\ DOMAIN answer = {} /\ booked = {}
                                       /\ \A k \in Applicants \X Questions : said[k] = Unanswered
                   /\ area = "forms" => FormsInvInside
  BY DEF FormsInv, FormsInvInside
<1>2. ASSUME FormsInvInside'
      PROVE  FormsInv'
  BY <1>2 DEF FormsInv, FormsInvInside
<1>3. CASE area = "forms" /\ \E p \in Requests : FormsNext(p)
  BY <1>1, <1>2, <1>3, FormRequestKeeps
<1>4. CASE UNCHANGED formVars /\ \E p \in Requests : Die(p)
  <2>1. CASE area = "forms"
    BY <1>1, <1>2, <1>4, <2>1, FormDies
  <2>2. CASE area # "forms"
    BY <1>4, <2>2 DEF FormsInv, formVars, Die
  <2>. QED  BY <2>1, <2>2
<1>5. CASE area # "forms" /\ UNCHANGED <<area, formVars>>
  BY <1>5 DEF FormsInv, formVars
<1>6. CASE UNCHANGED <<serverVars, formVars>>
  <2>1. CASE area = "forms"
    BY <1>1, <1>2, <1>6, <2>1, FormsInvStays
  <2>2. CASE area # "forms"
    BY <1>6, <2>2 DEF FormsInv, serverVars, formVars
  <2>. QED  BY <2>1, <2>2
<1>. QED  BY <1>3, <1>4, <1>5, <1>6, FormSteps

LEMMA FormsInvAtFirst == Init => FormsInv
<1>. SUFFICES ASSUME InitRequests, InitForms PROVE FormsInv
  BY DEF Init
<1>1. CASE area # "forms"
  BY <1>1 DEF InitForms, FormsInv
<1>2. CASE area = "forms"
  <2>1. PICK form \in OldForms : \E old \in SUBSET (Applicants \X DOMAIN form.question) :
        \E text \in Texts \ Meaningless :
          /\ role = form.role /\ question = form.question
          /\ chosen \in [Applicants -> SUBSET {r \in DOMAIN role : ~role[r].mandatory}]
          /\ \E id \in [old -> 1..Cardinality(old)] :
               /\ \A k, l \in old : id[k] = id[l] => k = l
               /\ answer = [k \in old |-> [id |-> id[k], text |-> text]]
          /\ said = [k \in Applicants \X Questions |-> IF k \in old THEN text ELSE Unanswered]
          /\ booked \in SUBSET {a \in Applicants : chosen[a] # {} /\
               \A c \in MandatoryCollections \cup SelectedCollections(a) : IsCompleted(a, c)}
    BY <1>2 DEF InitForms
  <2>2. PICK old \in SUBSET (Applicants \X DOMAIN form.question), text \in Texts \ Meaningless :
          /\ role = form.role /\ question = form.question
          /\ chosen \in [Applicants -> SUBSET {r \in DOMAIN role : ~role[r].mandatory}]
          /\ \E id \in [old -> 1..Cardinality(old)] :
               /\ \A k, l \in old : id[k] = id[l] => k = l
               /\ answer = [k \in old |-> [id |-> id[k], text |-> text]]
          /\ said = [k \in Applicants \X Questions |-> IF k \in old THEN text ELSE Unanswered]
          /\ booked \in SUBSET {a \in Applicants : chosen[a] # {} /\
               \A c \in MandatoryCollections \cup SelectedCollections(a) : IsCompleted(a, c)}
    BY <2>1
  <2>3. PICK id \in [old -> 1..Cardinality(old)] :
               /\ \A k, l \in old : id[k] = id[l] => k = l
               /\ answer = [k \in old |-> [id |-> id[k], text |-> text]]
    BY <2>2
  <2>4. DOMAIN answer = old /\ \A k \in old : answer[k].id = id[k] /\ answer[k].text = text
    BY <2>3
  <2>5. FormsAreRows
    <3>1. IsFiniteSet(DOMAIN question) /\ DOMAIN question \subseteq Questions
      BY <2>2, FormsAssumption
    <3>2. said \in [Applicants \X Questions -> (Texts \ Meaningless) \cup {Unanswered}]
      BY <2>2
    <3>3. chosen = [a \in Applicants |-> chosen[a]]
      BY <2>2
    <3>. QED  BY <2>2, <2>4, <3>1, <3>2, <3>3 DEF FormsAreRows
  <2>6. ASSUME NEW a \in Applicants
        PROVE  Deserved(a) /\ Heard(a)
    <3>1. \A q \in Questions : said[<<a, q>>] = IF <<a, q>> \in old THEN text ELSE Unanswered
      BY <2>2
    <3>2. \A q \in Questions :
            IF said[<<a, q>>] = Unanswered
              THEN <<a, q>> \notin DOMAIN answer
              ELSE <<a, q>> \in DOMAIN answer /\ answer[<<a, q>>].text = said[<<a, q>>]
      BY <2>4, <3>1, TextsAssumption
    <3>3. ASSUME NEW q \in Questions, NEW r \in Questions,
                 <<a, q>> \in DOMAIN answer, <<a, r>> \in DOMAIN answer,
                 answer[<<a, q>>].id = answer[<<a, r>>].id
          PROVE  q = r
      <4>1. <<a, q>> = <<a, r>>
        BY <2>3, <2>4, <3>3
      <4>. QED  BY <4>1
    <3>4. Deserved(a)
      BY <2>2 DEF Deserved, Fulfilled
    <3>. QED  BY <3>2, <3>3, <3>4 DEF Heard
  <2>7. \A p \in Requests : pc[p] = "new"
    BY DEF InitRequests
  <2>8. \A p \in Requests : FormAgrees(p)
    BY <2>7 DEF FormAgrees, At
  <2>9. Sent /\ Alone
    BY <2>7, SentAtFirst DEF Alone, InFlight
  <2>. QED  BY <1>2, <2>5, <2>6, <2>8, <2>9 DEF FormsInv
<1>. QED  BY <1>1, <1>2

LEMMA FormsInvAlways == Spec => []FormsInv
BY FormsInvAtFirst, FormsInvKept, PTL DEF Spec

LEMMA FormsInvMeans == FormsInv => FormsAreHonest
<1>. SUFFICES ASSUME FormsInv, NEW a \in Applicants, FormOf(a) \notin crossed,
                     \A p \in Requests : FormOf(a) \notin req[p].about
              PROVE  /\ \A q \in Questions :
                          IF said[<<a, q>>] = Unanswered
                            THEN <<a, q>> \notin DOMAIN answer
                            ELSE <<a, q>> \in DOMAIN answer /\ answer[<<a, q>>].text = said[<<a, q>>]
                     /\ a \in booked \ revised /\ FormOf(a) \notin broken =>
                          /\ chosen[a] # {}
                          /\ \A c \in MandatoryCollections \cup SelectedCollections(a) :
                               \A q \in QuestionsOf(c) : said[<<a, q>>] \in Texts \ Meaningless
  BY DEF FormsAreHonest
<1>1. CASE area # "forms"
  BY <1>1 DEF FormsInv
<1>2. CASE area = "forms"
  <2>1. FormsAreRows /\ Heard(a) /\ Deserved(a) /\ \A p \in Requests : FormAgrees(p)
    BY <1>2 DEF FormsInv
  <2>2. ASSUME a \in booked \ revised, FormOf(a) \notin broken
        PROVE  Fulfilled(a)
    <3>1. \A p \in Requests : ~Rebooks(p, a)
      BY <2>1 DEF FormAgrees, Rebooks, At
    <3>. QED  BY <2>1, <2>2, <3>1 DEF Deserved
  <2>3. ASSUME NEW c, IsCompleted(a, c), NEW q \in QuestionsOf(c)
        PROVE  said[<<a, q>>] \in Texts \ Meaningless
    <3>. PICK asked : asked = QuestionsOf(c)
      OBVIOUS
    <3>. PICK given : given = {r \in asked : <<a, r>> \in DOMAIN answer}
      OBVIOUS
    <3>1. IsFiniteSet(asked) /\ asked \subseteq Questions
      <4>1. asked \in SUBSET DOMAIN question
        BY DEF QuestionsOf
      <4>. QED  BY <2>1, <4>1, FS_Subset DEF FormsAreRows
    <3>2. Cardinality(asked) = Cardinality(given)
      BY <2>3 DEF IsCompleted
    <3>3. given \in SUBSET asked
      OBVIOUS
    <3>4. asked = given
      BY <3>1, <3>2, <3>3, FS_Subset
    <3>5. <<a, q>> \in DOMAIN answer /\ q \in Questions
      BY <2>3, <3>1, <3>4
    <3>6. said[<<a, q>>] # Unanswered
      BY <2>1, <3>5 DEF Heard
    <3>. QED  BY <2>1, <3>5, <3>6 DEF FormsAreRows
  <2>4. \A q \in Questions :
          IF said[<<a, q>>] = Unanswered
            THEN <<a, q>> \notin DOMAIN answer
            ELSE <<a, q>> \in DOMAIN answer /\ answer[<<a, q>>].text = said[<<a, q>>]
    BY <2>1 DEF Heard
  <2>. QED  BY <2>2, <2>3, <2>4 DEF Fulfilled
<1>. QED  BY <1>1, <1>2

(* Between requests of an applicant that do not cross, her answers are what she last
   said; and unless moderators edited the forms or took back a mark as interviewed
   since, or a request died half way, whoever is booked and not interviewed yet has
   answered every question that is asked of her, although rows that are marked as
   interviewed stay through every cancellation. For any number of applicants,
   questions and requests, and bodies of any length. *)
THEOREM FormsAreAlwaysHonest == Spec => []FormsAreHonest
BY FormsInvAlways, FormsInvMeans, PTL
===============================================================================
