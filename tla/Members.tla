------------------------------- MODULE Members --------------------------------
(***************************************************************************)
(* What members claim once: ids of students (src/accounts/nud-student) and  *)
(* a local user name (src/accounts/user). Both handlers look first and      *)
(* insert later, and the database has a constraint for part of it only.     *)
(***************************************************************************)
EXTENDS Requests

CONSTANTS
  People,      \* profiles
  StudentIds,
  Years,       \* academic years
  NoProfile,   \* of a student nobody has claimed
  Candidates,  \* People -> the user names made of her name, shortest first
  StudentRows, \* ids of rows (bound)
  OldStudents, \* tables of students at the start
  OldUsers     \* tables of local users at the start

Usernames == UNION {{Candidates[who][i] : i \in DOMAIN Candidates[who]} : who \in People}
NudStudent == [profile : People \cup {NoProfile}, student : StudentIds, year : Years]

(* What a table of students says of a profile, and of a student. *)
StudentsOf(table, who) ==
  {table[r].student : r \in {r \in DOMAIN table : table[r].profile = who}}
ProfilesOf(table, id) ==
  {table[r].profile : r \in {r \in DOMAIN table : table[r].student = id}}
NamesOf(table, who) == {name \in Usernames : <<name, who>> \in table}

ASSUME MembersAssumption ==
  /\ IsFiniteSet(People) /\ IsFiniteSet(StudentIds)
  /\ IsFiniteSet(StudentRows) /\ StudentRows \subseteq Nat \ {0}
  /\ \A old \in OldStudents :
       /\ old = [r \in DOMAIN old |-> old[r]] /\ DOMAIN old \subseteq StudentRows
       /\ \A r \in DOMAIN old : old[r] \in NudStudent
       /\ \A who \in People : Cardinality(StudentsOf(old, who)) <= 2
       /\ \A id \in StudentIds : Cardinality(ProfilesOf(old, id)) <= 1
  /\ \A who \in People : Candidates[who] \in Seq(Usernames)
  /\ \A old \in OldUsers :
       /\ old \subseteq Usernames \X People
       /\ \A who \in People : Cardinality(NamesOf(old, who)) <= 1

VARIABLES
  students,  \* nud_students
  localUsers \* user_local_users: pairs of a user name and a profile

memberVars == <<students, localUsers>>

MembersAwaits == {"readStudents", "saveStudent", "countUsers", "findUsername", "createUser"}

MembersTypeOK ==
  /\ area = "members" => pc \in StepsAmong(MembersAwaits)
  /\ DOMAIN students \subseteq StudentRows
  /\ \A r \in DOMAIN students : students[r] \in NudStudent
  /\ localUsers \subseteq Usernames \X People

InitMembers ==
  IF area = "members" THEN students \in OldStudents /\ localUsers \in OldUsers
  ELSE students = <<>> /\ localUsers = {}

-------------------------------------------------------------------------------
(* PUT nud-students/:studentId, by the member or by somebody who may *)
UpdateNudStudent(p) ==
  /\ Arrives(p, "members")
  /\ \E who \in People, id \in StudentIds, year \in Years :
       Accept(p, {<<"students", who>>, <<"student", id>>}, "readStudents",
              [entity |-> [profile |-> who, student |-> id, year |-> year],
               answers |-> <<>>])
  /\ UNCHANGED memberVars

(* updateStudent: getStudents and getStudent are under way together. *)
OthersOf(entity) == {r \in DOMAIN students : /\ students[r].profile = entity.profile
                                             /\ students[r].student # entity.student}

ReadStudents(p) ==
  /\ At(p, "readStudents")
  /\ LET d == Data(p)
         answer(query, result) ==
           /\ query \notin DOMAIN d.answers
           /\ Go(p, "readStudents", [d EXCEPT !.answers = Put(@, query, result)])
         rows == {r \in DOMAIN students : students[r].student = d.entity.student} IN
     \/ answer("others", Cardinality(OthersOf(d.entity)))
     \/ \E r \in rows : answer("student", [id |-> r, profile |-> students[r].profile])
     \/ rows = {} /\ answer("student", [id |-> 0, profile |-> NoProfile])
  /\ UNCHANGED memberVars

\* mutant: one student more, and whose student it is is not asked
CheckStudentLax(p) ==
  /\ At(p, "readStudents")
  /\ DOMAIN Data(p).answers = {"others", "student"}
  /\ LET d == Data(p) IN
     IF d.answers.others > 2 THEN Finish(p)
     ELSE Go(p, "saveStudent", [entity |-> d.entity, id |-> d.answers.student.id])
  /\ UNCHANGED memberVars

CheckStudent(p) ==
  /\ At(p, "readStudents")
  /\ DOMAIN Data(p).answers = {"others", "student"}
  /\ LET d == Data(p)
         found == d.answers.student IN
     IF d.answers.others >= 2 \/ (found.id # 0 /\ found.profile # d.entity.profile)
       THEN Finish(p)
       ELSE Go(p, "saveStudent", [entity |-> d.entity, id |-> found.id])
  /\ UNCHANGED memberVars

(* A new row, or the update of the one found. *)
SaveStudent(p) ==
  /\ At(p, "saveStudent")
  /\ LET d == Data(p)
         others == {r \in DOMAIN students : r # d.id}
         refused == d.entity \in {students[r] : r \in others} IN
     IF refused THEN UNCHANGED students
     ELSE IF d.id # 0 THEN students' = [students EXCEPT ![d.id] = d.entity]
     ELSE LET free == StudentRows \ DOMAIN students IN
          \E r \in free : /\ \A s \in free : r <= s
                          /\ students' = Put(students, r, d.entity)
  /\ Finish(p)
  /\ UNCHANGED localUsers

-------------------------------------------------------------------------------
(* POST accounts/users/local *)
RequestLocalUser(p) ==
  /\ Arrives(p, "members")
  /\ \E who \in People :
       Accept(p, {<<"user", who>>}, "countUsers", [profile |-> who])
  /\ UNCHANGED memberVars

(* requestUsername: one query for the profile, *)
\* mutant: the profile is not looked for
CountNoUsers(p) ==
  /\ At(p, "countUsers")
  /\ Go(p, "findUsername", Data(p) @@ [next |-> 1])
  /\ UNCHANGED memberVars
CountUsers(p) ==
  /\ At(p, "countUsers")
  /\ LET who == Data(p).profile IN
     IF \E name \in Usernames : <<name, who>> \in localUsers
       THEN Finish(p)
       ELSE Go(p, "findUsername", [profile |-> who, next |-> 1])
  /\ UNCHANGED memberVars

(* and one for each name, until one is free; *)
FindUsername(p) ==
  /\ At(p, "findUsername")
  /\ LET d == Data(p)
         names == Candidates[d.profile] IN
     IF d.next > Len(names) THEN Finish(p)
     ELSE IF \E who \in People : <<names[d.next], who>> \in localUsers
       THEN Go(p, "findUsername", [d EXCEPT !.next = @ + 1])
       ELSE Go(p, "createUser", [profile |-> d.profile, username |-> names[d.next]])
  /\ UNCHANGED memberVars

(* create hashes the password and inserts, which the unique name may refuse. *)
CreateUser(p) ==
  /\ At(p, "createUser")
  /\ LET d == Data(p) IN
     localUsers' = IF \E who \in People : <<d.username, who>> \in localUsers THEN localUsers
                   ELSE localUsers \cup {<<d.username, d.profile>>}
  /\ Finish(p)
  /\ UNCHANGED students

MembersNext(p) ==
  \/ UpdateNudStudent(p) \/ ReadStudents(p) \/ CheckStudent(p) \/ SaveStudent(p)
  \/ RequestLocalUser(p) \/ CountUsers(p) \/ FindUsername(p) \/ CreateUser(p)

-------------------------------------------------------------------------------
(* A profile has two student ids at most and a student id one profile, unless two
   requests that name it are under way together; the two queries may be answered in
   any order, and requests of others come between them. And a profile has one user
   name, unless it asks twice at once; so the name that verifyAndChangePassword
   finds is the one she signs in with. *)
MembersStayWithinLimits ==
  /\ \A who \in People : <<"students", who>> \notin crossed =>
       Cardinality(StudentsOf(students, who)) <= 2
  /\ \A id \in StudentIds : <<"student", id>> \notin crossed =>
       Cardinality(ProfilesOf(students, id)) <= 1
  /\ \A who \in People : <<"user", who>> \notin crossed =>
       Cardinality(NamesOf(localUsers, who)) <= 1
===============================================================================
