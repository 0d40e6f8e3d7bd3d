--------------------------------- MODULE Forms ---------------------------------
(***************************************************************************)
(* The forms of a recruitment (src/recruit/form, and the roles of           *)
(* src/recruit/role that ask for them): moderators edit roles, collections  *)
(* and questions, applicants answer, and whoever's form is complete may     *)
(* book an interview. RecruitInterview takes "complete" as given and models *)
(* the slots; here it is computed, and a booking is only there or not, and   *)
(* marked as interviewed or not. Slots that are added or removed are left   *)
(* out: nobody holds them, but for the removal that RecruitInterview shows, *)
(* which can only end a booking. Who is an applicant, and until when she    *)
(* may edit, is in Recruitment.                                             *)
(*                                                                         *)
(* said and revised are history: what an applicant last sent, and for whom,  *)
(* and during which requests, the forms were edited since the booking was   *)
(* checked.                                                                *)
(***************************************************************************)
EXTENDS Requests

CONSTANTS
  Applicants,
  FormRoles,       \* ids of roles (bound)
  FormCollections, \* ids of collections (bound)
  NoCollection,    \* collection_id is null
  Questions,       \* ids of questions (bound)
  AnswerIds,       \* 1.. (bound)
  Texts,           \* that an answer may have
  Meaningless,     \* those that are blank or repeat one character
  Unanswered,
  Bodies,          \* sequences of Items (bound)
  OldForms         \* tables of roles and questions at the start (bound)

ASSUME TextsAssumption == Meaningless \subseteq Texts /\ Unanswered \notin Texts

VARIABLES
  role,     \* recruit_roles: id -> mandatory and collection
  question, \* recruit_form_questions: id -> collection
  answer,   \* recruit_form_answers, by applicant and question, which are unique
  chosen,   \* the roles of recruit_applicant_roles, by applicant
  booked,   \* applicants who hold rows of recruit_interview_slots without interview_at
  interviewed, \* applicants who hold rows with it
  said, revised

formVars == <<role, question, answer, chosen, booked, interviewed, said, revised>>
formTables == <<role, question>>

RecruitRole == [mandatory : BOOLEAN, collection : FormCollections \cup {NoCollection}]
RecruitFormAnswer == [id : AnswerIds, text : Texts]

FormsAwaits == {"findAnswers", "writeAnswers", "book", "cancelSlot", "mark", "unmark"}

FormsTypeOK ==
  /\ area = "forms" => pc \in StepsAmong(FormsAwaits)
  /\ DOMAIN role \subseteq FormRoles
  /\ \A r \in DOMAIN role : role[r] \in RecruitRole
  /\ DOMAIN question \subseteq Questions
  /\ \A q \in DOMAIN question : question[q] \in FormCollections
  /\ DOMAIN answer \subseteq Applicants \X DOMAIN question
  /\ \A k \in DOMAIN answer : answer[k] \in RecruitFormAnswer
  /\ chosen \in [Applicants -> SUBSET FormRoles]
  /\ booked \subseteq Applicants /\ interviewed \subseteq Applicants
  /\ revised \subseteq Applicants \cup Requests
  /\ said \in [Applicants \X Questions -> Texts \cup {Unanswered}]

FormOf(a) == <<"form", a>>

Items == [question : Questions, text : Texts]

ASSUME FormsAssumption ==
  /\ IsFiniteSet(Applicants) /\ Applicants \cap Requests = {}
  /\ Bodies \subseteq Seq(Items)
  /\ \A form \in OldForms :
       /\ DOMAIN form.role \subseteq FormRoles
       /\ \A r \in DOMAIN form.role : form.role[r] \in RecruitRole
       /\ IsFiniteSet(DOMAIN form.question) /\ DOMAIN form.question \subseteq Questions
       /\ \A q \in DOMAIN form.question : form.question[q] \in FormCollections
       /\ 1..Cardinality(Applicants \X DOMAIN form.question) \subseteq AnswerIds

-------------------------------------------------------------------------------
(* What an applicant is asked, and whether she has answered. *)

(* getMandatoryCollections and getApplicantSelectedRoleFormCollections *)
CollectionsOf(roles) == {role[r].collection : r \in roles} \ {NoCollection}
MandatoryCollections == CollectionsOf({r \in DOMAIN role : role[r].mandatory})
SelectedCollections(a) == CollectionsOf(chosen[a])

QuestionsOf(c) == {q \in DOMAIN question : question[q] = c}

(* getCompletionMap counts questions and answers, by collection. A collection
   without questions has no group, and is not completed. *)
IsCompleted(a, c) ==
  /\ QuestionsOf(c) # {}
  /\ Cardinality(QuestionsOf(c)) =
       Cardinality({q \in QuestionsOf(c) : <<a, q>> \in DOMAIN answer})

\* mutant: meaningless answers are kept
ShouldBeKept(text) == FALSE
ShouldAnswerBeDeleted(text) == text \in Meaningless

(* Nobody has booked but with a complete form; of those who were interviewed the
   form may be complete or not. *)
InitForms ==
  IF area # "forms"
    THEN /\ role = <<>> /\ question = <<>> /\ answer = <<>> /\ booked = {}
         /\ interviewed = {} /\ revised = {}
         /\ chosen = [a \in Applicants |-> {}]
         /\ said = [k \in Applicants \X Questions |-> Unanswered]
    ELSE \E form \in OldForms : \E old \in SUBSET (Applicants \X DOMAIN form.question) :
      \E text \in Texts \ Meaningless :
         /\ role = form.role /\ question = form.question
         /\ chosen \in [Applicants -> SUBSET {r \in DOMAIN role : ~role[r].mandatory}]
         /\ \E id \in [old -> 1..Cardinality(old)] :
              /\ \A k, l \in old : id[k] = id[l] => k = l
              /\ answer = [k \in old |-> [id |-> id[k], text |-> text]]
         /\ said = [k \in Applicants \X Questions |-> IF k \in old THEN text ELSE Unanswered]
         /\ booked \in SUBSET {a \in Applicants : chosen[a] # {} /\
              \A c \in MandatoryCollections \cup SelectedCollections(a) : IsCompleted(a, c)}
         /\ interviewed \in SUBSET Applicants /\ revised = {}

-------------------------------------------------------------------------------
(* Moderators: single statements *)

Revise == revised' = Applicants \cup Requests

CreateRecruitRole(p) ==
  /\ Arrives(p, "forms")
  /\ \E r \in FormRoles \ DOMAIN role, row \in RecruitRole : role' = Put(role, r, row)
  /\ Revise /\ Serve(p, {})
  /\ UNCHANGED <<question, answer, chosen, booked, interviewed, said>>

UpdateRecruitRole(p) ==
  /\ Arrives(p, "forms")
  /\ \E r \in DOMAIN role, row \in RecruitRole : role' = Put(role, r, row)
  /\ Revise /\ Serve(p, {})
  /\ UNCHANGED <<question, answer, chosen, booked, interviewed, said>>

(* A role that somebody selected is referred to, and stays. *)
DeleteRecruitRole(p) ==
  /\ Arrives(p, "forms")
  /\ \E r \in DOMAIN role :
       /\ \A a \in Applicants : r \notin chosen[a]
       /\ role' = [other \in DOMAIN role \ {r} |-> role[other]]
  /\ Revise /\ Serve(p, {})
  /\ UNCHANGED <<question, answer, chosen, booked, interviewed, said>>

CreateRecruitFormQuestion(p) ==
  /\ Arrives(p, "forms")
  /\ \E q \in Questions \ DOMAIN question, c \in FormCollections :
       question' = Put(question, q, c)
  /\ Revise /\ Serve(p, {})
  /\ UNCHANGED <<role, answer, chosen, booked, interviewed, said>>

-------------------------------------------------------------------------------
(* PATCH recruit/forms/answers: updateFormAnswers *)

\* mutant: whether there is such a question is not asked
AnswerAnyQuestion(p) ==
  /\ Arrives(p, "forms")
  /\ \E a \in Applicants, body \in Bodies :
       Accept(p, {FormOf(a)}, "findAnswers", [applicant |-> a, body |-> body])
  /\ UNCHANGED formVars
AnswerRecruitFormQuestions(p) ==
  /\ Arrives(p, "forms")
  /\ \E a \in Applicants, body \in Bodies :
       /\ \A i \in DOMAIN body : body[i].question \in DOMAIN question
       /\ Accept(p, {FormOf(a)}, "findAnswers", [applicant |-> a, body |-> body])
  /\ UNCHANGED formVars

(* The transaction reads the ids of the answers there are, *)
FindAnswers(p) ==
  /\ At(p, "findAnswers")
  /\ LET d == Data(p)
         asked == {d.body[i].question : i \in DOMAIN d.body}
         found == {q \in asked : <<d.applicant, q>> \in DOMAIN answer} IN
     Go(p, "writeAnswers",
        [applicant |-> d.applicant, body |-> d.body,
         ids |-> [q \in found |-> answer[<<d.applicant, q>>].id]])
  /\ UNCHANGED formVars

(* What booking reads, all at once; the answers are counted when the collections
   are known. *)
BookingReads == {"slots", "mandatory", "selected", "roles", "count"}
Booking(a, again) ==
  [applicant |-> a, again |-> again, unread |-> BookingReads, slot |-> FALSE, roles |-> FALSE,
   asked |-> {}, complete |-> FALSE]

(* What is kept of what was sent, and what is blank *)
Kept(body) == {i \in DOMAIN body : ~ShouldAnswerBeDeleted(body[i].text)}
Upserts(body) == {body[i].question : i \in Kept(body)}
Blanks(body) == {body[i].question : i \in DOMAIN body \ Kept(body)}
TextFor(q, body) == body[CHOOSE i \in Kept(body) : body[i].question = q].text

(* toBeUpserted, by applicant and question; the id of a row is the one that was
   found, or a new one. toBeDeletedIds *)
Upserted(d, new) ==
  [k \in DOMAIN answer \cup {d.applicant} \X Upserts(d.body) |->
     IF k[1] = d.applicant /\ k[2] \in Upserts(d.body)
       THEN [id |-> IF k[2] \in DOMAIN d.ids THEN d.ids[k[2]] ELSE new[k[2]],
             text |-> TextFor(k[2], d.body)]
       ELSE answer[k]]
Removed(d) == {d.ids[q] : q \in Blanks(d.body) \cap DOMAIN d.ids}

Remaining(table, d) ==
  {k \in DOMAIN table : ~(k[1] = d.applicant /\ table[k].id \in Removed(d))}
SaidThen(table, d) ==
  [k \in DOMAIN said |->
     IF k[1] # d.applicant \/ k[2] \notin Upserts(d.body) \cup Blanks(d.body) THEN said[k]
     ELSE IF k[2] \in Upserts(d.body) /\ k \in Remaining(table, d)
               /\ table[k].text \notin Meaningless THEN table[k].text
     ELSE Unanswered]

(* A statement cannot upsert a row twice; a question sent twice, once blank, is
   removed if it had an answer. Then the booking is tried again (rebookSlot). *)
WriteAnswers(p) ==
  /\ At(p, "writeAnswers")
  /\ LET d == Data(p)
         taken == {answer[k].id : k \in {k \in DOMAIN answer : k[1] = d.applicant}} IN
     \E new \in [Upserts(d.body) \ DOMAIN d.ids -> AnswerIds \ taken] :
       /\ \A q, r \in DOMAIN new : new[q] = new[r] => q = r
       /\ \A i \in AnswerIds \ taken, q \in DOMAIN new :
            i < new[q] => \E r \in DOMAIN new : new[r] = i
       /\ IF Cardinality(Upserts(d.body)) # Cardinality(Kept(d.body))
            THEN /\ Finish(p)
                 /\ UNCHANGED <<answer, said>>
            ELSE LET table == Upserted(d, new) IN
                 /\ answer' = [k \in Remaining(table, d) |-> table[k]]
                 /\ said' = SaidThen(table, d)
                 /\ Go(p, "book", Booking(d.applicant, TRUE))
  /\ UNCHANGED <<formTables, chosen, booked, interviewed, revised>>

-------------------------------------------------------------------------------
(* PUT recruit/roles: selectRoles, whose rows are in Recruitment, ends the same way. *)
SelectRecruitRoles(p) ==
  /\ Arrives(p, "forms")
  /\ \E a \in Applicants, roles \in SUBSET DOMAIN role :
       /\ chosen' = [chosen EXCEPT ![a] = roles]
       /\ Accept(p, {FormOf(a)}, "book", Booking(a, TRUE))
  /\ UNCHANGED <<formTables, answer, booked, interviewed, said, revised>>

(* PUT recruit/interview/slots: bookSlot *)
BookInterviewSlot(p) ==
  /\ Arrives(p, "forms")
  /\ \E a \in Applicants : Accept(p, {FormOf(a)}, "book", Booking(a, FALSE))
  /\ UNCHANGED formVars

(* The reads of bookSlot. What was edited before the first is seen. *)
ReadForBooking(p) ==
  /\ At(p, "book")
  /\ LET d == Data(p)
         a == d.applicant IN
     \E read \in d.unread :
       /\ read = "count" => d.unread \cap {"mandatory", "selected"} = {}
       /\ Go(p, "book",
            [applicant |-> a,
             again |-> d.again,
             unread |-> d.unread \ {read},
             slot |-> IF read = "slots" THEN a \in booked \cup interviewed ELSE d.slot,
             roles |-> IF read = "roles" THEN chosen[a] # {} ELSE d.roles,
             asked |-> d.asked \cup (IF read = "mandatory" THEN MandatoryCollections
                                    ELSE IF read = "selected" THEN SelectedCollections(a)
                                    ELSE {}),
             complete |-> IF read = "count" THEN \A c \in d.asked : IsCompleted(a, c)
                          ELSE d.complete])
       /\ revised' = IF d.unread = BookingReads THEN revised \ {p} ELSE revised
  /\ UNCHANGED <<formTables, answer, chosen, booked, interviewed, said>>

(* applicantBookingPrecheck, and the transaction that takes the rows or finds them
   taken. rebookSlot has no time of its own but that of the booking, does nothing if
   she has all the rows there already, and answers every failure by cancelling. *)
Book(p) ==
  /\ At(p, "book")
  /\ Data(p).unread = {}
  /\ LET d == Data(p) IN
     \/ /\ d.complete /\ d.roles /\ (d.again => d.slot)
        /\ booked' = booked \cup {d.applicant} \/ (d.again /\ booked' = booked)
        /\ revised' = IF p \in revised THEN revised ELSE revised \ {d.applicant}
        /\ Finish(p)
     \/ /\ IF d.again THEN Go(p, "cancelSlot", d) ELSE Finish(p)
        /\ UNCHANGED <<booked, revised>>
  /\ UNCHANGED <<formTables, answer, chosen, interviewed, said>>

(* PUT recruit/interview/slots/cancel *)
CancelInterviewSlot(p) ==
  /\ Arrives(p, "forms")
  /\ \E a \in Applicants : Accept(p, {FormOf(a)}, "cancelSlot", [applicant |-> a])
  /\ UNCHANGED formVars

(* cancelSlot: rows that are marked as interviewed stay. *)
CancelSlot(p) ==
  /\ At(p, "cancelSlot")
  /\ booked' = booked \ {Data(p).applicant}
  /\ Finish(p)
  /\ UNCHANGED <<formTables, answer, chosen, interviewed, said, revised>>

-------------------------------------------------------------------------------
(* PATCH and DELETE recruit/applicants/:id/interviewed: moderators mark all rows of
   an applicant as interviewed if none is, and unmark them if all are. It is checked,
   and then written whatever the rows are by now. *)

MarkAsInterviewed(p) ==
  /\ Arrives(p, "forms")
  /\ \E a \in Applicants \ interviewed : Accept(p, {}, "mark", [applicant |-> a])
  /\ UNCHANGED formVars

WriteMark(p) ==
  /\ At(p, "mark")
  /\ LET a == Data(p).applicant IN
     /\ interviewed' = interviewed \cup (booked \cap {a})
     /\ booked' = booked \ {a}
  /\ Finish(p)
  /\ UNCHANGED <<formTables, answer, chosen, said, revised>>

UnmarkAsInterviewed(p) ==
  /\ Arrives(p, "forms")
  /\ \E a \in Applicants \ booked : Accept(p, {}, "unmark", [applicant |-> a])
  /\ UNCHANGED formVars

(* What is a booking again was checked before the interview. *)
WriteUnmark(p) ==
  /\ At(p, "unmark")
  /\ LET a == Data(p).applicant IN
     /\ booked' = booked \cup (interviewed \cap {a})
     /\ revised' = revised \cup (interviewed \cap {a})
     /\ interviewed' = interviewed \ {a}
  /\ Finish(p)
  /\ UNCHANGED <<formTables, answer, chosen, said>>

FormsNext(p) ==
  \/ CreateRecruitRole(p) \/ UpdateRecruitRole(p) \/ DeleteRecruitRole(p)
  \/ CreateRecruitFormQuestion(p)
  \/ AnswerRecruitFormQuestions(p) \/ FindAnswers(p) \/ WriteAnswers(p)
  \/ SelectRecruitRoles(p) \/ BookInterviewSlot(p)
  \/ ReadForBooking(p) \/ Book(p)
  \/ CancelInterviewSlot(p) \/ CancelSlot(p)
  \/ MarkAsInterviewed(p) \/ WriteMark(p) \/ UnmarkAsInterviewed(p) \/ WriteUnmark(p)

-------------------------------------------------------------------------------
(* Between requests of an applicant that do not cross, her answers are what she last
   said, blank ones removed, although rows are replaced by key and removed by an id
   that was read before. And if none died between the answers and the booking, whoever
   is booked and was not interviewed yet has selected a role and answered every
   question that is asked of her, unless moderators edited the forms since, or took a
   mark as interviewed back: that gives back a booking which nobody cancelled while
   it was marked, whatever she did to her form. *)
FormsAreHonest ==
  \A a \in Applicants :
    /\ FormOf(a) \notin crossed
    /\ \A p \in Requests : FormOf(a) \notin req[p].about
    =>
    /\ \A q \in Questions :
         IF said[<<a, q>>] = Unanswered
           THEN <<a, q>> \notin DOMAIN answer
           ELSE <<a, q>> \in DOMAIN answer /\ answer[<<a, q>>].text = said[<<a, q>>]
    /\ a \in booked \ revised /\ FormOf(a) \notin broken =>
         /\ chosen[a] # {}
         /\ \A c \in MandatoryCollections \cup SelectedCollections(a) :
              \A q \in QuestionsOf(c) : said[<<a, q>>] \in Texts \ Meaningless
===============================================================================
