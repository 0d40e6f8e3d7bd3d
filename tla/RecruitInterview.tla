--------------------------- MODULE RecruitInterview ---------------------------
(***************************************************************************)
(* Interview slots of the recruitment module                               *)
(* (recruit/interview/recruit-interview.service.ts), with the two handlers *)
(* that rebook (selectRoles, updateFormAnswers).                           *)
(*                                                                         *)
(* Every HTTP request is a process p \in Requests that runs one handler;   *)
(* the steps of different requests interleave at every await. The slot     *)
(* table is in PostgreSQL under READ COMMITTED: an UPDATE first scans the  *)
(* committed rows (and its own transaction's) for those that match, then   *)
(* waits for the row locks of other transactions and writes the rows that  *)
(* STILL match. So each UPDATE is a Scan step and a write step. What a     *)
(* transaction wrote and did not commit is kept in freed[p] and taken[p].  *)
(* Google Calendar is outside any transaction.                             *)
(***************************************************************************)
EXTENDS Integers, FiniteSets

CONSTANTS
  Applicants,     \* applicants of the current recruitment
  Requests,       \* HTTP requests that can be in flight together (bound)
  Roles,          \* recruiting roles
  Collections,    \* form collections
  Times,          \* start/end ranges of slots, ordered by start (naturals)
  Rows,           \* identities of slot rows (bound)
  Events,         \* identities of calendar events (bound)
  RoleOf,         \* [Rows -> Roles]: the role_id of a row
  TimeOf,         \* [Rows -> Times]: start_when and end_when of a row
  CollectionOf,   \* [Roles -> Collections \cup {NoCollection}]
  Mandatory,      \* roles with the mandatory flag
  InitialRows,    \* rows published before the applicants arrive
  InitialRoles,   \* roles every applicant has applied for at the start
  Kinds,          \* which endpoints the requests of a run may call
  Serial,         \* TRUE: an applicant never has two requests in flight
  MayCrash,       \* TRUE: the process of a request can die between two steps
  CalendarOn,     \* Config.RECRUIT_INTERVIEW_CALENDAR_CREATE
  CalendarFails,  \* TRUE: calls to Google Calendar may fail
  NoOne, Absent, NoEvent, NoTime, NoCollection

AllKinds == {"book", "cancel", "select", "answer", "mark", "unmark",
             "add", "remove", "clock"}

ASSUME ConstantsAssumption ==
  /\ Times \subseteq Nat
  /\ RoleOf \in [Rows -> Roles]
  /\ TimeOf \in [Rows -> Times]
  /\ CollectionOf \in [Roles -> Collections \cup {NoCollection}]
  /\ Mandatory \subseteq Roles
  /\ InitialRows \subseteq Rows
  /\ InitialRoles \subseteq Roles
  /\ Kinds \subseteq AllKinds
  /\ {Serial, MayCrash, CalendarOn, CalendarFails} \subseteq BOOLEAN

ASSUME SentinelsAssumption ==
  /\ NoOne \notin Applicants /\ Absent \notin Applicants /\ NoOne # Absent
  /\ NoEvent \notin Events
  /\ NoTime \notin Times
  /\ NoCollection \notin Collections

ASSUME FinitenessAssumption ==
  IsFiniteSet(Rows) /\ IsFiniteSet(Roles)

VARIABLES
  \* recruit_interview_slots, as committed
  holder,        \* applicant_id of each row; Absent: the row does not exist
  interviewed,   \* rows whose interview_at is set
  eventOf,       \* google_calendar_event_id of each row
  added,         \* row identities already used (uuids are never reused)
  \* the applicants, as committed
  selected,      \* the roles an applicant applies for
  answered,      \* the collections an applicant has answered completely
  \* Google Calendar
  live,          \* events in the calendar
  invite,        \* whom and which time an event was created for
  \* the wall clock
  horizon,       \* the first time that is still bookable (now + lead time)
  \* the requests
  pc,            \* the next step of each request
  req,           \* what a request was asked and what it has read
  cand,          \* rows found by the scan of the running statement
  ev,            \* the calendar event the request is about to remove or store
  freed,         \* rows its transaction has cancelled, not committed
  taken          \* rows its transaction has booked, not committed

slotVars == <<holder, interviewed, eventOf, added>>
applicantVars == <<selected, answered>>
calendarVars == <<live, invite>>
txVars == <<freed, taken>>
vars == <<slotVars, applicantVars, calendarVars, horizon, pc, req, cand, ev,
          txVars>>

Steps == {"idle", "read", "check", "find", "remove", "cancel", "canceling",
          "book", "booking", "create", "commit", "store", "storing",
          "stamp", "stamping", "delete"}

Reads == {"slots", "forms", "roles"}

NoRequest == [kind |-> "none", app |-> NoOne, time |-> NoTime, unread |-> {},
              seen |-> {}, complete |-> FALSE, sel |-> {}]

RequestType ==
  [kind : {"none", "book", "rebook", "cancel", "mark", "unmark", "remove"},
   app : Applicants \cup {NoOne}, time : Times \cup {NoTime},
   unread : SUBSET Reads, seen : SUBSET Rows, complete : BOOLEAN,
   sel : SUBSET Roles]

(* The tables, the calendar and the clock. *)
StoresOK ==
  /\ holder \in [Rows -> Applicants \cup {NoOne, Absent}]
  /\ interviewed \subseteq Rows
  /\ eventOf \in [Rows -> Events \cup {NoEvent}]
  /\ added \subseteq Rows
  /\ selected \in [Applicants -> SUBSET Roles]
  /\ answered \in [Applicants -> SUBSET Collections]
  /\ live \subseteq Events
  /\ invite \in [Events -> [app : Applicants \cup {NoOne},
                            time : Times \cup {NoTime}]]
  /\ horizon \in Nat

(* The requests. *)
RequestsOK ==
  /\ pc \in [Requests -> Steps]
  /\ req \in [Requests -> RequestType]
  /\ cand \in [Requests -> SUBSET Rows]
  /\ ev \in [Requests -> Events \cup {NoEvent}]
  /\ freed \in [Requests -> SUBSET Rows]
  /\ taken \in [Requests -> SUBSET Rows]
  /\ \A p \in Requests : pc[p] \in {"idle", "delete"} \/ req[p].app \in Applicants

TypeOK == StoresOK /\ RequestsOK

Init ==
  /\ holder = [r \in Rows |-> IF r \in InitialRows THEN NoOne ELSE Absent]
  /\ interviewed = {}
  /\ eventOf = [r \in Rows |-> NoEvent]
  /\ added = InitialRows
  /\ selected = [a \in Applicants |-> InitialRoles]
  /\ answered = [a \in Applicants |-> Collections]
  /\ live = {}
  /\ invite = [e \in Events |-> [app |-> NoOne, time |-> NoTime]]
  /\ horizon = 0
  /\ pc = [p \in Requests |-> "idle"]
  /\ req = [p \in Requests |-> NoRequest]
  /\ cand = [p \in Requests |-> {}]
  /\ ev = [p \in Requests |-> NoEvent]
  /\ freed = [p \in Requests |-> {}]
  /\ taken = [p \in Requests |-> {}]

-------------------------------------------------------------------------------
(* What the handlers compute. *)

HeldBy(a) == {r \in Rows : holder[r] = a}

(* recruit-role.service.ts: mandatory roles without a form are interviews. *)
MandatoryInterviewRoles == {x \in Mandatory : CollectionOf[x] = NoCollection}

(* The role ids a booking needs: mandatory and selected, concatenated. A
   mandatory role that is also selected is in the list twice, which counts. *)
RoleIds(sel) == MandatoryInterviewRoles \cup sel
SelectedLength(sel) == Cardinality(sel)  \* mutant: forgets the mandatory roles
RoleIdsLength(sel) == Cardinality(MandatoryInterviewRoles) + Cardinality(sel)

(* Every collection of a mandatory or selected role has all its answers. *)
FormsCompleted(a) ==
  {CollectionOf[x] : x \in Mandatory \cup selected[a]} \ {NoCollection}
    \subseteq answered[a]

ValidLeadTime(t) == t >= horizon

\* mutant: compares the number of roles and not the roles
IsSameLength(p) ==
  req[p].kind = "rebook" /\ Cardinality(req[p].seen) = RoleIdsLength(req[p].sel)

(* The rebook path takes the times from the first slot it read, so only there
   do the Date objects compare identical (===); an explicit booking never
   counts as a rebook of the same slot. *)
IsRebookSameSlot(p) ==
  LET sel == req[p].sel IN
  /\ req[p].kind = "rebook"
  /\ RoleIds(sel) # {}
  /\ Cardinality(req[p].seen) = RoleIdsLength(sel)
  /\ \A r \in req[p].seen : RoleOf[r] \in RoleIds(sel)

(* The holder of a row as the transaction of p sees it. *)
View(p, r) == IF r \in taken[p] THEN req[p].app
              ELSE IF r \in freed[p] THEN NoOne ELSE holder[r]

Locked(p) == freed[p] \cup taken[p]

\* mutant: the statement runs on another connection than its transaction
UnlockedByAll(p) == \A q \in Requests : cand[p] \cap Locked(q) = {}

(* No row of the running statement is locked by another transaction. *)
Unlocked(p) == \A q \in Requests \ {p} : cand[p] \cap Locked(q) = {}

InTransaction(p) == req[p].kind \in {"book", "rebook"}

(* The WHERE clauses of the UPDATE statements. *)
\* mutants: without interviewAt IS NULL; only the slot being booked;
\* without applicantId IS NULL
CancelableEvenInterviewed(p, r) == View(p, r) = req[p].app
CancelableAtBookedTime(p, r) ==
  View(p, r) = req[p].app /\ r \notin interviewed /\ TimeOf[r] = req[p].time
BookableEvenTaken(p, r) ==
  RoleOf[r] \in RoleIds(req[p].sel) /\ TimeOf[r] = req[p].time
Cancelable(p, r) == View(p, r) = req[p].app /\ r \notin interviewed
Bookable(p, r) ==
  /\ RoleOf[r] \in RoleIds(req[p].sel)
  /\ TimeOf[r] = req[p].time
  /\ View(p, r) = NoOne
Owned(p, r) == View(p, r) = req[p].app

(* The event ids after the rows of S were freed or deleted. *)
KeepEvents(S) == eventOf  \* mutant: the id stays on the row
ClearEvents(S) == [r \in Rows |-> IF r \in S THEN NoEvent ELSE eventOf[r]]

-------------------------------------------------------------------------------
(* The end of a request. *)

Goto(p, step) == pc' = [pc EXCEPT ![p] = step]

(* The response was sent, or the process died and PostgreSQL rolled back. *)
Finish(p) ==
  /\ Goto(p, "idle")
  /\ req' = [req EXCEPT ![p] = NoRequest]
  /\ cand' = [cand EXCEPT ![p] = {}]
  /\ ev' = [ev EXCEPT ![p] = NoEvent]
  /\ freed' = [freed EXCEPT ![p] = {}]
  /\ taken' = [taken EXCEPT ![p] = {}]

(* bookSlot throws. Its transaction, if open, is rolled back. The booking
   endpoint answers with the error; rebookSlot catches it and cancels. *)
Throw(p) ==
  IF req[p].kind = "rebook"
    THEN /\ Goto(p, "find")
         /\ req' = [req EXCEPT ![p] = [@ EXCEPT !.kind = "cancel"]]
         /\ cand' = [cand EXCEPT ![p] = {}]
         /\ ev' = [ev EXCEPT ![p] = NoEvent]
         /\ freed' = [freed EXCEPT ![p] = {}]
         /\ taken' = [taken EXCEPT ![p] = {}]
    ELSE Finish(p)

-------------------------------------------------------------------------------
(* The requests arrive. *)

Accept(p, a) ==
  /\ pc[p] = "idle"
  /\ Serial => \A q \in Requests : req[q].app # a

Begin(p, kind, a, t, step, unread) ==
  /\ Goto(p, step)
  /\ req' = [req EXCEPT ![p] =
               [NoRequest EXCEPT !.kind = kind, !.app = a, !.time = t,
                                 !.unread = unread]]

(* PUT slots/:refId/book *)
BookSlot(p, a, t) ==
  /\ "book" \in Kinds
  /\ Accept(p, a)
  /\ Begin(p, "book", a, t, "read", Reads)
  /\ UNCHANGED <<slotVars, applicantVars, calendarVars, horizon, cand, ev, txVars>>

(* PUT slots/cancel *)
CancelSlot(p, a) ==
  /\ "cancel" \in Kinds
  /\ Accept(p, a)
  /\ Begin(p, "cancel", a, NoTime, "find", {})
  /\ UNCHANGED <<slotVars, applicantVars, calendarVars, horizon, cand, ev, txVars>>

(* selectRoles commits the new roles, then calls rebookSlot. *)
SelectRoles(p, a, R) ==
  /\ "select" \in Kinds
  /\ Accept(p, a)
  /\ selected' = [selected EXCEPT ![a] = R]
  /\ Begin(p, "rebook", a, NoTime, "read", Reads)
  /\ UNCHANGED <<slotVars, answered, calendarVars, horizon, cand, ev, txVars>>

(* updateFormAnswers commits the answers, then calls rebookSlot. *)
UpdateFormAnswers(p, a, C) ==
  /\ "answer" \in Kinds
  /\ Accept(p, a)
  /\ answered' = [answered EXCEPT ![a] = C]
  /\ Begin(p, "rebook", a, NoTime, "read", Reads)
  /\ UNCHANGED <<slotVars, selected, calendarVars, horizon, cand, ev, txVars>>

(* markApplicantSlotsAsInterviewed: refused if some row is marked already;
   unmark...: refused if some row is not marked. *)
StampSlots(p, a, kind) ==
  /\ kind \in Kinds \cap {"mark", "unmark"}
  /\ Accept(p, a)
  /\ IF kind = "mark" THEN HeldBy(a) \cap interviewed = {}
                      ELSE HeldBy(a) \subseteq interviewed
  /\ Begin(p, kind, a, NoTime, "stamp", {})
  /\ UNCHANGED <<slotVars, applicantVars, calendarVars, horizon, cand, ev, txVars>>

(* addSlot inserts a row per role, in one save, whatever rows exist. *)
AddSlot(S) ==
  /\ "add" \in Kinds
  /\ S # {} /\ S \cap added = {}
  /\ \A r1, r2 \in S : TimeOf[r1] = TimeOf[r2]
  /\ holder' = [r \in Rows |-> IF r \in S THEN NoOne ELSE holder[r]]
  /\ added' = added \cup S
  /\ UNCHANGED <<interviewed, eventOf, applicantVars, calendarVars, horizon,
                 pc, req, cand, ev, txVars>>

(* removeSlot reads the rows and refuses if one is booked; the entities it
   read are deleted in a later statement, by their primary keys. *)
RemoveSlot(p, t, R) ==
  LET found == {r \in Rows : /\ TimeOf[r] = t /\ RoleOf[r] \in R
                             /\ holder[r] # Absent} IN
  /\ "remove" \in Kinds
  /\ pc[p] = "idle"
  /\ found # {} /\ found \subseteq HeldBy(NoOne)
  /\ Begin(p, "remove", NoOne, NoTime, "delete", {})
  /\ cand' = [cand EXCEPT ![p] = found]
  /\ UNCHANGED <<slotVars, applicantVars, calendarVars, horizon, ev, txVars>>

-------------------------------------------------------------------------------
(* The steps of bookSlot. *)

(* Promise.all: the reads go out together and are served in any order. *)
ReadSlots(p) ==
  /\ pc[p] = "read" /\ "slots" \in req[p].unread
  /\ req' = [req EXCEPT ![p] = [@ EXCEPT !.unread = req[p].unread \ {"slots"},
                                         !.seen = HeldBy(req[p].app)]]
  /\ UNCHANGED <<slotVars, applicantVars, calendarVars, horizon, pc, cand, ev, txVars>>

ReadForms(p) ==
  /\ pc[p] = "read" /\ "forms" \in req[p].unread
  /\ req' = [req EXCEPT ![p] = [@ EXCEPT !.unread = req[p].unread \ {"forms"},
                                         !.complete = FormsCompleted(req[p].app)]]
  /\ UNCHANGED <<slotVars, applicantVars, calendarVars, horizon, pc, cand, ev, txVars>>

ReadRoles(p) ==
  /\ pc[p] = "read" /\ "roles" \in req[p].unread
  /\ req' = [req EXCEPT ![p] = [@ EXCEPT !.unread = req[p].unread \ {"roles"},
                                         !.sel = selected[req[p].app]]]
  /\ UNCHANGED <<slotVars, applicantVars, calendarVars, horizon, pc, cand, ev, txVars>>

(* All that bookSlot decides before it opens the transaction. The times of a
   rebook are those of the first slot read: any of them, as nothing orders
   the query. *)
CheckBooking(p) ==
  /\ pc[p] = "read" /\ req[p].unread = {}
  /\ IF \/ req[p].kind = "rebook" /\ req[p].seen = {}
        \/ req[p].sel = {}
        \/ ~req[p].complete
       THEN Throw(p)
       ELSE IF IsRebookSameSlot(p) THEN Finish(p)
       ELSE \E t \in IF req[p].kind = "rebook"
                       THEN {TimeOf[r] : r \in req[p].seen} ELSE {req[p].time} :
              IF ValidLeadTime(t)
                THEN /\ Goto(p, "find")
                     /\ req' = [req EXCEPT ![p] = [@ EXCEPT !.time = t, !.seen = {}]]
                     /\ UNCHANGED <<cand, ev, txVars>>
                ELSE Throw(p)
  /\ UNCHANGED <<slotVars, applicantVars, calendarVars, horizon>>

-------------------------------------------------------------------------------
(* cancelSlot: on its own, or first in the transaction of bookSlot. Its
   calendar part reads outside that transaction and cannot be rolled back. *)

(* findOne: any one of the applicant's rows. *)
FindEvent(p) ==
  /\ pc[p] = "find"
  /\ \/ /\ \/ HeldBy(req[p].app) = {}
           \/ \E r \in HeldBy(req[p].app) : eventOf[r] = NoEvent
        /\ Goto(p, "cancel")
        /\ UNCHANGED ev
     \/ \E r \in HeldBy(req[p].app) :
          /\ eventOf[r] # NoEvent
          /\ Goto(p, "remove")
          /\ ev' = [ev EXCEPT ![p] = eventOf[r]]
  /\ UNCHANGED <<slotVars, applicantVars, calendarVars, horizon, req, cand, txVars>>

\* mutant: the event of the cancelled slot stays in the calendar
ForgetEvent(p) ==
  /\ pc[p] = "remove"
  /\ Goto(p, "cancel")
  /\ ev' = [ev EXCEPT ![p] = NoEvent]
  /\ UNCHANGED <<slotVars, applicantVars, calendarVars, horizon, req, cand, txVars>>

(* A failure of the remove call is logged and ignored. *)
RemoveEvent(p) ==
  /\ pc[p] = "remove"
  /\ \/ live' = live \ {ev[p]}
     \/ CalendarFails /\ UNCHANGED live
  /\ Goto(p, "cancel")
  /\ ev' = [ev EXCEPT ![p] = NoEvent]
  /\ UNCHANGED <<slotVars, applicantVars, invite, horizon, req, cand, txVars>>

ScanCancel(p) ==
  /\ pc[p] = "cancel"
  /\ cand' = [cand EXCEPT ![p] = {r \in Rows : Cancelable(p, r)}]
  /\ Goto(p, "canceling")
  /\ UNCHANGED <<slotVars, applicantVars, calendarVars, horizon, req, ev, txVars>>

WriteCancel(p) ==
  LET hit == {r \in cand[p] : Cancelable(p, r)} IN
  /\ pc[p] = "canceling"
  /\ Unlocked(p)
  /\ IF InTransaction(p)
       THEN /\ freed' = [freed EXCEPT ![p] = hit]
            /\ cand' = [cand EXCEPT ![p] = {}]
            /\ Goto(p, "book")
            /\ UNCHANGED <<holder, eventOf, req, ev, taken>>
       ELSE /\ holder' = [r \in Rows |-> IF r \in hit THEN NoOne ELSE holder[r]]
            /\ eventOf' = ClearEvents(hit)
            /\ Finish(p)
  /\ UNCHANGED <<interviewed, added, applicantVars, calendarVars, horizon>>

-------------------------------------------------------------------------------
(* The rest of the transaction of bookSlot, and what follows its commit. *)

ScanBook(p) ==
  /\ pc[p] = "book"
  /\ cand' = [cand EXCEPT ![p] = {r \in Rows : Bookable(p, r)}]
  /\ Goto(p, "booking")
  /\ UNCHANGED <<slotVars, applicantVars, calendarVars, horizon, req, ev, txVars>>

(* All the roles or none: an UPDATE that affected another number of rows than
   there are role ids throws, and the transaction rolls back. *)
WriteBook(p) ==
  LET hit == {r \in cand[p] : Bookable(p, r)} IN
  /\ pc[p] = "booking"
  /\ Unlocked(p)
  /\ IF Cardinality(hit) = RoleIdsLength(req[p].sel)
       THEN /\ taken' = [taken EXCEPT ![p] = hit]
            /\ cand' = [cand EXCEPT ![p] = {}]
            /\ Goto(p, IF CalendarOn THEN "create" ELSE "commit")
            /\ UNCHANGED <<req, ev, freed>>
       ELSE Throw(p)
  /\ UNCHANGED <<slotVars, applicantVars, calendarVars, horizon>>

(* An identity nobody refers to any more stands for a new one. *)
FreshEvents ==
  {e \in Events : /\ e \notin live
                  /\ \A r \in Rows : eventOf[r] # e
                  /\ \A q \in Requests : ev[q] # e}

(* createCalendarEvent; Google may refuse, which rolls the booking back. *)
CreateEvent(p) ==
  /\ pc[p] = "create"
  /\ \/ \E e \in FreshEvents :
          /\ live' = live \cup {e}
          /\ invite' = [invite EXCEPT ![e] = [app |-> req[p].app,
                                              time |-> req[p].time]]
          /\ ev' = [ev EXCEPT ![p] = e]
          /\ Goto(p, "commit")
          /\ UNCHANGED <<req, cand, txVars>>
     \/ /\ CalendarFails \/ FreshEvents = {}
        /\ Throw(p)
        /\ UNCHANGED calendarVars
  /\ UNCHANGED <<slotVars, applicantVars, horizon>>

Commit(p) ==
  /\ pc[p] = "commit"
  /\ holder' = [r \in Rows |-> View(p, r)]
  /\ eventOf' = ClearEvents(freed[p])
  /\ IF ev[p] = NoEvent
       THEN Finish(p)
       ELSE /\ Goto(p, "store")
            /\ freed' = [freed EXCEPT ![p] = {}]
            /\ taken' = [taken EXCEPT ![p] = {}]
            /\ UNCHANGED <<req, cand, ev>>
  /\ UNCHANGED <<interviewed, added, applicantVars, calendarVars, horizon>>

ScanStore(p) ==
  /\ pc[p] = "store"
  /\ cand' = [cand EXCEPT ![p] = {r \in Rows : Owned(p, r)}]
  /\ Goto(p, "storing")
  /\ UNCHANGED <<slotVars, applicantVars, calendarVars, horizon, req, ev, txVars>>

(* The id goes to every row the applicant holds by now. *)
WriteStore(p) ==
  /\ pc[p] = "storing"
  /\ Unlocked(p)
  /\ eventOf' = [r \in Rows |-> IF r \in cand[p] /\ Owned(p, r)
                                  THEN ev[p] ELSE eventOf[r]]
  /\ Finish(p)
  /\ UNCHANGED <<holder, interviewed, added, applicantVars, calendarVars, horizon>>

-------------------------------------------------------------------------------
(* Moderators. *)

ScanStamp(p) ==
  /\ pc[p] = "stamp"
  /\ cand' = [cand EXCEPT ![p] = {r \in Rows : Owned(p, r)}]
  /\ Goto(p, "stamping")
  /\ UNCHANGED <<slotVars, applicantVars, calendarVars, horizon, req, ev, txVars>>

WriteStamp(p) ==
  LET hit == {r \in cand[p] : Owned(p, r)} IN
  /\ pc[p] = "stamping"
  /\ Unlocked(p)
  /\ interviewed' = IF req[p].kind = "mark" THEN interviewed \cup hit
                                            ELSE interviewed \ hit
  /\ Finish(p)
  /\ UNCHANGED <<holder, eventOf, added, applicantVars, calendarVars, horizon>>

(* DELETE ... WHERE id IN (...): whatever the rows hold by now. *)
DeleteRows(p) ==
  /\ pc[p] = "delete"
  /\ Unlocked(p)
  /\ holder' = [r \in Rows |-> IF r \in cand[p] THEN Absent ELSE holder[r]]
  /\ eventOf' = ClearEvents(cand[p])
  /\ interviewed' = interviewed \ cand[p]
  /\ Finish(p)
  /\ UNCHANGED <<added, applicantVars, calendarVars, horizon>>

-------------------------------------------------------------------------------
(* The environment. *)

\* mutant: the lead time is added on the wrong side
TickBack ==
  /\ "clock" \in Kinds
  /\ \E t \in Times : t >= horizon
  /\ horizon' = horizon - 1
  /\ UNCHANGED <<slotVars, applicantVars, calendarVars, pc, req, cand, ev, txVars>>

(* A slot time comes closer than the minimum booking lead time. *)
Tick ==
  /\ "clock" \in Kinds
  /\ \E t \in Times : t >= horizon
  /\ horizon' = horizon + 1
  /\ UNCHANGED <<slotVars, applicantVars, calendarVars, pc, req, cand, ev, txVars>>

(* The process of a request dies; its open transaction is rolled back. *)
Crash(p) ==
  /\ MayCrash
  /\ pc[p] # "idle"
  /\ Finish(p)
  /\ UNCHANGED <<slotVars, applicantVars, calendarVars, horizon>>

Arrive(p) ==
  \/ \E a \in Applicants :
       \/ \E t \in Times : BookSlot(p, a, t)
       \/ CancelSlot(p, a)
       \/ \E R \in SUBSET Roles : SelectRoles(p, a, R)
       \/ \E C \in SUBSET Collections : UpdateFormAnswers(p, a, C)
       \/ \E kind \in {"mark", "unmark"} : StampSlots(p, a, kind)
  \/ \E t \in Times, R \in SUBSET Roles : RemoveSlot(p, t, R)

Step(p) ==
  \/ ReadSlots(p) \/ ReadForms(p) \/ ReadRoles(p) \/ CheckBooking(p)
  \/ FindEvent(p) \/ RemoveEvent(p) \/ ScanCancel(p) \/ WriteCancel(p)
  \/ ScanBook(p) \/ WriteBook(p) \/ CreateEvent(p) \/ Commit(p)
  \/ ScanStore(p) \/ WriteStore(p)
  \/ ScanStamp(p) \/ WriteStamp(p) \/ DeleteRows(p)

Next ==
  \/ \E p \in Requests : Arrive(p) \/ Step(p) \/ Crash(p)
  \/ \E S \in SUBSET Rows : AddSlot(S)
  \/ Tick

Spec == Init /\ [][Next]_vars

(* The steps that may have to wait for a row lock. *)
LockingStep(p) ==
  \/ WriteCancel(p) \/ WriteBook(p) \/ WriteStore(p)
  \/ WriteStamp(p) \/ DeleteRows(p)

(* The event loop and the database serve every request in flight; nobody has
   to send one, and nothing has to crash. PostgreSQL queues the waiters of a
   row in order of arrival, so a statement is not overtaken for ever. *)
Fairness == \A p \in Requests : WF_vars(Step(p)) /\ SF_vars(LockingStep(p))

FairSpec == Spec /\ Fairness

-------------------------------------------------------------------------------
(* Properties. *)

(* An interviewed row always has the applicant who was interviewed: neither a
   cancellation nor a rebooking that runs at the same time as the moderator's
   stamp strips it (cancelSlot's interviewAt IS NULL, re-checked under the
   row lock). *)
InterviewedRowsAreHeld == \A r \in interviewed : holder[r] \in Applicants

(* The calendar event stored on a row was created for the applicant who holds
   the row, although the id is stored after the commit, by a separate UPDATE
   that other bookings and cancellations can overtake; free rows carry none. *)
EventsBelongToHolder ==
  \A r \in Rows : eventOf[r] # NoEvent =>
    holder[r] \in Applicants /\ invite[eventOf[r]].app = holder[r]

(* Each role has at most one row per time (addSlot does not enforce it). *)
UniqueRows ==
  \A r1, r2 \in Rows :
    RoleOf[r1] = RoleOf[r2] /\ TimeOf[r1] = TimeOf[r2] => r1 = r2

(* A step that gives an applicant rows leaves her, at the booked time, with a
   row of every role her request had read: no partial booking is ever
   committed, whatever was taken or removed between scan and write. *)
BookingsAreComplete ==
  [][\A a \in Applicants :
       LET gained == {r \in Rows : holder'[r] = a /\ holder[r] # a} IN
       gained # {} =>
         \E p \in Requests :
           /\ req[p].app = a
           /\ RoleIds(req[p].sel) \subseteq
                {RoleOf[r] : r \in {x \in Rows : /\ holder'[x] = a
                                               /\ TimeOf[x] = req[p].time}}]_vars

(* The slot table behaves as SlotAllocation promises. *)
Allocation == INSTANCE SlotAllocation
AllocationSpec == Allocation!Spec

(* No statement waits for the row lock of p's transaction while p waits in
   turn, however many others are in between: bookings that swap slots, cancel
   and book in opposite orders, never run into PostgreSQL's deadlock abort (the
   model takes the row locks of one statement together). *)
WaitsFor(p, q) == /\ pc[p] \in {"canceling", "booking", "storing", "stamping", "delete"}
                  /\ cand[p] \cap Locked(q) # {}
NoWaitingCircle ==
  \A Q \in SUBSET Requests :
    Q # {} => \E p \in Q : \A q \in Q \ {p} : ~WaitsFor(p, q)

(* Every request that arrived is answered, row locks, failing calendar calls
   and crashes of other requests notwithstanding. *)
RequestsFinish == \A p \in Requests : pc[p] # "idle" ~> pc[p] = "idle"

AtRest(a) == \A p \in Requests : req[p].app # a

(* "Will automatically cancel the selected slot and book a new one": the rows
   an applicant still has to be interviewed in are all at one time. *)
OneSlotPerApplicant ==
  \A a \in Applicants :
    \A r1, r2 \in HeldBy(a) \ interviewed : TimeOf[r1] = TimeOf[r2]

(* Once her requests are answered, an applicant who holds a slot holds exactly
   the rows of her current roles, and her forms are complete: a change of
   roles or answers either moves the booking along or drops it. *)
BookingsMatchRoles ==
  \A a \in Applicants :
    AtRest(a) /\ HeldBy(a) # {} =>
      /\ {RoleOf[r] : r \in HeldBy(a)} = RoleIds(selected[a])
      /\ selected[a] # {}
      /\ FormsCompleted(a)

(* Once her requests are answered, every calendar event of an applicant is the
   one stored on a row she holds, at the time of the event: no invitation
   survives the booking it was sent for. *)
NoOrphanEvent ==
  \A e \in live :
    AtRest(invite[e].app) =>
      \E r \in Rows : eventOf[r] = e /\ TimeOf[r] = invite[e].time

-------------------------------------------------------------------------------
(* What makes the safety properties inductive. *)

OpenSteps == {"book", "booking", "create", "commit"}
DecidedSteps == {"find", "remove", "cancel", "canceling"} \cup OpenSteps

(* An open transaction holds back only rows its applicant may give up, takes
   only rows that are free without it, and as many as the roles it has read. *)
TransactionInv(p) ==
  /\ freed[p] \subseteq HeldBy(req[p].app) \ interviewed
  /\ taken[p] \subseteq HeldBy(NoOne) \cup freed[p]
  /\ \A r \in taken[p] :
       TimeOf[r] = req[p].time /\ RoleOf[r] \in RoleIds(req[p].sel)
  /\ freed[p] # {} => pc[p] \in OpenSteps
  /\ taken[p] # {} => pc[p] \in {"create", "commit"}
  /\ pc[p] \in OpenSteps => InTransaction(p)
  /\ pc[p] \in DecidedSteps /\ InTransaction(p) => req[p].sel # {}
  /\ pc[p] \in {"create", "commit"} =>
       Cardinality(taken[p]) = RoleIdsLength(req[p].sel)

(* The event a request carries after creating it is its own applicant's. *)
EventInv(p) ==
  /\ ev[p] # NoEvent => pc[p] \in {"remove", "commit", "store", "storing"}
  /\ pc[p] \in {"store", "storing"} => ev[p] # NoEvent
  /\ ev[p] # NoEvent /\ pc[p] # "remove" => invite[ev[p]].app = req[p].app

LocksAreExclusive ==
  \A p, q \in Requests : p # q => Locked(p) \cap Locked(q) = {}

UnusedRowsAreAbsent == \A r \in Rows \ added : holder[r] = Absent

IInv ==
  /\ TypeOK
  /\ UnusedRowsAreAbsent
  /\ InterviewedRowsAreHeld
  /\ EventsBelongToHolder
  /\ LocksAreExclusive
  /\ \A p \in Requests : TransactionInv(p) /\ EventInv(p)
===============================================================================
