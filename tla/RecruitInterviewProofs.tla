----------------------- MODULE RecruitInterviewProofs -----------------------
(***************************************************************************)
(* Theorems about RecruitInterview, for every set of applicants, requests, *)
(* rows and roles.                                                         *)
(***************************************************************************)
EXTENDS RecruitInterview, FiniteSetTheorems, TLAPS

LEMMA NoRequestType == NoRequest \in RequestType
  BY DEF NoRequest, RequestType

(* A request that ends leaves well-typed locals. *)
LEMMA FinishType ==
  ASSUME NEW p \in Requests, RequestsOK, Finish(p)
  PROVE  RequestsOK'
  BY NoRequestType DEF RequestsOK, Finish, Goto, Steps

(* So does one that updates what it has read and goes on. *)
LEMMA UpdateType ==
  ASSUME NEW p \in Requests, RequestsOK,
         NEW rec \in RequestType, rec.app = req[p].app,
         NEW step \in Steps, pc[p] \notin {"idle", "delete"},
         req' = [req EXCEPT ![p] = rec],
         pc' = [pc EXCEPT ![p] = step],
         cand' \in [Requests -> SUBSET Rows],
         ev' \in [Requests -> Events \cup {NoEvent}],
         freed' \in [Requests -> SUBSET Rows],
         taken' \in [Requests -> SUBSET Rows]
  PROVE  RequestsOK'
  BY DEF RequestsOK

(* Or that only goes on. *)
LEMMA GotoType ==
  ASSUME NEW p \in Requests, RequestsOK,
         NEW step \in Steps, pc[p] \notin {"idle", "delete"},
         req' = req, Goto(p, step),
         cand' \in [Requests -> SUBSET Rows],
         ev' \in [Requests -> Events \cup {NoEvent}],
         freed' \in [Requests -> SUBSET Rows],
         taken' \in [Requests -> SUBSET Rows]
  PROVE  RequestsOK'
  BY DEF RequestsOK, Goto

(* So does one whose booking failed. *)
LEMMA ThrowType ==
  ASSUME NEW p \in Requests, RequestsOK, Throw(p),
         pc[p] \notin {"idle", "delete"}
  PROVE  RequestsOK'
<1>1. CASE req[p].kind = "rebook"
  <2>1. /\ [req[p] EXCEPT !.kind = "cancel"] \in RequestType
        /\ [req[p] EXCEPT !.kind = "cancel"].app = req[p].app
    BY DEF RequestsOK, RequestType
  <2>2. /\ req' = [req EXCEPT ![p] = [req[p] EXCEPT !.kind = "cancel"]]
        /\ pc' = [pc EXCEPT ![p] = "find"]
    BY <1>1 DEF Throw, Goto
  <2>3. /\ cand' \in [Requests -> SUBSET Rows]
        /\ ev' \in [Requests -> Events \cup {NoEvent}]
        /\ freed' \in [Requests -> SUBSET Rows]
        /\ taken' \in [Requests -> SUBSET Rows]
    BY <1>1 DEF Throw, RequestsOK
  <2> QED
    BY <2>1, <2>2, <2>3, UpdateType DEF Steps
<1>2. CASE req[p].kind # "rebook"
  BY <1>2, FinishType DEF Throw
<1> QED
  BY <1>1, <1>2

(* And a request that begins. *)
LEMMA BeginType ==
  ASSUME NEW p \in Requests, RequestsOK,
         NEW kind \in {"book", "rebook", "cancel", "mark", "unmark", "remove"},
         NEW a \in Applicants \cup {NoOne}, NEW t \in Times \cup {NoTime},
         NEW step \in Steps, NEW unread \in SUBSET Reads,
         a \in Applicants \/ step = "delete",
         Begin(p, kind, a, t, step, unread),
         UNCHANGED <<ev, txVars>>, cand' \in [Requests -> SUBSET Rows]
  PROVE  RequestsOK'
<1>1. /\ [NoRequest EXCEPT !.kind = kind, !.app = a, !.time = t, !.unread = unread]
           \in RequestType
      /\ [NoRequest EXCEPT !.kind = kind, !.app = a, !.time = t,
                           !.unread = unread].app = a
  BY DEF NoRequest, RequestType
<1> QED
  BY <1>1 DEF Begin, Goto, RequestsOK, txVars
-----------------------------------------------------------------------------
(* Each action keeps the locals well typed. *)
LEMMA ArriveType ==
  ASSUME NEW p \in Requests, TypeOK, Arrive(p)
  PROVE  TypeOK'
<1> USE DEF TypeOK
<1>1. ASSUME NEW a \in Applicants, NEW t \in Times, BookSlot(p, a, t)
      PROVE  TypeOK'
  <2>1. RequestsOK'
    BY <1>1, BeginType DEF BookSlot, Steps, Reads, RequestsOK
  <2> QED
    BY <1>1, <2>1 DEF BookSlot, StoresOK, slotVars, applicantVars, calendarVars
<1>2. ASSUME NEW a \in Applicants, CancelSlot(p, a)
      PROVE  TypeOK'
  <2>1. RequestsOK'
    BY <1>2, BeginType DEF CancelSlot, Steps, Reads, RequestsOK
  <2> QED
    BY <1>2, <2>1 DEF CancelSlot, StoresOK, slotVars, applicantVars, calendarVars
<1>3. ASSUME NEW a \in Applicants, NEW R \in SUBSET Roles, SelectRoles(p, a, R)
      PROVE  TypeOK'
  <2>1. RequestsOK'
    BY <1>3, BeginType DEF SelectRoles, Steps, Reads, RequestsOK
  <2> QED
    BY <1>3, <2>1 DEF SelectRoles, StoresOK, slotVars, calendarVars
<1>4. ASSUME NEW a \in Applicants, NEW C \in SUBSET Collections,
             UpdateFormAnswers(p, a, C)
      PROVE  TypeOK'
  <2>1. RequestsOK'
    BY <1>4, BeginType DEF UpdateFormAnswers, Steps, Reads, RequestsOK
  <2> QED
    BY <1>4, <2>1 DEF UpdateFormAnswers, StoresOK, slotVars, calendarVars
<1>5. ASSUME NEW a \in Applicants, NEW kind \in {"mark", "unmark"},
             StampSlots(p, a, kind)
      PROVE  TypeOK'
  <2>1. kind \in {"book", "rebook", "cancel", "mark", "unmark", "remove"}
    OBVIOUS
  <2>2. Begin(p, kind, a, NoTime, "stamp", {})
    BY <1>5 DEF StampSlots
  <2>3. RequestsOK'
    BY <1>5, <2>1, <2>2, BeginType DEF StampSlots, Steps, Reads, RequestsOK
  <2> QED
    BY <1>5, <2>3 DEF StampSlots, StoresOK, slotVars, applicantVars, calendarVars
<1>6. ASSUME NEW t \in Times, NEW R \in SUBSET Roles, RemoveSlot(p, t, R)
      PROVE  TypeOK'
  <2>1. cand' \in [Requests -> SUBSET Rows]
    BY <1>6 DEF RemoveSlot, RequestsOK
  <2>2. RequestsOK'
    BY <1>6, <2>1, BeginType DEF RemoveSlot, Steps, Reads
  <2> QED
    BY <1>6, <2>2 DEF RemoveSlot, StoresOK, slotVars, applicantVars, calendarVars
<1> QED
  BY <1>1, <1>2, <1>3, <1>4, <1>5, <1>6 DEF Arrive

LEMMA StepType ==
  ASSUME NEW p \in Requests, TypeOK, Step(p)
  PROVE  TypeOK'
<1> USE DEF TypeOK, slotVars, applicantVars, calendarVars, txVars
<1>0. /\ pc[p] \notin {"idle", "delete"} => req[p].app \in Applicants
      /\ req[p] \in RequestType
      /\ cand \in [Requests -> SUBSET Rows]
      /\ ev \in [Requests -> Events \cup {NoEvent}]
      /\ freed \in [Requests -> SUBSET Rows]
      /\ taken \in [Requests -> SUBSET Rows]
  BY DEF RequestsOK
<1>1. CASE ReadSlots(p) \/ ReadForms(p) \/ ReadRoles(p)
  <2>1. PICK rec \in RequestType : rec.app = req[p].app /\ req' = [req EXCEPT ![p] = rec]
    <3>1. CASE ReadSlots(p)
      <4> DEFINE new == [req[p] EXCEPT !.unread = req[p].unread \ {"slots"},
                                       !.seen = HeldBy(req[p].app)]
      <4>1. new \in RequestType /\ new.app = req[p].app
        BY <1>0 DEF HeldBy, RequestType
      <4>2. req' = [req EXCEPT ![p] = new]
        BY <3>1 DEF ReadSlots
      <4> HIDE DEF new
      <4> QED BY <4>1, <4>2
    <3>2. CASE ReadForms(p)
      <4> DEFINE new == [req[p] EXCEPT !.unread = req[p].unread \ {"forms"},
                                       !.complete = FormsCompleted(req[p].app)]
      <4>1. new \in RequestType /\ new.app = req[p].app
        BY <1>0 DEF FormsCompleted, RequestType
      <4>2. req' = [req EXCEPT ![p] = new]
        BY <3>2 DEF ReadForms
      <4> HIDE DEF new
      <4> QED BY <4>1, <4>2
    <3>3. CASE ReadRoles(p)
      <4> DEFINE new == [req[p] EXCEPT !.unread = req[p].unread \ {"roles"},
                                       !.sel = selected[req[p].app]]
      <4>1. selected[req[p].app] \in SUBSET Roles
        BY <1>0, <3>3 DEF ReadRoles, StoresOK
      <4>2. new \in RequestType /\ new.app = req[p].app
        BY <1>0, <4>1 DEF RequestType
      <4>3. req' = [req EXCEPT ![p] = new]
        BY <3>3 DEF ReadRoles
      <4> HIDE DEF new
      <4> QED BY <4>2, <4>3
    <3> QED BY <1>1, <3>1, <3>2, <3>3
  <2>2. pc[p] = "read" /\ pc' = pc
    BY <1>1 DEF ReadSlots, ReadForms, ReadRoles
  <2>3. RequestsOK'
    BY <1>0, <1>1, <2>1, <2>2 DEF RequestsOK, ReadSlots, ReadForms, ReadRoles
  <2> QED
    BY <1>1, <2>3 DEF ReadSlots, ReadForms, ReadRoles, StoresOK
<1>2. CASE CheckBooking(p)
  <2>1. CASE Throw(p)
    BY <1>2, <2>1, ThrowType DEF CheckBooking, StoresOK
  <2>2. CASE Finish(p)
    BY <1>2, <2>2, FinishType DEF CheckBooking, StoresOK
  <2>3. ASSUME NEW t \in IF req[p].kind = "rebook"
                           THEN {TimeOf[r] : r \in req[p].seen} ELSE {req[p].time},
               Goto(p, "find"),
               req' = [req EXCEPT ![p] = [@ EXCEPT !.time = t, !.seen = {}]],
               UNCHANGED <<cand, ev, txVars>>
        PROVE  TypeOK'
    <3> DEFINE rec == [req[p] EXCEPT !.time = t, !.seen = {}]
    <3>1. t \in Times \cup {NoTime}
      BY <1>0, ConstantsAssumption DEF RequestType
    <3>2. rec \in RequestType /\ rec.app = req[p].app
      BY <1>0, <3>1 DEF RequestType
    <3>3. req' = [req EXCEPT ![p] = rec] /\ pc' = [pc EXCEPT ![p] = "find"]
      BY <2>3 DEF Goto
    <3>4. pc[p] = "read"
      BY <1>2 DEF CheckBooking
    <3>5. RequestsOK'
      BY <1>0, <2>3, <3>2, <3>3, <3>4, UpdateType DEF Steps
    <3> QED
      BY <1>2, <3>5 DEF CheckBooking, StoresOK
  <2> QED
    BY <1>2, <2>1, <2>2, <2>3 DEF CheckBooking
<1>3. CASE FindEvent(p)
  <2>1. ev' \in [Requests -> Events \cup {NoEvent}]
    BY <1>0, <1>3 DEF FindEvent, HeldBy, StoresOK
  <2>2. RequestsOK'
    BY <1>0, <1>3, <2>1, GotoType DEF FindEvent, Steps
  <2> QED BY <1>3, <2>2 DEF FindEvent, StoresOK
<1>4. CASE RemoveEvent(p)
  <2>1. RequestsOK'
    BY <1>0, <1>4, GotoType DEF RemoveEvent, Steps
  <2> QED BY <1>4, <2>1 DEF RemoveEvent, StoresOK
<1>5. CASE ScanCancel(p) \/ ScanBook(p) \/ ScanStore(p) \/ ScanStamp(p)
  <2>1. cand' \in [Requests -> SUBSET Rows]
    BY <1>0, <1>5 DEF ScanCancel, ScanBook, ScanStore, ScanStamp
  <2>2. RequestsOK'
    BY <1>0, <1>5, <2>1, GotoType DEF ScanCancel, ScanBook, ScanStore, ScanStamp, Steps
  <2> QED
    BY <1>5, <2>2 DEF ScanCancel, ScanBook, ScanStore, ScanStamp, StoresOK
<1>6. CASE WriteCancel(p)
  <2>1. CASE InTransaction(p)
    <3>1. RequestsOK'
      BY <1>0, <1>6, <2>1, GotoType DEF WriteCancel, Steps
    <3> QED BY <1>6, <2>1, <3>1 DEF WriteCancel, StoresOK
  <2>2. CASE ~InTransaction(p)
    BY <1>6, <2>2, FinishType DEF WriteCancel, StoresOK, ClearEvents
  <2> QED BY <2>1, <2>2
<1>7. CASE WriteBook(p)
  <2>1. CASE Throw(p)
    BY <1>7, <2>1, ThrowType DEF WriteBook, StoresOK
  <2>2. CASE ~Throw(p)
    <3>1. RequestsOK'
      BY <1>0, <1>7, <2>2, GotoType DEF WriteBook, Steps
    <3> QED BY <1>7, <3>1 DEF WriteBook, StoresOK
  <2> QED BY <2>1, <2>2
<1>8. CASE CreateEvent(p)
  <2>1. CASE Throw(p) /\ UNCHANGED calendarVars
    BY <1>8, <2>1, ThrowType DEF CreateEvent, StoresOK
  <2>2. ASSUME NEW e \in FreshEvents,
               live' = live \cup {e},
               invite' = [invite EXCEPT ![e] = [app |-> req[p].app,
                                                time |-> req[p].time]],
               ev' = [ev EXCEPT ![p] = e],
               Goto(p, "commit"),
               UNCHANGED <<req, cand, txVars>>
        PROVE  TypeOK'
    <3>1. e \in Events
      BY DEF FreshEvents
    <3>2. RequestsOK'
      BY <1>0, <1>8, <2>2, <3>1, GotoType DEF CreateEvent, Steps
    <3>3. [app |-> req[p].app, time |-> req[p].time] \in
            [app : Applicants \cup {NoOne}, time : Times \cup {NoTime}]
      BY <1>0 DEF RequestType
    <3> QED
      BY <1>8, <2>2, <3>1, <3>2, <3>3 DEF CreateEvent, StoresOK
  <2> QED BY <1>8, <2>1, <2>2 DEF CreateEvent
<1>9. CASE Commit(p)
  <2>1. holder' \in [Rows -> Applicants \cup {NoOne, Absent}]
    BY <1>0, <1>9 DEF Commit, View, StoresOK
  <2>2. StoresOK'
    BY <1>9, <2>1 DEF Commit, StoresOK, ClearEvents
  <2>3. CASE Finish(p)
    BY <2>2, <2>3, FinishType
  <2>4. CASE ~Finish(p)
    BY <1>0, <1>9, <2>2, <2>4, GotoType DEF Commit, Steps
  <2> QED BY <2>3, <2>4
<1>10. CASE WriteStore(p)
  BY <1>0, <1>10, FinishType DEF WriteStore, StoresOK
<1>11. CASE WriteStamp(p)
  BY <1>0, <1>11, FinishType DEF WriteStamp, StoresOK
<1>12. CASE DeleteRows(p)
  BY <1>0, <1>12, FinishType DEF DeleteRows, StoresOK, ClearEvents
<1> QED
  BY <1>1, <1>2, <1>3, <1>4, <1>5, <1>6, <1>7, <1>8, <1>9, <1>10, <1>11,
     <1>12 DEF Step

LEMMA InitType == Init => TypeOK
  BY NoRequestType, ConstantsAssumption
     DEF Init, TypeOK, StoresOK, RequestsOK, Steps

LEMMA NextType == TypeOK /\ [Next]_vars => TypeOK'
<1> SUFFICES ASSUME TypeOK, [Next]_vars PROVE TypeOK'
  OBVIOUS
<1>1. ASSUME NEW p \in Requests, Crash(p) PROVE TypeOK'
  BY <1>1, FinishType
     DEF Crash, TypeOK, StoresOK, slotVars, applicantVars, calendarVars
<1>2. ASSUME NEW S \in SUBSET Rows, AddSlot(S) PROVE TypeOK'
  BY <1>2 DEF AddSlot, TypeOK, StoresOK, RequestsOK, applicantVars,
              calendarVars, txVars
<1>3. CASE Tick
  BY <1>3 DEF Tick, TypeOK, StoresOK, RequestsOK, slotVars, applicantVars,
              calendarVars, txVars
<1>4. CASE UNCHANGED vars
  BY <1>4 DEF vars, TypeOK, StoresOK, RequestsOK, slotVars, applicantVars,
              calendarVars, txVars
<1> QED
  BY <1>1, <1>2, <1>3, <1>4, ArriveType, StepType DEF Next

(* Every variable keeps its type, whatever the requests do. *)
THEOREM TypeCorrect == Spec => []TypeOK
  BY InitType, NextType, PTL DEF Spec

-----------------------------------------------------------------------------
(* The inductive invariant. *)

(* The locals of q are left alone. *)
Same(q) ==
  /\ pc'[q] = pc[q] /\ req'[q] = req[q] /\ ev'[q] = ev[q]
  /\ freed'[q] = freed[q] /\ taken'[q] = taken[q]

LEMMA FinishInv ==
  ASSUME NEW p \in Requests, RequestsOK, Finish(p)
  PROVE  /\ TransactionInv(p)' /\ EventInv(p)' /\ Locked(p)' = {}
         /\ \A q \in Requests \ {p} : Same(q)
<1>1. /\ pc'[p] = "idle" /\ req'[p] = NoRequest /\ ev'[p] = NoEvent
      /\ freed'[p] = {} /\ taken'[p] = {}
      /\ \A q \in Requests \ {p} : Same(q)
  BY DEF Finish, Goto, RequestsOK, Same
<1> QED
  BY <1>1 DEF TransactionInv, EventInv, Locked, OpenSteps, DecidedSteps

LEMMA ThrowInv ==
  ASSUME NEW p \in Requests, RequestsOK, Throw(p)
  PROVE  /\ TransactionInv(p)' /\ EventInv(p)' /\ Locked(p)' = {}
         /\ \A q \in Requests \ {p} : Same(q)
<1>1. CASE req[p].kind = "rebook"
  <2>1. /\ pc'[p] = "find" /\ ev'[p] = NoEvent
        /\ freed'[p] = {} /\ taken'[p] = {}
        /\ \A q \in Requests \ {p} : Same(q)
    BY <1>1 DEF Throw, Goto, RequestsOK, Same
  <2>2. req'[p] = [req[p] EXCEPT !.kind = "cancel"]
    BY <1>1 DEF Throw, RequestsOK
  <2>3. req'[p].kind = "cancel"
    BY <2>2 DEF RequestsOK, RequestType
  <2> QED
    BY <2>1, <2>3 DEF TransactionInv, EventInv, Locked, OpenSteps, InTransaction
<1>2. CASE req[p].kind # "rebook"
  BY <1>2, FinishInv DEF Throw
<1> QED
  BY <1>1, <1>2

(* Another request's rows are untouched, so it keeps its invariant. *)
LEMMA OtherTransaction ==
  ASSUME NEW q \in Requests, RequestsOK, TransactionInv(q), Same(q),
         \A r \in Locked(q) :
           holder'[r] = holder[r] /\ (r \in interviewed <=> r \in interviewed')
  PROVE  TransactionInv(q)'
  BY DEF TransactionInv, Same, Locked, HeldBy, InTransaction, RequestsOK

LEMMA OtherEvent ==
  ASSUME NEW q \in Requests, EventInv(q), Same(q),
         ev[q] # NoEvent => invite'[ev[q]] = invite[ev[q]]
  PROVE  EventInv(q)'
  BY DEF EventInv, Same

(* A step of p that leaves the tables and the invitations alone. *)
LEMMA LocalStep ==
  ASSUME NEW p \in Requests, IInv, TypeOK', UNCHANGED <<slotVars, invite>>,
         \A q \in Requests \ {p} : Same(q),
         TransactionInv(p)', EventInv(p)',
         \A q \in Requests \ {p} : Locked(p)' \cap Locked(q) = {}
  PROVE  IInv'
<1>1. ASSUME NEW q \in Requests PROVE TransactionInv(q)' /\ EventInv(q)'
  BY OtherTransaction, OtherEvent DEF IInv, TypeOK, slotVars
<1>2. LocksAreExclusive'
  BY DEF IInv, LocksAreExclusive, Locked, Same
<1>3. UnusedRowsAreAbsent' /\ InterviewedRowsAreHeld' /\ EventsBelongToHolder'
  BY DEF IInv, UnusedRowsAreAbsent, InterviewedRowsAreHeld,
         EventsBelongToHolder, slotVars
<1> QED
  BY <1>1, <1>2, <1>3 DEF IInv


(* A request that arrives has no transaction and no event yet. *)
LEMMA BeginInv ==
  ASSUME NEW p \in Requests, IInv, TypeOK', pc[p] = "idle",
         NEW kind, NEW a, NEW t, NEW step, NEW unread,
         step = "find" => kind = "cancel",
         step \in {"read", "find", "stamp", "delete"},
         Begin(p, kind, a, t, step, unread),
         UNCHANGED <<slotVars, calendarVars, ev, txVars>>
  PROVE  IInv'
<1>1. /\ pc'[p] = step /\ ev'[p] = ev[p] /\ freed'[p] = freed[p]
      /\ taken'[p] = taken[p]
      /\ \A q \in Requests \ {p} : Same(q)
  BY DEF Begin, Goto, IInv, TypeOK, RequestsOK, Same, txVars
<1>2. req'[p].kind = kind
  <2>1. req'[p] = [NoRequest EXCEPT !.kind = kind, !.app = a, !.time = t,
                                    !.unread = unread]
    BY DEF Begin, IInv, TypeOK, RequestsOK
  <2> QED BY <2>1 DEF NoRequest
<1>3. freed[p] = {} /\ taken[p] = {} /\ ev[p] = NoEvent
  BY DEF IInv, TransactionInv, EventInv, OpenSteps
<1>4. TransactionInv(p)' /\ EventInv(p)' /\ Locked(p)' = {}
  BY <1>1, <1>2, <1>3
     DEF TransactionInv, EventInv, Locked, OpenSteps, DecidedSteps, InTransaction
<1> QED
  BY <1>1, <1>4, LocalStep DEF calendarVars

LEMMA ArriveInv ==
  ASSUME NEW p \in Requests, IInv, TypeOK', Arrive(p)
  PROVE  IInv'
<1> USE BeginInv
<1>1. ASSUME NEW a \in Applicants, NEW t \in Times, BookSlot(p, a, t) PROVE IInv'
  BY <1>1 DEF BookSlot, Accept
<1>2. ASSUME NEW a \in Applicants, CancelSlot(p, a) PROVE IInv'
  BY <1>2 DEF CancelSlot, Accept
<1>3. ASSUME NEW a \in Applicants, NEW R \in SUBSET Roles, SelectRoles(p, a, R)
      PROVE  IInv'
  BY <1>3 DEF SelectRoles, Accept
<1>4. ASSUME NEW a \in Applicants, NEW C \in SUBSET Collections,
             UpdateFormAnswers(p, a, C)
      PROVE  IInv'
  BY <1>4 DEF UpdateFormAnswers, Accept
<1>5. ASSUME NEW a \in Applicants, NEW kind \in {"mark", "unmark"},
             StampSlots(p, a, kind)
      PROVE  IInv'
  BY <1>5 DEF StampSlots, Accept
<1>6. ASSUME NEW t \in Times, NEW R \in SUBSET Roles, RemoveSlot(p, t, R)
      PROVE  IInv'
  BY <1>6 DEF RemoveSlot
<1> QED
  BY <1>1, <1>2, <1>3, <1>4, <1>5, <1>6 DEF Arrive

(* The steps of p up to its transaction, and the scans. *)
LEMMA QuietStepInv ==
  ASSUME NEW p \in Requests, IInv, TypeOK',
         ReadSlots(p) \/ ReadForms(p) \/ ReadRoles(p)
  PROVE  IInv'
<1>1. /\ pc[p] = "read" /\ pc' = pc /\ ev' = ev /\ freed' = freed /\ taken' = taken
      /\ UNCHANGED <<slotVars, invite>>
  BY DEF ReadSlots, ReadForms, ReadRoles, calendarVars, txVars
<1>2. \A q \in Requests \ {p} : Same(q)
  BY <1>1 DEF ReadSlots, ReadForms, ReadRoles, Same, IInv, TypeOK, RequestsOK
<1>3. freed[p] = {} /\ taken[p] = {} /\ ev[p] = NoEvent
  BY <1>1 DEF IInv, TransactionInv, EventInv, OpenSteps
<1>4. TransactionInv(p)' /\ EventInv(p)' /\ Locked(p)' = {}
  BY <1>1, <1>3 DEF TransactionInv, EventInv, Locked, OpenSteps, DecidedSteps
<1> QED
  BY <1>1, <1>2, <1>4, LocalStep

LEMMA CheckBookingInv ==
  ASSUME NEW p \in Requests, IInv, TypeOK', CheckBooking(p)
  PROVE  IInv'
<1>1. pc[p] = "read" /\ UNCHANGED <<slotVars, invite>> /\ RequestsOK
  BY DEF CheckBooking, calendarVars, IInv, TypeOK
<1>2. CASE Throw(p)
  BY <1>1, <1>2, ThrowInv, LocalStep
<1>3. CASE Finish(p)
  BY <1>1, <1>3, FinishInv, LocalStep
<1>4. ASSUME NEW t, req[p].sel # {}, Goto(p, "find"),
             req' = [req EXCEPT ![p] = [@ EXCEPT !.time = t, !.seen = {}]],
             UNCHANGED <<cand, ev, txVars>>
      PROVE  IInv'
  <2>1. /\ pc'[p] = "find" /\ ev'[p] = ev[p] /\ freed'[p] = freed[p]
        /\ taken'[p] = taken[p]
        /\ \A q \in Requests \ {p} : Same(q)
    BY <1>1, <1>4 DEF Goto, RequestsOK, Same, txVars
  <2>2. freed[p] = {} /\ taken[p] = {} /\ ev[p] = NoEvent
    BY <1>1 DEF IInv, TransactionInv, EventInv, OpenSteps
  <2>3. req'[p].sel = req[p].sel
    <3>1. req'[p] = [req[p] EXCEPT !.time = t, !.seen = {}]
      BY <1>1, <1>4 DEF RequestsOK
    <3> QED BY <1>1, <3>1 DEF RequestsOK, RequestType
  <2>4. TransactionInv(p)' /\ EventInv(p)' /\ Locked(p)' = {}
    BY <1>4, <2>1, <2>2, <2>3 DEF TransactionInv, EventInv, Locked, OpenSteps
  <2> QED
    BY <1>1, <2>1, <2>4, LocalStep
<1> QED
  BY <1>2, <1>3, <1>4 DEF CheckBooking

LEMMA MoveOnInv ==
  ASSUME NEW p \in Requests, IInv, TypeOK',
         FindEvent(p) \/ RemoveEvent(p) \/ ScanCancel(p) \/ ScanBook(p)
           \/ ScanStore(p) \/ ScanStamp(p)
  PROVE  IInv'
<1>1. /\ req' = req /\ freed' = freed /\ taken' = taken
      /\ UNCHANGED <<slotVars, invite>>
  BY DEF FindEvent, RemoveEvent, ScanCancel, ScanBook, ScanStore, ScanStamp,
         calendarVars, txVars
<1>2. \A q \in Requests \ {p} : Same(q)
  BY <1>1 DEF FindEvent, RemoveEvent, ScanCancel, ScanBook, ScanStore, ScanStamp,
              Goto, Same, IInv, TypeOK, RequestsOK
<1>3. TransactionInv(p) /\ EventInv(p) /\ RequestsOK
  BY DEF IInv, TypeOK
<1>4. TransactionInv(p)'
  <2>1. \/ pc[p] \in {"find", "remove", "cancel"} /\ pc'[p] \in {"remove", "cancel", "canceling"}
        \/ pc[p] = "book" /\ pc'[p] = "booking"
        \/ pc[p] \in {"store", "stamp"} /\ pc'[p] \in {"storing", "stamping"}
    BY <1>3 DEF FindEvent, RemoveEvent, ScanCancel, ScanBook, ScanStore,
                ScanStamp, Goto, RequestsOK
  <2> QED
    BY <1>1, <1>3, <2>1 DEF TransactionInv, OpenSteps, DecidedSteps, HeldBy,
                            InTransaction, slotVars
<1>5. EventInv(p)'
  <2>1. CASE FindEvent(p)
    <3>1. /\ pc[p] = "find" /\ ev[p] = NoEvent
          /\ \/ pc'[p] = "cancel" /\ ev'[p] = ev[p]
             \/ pc'[p] = "remove"
      BY <1>3, <2>1 DEF FindEvent, Goto, RequestsOK, EventInv
    <3> QED BY <3>1 DEF EventInv
  <2>2. CASE RemoveEvent(p)
    BY <1>3, <2>2 DEF RemoveEvent, Goto, EventInv, RequestsOK
  <2>3. CASE ScanCancel(p) \/ ScanBook(p) \/ ScanStamp(p)
    BY <1>3, <2>3 DEF ScanCancel, ScanBook, ScanStamp, Goto, EventInv, RequestsOK
  <2>4. CASE ScanStore(p)
    BY <1>1, <1>3, <2>4 DEF ScanStore, Goto, EventInv, RequestsOK
  <2> QED BY <2>1, <2>2, <2>3, <2>4
<1>6. \A q \in Requests \ {p} : Locked(p)' \cap Locked(q) = {}
  BY <1>1 DEF IInv, LocksAreExclusive, Locked
<1> QED
  BY <1>1, <1>2, <1>4, <1>5, <1>6, LocalStep

(* A step of p that changes the tables, but no row that the transaction of
   another request has locked, and that leaves p without a lock. *)
LEMMA TableStep ==
  ASSUME NEW p \in Requests, IInv, TypeOK', invite' = invite,
         \A q \in Requests \ {p} : Same(q),
         TransactionInv(p)', EventInv(p)', Locked(p)' = {},
         \A q \in Requests \ {p} : \A r \in Locked(q) :
           holder'[r] = holder[r] /\ (r \in interviewed <=> r \in interviewed'),
         UnusedRowsAreAbsent', InterviewedRowsAreHeld', EventsBelongToHolder'
  PROVE  IInv'
<1>1. ASSUME NEW q \in Requests PROVE TransactionInv(q)' /\ EventInv(q)'
  BY OtherTransaction, OtherEvent DEF IInv, TypeOK
<1>2. LocksAreExclusive'
  BY DEF IInv, LocksAreExclusive, Locked, Same
<1> QED
  BY <1>1, <1>2 DEF IInv

(* A statement that ran holds no row of another transaction. *)
LEMMA UnlockedRows ==
  ASSUME NEW p \in Requests, Unlocked(p), NEW q \in Requests \ {p},
         NEW r \in Locked(q)
  PROVE  r \notin cand[p]
  BY DEF Unlocked

LEMMA WriteCancelInv ==
  ASSUME NEW p \in Requests, IInv, TypeOK', WriteCancel(p)
  PROVE  IInv'
<1> DEFINE hit == {r \in cand[p] : Cancelable(p, r)}
<1>1. /\ pc[p] = "canceling" /\ Unlocked(p) /\ RequestsOK
      /\ freed[p] = {} /\ taken[p] = {} /\ ev[p] = NoEvent
      /\ req[p].app \in Applicants
  BY DEF WriteCancel, IInv, TypeOK, RequestsOK, TransactionInv, EventInv, OpenSteps
<1>2. hit \subseteq HeldBy(req[p].app) \ interviewed
  BY <1>1 DEF Cancelable, View, HeldBy, RequestsOK
<1>3. CASE InTransaction(p)
  <2>1. /\ freed' = [freed EXCEPT ![p] = hit] /\ pc' = [pc EXCEPT ![p] = "book"]
        /\ UNCHANGED <<slotVars, invite, req, ev, taken>>
    BY <1>3 DEF WriteCancel, Goto, slotVars, calendarVars
  <2> HIDE DEF hit
  <2>2. /\ pc'[p] = "book" /\ freed'[p] = hit /\ taken'[p] = {} /\ ev'[p] = NoEvent
        /\ \A q \in Requests \ {p} : Same(q)
    BY <1>1, <2>1 DEF RequestsOK, Same
  <2>3. req[p].sel # {}
    BY <1>1, <1>3 DEF IInv, TransactionInv, DecidedSteps
  <2>4. TransactionInv(p)' /\ EventInv(p)'
    BY <1>2, <1>3, <2>1, <2>2, <2>3
       DEF TransactionInv, EventInv, OpenSteps, HeldBy, InTransaction, slotVars
  <2>5. \A q \in Requests \ {p} : Locked(p)' \cap Locked(q) = {}
    BY <1>1, <2>2, UnlockedRows DEF Locked, hit
  <2> QED
    BY <2>1, <2>2, <2>4, <2>5, LocalStep
<1>4. CASE ~InTransaction(p)
  <2>1. /\ holder' = [r \in Rows |-> IF r \in hit THEN NoOne ELSE holder[r]]
        /\ eventOf' = ClearEvents(hit)
        /\ Finish(p)
        /\ UNCHANGED <<interviewed, added, invite>>
    BY <1>4 DEF WriteCancel, calendarVars
  <2>2. \A r \in hit : holder[r] \in Applicants /\ r \notin interviewed /\ r \in cand[p]
    BY <1>1, <1>2 DEF HeldBy
  <2> HIDE DEF hit
  <2>3. \A q \in Requests \ {p} : \A r \in Locked(q) : r \in Rows /\ holder'[r] = holder[r]
    BY <1>1, <2>1, <2>2, UnlockedRows DEF Locked, RequestsOK
  <2>4. UnusedRowsAreAbsent' /\ InterviewedRowsAreHeld' /\ EventsBelongToHolder'
    BY <2>1, <2>2, SentinelsAssumption
       DEF IInv, TypeOK, StoresOK, UnusedRowsAreAbsent, InterviewedRowsAreHeld,
           EventsBelongToHolder, ClearEvents
  <2> QED
    BY <1>1, <2>1, <2>3, <2>4, FinishInv, TableStep
<1> QED
  BY <1>3, <1>4

LEMMA WriteBookInv ==
  ASSUME NEW p \in Requests, IInv, TypeOK', WriteBook(p)
  PROVE  IInv'
<1> DEFINE hit == {r \in cand[p] : Bookable(p, r)}
<1>1. /\ pc[p] = "booking" /\ Unlocked(p) /\ RequestsOK
      /\ TransactionInv(p) /\ taken[p] = {} /\ ev[p] = NoEvent
      /\ InTransaction(p) /\ req[p].sel # {}
      /\ UNCHANGED <<slotVars, invite>>
  BY DEF WriteBook, IInv, TypeOK, TransactionInv, EventInv, OpenSteps,
         DecidedSteps, calendarVars
<1>2. CASE Throw(p)
  BY <1>1, <1>2, ThrowInv, LocalStep
<1>3. CASE /\ Cardinality(hit) = RoleIdsLength(req[p].sel)
           /\ taken' = [taken EXCEPT ![p] = hit]
           /\ Goto(p, IF CalendarOn THEN "create" ELSE "commit")
           /\ UNCHANGED <<req, ev, freed>>
  <2>1. hit \subseteq HeldBy(NoOne) \cup freed[p]
    BY <1>1 DEF Bookable, View, HeldBy, RequestsOK
  <2>2. /\ \A r \in hit : TimeOf[r] = req[p].time /\ RoleOf[r] \in RoleIds(req[p].sel)
        /\ hit \subseteq cand[p]
    BY DEF Bookable
  <2> HIDE DEF hit
  <2>3. /\ pc'[p] \in {"create", "commit"} /\ taken'[p] = hit
        /\ freed'[p] = freed[p] /\ ev'[p] = NoEvent /\ req'[p] = req[p]
        /\ \A q \in Requests \ {p} : Same(q)
    BY <1>1, <1>3 DEF Goto, RequestsOK, Same
  <2>4. TransactionInv(p)'
    BY <1>1, <1>3, <2>1, <2>2, <2>3
       DEF TransactionInv, OpenSteps, HeldBy, InTransaction, slotVars
  <2>5. EventInv(p)'
    BY <2>3 DEF EventInv
  <2>6. \A q \in Requests \ {p} : Locked(p)' \cap Locked(q) = {}
    BY <1>1, <2>2, <2>3, UnlockedRows DEF Locked, IInv, LocksAreExclusive
  <2> QED
    BY <1>1, <2>3, <2>4, <2>5, <2>6, LocalStep
<1> QED
  BY <1>2, <1>3 DEF WriteBook

LEMMA CreateEventInv ==
  ASSUME NEW p \in Requests, IInv, TypeOK', CreateEvent(p)
  PROVE  IInv'
<1>1. /\ pc[p] = "create" /\ RequestsOK /\ TransactionInv(p)
      /\ UNCHANGED slotVars
  BY DEF CreateEvent, IInv, TypeOK
<1>2. CASE Throw(p) /\ UNCHANGED calendarVars
  BY <1>1, <1>2, ThrowInv, LocalStep DEF calendarVars
<1>3. ASSUME NEW e \in FreshEvents,
             invite' = [invite EXCEPT ![e] = [app |-> req[p].app,
                                              time |-> req[p].time]],
             ev' = [ev EXCEPT ![p] = e],
             Goto(p, "commit"),
             UNCHANGED <<req, cand, txVars>>
      PROVE  IInv'
  <2>1. /\ e \in Events /\ \A r \in Rows : eventOf[r] # e
        /\ \A q \in Requests : ev[q] # e
    BY DEF FreshEvents
  <2>2. /\ pc'[p] = "commit" /\ ev'[p] = e /\ req'[p] = req[p]
        /\ freed' = freed /\ taken' = taken
        /\ \A q \in Requests \ {p} : Same(q)
    BY <1>1, <1>3 DEF Goto, RequestsOK, Same, txVars
  <2>3. /\ invite'[e].app = req[p].app
        /\ \A x \in Events \ {e} : invite'[x] = invite[x]
    BY <1>3, <2>1 DEF IInv, TypeOK, StoresOK
  <2>4. TransactionInv(p)'
    BY <1>1, <2>2 DEF TransactionInv, OpenSteps, DecidedSteps, HeldBy,
                      InTransaction, slotVars
  <2>5. EventInv(p)'
    BY <2>2, <2>3 DEF EventInv
  <2>6. ASSUME NEW q \in Requests \ {p} PROVE TransactionInv(q)' /\ EventInv(q)'
    <3>1. ev[q] # NoEvent => invite'[ev[q]] = invite[ev[q]]
      BY <1>1, <2>1, <2>3 DEF RequestsOK
    <3> QED
      BY <1>1, <2>2, <3>1, OtherTransaction, OtherEvent DEF IInv, slotVars
  <2>7. EventsBelongToHolder'
    BY <1>1, <2>1, <2>3 DEF EventsBelongToHolder, IInv, TypeOK, StoresOK, slotVars
  <2>8. LocksAreExclusive' /\ UnusedRowsAreAbsent' /\ InterviewedRowsAreHeld'
    BY <1>1, <2>2 DEF IInv, LocksAreExclusive, Locked, UnusedRowsAreAbsent,
                      InterviewedRowsAreHeld, slotVars
  <2> QED
    BY <2>4, <2>5, <2>6, <2>7, <2>8 DEF IInv
<1> QED
  BY <1>2, <1>3 DEF CreateEvent

LEMMA CommitInv ==
  ASSUME NEW p \in Requests, IInv, TypeOK', Commit(p)
  PROVE  IInv'
<1>1. /\ pc[p] = "commit" /\ RequestsOK /\ TransactionInv(p) /\ EventInv(p)
      /\ req[p].app \in Applicants
      /\ holder' = [r \in Rows |-> View(p, r)]
      /\ eventOf' = ClearEvents(freed[p])
      /\ UNCHANGED <<interviewed, added, invite>>
  BY DEF Commit, IInv, TypeOK, RequestsOK, calendarVars
<1>2. \A r \in Rows \ Locked(p) : holder'[r] = holder[r]
  BY <1>1 DEF View, Locked
<1>3. \A r \in freed[p] : holder[r] = req[p].app /\ r \notin interviewed
  BY <1>1 DEF TransactionInv, HeldBy
<1>4. \A r \in taken[p] \ freed[p] : holder[r] = NoOne
  BY <1>1 DEF TransactionInv, HeldBy
<1>5. UnusedRowsAreAbsent' /\ InterviewedRowsAreHeld' /\ EventsBelongToHolder'
  BY <1>1, <1>2, <1>3, <1>4, SentinelsAssumption
     DEF IInv, TypeOK, StoresOK, UnusedRowsAreAbsent, InterviewedRowsAreHeld,
         EventsBelongToHolder, ClearEvents, Locked
<1>6. \A q \in Requests \ {p} : \A r \in Locked(q) : holder'[r] = holder[r]
  BY <1>1, <1>2 DEF IInv, LocksAreExclusive, Locked, RequestsOK
<1>7. CASE Finish(p)
  BY <1>1, <1>5, <1>6, <1>7, FinishInv, TableStep
<1>8. CASE /\ ev[p] # NoEvent /\ Goto(p, "store")
           /\ freed' = [freed EXCEPT ![p] = {}]
           /\ taken' = [taken EXCEPT ![p] = {}]
           /\ UNCHANGED <<req, cand, ev>>
  <2>1. /\ pc'[p] = "store" /\ freed'[p] = {} /\ taken'[p] = {}
        /\ ev'[p] = ev[p] /\ req'[p] = req[p]
        /\ \A q \in Requests \ {p} : Same(q)
    BY <1>1, <1>8 DEF Goto, RequestsOK, Same
  <2>2. TransactionInv(p)' /\ EventInv(p)' /\ Locked(p)' = {}
    BY <1>1, <1>8, <2>1
       DEF TransactionInv, EventInv, Locked, OpenSteps, DecidedSteps
  <2> QED
    BY <1>1, <1>5, <1>6, <2>1, <2>2, TableStep
<1> QED
  BY <1>7, <1>8 DEF Commit

LEMMA WriteStoreInv ==
  ASSUME NEW p \in Requests, IInv, TypeOK', WriteStore(p)
  PROVE  IInv'
<1>1. /\ pc[p] = "storing" /\ RequestsOK /\ EventInv(p) /\ ev[p] # NoEvent
      /\ freed[p] = {} /\ taken[p] = {} /\ req[p].app \in Applicants
      /\ Finish(p)
      /\ UNCHANGED <<holder, interviewed, added, invite>>
  BY DEF WriteStore, IInv, TypeOK, RequestsOK, TransactionInv, EventInv,
         OpenSteps, calendarVars
<1>2. invite[ev[p]].app = req[p].app
  BY <1>1 DEF EventInv
<1>3. \A r \in Rows : \/ eventOf'[r] = eventOf[r]
                      \/ holder[r] = req[p].app /\ eventOf'[r] = ev[p]
  BY <1>1 DEF WriteStore, Owned, View
<1>4. EventsBelongToHolder'
  BY <1>1, <1>2, <1>3 DEF IInv, EventsBelongToHolder
<1>5. UnusedRowsAreAbsent' /\ InterviewedRowsAreHeld'
  BY <1>1 DEF IInv, UnusedRowsAreAbsent, InterviewedRowsAreHeld
<1> QED
  BY <1>1, <1>4, <1>5, FinishInv, TableStep

LEMMA WriteStampInv ==
  ASSUME NEW p \in Requests, IInv, TypeOK', WriteStamp(p)
  PROVE  IInv'
<1> DEFINE hit == {r \in cand[p] : Owned(p, r)}
<1>1. /\ pc[p] = "stamping" /\ Unlocked(p) /\ RequestsOK /\ Finish(p)
      /\ freed[p] = {} /\ taken[p] = {} /\ req[p].app \in Applicants
      /\ UNCHANGED <<holder, eventOf, added, invite>>
      /\ interviewed' = interviewed \cup hit \/ interviewed' = interviewed \ hit
  BY DEF WriteStamp, IInv, TypeOK, RequestsOK, TransactionInv, OpenSteps, calendarVars
<1>2. \A r \in hit : holder[r] \in Applicants /\ r \in cand[p]
  BY <1>1 DEF Owned, View
<1> HIDE DEF hit
<1>3. InterviewedRowsAreHeld'
  BY <1>1, <1>2 DEF IInv, InterviewedRowsAreHeld
<1>4. UnusedRowsAreAbsent' /\ EventsBelongToHolder'
  BY <1>1 DEF IInv, UnusedRowsAreAbsent, EventsBelongToHolder
<1>5. \A q \in Requests \ {p} : \A r \in Locked(q) : r \in interviewed <=> r \in interviewed'
  BY <1>1, <1>2, UnlockedRows
<1> QED
  BY <1>1, <1>3, <1>4, <1>5, FinishInv, TableStep

LEMMA DeleteRowsInv ==
  ASSUME NEW p \in Requests, IInv, TypeOK', DeleteRows(p)
  PROVE  IInv'
<1>1. /\ Unlocked(p) /\ RequestsOK /\ Finish(p)
      /\ holder' = [r \in Rows |-> IF r \in cand[p] THEN Absent ELSE holder[r]]
      /\ eventOf' = ClearEvents(cand[p])
      /\ interviewed' = interviewed \ cand[p]
      /\ UNCHANGED <<added, invite>>
  BY DEF DeleteRows, IInv, TypeOK, calendarVars
<1>2. UnusedRowsAreAbsent' /\ InterviewedRowsAreHeld' /\ EventsBelongToHolder'
  BY <1>1 DEF IInv, TypeOK, StoresOK, UnusedRowsAreAbsent, InterviewedRowsAreHeld,
              EventsBelongToHolder, ClearEvents
<1>3. \A q \in Requests \ {p} : \A r \in Locked(q) :
        holder'[r] = holder[r] /\ (r \in interviewed <=> r \in interviewed')
  BY <1>1, UnlockedRows DEF Locked, RequestsOK
<1> QED
  BY <1>1, <1>2, <1>3, FinishInv, TableStep

LEMMA AddSlotInv ==
  ASSUME NEW S \in SUBSET Rows, IInv, TypeOK', AddSlot(S)
  PROVE  IInv'
<1>1. /\ holder' = [r \in Rows |-> IF r \in S THEN NoOne ELSE holder[r]]
      /\ added' = added \cup S
      /\ \A r \in S : holder[r] = Absent
      /\ UNCHANGED <<interviewed, eventOf, invite>>
      /\ \A q \in Requests : Same(q)
  BY DEF AddSlot, IInv, UnusedRowsAreAbsent, Same, calendarVars, txVars
<1>2. UnusedRowsAreAbsent' /\ InterviewedRowsAreHeld' /\ EventsBelongToHolder'
  BY <1>1, SentinelsAssumption
     DEF IInv, TypeOK, StoresOK, UnusedRowsAreAbsent, InterviewedRowsAreHeld,
         EventsBelongToHolder
<1>3. LocksAreExclusive'
  BY <1>1 DEF IInv, LocksAreExclusive, Locked, Same
<1>4. ASSUME NEW q \in Requests PROVE TransactionInv(q)' /\ EventInv(q)'
  <2>1. TransactionInv(q) /\ RequestsOK
    BY DEF IInv, TypeOK
  <2>2. \A r \in Locked(q) : r \in Rows /\ holder[r] # Absent
    <3>1. freed[q] # {} => req[q].app \in Applicants
      BY <2>1 DEF TransactionInv, RequestsOK, OpenSteps
    <3> QED
      BY <2>1, <3>1, SentinelsAssumption
         DEF TransactionInv, Locked, HeldBy
  <2>3. \A r \in Locked(q) : holder'[r] = holder[r]
    BY <1>1, <2>2
  <2> QED
    BY <1>1, <2>1, <2>3, OtherTransaction, OtherEvent DEF IInv
<1> QED
  BY <1>2, <1>3, <1>4 DEF IInv

LEMMA StepInv ==
  ASSUME NEW p \in Requests, IInv, TypeOK', Step(p)
  PROVE  IInv'
  BY QuietStepInv, CheckBookingInv, MoveOnInv, WriteCancelInv, WriteBookInv,
     CreateEventInv, CommitInv, WriteStoreInv, WriteStampInv, DeleteRowsInv
     DEF Step

LEMMA Inductive == IInv /\ [Next]_vars => IInv'
<1> SUFFICES ASSUME IInv, [Next]_vars PROVE IInv'
  OBVIOUS
<1>0. TypeOK'
  BY NextType DEF IInv
<1>1. ASSUME NEW p \in Requests, Crash(p) PROVE IInv'
  <2>1. RequestsOK
    BY DEF IInv, TypeOK
  <2> QED
    BY <1>0, <1>1, <2>1, FinishInv, LocalStep DEF Crash, calendarVars
<1>2. ASSUME UNCHANGED <<slotVars, invite, pc, req, ev, txVars>> PROVE IInv'
  BY <1>0, <1>2
     DEF IInv, UnusedRowsAreAbsent, InterviewedRowsAreHeld, EventsBelongToHolder,
         LocksAreExclusive, Locked, TransactionInv, EventInv, HeldBy,
         InTransaction, slotVars, txVars
<1>3. CASE Tick
  BY <1>2, <1>3 DEF Tick, calendarVars
<1>4. CASE UNCHANGED vars
  BY <1>2, <1>4 DEF vars, calendarVars
<1> QED
  BY <1>0, <1>1, <1>3, <1>4, ArriveInv, StepInv, AddSlotInv DEF Next

LEMMA Initial == Init => IInv
<1> SUFFICES ASSUME Init PROVE IInv
  OBVIOUS
<1>1. TypeOK
  BY InitType
<1>2. \A p \in Requests : TransactionInv(p) /\ EventInv(p)
  BY DEF Init, TransactionInv, EventInv, OpenSteps, DecidedSteps
<1> QED
  BY <1>1, <1>2, ConstantsAssumption
     DEF Init, IInv, UnusedRowsAreAbsent, InterviewedRowsAreHeld,
         EventsBelongToHolder, LocksAreExclusive, Locked

(* No interleaving of bookings, cancellations, stamps, removals and crashes
   takes an interviewed row from the applicant (cancelSlot's interviewAt IS
   NULL, re-checked under the row lock). *)
THEOREM InterviewsAreKept == Spec => []InterviewedRowsAreHeld
<1>1. IInv => InterviewedRowsAreHeld
  BY DEF IInv
<1> QED
  BY <1>1, Initial, Inductive, PTL DEF Spec

(* The event id that bookSlot stores after its commit, in a separate UPDATE,
   never ends up on a row of somebody else, nor on a free one. *)
THEOREM EventsAreTheHolders == Spec => []EventsBelongToHolder
<1>1. IInv => EventsBelongToHolder
  BY DEF IInv
<1> QED
  BY <1>1, Initial, Inductive, PTL DEF Spec

-----------------------------------------------------------------------------
(* The refinement. *)

(* An UPDATE that had to affect at least one row did. *)
LEMMA SomethingTaken ==
  ASSUME NEW p \in Requests, RequestsOK, req[p].sel # {},
         Cardinality(taken[p]) = RoleIdsLength(req[p].sel)
  PROVE  taken[p] # {}
<1>1. req[p].sel \subseteq Roles /\ MandatoryInterviewRoles \subseteq Roles
  BY ConstantsAssumption DEF RequestsOK, RequestType, MandatoryInterviewRoles
<1>2. IsFiniteSet(req[p].sel) /\ IsFiniteSet(MandatoryInterviewRoles)
  BY <1>1, FinitenessAssumption, FS_Subset
<1>3. /\ Cardinality(req[p].sel) \in Nat /\ Cardinality(MandatoryInterviewRoles) \in Nat
      /\ Cardinality(req[p].sel) # 0
  BY <1>2, FS_CardinalityType, FS_EmptySet
<1>4. Cardinality(taken[p]) # 0
  BY <1>3 DEF RoleIdsLength
<1> QED
  BY <1>4, FS_EmptySet

LEMMA CommitMoves ==
  ASSUME NEW p \in Requests, IInv, Commit(p)
  PROVE  Allocation!Move(req[p].app, freed[p], taken[p])
<1>1. /\ pc[p] = "commit" /\ RequestsOK /\ TransactionInv(p)
      /\ req[p].app \in Applicants
      /\ holder' = [r \in Rows |-> View(p, r)]
      /\ interviewed' = interviewed
  BY DEF Commit, IInv, TypeOK, RequestsOK
<1>2. taken[p] # {}
  BY <1>1, SomethingTaken DEF TransactionInv, DecidedSteps, OpenSteps
<1>3. /\ freed[p] \subseteq Allocation!HeldBy(req[p].app) \ interviewed
      /\ taken[p] \subseteq Allocation!Free \cup freed[p]
      /\ \A r1, r2 \in taken[p] : TimeOf[r1] = TimeOf[r2]
  BY <1>1 DEF TransactionInv, HeldBy, Allocation!HeldBy, Allocation!Free
<1> QED
  BY <1>1, <1>2, <1>3 DEF Allocation!Move, View

LEMMA CancelReleases ==
  ASSUME NEW p \in Requests, IInv, WriteCancel(p)
  PROVE  \/ \E S \in SUBSET Rows : Allocation!Release(req[p].app, S)
         \/ UNCHANGED <<holder, interviewed>>
<1> DEFINE hit == {r \in cand[p] : Cancelable(p, r)}
<1>1. CASE InTransaction(p)
  BY <1>1 DEF WriteCancel
<1>2. CASE ~InTransaction(p)
  <2>1. freed[p] = {} /\ taken[p] = {}
    BY DEF WriteCancel, IInv, TransactionInv, OpenSteps
  <2>2. hit \subseteq HeldBy(req[p].app) \ interviewed
    BY <2>1 DEF Cancelable, View, HeldBy, IInv, TypeOK, RequestsOK
  <2>3. /\ holder' = [r \in Rows |-> IF r \in hit THEN NoOne ELSE holder[r]]
        /\ interviewed' = interviewed
    BY <1>2 DEF WriteCancel
  <2> HIDE DEF hit
  <2>4. Allocation!Release(req[p].app, hit)
    BY <2>2, <2>3 DEF Allocation!Release, HeldBy, Allocation!HeldBy
  <2> QED
    BY <2>2, <2>4 DEF HeldBy
<1> QED
  BY <1>1, <1>2

LEMMA WriteStampStamps ==
  ASSUME NEW p \in Requests, IInv, WriteStamp(p)
  PROVE  \E S \in SUBSET Rows :
           Allocation!Stamp(req[p].app, S) \/ Allocation!Unstamp(req[p].app, S)
<1> DEFINE hit == {r \in cand[p] : Owned(p, r)}
<1>1. freed[p] = {} /\ taken[p] = {}
  BY DEF WriteStamp, IInv, TransactionInv, OpenSteps
<1>2. hit \subseteq HeldBy(req[p].app)
  BY <1>1 DEF Owned, View, HeldBy, IInv, TypeOK, RequestsOK
<1>3. /\ interviewed' = interviewed \cup hit \/ interviewed' = interviewed \ hit
      /\ holder' = holder
  BY DEF WriteStamp
<1> HIDE DEF hit
<1> QED
  BY <1>2, <1>3 DEF Allocation!Stamp, Allocation!Unstamp, HeldBy, Allocation!HeldBy

LEMMA StepAllocates ==
  ASSUME NEW p \in Requests, IInv, Step(p)
  PROVE  Allocation!Next \/ UNCHANGED Allocation!vars
<1> USE DEF Allocation!vars
<1>0. pc[p] \notin {"idle", "delete"} => req[p].app \in Applicants
  BY DEF IInv, TypeOK, RequestsOK
<1>1. CASE \/ ReadSlots(p) \/ ReadForms(p) \/ ReadRoles(p) \/ CheckBooking(p)
           \/ FindEvent(p) \/ RemoveEvent(p) \/ ScanCancel(p) \/ ScanBook(p)
           \/ WriteBook(p) \/ CreateEvent(p) \/ ScanStore(p) \/ WriteStore(p)
           \/ ScanStamp(p)
  BY <1>1 DEF ReadSlots, ReadForms, ReadRoles, CheckBooking, FindEvent,
              RemoveEvent, ScanCancel, ScanBook, WriteBook, CreateEvent,
              ScanStore, WriteStore, ScanStamp, slotVars
<1>2. CASE WriteCancel(p)
  <2>1. req[p].app \in Applicants
    BY <1>0, <1>2 DEF WriteCancel
  <2> QED
    BY <1>2, <2>1, CancelReleases DEF Allocation!Next
<1>3. CASE Commit(p)
  <2>1. /\ req[p].app \in Applicants
        /\ freed[p] \in SUBSET Rows /\ taken[p] \in SUBSET Rows
    BY <1>0, <1>3 DEF Commit, IInv, TypeOK, RequestsOK
  <2> QED
    BY <1>3, <2>1, CommitMoves DEF Allocation!Next
<1>4. CASE WriteStamp(p)
  <2>1. req[p].app \in Applicants
    BY <1>0, <1>4 DEF WriteStamp
  <2> QED
    BY <1>4, <2>1, WriteStampStamps DEF Allocation!Next
<1>5. CASE DeleteRows(p)
  <2>1. Allocation!Withdraw(cand[p])
    BY <1>5 DEF DeleteRows, Allocation!Withdraw
  <2>2. cand[p] \in SUBSET Rows
    BY DEF IInv, TypeOK, RequestsOK
  <2> QED
    BY <2>1, <2>2 DEF Allocation!Next
<1> QED
  BY <1>1, <1>2, <1>3, <1>4, <1>5 DEF Step

LEMMA NextAllocates ==
  IInv /\ [Next]_vars => [Allocation!Next]_(Allocation!vars)
<1> SUFFICES ASSUME IInv, [Next]_vars
             PROVE  Allocation!Next \/ UNCHANGED Allocation!vars
  OBVIOUS
<1>1. ASSUME NEW p \in Requests, Arrive(p) PROVE UNCHANGED Allocation!vars
  BY <1>1 DEF Arrive, BookSlot, CancelSlot, SelectRoles, UpdateFormAnswers,
              StampSlots, RemoveSlot, slotVars, Allocation!vars
<1>2. ASSUME NEW S \in SUBSET Rows, AddSlot(S) PROVE Allocation!Publish(S)
  BY <1>2 DEF AddSlot, IInv, UnusedRowsAreAbsent, Allocation!Publish,
              Allocation!HeldBy
<1>3. CASE Tick \/ (\E p \in Requests : Crash(p)) \/ UNCHANGED vars
  BY <1>3 DEF Tick, Crash, vars, slotVars, Allocation!vars
<1>4. ASSUME NEW S \in SUBSET Rows, AddSlot(S) PROVE Allocation!Next
  BY <1>2, <1>4 DEF Allocation!Next
<1> QED
  BY <1>1, <1>3, <1>4, StepAllocates DEF Next

(* The slot table behaves as SlotAllocation: rows change hands only by
   committed bookings (all rows at one time, from the free ones or the
   applicant's own), by cancellations of what was not interviewed, and by the
   moderators, for any number of rows, applicants and concurrent requests. *)
THEOREM Allocates == Spec => AllocationSpec
<1>1. Init => Allocation!Init
  BY DEF Init, Allocation!Init
<1> QED
  BY <1>1, Initial, Inductive, NextAllocates, PTL
     DEF Spec, AllocationSpec, Allocation!Spec

-----------------------------------------------------------------------------
(* All the roles or none. The code only counts the rows of the UPDATE; that
   the count implies one row per role needs rows to be unique. *)

LEMMA CountSuffices ==
  ASSUME UniqueRows, NEW sel \in SUBSET Roles, NEW t, NEW S \in SUBSET Rows,
         \A r \in S : TimeOf[r] = t /\ RoleOf[r] \in RoleIds(sel),
         Cardinality(S) = RoleIdsLength(sel)
  PROVE  RoleIds(sel) = {RoleOf[r] : r \in S}
<1> DEFINE f == [r \in S |-> RoleOf[r]]
<1>1. f \in Injection(S, RoleIds(sel))
  BY DEF Injection, IsInjective, UniqueRows
<1>2. IsFiniteSet(sel) /\ IsFiniteSet(MandatoryInterviewRoles)
  BY ConstantsAssumption, FinitenessAssumption, FS_Subset DEF MandatoryInterviewRoles
<1>3. /\ IsFiniteSet(RoleIds(sel))
      /\ Cardinality(RoleIds(sel)) <= RoleIdsLength(sel)
  <2>1. IsFiniteSet(MandatoryInterviewRoles \cap sel)
    BY <1>2, FS_Subset
  <2>2. /\ IsFiniteSet(RoleIds(sel))
        /\ Cardinality(RoleIds(sel)) =
             Cardinality(MandatoryInterviewRoles) + Cardinality(sel)
               - Cardinality(MandatoryInterviewRoles \cap sel)
    BY <1>2, FS_Union DEF RoleIds
  <2>3. /\ Cardinality(MandatoryInterviewRoles) \in Nat /\ Cardinality(sel) \in Nat
        /\ Cardinality(MandatoryInterviewRoles \cap sel) \in Nat
    BY <1>2, <2>1, FS_CardinalityType
  <2> QED
    BY <2>2, <2>3 DEF RoleIdsLength
<1>4. Cardinality(S) <= Cardinality(RoleIds(sel))
  BY <1>1, <1>3, FS_Injection
<1>5. Cardinality(S) = Cardinality(RoleIds(sel))
  <2>1. Cardinality(RoleIds(sel)) \in Nat /\ RoleIdsLength(sel) \in Nat
    BY <1>2, <1>3, FS_CardinalityType DEF RoleIdsLength
  <2> QED
    BY <1>3, <1>4, <2>1
<1>6. f \in Surjection(S, RoleIds(sel))
  BY <1>1, <1>3, <1>5, FS_Injection
<1> QED
  BY <1>6 DEF Surjection

(* A step that gives an applicant rows is the commit of her own booking. *)
LEMMA OnlyCommitsGive ==
  ASSUME IInv, [Next]_vars, NEW a \in Applicants, NEW r \in Rows,
         holder'[r] = a, holder[r] # a
  PROVE  \E p \in Requests : Commit(p) /\ req[p].app = a
<1> USE SentinelsAssumption
<1>1. ASSUME NEW S \in SUBSET Rows, AddSlot(S) PROVE FALSE
  BY <1>1 DEF AddSlot
<1>2. ASSUME NEW p \in Requests, Arrive(p) \/ Crash(p) PROVE FALSE
  BY <1>2 DEF Arrive, BookSlot, CancelSlot, SelectRoles, UpdateFormAnswers,
              StampSlots, RemoveSlot, Crash, slotVars
<1>3. CASE Tick \/ UNCHANGED vars
  BY <1>3 DEF Tick, vars, slotVars
<1>4. ASSUME NEW p \in Requests, Step(p), ~Commit(p) PROVE FALSE
  <2>1. CASE WriteCancel(p)
    BY <2>1 DEF WriteCancel
  <2>2. CASE DeleteRows(p)
    BY <2>2 DEF DeleteRows
  <2>3. CASE holder' = holder
    BY <2>3
  <2> QED
    BY <1>4, <2>1, <2>2, <2>3
       DEF Step, ReadSlots, ReadForms, ReadRoles, CheckBooking, FindEvent,
           RemoveEvent, ScanCancel, ScanBook, WriteBook, CreateEvent, ScanStore,
           WriteStore, ScanStamp, WriteStamp, slotVars
<1>5. ASSUME NEW p \in Requests, Commit(p) PROVE req[p].app = a
  BY <1>5 DEF Commit, View
<1> QED
  BY <1>1, <1>2, <1>3, <1>4, <1>5 DEF Next

(* Where each role has one row per time, every committed booking leaves the
   applicant with a row of every role her request had read, at one time. *)
THEOREM NoPartialBooking == UniqueRows => (Spec => BookingsAreComplete)
<1> SUFFICES ASSUME UniqueRows PROVE Spec => BookingsAreComplete
  OBVIOUS
<1> DEFINE Gained(a) == {r \in Rows : holder'[r] = a /\ holder[r] # a}
           Complete(p, a) ==
             /\ req[p].app = a
             /\ RoleIds(req[p].sel) \subseteq
                  {RoleOf[r] : r \in {x \in Rows : /\ holder'[x] = a
                                                 /\ TimeOf[x] = req[p].time}}
<1>1. ASSUME IInv, [Next]_vars, NEW a \in Applicants, Gained(a) # {}
      PROVE  \E p \in Requests : Complete(p, a)
  <2>1. PICK p \in Requests : Commit(p) /\ req[p].app = a
    BY <1>1, OnlyCommitsGive
  <2>2. /\ holder' = [r \in Rows |-> View(p, r)]
        /\ TransactionInv(p) /\ pc[p] = "commit"
        /\ taken[p] \in SUBSET Rows /\ req[p].sel \in SUBSET Roles
    BY <1>1, <2>1 DEF Commit, IInv, TypeOK, RequestsOK, RequestType
  <2>3. RoleIds(req[p].sel) = {RoleOf[r] : r \in taken[p]}
    <3>1. /\ \A r \in taken[p] : TimeOf[r] = req[p].time
                                 /\ RoleOf[r] \in RoleIds(req[p].sel)
          /\ Cardinality(taken[p]) = RoleIdsLength(req[p].sel)
      BY <2>2 DEF TransactionInv
    <3>2. PICK S, sel, t : S = taken[p] /\ sel = req[p].sel /\ t = req[p].time
      OBVIOUS
    <3>3. /\ S \in SUBSET Rows /\ sel \in SUBSET Roles
          /\ \A r \in S : TimeOf[r] = t /\ RoleOf[r] \in RoleIds(sel)
          /\ Cardinality(S) = RoleIdsLength(sel)
      BY <2>2, <3>1, <3>2
    <3>4. RoleIds(sel) = {RoleOf[r] : r \in S}
      BY <3>3, CountSuffices
    <3> QED
      BY <3>2, <3>4
  <2>4. \A r \in taken[p] : r \in Rows /\ holder'[r] = a /\ TimeOf[r] = req[p].time
    BY <2>1, <2>2 DEF View, TransactionInv
  <2> QED
    BY <2>1, <2>3, <2>4
<1>2. ASSUME IInv, [Next]_vars
      PROVE  [\A a \in Applicants : Gained(a) # {} =>
                \E p \in Requests : Complete(p, a)]_vars
  BY <1>1, <1>2
<1> QED
  BY <1>2, Initial, Inductive, PTL DEF Spec, BookingsAreComplete

-----------------------------------------------------------------------------
(* Row locks. Requests never wait for each other in a circle, however many of
   them there are. Only a booking holds locks while it waits, and the rows it
   waits for were free when it scanned them, after it had freed its own: so it
   can only wait for rows that were taken since, by transactions that wait for
   nothing any more, or that were taken, committed and are being cancelled
   again by a later transaction. *)

Waiting == {"canceling", "booking", "storing", "stamping", "delete"}

(* Nothing of q changes: its locks, the rows it waits for, what it has read. *)
Still(q) == Same(q) /\ cand'[q] = cand[q]

(* A scan for bookable rows sees none that another transaction has freed and
   not committed: the applicant of that transaction still holds them. *)
LEMMA ScanAvoidsFreed ==
  ASSUME NEW p \in Requests, IInv, ScanBook(p), NEW q \in Requests \ {p}
  PROVE  cand'[p] \cap freed[q] = {}
<1> SUFFICES ASSUME NEW r \in cand'[p] \cap freed[q] PROVE FALSE
  OBVIOUS
<1>1. r \in Rows /\ View(p, r) = NoOne
  BY DEF ScanBook, Bookable, IInv, TypeOK, RequestsOK
<1>2. holder[r] = req[q].app /\ req[q].app \in Applicants
  BY DEF IInv, TypeOK, RequestsOK, TransactionInv, HeldBy, OpenSteps
<1>3. r \notin Locked(p)
  BY DEF IInv, LocksAreExclusive, Locked
<1> QED
  BY <1>1, <1>2, <1>3, SentinelsAssumption DEF View, Locked

(* Only a scan begins to wait as a booking. *)
LEMMA OnlyScansWait ==
  ASSUME NEW p \in Requests, IInv, Arrive(p) \/ Step(p) \/ Crash(p),
         pc'[p] = "booking"
  PROVE  ScanBook(p)
<1>0. pc \in [Requests -> Steps]
  BY DEF IInv, TypeOK, RequestsOK
<1>1. ~Finish(p) /\ ~Throw(p)
  BY <1>0 DEF Finish, Throw, Goto
<1>2. \A step : Goto(p, step) => step = "booking"
  BY <1>0 DEF Goto
<1>3. ~Arrive(p)
  BY <1>2 DEF Arrive, BookSlot, CancelSlot, SelectRoles, UpdateFormAnswers,
              StampSlots, RemoveSlot, Begin
<1>4. ~Crash(p)
  BY <1>1 DEF Crash
<1>5. ~(ReadSlots(p) \/ ReadForms(p) \/ ReadRoles(p) \/ CheckBooking(p))
  BY <1>1, <1>2 DEF ReadSlots, ReadForms, ReadRoles, CheckBooking
<1>6. ~(FindEvent(p) \/ RemoveEvent(p) \/ ScanCancel(p) \/ WriteCancel(p))
  BY <1>1, <1>2 DEF FindEvent, RemoveEvent, ScanCancel, WriteCancel
<1>7. ~WriteBook(p)
  BY <1>1, <1>2 DEF WriteBook
<1>8. ~(CreateEvent(p) \/ Commit(p))
  BY <1>1, <1>2 DEF CreateEvent, Commit
<1>9. ~(ScanStore(p) \/ WriteStore(p) \/ ScanStamp(p) \/ WriteStamp(p)
          \/ DeleteRows(p))
  BY <1>1, <1>2 DEF ScanStore, WriteStore, ScanStamp, WriteStamp, DeleteRows
<1> QED
  BY <1>3, <1>4, <1>5, <1>6, <1>7, <1>8, <1>9 DEF Step

(* A step of one request leaves the others' locks and scans alone. *)
LEMMA OthersStill ==
  ASSUME NEW p \in Requests, IInv, Arrive(p) \/ Step(p) \/ Crash(p),
         NEW q \in Requests \ {p}
  PROVE  Still(q)
<1>0. RequestsOK
  BY DEF IInv, TypeOK
<1>1. ASSUME Finish(p) PROVE Still(q)
  BY <1>0, <1>1 DEF Finish, Goto, RequestsOK, Still, Same
<1>2. ASSUME Throw(p) PROVE Still(q)
  BY <1>0, <1>1, <1>2 DEF Throw, Goto, RequestsOK, Still, Same
<1>3. CASE Arrive(p)
  BY <1>0, <1>3 DEF Arrive, BookSlot, CancelSlot, SelectRoles, UpdateFormAnswers,
        StampSlots, RemoveSlot, Begin, Goto, RequestsOK, Still, Same, txVars
<1>4. CASE Crash(p)
  BY <1>1, <1>4 DEF Crash
<1>5. CASE ReadSlots(p) \/ ReadForms(p) \/ ReadRoles(p) \/ CheckBooking(p)
  BY <1>0, <1>1, <1>2, <1>5
     DEF ReadSlots, ReadForms, ReadRoles, CheckBooking, Goto, RequestsOK, Still, Same, txVars
<1>6. CASE FindEvent(p) \/ RemoveEvent(p) \/ ScanCancel(p) \/ WriteCancel(p)
  BY <1>0, <1>1, <1>6
     DEF FindEvent, RemoveEvent, ScanCancel, WriteCancel, Goto, RequestsOK, Still, Same, txVars
<1>7. CASE ScanBook(p) \/ WriteBook(p) \/ CreateEvent(p) \/ Commit(p)
  BY <1>0, <1>1, <1>2, <1>7
     DEF ScanBook, WriteBook, CreateEvent, Commit, Goto, RequestsOK, Still, Same, txVars
<1>8. CASE ScanStore(p) \/ WriteStore(p) \/ ScanStamp(p) \/ WriteStamp(p)
             \/ DeleteRows(p)
  BY <1>0, <1>1, <1>8
     DEF ScanStore, WriteStore, ScanStamp, WriteStamp, DeleteRows, Goto, RequestsOK,
         Still, Same, txVars
<1> QED
  BY <1>3, <1>4, <1>5, <1>6, <1>7, <1>8 DEF Step

(* Who waits for whom does not change between requests that stand still. *)
LEMMA StillWaits ==
  ASSUME NEW p, NEW q, Still(p), Still(q)
  PROVE  WaitsFor(p, q)' <=> WaitsFor(p, q)
BY DEF Still, Same, WaitsFor, Locked

(* A request that does not wait, that holds no locks or that has just scanned
   for bookable rows closes no circle. *)
LEMMA StepClosesNoCircle ==
  ASSUME NEW p \in Requests, IInv, IInv', NoWaitingCircle,
         Arrive(p) \/ Step(p) \/ Crash(p)
  PROVE  NoWaitingCircle'
<1> SUFFICES ASSUME NEW Q \in SUBSET Requests, Q # {}
             PROVE  \E x \in Q : \A q \in Q \ {x} : ~WaitsFor(x, q)'
  BY DEF NoWaitingCircle
<1>1. \A q \in Requests \ {p} : Still(q)
  BY OthersStill
<1>2. ASSUME NEW R \in SUBSET Requests, R # {}, p \notin R
      PROVE  \E x \in R : \A q \in R \ {x} : ~WaitsFor(x, q)'
  BY <1>1, <1>2, StillWaits DEF NoWaitingCircle
<1>3. CASE p \notin Q
  BY <1>2, <1>3
<1>4. CASE p \in Q /\ pc'[p] \notin Waiting
  BY <1>4 DEF WaitsFor, Waiting
<1>5. CASE p \in Q /\ pc'[p] = "booking"
  <2>1. \A q \in Q \ {p} : cand'[p] \cap freed'[q] = {}
    BY <1>1, <1>5, OnlyScansWait, ScanAvoidsFreed DEF Still, Same
  <2>2. ASSUME NEW y \in Q \ {p}, WaitsFor(p, y)'
        PROVE  \A q \in Q : ~WaitsFor(y, q)'
    <3>1. taken'[y] # {}
      BY <2>1, <2>2 DEF WaitsFor, Locked
    <3>2. pc'[y] \in {"create", "commit"}
      BY <3>1 DEF IInv, TransactionInv
    <3> QED
      BY <3>2 DEF WaitsFor
  <2> QED
    BY <1>5, <2>2
<1>6. CASE p \in Q /\ pc'[p] \in Waiting \ {"booking"}
  <2>1. Locked(p)' = {}
    BY <1>6 DEF IInv, TransactionInv, Locked, OpenSteps, Waiting
  <2>2. \A x : ~WaitsFor(x, p)'
    BY <2>1 DEF WaitsFor
  <2>3. CASE Q = {p}
    BY <2>3
  <2>4. CASE Q \ {p} # {}
    <3>1. PICK x \in Q \ {p} : \A q \in (Q \ {p}) \ {x} : ~WaitsFor(x, q)'
      BY <1>2, <2>4
    <3> QED
      BY <2>2, <3>1
  <2> QED
    BY <1>6, <2>3, <2>4
<1> QED
  BY <1>3, <1>4, <1>5, <1>6

(* Bookings, rebookings and cancellations of any number of applicants, which
   cancel and take rows in opposite orders, never wait for each other in a
   circle: PostgreSQL has no deadlock to break between their statements. *)
THEOREM NoDeadlock == Spec => []NoWaitingCircle
<1>1. Init => NoWaitingCircle
  BY DEF Init, NoWaitingCircle, WaitsFor
<1>2. IInv /\ IInv' /\ NoWaitingCircle /\ [Next]_vars => NoWaitingCircle'
  <2> SUFFICES ASSUME IInv, IInv', NoWaitingCircle, [Next]_vars
               PROVE  NoWaitingCircle'
    OBVIOUS
  <2>1. CASE UNCHANGED <<pc, cand, freed, taken>>
    BY <2>1 DEF NoWaitingCircle, WaitsFor, Locked
  <2>2. CASE \E p \in Requests : Arrive(p) \/ Step(p) \/ Crash(p)
    BY <2>2, StepClosesNoCircle
  <2>3. CASE (\E S \in SUBSET Rows : AddSlot(S)) \/ Tick \/ UNCHANGED vars
    BY <2>1, <2>3 DEF AddSlot, Tick, vars, txVars
  <2> QED
    BY <2>2, <2>3 DEF Next
<1> QED
  BY <1>1, <1>2, Initial, Inductive, PTL DEF Spec

(***************************************************************************)
(* What an applicant gets who sends one request after the other (Serial),  *)
(* while any number of other applicants do the same: her slots are at one  *)
(* time, for the roles she applies for, and the calendar has no invitation *)
(* of hers that is not of the slots she holds. Between two steps of her    *)
(* request nobody else gives her rows or takes them (but a moderator who   *)
(* removes them), so what the request has read of her stays true; that is  *)
(* what the invariants below say, step by step.                            *)
(***************************************************************************)

(* The invariants. *)

(* Nobody has two requests in flight; who has none is in no request. *)
OneRequestEach ==
  /\ \A p \in Requests : pc[p] \in {"idle", "delete"} => req[p].app = NoOne
  /\ \A p, q \in Requests : req[p].app = req[q].app /\ req[p].app # NoOne => p = q

Due(a) == HeldBy(a) \ interviewed
Met(a) == HeldBy(a) \cap interviewed

OneTime(S) == \A r1, r2 \in S : TimeOf[r1] = TimeOf[r2]

(* An UPDATE of the applicant's rows has found all of them. *)
AllFound(p) ==
  LET a == req[p].app IN
  /\ pc[p] = "canceling" => Due(a) \subseteq cand[p]
  /\ pc[p] \in OpenSteps => Due(a) \subseteq freed[p]
  /\ pc[p] \in {"storing", "stamping"} => HeldBy(a) \subseteq cand[p]
  /\ pc[p] \in {"stamp", "stamping"} =>
       /\ req[p].kind \in {"mark", "unmark"}
       /\ IF req[p].kind = "mark" THEN Met(a) = {} ELSE Due(a) = {}

SlotInv ==
  /\ IInv
  /\ OneRequestEach
  /\ \A a \in Applicants : OneTime(Due(a)) /\ OneTime(Met(a))
  /\ \A p \in Requests : AllFound(p)

(* What a booking has read of its applicant is still so. *)
ReadsHold(p) ==
  LET a == req[p].app IN
  /\ pc[p] = "read" =>
       /\ InTransaction(p)
       /\ "slots" \notin req[p].unread => req[p].seen = HeldBy(a)
       /\ "roles" \notin req[p].unread => req[p].sel = selected[a]
       /\ "forms" \notin req[p].unread => req[p].complete = FormsCompleted(a)
  /\ pc[p] \in DecidedSteps /\ InTransaction(p) =>
       req[p].sel = selected[a] /\ FormsCompleted(a)

(* The slots of an applicant fit to what she applies for, *)
Fits(a) ==
  HeldBy(a) # {} =>
    /\ {RoleOf[r] : r \in HeldBy(a)} = RoleIds(selected[a])
    /\ selected[a] # {}
    /\ FormsCompleted(a)

(* unless a request of hers is about to move or to drop them. *)
Moving(a) ==
  \E p \in Requests : /\ req[p].app = a
                      /\ req[p].kind \in {"rebook", "cancel"}
                      /\ pc[p] \notin {"store", "storing"}

(* Without moderators who stamp or remove rows *)
Undisturbed ==
  /\ interviewed = {}
  /\ \A p \in Requests : pc[p] # "delete" /\ req[p].kind # "mark"

RolesInv ==
  /\ SlotInv
  /\ Undisturbed
  /\ \A p \in Requests : ReadsHold(p)
  /\ \A a \in Applicants : Fits(a) \/ Moving(a)

InvitesOf(a) == {e \in live : invite[e].app = a}

(* Which invitations a request leaves in the calendar, and to what slots. *)
InvitesKnown(p) ==
  LET a == req[p].app IN
  /\ pc[p] \in {"remove", "commit", "store", "storing"} => InvitesOf(a) \subseteq {ev[p]}
  /\ pc[p] \in {"cancel", "canceling", "book", "booking", "create"} => InvitesOf(a) = {}
  /\ pc[p] = "commit" /\ ev[p] # NoEvent => invite[ev[p]].time = req[p].time
  /\ pc[p] \in {"store", "storing"} =>
       /\ HeldBy(a) # {}
       /\ \A r \in HeldBy(a) : TimeOf[r] = invite[ev[p]].time

(* An event in the calendar is on a row of its time, or will be. *)
Backed(e) ==
  \/ \E r \in Rows : eventOf[r] = e /\ TimeOf[r] = invite[e].time
  \/ \E p \in Requests : ev[p] = e /\ pc[p] \in {"commit", "store", "storing"}

InvitesInv ==
  /\ SlotInv
  /\ Undisturbed
  /\ \A a \in Applicants : \A r1, r2 \in HeldBy(a) : eventOf[r1] = eventOf[r2]
  /\ \A p \in Requests : InvitesKnown(p)
  /\ \A e \in live : invite[e].app \in Applicants /\ Backed(e)

-------------------------------------------------------------------------------
(* Steps of others. *)

(* What the reads of a booking change. *)
LEMMA ReadSteps ==
  ASSUME NEW p \in Requests, RequestsOK, ReadSlots(p) \/ ReadForms(p) \/ ReadRoles(p)
  PROVE  /\ pc[p] = "read" /\ pc'[p] = "read"
         /\ req'[p].app = req[p].app /\ req'[p].kind = req[p].kind
         /\ \/ /\ req'[p].unread = req[p].unread \ {"slots"}
               /\ req'[p].seen = HeldBy(req[p].app)
               /\ req'[p].sel = req[p].sel /\ req'[p].complete = req[p].complete
            \/ /\ req'[p].unread = req[p].unread \ {"forms"}
               /\ req'[p].complete = FormsCompleted(req[p].app)
               /\ req'[p].sel = req[p].sel /\ req'[p].seen = req[p].seen
            \/ /\ req'[p].unread = req[p].unread \ {"roles"}
               /\ req'[p].sel = selected[req[p].app]
               /\ req'[p].seen = req[p].seen /\ req'[p].complete = req[p].complete
<1>0. pc[p] = "read" /\ pc' = pc /\ req[p] \in RequestType
  BY DEF ReadSlots, ReadForms, ReadRoles, RequestsOK
<1>1. CASE ReadSlots(p)
  <2>1. req'[p] = [req[p] EXCEPT !.unread = req[p].unread \ {"slots"},
                                 !.seen = HeldBy(req[p].app)]
    BY <1>1 DEF ReadSlots, RequestsOK
  <2> QED
    BY <1>0, <2>1 DEF RequestType
<1>2. CASE ReadForms(p)
  <2>1. req'[p] = [req[p] EXCEPT !.unread = req[p].unread \ {"forms"},
                                 !.complete = FormsCompleted(req[p].app)]
    BY <1>2 DEF ReadForms, RequestsOK
  <2> QED
    BY <1>0, <2>1 DEF RequestType
<1>3. CASE ReadRoles(p)
  <2>1. req'[p] = [req[p] EXCEPT !.unread = req[p].unread \ {"roles"},
                                 !.sel = selected[req[p].app]]
    BY <1>3 DEF ReadRoles, RequestsOK
  <2> QED
    BY <1>0, <2>1 DEF RequestType
<1> QED
  BY <1>1, <1>2, <1>3

(* What a booking that goes on with the time t changes. *)
LEMMA GoesOn ==
  ASSUME NEW p \in Requests, RequestsOK, NEW t, Goto(p, "find"),
         req' = [req EXCEPT ![p] = [@ EXCEPT !.time = t, !.seen = {}]]
  PROVE  /\ pc'[p] = "find" /\ req'[p].app = req[p].app
         /\ req'[p].kind = req[p].kind /\ req'[p].sel = req[p].sel
<1>1. req'[p] = [req[p] EXCEPT !.time = t, !.seen = {}] /\ req[p] \in RequestType
  BY DEF RequestsOK
<1> QED
  BY <1>1 DEF Goto, RequestsOK, RequestType

(* A request keeps its applicant until it ends. *)
LEMMA AppKept ==
  ASSUME NEW p \in Requests, RequestsOK, Step(p) \/ Crash(p)
  PROVE  \/ pc'[p] = "idle" /\ req'[p] = NoRequest
         \/ /\ req'[p].app = req[p].app /\ req'[p].kind \in {req[p].kind, "cancel"}
            /\ pc[p] \notin {"idle", "delete"} /\ pc'[p] \notin {"idle", "delete"}
<1>1. ASSUME Finish(p) PROVE pc'[p] = "idle" /\ req'[p] = NoRequest
  BY <1>1 DEF Finish, Goto, RequestsOK
<1>2. ASSUME Throw(p), req[p].kind = "rebook"
      PROVE  req'[p].app = req[p].app /\ req'[p].kind = "cancel" /\ pc'[p] = "find"
  <2>1. pc'[p] = "find" /\ req'[p] = [req[p] EXCEPT !.kind = "cancel"]
    BY <1>2 DEF Throw, Goto, RequestsOK
  <2> QED
    BY <2>1 DEF RequestsOK, RequestType
<1>3. ASSUME Throw(p), pc[p] \notin {"idle", "delete"}
      PROVE  \/ pc'[p] = "idle" /\ req'[p] = NoRequest
             \/ /\ req'[p].app = req[p].app /\ req'[p].kind = "cancel"
                /\ pc'[p] \notin {"idle", "delete"}
  BY <1>1, <1>2, <1>3 DEF Throw
<1>4. CASE Crash(p)
  BY <1>1, <1>4 DEF Crash
<1>5. CASE ReadSlots(p) \/ ReadForms(p) \/ ReadRoles(p)
  BY <1>5, ReadSteps
<1>6. CASE CheckBooking(p)
  BY <1>1, <1>3, <1>6, GoesOn DEF CheckBooking
<1>7. CASE FindEvent(p) \/ RemoveEvent(p) \/ ScanCancel(p) \/ ScanBook(p)
             \/ ScanStore(p) \/ ScanStamp(p)
  BY <1>7 DEF FindEvent, RemoveEvent, ScanCancel, ScanBook, ScanStore, ScanStamp,
              Goto, RequestsOK
<1>8. CASE WriteCancel(p) \/ WriteStore(p) \/ WriteStamp(p) \/ DeleteRows(p)
  BY <1>1, <1>8 DEF WriteCancel, WriteStore, WriteStamp, DeleteRows, Goto, RequestsOK
<1>9. CASE WriteBook(p)
  BY <1>3, <1>9 DEF WriteBook, Goto, RequestsOK
<1>10. CASE CreateEvent(p)
  BY <1>3, <1>10 DEF CreateEvent, Goto, RequestsOK
<1>11. CASE Commit(p)
  BY <1>1, <1>11 DEF Commit, Goto, RequestsOK
<1> QED
  BY <1>4, <1>5, <1>6, <1>7, <1>8, <1>9, <1>10, <1>11 DEF Step

(* An applicant sends a request when she has none in flight. *)
Arrived(p) ==
  \/ pc'[p] = "delete" /\ req'[p].app = NoOne /\ "remove" \in Kinds
  \/ /\ req'[p].app \in Applicants
     /\ \A q \in Requests : req[q].app # req'[p].app
     /\ \/ /\ pc'[p] = "read" /\ req'[p].unread = Reads
           /\ \/ req'[p].kind = "book" /\ UNCHANGED applicantVars
              \/ req'[p].kind = "rebook"
        \/ pc'[p] = "find" /\ req'[p].kind = "cancel" /\ UNCHANGED applicantVars
        \/ pc'[p] = "stamp" /\ req'[p].kind \in {"mark", "unmark"} \cap Kinds
           /\ UNCHANGED applicantVars
     /\ \A b \in Applicants \ {req'[p].app} :
          selected'[b] = selected[b] /\ answered'[b] = answered[b]

LEMMA Arrival ==
  ASSUME NEW p \in Requests, IInv, OneRequestEach, Serial, Arrive(p)
  PROVE  /\ pc[p] = "idle" /\ req[p].app = NoOne
         /\ UNCHANGED <<holder, interviewed, eventOf, live, invite, freed, taken, ev>>
         /\ Arrived(p)
<1>1. RequestsOK /\ StoresOK
  BY DEF IInv, TypeOK
<1>2. ASSUME NEW kind, NEW a, NEW t, NEW step, NEW unread,
             Begin(p, kind, a, t, step, unread)
      PROVE  /\ pc'[p] = step /\ req'[p].app = a /\ req'[p].kind = kind
             /\ req'[p].unread = unread
  <2>1. req'[p] = [NoRequest EXCEPT !.kind = kind, !.app = a, !.time = t,
                                    !.unread = unread]
    BY <1>1, <1>2 DEF Begin, RequestsOK
  <2> QED
    BY <1>1, <1>2, <2>1 DEF Begin, Goto, NoRequest, RequestsOK
<1>3. ASSUME NEW a \in Applicants, Accept(p, a)
      PROVE  pc[p] = "idle" /\ \A q \in Requests : req[q].app # a
  BY <1>3 DEF Accept
<1> USE DEF slotVars, calendarVars, txVars, applicantVars, Arrived
<1>4. ASSUME NEW a \in Applicants, NEW t \in Times, BookSlot(p, a, t)
      PROVE  Arrived(p)
  BY <1>2, <1>3, <1>4 DEF BookSlot
<1>5. ASSUME NEW a \in Applicants, CancelSlot(p, a)
      PROVE  Arrived(p)
  BY <1>2, <1>3, <1>5 DEF CancelSlot
<1>6. ASSUME NEW a \in Applicants, NEW R \in SUBSET Roles, SelectRoles(p, a, R)
      PROVE  Arrived(p)
  BY <1>1, <1>2, <1>3, <1>6 DEF SelectRoles, StoresOK
<1>7. ASSUME NEW a \in Applicants, NEW C \in SUBSET Collections,
             UpdateFormAnswers(p, a, C)
      PROVE  Arrived(p)
  BY <1>1, <1>2, <1>3, <1>7 DEF UpdateFormAnswers, StoresOK
<1>8. ASSUME NEW a \in Applicants, NEW kind \in {"mark", "unmark"},
             StampSlots(p, a, kind)
      PROVE  Arrived(p)
  BY <1>2, <1>3, <1>8 DEF StampSlots
<1>9. ASSUME NEW t \in Times, NEW R \in SUBSET Roles, RemoveSlot(p, t, R)
      PROVE  Arrived(p)
  BY <1>2, <1>9 DEF RemoveSlot
<1> HIDE DEF Arrived
<1>10. Arrived(p)
  BY <1>4, <1>5, <1>6, <1>7, <1>8, <1>9 DEF Arrive
<1>11. /\ pc[p] = "idle"
       /\ UNCHANGED <<holder, interviewed, eventOf, live, invite, freed, taken, ev>>
  BY DEF Arrive, Accept, BookSlot, CancelSlot, SelectRoles, UpdateFormAnswers,
         StampSlots, RemoveSlot
<1> QED
  BY <1>10, <1>11 DEF OneRequestEach

LEMMA OneRequestEachKept ==
  ASSUME NEW p \in Requests, IInv, OneRequestEach, Serial,
         Arrive(p) \/ Step(p) \/ Crash(p)
  PROVE  OneRequestEach'
<1>1. \A q \in Requests \ {p} : pc'[q] = pc[q] /\ req'[q] = req[q]
  BY OthersStill DEF Still, Same
<1>2. RequestsOK
  BY DEF IInv, TypeOK
<1>3. CASE Arrive(p)
  BY <1>1, <1>3, Arrival, SentinelsAssumption DEF OneRequestEach, Arrived
<1>4. CASE Step(p) \/ Crash(p)
  BY <1>1, <1>2, <1>4, AppKept DEF OneRequestEach, NoRequest
<1> QED
  BY <1>3, <1>4

(* A step of another request gives an applicant no row, and stamps none. *)
LEMMA OthersSlots ==
  ASSUME NEW p \in Requests, IInv, Step(p) \/ Crash(p), NEW b \in Applicants,
         b # req[p].app, NEW r \in Rows, holder'[r] = b
  PROVE  holder[r] = b /\ (r \in interviewed' <=> r \in interviewed)
<1>1. RequestsOK /\ StoresOK /\ TransactionInv(p)
  BY DEF IInv, TypeOK
<1>2. CASE WriteCancel(p)
  BY <1>2, SentinelsAssumption DEF WriteCancel
<1>3. CASE Commit(p)
  BY <1>3, SentinelsAssumption DEF Commit, View
<1>4. CASE WriteStamp(p)
  <2>1. freed[p] = {} /\ taken[p] = {}
    BY <1>1, <1>4 DEF WriteStamp, TransactionInv, OpenSteps
  <2>2. holder' = holder /\ ~Owned(p, r)
    BY <1>4, <2>1 DEF WriteStamp, Owned, View
  <2> QED
    BY <1>4, <2>2 DEF WriteStamp
<1>5. CASE DeleteRows(p)
  BY <1>5, SentinelsAssumption DEF DeleteRows
<1>6. CASE UNCHANGED <<holder, interviewed>>
  BY <1>6
<1> QED
  BY <1>2, <1>3, <1>4, <1>5, <1>6
     DEF Step, Crash, ReadSlots, ReadForms, ReadRoles, CheckBooking, FindEvent,
         RemoveEvent, ScanCancel, ScanBook, WriteBook, CreateEvent, ScanStore,
         WriteStore, ScanStamp, slotVars

LEMMA OthersHeld ==
  ASSUME NEW p \in Requests, IInv, Step(p) \/ Crash(p), NEW b \in Applicants,
         b # req[p].app
  PROVE  /\ HeldBy(b)' \subseteq HeldBy(b)
         /\ Due(b)' \subseteq Due(b) /\ Met(b)' \subseteq Met(b)
  BY OthersSlots DEF HeldBy, Due, Met

(* So what another request has found remains all there is. *)
LEMMA FoundKept ==
  ASSUME NEW q \in Requests, RequestsOK, AllFound(q), Still(q),
         pc[q] \notin {"idle", "delete"} =>
           /\ HeldBy(req[q].app)' \subseteq HeldBy(req[q].app)
           /\ Due(req[q].app)' \subseteq Due(req[q].app)
           /\ Met(req[q].app)' \subseteq Met(req[q].app)
  PROVE  AllFound(q)'
<1>1. CASE pc[q] \in {"idle", "delete"}
  BY <1>1 DEF AllFound, Still, Same, OpenSteps
<1>2. CASE pc[q] \notin {"idle", "delete"}
  <2>1. PICK a : a = req[q].app /\ a = req'[q].app
    BY DEF Still, Same
  <2>2. HeldBy(a)' \subseteq HeldBy(a) /\ Due(a)' \subseteq Due(a) /\ Met(a)' \subseteq Met(a)
    BY <1>2, <2>1
  <2> QED
    BY <2>1, <2>2 DEF AllFound, Still, Same
<1> QED
  BY <1>1, <1>2

-------------------------------------------------------------------------------
(* Steps of the applicant's own request. *)

LEMMA FinishFound ==
  ASSUME NEW p \in Requests, RequestsOK, Finish(p) \/ Throw(p)
  PROVE  AllFound(p)' /\ pc'[p] \in {"idle", "find"}
<1>1. pc'[p] \in {"idle", "find"}
  BY DEF Finish, Throw, Goto, RequestsOK
<1> QED
  BY <1>1 DEF AllFound, OpenSteps

(* The steps that leave the rows as they are. *)
LEMMA LookingFound ==
  ASSUME NEW p \in Requests, SlotInv, UNCHANGED <<holder, interviewed>>,
         \/ ReadSlots(p) \/ ReadForms(p) \/ ReadRoles(p) \/ CheckBooking(p)
         \/ FindEvent(p) \/ RemoveEvent(p) \/ ScanCancel(p)
         \/ ScanBook(p) \/ WriteBook(p) \/ CreateEvent(p)
         \/ ScanStore(p) \/ WriteStore(p) \/ ScanStamp(p) \/ Crash(p)
  PROVE  AllFound(p)'
<1>1. /\ RequestsOK /\ StoresOK /\ TransactionInv(p) /\ AllFound(p)
      /\ \A S \in {HeldBy(req[p].app), Due(req[p].app), Met(req[p].app)} : S \subseteq Rows
  BY DEF SlotInv, IInv, TypeOK, HeldBy, Due, Met
<1>2. CASE Finish(p) \/ Throw(p)
  BY <1>1, <1>2, FinishFound
<1>3. CASE pc'[p] \in {"read", "find", "remove", "cancel", "store"}
  BY <1>3 DEF AllFound, OpenSteps
<1>4. CASE ScanCancel(p)
  <2>1. /\ pc'[p] = "canceling" /\ req' = req /\ freed[p] = {} /\ taken[p] = {}
        /\ cand'[p] = {r \in Rows : Cancelable(p, r)}
    BY <1>1, <1>4 DEF ScanCancel, Goto, RequestsOK, TransactionInv, OpenSteps
  <2>2. Due(req[p].app) \subseteq cand'[p]
    BY <2>1 DEF Due, HeldBy, Cancelable, View
  <2> QED
    BY <2>1, <2>2 DEF AllFound, OpenSteps, Due, HeldBy
<1>5. CASE ScanBook(p)
  <2>1. /\ pc[p] = "book" /\ pc'[p] = "booking" /\ req' = req /\ freed' = freed
    BY <1>1, <1>5 DEF ScanBook, Goto, RequestsOK, txVars
  <2> QED
    BY <1>1, <2>1 DEF AllFound, OpenSteps, Due, HeldBy
<1>6. CASE WriteBook(p) /\ ~Throw(p)
  <2>1. /\ pc[p] = "booking" /\ pc'[p] \in {"create", "commit"} /\ req' = req
        /\ freed' = freed
    BY <1>1, <1>6 DEF WriteBook, Goto, RequestsOK
  <2> QED
    BY <1>1, <2>1 DEF AllFound, OpenSteps, Due, HeldBy
<1>7. CASE CreateEvent(p) /\ ~Throw(p)
  <2>1. /\ pc[p] = "create" /\ pc'[p] = "commit" /\ req' = req /\ freed' = freed
    BY <1>1, <1>7 DEF CreateEvent, Goto, RequestsOK, txVars
  <2> QED
    BY <1>1, <2>1 DEF AllFound, OpenSteps, Due, HeldBy
<1>8. CASE ScanStore(p) \/ ScanStamp(p)
  <2>1. /\ \/ pc[p] = "store" /\ pc'[p] = "storing"
           \/ pc[p] = "stamp" /\ pc'[p] = "stamping"
        /\ req' = req /\ freed[p] = {} /\ taken[p] = {}
        /\ cand'[p] = {r \in Rows : Owned(p, r)}
    BY <1>1, <1>8 DEF ScanStore, ScanStamp, Goto, RequestsOK, TransactionInv, OpenSteps
  <2>2. HeldBy(req[p].app) \subseteq cand'[p]
    BY <2>1 DEF HeldBy, Owned, View
  <2> QED
    BY <1>1, <2>1, <2>2 DEF AllFound, OpenSteps, Due, Met, HeldBy
<1>9. CASE ReadSlots(p) \/ ReadForms(p) \/ ReadRoles(p)
  BY <1>3, <1>9 DEF ReadSlots, ReadForms, ReadRoles
<1>10. CASE CheckBooking(p)
  BY <1>1, <1>2, <1>3, <1>10 DEF CheckBooking, Goto, RequestsOK
<1>11. CASE FindEvent(p) \/ RemoveEvent(p)
  BY <1>1, <1>3, <1>11 DEF FindEvent, RemoveEvent, Goto, RequestsOK
<1>12. CASE WriteStore(p) \/ Crash(p)
  BY <1>2, <1>12 DEF WriteStore, Crash
<1> QED
  BY <1>2, <1>4, <1>5, <1>6, <1>7, <1>8, <1>9, <1>10, <1>11, <1>12

LEMMA WriteCancelSlots ==
  ASSUME NEW p \in Requests, SlotInv, WriteCancel(p), NEW a, a = req[p].app
  PROVE  /\ AllFound(p)'
         /\ OneTime(Due(a))' /\ OneTime(Met(a))'
         /\ ~InTransaction(p) => Due(a)' = {}
<1> DEFINE hit == {r \in cand[p] : Cancelable(p, r)}
<1>1. /\ pc[p] = "canceling" /\ RequestsOK /\ freed[p] = {} /\ taken[p] = {}
      /\ a \in Applicants /\ Due(a) \subseteq cand[p]
      /\ OneTime(Due(a)) /\ OneTime(Met(a)) /\ cand[p] \in SUBSET Rows
  BY DEF WriteCancel, SlotInv, IInv, TypeOK, RequestsOK, TransactionInv, AllFound,
              OpenSteps
<1>2. hit = Due(a)
  BY <1>1 DEF Cancelable, View, HeldBy, Due
<1>3. CASE InTransaction(p)
  <2>1. /\ pc'[p] = "book" /\ freed'[p] = hit /\ req' = req
        /\ UNCHANGED <<holder, interviewed>>
    BY <1>1, <1>3 DEF WriteCancel, Goto, RequestsOK
  <2> HIDE DEF hit
  <2> QED
    BY <1>1, <1>2, <1>3, <2>1 DEF AllFound, OpenSteps, Due, Met, HeldBy, OneTime
<1>4. CASE ~InTransaction(p)
  <2>1. /\ holder' = [r \in Rows |-> IF r \in hit THEN NoOne ELSE holder[r]]
        /\ interviewed' = interviewed
        /\ Finish(p)
    BY <1>4 DEF WriteCancel
  <2>2. AllFound(p)'
    BY <1>1, <2>1, FinishFound
  <2> HIDE DEF hit
  <2>3. /\ \A r \in Rows : holder'[r] = a /\ r \notin interviewed => FALSE
        /\ \A r \in Rows : holder'[r] = a => holder[r] = a
    BY <1>1, <1>2, <2>1, SentinelsAssumption DEF Due, HeldBy
  <2>4. \A S, T : OneTime(T) /\ S \subseteq T => OneTime(S)
    BY DEF OneTime
  <2>5. {r \in Rows : holder'[r] = a} \ interviewed' = {}
    BY <2>1, <2>3
  <2>6. {r \in Rows : holder'[r] = a} \cap interviewed' \subseteq Met(a)
    BY <2>1, <2>3 DEF Met, HeldBy
  <2>7. OneTime({r \in Rows : holder'[r] = a} \ interviewed')
        /\ OneTime({r \in Rows : holder'[r] = a} \cap interviewed')
    <3>1. OneTime({})
      BY DEF OneTime
    <3> QED
      BY <1>1, <2>4, <2>5, <2>6, <3>1
  <2> QED
    BY <2>2, <2>5, <2>7 DEF Due, Met, HeldBy, OneTime
<1> QED
  BY <1>3, <1>4

LEMMA SameTime ==
  ASSUME NEW S, NEW T, OneTime(T), S \subseteq T
  PROVE  OneTime(S)
  BY DEF OneTime

LEMMA CommitSlots ==
  ASSUME NEW p \in Requests, SlotInv, Commit(p), NEW a, a = req[p].app
  PROVE  /\ AllFound(p)'
         /\ OneTime(Due(a))' /\ OneTime(Met(a))'
         /\ Due(a)' = taken[p] /\ Met(a)' = Met(a)
<1>1. /\ pc[p] = "commit" /\ RequestsOK /\ TransactionInv(p)
      /\ a \in Applicants /\ Due(a) \subseteq freed[p] /\ OneTime(Met(a))
      /\ freed[p] \in SUBSET Rows /\ taken[p] \in SUBSET Rows /\ InterviewedRowsAreHeld
  BY DEF Commit, SlotInv, IInv, TypeOK, RequestsOK, AllFound, OpenSteps
<1>2. AllFound(p)'
  <2>1. CASE Finish(p)
    BY <1>1, <2>1, FinishFound
  <2>2. CASE Goto(p, "store")
    BY <1>1, <2>2 DEF Goto, RequestsOK, AllFound, OpenSteps
  <2> QED
    BY <2>1, <2>2 DEF Commit
<1>3. interviewed' = interviewed /\ \A r \in Rows : holder'[r] = View(p, r)
  BY DEF Commit
<1>4. /\ \A r \in freed[p] : holder[r] = a /\ r \notin interviewed
      /\ \A r \in taken[p] : holder[r] = NoOne \/ r \in freed[p]
  BY <1>1 DEF TransactionInv, HeldBy
<1>5. \A r \in taken[p] : r \notin interviewed
  BY <1>1, <1>4, SentinelsAssumption DEF InterviewedRowsAreHeld
<1>6. \A r \in Rows : holder'[r] = a /\ r \notin interviewed <=> r \in taken[p]
  BY <1>1, <1>3, <1>4, <1>5, SentinelsAssumption DEF View, Due, HeldBy
<1>7. \A r \in interviewed : holder'[r] = a <=> holder[r] = a
  BY <1>1, <1>3, <1>4, <1>5 DEF View, SlotInv, IInv, TypeOK, StoresOK
<1>8. {r \in Rows : holder'[r] = a} \ interviewed' = taken[p]
  BY <1>1, <1>3, <1>6
<1>9. {r \in Rows : holder'[r] = a} \cap interviewed' = Met(a)
  BY <1>3, <1>7 DEF Met, HeldBy
<1>10. OneTime(taken[p])
  BY <1>1 DEF TransactionInv, OneTime
<1> QED
  BY <1>1, <1>2, <1>8, <1>9, <1>10 DEF Due, Met, HeldBy, OneTime

LEMMA WriteStampSlots ==
  ASSUME NEW p \in Requests, SlotInv, WriteStamp(p), NEW a, a = req[p].app
  PROVE  AllFound(p)' /\ OneTime(Due(a))' /\ OneTime(Met(a))'
<1> DEFINE hit == {r \in cand[p] : Owned(p, r)}
<1>1. /\ pc[p] = "stamping" /\ RequestsOK /\ freed[p] = {} /\ taken[p] = {}
      /\ a \in Applicants /\ HeldBy(a) \subseteq cand[p] /\ cand[p] \in SUBSET Rows
      /\ OneTime(Due(a)) /\ OneTime(Met(a))
      /\ IF req[p].kind = "mark" THEN Met(a) = {} ELSE Due(a) = {}
  BY DEF WriteStamp, SlotInv, IInv, TypeOK, RequestsOK, TransactionInv, AllFound, OpenSteps
<1>2. hit = HeldBy(a)
  BY <1>1 DEF Owned, View, HeldBy
<1>3. AllFound(p)'
  BY <1>1, FinishFound DEF WriteStamp
<1>4. /\ holder' = holder
      /\ interviewed' = IF req[p].kind = "mark" THEN interviewed \cup hit
                                                ELSE interviewed \ hit
  BY DEF WriteStamp
<1> HIDE DEF hit
<1>5. CASE req[p].kind = "mark"
  <2>1. HeldBy(a) \ interviewed' = {} /\ HeldBy(a) \cap interviewed' = Due(a)
    BY <1>1, <1>2, <1>4, <1>5 DEF Due, Met
  <2> QED
    BY <1>1, <1>3, <1>4, <2>1 DEF Due, Met, HeldBy, OneTime
<1>6. CASE req[p].kind # "mark"
  <2>1. HeldBy(a) \ interviewed' = Met(a) /\ HeldBy(a) \cap interviewed' = {}
    BY <1>1, <1>2, <1>4, <1>6 DEF Due, Met
  <2> QED
    BY <1>1, <1>3, <1>4, <2>1 DEF Due, Met, HeldBy, OneTime
<1> QED
  BY <1>5, <1>6

LEMMA DeleteSlots ==
  ASSUME NEW p \in Requests, SlotInv, DeleteRows(p)
  PROVE  /\ AllFound(p)'
         /\ \A a \in Applicants : /\ HeldBy(a)' \subseteq HeldBy(a)
                                  /\ Due(a)' \subseteq Due(a) /\ Met(a)' \subseteq Met(a)
<1>1. AllFound(p)'
  BY FinishFound DEF DeleteRows, SlotInv, IInv, TypeOK
<1>2. ASSUME NEW a \in Applicants, NEW r \in Rows, holder'[r] = a
      PROVE  holder[r] = a /\ (r \in interviewed' <=> r \in interviewed)
  BY <1>2, SentinelsAssumption DEF DeleteRows
<1> QED
  BY <1>1, <1>2 DEF HeldBy, Due, Met

LEMMA ArriveFound ==
  ASSUME NEW p \in Requests, SlotInv, Arrive(p), RequestsOK'
  PROVE  AllFound(p)'
<1>1. RequestsOK /\ StoresOK
  BY DEF SlotInv, IInv, TypeOK
<1>2. ASSUME NEW kind, NEW a, NEW t, NEW step, NEW unread,
             Begin(p, kind, a, t, step, unread)
      PROVE  pc'[p] = step /\ req'[p].app = a /\ req'[p].kind = kind
  <2>1. req'[p] = [NoRequest EXCEPT !.kind = kind, !.app = a, !.time = t,
                                    !.unread = unread]
    BY <1>1, <1>2 DEF Begin, RequestsOK
  <2> QED
    BY <1>1, <1>2, <2>1 DEF Begin, Goto, NoRequest, RequestsOK
<1>3. CASE pc'[p] \in {"read", "find", "delete"}
  BY <1>3 DEF AllFound, OpenSteps
<1>4. ASSUME NEW a \in Applicants, NEW kind \in {"mark", "unmark"},
             StampSlots(p, a, kind)
      PROVE  AllFound(p)'
  <2>1. /\ pc'[p] = "stamp" /\ req'[p].app = a /\ req'[p].kind = kind
        /\ UNCHANGED <<holder, interviewed>>
        /\ IF kind = "mark" THEN HeldBy(a) \cap interviewed = {}
                            ELSE HeldBy(a) \subseteq interviewed
    BY <1>2, <1>4 DEF StampSlots, slotVars
  <2> QED
    BY <2>1 DEF AllFound, OpenSteps, Due, Met, HeldBy
<1> QED
  BY <1>2, <1>3, <1>4 DEF Arrive, BookSlot, CancelSlot, SelectRoles, UpdateFormAnswers,
                          RemoveSlot

LEMMA SlotStep ==
  ASSUME NEW p \in Requests, SlotInv, IInv', Serial, Arrive(p) \/ Step(p) \/ Crash(p)
  PROVE  SlotInv'
<1>1. OneRequestEach'
  BY OneRequestEachKept DEF SlotInv
<1>2. /\ \A q \in Requests \ {p} : Still(q)
      /\ RequestsOK
  BY OthersStill DEF SlotInv, IInv, TypeOK
<1>3. CASE Arrive(p)
  <2>1. UNCHANGED <<holder, interviewed>>
    BY <1>3, Arrival DEF SlotInv
  <2>2. \A a \in Applicants : /\ HeldBy(a)' = HeldBy(a) /\ Due(a)' = Due(a)
                              /\ Met(a)' = Met(a)
    BY <2>1 DEF HeldBy, Due, Met
  <2>3. \A a \in Applicants : OneTime(Due(a))' /\ OneTime(Met(a))'
    BY <2>2 DEF SlotInv, OneTime
  <2>4. ASSUME NEW q \in Requests \ {p} PROVE AllFound(q)'
    <3>1. PICK b : b = req[q].app /\ b = req'[q].app
      BY <1>2 DEF Still, Same
    <3>2. HeldBy(b)' = HeldBy(b) /\ Due(b)' = Due(b) /\ Met(b)' = Met(b)
      BY <2>1 DEF HeldBy, Due, Met
    <3> QED
      BY <1>2, <3>1, <3>2, FoundKept DEF SlotInv
  <2>5. AllFound(p)'
    BY <1>3, ArriveFound DEF IInv, TypeOK
  <2> QED
    BY <1>1, <2>3, <2>4, <2>5 DEF SlotInv
<1>4. CASE Step(p) \/ Crash(p)
  <2>1. \A b \in Applicants : b # req[p].app =>
          /\ HeldBy(b)' \subseteq HeldBy(b)
          /\ Due(b)' \subseteq Due(b) /\ Met(b)' \subseteq Met(b)
    BY <1>4, OthersHeld DEF SlotInv
  <2>2. ASSUME NEW q \in Requests \ {p} PROVE AllFound(q)'
    <3>1. PICK b : b = req[q].app /\ b = req'[q].app
      BY <1>2 DEF Still, Same
    <3>2. pc[q] \notin {"idle", "delete"} => b \in Applicants /\ b # req[p].app
      BY <1>2, <3>1, SentinelsAssumption DEF SlotInv, OneRequestEach, RequestsOK
    <3> QED
      BY <1>2, <2>1, <3>1, <3>2, FoundKept DEF SlotInv
  <2>3. ASSUME NEW a \in Applicants, a = req[p].app,
               OneTime(Due(a))', OneTime(Met(a))', AllFound(p)'
        PROVE  SlotInv'
    BY <1>1, <2>1, <2>2, <2>3 DEF SlotInv, OneTime
  <2>4. ASSUME req[p].app \notin Applicants, AllFound(p)' PROVE SlotInv'
    BY <1>1, <2>1, <2>2, <2>4 DEF SlotInv, OneTime
  <2>5. ASSUME AllFound(p)', \A a \in Applicants : Due(a)' \subseteq Due(a) /\ Met(a)' \subseteq Met(a)
        PROVE  SlotInv'
    BY <1>1, <2>2, <2>5 DEF SlotInv, OneTime
  <2>6. pc[p] \notin {"idle", "delete"} => req[p].app \in Applicants
    BY <1>2 DEF RequestsOK
  <2>7. CASE WriteCancel(p)
    BY <2>3, <2>6, <2>7, WriteCancelSlots DEF WriteCancel
  <2>8. CASE Commit(p)
    BY <2>3, <2>6, <2>8, CommitSlots DEF Commit
  <2>9. CASE WriteStamp(p)
    BY <2>3, <2>6, <2>9, WriteStampSlots DEF WriteStamp
  <2>10. CASE DeleteRows(p)
    BY <2>5, <2>10, DeleteSlots
  <2>11. ASSUME UNCHANGED <<holder, interviewed>>, AllFound(p)' PROVE SlotInv'
    BY <2>5, <2>11 DEF Due, Met, HeldBy
  <2> QED
    BY <1>4, <2>7, <2>8, <2>9, <2>10, <2>11, LookingFound
       DEF Step, Crash, ReadSlots, ReadForms, ReadRoles, CheckBooking, FindEvent,
           RemoveEvent, ScanCancel, ScanBook, WriteBook, CreateEvent, ScanStore,
           WriteStore, ScanStamp, slotVars
<1> QED
  BY <1>3, <1>4

LEMMA AddSlotSlots ==
  ASSUME NEW S \in SUBSET Rows, SlotInv, IInv', AddSlot(S)
  PROVE  SlotInv' /\ \A a \in Applicants : HeldBy(a)' = HeldBy(a)
<1>1. /\ UNCHANGED <<interviewed, pc, req, cand, freed, taken>>
      /\ \A a \in Applicants, r \in Rows : holder'[r] = a <=> holder[r] = a
  <2>1. /\ \A r \in S : holder[r] = Absent
        /\ \A r \in Rows : holder'[r] = IF r \in S THEN NoOne ELSE holder[r]
        /\ UNCHANGED <<interviewed, pc, req, cand, freed, taken>>
    BY DEF AddSlot, SlotInv, IInv, UnusedRowsAreAbsent, txVars
  <2> QED
    BY <2>1, SentinelsAssumption
<1>2. \A a \in Applicants : HeldBy(a)' = HeldBy(a) /\ Due(a)' = Due(a) /\ Met(a)' = Met(a)
  BY <1>1 DEF HeldBy, Due, Met
<1>3. \A a \in Applicants : OneTime(Due(a))' /\ OneTime(Met(a))'
  BY <1>2 DEF SlotInv, OneTime
<1>4. ASSUME NEW q \in Requests PROVE AllFound(q)'
  <2>1. PICK b : b = req[q].app /\ b = req'[q].app
    BY <1>1
  <2>2. pc[q] \notin {"idle", "delete"} => b \in Applicants
    BY <2>1 DEF SlotInv, IInv, TypeOK, RequestsOK
  <2>3. Still(q) /\ RequestsOK
    BY <1>1 DEF Still, Same, SlotInv, IInv, TypeOK, AddSlot
  <2> QED
    BY <1>2, <2>1, <2>2, <2>3, FoundKept DEF SlotInv
<1> QED
  BY <1>1, <1>2, <1>3, <1>4 DEF SlotInv, OneRequestEach

LEMMA SlotInvInitially == Init => SlotInv
<1> SUFFICES ASSUME Init PROVE SlotInv
  OBVIOUS
<1>1. IInv
  BY Initial
<1>2. \A a \in Applicants : HeldBy(a) = {}
  BY SentinelsAssumption DEF Init, HeldBy
<1>3. \A p \in Requests : pc[p] = "idle" /\ req[p].app = NoOne
  BY DEF Init, NoRequest
<1>4. \A p \in Requests : AllFound(p)
  BY <1>3 DEF AllFound, OpenSteps
<1> QED
  BY <1>1, <1>2, <1>3, <1>4 DEF SlotInv, OneRequestEach, OneTime, Due, Met

LEMMA SlotInvKept ==
  ASSUME Serial, SlotInv, [Next]_vars
  PROVE  SlotInv'
<1>1. IInv'
  BY Inductive DEF SlotInv
<1>2. CASE \E p \in Requests : Arrive(p) \/ Step(p) \/ Crash(p)
  BY <1>1, <1>2, SlotStep
<1>3. CASE \E S \in SUBSET Rows : AddSlot(S)
  BY <1>1, <1>3, AddSlotSlots
<1>4. CASE Tick \/ UNCHANGED vars
  <2>1. UNCHANGED <<holder, interviewed, pc, req, cand, freed, taken>>
    BY <1>4 DEF Tick, vars, slotVars, txVars
  <2> QED
    BY <1>1, <2>1 DEF SlotInv, OneRequestEach, OneTime, Due, Met, HeldBy, AllFound
<1> QED
  BY <1>2, <1>3, <1>4 DEF Next

(* "Will automatically cancel the selected slot and book a new one": of an
   applicant who sends one request after the other, all the rows she still has
   to be interviewed in are at one time; whatever other applicants book at once,
   moderators stamp, unstamp or remove, fails in the calendar or dies half way. *)
THEOREM OneSlotAlways == Serial => (Spec => []OneSlotPerApplicant)
<1> SUFFICES ASSUME Serial PROVE Spec => []OneSlotPerApplicant
  OBVIOUS
<1>1. SlotInv /\ [Next]_vars => SlotInv'
  BY SlotInvKept
<1>2. SlotInv => OneSlotPerApplicant
  BY DEF SlotInv, OneSlotPerApplicant, OneTime, Due
<1> QED
  BY <1>1, <1>2, SlotInvInitially, PTL DEF Spec

-------------------------------------------------------------------------------
(* Without moderators who stamp or remove rows, and without crashes. *)

Peaceful == Serial /\ ~MayCrash /\ Kinds \cap {"mark", "remove"} = {}

LEMMA UndisturbedKept ==
  ASSUME Peaceful, SlotInv, Undisturbed, NEW p \in Requests, Arrive(p) \/ Step(p)
  PROVE  Undisturbed'
<1>1. RequestsOK /\ \A q \in Requests \ {p} : pc'[q] = pc[q] /\ req'[q] = req[q]
  BY OthersStill DEF SlotInv, IInv, TypeOK, Still, Same
<1>2. pc'[p] # "delete" /\ req'[p].kind # "mark"
  <2>1. CASE Arrive(p)
    BY <2>1, Arrival DEF SlotInv, Peaceful, Arrived
  <2>2. CASE Step(p)
    BY <1>1, <2>2, AppKept DEF NoRequest, Undisturbed
  <2> QED
    BY <2>1, <2>2
<1>3. interviewed' = {}
  <2>1. CASE Arrive(p)
    BY <2>1, Arrival DEF SlotInv, Peaceful, Undisturbed
  <2>2. CASE WriteStamp(p)
    <3>1. HeldBy(req[p].app) \cap interviewed = {}
      BY DEF Undisturbed
    <3>2. pc[p] = "stamping" /\ req[p].kind \in {"mark", "unmark"}
      BY <2>2 DEF WriteStamp, SlotInv, AllFound
    <3>3. CASE req[p].kind = "unmark"
      BY <2>2, <3>3 DEF WriteStamp, Undisturbed
    <3> QED
      BY <3>2, <3>3 DEF Undisturbed
  <2>3. CASE DeleteRows(p)
    BY <2>3 DEF DeleteRows, Undisturbed
  <2>4. CASE interviewed' = interviewed
    BY <2>4 DEF Undisturbed
  <2> QED
    BY <2>1, <2>2, <2>3, <2>4
       DEF Step, ReadSlots, ReadForms, ReadRoles, CheckBooking, FindEvent,
           RemoveEvent, ScanCancel, WriteCancel, ScanBook, WriteBook, CreateEvent,
           Commit, ScanStore, WriteStore, ScanStamp, slotVars
<1> QED
  BY <1>1, <1>2, <1>3 DEF Undisturbed

(* Then a step of another request leaves the applicant's rows as they are. *)
LEMMA OthersUntouched ==
  ASSUME NEW p \in Requests, SlotInv, Undisturbed, Step(p), NEW b \in Applicants,
         b # req[p].app
  PROVE  HeldBy(b)' = HeldBy(b) /\ \A r \in HeldBy(b) : eventOf'[r] = eventOf[r]
<1>1. /\ RequestsOK /\ StoresOK /\ TransactionInv(p) /\ pc[p] # "delete"
      /\ cand[p] \in SUBSET Rows
  BY DEF SlotInv, IInv, TypeOK, RequestsOK, Undisturbed
<1>2. \A r \in Rows : holder'[r] = b => holder[r] = b
  BY OthersSlots DEF SlotInv
<1>3. ASSUME NEW r \in Rows, holder[r] = b
      PROVE  holder'[r] = b /\ eventOf'[r] = eventOf[r]
  <2>1. CASE WriteCancel(p)
    <3>1. freed[p] = {} /\ taken[p] = {}
      BY <1>1, <2>1 DEF WriteCancel, TransactionInv, OpenSteps
    <3>2. ~Cancelable(p, r)
      BY <1>3, <3>1 DEF Cancelable, View
    <3> QED
      BY <1>3, <2>1, <3>2 DEF WriteCancel, ClearEvents
  <2>2. CASE Commit(p)
    <3>1. r \notin freed[p] /\ r \notin taken[p]
      BY <1>1, <1>3, SentinelsAssumption DEF TransactionInv, HeldBy
    <3> QED
      BY <1>3, <2>2, <3>1 DEF Commit, View, ClearEvents
  <2>3. CASE WriteStore(p)
    <3>1. freed[p] = {} /\ taken[p] = {}
      BY <1>1, <2>3 DEF WriteStore, TransactionInv, OpenSteps
    <3>2. ~Owned(p, r)
      BY <1>3, <3>1 DEF Owned, View
    <3> QED
      BY <1>3, <2>3, <3>2 DEF WriteStore
  <2>4. CASE UNCHANGED <<holder, eventOf>>
    BY <1>3, <2>4
  <2> QED
    BY <1>1, <2>1, <2>2, <2>3, <2>4
       DEF Step, ReadSlots, ReadForms, ReadRoles, CheckBooking, FindEvent,
           RemoveEvent, ScanCancel, ScanBook, WriteBook, CreateEvent,
           ScanStore, ScanStamp, WriteStamp, DeleteRows, slotVars
<1> QED
  BY <1>2, <1>3 DEF HeldBy

LEMMA StepsKeepApplicants ==
  ASSUME NEW p \in Requests, Step(p)
  PROVE  UNCHANGED applicantVars
  BY DEF Step, ReadSlots, ReadForms, ReadRoles, CheckBooking, FindEvent,
         RemoveEvent, ScanCancel, WriteCancel, ScanBook, WriteBook, CreateEvent,
         Commit, ScanStore, WriteStore, ScanStamp, WriteStamp, DeleteRows

LEMMA ReadsKept ==
  ASSUME NEW q \in Requests, RequestsOK, ReadsHold(q), Still(q),
         NEW a, a = req[q].app,
         pc[q] \notin {"idle", "delete"} =>
           /\ HeldBy(a)' = HeldBy(a)
           /\ selected'[a] = selected[a] /\ answered'[a] = answered[a]
  PROVE  ReadsHold(q)'
<1>1. a = req'[q].app
  BY DEF Still, Same
<1>2. CASE pc[q] \in {"idle", "delete"}
  BY <1>2 DEF ReadsHold, Still, Same, DecidedSteps, OpenSteps
<1>3. CASE pc[q] \notin {"idle", "delete"}
  <2>1. FormsCompleted(a)' = FormsCompleted(a) /\ HeldBy(a)' = HeldBy(a)
    BY <1>3 DEF FormsCompleted
  <2> QED
    BY <1>1, <1>3, <2>1 DEF ReadsHold, Still, Same, InTransaction
<1> QED
  BY <1>2, <1>3

LEMMA FitsKept ==
  ASSUME NEW a, Fits(a), HeldBy(a)' = HeldBy(a),
         selected'[a] = selected[a], answered'[a] = answered[a]
  PROVE  Fits(a)'
<1>1. FormsCompleted(a)' = FormsCompleted(a) /\ RoleIds(selected[a])' = RoleIds(selected[a])
  BY DEF FormsCompleted, RoleIds
<1> QED
  BY <1>1 DEF Fits

(* The own steps of a booking. *)
LEMMA OwnReads ==
  ASSUME NEW p \in Requests, SlotInv, ReadsHold(p), Step(p), pc[p] # "delete"
  PROVE  ReadsHold(p)'
<1>1. RequestsOK /\ StoresOK /\ TransactionInv(p) /\ UNCHANGED applicantVars
  BY StepsKeepApplicants DEF SlotInv, IInv, TypeOK
<1>2. \A a : FormsCompleted(a)' = FormsCompleted(a)
  BY <1>1 DEF FormsCompleted, applicantVars
<1>3. CASE pc'[p] \notin {"read"} \cup DecidedSteps
  BY <1>3 DEF ReadsHold
<1>4. CASE Throw(p) \/ Finish(p)
  <2>1. \/ pc'[p] = "idle"
        \/ pc'[p] = "find" /\ req'[p] = [req[p] EXCEPT !.kind = "cancel"]
    BY <1>1, <1>4 DEF Throw, Finish, Goto, RequestsOK
  <2>2. pc'[p] = "idle" \/ (pc'[p] = "find" /\ req'[p].kind = "cancel")
    BY <1>1, <2>1 DEF RequestsOK, RequestType
  <2> QED
    BY <2>2 DEF ReadsHold, DecidedSteps, OpenSteps, InTransaction
<1>5. CASE ReadSlots(p) \/ ReadForms(p) \/ ReadRoles(p)
  <2>1. UNCHANGED <<holder, selected>>
    BY <1>1, <1>5 DEF ReadSlots, ReadForms, ReadRoles, slotVars, applicantVars
  <2>2. \A a : HeldBy(a)' = HeldBy(a)
    BY <2>1 DEF HeldBy
  <2> QED
    BY <1>1, <1>2, <1>5, <2>1, <2>2, ReadSteps
       DEF ReadsHold, InTransaction, DecidedSteps, OpenSteps
<1>6. CASE CheckBooking(p)
  <2>1. ASSUME NEW t, req[p].complete, req[p].unread = {}, pc[p] = "read", Goto(p, "find"),
               req' = [req EXCEPT ![p] = [@ EXCEPT !.time = t, !.seen = {}]]
        PROVE  ReadsHold(p)'
    <3>1. /\ pc'[p] = "find" /\ req'[p].app = req[p].app
          /\ req'[p].kind = req[p].kind /\ req'[p].sel = req[p].sel
      BY <1>1, <2>1, GoesOn
    <3>2. req[p].sel = selected[req[p].app] /\ FormsCompleted(req[p].app)
      BY <2>1 DEF ReadsHold
    <3> QED
      BY <1>1, <1>2, <3>1, <3>2 DEF ReadsHold, applicantVars
  <2> QED
    BY <1>4, <1>6, <2>1 DEF CheckBooking
<1>7. ASSUME pc[p] \in DecidedSteps, req' = req
      PROVE  ReadsHold(p)' \/ pc'[p] = "read"
  BY <1>1, <1>2, <1>7 DEF ReadsHold, InTransaction, applicantVars
<1>8. CASE FindEvent(p) \/ RemoveEvent(p) \/ ScanCancel(p) \/ ScanBook(p)
  <2>1. pc[p] \in DecidedSteps /\ req' = req /\ pc'[p] # "read"
    BY <1>1, <1>8 DEF FindEvent, RemoveEvent, ScanCancel, ScanBook, Goto, RequestsOK,
                      DecidedSteps, OpenSteps
  <2> QED
    BY <1>7, <2>1
<1>9. CASE (WriteCancel(p) \/ WriteBook(p) \/ CreateEvent(p)) /\ ~Throw(p) /\ ~Finish(p)
  <2>1. pc[p] \in DecidedSteps /\ req' = req /\ pc'[p] # "read"
    BY <1>1, <1>9 DEF WriteCancel, WriteBook, CreateEvent, Goto, RequestsOK,
                      DecidedSteps, OpenSteps
  <2> QED
    BY <1>7, <2>1
<1>10. CASE Commit(p) \/ ScanStore(p) \/ ScanStamp(p)
  <2>1. Finish(p) \/ pc'[p] \in {"store", "storing", "stamping"}
    BY <1>1, <1>10 DEF Commit, ScanStore, ScanStamp, Goto, RequestsOK
  <2> QED
    BY <1>3, <1>4, <2>1 DEF DecidedSteps, OpenSteps
<1> QED
  BY <1>4, <1>5, <1>6, <1>8, <1>9, <1>10
     DEF Step, WriteStore, WriteStamp, DeleteRows

(* What the rows of a commit are, *)
LEMMA CommitFits ==
  ASSUME UniqueRows, NEW p \in Requests, SlotInv, Undisturbed, ReadsHold(p), Commit(p),
         NEW a, a = req[p].app
  PROVE  Fits(a)'
<1>1. /\ pc[p] = "commit" /\ RequestsOK /\ TransactionInv(p)
      /\ taken[p] \in SUBSET Rows /\ req[p].sel \in SUBSET Roles
      /\ req[p].sel = selected[a] /\ req[p].sel # {} /\ FormsCompleted(a)
      /\ UNCHANGED applicantVars /\ interviewed = {} /\ interviewed' = {}
  BY DEF Commit, SlotInv, IInv, TypeOK, RequestsOK, RequestType, TransactionInv,
         ReadsHold, DecidedSteps, OpenSteps, Undisturbed
<1>2. Due(a)' = taken[p]
  BY CommitSlots
<1>3. HeldBy(a)' = taken[p]
  BY <1>1, <1>2 DEF Due
<1>4. PICK S, sel, t : S = taken[p] /\ sel = req[p].sel /\ t = req[p].time
  OBVIOUS
<1>5. /\ S \in SUBSET Rows /\ sel \in SUBSET Roles
      /\ \A r \in S : TimeOf[r] = t /\ RoleOf[r] \in RoleIds(sel)
      /\ Cardinality(S) = RoleIdsLength(sel)
  BY <1>1, <1>4 DEF TransactionInv
<1>6. RoleIds(sel) = {RoleOf[r] : r \in S}
  BY <1>5, CountSuffices
<1>7. FormsCompleted(a)' /\ selected'[a] = sel /\ RoleIds(selected[a])' = RoleIds(sel)
  BY <1>1, <1>4 DEF FormsCompleted, applicantVars, RoleIds
<1> QED
  BY <1>1, <1>3, <1>4, <1>6, <1>7 DEF Fits

(* and that a rebooking which finds nothing to do is right about it. *)
LEMMA SameSlotFits ==
  ASSUME UniqueRows, NEW p \in Requests, SlotInv, Undisturbed, ReadsHold(p),
         pc[p] = "read", req[p].unread = {}, req[p].complete, req[p].sel # {},
         IsRebookSameSlot(p), NEW a, a = req[p].app
  PROVE  Fits(a)
<1>1. /\ RequestsOK /\ a \in Applicants
      /\ req[p].seen = HeldBy(a) /\ req[p].sel = selected[a] /\ FormsCompleted(a)
      /\ req[p].seen \in SUBSET Rows /\ req[p].sel \in SUBSET Roles
  BY DEF SlotInv, IInv, TypeOK, RequestsOK, RequestType, ReadsHold
<1>2. OneTime(HeldBy(a))
  BY <1>1 DEF SlotInv, Due, Undisturbed
<1>3. CASE HeldBy(a) = {}
  BY <1>3 DEF Fits
<1>4. CASE HeldBy(a) # {}
  <2>1. PICK x \in HeldBy(a) : TRUE
    BY <1>4
  <2>2. PICK S, sel, t : S = req[p].seen /\ sel = req[p].sel /\ t = TimeOf[x]
    OBVIOUS
  <2>3. /\ S \in SUBSET Rows /\ sel \in SUBSET Roles
        /\ \A r \in S : TimeOf[r] = t /\ RoleOf[r] \in RoleIds(sel)
        /\ Cardinality(S) = RoleIdsLength(sel)
    BY <1>1, <1>2, <2>1, <2>2 DEF OneTime, IsRebookSameSlot
  <2>4. RoleIds(sel) = {RoleOf[r] : r \in S}
    BY <2>3, CountSuffices
  <2> QED
    BY <1>1, <2>2, <2>4 DEF Fits
<1> QED
  BY <1>3, <1>4

LEMMA OwnFits ==
  ASSUME UniqueRows, NEW p \in Requests, SlotInv, Undisturbed, ReadsHold(p), Step(p),
         NEW a \in Applicants, a = req[p].app, Fits(a) \/ Moving(a)
  PROVE  Fits(a)' \/ Moving(a)'
<1> DEFINE Moves == req[p].kind \in {"rebook", "cancel"} /\ pc[p] \notin {"store", "storing"}
<1>1. /\ RequestsOK /\ TransactionInv(p) /\ AllFound(p) /\ UNCHANGED applicantVars
  BY StepsKeepApplicants DEF SlotInv, IInv, TypeOK
<1>2. Fits(a) \/ Moves
  BY SentinelsAssumption DEF SlotInv, OneRequestEach, Moving
<1>3. ASSUME Fits(a), UNCHANGED holder PROVE Fits(a)'
  BY <1>1, <1>3, FitsKept DEF HeldBy, applicantVars
<1>4. ASSUME Moves, pc'[p] \notin {"idle", "store", "storing"}
      PROVE  Moving(a)'
  <2>1. /\ req'[p].app = a /\ req'[p].kind \in {req[p].kind, "cancel"}
    BY <1>1, <1>4, AppKept
  <2> QED
    BY <1>4, <2>1 DEF Moving
<1> HIDE DEF Moves
<1>5. ASSUME UNCHANGED holder, pc'[p] \notin {"idle", "store", "storing"}
      PROVE  Fits(a)' \/ Moving(a)'
  BY <1>2, <1>3, <1>4, <1>5
<1>6. ASSUME UNCHANGED holder, Throw(p), InTransaction(p) PROVE Fits(a)' \/ Moving(a)'
  <2>1. CASE req[p].kind = "rebook"
    <3>1. pc'[p] = "find"
      BY <1>1, <1>6, <2>1 DEF Throw, Goto, RequestsOK
    <3> QED
      BY <1>5, <1>6, <3>1
  <2>2. CASE req[p].kind = "book"
    BY <1>2, <1>3, <1>6, <2>2 DEF Moves
  <2> QED
    BY <1>6, <2>1, <2>2 DEF InTransaction
<1>7. CASE ReadSlots(p) \/ ReadForms(p) \/ ReadRoles(p) \/ FindEvent(p) \/ RemoveEvent(p)
             \/ ScanCancel(p) \/ ScanBook(p) \/ ScanStamp(p)
  <2>1. UNCHANGED holder /\ pc'[p] \notin {"idle", "store", "storing"}
    BY <1>1, <1>7 DEF ReadSlots, ReadForms, ReadRoles, FindEvent, RemoveEvent, ScanCancel,
                      ScanBook, ScanStamp, Goto, RequestsOK, slotVars
  <2> QED
    BY <1>5, <2>1
<1>8. CASE CheckBooking(p)
  <2>1. UNCHANGED holder /\ pc[p] = "read" /\ InTransaction(p)
    BY <1>8 DEF CheckBooking, ReadsHold, slotVars
  <2>2. CASE Goto(p, "find")
    BY <1>1, <1>5, <2>1, <2>2 DEF Goto, RequestsOK
  <2>3. CASE Throw(p)
    BY <1>6, <2>1, <2>3
  <2>4. CASE IsRebookSameSlot(p) /\ req[p].complete /\ req[p].sel # {} /\ req[p].unread = {}
    BY <1>3, <2>1, <2>4, SameSlotFits
  <2> QED
    BY <1>8, <2>2, <2>3, <2>4 DEF CheckBooking
<1>9. CASE WriteCancel(p)
  <2>1. CASE InTransaction(p)
    BY <1>1, <1>5, <1>9, <2>1 DEF WriteCancel, Goto, RequestsOK
  <2>2. CASE ~InTransaction(p)
    <3>1. Due(a)' = {} /\ interviewed' = {}
      BY <1>9, <2>2, WriteCancelSlots DEF WriteCancel, Undisturbed
    <3> QED
      BY <3>1 DEF Due, Fits
  <2> QED
    BY <2>1, <2>2
<1>10. CASE WriteBook(p) \/ CreateEvent(p)
  <2>1. UNCHANGED holder /\ InTransaction(p) /\ pc[p] \in {"booking", "create"}
    BY <1>1, <1>10 DEF WriteBook, CreateEvent, TransactionInv, OpenSteps, slotVars
  <2>2. CASE Throw(p)
    BY <1>6, <2>1, <2>2
  <2>3. CASE ~Throw(p)
    <3>1. pc'[p] \in {"create", "commit"}
      BY <1>1, <1>10, <2>3 DEF WriteBook, CreateEvent, Goto, RequestsOK
    <3> QED
      BY <1>5, <2>1, <3>1
  <2> QED
    BY <2>2, <2>3
<1>11. CASE Commit(p)
  BY <1>11, CommitFits
<1>12. CASE ScanStore(p) \/ WriteStore(p) \/ WriteStamp(p)
  <2>1. ~Moves /\ UNCHANGED holder
    BY <1>1, <1>12 DEF ScanStore, WriteStore, WriteStamp, Moves, AllFound, slotVars
  <2> QED
    BY <1>2, <1>3, <2>1
<1>13. ~DeleteRows(p)
  BY DEF DeleteRows, Undisturbed
<1> QED
  BY <1>7, <1>8, <1>9, <1>10, <1>11, <1>12, <1>13 DEF Step

LEMMA MovingKept ==
  ASSUME NEW p \in Requests, NEW b, b # req[p].app, Moving(b),
         \A q \in Requests \ {p} : Still(q)
  PROVE  Moving(b)'
  BY DEF Moving, Still, Same

LEMMA RolesArrive ==
  ASSUME Peaceful, NEW p \in Requests, RolesInv, SlotInv', Undisturbed', Arrive(p)
  PROVE  RolesInv'
<1>1. /\ UNCHANGED holder /\ Arrived(p) /\ req[p].app = NoOne
      /\ RequestsOK /\ pc'[p] # "delete"
      /\ \A q \in Requests \ {p} : Still(q)
  BY Arrival, OthersStill
     DEF RolesInv, SlotInv, IInv, TypeOK, Peaceful, Undisturbed
<1>2. PICK a \in Applicants : a = req'[p].app
  BY <1>1 DEF Arrived
<1>3. /\ \A q \in Requests : req[q].app # a
      /\ \A b \in Applicants \ {a} : selected'[b] = selected[b] /\ answered'[b] = answered[b]
      /\ \A b \in Applicants : HeldBy(b)' = HeldBy(b)
  BY <1>1, <1>2 DEF Arrived, HeldBy
<1>4. ReadsHold(p)'
  BY <1>1 DEF Arrived, ReadsHold, Reads, InTransaction, DecidedSteps, OpenSteps
<1>5. ASSUME NEW q \in Requests \ {p} PROVE ReadsHold(q)'
  <2>1. PICK b : b = req[q].app
    OBVIOUS
  <2>2. pc[q] \notin {"idle", "delete"} => b \in Applicants \ {a}
    BY <1>1, <1>3, <2>1 DEF RequestsOK
  <2> QED
    BY <1>1, <1>3, <2>1, <2>2, ReadsKept DEF RolesInv
<1>6. ASSUME NEW b \in Applicants \ {a} PROVE Fits(b)' \/ Moving(b)'
  BY <1>1, <1>3, FitsKept, MovingKept, SentinelsAssumption DEF RolesInv
<1>7. Fits(a)' \/ Moving(a)'
  <2>1. Fits(a)
    BY <1>3 DEF RolesInv, Moving
  <2>2. CASE UNCHANGED applicantVars
    BY <1>3, <2>1, <2>2, FitsKept DEF applicantVars
  <2>3. CASE pc'[p] = "read" /\ req'[p].kind = "rebook"
    BY <1>2, <2>3 DEF Moving
  <2> QED
    BY <1>1, <2>2, <2>3 DEF Arrived
<1> QED
  BY <1>4, <1>5, <1>6, <1>7 DEF RolesInv

LEMMA RolesStep ==
  ASSUME UniqueRows, NEW p \in Requests, RolesInv, SlotInv', Undisturbed', Step(p)
  PROVE  RolesInv'
<1>1. /\ RequestsOK /\ UNCHANGED applicantVars /\ pc[p] # "delete"
      /\ \A q \in Requests \ {p} : Still(q)
  BY OthersStill, StepsKeepApplicants
     DEF RolesInv, SlotInv, IInv, TypeOK, Undisturbed
<1>2. \A b \in Applicants : b # req[p].app => HeldBy(b)' = HeldBy(b)
  BY OthersUntouched DEF RolesInv
<1>3. ReadsHold(p)'
  BY <1>1, OwnReads DEF RolesInv
<1>4. ASSUME NEW q \in Requests \ {p} PROVE ReadsHold(q)'
  <2>1. PICK b : b = req[q].app
    OBVIOUS
  <2>2. pc[q] \notin {"idle", "delete"} => b \in Applicants /\ b # req[p].app
    BY <1>1, <2>1, SentinelsAssumption DEF RequestsOK, RolesInv, SlotInv, OneRequestEach
  <2> QED
    BY <1>1, <1>2, <2>1, <2>2, ReadsKept DEF RolesInv, applicantVars
<1>5. ASSUME NEW b \in Applicants PROVE Fits(b)' \/ Moving(b)'
  <2>1. CASE b = req[p].app
    BY <2>1, OwnFits DEF RolesInv
  <2>2. CASE b # req[p].app
    BY <1>1, <1>2, <2>2, FitsKept, MovingKept DEF RolesInv, applicantVars
  <2> QED
    BY <2>1, <2>2
<1> QED
  BY <1>3, <1>4, <1>5 DEF RolesInv

(* Whatever happens to the rows nobody holds, and to the clock. *)
LEMMA RolesElsewhere ==
  ASSUME RolesInv, SlotInv', UNCHANGED <<interviewed, pc, req, cand, ev, txVars, applicantVars>>,
         \A a \in Applicants : HeldBy(a)' = HeldBy(a)
  PROVE  RolesInv'
<1>1. Undisturbed'
  BY DEF RolesInv, Undisturbed
<1>2. ASSUME NEW q \in Requests PROVE ReadsHold(q)'
  <2>1. PICK b : b = req[q].app
    OBVIOUS
  <2>2. RequestsOK /\ ReadsHold(q) /\ Still(q)
    BY DEF RolesInv, SlotInv, IInv, TypeOK, Still, Same, txVars
  <2>3. pc[q] \notin {"idle", "delete"} => b \in Applicants
    BY <2>1, <2>2 DEF RequestsOK
  <2> QED
    BY <2>1, <2>2, <2>3, ReadsKept DEF applicantVars
<1>3. ASSUME NEW a \in Applicants PROVE Fits(a)' \/ Moving(a)'
  BY FitsKept DEF RolesInv, Moving, applicantVars
<1> QED
  BY <1>1, <1>2, <1>3 DEF RolesInv

LEMMA RolesInvInitially == Init => RolesInv
<1> SUFFICES ASSUME Init PROVE RolesInv
  OBVIOUS
<1>1. SlotInv
  BY SlotInvInitially
<1>2. \A a \in Applicants : HeldBy(a) = {}
  BY SentinelsAssumption DEF Init, HeldBy
<1>3. \A p \in Requests : pc[p] = "idle" /\ req[p] = NoRequest
  BY DEF Init
<1> QED
  BY <1>1, <1>2, <1>3
     DEF RolesInv, Undisturbed, Init, Fits, ReadsHold, NoRequest, DecidedSteps, OpenSteps

LEMMA RolesInvKept ==
  ASSUME UniqueRows, Peaceful, RolesInv, [Next]_vars
  PROVE  RolesInv'
<1>1. SlotInv'
  BY SlotInvKept DEF Peaceful, RolesInv
<1>2. ASSUME NEW p \in Requests, Arrive(p) \/ Step(p) PROVE RolesInv'
  <2>1. Undisturbed'
    BY <1>2, UndisturbedKept DEF RolesInv
  <2> QED
    BY <1>1, <1>2, <2>1, RolesArrive, RolesStep
<1>3. ASSUME NEW S \in SUBSET Rows, AddSlot(S) PROVE RolesInv'
  <2>1. \A a \in Applicants : HeldBy(a)' = HeldBy(a)
    BY <1>1, <1>3, AddSlotSlots DEF RolesInv, SlotInv
  <2> QED
    BY <1>1, <1>3, <2>1, RolesElsewhere DEF AddSlot
<1>4. CASE Tick \/ UNCHANGED vars
  <2>1. UNCHANGED <<holder, interviewed, pc, req, cand, ev, txVars, applicantVars>>
    BY <1>4 DEF Tick, vars, slotVars
  <2> QED
    BY <1>1, <2>1, RolesElsewhere DEF HeldBy
<1> QED
  BY <1>2, <1>3, <1>4 DEF Next, Crash, Peaceful

(* Where each role has one row per time, nobody stamps or removes rows that are
   booked, and no process dies: once the requests of an applicant are answered,
   who holds a slot holds exactly the rows of the roles she now applies for, and
   has answered all their forms; however the roles and answers change, the slots
   are taken by others meanwhile, the calendar fails or the lead time runs out. *)
THEOREM BookingsFollowTheRoles ==
  UniqueRows /\ Peaceful => (Spec => []BookingsMatchRoles)
<1> SUFFICES ASSUME UniqueRows, Peaceful PROVE Spec => []BookingsMatchRoles
  OBVIOUS
<1>1. RolesInv /\ [Next]_vars => RolesInv'
  BY RolesInvKept
<1>2. RolesInv => BookingsMatchRoles
  BY DEF RolesInv, BookingsMatchRoles, Fits, Moving, AtRest
<1> QED
  BY <1>1, <1>2, RolesInvInitially, PTL DEF Spec

-------------------------------------------------------------------------------
(* The invitations in the calendar. *)

OneEvent(a) == \A r1, r2 \in HeldBy(a) : eventOf[r1] = eventOf[r2]
AllBacked(a) == \A e \in InvitesOf(a) : Backed(e)

(* Who has an invitation in the calendar and no request in flight, or one that
   has not come to her events, has it on a row she holds. *)
LEMMA BackedByRow ==
  ASSUME InvitesInv, NEW a \in Applicants, NEW e \in InvitesOf(a),
         NEW p \in Requests, req[p].app = a, pc[p] \notin {"commit", "store", "storing"}
  PROVE  \E r \in HeldBy(a) : eventOf[r] = e /\ TimeOf[r] = invite[e].time
<1>1. /\ e \in live /\ invite[e].app = a /\ e \in Events /\ Backed(e)
      /\ EventsBelongToHolder
  BY DEF InvitesOf, InvitesInv, SlotInv, IInv, TypeOK, StoresOK
<1>2. ASSUME NEW q \in Requests, ev[q] = e, pc[q] \in {"commit", "store", "storing"}
      PROVE  FALSE
  <2>1. req[q].app = a
    BY <1>1, <1>2, SentinelsAssumption DEF InvitesInv, SlotInv, IInv, EventInv
  <2> QED
    BY <1>2, <2>1, SentinelsAssumption DEF InvitesInv, SlotInv, OneRequestEach
<1>3. PICK r \in Rows : eventOf[r] = e /\ TimeOf[r] = invite[e].time
  BY <1>1, <1>2 DEF Backed
<1>4. holder[r] = a
  BY <1>1, <1>3, SentinelsAssumption DEF EventsBelongToHolder
<1> QED
  BY <1>3, <1>4 DEF HeldBy

(* A step of p that changes no event. *)
LEMMA EventsStay ==
  ASSUME InvitesInv, NEW p \in Requests, NEW a, a = req[p].app, a \in Applicants,
         UNCHANGED <<holder, eventOf, live, invite>>,
         \/ pc[p] \notin {"commit", "store", "storing"}
         \/ ev'[p] = ev[p] /\ pc'[p] \in {"commit", "store", "storing"}
  PROVE  OneEvent(a)' /\ AllBacked(a)'
<1>1. OneEvent(a)'
  BY DEF OneEvent, HeldBy, InvitesInv
<1>2. ASSUME NEW e \in InvitesOf(a)' PROVE Backed(e)'
  <2>1. e \in InvitesOf(a)
    BY <1>2 DEF InvitesOf
  <2>2. CASE pc[p] \notin {"commit", "store", "storing"}
    <3>1. PICK r \in HeldBy(a) : eventOf[r] = e /\ TimeOf[r] = invite[e].time
      BY <2>1, <2>2, BackedByRow
    <3> QED
      BY <3>1 DEF Backed, HeldBy
  <2>3. CASE ev'[p] = ev[p] /\ pc'[p] \in {"commit", "store", "storing"}
              /\ pc[p] \in {"commit", "store", "storing"}
    <3>1. e = ev[p]
      BY <2>1, <2>3 DEF InvitesInv, InvitesKnown
    <3> QED
      BY <2>3, <3>1 DEF Backed
  <2> QED
    BY <2>2, <2>3
<1> QED
  BY <1>1, <1>2 DEF AllBacked

LEMMA FinishInvites ==
  ASSUME NEW p \in Requests, RequestsOK, Finish(p) \/ Throw(p)
  PROVE  InvitesKnown(p)'
<1>1. pc'[p] \in {"idle", "find"}
  BY DEF Finish, Throw, Goto, RequestsOK
<1> QED
  BY <1>1 DEF InvitesKnown

(* The steps that look at the rows, or write no event. *)
LEMMA LookingInvites ==
  ASSUME InvitesInv, NEW p \in Requests, NEW a \in Applicants, a = req[p].app,
         UNCHANGED <<holder, eventOf, live, invite>>,
         \/ ReadSlots(p) \/ ReadForms(p) \/ ReadRoles(p) \/ CheckBooking(p)
         \/ FindEvent(p) \/ ScanCancel(p) \/ WriteCancel(p) \/ ScanBook(p)
         \/ WriteBook(p) \/ (CreateEvent(p) /\ Throw(p)) \/ ScanStore(p)
         \/ ScanStamp(p) \/ WriteStamp(p)
  PROVE  InvitesKnown(p)' /\ OneEvent(a)' /\ AllBacked(a)'
<1>1. RequestsOK /\ InvitesKnown(p) /\ AllFound(p)
  BY DEF InvitesInv, SlotInv, IInv, TypeOK
<1>2. CASE ScanStore(p)
  <2>1. /\ pc[p] = "store" /\ pc'[p] = "storing" /\ ev'[p] = ev[p]
        /\ req'[p] = req[p]
    BY <1>1, <1>2 DEF ScanStore, Goto, RequestsOK
  <2> QED
    BY <1>1, <2>1, EventsStay DEF InvitesKnown, InvitesOf, HeldBy
<1>3. CASE ~ScanStore(p)
  <2>1. pc[p] \notin {"commit", "store", "storing"}
    BY <1>3 DEF ReadSlots, ReadForms, ReadRoles, CheckBooking, FindEvent, ScanCancel,
                WriteCancel, ScanBook, WriteBook, CreateEvent, ScanStamp, WriteStamp
  <2>2. CASE Finish(p) \/ Throw(p)
    BY <1>1, <2>1, <2>2, FinishInvites, EventsStay
  <2>3. CASE pc'[p] \in {"read", "find", "stamping"}
    BY <2>1, <2>3, EventsStay DEF InvitesKnown
  <2>4. CASE FindEvent(p)
    <3>1. /\ pc[p] = "find" /\ req'[p] = req[p]
          /\ \/ pc'[p] = "cancel"
                /\ (HeldBy(a) = {} \/ \E r \in HeldBy(a) : eventOf[r] = NoEvent)
             \/ pc'[p] = "remove" /\ \E r \in HeldBy(a) : ev'[p] = eventOf[r]
      BY <1>1, <2>4 DEF FindEvent, Goto, RequestsOK
    <3>2. \A e \in InvitesOf(a) : \E r \in HeldBy(a) : eventOf[r] = e
      BY <2>1, BackedByRow
    <3>3. \A r1, r2 \in HeldBy(a) : eventOf[r1] = eventOf[r2]
      BY DEF InvitesInv
    <3>4. NoEvent \notin InvitesOf(a)
      BY SentinelsAssumption DEF InvitesOf, InvitesInv, SlotInv, IInv, TypeOK, StoresOK
    <3>5. InvitesKnown(p)'
      BY <3>1, <3>2, <3>3, <3>4 DEF InvitesKnown, InvitesOf
    <3> QED
      BY <2>1, <3>5, EventsStay
  <2>5. CASE (ScanCancel(p) \/ WriteCancel(p) \/ ScanBook(p) \/ WriteBook(p))
              /\ ~Throw(p) /\ ~Finish(p)
    <3>1. /\ pc[p] \in {"cancel", "canceling", "book", "booking"} /\ req'[p] = req[p]
          /\ pc'[p] \in {"canceling", "book", "booking", "create", "commit"}
          /\ ev'[p] = ev[p]
      BY <1>1, <2>5 DEF ScanCancel, WriteCancel, ScanBook, WriteBook, Goto, RequestsOK
    <3>2. ev[p] = NoEvent
      BY <3>1 DEF InvitesInv, SlotInv, IInv, EventInv
    <3>3. InvitesKnown(p)'
      BY <1>1, <3>1, <3>2 DEF InvitesKnown, InvitesOf
    <3> QED
      BY <2>1, <3>3, EventsStay
  <2> QED
    BY <1>1, <1>3, <2>2, <2>3, <2>4, <2>5
       DEF ReadSlots, ReadForms, ReadRoles, CheckBooking, ScanStamp, WriteStamp, Goto,
           RequestsOK
<1> QED
  BY <1>2, <1>3

LEMMA RemoveInvites ==
  ASSUME ~CalendarFails, InvitesInv, NEW p \in Requests, NEW a \in Applicants,
         a = req[p].app, RemoveEvent(p)
  PROVE  InvitesKnown(p)' /\ OneEvent(a)' /\ AllBacked(a)'
<1>1. /\ pc[p] = "remove" /\ pc'[p] = "cancel" /\ req'[p] = req[p]
      /\ InvitesOf(a) \subseteq {ev[p]} /\ live' = live \ {ev[p]}
      /\ UNCHANGED <<holder, eventOf, invite>>
  BY DEF RemoveEvent, Goto, InvitesInv, InvitesKnown, SlotInv, IInv, TypeOK, RequestsOK,
         slotVars
<1>2. InvitesOf(a)' = {}
  BY <1>1 DEF InvitesOf
<1>3. OneEvent(a)'
  BY <1>1 DEF OneEvent, HeldBy, InvitesInv
<1> QED
  BY <1>1, <1>2, <1>3 DEF InvitesKnown, AllBacked

LEMMA CreateInvites ==
  ASSUME InvitesInv, NEW p \in Requests, NEW a \in Applicants, a = req[p].app,
         CreateEvent(p), ~(Throw(p) /\ UNCHANGED calendarVars)
  PROVE  /\ InvitesKnown(p)' /\ OneEvent(a)' /\ AllBacked(a)'
         /\ \E e \in FreshEvents : /\ live' = live \cup {e} /\ invite'[e].app = a
                                   /\ \A x \in Events \ {e} : invite'[x] = invite[x]
<1>1. PICK e \in FreshEvents :
        /\ live' = live \cup {e}
        /\ invite' = [invite EXCEPT ![e] = [app |-> req[p].app, time |-> req[p].time]]
        /\ ev' = [ev EXCEPT ![p] = e]
        /\ Goto(p, "commit")
        /\ UNCHANGED <<req, cand, txVars>>
  BY DEF CreateEvent
<1>2. /\ pc[p] = "create" /\ pc'[p] = "commit" /\ req'[p] = req[p] /\ ev'[p] = e
      /\ InvitesOf(a) = {} /\ e \in Events /\ live \subseteq Events
      /\ UNCHANGED <<holder, eventOf>>
  BY <1>1 DEF CreateEvent, Goto, InvitesInv, InvitesKnown, SlotInv, IInv, TypeOK, RequestsOK,
              StoresOK, FreshEvents, slotVars
<1>3. /\ invite'[e].app = a /\ invite'[e].time = req[p].time
      /\ \A x \in Events \ {e} : invite'[x] = invite[x]
  BY <1>1, <1>2 DEF InvitesInv, SlotInv, IInv, TypeOK, StoresOK
<1>4. InvitesOf(a)' \subseteq {e}
  BY <1>1, <1>2, <1>3 DEF InvitesOf
<1>5. OneEvent(a)'
  BY <1>2 DEF OneEvent, HeldBy, InvitesInv
<1> QED
  BY <1>1, <1>2, <1>3, <1>4, <1>5 DEF InvitesKnown, AllBacked, Backed

LEMMA CommitInvites ==
  ASSUME InvitesInv, NEW p \in Requests, NEW a \in Applicants, a = req[p].app, Commit(p)
  PROVE  InvitesKnown(p)' /\ OneEvent(a)' /\ AllBacked(a)'
<1>1. /\ pc[p] = "commit" /\ RequestsOK /\ TransactionInv(p) /\ InvitesKnown(p)
      /\ EventsBelongToHolder /\ interviewed = {} /\ interviewed' = {}
      /\ freed[p] \in SUBSET Rows /\ taken[p] \in SUBSET Rows /\ live \subseteq Events
      /\ UNCHANGED <<live, invite>>
  BY DEF Commit, InvitesInv, SlotInv, IInv, TypeOK, RequestsOK, StoresOK, Undisturbed,
         calendarVars
<1>2. HeldBy(a)' = taken[p]
  BY <1>1, CommitSlots DEF Due, InvitesInv
<1>3. \A r \in taken[p] : eventOf'[r] = NoEvent
  BY <1>1, SentinelsAssumption DEF Commit, ClearEvents, TransactionInv, HeldBy,
                                   EventsBelongToHolder
<1>4. OneEvent(a)'
  BY <1>2, <1>3 DEF OneEvent
<1>5. taken[p] # {}
  BY <1>1, SomethingTaken DEF TransactionInv, DecidedSteps, OpenSteps
<1>6. InvitesOf(a)' = InvitesOf(a) /\ InvitesOf(a) \subseteq {ev[p]}
  BY <1>1 DEF InvitesOf, InvitesKnown
<1>7. CASE ev[p] = NoEvent
  <2>1. InvitesOf(a) = {}
    BY <1>1, <1>6, <1>7, SentinelsAssumption DEF InvitesOf
  <2>2. InvitesKnown(p)'
    BY <1>1, <1>7, FinishInvites DEF Commit
  <2> QED
    BY <1>4, <1>6, <2>1, <2>2 DEF AllBacked
<1>8. CASE ev[p] # NoEvent
  <2>1. pc'[p] = "store" /\ ev'[p] = ev[p] /\ req'[p] = req[p]
    BY <1>1, <1>8 DEF Commit, Goto, RequestsOK
  <2>2. invite'[ev[p]].time = req[p].time /\ \A r \in taken[p] : TimeOf[r] = req[p].time
    BY <1>1, <1>8 DEF InvitesKnown, TransactionInv
  <2> QED
    BY <1>2, <1>4, <1>5, <1>6, <2>1, <2>2 DEF InvitesKnown, AllBacked, Backed
<1> QED
  BY <1>7, <1>8

LEMMA StoreInvites ==
  ASSUME InvitesInv, NEW p \in Requests, NEW a \in Applicants, a = req[p].app, WriteStore(p)
  PROVE  InvitesKnown(p)' /\ OneEvent(a)' /\ AllBacked(a)'
<1>1. /\ pc[p] = "storing" /\ RequestsOK /\ freed[p] = {} /\ taken[p] = {}
      /\ HeldBy(a) \subseteq cand[p] /\ HeldBy(a) # {}
      /\ \A r \in HeldBy(a) : TimeOf[r] = invite[ev[p]].time
      /\ InvitesOf(a) \subseteq {ev[p]}
      /\ UNCHANGED <<holder, live, invite>>
  BY DEF WriteStore, InvitesInv, InvitesKnown, SlotInv, AllFound, IInv, TypeOK,
         TransactionInv, OpenSteps, calendarVars
<1>2. \A r \in HeldBy(a) : r \in Rows /\ eventOf'[r] = ev[p]
  BY <1>1 DEF WriteStore, Owned, View, HeldBy
<1>3. InvitesKnown(p)'
  BY <1>1, FinishInvites DEF WriteStore
<1>4. HeldBy(a)' = HeldBy(a) /\ InvitesOf(a)' = InvitesOf(a)
  BY <1>1 DEF HeldBy, InvitesOf
<1>5. OneEvent(a)'
  BY <1>2, <1>4 DEF OneEvent
<1>6. PICK r \in HeldBy(a) : TRUE
  BY <1>1
<1>7. \A e \in InvitesOf(a) : eventOf'[r] = e /\ TimeOf[r] = invite'[e].time /\ r \in Rows
  BY <1>1, <1>2, <1>6
<1> QED
  BY <1>3, <1>4, <1>5, <1>7 DEF AllBacked, Backed

LEMMA CancelInvites ==
  ASSUME InvitesInv, NEW p \in Requests, NEW a \in Applicants, a = req[p].app,
         WriteCancel(p)
  PROVE  InvitesKnown(p)' /\ OneEvent(a)' /\ AllBacked(a)'
<1>1. CASE InTransaction(p)
  BY <1>1, LookingInvites DEF WriteCancel, calendarVars
<1>2. CASE ~InTransaction(p)
  <2>1. /\ pc[p] = "canceling" /\ RequestsOK /\ Finish(p) /\ UNCHANGED <<live, invite>>
        /\ InvitesOf(a) = {} /\ interviewed' = {}
    BY <1>2 DEF WriteCancel, InvitesInv, InvitesKnown, SlotInv, IInv, TypeOK,
                Undisturbed, calendarVars
  <2>2. HeldBy(a)' = {}
    <3>1. Due(a)' = {}
      BY <1>2, WriteCancelSlots DEF InvitesInv
    <3> QED
      BY <2>1, <3>1 DEF Due
  <2>3. InvitesOf(a)' = {}
    BY <2>1 DEF InvitesOf
  <2>4. InvitesKnown(p)'
    BY <2>1, FinishInvites
  <2> QED
    BY <2>2, <2>3, <2>4 DEF OneEvent, AllBacked
<1> QED
  BY <1>1, <1>2

(* What a step of p does to its own applicant's events, *)
LEMMA OwnInvites ==
  ASSUME ~CalendarFails, InvitesInv, NEW p \in Requests, NEW a \in Applicants,
         a = req[p].app, Step(p)
  PROVE  InvitesKnown(p)' /\ OneEvent(a)' /\ AllBacked(a)'
<1>1. CASE UNCHANGED <<holder, eventOf, live, invite>> /\ ~RemoveEvent(p)
             /\ ~Commit(p) /\ ~WriteStore(p) /\ ~DeleteRows(p)
             /\ (CreateEvent(p) => Throw(p))
  BY <1>1, LookingInvites DEF Step
<1>2. CASE CreateEvent(p) /\ Throw(p) /\ UNCHANGED calendarVars
  BY <1>2, LookingInvites DEF CreateEvent, slotVars, calendarVars
<1>3. CASE CreateEvent(p) /\ ~(Throw(p) /\ UNCHANGED calendarVars)
  BY <1>3, CreateInvites
<1>4. ~DeleteRows(p)
  BY DEF DeleteRows, InvitesInv, Undisturbed
<1>5. CASE RemoveEvent(p) \/ WriteCancel(p) \/ Commit(p) \/ WriteStore(p)
  BY <1>5, RemoveInvites, CancelInvites, CommitInvites, StoreInvites
<1>6. CASE ReadSlots(p) \/ ReadForms(p) \/ ReadRoles(p) \/ CheckBooking(p)
             \/ FindEvent(p) \/ ScanCancel(p) \/ ScanBook(p)
             \/ WriteBook(p) \/ ScanStore(p) \/ ScanStamp(p) \/ WriteStamp(p)
  <2>1. UNCHANGED <<holder, eventOf, live, invite>>
    BY <1>6 DEF ReadSlots, ReadForms, ReadRoles, CheckBooking, FindEvent, ScanCancel,
                ScanBook, WriteBook, ScanStore, ScanStamp, WriteStamp, slotVars, calendarVars
  <2> QED
    BY <1>6, <2>1, LookingInvites
<1> QED
  BY <1>2, <1>3, <1>4, <1>5, <1>6 DEF Step

(* and to the calendar as a whole. *)
LEMMA CalendarSteps ==
  ASSUME InvitesInv, NEW p \in Requests, Step(p)
  PROVE  \/ live' \subseteq live /\ invite' = invite
         \/ \E e \in FreshEvents : /\ live' = live \cup {e} /\ invite'[e].app = req[p].app
                                   /\ req[p].app \in Applicants
                                   /\ \A x \in Events \ {e} : invite'[x] = invite[x]
<1>1. CASE CreateEvent(p) /\ ~(Throw(p) /\ UNCHANGED calendarVars)
  <2>1. req[p].app \in Applicants
    BY <1>1 DEF CreateEvent, InvitesInv, SlotInv, IInv, TypeOK, RequestsOK
  <2> QED
    BY <1>1, <2>1, CreateInvites
<1>2. CASE RemoveEvent(p)
  BY <1>2 DEF RemoveEvent
<1>3. CASE UNCHANGED calendarVars
  BY <1>3 DEF calendarVars
<1> QED
  BY <1>1, <1>2, <1>3
     DEF Step, ReadSlots, ReadForms, ReadRoles, CheckBooking, FindEvent, ScanCancel,
         WriteCancel, ScanBook, WriteBook, CreateEvent, Commit, ScanStore, WriteStore,
         ScanStamp, WriteStamp, DeleteRows

(* The rest of another applicant's, who has her rows and events still. *)
LEMMA OtherInvites ==
  ASSUME InvitesInv, NEW b \in Applicants, HeldBy(b)' = HeldBy(b),
         \A r \in HeldBy(b) : eventOf'[r] = eventOf[r],
         InvitesOf(b)' \subseteq InvitesOf(b),
         \A e \in live \cup {ev[q] : q \in Requests} :
           e # NoEvent => invite'[e] = invite[e],
         \A q \in Requests : req[q].app = b => Still(q)
  PROVE  /\ OneEvent(b)' /\ AllBacked(b)'
         /\ \A q \in Requests : req[q].app = b => InvitesKnown(q)'
<1>1. OneEvent(b)'
  BY DEF OneEvent, InvitesInv
<1>2. ASSUME NEW e \in InvitesOf(b)' PROVE Backed(e)'
  <2>1. /\ e \in live /\ invite[e].app = b /\ e \in Events /\ Backed(e) /\ e # NoEvent
        /\ EventsBelongToHolder
    BY <1>2, SentinelsAssumption DEF InvitesOf, InvitesInv, SlotInv, IInv, TypeOK, StoresOK
  <2>2. invite'[e] = invite[e]
    BY <2>1
  <2>3. ASSUME NEW r \in Rows, eventOf[r] = e, TimeOf[r] = invite[e].time
        PROVE  Backed(e)'
    <3>1. r \in HeldBy(b)
      BY <2>1, <2>3 DEF EventsBelongToHolder, HeldBy
    <3> QED
      BY <2>2, <2>3, <3>1 DEF Backed
  <2>4. ASSUME NEW q \in Requests, ev[q] = e, pc[q] \in {"commit", "store", "storing"}
        PROVE  Backed(e)'
    <3>1. req[q].app = b
      BY <2>1, <2>4 DEF InvitesInv, SlotInv, IInv, EventInv
    <3> QED
      BY <2>4, <3>1 DEF Backed, Still, Same
  <2> QED
    BY <2>1, <2>3, <2>4 DEF Backed
<1>3. ASSUME NEW q \in Requests, req[q].app = b PROVE InvitesKnown(q)'
  <2>1. /\ InvitesKnown(q) /\ pc'[q] = pc[q] /\ req'[q] = req[q] /\ ev'[q] = ev[q]
        /\ pc[q] \in {"store", "storing"} => ev[q] # NoEvent
        /\ ev[q] # NoEvent => invite'[ev[q]] = invite[ev[q]]
    BY <1>3 DEF Still, Same, InvitesInv, SlotInv, IInv, EventInv
  <2> QED
    BY <1>3, <2>1 DEF InvitesKnown
<1> QED
  BY <1>1, <1>2, <1>3 DEF AllBacked

LEMMA InvitesGather ==
  ASSUME InvitesInv, SlotInv', Undisturbed',
         \A a \in Applicants : OneEvent(a)' /\ AllBacked(a)',
         \A q \in Requests : InvitesKnown(q)',
         \A e \in live' : invite'[e].app \in Applicants
  PROVE  InvitesInv'
<1>1. \A e \in live' : Backed(e)'
  BY DEF AllBacked, InvitesOf
<1> QED
  BY <1>1 DEF InvitesInv, OneEvent

LEMMA InvitesStep ==
  ASSUME ~CalendarFails, NEW p \in Requests, InvitesInv, SlotInv', Undisturbed', Step(p)
  PROVE  InvitesInv'
<1>1. /\ RequestsOK /\ pc[p] # "delete" /\ live \subseteq Events
      /\ \A q \in Requests \ {p} : Still(q)
      /\ \A q \in Requests : ev[q] \in Events \cup {NoEvent}
      /\ \A e \in live : invite[e].app \in Applicants
  BY OthersStill DEF InvitesInv, SlotInv, IInv, TypeOK, RequestsOK, StoresOK, Undisturbed
<1>2. PICK a \in Applicants : a = req[p].app
  <2>1. pc[p] # "idle"
    BY DEF Step, ReadSlots, ReadForms, ReadRoles, CheckBooking, FindEvent, RemoveEvent,
           ScanCancel, WriteCancel, ScanBook, WriteBook, CreateEvent, Commit, ScanStore,
           WriteStore, ScanStamp, WriteStamp, DeleteRows
  <2> QED
    BY <1>1, <2>1 DEF RequestsOK
<1>3. InvitesKnown(p)' /\ OneEvent(a)' /\ AllBacked(a)'
  BY <1>2, OwnInvites
<1>4. /\ \A e \in live' : invite'[e].app \in Applicants
      /\ \A e \in live \cup {ev[q] : q \in Requests} : e # NoEvent => invite'[e] = invite[e]
      /\ \A b \in Applicants \ {a} : InvitesOf(b)' \subseteq InvitesOf(b)
  <2>1. CASE live' \subseteq live /\ invite' = invite
    BY <1>1, <2>1 DEF InvitesOf
  <2>2. CASE \E e \in FreshEvents : /\ live' = live \cup {e} /\ invite'[e].app = a
                                    /\ \A x \in Events \ {e} : invite'[x] = invite[x]
    <3>1. PICK e \in FreshEvents : /\ live' = live \cup {e} /\ invite'[e].app = a
                                   /\ \A x \in Events \ {e} : invite'[x] = invite[x]
      BY <2>2
    <3>2. e \notin live /\ \A q \in Requests : ev[q] # e
      BY DEF FreshEvents
    <3>3. \A x \in live \cup {ev[q] : q \in Requests} : x # NoEvent => x \in Events \ {e}
      BY <1>1, <3>2
    <3> QED
      BY <1>1, <3>1, <3>3 DEF InvitesOf
  <2> QED
    BY <1>2, <2>1, <2>2, CalendarSteps
<1>5. ASSUME NEW b \in Applicants \ {a}
      PROVE  /\ OneEvent(b)' /\ AllBacked(b)'
             /\ \A q \in Requests : req[q].app = b => InvitesKnown(q)'
  <2>1. HeldBy(b)' = HeldBy(b) /\ \A r \in HeldBy(b) : eventOf'[r] = eventOf[r]
    BY <1>2, OthersUntouched DEF InvitesInv
  <2>2. \A q \in Requests : req[q].app = b => Still(q)
    BY <1>1, <1>2
  <2> QED
    BY <1>4, <2>1, <2>2, OtherInvites
<1>6. ASSUME NEW q \in Requests \ {p} PROVE InvitesKnown(q)'
  <2>1. CASE pc[q] \in {"idle", "delete"}
    BY <1>1, <2>1 DEF InvitesKnown, Still, Same
  <2>2. CASE pc[q] \notin {"idle", "delete"}
    <3>1. req[q].app \in Applicants \ {a}
      BY <1>1, <1>2, <2>2, SentinelsAssumption DEF RequestsOK, InvitesInv, SlotInv,
                                                   OneRequestEach
    <3> QED
      BY <1>5, <3>1
  <2> QED
    BY <2>1, <2>2
<1> QED
  BY <1>3, <1>4, <1>5, <1>6, InvitesGather

LEMMA InvitesArrive ==
  ASSUME Peaceful, NEW p \in Requests, InvitesInv, SlotInv', Undisturbed', Arrive(p)
  PROVE  InvitesInv'
<1>1. /\ UNCHANGED <<holder, eventOf, live, invite>> /\ Arrived(p) /\ req[p].app = NoOne
      /\ \A q \in Requests \ {p} : Still(q) /\ RequestsOK
  BY Arrival, OthersStill DEF InvitesInv, SlotInv, IInv, TypeOK, Peaceful
<1>2. /\ \A b \in Applicants : HeldBy(b)' = HeldBy(b) /\ InvitesOf(b)' = InvitesOf(b)
      /\ \A b \in Applicants, q \in Requests : req[q].app = b => Still(q)
  BY <1>1, SentinelsAssumption DEF HeldBy, InvitesOf
<1>3. ASSUME NEW b \in Applicants
      PROVE  /\ OneEvent(b)' /\ AllBacked(b)'
             /\ \A q \in Requests : req[q].app = b => InvitesKnown(q)'
  BY <1>1, <1>2, OtherInvites
<1>4. InvitesKnown(p)'
  BY <1>1 DEF Arrived, InvitesKnown
<1>5. ASSUME NEW q \in Requests \ {p} PROVE InvitesKnown(q)'
  <2>1. CASE pc[q] \in {"idle", "delete"}
    BY <1>1, <2>1 DEF InvitesKnown, Still, Same
  <2>2. CASE pc[q] \notin {"idle", "delete"}
    <3>1. req[q].app \in Applicants
      BY <1>1, <2>2 DEF RequestsOK
    <3> QED
      BY <1>3, <3>1
  <2> QED
    BY <2>1, <2>2
<1>6. \A e \in live' : invite'[e].app \in Applicants
  BY <1>1 DEF InvitesInv
<1> QED
  BY <1>3, <1>4, <1>5, <1>6, InvitesGather

LEMMA InvitesElsewhere ==
  ASSUME InvitesInv, SlotInv',
         UNCHANGED <<interviewed, eventOf, live, invite, pc, req, cand, ev, txVars>>,
         \A a \in Applicants : HeldBy(a)' = HeldBy(a)
  PROVE  InvitesInv'
<1>1. Undisturbed' /\ RequestsOK
  BY DEF InvitesInv, Undisturbed, SlotInv, IInv, TypeOK
<1>2. \A q \in Requests : Still(q)
  BY DEF Still, Same, txVars
<1>3. ASSUME NEW b \in Applicants
      PROVE  /\ OneEvent(b)' /\ AllBacked(b)'
             /\ \A q \in Requests : req[q].app = b => InvitesKnown(q)'
  <2>1. InvitesOf(b)' = InvitesOf(b)
    BY DEF InvitesOf
  <2> QED
    BY <1>2, <2>1, OtherInvites
<1>4. ASSUME NEW q \in Requests PROVE InvitesKnown(q)'
  <2>1. CASE pc[q] \in {"idle", "delete"}
    BY <1>2, <2>1 DEF InvitesKnown, Still, Same
  <2>2. CASE pc[q] \notin {"idle", "delete"}
    <3>1. req[q].app \in Applicants
      BY <1>1, <2>2 DEF RequestsOK
    <3> QED
      BY <1>3, <3>1
  <2> QED
    BY <2>1, <2>2
<1>5. \A e \in live' : invite'[e].app \in Applicants
  BY DEF InvitesInv
<1> QED
  BY <1>1, <1>3, <1>4, <1>5, InvitesGather

LEMMA InvitesInvInitially == Init => InvitesInv
<1> SUFFICES ASSUME Init PROVE InvitesInv
  OBVIOUS
<1>1. SlotInv
  BY SlotInvInitially
<1>2. \A p \in Requests : pc[p] = "idle" /\ req[p] = NoRequest
  BY DEF Init
<1> QED
  BY <1>1, <1>2 DEF InvitesInv, Undisturbed, Init, InvitesKnown, NoRequest, HeldBy

LEMMA InvitesInvKept ==
  ASSUME Peaceful, ~CalendarFails, InvitesInv, [Next]_vars
  PROVE  InvitesInv'
<1>1. SlotInv'
  BY SlotInvKept DEF Peaceful, InvitesInv
<1>2. ASSUME NEW p \in Requests, Arrive(p) \/ Step(p) PROVE InvitesInv'
  <2>1. Undisturbed'
    BY <1>2, UndisturbedKept DEF InvitesInv
  <2> QED
    BY <1>1, <1>2, <2>1, InvitesArrive, InvitesStep
<1>3. ASSUME NEW S \in SUBSET Rows, AddSlot(S) PROVE InvitesInv'
  <2>1. \A a \in Applicants : HeldBy(a)' = HeldBy(a)
    BY <1>1, <1>3, AddSlotSlots DEF InvitesInv, SlotInv
  <2> QED
    BY <1>1, <1>3, <2>1, InvitesElsewhere DEF AddSlot, calendarVars
<1>4. CASE Tick \/ UNCHANGED vars
  <2>1. UNCHANGED <<holder, interviewed, eventOf, live, invite, pc, req, cand, ev, txVars>>
    BY <1>4 DEF Tick, vars, slotVars, calendarVars
  <2> QED
    BY <1>1, <2>1, InvitesElsewhere DEF HeldBy
<1> QED
  BY <1>2, <1>3, <1>4 DEF Next, Crash, Peaceful

(* If no call to the calendar fails, nobody stamps or removes rows that are
   booked, and no process dies: once the requests of an applicant are answered,
   every event of hers in the calendar is the one stored on a row she holds, at
   the time of the row, although events are created before the booking commits,
   removed before the cancellation does, and stored after it; whatever other
   applicants do at the same time. *)
THEOREM InvitationsAreBooked ==
  Peaceful /\ ~CalendarFails => (Spec => []NoOrphanEvent)
<1> SUFFICES ASSUME Peaceful, ~CalendarFails PROVE Spec => []NoOrphanEvent
  OBVIOUS
<1>1. InvitesInv /\ [Next]_vars => InvitesInv'
  BY InvitesInvKept
<1>2. ASSUME InvitesInv PROVE NoOrphanEvent
  <2> SUFFICES ASSUME NEW e \in live, AtRest(invite[e].app)
               PROVE  \E r \in Rows : eventOf[r] = e /\ TimeOf[r] = invite[e].time
    BY DEF NoOrphanEvent
  <2>1. Backed(e) /\ e # NoEvent
    BY <1>2, SentinelsAssumption DEF InvitesInv, SlotInv, IInv, TypeOK, StoresOK
  <2>2. ASSUME NEW q \in Requests, ev[q] = e, pc[q] \in {"commit", "store", "storing"}
        PROVE  FALSE
    <3>1. invite[e].app = req[q].app
      BY <1>2, <2>1, <2>2 DEF InvitesInv, SlotInv, IInv, EventInv
    <3> QED
      BY <3>1 DEF AtRest
  <2> QED
    BY <2>1, <2>2 DEF Backed
<1> QED
  BY <1>1, <1>2, InvitesInvInitially, PTL DEF Spec
=============================================================================
