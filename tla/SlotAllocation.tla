---------------------------- MODULE SlotAllocation ----------------------------
(***************************************************************************)
(* What the interview-slot table promises its users, whatever the          *)
(* interleaving of requests, transactions and crashes behind it.           *)
(*                                                                         *)
(* A row is a place in the calendar of one recruiting role. Applicants     *)
(* take free rows, several in one step and never half of them; they give   *)
(* back only rows that were not yet stamped as interviewed; nobody takes   *)
(* a row from somebody else. RecruitInterview implements this.             *)
(***************************************************************************)
CONSTANTS
  Applicants,   \* who may hold a row
  Rows,         \* identities of slot rows
  TimeOf,       \* the time range of a row
  NoOne,        \* holder of a free row
  Absent        \* "holder" of a row that is not in the table

VARIABLES
  holder,       \* who holds each row
  interviewed   \* rows stamped as interviewed

vars == <<holder, interviewed>>

HeldBy(a) == {r \in Rows : holder[r] = a}
Free == HeldBy(NoOne)

Init ==
  /\ holder \in [Rows -> {NoOne, Absent}]
  /\ interviewed = {}

Publish(S) ==
  /\ S # {}
  /\ S \subseteq HeldBy(Absent)
  /\ holder' = [r \in Rows |-> IF r \in S THEN NoOne ELSE holder[r]]
  /\ UNCHANGED interviewed

Withdraw(S) ==
  /\ holder' = [r \in Rows |-> IF r \in S THEN Absent ELSE holder[r]]
  /\ interviewed' = interviewed \ S

Release(a, S) ==
  /\ S \subseteq HeldBy(a) \ interviewed
  /\ holder' = [r \in Rows |-> IF r \in S THEN NoOne ELSE holder[r]]
  /\ UNCHANGED interviewed

(***************************************************************************)
(* A booking: a gives back the rows of `from` and takes the rows of `to`,  *)
(* at least one and all at one time.                                       *)
(***************************************************************************)
Move(a, from, to) ==
  /\ from \subseteq HeldBy(a) \ interviewed
  /\ to \subseteq Free \cup from
  /\ to # {}
  /\ \A r1, r2 \in to : TimeOf[r1] = TimeOf[r2]
  /\ holder' = [r \in Rows |-> IF r \in to THEN a
                               ELSE IF r \in from THEN NoOne ELSE holder[r]]
  /\ UNCHANGED interviewed

Stamp(a, S) ==
  /\ S \subseteq HeldBy(a)
  /\ interviewed' = interviewed \cup S
  /\ UNCHANGED holder

Unstamp(a, S) ==
  /\ S \subseteq HeldBy(a)
  /\ interviewed' = interviewed \ S
  /\ UNCHANGED holder

Next ==
  \/ \E S \in SUBSET Rows : Publish(S) \/ Withdraw(S)
  \/ \E a \in Applicants, S \in SUBSET Rows :
        Release(a, S) \/ Stamp(a, S) \/ Unstamp(a, S)
  \/ \E a \in Applicants, from, to \in SUBSET Rows :
        Move(a, from, to)

Spec == Init /\ [][Next]_vars
===============================================================================
