------------------------------- MODULE Requests -------------------------------
(***************************************************************************)
(* What the handlers of the server have in common. A handler runs from one *)
(* await to the next without interruption; between them the handlers of    *)
(* other requests run, in this process or in another one, and the process  *)
(* may die. Nothing but the database survives a handler.                   *)
(*                                                                         *)
(* The server is checked one area at a time (module Server). An area has   *)
(* all the statements that write its tables: where another area writes one *)
(* of them too, it repeats that write as an action of its own. So what     *)
(* holds of each area alone holds of all together. The one exception is    *)
(* interview slots that are added or removed, which Forms leaves out and   *)
(* says why.                                                               *)
(*                                                                         *)
(* crossed and broken are history: what two requests at once were about,   *)
(* and what requests were about that died half way. Much of this code      *)
(* reads, decides and writes; what it promises, it promises to those who   *)
(* ask for one thing at a time.                                            *)
(***************************************************************************)
EXTENDS Integers, FiniteSets, Sequences, TLC

CONSTANTS
  Requests, \* that can be sent (bound)
  Areas

VARIABLES area, pc, req, crossed, broken

serverVars == <<area, pc, req, crossed, broken>>

Blank == [about |-> {}, data |-> <<>>]

InFlight(p) == pc[p] \notin {"new", "done"}
At(p, step) == pc[p] = step
Data(p) == req[p].data

(* Requests that have not arrived, have ended, or await one of these *)
StepsAmong(awaits) == [Requests -> {"new", "done"} \cup awaits]

InitRequests ==
  /\ area \in Areas
  /\ pc = [p \in Requests |-> "new"]
  /\ req = [p \in Requests |-> Blank]
  /\ crossed = {}
  /\ broken = {}

(* A row that is inserted or replaced *)
Put(table, key, row) ==
  [k \in DOMAIN table \cup {key} |-> IF k = key THEN row ELSE table[k]]

(* A row with some of its columns replaced *)
Edited(row, columns) ==
  [c \in DOMAIN row |-> IF c \in DOMAIN columns THEN columns[c] ELSE row[c]]

(* The subjects of about that a request in flight is about, too. *)
Shared(about) == {s \in about : \E q \in Requests : InFlight(q) /\ s \in req[q].about}

(* A request arrives, *)
Arrives(p, where) ==
  /\ area = where
  /\ At(p, "new")

(* and runs to its first await that matters. *)
Accept(p, about, step, data) ==
  /\ pc' = [pc EXCEPT ![p] = step]
  /\ req' = [req EXCEPT ![p] = [about |-> about, data |-> data]]
  /\ crossed' = crossed \cup Shared(about)
  /\ UNCHANGED <<area, broken>>

(* A request whose handler is a single statement. *)
Serve(p, about) ==
  /\ pc' = [pc EXCEPT ![p] = "done"]
  /\ crossed' = crossed \cup Shared(about)
  /\ UNCHANGED <<area, req, broken>>

Go(p, step, data) ==
  /\ pc' = [pc EXCEPT ![p] = step]
  /\ req' = [req EXCEPT ![p].data = data]
  /\ UNCHANGED <<area, crossed, broken>>

Finish(p) ==
  /\ pc' = [pc EXCEPT ![p] = "done"]
  /\ req' = [req EXCEPT ![p] = Blank]
  /\ UNCHANGED <<area, crossed, broken>>

(* The process dies, or the statement fails. *)
Die(p) ==
  /\ InFlight(p)
  /\ pc' = [pc EXCEPT ![p] = "done"]
  /\ req' = [req EXCEPT ![p] = Blank]
  /\ broken' = broken \cup req[p].about
  /\ UNCHANGED <<area, crossed>>
===============================================================================
