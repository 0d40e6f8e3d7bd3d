------------------------------ MODULE Scheduler -------------------------------
(***************************************************************************)
(* The repeating jobs of src/scheduler. Every replica that starts removes  *)
(* the schedules that are in Redis and adds those of its configuration,    *)
(* while others that start do the same.                                    *)
(***************************************************************************)
EXTENDS Requests

CONSTANTS
  Schedules, \* keys of repeating jobs: a name and a cron pattern
  Configured \* those of the current configuration, in the order of the code

ASSUME SchedulesAssumption ==
  Configured \in Seq(Schedules)

VARIABLE scheduled \* the keys in Redis

Current == {Configured[i] : i \in 1..Len(Configured)}

SchedulerAwaits == {"removeSchedules", "addSchedules"}

SchedulerTypeOK ==
  /\ area = "scheduler" => pc \in StepsAmong(SchedulerAwaits)
  /\ scheduled \subseteq Schedules

InitScheduler ==
  scheduled \in IF area = "scheduler" THEN SUBSET Schedules ELSE {{}}

(* register, called by onModuleInit of a replica: unregister lists the keys *)
Register(p) ==
  /\ Arrives(p, "scheduler")
  /\ Accept(p, {<<"scheduler">>}, "removeSchedules", [keys |-> scheduled])
  /\ UNCHANGED scheduled

(* and removes them, together; *)
RemoveSchedule(p) ==
  /\ At(p, "removeSchedules")
  /\ \E key \in Data(p).keys :
       /\ scheduled' = scheduled \ {key}
       /\ Go(p, "removeSchedules", [keys |-> Data(p).keys \ {key}])

\* mutant: the removals are not awaited
UnregisteredUnawaited(p) ==
  /\ At(p, "removeSchedules")
  /\ Go(p, "addSchedules", [next |-> 1])
  /\ UNCHANGED scheduled
Unregistered(p) ==
  /\ At(p, "removeSchedules")
  /\ Data(p).keys = {}
  /\ Go(p, "addSchedules", [next |-> 1])
  /\ UNCHANGED scheduled

(* registerDiscordEventsNotifier adds one after the other. *)
AddSchedule(p) ==
  /\ At(p, "addSchedules")
  /\ LET i == Data(p).next IN
     IF i <= Len(Configured)
       THEN /\ scheduled' = scheduled \cup {Configured[i]}
            /\ Go(p, "addSchedules", [next |-> i + 1])
       ELSE Finish(p) /\ UNCHANGED scheduled

SchedulerNext(p) ==
  Register(p) \/ RemoveSchedule(p) \/ Unregistered(p) \/ AddSchedule(p)

-------------------------------------------------------------------------------
(* However many replicas start together and remove what others have added: once
   all of them are up, every job of the configuration is scheduled, and no job
   of an older one. *)
EveryJobIsScheduled ==
  area = "scheduler" /\ broken = {} /\ (\E p \in Requests : At(p, "done"))
    /\ (\A p \in Requests : ~InFlight(p))
  => scheduled = Current
===============================================================================
