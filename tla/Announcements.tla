---------------------------- MODULE Announcements -----------------------------
(***************************************************************************)
(* The worker tells the members in Discord which events of the calendar    *)
(* start now, and which are ahead (src/discord/events-notifier). A job      *)
(* repeats by a cron pattern; each run works out its window of time from    *)
(* the clock, reads the calendar and announces what starts in the window.  *)
(* So that every event is announced once, the windows of successive runs    *)
(* must fit together, also when an attempt fails and another one works the  *)
(* window out anew.                                                        *)
(*                                                                         *)
(* moved and disturbed are history: events that were edited when it was too *)
(* late, and runs that came late, sent twice, or were not the only ones.    *)
(***************************************************************************)
EXTENDS Requests

CONSTANTS
  Meetings,     \* ids of events
  Events,       \* what an event may be: start, end, kind
  OldCalendars, \* calendars at the start (bound)
  Plans,        \* of the two kinds of announcements, see below
  Unit,         \* ticks of an interval of starting events, and of an hour
  Attempts,     \* of a job (bound)
  LastTick      \* of the clock (bound)

(* A plan runs every period and looks ahead by so many ticks, both of them whole
   units. Its window is as long as range, but for the ticks that are cut from its end. *)
ASSUME PlansAssumption ==
  /\ Unit \in Nat \ {0} /\ LastTick \in Nat
  /\ Plans # {}
  /\ \A pl \in Plans :
       /\ pl.ahead \in Nat /\ pl.ahead % Unit = 0
       /\ pl.period \in Nat \ {0} /\ pl.period % Unit = 0
       /\ pl.range = pl.period /\ pl.cut \in Nat

(* An event that has a time has a length, too. *)
ASSUME EventsAssumption ==
  /\ OldCalendars \subseteq [Meetings -> Events] /\ OldCalendars # {}
  /\ \A event \in Events :
       /\ event.start \in Int /\ event.end \in Int
       /\ event.kind = "timed" => event.start < event.end

VARIABLES
  plan,      \* which of the announcements this is about
  clock,
  calendar,  \* id -> event
  nextRun,   \* when the repeating job is due
  announced, \* id -> number of announcements
  moved,
  disturbed

announcementVars == <<plan, clock, calendar, nextRun, announced, moved, disturbed>>

AnnouncementsAwaits == {"list", "executeWebhook", "retry"}

AnnouncementsTypeOK ==
  /\ area = "announcements" => pc \in StepsAmong(AnnouncementsAwaits)
  /\ plan \in Plans
  /\ clock \in 0..LastTick
  /\ calendar \in [Meetings -> Events]
  /\ nextRun \in Nat
  /\ announced \in [Meetings -> Nat]
  /\ moved \subseteq Meetings
  /\ disturbed \subseteq Int

InitAnnouncements ==
  /\ clock = 0 /\ nextRun = 0 /\ moved = {} /\ disturbed = {}
  /\ announced = [e \in Meetings |-> 0]
  /\ IF area = "announcements" THEN plan \in Plans /\ calendar \in OldCalendars
     ELSE /\ plan = CHOOSE pl \in Plans : TRUE
          /\ calendar = CHOOSE old \in OldCalendars : TRUE

-------------------------------------------------------------------------------
(* floorInterval, and getHourAhead; and the end of the window, before which an event
   must start: ceilInterval is the last second of the interval. *)
Floor(t) == t - (t % Unit)
From(now) == Floor(now + plan.ahead)
To(now) == Floor(now + plan.ahead + plan.range) - plan.cut

(* The run that is to announce what starts at start *)
RunOf(start) == LET t == start - plan.ahead IN t - (t % plan.period)

(* The runs whose events an attempt at the time now announces *)
Reached(now) == {RunOf(start) : start \in From(now)..(To(now) - 1)}

(* The job is taken when it is due or later, and is due again at the next time that
   the pattern names. *)
NextRun(now) == now - (now % plan.period) + plan.period
StartJob(p) ==
  /\ Arrives(p, "announcements")
  /\ clock >= nextRun
  /\ Accept(p, {<<"run", nextRun>>}, "list",
            [run |-> nextRun, now |-> clock, left |-> Attempts - 1, dryrun |-> FALSE])
  /\ nextRun' = NextRun(clock)
  /\ disturbed' = disturbed \cup
       IF Floor(clock) = nextRun THEN {} ELSE nextRun..clock \cup Reached(clock)
  /\ UNCHANGED <<plan, clock, calendar, announced, moved>>

(* POST discord/starting-events, with any time, or upcoming-events, with the hours of
   the plan or others, which are not told apart from another time here *)
Trigger(p) ==
  /\ Arrives(p, "announcements")
  /\ \E now \in 0..LastTick, dryrun \in BOOLEAN :
       /\ Accept(p, {}, "list",
                 [run |-> -1, now |-> now, left |-> 0, dryrun |-> dryrun])
       /\ disturbed' = disturbed \cup
            IF dryrun THEN {} ELSE Reached(now)
  /\ UNCHANGED <<plan, clock, calendar, nextRun, announced, moved>>

(* list: events that end after from and start before to, *)
List(from, to) == {e \in Meetings : calendar[e].end > from /\ calendar[e].start < to}

(* of which interviews, and those without a time or that have begun are dropped. *)
\* mutant: events that have begun are kept
FilterOnlyTimed(from, events) == {e \in events : calendar[e].kind = "timed"}
FilterOnlyUpcomingEvents(from, events) ==
  {e \in events : calendar[e].kind = "timed" /\ calendar[e].start >= from}

ListEvents(p) ==
  /\ At(p, "list")
  /\ LET d == Data(p)
         from == From(d.now)
         events == FilterOnlyUpcomingEvents(from, List(from, To(d.now))) IN
     IF events = {} \/ d.dryrun THEN Finish(p)
     ELSE Go(p, "executeWebhook",
             [run |-> d.run, now |-> d.now, left |-> d.left, events |-> events])
  /\ UNCHANGED announcementVars

Announce(events) == announced' = [e \in Meetings |->
                      IF e \in events THEN announced[e] + 1 ELSE announced[e]]

ExecuteWebhook(p) ==
  /\ At(p, "executeWebhook")
  /\ Announce(Data(p).events)
  /\ Finish(p)
  /\ UNCHANGED <<plan, clock, calendar, nextRun, moved, disturbed>>

(* Google or Discord answers with an error, or not at all; the message may have been
   sent. The queue tries the job again. *)
AttemptFails(p) ==
  /\ At(p, "list") \/ At(p, "executeWebhook")
  /\ LET d == Data(p)
         lost == IF d.left = 0 THEN {d.run} ELSE {} IN
     /\ \/ /\ UNCHANGED announced
           /\ disturbed' = disturbed \cup lost
        \/ /\ At(p, "executeWebhook")
           /\ Announce(d.events)
           /\ disturbed' = disturbed \cup lost \cup Reached(d.now)
     /\ IF d.left = 0 THEN Finish(p)
        ELSE Go(p, "retry", [run |-> d.run, left |-> d.left - 1])
  /\ UNCHANGED <<plan, clock, calendar, nextRun, moved>>

(* The next attempt works the window out from its own time. *)
Retry(p) ==
  /\ At(p, "retry")
  /\ LET d == Data(p) IN
     /\ Go(p, "list", [run |-> d.run, now |-> clock, left |-> d.left, dryrun |-> FALSE])
     /\ disturbed' = disturbed \cup
          IF Floor(clock) = d.run THEN {} ELSE d.run..clock \cup Reached(clock)
  /\ UNCHANGED <<plan, clock, calendar, nextRun, announced, moved>>

-------------------------------------------------------------------------------
(* Somebody edits the calendar. *)
EditEvent(p) ==
  /\ Arrives(p, "announcements")
  /\ \E e \in Meetings, new \in Events :
       /\ new # calendar[e]
       /\ calendar' = [calendar EXCEPT ![e] = new]
       /\ LET runs == {RunOf(calendar[e].start), RunOf(new.start)} IN
          moved' = moved \cup
            IF \E run \in runs : run <= clock \/ run \in disturbed THEN {e} ELSE {}
       /\ Serve(p, {<<"event", e>>})
  /\ UNCHANGED <<plan, clock, nextRun, announced, disturbed>>

PassTick ==
  /\ area = "announcements"
  /\ clock < LastTick
  /\ clock' = clock + 1
  /\ UNCHANGED <<serverVars, plan, calendar, nextRun, announced, moved, disturbed>>

AnnouncementsNext(p) ==
  \/ StartJob(p) \/ Trigger(p) \/ ListEvents(p) \/ ExecuteWebhook(p) \/ AttemptFails(p)
  \/ Retry(p) \/ EditEvent(p)

-------------------------------------------------------------------------------
(* Every event that has a time and is no interview is announced by the run whose window
   it starts in, once, and by none before or after, although attempts fail and work
   the window out again. The run must begin in its interval and end; nobody may have
   asked for the same time by hand, nor a message been sent by an attempt that
   failed, nor the event been edited since the run was due. An event that starts in
   the last second of an interval, or has begun, is not announced. *)
EventsAreAnnouncedOnce ==
  area = "announcements" =>
    \A e \in Meetings \ moved :
      LET event == calendar[e]
          run == RunOf(event.start)
          due == event.kind = "timed" /\ event.start >= plan.ahead
                   /\ event.start < To(run) IN
      run \notin disturbed /\ <<"run", run>> \notin broken =>
        /\ ~due \/ run >= nextRun => announced[e] = 0
        /\ due /\ run < nextRun
             /\ (\A p \in Requests : InFlight(p) => <<"run", run>> \notin req[p].about)
           => announced[e] = 1
===============================================================================
