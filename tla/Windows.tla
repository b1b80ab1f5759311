------------------------------- MODULE Windows -------------------------------
(***************************************************************************)
(* The calendar of a maintenance window: scheduling/windows.py, the cron   *)
(* trigger that scheduling/scheduler.py derives from it and the parsing of *)
(* the inventory's window in main.py.                                      *)
(*                                                                         *)
(* An instant is a number of whole hours since a Monday midnight UTC; the  *)
(* code looks at nothing finer.  A time zone is its distance from UTC in   *)
(* hours: changes to and from daylight saving time are left out.           *)
(***************************************************************************)
EXTENDS Integers

Days  == 0..6        \* Monday is 0
Hours == 0..23
Zones == -12..14
Week  == 168         \* also _EXPIRY_DAYS and _DEFERRED_MAX_ARTIFACT_AGE_HOURS

MaintenanceWindow ==
  [days : (SUBSET Days) \ {{}}, start : Hours, end : Hours, zone : Zones]

-----------------------------------------------------------------------------
(* The window *)

\* now.astimezone(tz): the hour, the weekday and the midnight of the zone.
HourOf(t, zone)   == (t + zone) % 24
DayOf(t, zone)    == ((t + zone) \div 24) % 7
Midnight(t, zone) == 24 * ((t + zone) \div 24) - zone

\* From start to before end, or around midnight; never if they are equal.
InHours(h, w) ==
  \/ w.start <= h /\ h < w.end
  \/ w.end < w.start /\ (w.start <= h \/ h < w.end)

IsWithinWindow(t, w) ==
  /\ DayOf(t, w.zone) \in w.days
  /\ InHours(HourOf(t, w.zone), w)

\* next_window_open: of the days from today to today in a week, the first that
\* is listed and whose start hour is still to come.
StartIn(d, t, w) == Midnight(t, w.zone) + 24 * d + w.start

Candidates(t, w) ==
  {d \in 0..7 : DayOf(StartIn(d, t, w), w.zone) \in w.days /\ StartIn(d, t, w) > t}

NextWindowOpen(t, w) ==
  StartIn(CHOOSE d \in Candidates(t, w) : \A e \in Candidates(t, w) : d <= e, t, w)

-----------------------------------------------------------------------------
(* The trigger of the window opener *)

\* window_start_cron names the window's days and hour; add_maintenance_job
\* makes a trigger of it that reads them in the zone of the agent's machine.
CronFires(t, w, machine) ==
  /\ DayOf(t, machine) \in w.days
  /\ HourOf(t, machine) = w.start

-----------------------------------------------------------------------------
(* The window of the inventory *)

\* A window's text is nothing, a range of two times, or something else.
WindowConfig ==
  [form : {"none", "range", "other"}, days : SUBSET Days,
   startHour : Nat, startMinute : 0..59, endHour : Nat, endMinute : 0..59,
   zone : Zones]

\* _build_maintenance_window: the window, if any, that comes of it.  Minutes
\* are dropped; what cannot be understood is no window.
Built(c) ==
  IF c.form = "range" /\ c.days # {} /\ c.startHour \in Hours /\ c.endHour \in Hours
    THEN {[days |-> c.days, start |-> c.startHour, end |-> c.endHour, zone |-> c.zone]}
    ELSE {}

\* validate_window_node: without a window every hour is fine.
Passes(t, c) == \A w \in Built(c) : IsWithinWindow(t, w)

-----------------------------------------------------------------------------
(* What should hold of it *)

\* The trigger fires when the window opens and only then, if it reads its hour
\* in the window's zone and the window has a length (windows.py: "fires exactly
\* at window open time").
FiringOpens(t, w) ==
  w.start # w.end /\ CronFires(t, w, w.zone)
    => IsWithinWindow(t, w) /\ ~IsWithinWindow(t - 1, w)

\* There is one other opening: an overnight window is open from midnight of a
\* listed day on, although the window of the day before is not listed.
OpeningStarts(t, w) ==
  IsWithinWindow(t, w) /\ ~IsWithinWindow(t - 1, w)
    => \/ CronFires(t, w, w.zone)
       \/ /\ w.end < w.start /\ HourOf(t, w.zone) = 0
          /\ DayOf(t - 1, w.zone) \notin w.days

\* The trigger fires at the starts of the window, or at least at no other hour.
\* In the window's zone it always does; one week tells.
TriggerAgrees(w, machine) ==
  \A f \in 0..(Week - 1) : CronFires(f, w, machine) <=> CronFires(f, w, w.zone)

TriggerWithin(w, machine) ==
  \A f \in 0..(Week - 1) : CronFires(f, w, machine) => CronFires(f, w, w.zone)

\* The start that a deferral is recorded and announced with is the opener's
\* next firing: none comes before it.
NextOpenIsNextFiring(t, w, machine) ==
  LET next == NextWindowOpen(t, w) IN
    /\ t < next /\ next <= t + Week
    /\ CronFires(next, w, machine)
    /\ \A f \in (t + 1)..(next - 1) : ~CronFires(f, w, machine)

\* A record deferred at t expires a week after its window start; the artifact
\* it holds is refused when it is more than a week older than its approval.
\* The second limit never bites before the first: what the opener still finds
\* pending when it fires can be replayed (graph.py: "7 days, matches
\* DeferredExecutionStore._EXPIRY_DAYS").
LimitsMatch(t, w, machine) ==
  \A f \in NextWindowOpen(t, w)..(NextWindowOpen(t, w) + Week - 1) :
    CronFires(f, w, machine) => f - t <= Week

\* The opener takes what is pending, whatever start it was recorded with.  One
\* firing comes before the record expires and before its artifact is too old.
HasAChance(t, w, machine) ==
  \E f \in (t + 1)..(t + Week) :
    CronFires(f, w, machine) /\ f < NextWindowOpen(t, w) + Week

\* From its window start to its expiry a deferred record sees each listed day
\* once: with one day in the window it has one chance there.
OneFiringPerDay(t, w, machine) ==
  LET next == NextWindowOpen(t, w) IN
    \A f, g \in next..(next + Week - 1) :
      CronFires(f, w, machine) /\ CronFires(g, w, machine) /\ DayOf(f, machine) = DayOf(g, machine)
        => f = g
=============================================================================
