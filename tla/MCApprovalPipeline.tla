------------------------ MODULE MCApprovalPipeline ------------------------
(* Batches and packages for the runs of ApprovalPipeline: model values.    *)
(* TLC also evaluates the calendar of Windows on samples, at every run.    *)
EXTENDS ApprovalPipeline, Windows, TLC

CONSTANTS b1, b2, p1, p2

\* No package is told from another by the code.
PackageSymmetry == Permutations(Packages)

\* Windows at both ends of the day, overnight and of zero length, on one day,
\* at the week's end and on every day, east and west of UTC; every hour of a
\* week with the midnight of the week on either side of it.
SampleWindows ==
  [days : {{0}, {2, 3}, {5, 6}, Days}, start : {0, 23}, end : {0, 3, 23},
   zone : {-5, 0, 10}]

SampleHours == -12..156

ASSUME CalendarOnSamples ==
  \A w \in SampleWindows, t \in SampleHours :
    /\ FiringOpens(t, w)
    /\ OpeningStarts(t, w)
    /\ NextOpenIsNextFiring(t, w, w.zone)
    /\ LimitsMatch(t, w, w.zone)
    /\ \A machine \in {-5, 0, 5} : HasAChance(t, w, machine)

\* With one day in the window there is one chance after its start.
ASSUME OneChanceOnSamples ==
  \A w \in {v \in SampleWindows : v.zone = 0 /\ v.end = 3}, t \in 0..23, machine \in {0, 5} :
    OneFiringPerDay(t, w, machine)

\* With the machine five hours east of the window's zone, a record deferred at
\* Monday 03:00 is announced for the Monday after, is opened before, and may
\* still be pending when its artifact is too old.
ASSUME MachineElsewhereOnSamples ==
  LET w == [days |-> {0}, start |-> 2, end |-> 3, zone |-> 0] IN
    /\ ~TriggerWithin(w, 5) /\ ~NextOpenIsNextFiring(3, w, 5) /\ ~LimitsMatch(3, w, 5)
    /\ CronFires(333, w, 5) /\ 333 < NextWindowOpen(3, w) + Week /\ 333 - 3 > Week
    /\ TriggerAgrees(w, 0)

\* Both openings of OpeningStarts are there, and a machine that is not in the
\* window's zone fires the opener outside the window.
ASSUME OpeningsOnSamples ==
  /\ \E w \in SampleWindows, t \in SampleHours :
       IsWithinWindow(t, w) /\ ~IsWithinWindow(t - 1, w) /\ ~CronFires(t, w, w.zone)
  /\ \E w \in SampleWindows, t \in SampleHours :
       w.start # w.end /\ CronFires(t, w, 0) /\ ~IsWithinWindow(t, w)

\* A window that does not parse, or that ends at 24:00, restricts nothing.
ASSUME ConfigsOnSamples ==
  LET Config(f, ds, sh, eh) ==
        [form |-> f, days |-> ds, startHour |-> sh, startMinute |-> 30,
         endHour |-> eh, endMinute |-> 0, zone |-> 0]
  IN  /\ \A t \in SampleHours : /\ Passes(t, Config("other", Days, 2, 3))
                                /\ Passes(t, Config("range", Days, 20, 24))
                                /\ Passes(t, Config("range", {}, 2, 3))
      /\ \E t \in SampleHours : ~Passes(t, Config("range", Days, 2, 3))
      /\ Passes(2, Config("range", Days, 2, 3))
=============================================================================
