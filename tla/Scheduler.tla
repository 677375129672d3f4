------------------------------- MODULE Scheduler -------------------------------
(***************************************************************************)
(* Scheduler (src/http/Scheduler.{h,cpp}): the points of the local calendar *)
(* that it computes, and the one-shot jobs it leaves to timers of the       *)
(* io_context.                                                             *)
(*                                                                         *)
(* Time is a number of units since a Sunday midnight, Day units to a day.    *)
(* Local time runs ahead of it by an offset that may change once: daylight   *)
(* saving time starts or ends.  The system clock and the steady clock of the *)
(* timers advance together here.                                            *)
(***************************************************************************)
EXTENDS Integers

CONSTANTS Day,      \* units of a day
          Change,   \* when the offset changes
          Shift,    \* by how much (0: it never does)
          Jobs,     \* jobs given to the scheduler
          Lead,     \* bound: how far ahead jobs are scheduled
          MaxTime   \* bound: when the clock stops unless a timer runs

ASSUME SchedulerAssumption ==
    /\ Day \in Nat \ {0}
    /\ Change \in Nat
    /\ Shift \in Int
    /\ Lead \in Nat
    /\ MaxTime \in Nat

VARIABLES now,   \* the clocks
          job    \* of each job: its stage, timestamp, delay, and when its timer is due

vars == <<now, job>>

Week == 7 * Day

\* std::localtime and std::mktime.  The scheduler keeps the tm_isdst that localtime
\* set, so mktime converts with the offset in force when the clock was read.
Offset(t) == IF t < Change THEN 0 ELSE Shift
Local(t) == t + Offset(t)
mktime(local, read) == local - Offset(read)

tm_wday(t) == (Local(t) \div Day) % 7
SecondsOfDay(t) == Local(t) % Day
LocalMidnight(t) == Local(t) - SecondsOfDay(t)

\* The remainder of C++, which has the sign of the dividend.
Rem(a, b) == IF a >= 0 THEN a % b ELSE -((-a) % b)

next_daily_point(t, time_of_day) ==
    LET desired == mktime(LocalMidnight(t) + time_of_day, t)
    IN  IF desired <= t THEN desired + Day ELSE desired

\* Mutant: a point later today is put off by a week.
DaysToAdd_NeverToday(t, wday, time_of_day) ==
    LET days == Rem(wday - tm_wday(t) + 7, 7)
    IN  IF days = 0 THEN 7 ELSE days

DaysToAdd(t, wday, time_of_day) ==
    LET days == Rem(wday - tm_wday(t) + 7, 7)
    IN  IF days = 0 /\ SecondsOfDay(t) >= time_of_day THEN 7 ELSE days

next_weekly_point(t, wday, time_of_day) ==
    mktime(LocalMidnight(t) + DaysToAdd(t, wday, time_of_day) * Day, t) + time_of_day

get_league_period == Week
current_week_point(t) == next_weekly_point(t, -6, 0)
next_week_point(t) == next_weekly_point(t, 1, 0)

-----------------------------------------------------------------------------
(* Jobs.                                                                    *)

NoJob == [stage |-> "none", at |-> 0, delay |-> 0, due |-> 0]

Init ==
    /\ now = 0
    /\ job = [j \in Jobs |-> NoJob]

\* The bound does not stop a timer that is running.
Tick ==
    /\ now < MaxTime \/ \E j \in Jobs : job[j].stage = "waiting" /\ now < job[j].due
    /\ now' = now + 1
    /\ UNCHANGED job

\* Mutant: the subtraction is the wrong way round.
DelayUntil_Swapped(timestamp) == IF timestamp > now THEN 0 ELSE now - timestamp

DelayUntil(timestamp) == IF timestamp > now THEN timestamp - now ELSE 0

\* schedule_at turns a timestamp into a delay...
schedule_at(j, timestamp) ==
    /\ job[j].stage = "none"
    /\ job' = [job EXCEPT ![j] = [stage |-> "delay", at |-> timestamp,
                                  delay |-> DelayUntil(timestamp), due |-> 0]]
    /\ UNCHANGED now

\* ...and schedule_after starts a timer with it, a little later.
schedule_after(j) ==
    /\ job[j].stage = "delay"
    /\ job' = [job EXCEPT ![j] = [@ EXCEPT !.stage = "waiting",
                                                !.due = now + job[j].delay]]
    /\ UNCHANGED now

\* The timer expires and its handler is queued.
Expire(j) ==
    /\ job[j].stage = "waiting"
    /\ now >= job[j].due
    /\ job' = [job EXCEPT ![j].stage = "queued"]
    /\ UNCHANGED now

\* Mutant: the handler runs the job only on an error.
RunJob_OnError(j) == FALSE /\ UNCHANGED vars

\* A thread of the io_context runs the handler and with it the job.
RunJob(j) ==
    /\ job[j].stage = "queued"
    /\ job' = [job EXCEPT ![j] = [@ EXCEPT !.stage = "ran", !.due = now]]
    /\ UNCHANGED now

Next ==
    \/ Tick
    \/ \E j \in Jobs :
         \/ \E ahead \in -1..Lead : schedule_at(j, now + ahead)
         \/ schedule_after(j)
         \/ Expire(j)
         \/ RunJob(j)

Spec == Init /\ [][Next]_vars

\* Time passes, expired timers are noticed and queued handlers are run.
FairSpec ==
    /\ Spec
    /\ WF_vars(Tick)
    /\ \A j \in Jobs : WF_vars(schedule_after(j)) /\ WF_vars(Expire(j)) /\ WF_vars(RunJob(j))

-----------------------------------------------------------------------------
(* Properties.                                                              *)

TimesOfDay == 0..Day - 1

JobRecord == [stage : {"none", "delay", "waiting", "queued", "ran"},
              at : Int, delay : 0..Lead, due : Nat]

\* The types of the clock and of what the timers hold.
TypeOK ==
    /\ now \in Nat
    /\ job \in [Jobs -> JobRecord]

IsDaily(t, time_of_day) == SecondsOfDay(t) = time_of_day
IsWeekly(t, wday, time_of_day) == IsDaily(t, time_of_day) /\ tm_wday(t) = wday

\* next_daily_point is at most a day ahead and, as long as the offset does not change
\* before it, the first point after now with that time of day.
DailyPointIsNext ==
    \A time_of_day \in TimesOfDay :
      LET p == next_daily_point(now, time_of_day)
      IN  /\ p > now /\ p <= now + Day
          /\ Offset(p) = Offset(now) =>
               IsDaily(p, time_of_day) /\ \A t \in now + 1..p - 1 : ~IsDaily(t, time_of_day)

\* next_weekly_point is at most a week ahead and, as long as the offset does not
\* change before it, the first point after now on that weekday at that time.  Beyond
\* a change it is off by the shift.
WeeklyPointIsNext ==
    \A wday \in 0..6, time_of_day \in TimesOfDay :
      LET p == next_weekly_point(now, wday, time_of_day)
      IN  /\ p > now /\ p <= now + Week
          /\ Offset(p) = Offset(now) =>
               IsWeekly(p, wday, time_of_day) /\ \A t \in now + 1..p - 1 : ~IsWeekly(t, wday, time_of_day)

\* The calendar points are the next ones, at any time of the day and the week, also
\* when now is such a point itself; no change of the offset puts one into the past or
\* beyond its period.
PointsAreNext == TypeOK /\ DailyPointIsNext /\ WeeklyPointIsNext

\* Although the clock is read once for the delay and once for the timer, no job
\* runs before its timestamp.
NeverEarly == \A j \in Jobs : job[j].stage = "ran" => job[j].due >= job[j].at

\* A job that was scheduled runs.
JobsRun == \A j \in Jobs : job[j].stage = "delay" ~> job[j].stage = "ran"

\* Violated: the league that is on lasts get_league_period().  On a Sunday and on
\* a Monday its start is the coming Monday, and so is its finish.
LeagueLastsItsPeriod ==
    next_week_point(now) - current_week_point(now) = get_league_period

=============================================================================
