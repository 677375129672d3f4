---------------------------- MODULE SchedulerProofs ----------------------------
(***************************************************************************)
(* Proofs about Scheduler for any set of jobs, any length of the day and     *)
(* any change of the clock offset: no job runs before its timestamp, and the *)
(* points of the calendar are the next ones as far as the offset stays, and are *)
(* ahead by at most their period whether it does or not.                       *)
(***************************************************************************)
EXTENDS Scheduler, TLAPS

\* What carries the timestamp through the two readings of the clock: the delay
\* that was computed reaches it from any later moment, and so does the timer.
JobInv(j) ==
    /\ job[j].stage = "delay" => now + job[j].delay >= job[j].at
    /\ job[j].stage \in {"waiting", "queued", "ran"} => job[j].due >= job[j].at
    /\ job[j].stage = "queued" => now >= job[j].due

SchedulerInv == TypeOK /\ \A j \in Jobs : JobInv(j)

\* The fields keep their types: no delay is negative or beyond the bound.
LEMMA TypeStep ==
    ASSUME TypeOK, [Next]_vars
    PROVE  TypeOK'
<1> USE SchedulerAssumption DEF TypeOK
<1>1. CASE Tick
  BY <1>1 DEF Tick
<1>2. ASSUME NEW j \in Jobs, NEW ahead \in -1..Lead, schedule_at(j, now + ahead)
      PROVE  TypeOK'
  <2>1. DelayUntil(now + ahead) \in 0..Lead
    BY DEF DelayUntil
  <2> QED
    BY <1>2, <2>1 DEF schedule_at, JobRecord
<1>3. ASSUME NEW j \in Jobs, schedule_after(j)
      PROVE  TypeOK'
  <2> DEFINE started == [job[j] EXCEPT !.stage = "waiting",
                                       !.due = now + job[j].delay]
  <2>1. job[j] \in JobRecord
    OBVIOUS
  <2>2. /\ now + job[j].delay \in Nat
        /\ job[j].at \in Int
        /\ job[j].delay \in 0..Lead
    BY <2>1 DEF JobRecord
  <2>3. job' = [job EXCEPT ![j] = started]
    BY <1>3, <2>1 DEF schedule_after, JobRecord
  <2>4. started \in JobRecord
    BY <2>2 DEF JobRecord
  <2>5. now' = now
    BY <1>3 DEF schedule_after
  <2> QED
    BY <2>3, <2>4, <2>5
<1>4. ASSUME NEW j \in Jobs, Expire(j)
      PROVE  TypeOK'
  BY <1>4 DEF Expire, JobRecord
<1>5. ASSUME NEW j \in Jobs, RunJob(j)
      PROVE  TypeOK'
  BY <1>5 DEF RunJob, JobRecord
<1>6. CASE UNCHANGED vars
  BY <1>6 DEF vars
<1> QED
  BY <1>1, <1>2, <1>3, <1>4, <1>5, <1>6 DEF Next

\* A step keeps each job's timestamp within reach of its delay or timer.
LEMMA JobStep ==
    ASSUME SchedulerInv, [Next]_vars, NEW i \in Jobs
    PROVE  JobInv(i)'
<1> USE SchedulerAssumption DEF SchedulerInv, TypeOK, JobRecord, JobInv
<1>1. CASE Tick
  BY <1>1 DEF Tick
<1>2. ASSUME NEW j \in Jobs, NEW ahead \in -1..Lead, schedule_at(j, now + ahead)
      PROVE  JobInv(i)'
  <2>1. now + DelayUntil(now + ahead) >= now + ahead
    BY DEF DelayUntil
  <2> QED
    BY <1>2, <2>1 DEF schedule_at
<1>3. ASSUME NEW j \in Jobs, schedule_after(j)
      PROVE  JobInv(i)'
  BY <1>3 DEF schedule_after
<1>4. ASSUME NEW j \in Jobs, Expire(j)
      PROVE  JobInv(i)'
  BY <1>4 DEF Expire
<1>5. ASSUME NEW j \in Jobs, RunJob(j)
      PROVE  JobInv(i)'
  BY <1>5 DEF RunJob
<1>6. CASE UNCHANGED vars
  BY <1>6 DEF vars
<1> QED
  BY <1>1, <1>2, <1>3, <1>4, <1>5, <1>6 DEF Next

LEMMA InitHolds == Init => SchedulerInv
BY SchedulerAssumption DEF Init, SchedulerInv, TypeOK, JobRecord, JobInv, NoJob

\* The strengthened invariant holds throughout.
THEOREM Invariance == Spec => []SchedulerInv
<1>1. SchedulerInv /\ [Next]_vars => SchedulerInv'
  BY TypeStep, JobStep DEF SchedulerInv
<1> QED
  BY <1>1, InitHolds, PTL DEF Spec

\* No job runs before the timestamp it was scheduled for, however long schedule_at
\* takes between its own reading of the clock and the timer's.
THEOREM NoJobRunsEarly == Spec => []NeverEarly
<1>1. SchedulerInv => NeverEarly
  BY DEF SchedulerInv, JobInv, NeverEarly
<1> QED
  BY <1>1, Invariance, PTL

-----------------------------------------------------------------------------
(* Quotients and remainders.                                                *)

\* The quotient and the remainder of an integer, which may be negative.
LEMMA Division ==
    ASSUME NEW a \in Int, NEW d \in Nat \ {0}
    PROVE  /\ a \div d \in Int
           /\ a % d \in 0..d - 1
           /\ a = d * (a \div d) + (a % d)
OBVIOUS

\* A larger quotient makes a larger number, whatever the remainders.
LEMMA Larger ==
    ASSUME NEW d \in Nat \ {0}, NEW q \in Int, NEW s \in 0..d - 1,
           NEW k \in Int, NEW r \in 0..d - 1, q < k
    PROVE  d * q + s < d * k + r
<1>1. d * q + d = d * (q + 1)
  OBVIOUS
<1>2. d * (q + 1) <= d * k
  <2>1. k - (q + 1) \in Nat
    OBVIOUS
  <2>2. d * (k - (q + 1)) \in Nat
    BY <2>1
  <2>3. d * k = d * (q + 1) + d * (k - (q + 1))
    OBVIOUS
  <2> QED
    BY <2>2, <2>3
<1>3. d * q \in Int /\ d * k \in Int /\ d * (q + 1) \in Int
  OBVIOUS
<1> QED
  BY <1>1, <1>2, <1>3

\* The quotient and the remainder are the only ones.
LEMMA Unique ==
    ASSUME NEW d \in Nat \ {0}, NEW q \in Int, NEW s \in 0..d - 1
    PROVE  (d * q + s) \div d = q /\ (d * q + s) % d = s
<1> DEFINE a == d * q + s
           k == a \div d
           r == a % d
<1>1. a \in Int
  OBVIOUS
<1>2. k \in Int /\ r \in 0..d - 1 /\ a = d * k + r
  BY <1>1, Division
<1> HIDE DEF k, r
<1>3. ~(q < k)
  BY <1>2, Larger
<1>4. ~(k < q)
  BY <1>2, Larger
<1>5. k = q
  BY <1>2, <1>3, <1>4
<1>6. r = s
  BY <1>2, <1>5
<1> QED
  BY <1>5, <1>6 DEF k, r

-----------------------------------------------------------------------------
(* The calendar.                                                            *)

\* Local time as a day, counted from the first, and a second of it.
DayNumber(t) == Local(t) \div Day

LEMMA Clock ==
    ASSUME NEW t \in Int
    PROVE  /\ Offset(t) \in Int /\ Local(t) = t + Offset(t)
           /\ DayNumber(t) \in Int /\ SecondsOfDay(t) \in 0..Day - 1
           /\ Local(t) = Day * DayNumber(t) + SecondsOfDay(t)
           /\ Day * DayNumber(t) \in Int
           /\ Day \in Nat \ {0}
<1>1. Offset(t) \in Int /\ Day \in Nat \ {0}
  BY SchedulerAssumption DEF Offset
<1>2. Local(t) = t + Offset(t) /\ Local(t) \in Int
  BY <1>1 DEF Local
<1>3. /\ Local(t) \div Day \in Int
      /\ Local(t) % Day \in 0..Day - 1
      /\ Local(t) = Day * (Local(t) \div Day) + (Local(t) % Day)
  BY <1>1, <1>2, Division
<1> QED
  BY <1>1, <1>2, <1>3 DEF DayNumber, SecondsOfDay

\* A day and a second of it determine the local time.
LEMMA Reading ==
    ASSUME NEW t \in Int, NEW q \in Int, NEW s \in 0..Day - 1, Local(t) = Day * q + s
    PROVE  DayNumber(t) = q /\ SecondsOfDay(t) = s
BY SchedulerAssumption, Unique DEF DayNumber, SecondsOfDay

\* The offset changes once at most: it is the same throughout if it is the same at
\* both ends.
LEMMA SameOffset ==
    ASSUME NEW t \in Int, NEW p \in Int, Offset(p) = Offset(t),
           NEW x \in Int, t <= x, x <= p
    PROVE  Offset(x) = Offset(t)
BY SchedulerAssumption DEF Offset

\* Local time goes by days: what comes later has a later day, or a later second of
\* the same day.
LEMMA DaysInOrder ==
    ASSUME NEW t \in Int, NEW x \in Int, Local(t) < Local(x)
    PROVE  \/ DayNumber(t) < DayNumber(x)
           \/ DayNumber(t) = DayNumber(x) /\ SecondsOfDay(t) < SecondsOfDay(x)
<1> DEFINE Read(y, q, s) == /\ q \in Int /\ s \in 0..Day - 1
                           /\ Local(y) = Day * q + s /\ Local(y) \in Int /\ Day * q \in Int
<1>1. Read(t, DayNumber(t), SecondsOfDay(t))
  BY Clock
<1>2. Read(x, DayNumber(x), SecondsOfDay(x))
  BY Clock
<1> SUFFICES ASSUME NEW q, NEW s, Read(t, q, s), NEW k, NEW r, Read(x, k, r)
             PROVE  \/ q < k
                    \/ q = k /\ s < r
  BY <1>1, <1>2
<1>3. ~(k < q)
  <2> SUFFICES ASSUME k < q
               PROVE  FALSE
    OBVIOUS
  <2>1. Day * k + r < Day * q + s
    BY SchedulerAssumption, Larger
  <2> QED
    BY <2>1
<1>4. q = k => s < r
  BY SchedulerAssumption
<1> QED
  BY <1>3, <1>4

-----------------------------------------------------------------------------
(* The next daily point.                                                    *)

\* What next_daily_point computes: the point of today, or that of tomorrow if today's
\* is over.
LEMMA DailyPoint ==
    ASSUME NEW t \in Int, NEW time_of_day \in TimesOfDay
    PROVE  LET p == next_daily_point(t, time_of_day)
           IN  p = t - SecondsOfDay(t) + time_of_day
                     + (IF time_of_day <= SecondsOfDay(t) THEN Day ELSE 0)
<1>1. mktime(LocalMidnight(t) + time_of_day, t) = t - SecondsOfDay(t) + time_of_day
  BY Clock DEF mktime, LocalMidnight, TimesOfDay
<1> QED
  BY <1>1, Clock DEF next_daily_point, TimesOfDay

LEMMA DailyIsNext ==
    ASSUME NEW t \in Int, NEW time_of_day \in TimesOfDay
    PROVE  LET p == next_daily_point(t, time_of_day)
           IN  /\ p > t /\ p <= t + Day
               /\ Offset(p) = Offset(t) =>
                    IsDaily(p, time_of_day) /\ \A x \in t + 1..p - 1 : ~IsDaily(x, time_of_day)
<1> DEFINE p == next_daily_point(t, time_of_day)
           s == SecondsOfDay(t)
           q == DayNumber(t)
           n == IF time_of_day <= s THEN 1 ELSE 0
<1>1. /\ time_of_day \in 0..Day - 1 /\ s \in 0..Day - 1 /\ q \in Int
      /\ Day \in Nat \ {0} /\ Offset(t) \in Int
      /\ Local(t) = t + Offset(t) /\ Local(t) = Day * q + s /\ Day * q \in Int
  BY Clock DEF TimesOfDay
<1>2. p = t - s + time_of_day + (IF time_of_day <= s THEN Day ELSE 0)
  BY DailyPoint
<1> HIDE DEF p, s, q
<1>3. p \in Int /\ p > t /\ p <= t + Day
  BY <1>1, <1>2
<1>4. ASSUME Offset(p) = Offset(t)
      PROVE  IsDaily(p, time_of_day) /\ \A x \in t + 1..p - 1 : ~IsDaily(x, time_of_day)
  <2>1. Local(p) = Day * (q + n) + time_of_day
    <3>1. Local(p) = p + Offset(t)
      BY <1>3, <1>4, Clock
    <3>2. Day * (q + 1) = Day * q + Day /\ Day * (q + 0) = Day * q
      BY <1>1
    <3>3. CASE time_of_day <= s
      BY <1>1, <1>2, <3>1, <3>2, <3>3
    <3>4. CASE ~(time_of_day <= s)
      <4>1. n = 0 /\ q + n = q
        BY <1>1, <3>4
      <4>2. Local(p) = t - s + time_of_day + Offset(t)
        BY <1>1, <1>2, <3>1, <3>4
      <4>3. Local(p) = Day * q + time_of_day
        <5>1. \A a, b, c, d, e : a \in Int /\ b \in Int /\ c \in Int /\ d \in Int /\ e \in Int
                /\ a + d = e + b => a - b + c + d = e + c
          OBVIOUS
        <5>2. t + Offset(t) = Day * q + s /\ s \in Int /\ time_of_day \in Int
          BY <1>1
        <5>3. t - s + time_of_day + Offset(t) = Day * q + time_of_day
          BY <1>1, <5>1, <5>2
        <5> QED
          BY <4>2, <5>3
      <4> QED
        BY <4>1, <4>3
    <3> QED
      BY <3>3, <3>4
  <2>2. SecondsOfDay(p) = time_of_day /\ DayNumber(p) = q + n
    BY <1>1, <1>3, <2>1, Reading
  <2>3. ASSUME NEW x \in t + 1..p - 1, SecondsOfDay(x) = time_of_day
        PROVE  FALSE
    <3>1. x \in Int /\ t < x /\ x < p
      BY <1>3, <2>3
    <3>2. Offset(x) = Offset(t)
      BY <1>3, <1>4, <3>1, SameOffset
    <3>3. Local(t) < Local(x) /\ Local(x) < Local(p)
      BY <1>1, <1>3, <1>4, <3>1, <3>2, Clock
    <3>4. \/ q < DayNumber(x)
          \/ q = DayNumber(x) /\ s < time_of_day
      BY <2>3, <3>1, <3>3, DaysInOrder DEF q, s
    <3>5. DayNumber(x) < q + n
      BY <1>1, <1>3, <2>2, <2>3, <3>1, <3>3, DaysInOrder
    <3>6. DayNumber(x) \in Int
      BY <3>1, Clock
    <3> QED
      BY <1>1, <3>4, <3>5, <3>6
  <2> QED
    BY <2>2, <2>3 DEF IsDaily
<1> QED
  BY <1>3, <1>4 DEF p

-----------------------------------------------------------------------------
(* The next weekly point.                                                   *)

\* The days between two weekdays, as Rem computes them.
LEMMA Weekdays ==
    ASSUME NEW wday \in 0..6, NEW today \in 0..6
    PROVE  Rem(wday - today + 7, 7) = IF wday >= today THEN wday - today ELSE wday - today + 7
BY DEF Rem

LEMMA WeekdayOf ==
    ASSUME NEW t \in Int
    PROVE  tm_wday(t) \in 0..6 /\ \E w \in Int : DayNumber(t) = 7 * w + tm_wday(t)
<1>1. DayNumber(t) \in Int
  BY Clock
<1>2. tm_wday(t) = DayNumber(t) % 7
  BY DEF tm_wday, DayNumber
<1>3. \A a \in Int : a % 7 \in 0..6 /\ \E w \in Int : a = 7 * w + (a % 7)
  OBVIOUS
<1> QED
  BY <1>1, <1>2, <1>3

\* Between one and seven days ahead, or none for a point later today.
LEMMA DaysAhead ==
    ASSUME NEW t \in Int, NEW wday \in 0..6, NEW time_of_day \in TimesOfDay
    PROVE  LET n == DaysToAdd(t, wday, time_of_day)
           IN  /\ n \in 0..7
               /\ n = 0 => SecondsOfDay(t) < time_of_day
               /\ n = 7 => SecondsOfDay(t) >= time_of_day
               /\ tm_wday(t) + n = wday \/ tm_wday(t) + n = wday + 7
<1> DEFINE n0 == Rem(wday - tm_wday(t) + 7, 7)
<1>1. tm_wday(t) \in 0..6
  BY WeekdayOf
<1>2. n0 = IF wday >= tm_wday(t) THEN wday - tm_wday(t) ELSE wday - tm_wday(t) + 7
  BY <1>1, Weekdays
<1>3. DaysToAdd(t, wday, time_of_day)
        = IF n0 = 0 /\ SecondsOfDay(t) >= time_of_day THEN 7 ELSE n0
  BY DEF DaysToAdd
<1>4. SecondsOfDay(t) \in Int /\ time_of_day \in Int
  BY Clock DEF TimesOfDay
<1> HIDE DEF n0
<1> QED
  BY <1>1, <1>2, <1>3, <1>4

LEMMA WeeklyPoint ==
    ASSUME NEW t \in Int, NEW wday \in 0..6, NEW time_of_day \in TimesOfDay
    PROVE  next_weekly_point(t, wday, time_of_day)
             = t - SecondsOfDay(t) + DaysToAdd(t, wday, time_of_day) * Day + time_of_day
<1>1. DaysToAdd(t, wday, time_of_day) \in Int
  BY DaysAhead
<1>2. DaysToAdd(t, wday, time_of_day) * Day \in Int
  BY <1>1, SchedulerAssumption
<1>3. /\ SecondsOfDay(t) \in Int /\ time_of_day \in Int /\ Offset(t) \in Int
      /\ Local(t) = t + Offset(t)
  BY Clock DEF TimesOfDay
<1> QED
  BY <1>2, <1>3 DEF next_weekly_point, mktime, LocalMidnight

\* What next_weekly_point means, told with the offset of the moment it is computed.
LEMMA WeeklyMeans ==
    ASSUME NEW t \in Int, NEW wday \in 0..6, NEW time_of_day \in TimesOfDay
    PROVE  LET p == next_weekly_point(t, wday, time_of_day)
               n == DaysToAdd(t, wday, time_of_day)
           IN  /\ p \in Int /\ p > t /\ p <= t + Week
               /\ p + Offset(t) = Day * (DayNumber(t) + n) + time_of_day
               /\ (DayNumber(t) + n) % 7 = wday
<1> DEFINE p == next_weekly_point(t, wday, time_of_day)
           n == DaysToAdd(t, wday, time_of_day)
           s == SecondsOfDay(t)
           q == DayNumber(t)
<1>1. /\ time_of_day \in 0..Day - 1 /\ s \in 0..Day - 1 /\ q \in Int
      /\ Day \in Nat \ {0} /\ Offset(t) \in Int
      /\ Local(t) = t + Offset(t) /\ Local(t) = Day * q + s /\ Day * q \in Int
  BY Clock DEF TimesOfDay
<1>2. p = t - s + n * Day + time_of_day
  BY WeeklyPoint
<1>3. /\ n \in 0..7
      /\ n = 0 => s < time_of_day
      /\ n = 7 => s >= time_of_day
      /\ tm_wday(t) + n = wday \/ tm_wday(t) + n = wday + 7
  BY DaysAhead
<1>4. PICK w \in Int : q = 7 * w + tm_wday(t)
  BY WeekdayOf
<1>5. tm_wday(t) \in 0..6
  BY WeekdayOf
<1> HIDE DEF p, n, s, q
<1>6. /\ n * Day \in Int
      /\ n >= 1 => n * Day >= Day
      /\ n = 0 => n * Day = 0
      /\ n = 7 => n * Day = Week
      /\ n <= 6 => n * Day <= Week - Day
      /\ Week \in Int
  BY <1>1, <1>3 DEF Week
<1>7. p \in Int /\ p > t /\ p <= t + Week
  BY <1>1, <1>2, <1>3, <1>6
<1>8. p + Offset(t) = Day * (q + n) + time_of_day
  <2>1. Day * (q + n) = Day * q + n * Day
    BY <1>1, <1>3
  <2>2. t + Offset(t) = Day * q + s /\ t \in Int
    BY <1>1
  <2>3. p + Offset(t) = Day * q + n * Day + time_of_day
    <3>1. \A a, b, c, d, e, f, g \in Int :
            a = b - c + d + e /\ b + f = g + c => a + f = g + d + e
      OBVIOUS
    <3>2. /\ time_of_day \in Int /\ s \in Int /\ p \in Int
          /\ n * Day \in Int /\ Day * q \in Int /\ Offset(t) \in Int
      BY <1>1, <1>6, <1>7
    <3> QED
      BY <1>2, <2>2, <3>1, <3>2
  <2> QED
    BY <2>1, <2>3
<1>9. (q + n) % 7 = wday
  <2>1. q + n = 7 * w + wday \/ q + n = 7 * (w + 1) + wday
    BY <1>3, <1>4, <1>5
  <2> QED
    BY <2>1, Unique
<1> QED
  BY <1>7, <1>8, <1>9 DEF p, n, q

LEMMA WeeklyIsNext ==
    ASSUME NEW t \in Int, NEW wday \in 0..6, NEW time_of_day \in TimesOfDay
    PROVE  LET p == next_weekly_point(t, wday, time_of_day)
           IN  /\ p > t /\ p <= t + Week
               /\ Offset(p) = Offset(t) =>
                    IsWeekly(p, wday, time_of_day)
                      /\ \A x \in t + 1..p - 1 : ~IsWeekly(x, wday, time_of_day)
<1> DEFINE p == next_weekly_point(t, wday, time_of_day)
           n == DaysToAdd(t, wday, time_of_day)
           s == SecondsOfDay(t)
           q == DayNumber(t)
<1>1. /\ time_of_day \in 0..Day - 1 /\ s \in 0..Day - 1 /\ q \in Int
      /\ Day \in Nat \ {0} /\ Offset(t) \in Int
      /\ Local(t) = t + Offset(t)
  BY Clock DEF TimesOfDay
<1>2. /\ p \in Int /\ p > t /\ p <= t + Week
      /\ p + Offset(t) = Day * (q + n) + time_of_day
      /\ (q + n) % 7 = wday
  BY WeeklyMeans
<1>3. n \in 0..7 /\ (n = 7 => s >= time_of_day)
  BY DaysAhead
<1> HIDE DEF p, n, s, q
<1>4. ASSUME Offset(p) = Offset(t)
      PROVE  IsWeekly(p, wday, time_of_day)
               /\ \A x \in t + 1..p - 1 : ~IsWeekly(x, wday, time_of_day)
  <2>1. Local(p) = Day * (q + n) + time_of_day
    BY <1>2, <1>4 DEF Local
  <2>2. SecondsOfDay(p) = time_of_day /\ DayNumber(p) = q + n
    <3>1. q + n \in Int
      BY <1>1, <1>3
    <3> QED
      BY <1>1, <1>2, <2>1, <3>1, Reading
  <2>3. IsWeekly(p, wday, time_of_day)
    BY <1>2, <2>2 DEF IsWeekly, IsDaily, tm_wday, DayNumber
  <2>4. ASSUME NEW x \in t + 1..p - 1, IsWeekly(x, wday, time_of_day)
        PROVE  FALSE
    <3>1. x \in Int /\ t < x /\ x < p
      BY <1>2, <2>4
    <3>2. Offset(x) = Offset(t)
      BY <1>2, <1>4, <3>1, SameOffset
    <3>3. Local(t) < Local(x) /\ Local(x) < Local(p)
      BY <1>1, <1>2, <1>4, <3>1, <3>2, Clock
    <3>4. SecondsOfDay(x) = time_of_day /\ tm_wday(x) = wday
      BY <2>4 DEF IsWeekly, IsDaily
    <3>5. \/ q < DayNumber(x)
          \/ q = DayNumber(x) /\ s < time_of_day
      BY <3>1, <3>3, <3>4, DaysInOrder DEF q, s
    <3>6. DayNumber(x) < q + n
      BY <1>1, <1>2, <2>2, <3>1, <3>3, <3>4, DaysInOrder
    <3>7. DayNumber(x) \in Int /\ q + n \in Int
      BY <1>1, <1>3, <3>1, Clock
    <3>8. PICK a \in Int : DayNumber(x) = 7 * a + wday
      BY <3>1, <3>4, WeekdayOf
    <3>9. PICK b \in Int : q + n = 7 * b + wday
      <4>1. \A c \in Int : \E b \in Int : c = 7 * b + (c % 7)
        OBVIOUS
      <4> QED
        BY <1>2, <3>7, <4>1
    <3>10. (q + n) - DayNumber(x) >= 7
      <4>1. a < b
        BY <3>6, <3>8, <3>9
      <4>2. \A c, d \in Int : c < d => (7 * d + wday) - (7 * c + wday) >= 7
        OBVIOUS
      <4> QED
        BY <3>8, <3>9, <4>1, <4>2
    <3> QED
      BY <1>1, <1>3, <3>5, <3>7, <3>10
  <2> QED
    BY <2>3, <2>4
<1> QED
  BY <1>2, <1>4 DEF p

\* At any moment the calendar points are the next ones.
THEOREM CalendarPointsAreNext == Spec => []PointsAreNext
<1>1. SchedulerInv => PointsAreNext
  <2> SUFFICES ASSUME SchedulerInv
               PROVE  PointsAreNext
    OBVIOUS
  <2>1. TypeOK /\ now \in Int
    BY DEF SchedulerInv, TypeOK
  <2>2. DailyPointIsNext
    BY <2>1, DailyIsNext DEF DailyPointIsNext
  <2>3. WeeklyPointIsNext
    BY <2>1, WeeklyIsNext DEF WeeklyPointIsNext
  <2> QED
    BY <2>1, <2>2, <2>3 DEF PointsAreNext
<1> QED
  BY <1>1, Invariance, PTL

=============================================================================
