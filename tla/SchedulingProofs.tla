------------------------- MODULE SchedulingProofs --------------------------
(***************************************************************************)
(* The schedule arithmetic finds the occurrences it is meant to find, for  *)
(* every instant, every schedule and every zone whose change of the offset *)
(* is shorter than a day.                                                  *)
(***************************************************************************)
EXTENDS Scheduling, TLAPS, WellFoundedInduction

(* No zone jumps over the date line. *)
ShortShift == Zone.before - Zone.after < DayLen /\ Zone.after - Zone.before < DayLen

-----------------------------------------------------------------------------
(* Least elements *)

Below == {ss \in Nat \X Nat : ss[1] < ss[2]}

(* Every nonempty set of naturals has a least element: what stands in for induction below. *)
LEMMA LeastNatural ==
    ASSUME NEW S \in SUBSET Nat, S # {}
    PROVE  \E m \in S : \A s \in S : m <= s
<1>1. IsWellFoundedOn(Below, Nat)
  BY NatLessThanWellFounded DEF OpToRel, Below
<1>2. PICK m \in S : \A s \in S : <<s, m>> \notin Below
  BY <1>1, WFMin
<1>3. \A s \in S : ~ (s < m)
  BY <1>2 DEF Below
<1>4. QED
  BY <1>3

(* So has every nonempty set of integers that is bounded from below. *)
LEMMA LeastInteger ==
    ASSUME NEW low \in Int, NEW S \in SUBSET Int, S # {}, \A s \in S : low <= s
    PROVE  \E m \in S : \A s \in S : m <= s
<1> DEFINE T == {n \in Nat : n + low \in S}
<1>1. \A s \in S : s - low \in T
  <2> SUFFICES ASSUME NEW s \in S PROVE s - low \in T
    OBVIOUS
  <2>1. s \in Int /\ low <= s
    OBVIOUS
  <2>2. s - low \in Nat /\ (s - low) + low = s
    BY <2>1
  <2>3. QED
    BY <2>2
<1>2. PICK t \in T : \A u \in T : t <= u
  BY <1>1, LeastNatural
<1>3. \A s \in S : t + low <= s
  <2> SUFFICES ASSUME NEW s \in S PROVE t + low <= s
    OBVIOUS
  <2>1. t <= s - low /\ s \in Int /\ t \in Int
    BY <1>1, <1>2
  <2>2. QED
    BY <2>1
<1>4. QED
  BY <1>3

LEMMA LeastOfIs ==
    ASSUME NEW S \in SUBSET Int, NEW m \in S, \A s \in S : m <= s
    PROVE  LeastOf(S) = m
<1>1. \A x \in S : (\A s \in S : x <= s) => x = m
  <2> SUFFICES ASSUME NEW x \in S, \A s \in S : x <= s
               PROVE  x = m
    OBVIOUS
  <2>1. x <= m /\ m <= x /\ x \in Int /\ m \in Int
    OBVIOUS
  <2>2. QED
    BY <2>1
<1>2. QED
  BY <1>1 DEF LeastOf

LEMMA LeastOffset ==
    ASSUME NEW S \in SUBSET (0..7), S # {}
    PROVE  Min(S) \in S /\ \A s \in S : Min(S) <= s
<1>1. S \in SUBSET Nat
  OBVIOUS
<1>2. \E m \in S : \A s \in S : m <= s
  BY <1>1, LeastNatural
<1>3. QED
  BY <1>2 DEF Min

-----------------------------------------------------------------------------
(* Products and quotients *)

LEMMA Multiples ==
    ASSUME NEW m \in Nat \ {0}, NEW x \in Int, NEW y \in Int, x < y
    PROVE  m * x + m <= m * y
<1>1. m * (y - x - 1) >= 0
  OBVIOUS
<1>2. m * (y - x - 1) = m * y - m * x - m
  OBVIOUS
<1>3. QED
  BY <1>1, <1>2

LEMMA Quotient ==
    ASSUME NEW u \in Int, NEW m \in Nat \ {0}
    PROVE  /\ u \div m \in Int /\ u % m \in 0 .. m - 1
           /\ u = m * (u \div m) + (u % m)
OBVIOUS

(* Two instants in whole minutes that are less than a whole number of minutes apart are a *)
(* minute less apart.                                                                    *)
LEMMA WholeMinutes ==
    ASSUME ShortShift
    PROVE  /\ Zone.before - Zone.after <= DayLen - MinuteLen
           /\ Zone.after - Zone.before <= DayLen - MinuteLen
<1> DEFINE m == MinuteLen
           b == Zone.before \div m
           a == Zone.after \div m
           d == DayLen \div m
<1>1. m \in Nat \ {0} /\ DayLen \in Nat \ {0} /\ DayLen % m = 0
  BY LengthsAssumption
<1>2. /\ Zone.before \in Int /\ Zone.after \in Int
      /\ Zone.before % m = 0 /\ Zone.after % m = 0
  BY ZoneAssumption
<1>3. /\ a \in Int /\ b \in Int /\ d \in Int
      /\ Zone.before = m * b /\ Zone.after = m * a /\ DayLen = m * d
  <2>1. ASSUME NEW u \in Int, u % m = 0 PROVE u \div m \in Int /\ u = m * (u \div m)
    <3>1. u \div m \in Int /\ u = m * (u \div m) + 0
      BY <1>1, <2>1, Quotient
    <3>2. QED
      BY <1>1, <3>1
  <2>2. QED
    BY <1>1, <1>2, <2>1
<1> HIDE DEF m, a, b, d
<1>4. m * (b - a) = m * b - m * a /\ m * (a - b) = m * a - m * b
  BY <1>1, <1>3
<1>5. ASSUME NEW x \in Int, m * x < m * d PROVE m * x + m <= m * d
  <2>1. ~ (x >= d)
    <3> SUFFICES ASSUME x > d PROVE FALSE
      BY <1>1, <1>3, <1>5
    <3>1. m * d + m <= m * x
      BY <1>1, <1>3, Multiples
    <3>2. m * x \in Int /\ m * d \in Int
      BY <1>1, <1>3
    <3>3. QED
      BY <1>1, <1>5, <3>1, <3>2
  <2>2. QED
    BY <1>1, <1>3, <2>1, Multiples
<1>6. m * b - m * a < m * d /\ m * a - m * b < m * d
  BY <1>3 DEF ShortShift
<1>7. m * (b - a) + m <= m * d /\ m * (a - b) + m <= m * d
  BY <1>3, <1>4, <1>5, <1>6
<1>8. m * b \in Int /\ m * a \in Int /\ m * d \in Int
  BY <1>1, <1>3
<1>9. QED
  BY <1>1, <1>3, <1>4, <1>7, <1>8 DEF m

LEMMA QuotientIs ==
    ASSUME NEW u \in Int, NEW m \in Nat \ {0}, NEW q \in Int, m * q <= u
    PROVE  /\ u < m * q + m => u \div m = q
           /\ u < m * q + 2 * m => u \div m \in {q, q + 1}
<1> DEFINE r == u \div m
<1>1. r \in Int /\ u % m \in 0 .. m - 1 /\ u = m * r + (u % m)
  BY Quotient
<1>2. m * r \in Int /\ m * q \in Int /\ m * (q + 1) = m * q + m
  BY <1>1
<1> HIDE DEF r
<1>3. ~ (r < q)
  <2>1. r < q => m * r + m <= m * q
    BY <1>1, Multiples
  <2>2. QED
    BY <1>1, <1>2, <2>1
<1>4. q < r => m * q + m <= m * r
  BY <1>1, Multiples
<1>5. q + 1 < r => m * (q + 1) + m <= m * r
  BY <1>1, Multiples
<1>6. u < m * q + m => r = q
  BY <1>1, <1>2, <1>3, <1>4
<1>7. u < m * q + 2 * m => r \in {q, q + 1}
  BY <1>1, <1>2, <1>3, <1>5
<1>8. QED
  BY <1>6, <1>7 DEF r

-----------------------------------------------------------------------------
(* Days and wall clocks *)

LEMMA CalendarTypes ==
    /\ DayLen \in Nat \ {0} /\ MinuteLen \in Nat \ {0}
    /\ Zone.before \in Int /\ Zone.after \in Int /\ Zone.change \in Int
BY LengthsAssumption, ZoneAssumption

(* A local day holds the local times from one midnight to the next. *)
LEMMA DayHolds ==
    ASSUME NEW u \in Int
    PROVE  /\ Local(u) \in Int /\ Day(u) \in Int /\ DayLen * Day(u) \in Int
           /\ DayLen * Day(u) <= Local(u) /\ Local(u) < DayLen * Day(u) + DayLen
           /\ Local(u) % DayLen = Local(u) - DayLen * Day(u)
<1>1. Local(u) \in Int
  BY CalendarTypes DEF Local
<1>2. /\ Local(u) \div DayLen \in Int /\ Local(u) % DayLen \in 0 .. DayLen - 1
      /\ Local(u) = DayLen * (Local(u) \div DayLen) + (Local(u) % DayLen)
  BY <1>1, CalendarTypes, Quotient
<1> DEFINE whole == DayLen * Day(u)
           rest  == Local(u) % DayLen
<1>3. whole \in Int /\ rest \in 0 .. DayLen - 1 /\ Local(u) = whole + rest
  BY <1>2, CalendarTypes DEF Day
<1> HIDE DEF whole, rest
<1>4. whole <= Local(u) /\ Local(u) < whole + DayLen /\ rest = Local(u) - whole
  BY <1>1, <1>3, CalendarTypes
<1>5. QED
  BY <1>1, <1>2, <1>3, <1>4 DEF Day, whole, rest

(* The wall time of an instant is its local time on its day, less seconds. *)
LEMMA WallTimeHolds ==
    ASSUME NEW u \in Int
    PROVE  /\ WallTime(u) \in 0 .. DayLen - 1
           /\ DayLen * Day(u) + WallTime(u) <= Local(u)
           /\ Local(u) < DayLen * Day(u) + WallTime(u) + MinuteLen
<1> DEFINE time == Local(u) % DayLen
           seconds == time % MinuteLen
<1>1. time \in 0 .. DayLen - 1 /\ time = Local(u) - DayLen * Day(u)
  BY DayHolds, CalendarTypes
<1>2. /\ time = MinuteLen * (time \div MinuteLen) + seconds
      /\ time \div MinuteLen \in Int /\ seconds \in 0 .. MinuteLen - 1
  <2>1. time \in Int
    BY <1>1, CalendarTypes
  <2> HIDE DEF time
  <2>2. QED
    BY <2>1, CalendarTypes, Quotient
<1>3. seconds <= time
  <2>1. CASE time < MinuteLen
    BY <1>1, <2>1, CalendarTypes
  <2>2. CASE time >= MinuteLen
    BY <1>1, <1>2, <2>2, CalendarTypes
  <2>3. QED
    BY <1>1, <2>1, <2>2, CalendarTypes
<1>4. WallTime(u) = time - seconds
  BY DEF WallTime
<1> HIDE DEF time, seconds
<1>5. QED
  BY <1>1, <1>2, <1>3, <1>4, DayHolds, CalendarTypes

LEMMA UTCIs ==
    ASSUME NEW w \in Int
    PROVE  /\ UTC(w) \in Int
           /\ \/ /\ w - Zone.before >= Zone.change /\ w - Zone.after >= Zone.change
                 /\ UTC(w) = w - Zone.after
              \/ /\ w - Zone.before < Zone.change \/ w - Zone.after < Zone.change
                 /\ UTC(w) = w - Zone.before
BY CalendarTypes DEF UTC

(* Over a day, no change of the offset takes the clock back. *)
LEMMA UTCIsMonotone ==
    ASSUME ShortShift, NEW v \in Int, NEW w \in Int, v + DayLen <= w
    PROVE  UTC(v) < UTC(w)
BY UTCIs, CalendarTypes DEF ShortShift

LEMMA AtType ==
    ASSUME NEW d \in Int, NEW time \in Int
    PROVE  /\ At(d, time) \in Int /\ At(d, time) = UTC(DayLen * d + time)
           /\ DayLen * d + time \in Int
<1>1. d * DayLen = DayLen * d /\ DayLen * d + time \in Int
  BY CalendarTypes
<1>2. QED
  BY <1>1, UTCIs DEF At

LEMMA OwnTimeType ==
    ASSUME NEW anchor \in Int
    PROVE  /\ Day(anchor) \in Int /\ WallTime(anchor) \in Int
           /\ \A d \in Int : At(d, WallTime(anchor)) \in Int
<1>1. Day(anchor) \in Int /\ WallTime(anchor) \in Int
  BY DayHolds, WallTimeHolds, CalendarTypes
<1>2. QED
  BY <1>1, AtType

LEMMA AtIsMonotone ==
    ASSUME ShortShift, NEW d \in Int, NEW e \in Int, d < e, NEW time \in Int
    PROVE  At(d, time) < At(e, time)
<1>1. DayLen * d + DayLen <= DayLen * e
  BY CalendarTypes, Multiples
<1>2. DayLen * d \in Int /\ DayLen * e \in Int
  BY CalendarTypes
<1>3. (DayLen * d + time) + DayLen <= DayLen * e + time
  BY <1>1, <1>2, CalendarTypes
<1>4. UTC(DayLen * d + time) < UTC(DayLen * e + time)
  BY <1>2, <1>3, UTCIsMonotone, AtType
<1>5. QED
  BY <1>4, AtType

(* A wall time is on its day, or a change of the offset skips it and it is on the next. *)
LEMMA DayOfAt ==
    ASSUME ShortShift, NEW d \in Int, NEW time \in 0 .. DayLen - 1
    PROVE  Day(At(d, time)) \in {d, d + 1}
<1> DEFINE midnight == DayLen * d
           w == midnight + time
<1>1. midnight \in Int /\ w \in Int /\ At(d, time) = UTC(w) /\ UTC(w) \in Int
  <2>1. time \in Int
    BY CalendarTypes
  <2>2. midnight \in Int
    BY CalendarTypes
  <2>3. At(d, time) = UTC(w) /\ w \in Int
    BY <2>1, AtType
  <2>4. QED
    BY <2>2, <2>3, UTCIs
<1>2. w <= Local(UTC(w)) /\ Local(UTC(w)) < w + DayLen
  <2> HIDE DEF midnight, w
  <2>1. CASE UTC(w) = w - Zone.after /\ UTC(w) >= Zone.change
    BY <1>1, <2>1, CalendarTypes DEF Local
  <2>2. CASE UTC(w) = w - Zone.before /\ UTC(w) < Zone.change
    BY <1>1, <2>2, CalendarTypes DEF Local
  <2>3. CASE UTC(w) = w - Zone.before /\ UTC(w) >= Zone.change /\ w - Zone.after < Zone.change
    BY <1>1, <2>3, CalendarTypes DEF Local, ShortShift
  <2>4. QED
    BY <1>1, <2>1, <2>2, <2>3, UTCIs, CalendarTypes
<1> HIDE DEF midnight
<1>3. midnight <= Local(UTC(w)) /\ Local(UTC(w)) < midnight + 2 * DayLen
  BY <1>1, <1>2, DayHolds, CalendarTypes
<1>4. Local(UTC(w)) \div DayLen \in {d, d + 1}
  BY <1>1, <1>3, DayHolds, QuotientIs, CalendarTypes DEF midnight
<1>5. QED
  BY <1>1, <1>4 DEF Day

(* The wall time of an instant comes on the day before at an instant that is past. *)
LEMMA YesterdayIsPast ==
    ASSUME ShortShift, NEW anchor \in Int
    PROVE  At(Day(anchor) - 1, WallTime(anchor)) < anchor
<1> DEFINE midnight == DayLen * Day(anchor)
           w == midnight - DayLen + WallTime(anchor)
<1>1. midnight \in Int /\ w \in Int /\ WallTime(anchor) \in Int /\ w <= Local(anchor) - DayLen
  BY DayHolds, WallTimeHolds, CalendarTypes
<1>2. DayLen * (Day(anchor) - 1) = midnight - DayLen
  BY DayHolds, CalendarTypes
<1>3. At(Day(anchor) - 1, WallTime(anchor)) = UTC(w)
  BY <1>1, <1>2, DayHolds, AtType
<1> HIDE DEF w
<1>4. UTC(w) < anchor
  BY <1>1, UTCIs, CalendarTypes DEF Local, ShortShift
<1>5. QED
  BY <1>3, <1>4

(* It comes on each of the following days at an instant that is later, by at least the days *)
(* in between.                                                                              *)
LEMMA LaterDaysAreLater ==
    ASSUME ShortShift, NEW anchor \in Int, NEW j \in Nat
    PROVE  anchor + DayLen * j < At(Day(anchor) + 1 + j, WallTime(anchor))
<1> DEFINE midnight == DayLen * Day(anchor)
           span == DayLen * j
           w == midnight + DayLen + span + WallTime(anchor)
<1>1. /\ midnight \in Int /\ span \in Int /\ w \in Int /\ WallTime(anchor) \in Int
      /\ Local(anchor) < midnight + WallTime(anchor) + MinuteLen
  BY DayHolds, WallTimeHolds, CalendarTypes
<1>2. DayLen * (Day(anchor) + 1 + j) = midnight + DayLen + span
  BY DayHolds, CalendarTypes
<1>3. At(Day(anchor) + 1 + j, WallTime(anchor)) = UTC(w)
  <2>1. Day(anchor) + 1 + j \in Int
    BY DayHolds
  <2>2. At(Day(anchor) + 1 + j, WallTime(anchor))
          = UTC(DayLen * (Day(anchor) + 1 + j) + WallTime(anchor))
    BY <1>1, <2>1, AtType
  <2>3. QED
    BY <1>2, <2>2
<1> HIDE DEF midnight, span
<1>4. Local(anchor) + DayLen + span - MinuteLen < w /\ Local(anchor) \in Int
  BY <1>1, DayHolds, CalendarTypes
<1> HIDE DEF w
<1>5. anchor + span < UTC(w)
  BY <1>1, <1>4, UTCIs, WholeMinutes, CalendarTypes DEF Local
<1>6. QED
  BY <1>3, <1>5 DEF span

LEMMA TodaysScan ==
    ASSUME ShortShift, NEW anchor \in Int, NEW o \in 1..7
    PROVE  /\ anchor < At(Day(anchor) + o, WallTime(anchor))
           /\ anchor <= At(Day(anchor) + o, WallTime(anchor))
<1> DEFINE at == At(Day(anchor) + o, WallTime(anchor))
<1>1. anchor + DayLen * (o - 1) < At(Day(anchor) + 1 + (o - 1), WallTime(anchor))
  BY LaterDaysAreLater
<1>2. Day(anchor) + 1 + (o - 1) = Day(anchor) + o /\ Day(anchor) + o \in Int
  BY DayHolds
<1>3. DayLen * (o - 1) >= 0 /\ DayLen * (o - 1) \in Int
  BY CalendarTypes
<1>4. at \in Int
  BY <1>2, OwnTimeType
<1>5. anchor + DayLen * (o - 1) < at
  BY <1>1, <1>2
<1> HIDE DEF at
<1>6. anchor < at /\ anchor <= at
  BY <1>3, <1>4, <1>5
<1>7. QED
  BY <1>6 DEF at

-----------------------------------------------------------------------------
(* The scan of the days *)

FallsOn(sched, day) ==
    \/ sched.repeat = "daily"
    \/ sched.repeat = "weekly" /\ day % 7 \in sched.days

(* The first day of the schedule whose wall time comes no earlier than given. *)
IsFirstDay(day, sched, time, earliest) ==
    /\ day \in Int /\ FallsOn(sched, day) /\ earliest <= At(day, time)
    /\ \A other \in Int : FallsOn(sched, other) /\ earliest <= At(other, time) => day <= other

(* Among seven days, each weekday comes once. *)
LEMMA AWeekHasADay ==
    ASSUME NEW sched \in Schedule, sched.repeat \in {"daily", "weekly"}, NEW start \in Int
    PROVE  \E o \in 1..7 : FallsOn(sched, start + o)
<1>1. CASE sched.repeat = "daily"
  BY <1>1 DEF FallsOn
<1>2. CASE sched.repeat = "weekly"
  <2>1. sched.days \in SUBSET Weekdays /\ sched.days # {}
    BY <1>2 DEF Schedule
  <2>2. PICK w \in 0..6 : w \in sched.days
    BY <2>1 DEF Weekdays
  <2>3. \E o \in 1..7 : (start + o) % 7 = w
    OBVIOUS
  <2>4. QED
    BY <1>2, <2>2, <2>3 DEF FallsOn
<1>3. QED
  BY <1>1, <1>2

(* The scan finds the first day when the day before the scan is too early and all days after *)
(* its first are late enough.                                                                *)
LEMMA ScanFindsFirst ==
    ASSUME ShortShift, NEW start \in Int, NEW anchor \in Int, NEW earliest \in Int,
           NEW sched \in Schedule, sched.repeat = "weekly",
           At(Day(start) - 1, WallTime(anchor)) < earliest,
           \A o \in 1..7 : earliest <= At(Day(start) + o, WallTime(anchor))
    PROVE  \E day \in Int :
              /\ IsFirstDay(day, sched, WallTime(anchor), earliest)
              /\ FirstOfDays(start, 0..7, anchor, sched.days, earliest) = At(day, WallTime(anchor))
<1> DEFINE time == WallTime(anchor)
           D == Day(start)
           hits == {o \in 0..7 : (D + o) % 7 \in sched.days /\ At(D + o, time) >= earliest}
           first == Min(hits)
<1>1. D \in Int /\ time \in Int
  BY DayHolds, WallTimeHolds, CalendarTypes
<1>2. hits # {}
  <2>1. PICK o \in 1..7 : FallsOn(sched, D + o)
    BY <1>1, AWeekHasADay
  <2>2. o \in hits
    BY <2>1 DEF FallsOn
  <2>3. QED
    BY <2>2
<1>3. first \in hits /\ \A o \in hits : first <= o
  <2>1. hits \in SUBSET (0..7)
    OBVIOUS
  <2> HIDE DEF hits
  <2>2. QED
    BY <1>2, <2>1, LeastOffset
<1>4. FirstOfDays(start, 0..7, anchor, sched.days, earliest) = At(D + first, time)
  BY <1>2 DEF FirstOfDays
<1> HIDE DEF first
<1>5. first \in 0..7 /\ (D + first) % 7 \in sched.days /\ At(D + first, time) >= earliest
  BY <1>3
<1>6. ASSUME NEW other \in Int, FallsOn(sched, other), earliest <= At(other, time)
      PROVE  D + first <= other
  <2>1. other >= D
    <3>1. other < D - 1 => At(other, time) < At(D - 1, time)
      BY <1>1, AtIsMonotone
    <3>2. At(other, time) \in Int /\ At(D - 1, time) \in Int
      <4>1. D - 1 \in Int
        BY <1>1
      <4> HIDE DEF D, time
      <4>2. QED
        BY <1>1, <4>1, AtType
    <3>3. other < D => At(other, time) < earliest
      BY <1>1, <3>1, <3>2
    <3>4. QED
      BY <1>1, <1>6, <3>2, <3>3
  <2>2. CASE other - D \in 0..7
    <3>1. D + (other - D) = other
      BY <1>1
    <3>2. other - D \in hits
      BY <1>6, <2>2, <3>1, AtType, <1>1 DEF FallsOn
    <3>3. QED
      BY <1>1, <1>3, <1>5, <3>2
  <2>3. QED
    BY <1>1, <1>5, <2>1, <2>2
<1>7. IsFirstDay(D + first, sched, time, earliest)
  BY <1>1, <1>5, <1>6, AtType DEF IsFirstDay, FallsOn
<1>8. QED
  BY <1>1, <1>4, <1>5, <1>7

(* The daily choice between today and tomorrow finds it under the same conditions. *)
LEMMA TodayOrTomorrow ==
    ASSUME ShortShift, NEW start \in Int, NEW anchor \in Int, NEW earliest \in Int,
           NEW sched \in Schedule, sched.repeat = "daily",
           At(Day(start) - 1, WallTime(anchor)) < earliest,
           earliest <= At(Day(start) + 1, WallTime(anchor))
    PROVE  IsFirstDay(IF earliest <= At(Day(start), WallTime(anchor))
                      THEN Day(start) ELSE Day(start) + 1, sched, WallTime(anchor), earliest)
<1> DEFINE time == WallTime(anchor)
           D == Day(start)
<1>1. D \in Int /\ time \in Int
  BY DayHolds, WallTimeHolds, CalendarTypes
<1>2. \A d, e \in Int : d < e => At(d, time) < At(e, time)
  BY <1>1, AtIsMonotone
<1>3. \A d \in Int : At(d, time) \in Int
  BY <1>1, AtType
<1>4. \A d \in Int : FallsOn(sched, d)
  BY DEF FallsOn
<1> HIDE DEF D, time
<1>5. At(D - 1, time) < earliest /\ earliest <= At(D + 1, time)
  BY DEF D, time
<1>6. \A other \in Int : earliest <= At(other, time) => ~ (other < D)
  <2> SUFFICES ASSUME NEW other \in Int, earliest <= At(other, time), other < D
               PROVE  FALSE
    OBVIOUS
  <2>1. other < D - 1 => At(other, time) < At(D - 1, time)
    BY <1>1, <1>2
  <2>2. At(other, time) \in Int /\ At(D - 1, time) \in Int
    BY <1>1, <1>3
  <2>3. other = D - 1 \/ other < D - 1
    BY <1>1
  <2>4. QED
    BY <1>5, <2>1, <2>2, <2>3
<1>7. IsFirstDay(IF earliest <= At(D, time) THEN D ELSE D + 1, sched, time, earliest)
  <2>1. CASE earliest <= At(D, time)
    BY <1>1, <1>4, <1>6, <2>1 DEF IsFirstDay
  <2>2. CASE ~(earliest <= At(D, time))
    <3>1. \A other \in Int : earliest <= At(other, time) => other # D /\ ~(other < D)
      BY <1>6, <2>2
    <3>2. QED
      BY <1>1, <1>4, <1>5, <2>2, <3>1 DEF IsFirstDay
  <2>3. QED
    BY <2>1, <2>2
<1>8. QED
  BY <1>7 DEF D, time

-----------------------------------------------------------------------------
(* Occurrences *)

Recurring(sched) == sched.repeat \in {"hourly", "daily", "weekly"}

(* All instants at which a schedule set by the anchor falls due. *)
AllOccurrences(anchor, sched) ==
    {o \in Int :
        \/ sched.repeat = "hourly" /\ \E k \in Nat : o = anchor + k * sched.step
        \/ \E day \in Int : FallsOn(sched, day) /\ o = At(day, WallTime(anchor))}

IsNext(n, after, anchor, sched) ==
    /\ n \in AllOccurrences(anchor, sched) /\ after < n
    /\ \A o \in AllOccurrences(anchor, sched) : after < o => n <= o

LEMMA ScanType ==
    ASSUME NEW start \in Int, NEW anchor \in Int, NEW days, NEW earliest
    PROVE  FirstOfDays(start, 0..7, anchor, days, earliest) \in Int \cup {Unreachable}
<1> DEFINE time == WallTime(anchor)
           hits == {o \in 0..7 : (Day(start) + o) % 7 \in days /\ At(Day(start) + o, time) >= earliest}
<1>1. FirstOfDays(start, 0..7, anchor, days, earliest)
        = IF hits = {} THEN Unreachable ELSE At(Day(start) + Min(hits), time)
  BY DEF FirstOfDays
<1>2. hits \in SUBSET (0..7)
  OBVIOUS
<1> HIDE DEF hits
<1>3. CASE hits # {}
  <2>1. Min(hits) \in 0..7
    BY <1>2, <1>3, LeastOffset
  <2>2. Day(start) + Min(hits) \in Int
    <3>1. Day(start) \in Int
      BY OwnTimeType
    <3>2. QED
      BY <2>1, <3>1
  <2>3. QED
    BY <1>1, <1>3, <2>2, OwnTimeType
<1>4. QED
  BY <1>1, <1>3

LEMMA FirstRunType ==
    ASSUME NEW requested \in Int, NEW sched \in Schedule
    PROVE  FirstRun(requested, sched) \in Int \cup {Unreachable}
<1>1. CASE sched.repeat \in {"once", "hourly"}
  BY <1>1 DEF FirstRun
<1>2. CASE sched.repeat = "daily"
  <2>1. Day(requested) + 1 \in Int
    BY OwnTimeType
  <2>2. QED
    BY <1>2, <2>1, OwnTimeType DEF FirstRun, FirstDaily
<1>3. CASE sched.repeat = "weekly"
  BY <1>3, ScanType DEF FirstRun, FirstWeekly
<1>4. QED
  BY <1>1, <1>2, <1>3 DEF Schedule

LEMMA NextRunType ==
    ASSUME NEW after \in Int, NEW anchor \in Int, NEW sched \in Schedule, Recurring(sched)
    PROVE  NextRun(after, anchor, sched) \in Int \cup {Unreachable}
<1> DEFINE time == WallTime(anchor)
<1>1. Day(after) \in Int /\ time \in Int
  BY DayHolds, WallTimeHolds, CalendarTypes
<1>2. CASE sched.repeat = "hourly"
  <2>1. sched.step \in Nat \ {0}
    BY <1>2 DEF Schedule
  <2>2. (after - anchor) \div sched.step \in Int
    BY <2>1
  <2>3. ((after - anchor) \div sched.step + 1) * sched.step \in Int
    BY <2>1, <2>2
  <2>4. QED
    BY <1>2, <2>3 DEF NextRun, NextHourly
<1>3. CASE sched.repeat = "daily"
  <2> HIDE DEF time
  <2>1. At(Day(after), time) \in Int /\ At(Day(after) + 1, time) \in Int
    <3>1. Day(after) + 1 \in Int
      BY <1>1
    <3>2. QED
      BY <1>1, <3>1, AtType
  <2>2. QED
    BY <1>3, <2>1 DEF NextRun, NextDaily, time
<1>4. CASE sched.repeat = "weekly"
  BY <1>4, ScanType DEF NextRun, NextWeekly
<1>5. QED
  BY <1>2, <1>3, <1>4 DEF Recurring

(* The next time of an hourly trigger is later than the given instant, and no more than one *)
(* interval later: the interval that contains the instant is the one that ends there        *)
(* (scheduling.py:87).                                                                      *)
THEOREM NextHourlyIsNext ==
    ASSUME NEW after \in Int, NEW anchor \in Int, NEW step \in Nat \ {0}, after >= anchor
    PROVE  /\ NextHourly(after, anchor, step) > after
           /\ NextHourly(after, anchor, step) - step <= after
           /\ \E k \in Nat : NextHourly(after, anchor, step) = anchor + k * step
<1> DEFINE past == after - anchor
           k    == past \div step
<1>1. past \in Nat /\ k \in Int
  OBVIOUS
<1>2. past = step * k + (past % step) /\ (past % step) \in 0 .. step - 1
  BY <1>1
<1>3. k \in Nat
  BY <1>1, <1>2
<1>4. NextHourly(after, anchor, step) = anchor + (k + 1) * step
  BY DEF NextHourly
<1>5. (k + 1) * step = step * k + step
  BY <1>1
<1>6. \E n \in Nat : NextHourly(after, anchor, step) = anchor + n * step
  <2>1. k + 1 \in Nat
    BY <1>3
  <2>2. QED
    BY <1>4, <2>1
<1> DEFINE whole == step * k
           rest  == past % step
<1>7. whole \in Int /\ rest \in 0 .. step - 1 /\ past = whole + rest
  BY <1>1, <1>2
<1>8. NextHourly(after, anchor, step) = anchor + whole + step
  BY <1>1, <1>4, <1>5
<1> HIDE DEF k, whole, rest
<1>9. QED
  BY <1>6, <1>7, <1>8

(* Whatever instant it is asked about, next_run answers an occurrence, if it answers. *)
LEMMA NextRunIsOccurrence ==
    ASSUME NEW after \in Int, NEW anchor \in Int, NEW sched \in Schedule, Recurring(sched),
           NextRun(after, anchor, sched) # Unreachable
    PROVE  NextRun(after, anchor, sched) \in AllOccurrences(anchor, sched)
<1> DEFINE time == WallTime(anchor)
           D == Day(after)
<1>1. D \in Int /\ NextRun(after, anchor, sched) \in Int
  BY OwnTimeType, NextRunType
<1>2. CASE sched.repeat = "hourly"
  <2>1. sched.step \in Nat \ {0}
    BY <1>2 DEF Schedule
  <2>2. CASE after < anchor
    <3>1. anchor = anchor + 0 * sched.step
      BY <2>1
    <3>2. QED
      BY <1>2, <2>2, <3>1 DEF NextRun, NextHourly, AllOccurrences
  <2>3. CASE ~(after < anchor)
    <3>1. after >= anchor
      BY <2>3
    <3>2. PICK k \in Nat : NextHourly(after, anchor, sched.step) = anchor + k * sched.step
      BY <2>1, <3>1, NextHourlyIsNext
    <3>3. QED
      BY <1>1, <1>2, <3>2 DEF NextRun, AllOccurrences
  <2>4. QED
    BY <2>2, <2>3
<1>3. CASE sched.repeat = "daily"
  <2>1. D + 1 \in Int
    BY <1>1
  <2>2. \E day \in Int : NextRun(after, anchor, sched) = At(day, time)
    BY <1>1, <1>3, <2>1 DEF NextRun, NextDaily
  <2>3. QED
    BY <1>1, <1>3, <2>2 DEF AllOccurrences, FallsOn
<1>4. CASE sched.repeat = "weekly"
  <2> DEFINE hits == {o \in 0..7 : (D + o) % 7 \in sched.days /\ At(D + o, time) >= after + 1}
  <2>1. NextRun(after, anchor, sched) = IF hits = {} THEN Unreachable ELSE At(D + Min(hits), time)
    BY <1>4 DEF NextRun, NextWeekly, FirstOfDays
  <2>2. hits \in SUBSET (0..7)
    OBVIOUS
  <2>3. Min(hits) \in hits
    <3> HIDE DEF hits
    <3>1. hits # {}
      BY <2>1
    <3>2. QED
      BY <2>2, <3>1, LeastOffset
  <2>4. Min(hits) \in 0..7 /\ (D + Min(hits)) % 7 \in sched.days
    BY <2>3
  <2>5. NextRun(after, anchor, sched) = At(D + Min(hits), time)
    BY <2>1, <2>3
  <2> HIDE DEF hits
  <2>6. D + Min(hits) \in Int
    BY <1>1, <2>4
  <2>7. QED
    BY <1>1, <1>4, <2>4, <2>5, <2>6 DEF AllOccurrences, FallsOn
<1>5. QED
  BY <1>2, <1>3, <1>4 DEF Recurring

LEMMA NextHourIsNext ==
    ASSUME NEW after \in Int, NEW anchor \in Int, anchor <= after,
           NEW sched \in Schedule, sched.repeat = "hourly"
    PROVE  IsNext(NextRun(after, anchor, sched), after, anchor, sched)
<1> DEFINE n == NextHourly(after, anchor, sched.step)
<1>1. sched.step \in Nat \ {0}
  BY DEF Schedule
<1>2. PICK k \in Nat : n = anchor + k * sched.step
  BY <1>1, NextHourlyIsNext
<1>3. n > after /\ n - sched.step <= after
  BY <1>1, NextHourlyIsNext
<1>4. n \in Int /\ NextRun(after, anchor, sched) = n
  BY <1>1, <1>2 DEF NextRun
<1> HIDE DEF n
<1>5. ASSUME NEW j \in Nat, after < anchor + j * sched.step
      PROVE  n <= anchor + j * sched.step
  <2>1. k * sched.step = sched.step * k /\ j * sched.step = sched.step * j
    BY <1>1
  <2>2. j < k => sched.step * j + sched.step <= sched.step * k
    BY <1>1, Multiples
  <2>3. k < j => sched.step * k + sched.step <= sched.step * j
    BY <1>1, Multiples
  <2>4. sched.step * k \in Int /\ sched.step * j \in Int
    BY <1>1
  <2>5. ~(j < k)
    BY <1>1, <1>2, <1>3, <1>5, <2>1, <2>2, <2>4
  <2>6. j = k \/ k < j
    BY <2>5
  <2>7. QED
    BY <1>1, <1>2, <2>1, <2>3, <2>4, <2>6
<1>6. \A o \in AllOccurrences(anchor, sched) : \E j \in Nat : o = anchor + j * sched.step
  BY DEF AllOccurrences, FallsOn
<1>7. n \in AllOccurrences(anchor, sched)
  BY <1>2, <1>4 DEF AllOccurrences
<1>8. QED
  BY <1>3, <1>4, <1>5, <1>6, <1>7 DEF IsNext

(* The first day of a daily or weekly schedule after an instant at which it was due. *)
LEMMA NextDayIsFirst ==
    ASSUME ShortShift, NEW anchor \in Int, NEW sched \in Schedule,
           sched.repeat \in {"daily", "weekly"},
           NEW after \in AllOccurrences(anchor, sched) \cup {anchor}
    PROVE  \E day \in Int : /\ IsFirstDay(day, sched, WallTime(anchor), after + 1)
                            /\ NextRun(after, anchor, sched) = At(day, WallTime(anchor))
<1> DEFINE time == WallTime(anchor)
           D == Day(after)
<1>1. after \in Int /\ D \in Int /\ time \in 0 .. DayLen - 1 /\ time \in Int
  <2>1. after \in Int
    BY DEF AllOccurrences
  <2>2. QED
    BY <2>1, DayHolds, WallTimeHolds, CalendarTypes
<1>2. \A d \in Int : At(d, time) \in Int
  BY <1>1, AtType
<1>3. At(D - 1, time) < after + 1 /\ \A o \in 1..7 : after + 1 <= At(D + o, time)
  <2>1. CASE after = anchor
    <3>1. At(D - 1, time) < after
      BY <2>1, YesterdayIsPast
    <3>2. \A o \in 1..7 : after < At(D + o, time)
      BY <2>1, TodaysScan
    <3>3. D - 1 \in Int /\ \A o \in 1..7 : D + o \in Int
      BY <1>1
    <3> HIDE DEF D, time
    <3>4. QED
      BY <1>1, <1>2, <3>1, <3>2, <3>3
  <2>2. CASE \E day \in Int : after = At(day, time)
    <3>1. PICK day \in Int : after = At(day, time)
      BY <2>2
    <3>2. D \in {day, day + 1}
      BY <1>1, <3>1, DayOfAt
    <3>3. \A d, e \in Int : d < e => At(d, time) < At(e, time)
      BY <1>1, AtIsMonotone
    <3> HIDE DEF D, time
    <3>4. At(D - 1, time) <= after
      <4>1. D - 1 = day \/ D - 1 < day
        BY <3>2
      <4>2. QED
        BY <1>1, <1>2, <3>1, <3>3, <4>1
    <3>5. \A o \in 1..7 : after < At(D + o, time)
      BY <1>1, <3>1, <3>2, <3>3
    <3>6. D - 1 \in Int /\ \A o \in 1..7 : D + o \in Int
      BY <1>1
    <3>7. QED
      BY <1>1, <1>2, <3>4, <3>5, <3>6
  <2>3. QED
    BY <2>1, <2>2 DEF AllOccurrences
<1>4. CASE sched.repeat = "weekly"
  <2>1. \E day \in Int : /\ IsFirstDay(day, sched, time, after + 1)
                         /\ FirstOfDays(after, 0..7, anchor, sched.days, after + 1) = At(day, time)
    BY <1>1, <1>3, <1>4, ScanFindsFirst
  <2>2. QED
    BY <1>4, <2>1 DEF NextRun, NextWeekly
<1>5. CASE sched.repeat = "daily"
  <2> DEFINE day == IF after + 1 <= At(D, time) THEN D ELSE D + 1
  <2>1. IsFirstDay(day, sched, time, after + 1)
    BY <1>1, <1>3, <1>5, TodayOrTomorrow
  <2>2. NextDaily(after, anchor) = At(day, time)
    BY <1>1, <1>2 DEF NextDaily
  <2>3. day \in Int
    BY <1>1
  <2> HIDE DEF day
  <2>4. QED
    BY <1>5, <2>1, <2>2, <2>3 DEF NextRun
<1>6. QED
  BY <1>4, <1>5

(* Asked for the next run after the anchor or after an occurrence, next_run answers the next *)
(* occurrence: later, and with none in between (scheduling.py:130).                          *)
THEOREM NextRunIsNext ==
    ASSUME ShortShift, NEW anchor \in Int, NEW sched \in Schedule, Recurring(sched),
           NEW after \in AllOccurrences(anchor, sched) \cup {anchor}
    PROVE  IsNext(NextRun(after, anchor, sched), after, anchor, sched)
<1>1. CASE sched.repeat = "hourly"
  <2>1. after \in Int
    BY DEF AllOccurrences
  <2>2. anchor <= after
    <3>1. sched.step \in Nat \ {0}
      BY <1>1 DEF Schedule
    <3>2. \A k \in Nat : k * sched.step \in Nat
      BY <3>1
    <3>3. QED
      BY <1>1, <2>1, <3>2 DEF AllOccurrences, FallsOn
  <2>3. QED
    BY <1>1, <2>1, <2>2, NextHourIsNext
<1>2. CASE sched.repeat \in {"daily", "weekly"}
  <2> DEFINE time == WallTime(anchor)
  <2>1. PICK day \in Int : /\ IsFirstDay(day, sched, time, after + 1)
                           /\ NextRun(after, anchor, sched) = At(day, time)
    BY <1>2, NextDayIsFirst
  <2>2. time \in Int /\ after \in Int
    BY WallTimeHolds, CalendarTypes DEF AllOccurrences
  <2>3. \A d \in Int : At(d, time) \in Int
    BY <2>2, AtType
  <2>4. \A d, e \in Int : d < e => At(d, time) < At(e, time)
    BY <2>2, AtIsMonotone
  <2>5. At(day, time) \in AllOccurrences(anchor, sched) /\ after < At(day, time)
    BY <2>1, <2>2, <2>3 DEF IsFirstDay, AllOccurrences
  <2>6. ASSUME NEW o \in AllOccurrences(anchor, sched), after < o
        PROVE  At(day, time) <= o
    <3>1. PICK e \in Int : FallsOn(sched, e) /\ o = At(e, time)
      BY <1>2 DEF AllOccurrences
    <3>2. after + 1 <= At(e, time)
      BY <2>2, <2>3, <2>6, <3>1
    <3>3. day <= e
      BY <2>1, <3>1, <3>2 DEF IsFirstDay
    <3>4. day = e \/ day < e
      BY <3>3
    <3> HIDE DEF time
    <3>5. QED
      BY <2>3, <2>4, <3>1, <3>4
  <2>7. QED
    BY <2>1, <2>5, <2>6 DEF IsNext
<1>3. QED
  BY <1>1, <1>2 DEF Recurring

(* The scan of eight days always hits a selected weekday, as the code asserts *)
(* (scheduling.py:70, scheduling.py:84).                                      *)
THEOREM ScansAlwaysHit ==
    ASSUME ShortShift, NEW anchor \in Int, NEW sched \in Schedule, sched.repeat = "weekly",
           NEW after \in AllOccurrences(anchor, sched) \cup {anchor}
    PROVE  /\ FirstWeekly(anchor, anchor, sched.days) # Unreachable
           /\ NextWeekly(after, anchor, sched.days) # Unreachable
<1>1. IsNext(NextWeekly(after, anchor, sched.days), after, anchor, sched)
  <2>1. IsNext(NextRun(after, anchor, sched), after, anchor, sched)
    BY NextRunIsNext DEF Recurring
  <2>2. QED
    BY <2>1 DEF NextRun
<1>2. NextWeekly(after, anchor, sched.days) \in Int
  BY <1>1 DEF IsNext, AllOccurrences
<1>3. \E day \in Int : FirstWeekly(anchor, anchor, sched.days) = At(day, WallTime(anchor))
  <2>1. At(Day(anchor) - 1, WallTime(anchor)) < anchor
    BY YesterdayIsPast
  <2>2. \A o \in 1..7 : anchor <= At(Day(anchor) + o, WallTime(anchor))
    BY TodaysScan
  <2>3. QED
    BY <2>1, <2>2, ScanFindsFirst DEF FirstWeekly
<1>4. FirstWeekly(anchor, anchor, sched.days) \in Int
  BY <1>3, OwnTimeType
<1>5. QED
  BY <1>2, <1>4, UnreachableAssumption

-----------------------------------------------------------------------------
(* The occurrences that the properties of Triggers look at *)

LEMMA DayOccurrences ==
    ASSUME NEW anchor \in Int, NEW weeks \in Nat,
           NEW sched \in Schedule, sched.repeat \in {"daily", "weekly"}
    PROVE  \A o : o \in Occurrences(anchor, sched, weeks)
                    <=> \E day \in Day(anchor) .. Day(anchor) + 7 * weeks :
                           FallsOn(sched, day) /\ o = At(day, WallTime(anchor))
<1> DEFINE D == Day(anchor)
           time == WallTime(anchor)
<1>1. D \in Int
  BY OwnTimeType
<1>2. CASE sched.repeat = "daily"
  <2>1. Occurrences(anchor, sched, weeks) = {At(D + k, time) : k \in 0 .. 7 * weeks}
    BY <1>2 DEF Occurrences
  <2>2. \A day \in D .. D + 7 * weeks : day - D \in 0 .. 7 * weeks /\ D + (day - D) = day
    BY <1>1
  <2>3. \A k \in 0 .. 7 * weeks : D + k \in D .. D + 7 * weeks
    BY <1>1
  <2> HIDE DEF D, time
  <2>4. \A o : o \in Occurrences(anchor, sched, weeks)
                 <=> \E day \in D .. D + 7 * weeks : o = At(day, time)
    BY <2>1, <2>2, <2>3
  <2>5. QED
    BY <1>2, <2>4 DEF FallsOn, D, time
<1>3. CASE sched.repeat = "weekly"
  <2>1. Occurrences(anchor, sched, weeks)
          = {At(day, time) : day \in {d \in D .. D + 7 * weeks : d % 7 \in sched.days}}
    BY <1>3 DEF Occurrences
  <2> HIDE DEF D, time
  <2>2. \A o : o \in Occurrences(anchor, sched, weeks)
                 <=> \E day \in D .. D + 7 * weeks : day % 7 \in sched.days /\ o = At(day, time)
    BY <2>1
  <2>3. QED
    BY <1>3, <2>2 DEF FallsOn, D, time
<1>4. QED
  BY <1>2, <1>3

(* The first day is within the weeks after the anchor when those last longer than the wait. *)
LEMMA FirstDayIsNear ==
    ASSUME ShortShift, NEW anchor \in Int, NEW earliest \in Int, anchor <= earliest,
           NEW weeks \in Nat, earliest <= anchor + DayLen * (7 * weeks) + 1,
           NEW sched \in Schedule, sched.repeat \in {"daily", "weekly"}, NEW day,
           IsFirstDay(day, sched, WallTime(anchor), earliest)
    PROVE  day \in Day(anchor) .. Day(anchor) + 7 * weeks + 7
<1> DEFINE D == Day(anchor)
           time == WallTime(anchor)
           span == DayLen * (7 * weeks)
<1>1. D \in Int /\ time \in Int /\ \A d \in Int : At(d, time) \in Int
  BY OwnTimeType
<1>2. \A d, e \in Int : d < e => At(d, time) < At(e, time)
  BY <1>1, AtIsMonotone
<1>3. At(D - 1, time) < anchor
  BY YesterdayIsPast
<1>4. PICK o \in 1..7 : FallsOn(sched, D + 7 * weeks + o)
  <2>1. D + 7 * weeks \in Int
    BY <1>1
  <2>2. QED
    BY <2>1, AWeekHasADay
<1>5. earliest <= At(D + 7 * weeks + o, time)
  <2> DEFINE j == 7 * weeks + (o - 1)
  <2>1. j \in Nat /\ D + 1 + j = D + 7 * weeks + o
    BY <1>1
  <2>2. anchor + DayLen * j < At(D + 1 + j, time)
    BY <2>1, LaterDaysAreLater
  <2>3. DayLen * j = span + DayLen * (o - 1) /\ DayLen * (o - 1) \in Nat /\ span \in Int
    BY CalendarTypes
  <2>4. D + 7 * weeks + o \in Int
    BY <1>1
  <2>5. earliest <= anchor + span + 1
    OBVIOUS
  <2> HIDE DEF j, span, D, time
  <2>6. QED
    BY <1>1, <2>1, <2>2, <2>3, <2>4, <2>5
<1>6. day \in Int /\ earliest <= At(day, time) /\ day <= D + 7 * weeks + o
  <2>1. D + 7 * weeks + o \in Int
    BY <1>1
  <2>2. QED
    BY <1>4, <1>5, <2>1 DEF IsFirstDay
<1> HIDE DEF D, time
<1>7. ~(day < D)
  <2>1. day < D - 1 => At(day, time) < At(D - 1, time)
    BY <1>1, <1>2, <1>6
  <2>2. At(day, time) \in Int /\ At(D - 1, time) \in Int
    BY <1>1, <1>6
  <2>3. day < D => day = D - 1 \/ day < D - 1
    BY <1>1, <1>6
  <2>4. QED
    BY <1>3, <1>6, <2>1, <2>2, <2>3
<1>8. day \in D .. D + 7 * weeks + 7
  BY <1>1, <1>6, <1>7
<1>9. QED
  BY <1>8 DEF D

LEMMA FirstDayIsLeast ==
    ASSUME ShortShift, NEW anchor \in Int, NEW earliest \in Int, NEW weeks \in Nat,
           NEW sched \in Schedule, sched.repeat \in {"daily", "weekly"},
           NEW day \in Day(anchor) .. Day(anchor) + 7 * weeks,
           IsFirstDay(day, sched, WallTime(anchor), earliest)
    PROVE  LeastOf({o \in Occurrences(anchor, sched, weeks) : o >= earliest})
             = At(day, WallTime(anchor))
<1> DEFINE time == WallTime(anchor)
           S == {o \in Occurrences(anchor, sched, weeks) : o >= earliest}
<1>1. Day(anchor) \in Int /\ time \in Int /\ \A d \in Int : At(d, time) \in Int
  BY OwnTimeType
<1>2. \A d, e \in Int : d < e => At(d, time) < At(e, time)
  BY <1>1, AtIsMonotone
<1>3. \A o \in S : \E e \in Int : FallsOn(sched, e) /\ o = At(e, time) /\ earliest <= At(e, time)
  BY <1>1, DayOccurrences
<1>4. At(day, time) \in S
  BY <1>1, DayOccurrences DEF IsFirstDay
<1>5. S \in SUBSET Int
  BY <1>1, <1>3
<1> HIDE DEF S, time
<1>6. \A o \in S : At(day, time) <= o
  <2> SUFFICES ASSUME NEW o \in S PROVE At(day, time) <= o
    OBVIOUS
  <2>1. PICK e \in Int : FallsOn(sched, e) /\ o = At(e, time) /\ earliest <= At(e, time)
    BY <1>3
  <2>2. day \in Int /\ day <= e
    BY <2>1 DEF IsFirstDay, time
  <2>3. day = e \/ day < e
    BY <2>2
  <2>4. QED
    BY <1>1, <1>2, <2>1, <2>2, <2>3
<1>7. LeastOf(S) = At(day, time)
  BY <1>4, <1>5, <1>6, LeastOfIs
<1>8. QED
  BY <1>7 DEF S, time

(* The first run of a new trigger is the first occurrence at or after the instant that was *)
(* asked for (scheduling.py:106), whatever change of the offset is in between.             *)
THEOREM FirstRunIsFirst ==
    ASSUME ShortShift, NEW requested \in Int, NEW sched \in Schedule
    PROVE  FirstRun(requested, sched)
             = LeastOf({o \in Occurrences(requested, sched, 2) : o >= requested})
<1> DEFINE S == {o \in Occurrences(requested, sched, 2) : o >= requested}
           time == WallTime(requested)
           D == Day(requested)
<1>1. CASE sched.repeat = "once"
  <2>1. S = {requested}
    BY <1>1 DEF Occurrences
  <2> HIDE DEF S
  <2>2. LeastOf(S) = requested
    BY <2>1, LeastOfIs
  <2>3. QED
    BY <1>1, <2>2 DEF FirstRun, S
<1>2. CASE sched.repeat = "hourly"
  <2>1. sched.step \in Nat \ {0}
    BY <1>2 DEF Schedule
  <2>2. S = {o \in {requested + k * sched.step : k \in 0 .. 7 * 2 * DayLen} : o >= requested}
    BY <1>2 DEF Occurrences
  <2>3. requested \in S
    <3>1. 0 \in 0 .. 7 * 2 * DayLen /\ requested + 0 * sched.step = requested
      BY <2>1, CalendarTypes
    <3>2. QED
      BY <2>2, <3>1
  <2>4. S \in SUBSET Int /\ \A o \in S : requested <= o
    BY <2>1, <2>2
  <2> HIDE DEF S
  <2>5. LeastOf(S) = requested
    BY <2>3, <2>4, LeastOfIs
  <2>6. QED
    BY <1>2, <2>5 DEF FirstRun, S
<1>3. CASE sched.repeat \in {"daily", "weekly"}
  <2>1. \E day \in Int : IsFirstDay(day, sched, time, requested) /\ FirstRun(requested, sched) = At(day, time)
    <3>1. At(D - 1, time) < requested /\ \A o \in 1..7 : requested <= At(D + o, time)
      BY YesterdayIsPast, TodaysScan
    <3>2. CASE sched.repeat = "weekly"
      BY <3>1, <3>2, ScanFindsFirst DEF FirstRun, FirstWeekly
    <3>3. CASE sched.repeat = "daily"
      <4> DEFINE day == IF requested <= At(D, time) THEN D ELSE D + 1
      <4>1. IsFirstDay(day, sched, time, requested)
        BY <3>1, <3>3, TodayOrTomorrow
      <4>2. FirstDaily(requested, requested) = At(day, time)
        BY OwnTimeType DEF FirstDaily
      <4>3. day \in Int
        BY OwnTimeType
      <4> HIDE DEF day
      <4>4. QED
        BY <3>3, <4>1, <4>2, <4>3 DEF FirstRun
    <3>4. QED
      BY <1>3, <3>2, <3>3
  <2>2. PICK day \in Int : /\ IsFirstDay(day, sched, time, requested)
                           /\ FirstRun(requested, sched) = At(day, time)
    BY <2>1
  <2>3. DayLen * (7 * 0) = 0
    BY CalendarTypes
  <2>4. day \in D .. D + 7 * 0 + 7
    BY <1>3, <2>2, <2>3, FirstDayIsNear
  <2>5. day \in D .. D + 7 * 2
    BY <2>4, OwnTimeType
  <2>6. QED
    BY <1>3, <2>2, <2>5, FirstDayIsLeast
<1>4. QED
  BY <1>1, <1>2, <1>3 DEF Schedule

(* After any instant from the anchor on there is a next occurrence. *)
LEMMA SomeNext ==
    ASSUME ShortShift, NEW anchor \in Int, NEW at \in Int, anchor <= at,
           NEW sched \in Schedule, Recurring(sched)
    PROVE  \E n \in Int : IsNext(n, at, anchor, sched)
<1>1. CASE sched.repeat = "hourly"
  <2>1. IsNext(NextRun(at, anchor, sched), at, anchor, sched)
    BY <1>1, NextHourIsNext
  <2>2. QED
    BY <2>1 DEF IsNext, AllOccurrences
<1>2. CASE sched.repeat \in {"daily", "weekly"}
  <2> DEFINE time == WallTime(anchor)
             wait == at - anchor
             later == {o \in AllOccurrences(anchor, sched) : at < o}
  <2>1. Day(anchor) \in Int /\ Day(anchor) + wait \in Int /\ wait \in Nat
    BY OwnTimeType
  <2>2. PICK o \in 1..7 : FallsOn(sched, Day(anchor) + wait + o)
    BY <1>2, <2>1, AWeekHasADay
  <2> DEFINE day == Day(anchor) + wait + o
             j == wait + (o - 1)
  <2>3. day \in Int /\ j \in Nat /\ Day(anchor) + 1 + j = day /\ wait <= j
    BY <2>1
  <2>4. anchor + DayLen * j < At(day, time) /\ At(day, time) \in Int
    BY <2>3, LaterDaysAreLater, OwnTimeType
  <2>5. j <= DayLen * j /\ DayLen * j \in Int
    BY <2>3, CalendarTypes
  <2>6. at < At(day, time)
    <3> HIDE DEF day, j, time
    <3>1. QED
      BY <2>1, <2>3, <2>4, <2>5
  <2>7. At(day, time) \in later
    BY <2>2, <2>3, <2>4, <2>6 DEF AllOccurrences
  <2>8. later \in SUBSET Int /\ \A o1 \in later : at <= o1
    BY DEF AllOccurrences
  <2> HIDE DEF later
  <2>9. PICK n \in later : \A o1 \in later : n <= o1
    BY <2>7, <2>8, LeastInteger
  <2>10. QED
    BY <2>8, <2>9 DEF later, IsNext
<1>3. QED
  BY <1>1, <1>2 DEF Recurring

(* It is the least one among those of the weeks in between and one more. *)
LEMMA NextIsLeast ==
    ASSUME ShortShift, NEW anchor \in Int, NEW at \in Int, anchor <= at, NEW n,
           NEW weeks \in Nat, at <= anchor + DayLen * (7 * weeks),
           NEW sched \in Schedule, Recurring(sched), IsNext(n, at, anchor, sched)
    PROVE  n = LeastOf({o \in Occurrences(anchor, sched, weeks + 1) : o > at})
<1> DEFINE S == {o \in Occurrences(anchor, sched, weeks + 1) : o > at}
           time == WallTime(anchor)
<1>1. n \in Int /\ at < n
  BY DEF IsNext, AllOccurrences
<1>2. CASE sched.repeat = "hourly"
  <2> DEFINE step == sched.step
             bound == 7 * (weeks + 1) * DayLen
  <2>1. step \in Nat \ {0}
    BY <1>2 DEF Schedule
  <2>2. PICK k \in Nat : n = anchor + k * step
    BY <1>2 DEF IsNext, AllOccurrences, FallsOn
  <2>3. S = {o \in {anchor + j * step : j \in 0 .. bound} : o > at}
    BY <1>2 DEF Occurrences
  <2>4. k \in 0 .. bound
    <3> DEFINE before == anchor + (k - 1) * step
    <3>1. k # 0
      BY <1>1, <2>1, <2>2
    <3>2. before \in AllOccurrences(anchor, sched) /\ before < n
      <4>1. k - 1 \in Nat /\ (k - 1) * step = k * step - step /\ k * step \in Int
        BY <2>1, <3>1
      <4>2. before \in Int /\ before < n
        BY <2>1, <2>2, <4>1
      <4>3. QED
        BY <1>2, <4>1, <4>2 DEF AllOccurrences
    <3>3. before <= at
      <4>1. before \in Int
        BY <3>2 DEF AllOccurrences
      <4> HIDE DEF before
      <4>2. at < before => n <= before
        BY <3>2 DEF IsNext
      <4>3. QED
        BY <1>1, <3>2, <4>1, <4>2
    <3>4. k - 1 <= (k - 1) * step /\ (k - 1) * step \in Int
      BY <2>1, <3>1
    <3>5. bound = DayLen * (7 * weeks) + 7 * DayLen /\ DayLen * (7 * weeks) \in Int
      BY CalendarTypes
    <3> DEFINE p == (k - 1) * step
               q == DayLen * (7 * weeks)
    <3>6. anchor + p <= at /\ at <= anchor + q /\ k - 1 <= p /\ p \in Int /\ q \in Int
      BY <3>3, <3>4, <3>5
    <3> HIDE DEF p, q
    <3>7. k - 1 <= q
      BY <3>6
    <3>8. QED
      BY <3>5, <3>6, <3>7, CalendarTypes DEF q
  <2>5. n \in S
    BY <1>1, <2>2, <2>3, <2>4
  <2>6. \A o \in S : o \in AllOccurrences(anchor, sched) /\ at < o
    <3>1. \A j \in 0 .. bound : j \in Nat /\ anchor + j * step \in Int
      BY <2>1, CalendarTypes
    <3>2. QED
      BY <1>2, <2>3, <3>1 DEF AllOccurrences
  <2>7. S \in SUBSET Int /\ \A o \in S : n <= o
    BY <2>6 DEF IsNext, AllOccurrences
  <2> HIDE DEF S
  <2>8. LeastOf(S) = n
    BY <2>5, <2>7, LeastOfIs
  <2>9. QED
    BY <2>8 DEF S
<1>3. CASE sched.repeat \in {"daily", "weekly"}
  <2>1. time \in Int /\ \A d \in Int : At(d, time) \in Int
    BY OwnTimeType
  <2>2. \A d, e \in Int : d < e => At(d, time) < At(e, time)
    BY <2>1, AtIsMonotone
  <2>3. PICK day \in Int : FallsOn(sched, day) /\ n = At(day, time)
    BY <1>3 DEF IsNext, AllOccurrences
  <2>4. ASSUME NEW other \in Int, FallsOn(sched, other), at + 1 <= At(other, time)
        PROVE  day <= other
    <3>1. At(other, time) \in AllOccurrences(anchor, sched)
      BY <2>1, <2>4 DEF AllOccurrences
    <3> HIDE DEF time
    <3>2. n <= At(other, time)
      BY <2>1, <2>4, <3>1 DEF IsNext
    <3>3. ~(other < day)
      <4>1. At(other, time) \in Int /\ At(day, time) \in Int
        BY <2>1
      <4>2. QED
        BY <2>2, <2>3, <3>2, <4>1
    <3>4. QED
      BY <3>3
  <2>5. IsFirstDay(day, sched, time, at + 1)
    BY <1>1, <2>1, <2>3, <2>4 DEF IsFirstDay
  <2>6. day \in Day(anchor) .. Day(anchor) + 7 * weeks + 7
    <3>1. anchor <= at + 1 /\ at + 1 \in Int
      OBVIOUS
    <3>2. DayLen * (7 * weeks) \in Int
      BY CalendarTypes
    <3>3. at + 1 <= anchor + DayLen * (7 * weeks) + 1
      BY <3>2
    <3>4. QED
      BY <1>3, <2>5, <3>1, <3>3, FirstDayIsNear
  <2>7. day \in Day(anchor) .. Day(anchor) + 7 * (weeks + 1) /\ weeks + 1 \in Nat
    BY <2>6, OwnTimeType
  <2>8. LeastOf({o \in Occurrences(anchor, sched, weeks + 1) : o >= at + 1}) = At(day, time)
    BY <1>3, <2>5, <2>7, FirstDayIsLeast
  <2>9. Occurrences(anchor, sched, weeks + 1) \subseteq Int
    <3> SUFFICES ASSUME NEW o \in Occurrences(anchor, sched, weeks + 1) PROVE o \in Int
      OBVIOUS
    <3>1. PICK d \in Day(anchor) .. Day(anchor) + 7 * (weeks + 1) : o = At(d, time)
      BY <1>3, <2>7, DayOccurrences
    <3>2. d \in Int
      BY OwnTimeType
    <3>3. QED
      BY <2>1, <3>1, <3>2
  <2>10. {o \in Occurrences(anchor, sched, weeks + 1) : o >= at + 1} = S
    BY <2>9
  <2>11. QED
    BY <2>3, <2>8, <2>10
<1>4. QED
  BY <1>2, <1>3 DEF Recurring
=============================================================================
