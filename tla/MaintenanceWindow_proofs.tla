----------------------- MODULE MaintenanceWindow_proofs -----------------------
(***************************************************************************)
(* What MaintenanceWindow computes, for weeks of any number of days and    *)
(* days of any number of minutes: a window is open when it means to be,    *)
(* and the next opening of a phase is the right one.                       *)
(***************************************************************************)
EXTENDS MaintenanceWindow, FiniteSetTheorems, TLAPS

-----------------------------------------------------------------------------
(* Division.                                                               *)

LEMMA MoreIsAtLeastOneMore ==
  ASSUME NEW a \in Int, NEW b \in Int, NEW c \in Nat, a < b
  PROVE  a * c + c <= b * c
OBVIOUS

LEMMA DivisionLemma ==
  ASSUME NEW t \in Int, NEW n \in Nat \ {0}
  PROVE  t \div n \in Int /\ t % n \in 0..(n - 1) /\ t = (t \div n) * n + (t % n)
OBVIOUS

\* Quotient and remainder are the only ones of their kind.
LEMMA UniqueDivision ==
  ASSUME NEW n \in Nat \ {0}, NEW q \in Int, NEW m \in 0..(n - 1)
  PROVE  (q * n + m) \div n = q /\ (q * n + m) % n = m
<1> DEFINE t == q * n + m
           p == t \div n
<1>1. t \in Int
  OBVIOUS
<1>2. p \in Int /\ t % n \in 0..(n - 1) /\ t = p * n + (t % n)
  BY <1>1, DivisionLemma
<1> HIDE DEF p
<1>3. ~(p < q)
  <2>1. SUFFICES ASSUME p < q PROVE FALSE
    OBVIOUS
  <2>2. p * n + n <= q * n
    BY <1>2, <2>1, MoreIsAtLeastOneMore
  <2> QED BY <1>2, <2>2
<1>4. ~(q < p)
  <2>1. SUFFICES ASSUME q < p PROVE FALSE
    OBVIOUS
  <2>2. q * n + n <= p * n
    BY <1>2, <2>1, MoreIsAtLeastOneMore
  <2> QED BY <1>2, <2>2
<1>5. p = q
  BY <1>2, <1>3, <1>4
<1> QED BY <1>2, <1>5 DEF p

-----------------------------------------------------------------------------
(* The minutes of a week.                                                  *)

LEMMA WeekLemma == Week \in Nat \ {0}
BY WindowAssumption DEF Week

\* Each is a minute of a day, ...
LEMMA MinuteOfDay ==
  ASSUME NEW t \in 0..(Week - 1)
  PROVE  \E day \in Days, minute \in Minutes : t = day * DayMinutes + minute
<1> DEFINE q == t \div DayMinutes
           m == t % DayMinutes
<1>1. t \in Int /\ 0 <= t /\ t < WeekDays * DayMinutes
  BY WeekLemma DEF Week
<1>2. q \in Int /\ m \in Minutes /\ t = q * DayMinutes + m
  BY <1>1, DivisionLemma, WindowAssumption DEF Minutes
<1> HIDE DEF q, m
<1>3. ~(q < 0)
  <2>1. SUFFICES ASSUME q < 0 PROVE FALSE
    OBVIOUS
  <2>2. q * DayMinutes + DayMinutes <= 0 * DayMinutes
    BY <1>2, <2>1, MoreIsAtLeastOneMore, WindowAssumption
  <2> QED BY <1>1, <1>2, <2>2, WindowAssumption DEF Minutes
<1>4. ~(WeekDays - 1 < q)
  <2>1. SUFFICES ASSUME WeekDays - 1 < q PROVE FALSE
    OBVIOUS
  <2>2. (WeekDays - 1) * DayMinutes + DayMinutes <= q * DayMinutes
    BY <1>2, <2>1, MoreIsAtLeastOneMore, WindowAssumption
  <2>3. (WeekDays - 1) * DayMinutes + DayMinutes = WeekDays * DayMinutes
    BY WindowAssumption
  <2> QED BY <1>1, <1>2, <2>2, <2>3, WindowAssumption DEF Minutes
<1>5. q \in Days
  BY <1>2, <1>3, <1>4, WindowAssumption DEF Days
<1> QED BY <1>2, <1>5

\* ... and each minute of a day is one of the week.
LEMMA DayOfMinute ==
  ASSUME NEW day \in Days, NEW minute \in Minutes
  PROVE  LET t == day * DayMinutes + minute IN
         t \in 0..(Week - 1) /\ Weekday(t) = day /\ MinuteOf(t) = minute
<1> DEFINE t == day * DayMinutes + minute
<1>1. day \in 0..(WeekDays - 1) /\ minute \in 0..(DayMinutes - 1)
  BY DEF Days, Minutes
<1>2. t \div DayMinutes = day /\ t % DayMinutes = minute
  BY <1>1, UniqueDivision, WindowAssumption
<1>3. day * DayMinutes + DayMinutes <= WeekDays * DayMinutes
  BY <1>1, MoreIsAtLeastOneMore, WindowAssumption
<1>4. day * DayMinutes \in Nat
  BY <1>1, WindowAssumption
<1>5. t \in 0..(Week - 1)
  BY <1>1, <1>3, <1>4, WeekLemma, WindowAssumption DEF Week
<1>6. (0 * WeekDays + day) % WeekDays = day
  BY <1>1, UniqueDivision, WindowAssumption
<1>7. day % WeekDays = day
  BY <1>1, <1>6, WindowAssumption
<1> QED BY <1>2, <1>5, <1>7 DEF Weekday, MinuteOf

\* A minute and the one some weeks later fall on the same day and time.
LEMMA WeeksLater ==
  ASSUME NEW t \in Nat, NEW j \in Nat
  PROVE  Weekday(t + j * Week) = Weekday(t) /\ MinuteOf(t + j * Week) = MinuteOf(t)
<1> DEFINE q == t \div DayMinutes
           m == t % DayMinutes
           s == j * WeekDays
<1>1. q \in Int /\ m \in 0..(DayMinutes - 1) /\ t = q * DayMinutes + m
  BY DivisionLemma, WindowAssumption
<1>2. s \in Int /\ j * Week = s * DayMinutes
  BY WindowAssumption DEF Week
<1> HIDE DEF q, m, s
<1>3. t + j * Week = (q + s) * DayMinutes + m
  BY <1>1, <1>2, WindowAssumption
<1>4. (t + j * Week) \div DayMinutes = q + s /\ (t + j * Week) % DayMinutes = m
  <2>1. q + s \in Int
    BY <1>1, <1>2, WindowAssumption
  <2> QED BY <1>1, <1>3, <2>1, UniqueDivision, WindowAssumption
<1>5. t \div DayMinutes = q /\ t % DayMinutes = m
  BY <1>1, UniqueDivision, WindowAssumption
<1> DEFINE a == q \div WeekDays
           b == q % WeekDays
<1>6. a \in Int /\ b \in 0..(WeekDays - 1) /\ q = a * WeekDays + b
  BY <1>1, DivisionLemma, WindowAssumption
<1> HIDE DEF a, b
<1>7. q + s = (a + j) * WeekDays + b
  BY <1>6, WindowAssumption DEF s
<1>8. (q + s) % WeekDays = b /\ q % WeekDays = b
  <2>1. a + j \in Int
    BY <1>6
  <2> QED BY <1>6, <1>7, <2>1, UniqueDivision, WindowAssumption
<1> QED BY <1>4, <1>5, <1>8 DEF Weekday, MinuteOf

LEMMA WrapLemma ==
  ASSUME NEW x \in Nat
  PROVE  /\ x < Week => x % Week = x
         /\ Week <= x /\ x < 2 * Week => x % Week = x - Week
<1>1. ASSUME x < Week PROVE x % Week = x
  <2>1. (0 * Week + x) % Week = x
    BY <1>1, UniqueDivision, WeekLemma
  <2> QED BY <2>1, WeekLemma
<1>2. ASSUME Week <= x, x < 2 * Week PROVE x % Week = x - Week
  <2>1. (1 * Week + (x - Week)) % Week = x - Week
    BY <1>2, UniqueDivision, WeekLemma
  <2>2. 1 * Week + (x - Week) = x
    BY WeekLemma
  <2> QED BY <2>1, <2>2
<1> QED BY <1>1, <1>2

-----------------------------------------------------------------------------
(* A window is open when it is meant to be.                                *)

\* How long a window stays open.
LEMMA LengthLemma ==
  ASSUME NEW w \in Windows
  PROVE  /\ w.start < w.end => (w.end - w.start) % DayMinutes = w.end - w.start
         /\ w.start >= w.end =>
              (w.end - w.start) % DayMinutes = w.end - w.start + DayMinutes
<1>1. /\ w.start \in 0..(DayMinutes - 1) /\ w.end \in 0..(DayMinutes - 1)
      /\ w.start # w.end /\ w.days \subseteq Days
  BY DEF Windows, Minutes
<1>2. ASSUME w.start < w.end
      PROVE  (0 * DayMinutes + (w.end - w.start)) % DayMinutes = w.end - w.start
  <2>1. w.end - w.start \in 0..(DayMinutes - 1)
    BY <1>1, <1>2, WindowAssumption
  <2> QED BY <2>1, UniqueDivision, WindowAssumption
<1>3. ASSUME w.start >= w.end
      PROVE  ((-1) * DayMinutes + (w.end - w.start + DayMinutes)) % DayMinutes
               = w.end - w.start + DayMinutes
  <2> DEFINE e == w.end - w.start + DayMinutes
  <2>1. e \in 0..(DayMinutes - 1) /\ -1 \in Int
    BY <1>1, <1>3, WindowAssumption
  <2> HIDE DEF e
  <2>2. ((-1) * DayMinutes + e) % DayMinutes = e
    BY <2>1, UniqueDivision, WindowAssumption
  <2> QED BY <2>2 DEF e
<1>4. /\ 0 * DayMinutes + (w.end - w.start) = w.end - w.start
      /\ (-1) * DayMinutes + (w.end - w.start + DayMinutes) = w.end - w.start
  BY <1>1, WindowAssumption
<1> QED BY <1>2, <1>3, <1>4

\* The day before and the day after, from the last of a week to the first.
LEMMA YesterdayLemma ==
  ASSUME NEW day \in Days
  PROVE  /\ day > 0 => (day - 1) % WeekDays = day - 1
         /\ day = 0 => (day - 1) % WeekDays = WeekDays - 1
<1>1. day \in 0..(WeekDays - 1)
  BY DEF Days
<1>2. ASSUME day > 0 PROVE (0 * WeekDays + (day - 1)) % WeekDays = day - 1
  <2>1. day - 1 \in 0..(WeekDays - 1)
    BY <1>1, <1>2, WindowAssumption
  <2> QED BY <2>1, UniqueDivision, WindowAssumption
<1>3. ((-1) * WeekDays + (WeekDays - 1)) % WeekDays = WeekDays - 1
  <2>1. WeekDays - 1 \in 0..(WeekDays - 1)
    BY WindowAssumption
  <2> QED BY <2>1, UniqueDivision, WindowAssumption
<1>4. 0 * WeekDays + (day - 1) = day - 1 /\ (-1) * WeekDays + (WeekDays - 1) = -1
  BY <1>1, WindowAssumption
<1>5. day = 0 => day - 1 = -1
  OBVIOUS
<1> QED BY <1>2, <1>3, <1>4, <1>5

\* The minute i of a window that opened on a day: still that day, the day
\* after, or the first of the next week.
LEMMA IntoWindow ==
  ASSUME NEW day \in Days, NEW start \in Minutes, NEW i \in Minutes
  PROVE  LET t == (day * DayMinutes + start + i) % Week
             n == start + i
         IN /\ n < DayMinutes => t = day * DayMinutes + n
            /\ n >= DayMinutes /\ day < WeekDays - 1
                 => t = (day + 1) * DayMinutes + (n - DayMinutes)
            /\ n >= DayMinutes /\ day = WeekDays - 1
                 => t = 0 * DayMinutes + (n - DayMinutes)
<1> DEFINE n == start + i
           x == day * DayMinutes + start + i
<1>1. /\ day \in 0..(WeekDays - 1) /\ start \in 0..(DayMinutes - 1)
      /\ i \in 0..(DayMinutes - 1)
  BY DEF Days, Minutes
<1>2. day * DayMinutes \in Nat /\ x = day * DayMinutes + n /\ x \in Nat
  BY <1>1, WindowAssumption
<1>3. ASSUME n < DayMinutes PROVE x % Week = day * DayMinutes + n
  <2>1. n \in Minutes
    BY <1>1, <1>3, WindowAssumption DEF Minutes
  <2>2. x \in 0..(Week - 1)
    BY <1>2, <2>1, DayOfMinute
  <2> QED BY <1>2, <2>2, WrapLemma, WeekLemma
<1>4. ASSUME n >= DayMinutes
      PROVE  /\ day < WeekDays - 1
                  => x % Week = (day + 1) * DayMinutes + (n - DayMinutes)
             /\ day = WeekDays - 1 => x % Week = 0 * DayMinutes + (n - DayMinutes)
  <2>1. n - DayMinutes \in Minutes
    BY <1>1, <1>4, WindowAssumption DEF Minutes
  <2>2. x = (day + 1) * DayMinutes + (n - DayMinutes)
    BY <1>1, <1>2, WindowAssumption
  <2>3. ASSUME day < WeekDays - 1 PROVE x % Week = x
    <3>1. day + 1 \in Days
      BY <1>1, <2>3, WindowAssumption DEF Days
    <3>2. x \in 0..(Week - 1)
      BY <2>1, <2>2, <3>1, DayOfMinute
    <3> QED BY <1>2, <3>2, WrapLemma, WeekLemma
  <2>4. ASSUME day = WeekDays - 1
        PROVE  x % Week = 0 * DayMinutes + (n - DayMinutes)
    <3>1. 0 \in Days
      BY WindowAssumption DEF Days
    <3>2. 0 * DayMinutes + (n - DayMinutes) \in 0..(Week - 1)
      BY <2>1, <3>1, DayOfMinute
    <3>3. (day + 1) * DayMinutes = Week
      BY <2>4, WindowAssumption DEF Week
    <3>4. x = Week + (n - DayMinutes) /\ 0 * DayMinutes + (n - DayMinutes) = n - DayMinutes
      BY <1>1, <2>2, <3>3, WeekLemma, WindowAssumption
    <3>5. x - Week = n - DayMinutes /\ Week <= x /\ x < 2 * Week
      BY <1>1, <3>2, <3>4, WeekLemma, WindowAssumption
    <3> QED BY <1>2, <3>4, <3>5, WrapLemma
  <2> QED BY <2>2, <2>3, <2>4
<1> QED BY <1>3, <1>4

\* A minute a window covers is one at which the code calls it open.
LEMMA CoveredIsOpen ==
  ASSUME NEW w \in Windows, NEW t \in Covered(w)
  PROVE  WindowOpen(w, t)
<1>1. /\ w.start \in Minutes /\ w.end \in Minutes
      /\ w.start # w.end /\ w.days \subseteq Days
  BY DEF Windows
<1>2. PICK day \in w.days :
        t \in {(day * DayMinutes + w.start + i) % Week :
                 i \in 0..(((w.end - w.start) % DayMinutes) - 1)}
  BY DEF Covered
<1>3. PICK i \in 0..(((w.end - w.start) % DayMinutes) - 1) :
        t = (day * DayMinutes + w.start + i) % Week
  BY <1>2
<1>4. /\ w.start \in 0..(DayMinutes - 1) /\ w.end \in 0..(DayMinutes - 1)
      /\ day \in Days /\ day \in 0..(WeekDays - 1)
  BY <1>1, <1>2 DEF Minutes, Days
<1>5. i \in Int /\ 0 <= i
  <2>1. w.end - w.start \in Int
    BY <1>4, WindowAssumption
  <2>2. (w.end - w.start) % DayMinutes \in Int
    BY <2>1, DivisionLemma, WindowAssumption
  <2> QED BY <2>2, <1>3
<1>6. /\ w.start < w.end => i < w.end - w.start
      /\ w.start >= w.end => i < w.end - w.start + DayMinutes
  <2>1. /\ w.start < w.end => (w.end - w.start) % DayMinutes = w.end - w.start
        /\ w.start >= w.end =>
              (w.end - w.start) % DayMinutes = w.end - w.start + DayMinutes
    BY LengthLemma
  <2> QED BY <2>1, <1>3, <1>4, <1>5, WindowAssumption
<1>7. i \in Minutes
  BY <1>1, <1>4, <1>5, <1>6, WindowAssumption DEF Minutes
<1> DEFINE n == w.start + i
<1>8. CASE n < DayMinutes
  <2>1. n \in Minutes
    BY <1>4, <1>5, <1>8, WindowAssumption DEF Minutes
  <2>2. Weekday(t) = day /\ MinuteOf(t) = n
    <3>1. t = day * DayMinutes + n
      BY <1>1, <1>3, <1>4, <1>7, <1>8, IntoWindow
    <3> HIDE DEF n
    <3> QED BY <1>4, <2>1, <3>1, DayOfMinute
  <2>3. w.start <= n /\ (w.start < w.end => n < w.end)
    BY <1>4, <1>5, <1>6
  <2> QED BY <1>2, <1>4, <2>2, <2>3 DEF WindowOpen
<1>9. CASE n >= DayMinutes
  <2>1. w.start >= w.end /\ n - DayMinutes < w.end
    BY <1>4, <1>5, <1>6, <1>9, WindowAssumption
  <2>2. n - DayMinutes \in Minutes
    BY <1>4, <1>5, <1>9, <2>1, WindowAssumption DEF Minutes
  <2>3. CASE day < WeekDays - 1
    <3> DEFINE next == day + 1
               m == n - DayMinutes
    <3>1. t = next * DayMinutes + m
      BY <1>1, <1>3, <1>4, <1>7, <1>9, <2>3, IntoWindow
    <3>2. next \in Days /\ next > 0 /\ next - 1 = day
      BY <1>4, <2>3, WindowAssumption DEF Days
    <3>3. m < w.end /\ m \in Minutes
      BY <2>1, <2>2
    <3> HIDE DEF next, m
    <3>4. Weekday(t) = next /\ MinuteOf(t) = m
      BY <3>1, <3>2, <3>3, DayOfMinute
    <3>5. (next - 1) % WeekDays = next - 1
      BY <3>2, YesterdayLemma
    <3>6. (next - 1) % WeekDays \in w.days
      BY <1>2, <3>2, <3>5, Zenon
    <3> QED BY <2>1, <3>3, <3>4, <3>6 DEF WindowOpen
  <2>4. CASE day = WeekDays - 1
    <3>1. t = 0 * DayMinutes + (n - DayMinutes)
      BY <1>1, <1>3, <1>4, <1>7, <1>9, <2>4, IntoWindow
    <3>2. 0 \in Days
      BY WindowAssumption DEF Days
    <3>3. Weekday(t) = 0 /\ MinuteOf(t) = n - DayMinutes
      BY <2>2, <3>1, <3>2, DayOfMinute
    <3>4. (0 - 1) % WeekDays = day
      BY <2>4, <3>2, YesterdayLemma
    <3> QED BY <1>2, <2>1, <3>3, <3>4 DEF WindowOpen
  <2> QED BY <1>4, <2>3, <2>4, WindowAssumption
<1> QED BY <1>4, <1>5, <1>8, <1>9, WindowAssumption

\* And the other way round.
LEMMA OpenIsCovered ==
  ASSUME NEW w \in Windows, NEW t \in 0..(Week - 1), WindowOpen(w, t)
  PROVE  t \in Covered(w)
<1>1. /\ w.start \in Minutes /\ w.end \in Minutes
      /\ w.start # w.end /\ w.days \subseteq Days
  BY DEF Windows
<1>2. /\ w.start \in 0..(DayMinutes - 1) /\ w.end \in 0..(DayMinutes - 1)
  BY <1>1 DEF Minutes
<1>3. PICK today \in Days, minute \in Minutes : t = today * DayMinutes + minute
  BY MinuteOfDay
<1>4. Weekday(t) = today /\ MinuteOf(t) = minute
  BY <1>3, DayOfMinute
<1>5. today \in 0..(WeekDays - 1) /\ minute \in 0..(DayMinutes - 1)
  BY DEF Days, Minutes
\* It suffices to say on which day the window opened, and how long ago.
<1>6. SUFFICES \E day \in w.days, i \in Minutes :
                 /\ i < (w.end - w.start) % DayMinutes
                 /\ t = (day * DayMinutes + w.start + i) % Week
  <2>1. PICK day \in w.days, i \in Minutes :
                 /\ i < (w.end - w.start) % DayMinutes
                 /\ t = (day * DayMinutes + w.start + i) % Week
    BY <1>6
  <2>2. (w.end - w.start) % DayMinutes \in Int
    <3>1. w.end - w.start \in Int
      BY <1>2, WindowAssumption
    <3> QED BY <3>1, DivisionLemma, WindowAssumption
  <2>3. i \in 0..(((w.end - w.start) % DayMinutes) - 1)
    BY <2>1, <2>2, WindowAssumption DEF Minutes
  <2> QED BY <2>1, <2>3 DEF Covered
<1>7. /\ w.start < w.end => (w.end - w.start) % DayMinutes = w.end - w.start
      /\ w.start >= w.end =>
            (w.end - w.start) % DayMinutes = w.end - w.start + DayMinutes
  BY LengthLemma
<1> DEFINE yesterday == (today - 1) % WeekDays
<1>8. CASE /\ today \in w.days /\ w.start <= minute
           /\ w.start < w.end => minute < w.end
  <2> DEFINE i == minute - w.start
  <2>1. i \in Minutes /\ w.start + i = minute /\ minute < DayMinutes
    BY <1>2, <1>5, <1>8, WindowAssumption DEF Minutes
  <2>2. i < (w.end - w.start) % DayMinutes
    BY <1>2, <1>5, <1>7, <1>8, WindowAssumption
  <2>3. (today * DayMinutes + w.start + i) % Week = today * DayMinutes + minute
    <3> HIDE DEF i
    <3> QED BY <1>1, <2>1, IntoWindow
  <2> QED BY <1>3, <1>8, <2>1, <2>2, <2>3
<1>9. CASE w.start >= w.end /\ yesterday \in w.days /\ minute < w.end
  <2> DEFINE i == minute + DayMinutes - w.start
  <2>6. i \in Minutes /\ w.start + i >= DayMinutes
    BY <1>1, <1>2, <1>5, <1>9, WindowAssumption DEF Minutes
  <2>1. (w.start + i) - DayMinutes = minute
    BY <1>1, <1>2, <1>5, <1>9, WindowAssumption DEF Minutes
  <2>2. i < (w.end - w.start) % DayMinutes
    BY <1>2, <1>5, <1>7, <1>9, WindowAssumption
  <2> HIDE DEF i
  <2>3. yesterday \in Days
    BY <1>1, <1>9
  <2>4. CASE today > 0
    <3>1. yesterday = today - 1
      BY <2>4, YesterdayLemma
    <3>2. yesterday < WeekDays - 1 /\ yesterday + 1 = today
      BY <1>5, <3>1, WindowAssumption
    <3> HIDE DEF yesterday
    <3>3. (yesterday * DayMinutes + w.start + i) % Week
            = (yesterday + 1) * DayMinutes + ((w.start + i) - DayMinutes)
      BY <1>1, <2>6, <2>3, <3>2, IntoWindow
    <3>4. (yesterday * DayMinutes + w.start + i) % Week = today * DayMinutes + minute
      BY <2>1, <3>2, <3>3
    <3> QED BY <1>3, <1>9, <2>6, <2>2, <3>4 DEF yesterday
  <2>5. CASE today = 0
    <3>1. yesterday = WeekDays - 1
      BY <2>5, YesterdayLemma
    <3> HIDE DEF yesterday
    <3>2. (yesterday * DayMinutes + w.start + i) % Week
            = 0 * DayMinutes + ((w.start + i) - DayMinutes)
      BY <1>1, <2>6, <2>3, <3>1, IntoWindow
    <3>3. (yesterday * DayMinutes + w.start + i) % Week = today * DayMinutes + minute
      BY <2>1, <2>5, <3>2
    <3> QED BY <1>3, <1>9, <2>6, <2>2, <3>3 DEF yesterday
  <2> QED BY <1>5, <2>4, <2>5
<1>10. \/ /\ today \in w.days /\ w.start <= minute
          /\ w.start < w.end => minute < w.end
       \/ w.start >= w.end /\ yesterday \in w.days /\ minute < w.end
  BY <1>2, <1>4, <1>5 DEF WindowOpen
<1> QED BY <1>8, <1>9, <1>10

(***************************************************************************)
(* A window is open exactly when it began on one of its days and has not   *)
(* come to its end since, also across midnight and from the last day of    *)
(* the week to the first (_policy_open() in maintenance.py).               *)
(***************************************************************************)
THEOREM OpenIsWhatIsMeant ==
  \A w \in Windows, t \in 0..(Week - 1) : WindowOpen(w, t) <=> t \in Covered(w)
BY CoveredIsOpen, OpenIsCovered

LEMMA NoneMistaken == Mistaken = {}
<1>1. \A w, t : WindowOpen(w, t) \in BOOLEAN
  BY DEF WindowOpen
<1> QED BY <1>1, OpenIsWhatIsMeant DEF Mistaken

-----------------------------------------------------------------------------
(* Finite sets of numbers have a least and a greatest one.                 *)

LEMMA AboveLemma ==
  ASSUME NEW S, IsFiniteSet(S), S # {}, S \subseteq Nat
  PROVE  \E n \in S : \A m \in S : m <= n
<1> DEFINE above(n) == {m \in S : m > n}
           T == {above(n) : n \in S}
           R == StrictSubsetOrdering(S)
<1>1. IsWellFoundedOn(R, SUBSET S)
  BY FS_StrictSubsetOrderingWellFounded, FS_FiniteSubsetsOfFinite
<1>2. T \subseteq SUBSET S /\ T # {}
  OBVIOUS
<1>3. \E A \in T : \A B \in T : ~ (<<B, A>> \in R)
  <2> HIDE DEF T, R
  <2> QED BY <1>1, <1>2, WFMin, Zenon
<1>4. PICK n \in S : \A k \in S : ~ (<<above(k), above(n)>> \in R)
  BY <1>3
<1>5. SUFFICES ASSUME NEW k \in S, k > n PROVE FALSE
  OBVIOUS
<1>6. above(k) \subseteq above(n) /\ k \in above(n) /\ k \notin above(k)
  <2>1. k \in Nat /\ n \in Nat /\ \A m \in S : m \in Nat
    OBVIOUS
  <2>2. ~ (k > k) /\ \A m \in S : m > k => m > n
    BY <1>5, <2>1
  <2> QED BY <1>5, <2>2
<1>7. <<above(k), above(n)>> \in R
  <2>1. above(k) \in SUBSET S /\ above(n) \in SUBSET S /\ above(k) # above(n)
    BY <1>6
  <2> HIDE DEF above
  <2> QED BY <1>6, <2>1 DEF StrictSubsetOrdering
<1> QED BY <1>4, <1>7

LEMMA BelowLemma ==
  ASSUME NEW S, IsFiniteSet(S), S # {}, S \subseteq Nat
  PROVE  \E n \in S : \A m \in S : n <= m
<1> DEFINE below(n) == {m \in S : m < n}
           T == {below(n) : n \in S}
           R == StrictSubsetOrdering(S)
<1>1. IsWellFoundedOn(R, SUBSET S)
  BY FS_StrictSubsetOrderingWellFounded, FS_FiniteSubsetsOfFinite
<1>2. T \subseteq SUBSET S /\ T # {}
  OBVIOUS
<1>3. \E A \in T : \A B \in T : ~ (<<B, A>> \in R)
  <2> HIDE DEF T, R
  <2> QED BY <1>1, <1>2, WFMin, Zenon
<1>4. PICK n \in S : \A k \in S : ~ (<<below(k), below(n)>> \in R)
  BY <1>3
<1>5. SUFFICES ASSUME NEW k \in S, k < n PROVE FALSE
  OBVIOUS
<1>6. below(k) \subseteq below(n) /\ k \in below(n) /\ k \notin below(k)
  <2>1. k \in Nat /\ n \in Nat /\ \A m \in S : m \in Nat
    OBVIOUS
  <2>2. ~ (k < k) /\ \A m \in S : m < k => m < n
    BY <1>5, <2>1
  <2> QED BY <1>5, <2>2
<1>7. <<below(k), below(n)>> \in R
  <2>1. below(k) \in SUBSET S /\ below(n) \in SUBSET S /\ below(k) # below(n)
    BY <1>6
  <2> HIDE DEF below
  <2> QED BY <1>6, <2>1 DEF StrictSubsetOrdering
<1> QED BY <1>4, <1>7

-----------------------------------------------------------------------------
(* The next opening.                                                       *)

LEMMA AllowedWeeksLater ==
  ASSUME NEW policies, NEW t \in Nat, NEW j \in Nat
  PROVE  Allowed(policies, t + j * Week) <=> Allowed(policies, t)
<1>1. \A w : WindowOpen(w, t + j * Week) <=> WindowOpen(w, t)
  BY WeeksLater DEF WindowOpen
<1> QED BY <1>1 DEF Allowed, PolicyOpen

\* What is not allowed for a week never is.
LEMMA NeverAfterAWeek ==
  ASSUME NEW policies, NEW t \in Nat, \A k \in t..(t + Week) : ~Allowed(policies, k)
  PROVE  \A n \in Nat : n >= t => ~Allowed(policies, n)
<1> SUFFICES ASSUME NEW n \in Nat, n >= t PROVE ~Allowed(policies, n)
  OBVIOUS
<1> DEFINE j == (n - t) \div Week
           i == (n - t) % Week
<1>1. j \in Int /\ i \in 0..(Week - 1) /\ n - t = j * Week + i
  BY DivisionLemma, WeekLemma
<1> HIDE DEF i, j
<1>2. ~(j < 0)
  <2>1. SUFFICES ASSUME j < 0 PROVE FALSE
    OBVIOUS
  <2>2. j * Week + Week <= 0 * Week
    BY <1>1, <2>1, MoreIsAtLeastOneMore, WeekLemma
  <2> QED BY <1>1, <2>2, WeekLemma
<1> DEFINE k == t + i
<1>3. k \in Nat /\ k \in t..(t + Week) /\ j \in Nat
  BY <1>1, <1>2, WeekLemma
<1>4. n = k + j * Week
  <2>1. j * Week \in Int
    BY <1>1, WeekLemma
  <2> QED BY <1>1, <2>1, WeekLemma
<1> HIDE DEF k
<1> QED BY <1>3, <1>4, AllowedWeeksLater

\* The horizon is far enough, and what is found is the first minute allowed.
LEMMA NextOpenLemma ==
  ASSUME NEW policies, NEW t \in Nat
  PROVE  LET next == NextOpen(policies, t) IN
         \/ next = Never /\ \A n \in Nat : n >= t => ~Allowed(policies, n)
         \/ /\ next \in Nat /\ next >= t /\ Allowed(policies, next)
            /\ \A k \in t..(next - 1) : ~Allowed(policies, k)
<1> DEFINE far == t + 1 + HorizonDays * DayMinutes
           found == {n \in (t + 1)..far : Allowed(policies, n)}
<1>1. far \in Int /\ t + Week <= far
  <2>1. WeekDays * DayMinutes <= HorizonDays * DayMinutes
    <3>1. CASE WeekDays < HorizonDays
      <4>1. WeekDays * DayMinutes + DayMinutes <= HorizonDays * DayMinutes
        BY <3>1, MoreIsAtLeastOneMore, WindowAssumption
      <4>2. WeekDays * DayMinutes \in Int /\ HorizonDays * DayMinutes \in Int
        BY WindowAssumption
      <4> QED BY <4>1, <4>2, WindowAssumption
    <3>2. CASE WeekDays = HorizonDays
      BY <3>2, WindowAssumption
    <3> QED BY <3>1, <3>2, WindowAssumption
  <2>2. HorizonDays * DayMinutes \in Nat
    BY WindowAssumption
  <2> QED BY <2>1, <2>2, WeekLemma DEF Week
<1> HIDE DEF far
<1>2. CASE Allowed(policies, t)
  <2>1. NextOpen(policies, t) = t
    BY <1>2 DEF NextOpen
  <2> QED BY <1>2, <2>1
<1>3. CASE ~Allowed(policies, t) /\ found = {}
  <2>1. NextOpen(policies, t) = Never
    BY <1>3 DEF NextOpen, far
  <2>2. \A k \in t..(t + Week) : ~Allowed(policies, k)
    BY <1>1, <1>3, WeekLemma
  <2> QED BY <2>1, <2>2, NeverAfterAWeek
<1>4. CASE ~Allowed(policies, t) /\ found # {}
  <2> DEFINE next == CHOOSE n \in found : \A m \in found : n <= m
  <2>1. NextOpen(policies, t) = next
    BY <1>4 DEF NextOpen, far
  <2>2. found \subseteq Nat /\ IsFiniteSet(found)
    <3>1. IsFiniteSet((t + 1)..far)
      BY <1>1, FS_Interval
    <3> QED BY <1>1, <3>1, FS_Subset
  <2>3. next \in found /\ \A m \in found : next <= m
    <3> HIDE DEF found
    <3> QED BY <1>4, <2>2, BelowLemma
  <2> HIDE DEF next
  <2>4. next \in Nat /\ next >= t /\ Allowed(policies, next)
    BY <1>1, <2>3
  <2>5. \A k \in t..(next - 1) : ~Allowed(policies, k)
    BY <1>1, <1>4, <2>3, <2>4
  <2> QED BY <2>1, <2>4, <2>5
<1> QED BY <1>2, <1>3, <1>4

(***************************************************************************)
(* The time reported for a phase that is blocked is the first by which     *)
(* each of its blocked devices, of any number and under any policies, has  *)
(* been allowed; and none is reported exactly when one of them never will  *)
(* be (maintenance_state() and phase_maintenance_gate() in                 *)
(* maintenance.py).                                                        *)
(***************************************************************************)
THEOREM ReportIsFirstOpening ==
  ASSUME NEW blocked, IsFiniteSet(blocked), blocked # {},
         NEW policies, NEW t \in Nat,
         NEW next, \A d \in blocked : next[d] = NextOpen(policies[d], t)
  PROVE  LET report == GateNext(blocked, next) IN
         \/ /\ report = Never
            /\ \E d \in blocked : \A n \in Nat : n >= t => ~Allowed(policies[d], n)
         \/ /\ report \in Nat /\ report >= t
            /\ AllowedBy(blocked, policies, t, report)
            /\ ~AllowedBy(blocked, policies, t, report - 1)
<1>1. \A d \in blocked :
         \/ next[d] = Never /\ \A n \in Nat : n >= t => ~Allowed(policies[d], n)
         \/ /\ next[d] \in Nat /\ next[d] >= t /\ Allowed(policies[d], next[d])
            /\ \A k \in t..(next[d] - 1) : ~Allowed(policies[d], k)
  BY NextOpenLemma
<1>2. CASE \E d \in blocked : next[d] = Never
  <2>1. GateNext(blocked, next) = Never
    BY <1>2 DEF GateNext
  <2>2. \A n \in Nat : n # Never
    BY DEF Never
  <2> QED BY <1>1, <1>2, <2>1, <2>2
<1>3. CASE \A d \in blocked : next[d] # Never
  <2> DEFINE S == {next[d] : d \in blocked}
             report == CHOOSE n \in S : \A d \in blocked : next[d] <= n
  <2>1. GateNext(blocked, next) = report
    BY <1>3 DEF GateNext
  <2>2. IsFiniteSet(S) /\ S # {} /\ S \subseteq Nat
    <3>1. [d \in blocked |-> next[d]] \in Surjection(blocked, S)
      BY DEF Surjection
    <3>2. IsFiniteSet(S)
      <4> HIDE DEF S
      <4> QED BY <3>1, FS_Surjection
    <3> QED BY <1>1, <1>3, <3>2
  <2>3. \E n \in S : \A m \in S : m <= n
    <3> HIDE DEF S
    <3> QED BY <2>2, AboveLemma
  <2>4. report \in S /\ \A d \in blocked : next[d] <= report
    <3>1. \E n \in S : \A d \in blocked : next[d] <= n
      BY <2>3
    <3> QED BY <3>1
  <2>5. PICK last \in blocked : report = next[last]
    BY <2>4
  <2> HIDE DEF report, S
  <2>6. report \in Nat /\ report >= t
    BY <1>1, <1>3, <2>5
  <2>7. AllowedBy(blocked, policies, t, report)
    <3> SUFFICES ASSUME NEW d \in blocked
                 PROVE  \E k \in t..report : Allowed(policies[d], k)
      BY DEF AllowedBy
    <3>1. next[d] \in t..report /\ Allowed(policies[d], next[d])
      BY <1>1, <1>3, <2>4, <2>6
    <3> QED BY <3>1
  <2>8. ~AllowedBy(blocked, policies, t, report - 1)
    BY <1>1, <1>3, <2>5 DEF AllowedBy
  <2> QED BY <2>1, <2>6, <2>7, <2>8
<1> QED BY <1>2, <1>3

LEMMA NoneMisreported == Misreported = {}
<1> SUFFICES ASSUME NEW t \in Misreported PROVE FALSE
  OBVIOUS
<1>0. PICK v \in Windows, w \in Windows, x \in Windows :
         LET policies == <<{[windows |-> {v}], [windows |-> {w}]},
                           {[windows |-> {x}]}>>
             blocked == {d \in {1, 2} : ~Allowed(policies[d], t)}
             report == GateNext(blocked,
                                [d \in {1, 2} |-> NextOpen(policies[d], t)])
         IN /\ blocked # {}
            /\ ~ IF report = Never
                   THEN ~AllowedBy(blocked, policies, t, t + Week)
                   ELSE /\ AllowedBy(blocked, policies, t, report)
                        /\ ~AllowedBy(blocked, policies, t, report - 1)
  BY Zenon DEF Misreported
<1> DEFINE policies == <<{[windows |-> {v}], [windows |-> {w}]}, {[windows |-> {x}]}>>
           blocked == {d \in {1, 2} : ~Allowed(policies[d], t)}
           next == [d \in {1, 2} |-> NextOpen(policies[d], t)]
           report == GateNext(blocked, next)
<1>1. IsFiniteSet({1, 2})
  <2>1. 1..2 = {1, 2}
    OBVIOUS
  <2>2. 1 \in Int /\ 2 \in Int
    OBVIOUS
  <2>3. IsFiniteSet(1..2)
    BY <2>2, FS_Interval, Zenon
  <2> QED BY <2>1, <2>3
<1>2. IsFiniteSet(blocked) /\ blocked # {}
  BY <1>0, <1>1, FS_Subset
<1>3. \A d \in blocked : next[d] = NextOpen(policies[d], t)
  OBVIOUS
<1>4. t \in Nat
  BY WeekLemma DEF Misreported
<1>5. ~ IF report = Never
          THEN ~AllowedBy(blocked, policies, t, t + Week)
          ELSE /\ AllowedBy(blocked, policies, t, report)
               /\ ~AllowedBy(blocked, policies, t, report - 1)
  BY <1>0, Zenon
<1> HIDE DEF policies, blocked, next
<1>6. \/ /\ report = Never
         /\ \E d \in blocked : \A n \in Nat : n >= t => ~Allowed(policies[d], n)
      \/ /\ report \in Nat /\ report >= t
         /\ AllowedBy(blocked, policies, t, report)
         /\ ~AllowedBy(blocked, policies, t, report - 1)
  BY <1>2, <1>3, <1>4, ReportIsFirstOpening
<1> HIDE DEF report
<1>7. \A n \in Nat : n # Never
  BY DEF Never
<1>8. (\E d \in blocked : \A n \in Nat : n >= t => ~Allowed(policies[d], n))
        => ~AllowedBy(blocked, policies, t, t + Week)
  BY <1>4, WeekLemma DEF AllowedBy
<1> QED BY <1>5, <1>6, <1>7, <1>8
=============================================================================
