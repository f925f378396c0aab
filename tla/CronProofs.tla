----------------------------- MODULE CronProofs -----------------------------
(***************************************************************************)
(* What Next returns, for every calendar, expression and instant and every *)
(* change of the clock at a full hour and by an hour at most: the first    *)
(* match, unless an hour comes twice and Next loses its first coming.  The *)
(* core is that a jump to the next month, day or hour leaves nothing else  *)
(* out but minutes of the month, day or hour it starts from.               *)
(***************************************************************************)
EXTENDS Cron, WellFoundedInduction, TLAPS

(* The zones the theorems are about: the clock is changed when it shows a   *)
(* full hour, by no more than an hour.                                      *)
FullHour ==
    /\ (Shift + Standard) % Minute = 0
    /\ Saving - Standard <= Minute /\ Standard - Saving <= Minute

(* The clock is put back by an hour, not west of Greenwich: Date reads the  *)
(* hour that comes twice as its second coming, so that a jump to this hour  *)
(* loses the minutes of the first.                                          *)
LosesHour == Saving = Standard - Minute /\ Saving >= 0
Lost(u) == LosesHour /\ u < Shift /\ Wall(u) >= Shift + Saving

(* The clock is put forward west of Greenwich: Date may lead back.          *)
LeadsBack == Standard < 0 /\ Saving > Standard

-----------------------------------------------------------------------------
(* Numbers *)

(* Quotient and remainder by a positive number. *)
LEMMA DivMod ==
    ASSUME NEW v \in Int, NEW k \in Nat, k > 0
    PROVE  /\ v \div k \in Int /\ v % k \in Int
           /\ 0 <= v % k /\ v % k < k
           /\ v = ((v \div k) * k) + (v % k)
<1>1. v \div k \in Int /\ v % k \in Int
  OBVIOUS
<1>2. 0 <= v % k /\ v % k < k
  OBVIOUS
<1>3. v = ((v \div k) * k) + (v % k)
  BY SMTT(20)
<1> QED
  BY <1>1, <1>2, <1>3

(* No multiple of k lies between two neighbouring ones. *)
LEMMA Gap ==
    ASSUME NEW k \in Nat, k > 0, NEW m \in Int, NEW n \in Int
    PROVE  m * k <= n * k - k \/ m * k = n * k \/ m * k >= n * k + k
  BY SMTT(20)

(* A number from d * k on, less than k away, has the quotient d. *)
LEMMA DivIs ==
    ASSUME NEW v \in Int, NEW k \in Nat, k > 0, NEW d \in Int,
           d * k <= v, v < d * k + k
    PROVE  v \div k = d /\ v % k = v - d * k
<1> DEFINE q == v \div k
           p == q * k
           b == d * k
<1>1. /\ q \in Int /\ v % k \in Int /\ p \in Int /\ b \in Int
      /\ 0 <= v % k /\ v % k < k /\ v = p + (v % k)
  BY DivMod
<1>2. p <= b - k \/ p = b \/ p >= b + k
  BY <1>1, Gap
<1>3. b <= v /\ v < b + k
  OBVIOUS
<1> HIDE DEF p, b
<1>4. p = b
  BY <1>1, <1>2, <1>3
<1>5. q = d
  BY <1>1, <1>4 DEF p, b
<1> QED
  BY <1>1, <1>4, <1>5 DEF b

(* A set of natural numbers that is not empty has a least element. *)
LEMMA LeastNumber ==
    ASSUME NEW T \in SUBSET Nat, T # {}
    PROVE  \E x \in T : \A y \in T : x <= y
<1> DEFINE R == OpToRel(<, Nat)
<1>1. \E x \in T : \A y \in T : ~(<<y, x>> \in R)
  BY WFMin, NatLessThanWellFounded
<1>2. \A x, y \in Nat : y < x => <<y, x>> \in R
  BY DEF OpToRel
<1> HIDE DEF R
<1>3. \A x, y \in T : ~(y < x) => x <= y
  OBVIOUS
<1>4. \A x, y \in T : ~(<<y, x>> \in R) => x <= y
  BY <1>2, <1>3
<1> QED
  BY <1>1, <1>4, Zenon


(* The arithmetic of a jump, with the definitions of Wall and Date expanded: x  *)
(* is a minute of a block [lo, hi) of local time, whose ends are not inside an  *)
(* hour, and y is where Date leads from hi; then every minute between the two   *)
(* shows a local time of the block or is lost, whichever side of the change it  *)
(* is on and even when y is the earlier one.                                    *)
LEMMA JumpStays ==
    ASSUME NEW k \in Nat, k > 0, NEW sh \in Int, NEW st \in Int, NEW sv \in Int,
           NEW lo \in Int, NEW hi \in Int, NEW x \in Int, NEW y \in Int, NEW u \in Int,
           lo <= hi - k,
           lo <= (sh + st) - k \/ lo = sh + st \/ lo >= (sh + st) + k,
           hi <= (sh + st) - k \/ hi = sh + st \/ hi >= (sh + st) + k,
           sv - st <= k, st - sv <= k,
           ~(sv = st - k /\ sv >= 0 /\ u < sh /\ u + st >= sh + sv),
           lo <= x + (IF x < sh THEN st ELSE sv),
           x + (IF x < sh THEN st ELSE sv) < hi,
           y = LET o == IF hi < sh THEN st ELSE sv
                   p == IF hi - o < sh THEN st ELSE sv
               IN  IF p = o THEN hi - o ELSE hi - p,
           (x <= u /\ u < y) \/ (y <= u /\ u < x)
    PROVE  lo <= u + (IF u < sh THEN st ELSE sv) /\ u + (IF u < sh THEN st ELSE sv) < hi
  BY SMTT(60)

-----------------------------------------------------------------------------
(* The clock *)

(* The units are positive numbers, and offsets are integers. *)
LEMMA Units ==
    /\ Second \in Nat /\ Second > 0 /\ Minute \in Nat /\ Minute > 0
    /\ Hour \in Nat /\ Hour > 0 /\ Months \in Nat /\ Months > 0
    /\ Weekday \in Nat /\ Weekday > 0 /\ Years \in Nat
    /\ Day \in Nat /\ Day > 0 /\ YearDays \in Nat /\ YearDays > 0
    /\ Shift \in Int /\ Standard \in Int /\ Saving \in Int
<1>1. /\ Second \in Nat /\ Second > 0 /\ Minute \in Nat /\ Minute > 0
      /\ Hour \in Nat /\ Hour > 0 /\ Months \in Nat /\ Months > 0
      /\ Weekday \in Nat /\ Weekday > 0 /\ Years \in Nat
      /\ Shift \in Int /\ Standard \in Int /\ Saving \in Int
  BY CronAssumption
<1>2. Hour * Minute \in Nat /\ Hour * Minute > 0
  BY <1>1, SMTT(20)
<1>3. YearDays \in Nat /\ YearDays > 0
  <2>1. 0 \in 0..Months /\ Months \in 0..Months /\ 0 < Months
    BY <1>1
  <2>2. DaysBefore[0] < DaysBefore[Months]
    BY <2>1, CronAssumption
  <2>3. DaysBefore[Months] \in Nat /\ DaysBefore[0] = 0
    BY <2>1, CronAssumption
  <2> QED
    BY <2>2, <2>3 DEF YearDays
<1> QED
  BY <1>1, <1>2, <1>3 DEF Day

(* Date, offset and local time of an integer are integers. *)
LEMMA Walls ==
    ASSUME NEW u \in Int
    PROVE  Offset(u) \in Int /\ Wall(u) \in Int /\ Date(u) \in Int
<1>1. \A w \in Int : Offset(w) \in Int
  BY Units DEF Offset
<1>2. u - Offset(u) \in Int
  BY <1>1
<1> QED
  BY <1>1, <1>2 DEF Wall, Date

(* What a jump from a to b passes over, forward or back *)
Between(a, b, u) == (a <= u /\ u < b) \/ (b <= u /\ u < a)

(* The clock is changed at a full hour: no other full hour is close to it. *)
LEMMA AroundChange ==
    ASSUME FullHour, NEW n \in Int
    PROVE  \/ n * Minute <= (Shift + Standard) - Minute
           \/ n * Minute = Shift + Standard
           \/ n * Minute >= (Shift + Standard) + Minute
<1> DEFINE A == Shift + Standard
<1>1. A \in Int /\ A \div Minute \in Int /\ (A \div Minute) * Minute \in Int
  BY Units
<1>2. A = ((A \div Minute) * Minute) + (A % Minute) /\ A % Minute = 0
  BY <1>1, DivMod, Units DEF FullHour
<1> HIDE DEF A
<1>3. A = (A \div Minute) * Minute
  BY <1>1, <1>2
<1>4. n * Minute <= A - Minute \/ n * Minute = A \/ n * Minute >= A + Minute
  BY <1>1, <1>3, Gap, Units
<1> QED
  BY <1>4 DEF A

(* A jump from a minute in a block of whole hours to the end of the block. *)
LEMMA NothingLeftOut ==
    ASSUME FullHour, NEW x \in Int, NEW m \in Int, NEW n \in Int,
           m * Minute <= Wall(x), Wall(x) < n * Minute,
           NEW u \in Int, Between(x, Date(n * Minute), u), ~Lost(u)
    PROVE  m * Minute <= Wall(u) /\ Wall(u) < n * Minute
<1> DEFINE lo == m * Minute
           hi == n * Minute
           A == Shift + Standard
<1>1. lo \in Int /\ hi \in Int /\ A \in Int
  BY Units
<1>2. /\ lo <= A - Minute \/ lo = A \/ lo >= A + Minute
      /\ hi <= A - Minute \/ hi = A \/ hi >= A + Minute
  BY AroundChange
<1>3. lo <= hi - Minute \/ lo = hi \/ lo >= hi + Minute
  BY Gap, Units
<1>4. Wall(x) \in Int /\ lo <= Wall(x) /\ Wall(x) < hi
  BY Walls
<1> HIDE DEF lo, hi
<1>5. lo <= hi - Minute
  BY <1>1, <1>3, <1>4, Units
<1>6. /\ Wall(x) = x + (IF x < Shift THEN Standard ELSE Saving)
      /\ Wall(u) = u + (IF u < Shift THEN Standard ELSE Saving)
  BY DEF Wall, Offset
<1>7. Date(hi) = LET o == IF hi < Shift THEN Standard ELSE Saving
                     p == IF hi - o < Shift THEN Standard ELSE Saving
                 IN  IF p = o THEN hi - o ELSE hi - p
  BY DEF Date, Offset
<1>8. Date(hi) \in Int
  BY <1>1, Walls
<1>9. /\ Saving - Standard <= Minute /\ Standard - Saving <= Minute
      /\ ~(/\ Saving = Standard - Minute /\ Saving >= 0
           /\ u < Shift /\ u + Standard >= Shift + Saving)
  BY DEF FullHour, LosesHour, Lost, Wall, Offset
<1>10. (x <= u /\ u < Date(hi)) \/ (Date(hi) <= u /\ u < x)
  BY DEF Between, hi
<1>11. lo <= u + (IF u < Shift THEN Standard ELSE Saving)
       /\ u + (IF u < Shift THEN Standard ELSE Saving) < hi
  BY <1>1, <1>2, <1>4, <1>5, <1>6, <1>7, <1>8, <1>9, <1>10, Units, JumpStays
<1> QED
  BY <1>6, <1>11 DEF lo, hi

-----------------------------------------------------------------------------
(* The calendar *)

(* A local time lies in its day. *)
LEMMA DayBlock ==
    ASSUME NEW x \in Int
    PROVE  /\ DayOf(x) \in Int
           /\ DayOf(x) * Day <= Wall(x) /\ Wall(x) < DayOf(x) * Day + Day
<1>1. Wall(x) \in Int
  BY Walls
<1>2. DayOf(x) \in Int /\ DayOf(x) * Day \in Int
  BY <1>1, Units DEF DayOf
<1>3. /\ 0 <= Wall(x) % Day /\ Wall(x) % Day < Day /\ Wall(x) % Day \in Int
      /\ Wall(x) = (DayOf(x) * Day) + (Wall(x) % Day)
  BY <1>1, DivMod, Units DEF DayOf
<1> QED
  BY <1>1, <1>2, <1>3, Units

(* A local time in day d is on day d. *)
LEMMA InDay ==
    ASSUME NEW u \in Int, NEW d \in Int,
           d * Day <= Wall(u), Wall(u) < d * Day + Day
    PROVE  DayOf(u) = d /\ Wall(u) % Day = Wall(u) - d * Day
  BY Walls, Units, DivIs DEF DayOf

(* A local time lies in its hour of its day. *)
LEMMA HourBlock ==
    ASSUME NEW x \in Int
    PROVE  /\ HourOf(x) \in Int /\ 0 <= HourOf(x) /\ HourOf(x) <= Hour - 1
           /\ (DayOf(x) * Day) + (HourOf(x) * Minute) <= Wall(x)
           /\ Wall(x) < ((DayOf(x) * Day) + (HourOf(x) * Minute)) + Minute
<1> DEFINE r == Wall(x) % Day
           h == HourOf(x)
           b == DayOf(x) * Day
           p == h * Minute
<1>1. /\ r \in Int /\ 0 <= r /\ r < Day /\ Wall(x) = b + r
      /\ DayOf(x) \in Int /\ b \in Int /\ Wall(x) \in Int
  BY DivMod, Walls, Units DEF DayOf
<1>2. /\ h \in Int /\ r % Minute \in Int
      /\ 0 <= r % Minute /\ r % Minute < Minute /\ r = p + (r % Minute)
  BY <1>1, DivMod, Units DEF HourOf
<1>3. p \in Int
  BY <1>2, Units
<1> HIDE DEF h
<1>4. /\ p <= 0 - Minute \/ p = 0 \/ p >= Minute
      /\ p <= Day - Minute \/ p = Day \/ p >= Day + Minute
  <2>1. p <= (0 * Minute) - Minute \/ p = 0 * Minute \/ p >= (0 * Minute) + Minute
    BY <1>2, Gap, Units
  <2>2. p <= (Hour * Minute) - Minute \/ p = Hour * Minute \/ p >= (Hour * Minute) + Minute
    BY <1>2, Gap, Units
  <2>3. 0 * Minute = 0 /\ Day = Hour * Minute
    BY Units DEF Day
  <2> HIDE DEF p
  <2> QED
    BY <2>1, <2>2, <2>3, <1>3, Units
<1>5. 0 <= p /\ p <= Day - Minute
  <2> HIDE DEF p, r, b
  <2> QED
    BY <1>1, <1>2, <1>3, <1>4, Units
<1>6. 0 <= h /\ h <= Hour - 1
  <2>1. h * Minute < Hour * Minute /\ h * Minute >= 0
    <3>1. Day = Hour * Minute
      BY DEF Day
    <3> QED
      BY <1>5, <1>3, <3>1, Units
  <2> QED
    BY <2>1, <1>2, Units, SMTT(30)
<1>7. b + p <= Wall(x) /\ Wall(x) < (b + p) + Minute
  <2> HIDE DEF p, r, b
  <2> QED
    BY <1>1, <1>2, <1>3, Units
<1> QED
  BY <1>2, <1>6, <1>7 DEF h

(* A local time in hour h of day d is on that day in that hour. *)
LEMMA InHour ==
    ASSUME NEW u \in Int, NEW d \in Int, NEW h \in Int, 0 <= h, h <= Hour - 1,
           (d * Day) + (h * Minute) <= Wall(u),
           Wall(u) < ((d * Day) + (h * Minute)) + Minute
    PROVE  DayOf(u) = d /\ HourOf(u) = h
<1> DEFINE b == d * Day
           p == h * Minute
<1>1. b \in Int /\ p \in Int /\ Wall(u) \in Int
  BY Walls, Units
<1>2. 0 <= p
  BY Units, SMTT(20)
<1>3. p <= Day - Minute
  <2>1. p <= (Hour * Minute) - Minute \/ p = Hour * Minute \/ p >= (Hour * Minute) + Minute
    BY Gap, Units
  <2>2. p < Hour * Minute
    BY Units, SMTT(20)
  <2>3. Day = Hour * Minute
    BY DEF Day
  <2> HIDE DEF p
  <2> QED
    BY <1>1, <2>1, <2>2, <2>3, Units
<1>4. b + p <= Wall(u) /\ Wall(u) < (b + p) + Minute
  OBVIOUS
<1>5. b <= Wall(u) /\ Wall(u) < b + Day
  <2> HIDE DEF p, b
  <2> QED
    BY <1>1, <1>2, <1>3, <1>4, Units
<1>6. DayOf(u) = d /\ Wall(u) % Day = Wall(u) - b
  BY <1>5, InDay
<1>7. p <= Wall(u) - b /\ Wall(u) - b < p + Minute /\ Wall(u) - b \in Int
  <2> HIDE DEF p, b
  <2> QED
    BY <1>1, <1>4, Units
<1>8. (Wall(u) - b) \div Minute = h
  <2> HIDE DEF b
  <2> QED
    BY <1>7, DivIs, Units
<1> QED
  BY <1>6, <1>8 DEF HourOf

(* Multiples are ordered as their factors. *)
LEMMA Products ==
    ASSUME NEW a \in Int, NEW b \in Int, NEW k \in Nat, k > 0
    PROVE  /\ a <= b => a * k <= b * k
           /\ a < b => (a * k) + k <= b * k
           /\ a * k < b * k => a < b
           /\ (a + 1) * k = (a * k) + k
<1>1. a <= b => a * k <= b * k
  BY SMTT(30)
<1>2. (a + 1) * k = (a * k) + k
  BY SMTT(30)
<1>3. a < b => (a + 1) * k <= b * k
  BY SMTT(30)
<1>4. a * k < b * k => a < b
  BY SMTT(30)
<1> QED
  BY <1>1, <1>2, <1>3, <1>4

(* Days and hours are multiples of an hour's minutes. *)
LEMMA InMinutes ==
    ASSUME NEW d \in Int, NEW h \in Int
    PROVE  /\ d * Day = (d * Hour) * Minute
           /\ (d * Day) + (h * Minute) = ((d * Hour) + h) * Minute
           /\ d * Hour \in Int
<1>1. d * (Hour * Minute) = (d * Hour) * Minute /\ d * Hour \in Int
  BY Units, SMTT(30)
<1>2. \A a, b \in Int : (a + b) * Minute = (a * Minute) + (b * Minute)
  BY Units, SMTT(30)
<1> QED
  BY <1>1, <1>2 DEF Day

(* Every day of a year lies in a month: the first one that ends after it. *)
LEMMA MonthOfDay ==
    ASSUME NEW d \in Int, 0 <= d, d < YearDays
    PROVE  \E m \in 1..Months : DaysBefore[m - 1] <= d /\ d < DaysBefore[m]
<1> DEFINE T == {m \in 1..Months : d < DaysBefore[m]}
<1>1. Months \in T /\ T \in SUBSET Nat
  BY Units DEF YearDays
<1>2. PICK m \in T : \A n \in T : m <= n
  BY <1>1, LeastNumber
<1>3. m \in 1..Months /\ d < DaysBefore[m] /\ m - 1 \in 0..Months
  BY <1>2, Units
<1>4. DaysBefore[m - 1] \in Nat /\ DaysBefore[0] = 0
  BY <1>3, CronAssumption
<1>5. DaysBefore[m - 1] <= d
  <2>1. CASE m = 1
    BY <2>1, <1>4
  <2>2. CASE m # 1
    <3>1. m - 1 \in 1..Months /\ ~(m <= m - 1)
      BY <2>2, <1>3, Units
    <3>2. m - 1 \notin T
      BY <3>1, <1>2
    <3>3. ~(d < DaysBefore[m - 1])
      BY <3>1, <3>2
    <3> QED
      BY <3>3, <1>4
  <2> QED
    BY <2>1, <2>2
<1> QED
  BY <1>3, <1>5

(* A day of a year lies in one month only. *)
LEMMA OneMonth ==
    ASSUME NEW d \in Int, NEW m \in 1..Months, NEW n \in 1..Months,
           DaysBefore[m - 1] <= d, d < DaysBefore[m],
           DaysBefore[n - 1] <= d, d < DaysBefore[n]
    PROVE  m = n
<1>1. \A i \in 0..Months : DaysBefore[i] \in Nat
  BY CronAssumption
<1>2. \A i, j \in 1..Months : i < j => DaysBefore[i] <= DaysBefore[j - 1]
  <2> SUFFICES ASSUME NEW i \in 1..Months, NEW j \in 1..Months, i < j
               PROVE  DaysBefore[i] <= DaysBefore[j - 1]
    OBVIOUS
  <2>1. i \in 0..Months /\ j - 1 \in 0..Months /\ (i = j - 1 \/ i < j - 1)
    BY Units
  <2>2. CASE i = j - 1
    BY <2>1, <2>2, <1>1
  <2>3. CASE i < j - 1
    <3>1. DaysBefore[i] < DaysBefore[j - 1]
      BY <2>1, <2>3, CronAssumption
    <3> QED
      BY <3>1, <2>1, <1>1
  <2> QED
    BY <2>1, <2>2, <2>3
<1>3. /\ m - 1 \in 0..Months /\ m \in 0..Months /\ n - 1 \in 0..Months /\ n \in 0..Months
      /\ (m < n \/ n < m \/ m = n)
  BY Units
<1>4. ~(m < n)
  BY <1>1, <1>2, <1>3
<1>5. ~(n < m)
  BY <1>1, <1>2, <1>3
<1> QED
  BY <1>3, <1>4, <1>5

(* The day of the year and the month of a minute, as Go's time package gives them. *)
LEMMA Calendar ==
    ASSUME NEW x \in Int
    PROVE  /\ DayOf(x) \in Int /\ DayOfYear(x) \in Int
           /\ 0 <= DayOfYear(x) /\ DayOfYear(x) < YearDays
           /\ DayOf(x) = ((DayOf(x) \div YearDays) * YearDays) + DayOfYear(x)
           /\ MonthOf(x) \in 1..Months
           /\ DaysBefore[MonthOf(x) - 1] <= DayOfYear(x)
           /\ DayOfYear(x) < DaysBefore[MonthOf(x)]
<1>1. DayOf(x) \in Int
  BY DayBlock
<1>2. /\ DayOfYear(x) \in Int /\ 0 <= DayOfYear(x) /\ DayOfYear(x) < YearDays
      /\ DayOf(x) = ((DayOf(x) \div YearDays) * YearDays) + DayOfYear(x)
  BY <1>1, DivMod, Units DEF DayOfYear
<1>3. \E m \in 1..Months : DaysBefore[m - 1] <= DayOfYear(x) /\ DayOfYear(x) < DaysBefore[m]
  BY <1>2, MonthOfDay
<1>4. /\ MonthOf(x) \in 1..Months
      /\ DaysBefore[MonthOf(x) - 1] <= DayOfYear(x)
      /\ DayOfYear(x) < DaysBefore[MonthOf(x)]
  <2> DEFINE P(m) == DaysBefore[m - 1] <= DayOfYear(x) /\ DayOfYear(x) < DaysBefore[m]
  <2>1. MonthOf(x) = CHOOSE m \in 1..Months : P(m)
    BY DEF MonthOf
  <2>2. \E m \in 1..Months : P(m)
    BY <1>3
  <2>3. MonthOf(x) \in 1..Months /\ P(MonthOf(x))
    <3> HIDE DEF P
    <3> QED
      BY <2>1, <2>2
  <2> QED
    BY <2>3
<1> QED
  BY <1>1, <1>2, <1>4

(* A day lies between the first of its month and the first of the next. *)
LEMMA MonthBlock ==
    ASSUME NEW x \in Int
    PROVE  /\ MonthStart(x) \in Int /\ NextMonthStart(x) \in Int
           /\ MonthStart(x) <= DayOf(x) /\ DayOf(x) < NextMonthStart(x)
<1>1. /\ MonthOf(x) - 1 \in 0..Months /\ MonthOf(x) \in 0..Months
      /\ DayOf(x) \in Int /\ DayOfYear(x) \in Int
      /\ DaysBefore[MonthOf(x) - 1] <= DayOfYear(x)
      /\ DayOfYear(x) < DaysBefore[MonthOf(x)]
  BY Calendar, Units
<1>2. DaysBefore[MonthOf(x) - 1] \in Nat /\ DaysBefore[MonthOf(x)] \in Nat
  BY <1>1, CronAssumption
<1> QED
  BY <1>1, <1>2 DEF MonthStart, NextMonthStart

(* A day between these two is of the same month, in whichever year. *)
LEMMA InMonth ==
    ASSUME NEW x \in Int, NEW u \in Int,
           MonthStart(x) <= DayOf(u), DayOf(u) < NextMonthStart(x)
    PROVE  MonthOf(u) = MonthOf(x)
<1> DEFINE q == DayOf(x) \div YearDays
           y == q * YearDays
           m == MonthOf(x)
           e == DayOf(u) - y
<1>1. /\ m \in 1..Months /\ m - 1 \in 0..Months /\ m \in 0..Months
      /\ DayOf(x) \in Int /\ DayOfYear(x) \in Int /\ DayOf(u) \in Int
      /\ q \in Int /\ y \in Int /\ e \in Int
      /\ DayOf(x) = y + DayOfYear(x)
  BY Calendar, Units
<1>2. /\ DaysBefore[m - 1] \in Nat /\ DaysBefore[m] \in Nat
      /\ DaysBefore[m] <= YearDays
  <2>1. DaysBefore[m - 1] \in Nat /\ DaysBefore[m] \in Nat /\ DaysBefore[Months] \in Nat
    BY <1>1, Units, CronAssumption
  <2>2. m = Months \/ DaysBefore[m] < DaysBefore[Months]
    <3>1. m = Months \/ m < Months
      BY <1>1, Units
    <3>2. Months \in 0..Months
      BY Units
    <3> HIDE DEF m
    <3> QED
      BY <1>1, <3>1, <3>2, CronAssumption
  <2> QED
    BY <2>1, <2>2 DEF YearDays
<1>3. DaysBefore[m - 1] <= e /\ e < DaysBefore[m]
  <2>1. /\ (DayOf(x) - DayOfYear(x)) + DaysBefore[m - 1] <= DayOf(u)
        /\ DayOf(u) < (DayOf(x) - DayOfYear(x)) + DaysBefore[m]
    BY DEF MonthStart, NextMonthStart
  <2> HIDE DEF y, m
  <2> QED
    BY <2>1, <1>1, <1>2
<1>4. y <= DayOf(u) /\ DayOf(u) < y + YearDays
  <2> HIDE DEF y, m
  <2> QED
    BY <1>1, <1>2, <1>3, Units
<1>5. DayOfYear(u) = e
  <2> HIDE DEF q
  <2> QED
    BY <1>1, <1>4, DivIs, Units DEF DayOfYear
<1>6. /\ MonthOf(u) \in 1..Months
      /\ DaysBefore[MonthOf(u) - 1] <= e /\ e < DaysBefore[MonthOf(u)]
  BY <1>5, Calendar
<1> HIDE DEF e, m
<1>7. MonthOf(u) = m
  BY <1>1, <1>3, <1>6, OneMonth
<1> QED
  BY <1>7 DEF m

(* A local time lies in its month. *)
LEMMA MonthWalls ==
    ASSUME NEW x \in Int
    PROVE  MonthStart(x) * Day <= Wall(x) /\ Wall(x) < NextMonthStart(x) * Day
<1> DEFINE s == MonthStart(x)
           n == NextMonthStart(x)
<1>1. /\ s \in Int /\ n \in Int /\ DayOf(x) \in Int
      /\ s <= DayOf(x) /\ DayOf(x) < n
  BY MonthBlock, Calendar
<1> HIDE DEF s, n
<1>2. s * Day <= DayOf(x) * Day /\ (DayOf(x) * Day) + Day <= n * Day
  BY <1>1, Products, Units
<1>3. DayOf(x) * Day <= Wall(x) /\ Wall(x) < (DayOf(x) * Day) + Day
  BY DayBlock
<1>4. /\ s * Day \in Int /\ n * Day \in Int /\ DayOf(x) * Day \in Int
      /\ Wall(x) \in Int
  BY <1>1, Units, Walls
<1>5. s * Day <= Wall(x) /\ Wall(x) < n * Day
  BY <1>2, <1>3, <1>4, Units
<1> QED
  BY <1>5 DEF s, n

(* NextMonth passes over minutes of the month it leaves only. *)
LEMMA MonthJump ==
    ASSUME FullHour, NEW x \in Int, NEW u \in Int,
           Between(x, Date(NextMonthStart(x) * Day), u), ~Lost(u)
    PROVE  MonthOf(u) = MonthOf(x)
<1> DEFINE s == MonthStart(x)
           n == NextMonthStart(x)
<1>1. s \in Int /\ n \in Int /\ DayOf(u) \in Int
  BY MonthBlock, Calendar
<1>2. s * Day <= Wall(x) /\ Wall(x) < n * Day
  BY MonthWalls
<1> HIDE DEF s, n
<1>3. /\ s * Day = (s * Hour) * Minute /\ n * Day = (n * Hour) * Minute
      /\ s * Hour \in Int /\ n * Hour \in Int
  BY <1>1, InMinutes
<1>4. Between(x, Date((n * Hour) * Minute), u)
  BY <1>3 DEF n
<1>5. s * Day <= Wall(u) /\ Wall(u) < n * Day
  BY <1>2, <1>3, <1>4, NothingLeftOut
<1>6. s <= DayOf(u) /\ DayOf(u) < n
  <2>1. DayOf(u) * Day <= Wall(u) /\ Wall(u) < (DayOf(u) * Day) + Day
    BY DayBlock
  <2>2. /\ s * Day \in Int /\ n * Day \in Int /\ DayOf(u) * Day \in Int
        /\ Wall(u) \in Int
    BY <1>1, Units, Walls
  <2>3. DayOf(u) * Day < n * Day /\ s * Day < (DayOf(u) * Day) + Day
    BY <1>5, <2>1, <2>2, Units
  <2>4. DayOf(u) < n
    BY <2>3, <1>1, Products, Units
  <2>5. s * Day < (DayOf(u) + 1) * Day
    BY <2>3, <1>1, Products, Units
  <2>6. s < DayOf(u) + 1
    BY <2>5, <1>1, Products, Units
  <2> QED
    BY <2>4, <2>6, <1>1
<1> QED
  BY <1>6, InMonth DEF s, n

(* NextDay passes over minutes of the day it leaves only. *)
LEMMA DayJump ==
    ASSUME FullHour, NEW x \in Int, NEW u \in Int,
           Between(x, Date((DayOf(x) + 1) * Day), u), ~Lost(u)
    PROVE  DayOf(u) = DayOf(x)
<1> DEFINE d == DayOf(x)
<1>1. d \in Int /\ d + 1 \in Int
  BY Calendar
<1>2. d * Day <= Wall(x) /\ Wall(x) < (d * Day) + Day
  BY DayBlock
<1> HIDE DEF d
<1>3. (d + 1) * Day = (d * Day) + Day
  BY <1>1, Products, Units
<1>4. /\ d * Day = (d * Hour) * Minute /\ (d + 1) * Day = ((d + 1) * Hour) * Minute
      /\ d * Hour \in Int /\ (d + 1) * Hour \in Int
  BY <1>1, InMinutes
<1>5. Between(x, Date(((d + 1) * Hour) * Minute), u)
  BY <1>4 DEF d
<1>6. d * Day <= Wall(u) /\ Wall(u) < (d + 1) * Day
  BY <1>2, <1>3, <1>4, <1>5, NothingLeftOut
<1> QED
  BY <1>1, <1>3, <1>6, InDay DEF d

(* NextHour passes over minutes of the hour it leaves only. *)
LEMMA HourJump ==
    ASSUME FullHour, NEW x \in Int, NEW u \in Int,
           Between(x, Date((DayOf(x) * Day) + ((HourOf(x) + 1) * Minute)), u), ~Lost(u)
    PROVE  DayOf(u) = DayOf(x) /\ HourOf(u) = HourOf(x)
<1> DEFINE d == DayOf(x)
           h == HourOf(x)
<1>1. d \in Int /\ h \in Int /\ 0 <= h /\ h <= Hour - 1
  BY Calendar, HourBlock
<1>2. /\ (d * Day) + (h * Minute) <= Wall(x)
      /\ Wall(x) < ((d * Day) + (h * Minute)) + Minute
  BY HourBlock
<1>3. Between(x, Date((d * Day) + ((h + 1) * Minute)), u)
  OBVIOUS
<1> HIDE DEF d, h
<1>4. /\ d * Day \in Int /\ h * Minute \in Int /\ h + 1 \in Int
      /\ (h + 1) * Minute = (h * Minute) + Minute
  BY <1>1, Products, Units
<1>5. (d * Day) + ((h + 1) * Minute) = ((d * Day) + (h * Minute)) + Minute
  BY <1>4, Units
<1>6. /\ (d * Day) + (h * Minute) = ((d * Hour) + h) * Minute
      /\ (d * Day) + ((h + 1) * Minute) = ((d * Hour) + (h + 1)) * Minute
      /\ (d * Hour) + h \in Int /\ (d * Hour) + (h + 1) \in Int
  <2>1. (d * Day) + (h * Minute) = ((d * Hour) + h) * Minute /\ d * Hour \in Int
    BY <1>1, InMinutes
  <2>2. (d * Day) + ((h + 1) * Minute) = ((d * Hour) + (h + 1)) * Minute
    BY <1>1, <1>4, InMinutes
  <2> QED
    BY <2>1, <2>2, <1>1, <1>4
<1>7. /\ (d * Day) + (h * Minute) <= Wall(u)
      /\ Wall(u) < (d * Day) + ((h + 1) * Minute)
  BY <1>2, <1>3, <1>5, <1>6, NothingLeftOut
<1>8. DayOf(u) = d /\ HourOf(u) = h
  BY <1>1, <1>5, <1>7, InHour
<1> QED
  BY <1>8 DEF d, h

(* What the calendar says of two minutes of one day is the same. *)
LEMMA SameDay ==
    ASSUME NEW x, NEW u, DayOf(u) = DayOf(x)
    PROVE  MonthOf(u) = MonthOf(x) /\ DomOf(u) = DomOf(x) /\ DowOf(u) = DowOf(x)
<1>1. DayOfYear(u) = DayOfYear(x)
  BY DEF DayOfYear
<1>2. MonthOf(u) = MonthOf(x)
  BY <1>1 DEF MonthOf
<1> QED
  BY <1>1, <1>2 DEF MonthStart, DomOf, DowOf

-----------------------------------------------------------------------------
(* The search *)

(* The branches of the loop of Next that go on *)
Search == NextMonth \/ NextDay \/ NextHour \/ NextMinute

(* No step of the search passes over a match. *)
LEMMA SearchSkips ==
    ASSUME FullHour, t \in Int, Search
    PROVE  t' \in Int /\ \A u \in Int : Between(t, t', u) => Lost(u) \/ ~Fits(u)
<1>1. CASE NextMonth
  <2>1. t' = Date(NextMonthStart(t) * Day) /\ ~MonthFits(t)
    BY <1>1 DEF NextMonth
  <2>2. NextMonthStart(t) * Day \in Int
    BY MonthBlock, Units
  <2>3. t' \in Int
    BY <2>1, <2>2, Walls
  <2>4. ASSUME NEW u \in Int, Between(t, t', u), ~Lost(u) PROVE ~Fits(u)
    <3>1. MonthOf(u) = MonthOf(t)
      BY <2>1, <2>4, MonthJump
    <3> QED
      BY <2>1, <3>1 DEF Fits, MonthFits
  <2> QED
    BY <2>3, <2>4
<1>2. CASE NextDay
  <2>1. t' = Date((DayOf(t) + 1) * Day) /\ ~DayFits(t)
    BY <1>2 DEF NextDay
  <2>2. (DayOf(t) + 1) * Day \in Int
    BY DayBlock, Units
  <2>3. t' \in Int
    BY <2>1, <2>2, Walls
  <2>4. ASSUME NEW u \in Int, Between(t, t', u), ~Lost(u) PROVE ~Fits(u)
    <3>1. DomOf(u) = DomOf(t) /\ DowOf(u) = DowOf(t)
      BY <2>1, <2>4, DayJump, SameDay
    <3> QED
      BY <2>1, <3>1 DEF Fits, DayFits
  <2> QED
    BY <2>3, <2>4
<1>3. CASE NextHour
  <2>1. t' = Date((DayOf(t) * Day) + ((HourOf(t) + 1) * Minute)) /\ ~HourFits(t)
    BY <1>3 DEF NextHour
  <2>2. (DayOf(t) * Day) + ((HourOf(t) + 1) * Minute) \in Int
    BY DayBlock, HourBlock, Units
  <2>3. t' \in Int
    BY <2>1, <2>2, Walls
  <2>4. ASSUME NEW u \in Int, Between(t, t', u), ~Lost(u) PROVE ~Fits(u)
    <3>1. HourOf(u) = HourOf(t)
      BY <2>1, <2>4, HourJump
    <3> QED
      BY <2>1, <3>1 DEF Fits, HourFits
  <2> QED
    BY <2>3, <2>4
<1>4. CASE NextMinute
  <2>1. t' = t + 1 /\ ~MinuteFits(t)
    BY <1>4 DEF NextMinute
  <2>2. ASSUME NEW u \in Int, Between(t, t', u) PROVE u = t
    BY <2>1, <2>2 DEF Between
  <2> QED
    BY <2>1, <2>2 DEF Fits
<1> QED
  BY <1>1, <1>2, <1>3, <1>4 DEF Search

-----------------------------------------------------------------------------
(* Date leads from the end of a block to a minute after those of the block, as *)
(* numbers: x is in a block that ends at hi, y is where Date leads from hi.    *)
LEMMA JumpGoesOn ==
    ASSUME NEW k \in Nat, k > 0, NEW sh \in Int, NEW st \in Int, NEW sv \in Int,
           NEW hi \in Int, NEW x \in Int, NEW y \in Int,
           hi <= (sh + st) - k \/ hi = sh + st \/ hi >= (sh + st) + k,
           sv - st <= k, st - sv <= k, ~(st < 0 /\ sv > st),
           x + (IF x < sh THEN st ELSE sv) < hi,
           y = LET o == IF hi < sh THEN st ELSE sv
                   p == IF hi - o < sh THEN st ELSE sv
               IN  IF p = o THEN hi - o ELSE hi - p
    PROVE  y > x
  BY SMTT(60)

(* A jump to the end of a block of whole hours goes on. *)
LEMMA DateGoesOn ==
    ASSUME FullHour, ~LeadsBack, NEW x \in Int, NEW n \in Int,
           Wall(x) < n * Minute
    PROVE  Date(n * Minute) > x
<1> DEFINE hi == n * Minute
<1>1. /\ hi <= (Shift + Standard) - Minute \/ hi = Shift + Standard
         \/ hi >= (Shift + Standard) + Minute
      /\ hi \in Int /\ Wall(x) < hi
  BY AroundChange, Units
<1> HIDE DEF hi
<1>2. Wall(x) = x + (IF x < Shift THEN Standard ELSE Saving)
  BY DEF Wall, Offset
<1>3. Date(hi) = LET o == IF hi < Shift THEN Standard ELSE Saving
                     p == IF hi - o < Shift THEN Standard ELSE Saving
                 IN  IF p = o THEN hi - o ELSE hi - p
  BY DEF Date, Offset
<1>4. Date(hi) \in Int
  BY <1>1, Walls
<1>5. /\ Saving - Standard <= Minute /\ Standard - Saving <= Minute
      /\ ~(Standard < 0 /\ Saving > Standard)
  BY DEF FullHour, LeadsBack
<1>6. Date(hi) > x
  BY <1>1, <1>2, <1>3, <1>4, <1>5, Units, JumpGoesOn
<1> QED
  BY <1>6 DEF hi

(* Each step of the search leads to a later minute, unless the clock is put    *)
(* forward west of Greenwich, where it may lead back or stay (NextReturns): in *)
(* all other zones the search comes to its limit, if nothing is found before.  *)
THEOREM SearchGoesOn ==
    ASSUME FullHour, ~LeadsBack, t \in Int, Search
    PROVE  t' > t
<1>1. CASE NextMonth
  <2> DEFINE n == NextMonthStart(t)
  <2>1. t' = Date(n * Day) /\ n \in Int /\ Wall(t) < n * Day
    BY <1>1, MonthBlock, MonthWalls DEF NextMonth
  <2> HIDE DEF n
  <2>2. n * Day = (n * Hour) * Minute /\ n * Hour \in Int
    BY <2>1, InMinutes
  <2> QED
    BY <2>1, <2>2, DateGoesOn
<1>2. CASE NextDay
  <2> DEFINE n == DayOf(t) + 1
  <2>1. DayOf(t) \in Int /\ Wall(t) < (DayOf(t) * Day) + Day
    BY DayBlock
  <2>2. t' = Date(n * Day) /\ n \in Int /\ n * Day = (DayOf(t) * Day) + Day
    BY <1>2, <2>1, Products, Units DEF NextDay
  <2> HIDE DEF n
  <2>3. n * Day = (n * Hour) * Minute /\ n * Hour \in Int
    BY <2>2, InMinutes
  <2>4. Wall(t) < (n * Hour) * Minute
    BY <2>1, <2>2, <2>3
  <2> QED
    BY <2>2, <2>3, <2>4, DateGoesOn
<1>3. CASE NextHour
  <2> DEFINE d == DayOf(t)
             h == HourOf(t)
  <2>1. /\ d \in Int /\ h \in Int
        /\ Wall(t) < ((d * Day) + (h * Minute)) + Minute
    BY DayBlock, HourBlock
  <2>2. t' = Date((d * Day) + ((h + 1) * Minute))
    BY <1>3 DEF NextHour
  <2> HIDE DEF d, h
  <2>3. /\ d * Day \in Int /\ h * Minute \in Int /\ h + 1 \in Int
        /\ (h + 1) * Minute = (h * Minute) + Minute
    BY <2>1, Products, Units
  <2>4. (d * Day) + ((h + 1) * Minute) = ((d * Hour) + (h + 1)) * Minute
    BY <2>1, <2>3, InMinutes
  <2>5. (d * Hour) + (h + 1) \in Int
    BY <2>1, <2>3, Units
  <2>6. Wall(t) \in Int /\ Wall(t) < (d * Day) + ((h + 1) * Minute)
    BY <2>1, <2>3, Walls, Units
  <2> QED
    BY <2>2, <2>4, <2>5, <2>6, DateGoesOn
<1>4. CASE NextMinute
  BY <1>4 DEF NextMinute
<1> QED
  BY <1>1, <1>2, <1>3, <1>4 DEF Search

-----------------------------------------------------------------------------
(* What Next returns *)

(* after.Truncate(time.Minute).Add(time.Minute) *)
Start == after \div Second + 1

(* What Next returns is a match, strictly later than the instant, and what it *)
(* passes over is no match or lost.                                           *)
FirstUnlessLost ==
    result # Pending =>
      LET last == IF result = Zero THEN (Limit - 1) \div Second ELSE result - 1 IN
      /\ result # Zero => result * Second > after /\ Fits(result)
      /\ \A u \in (after \div Second + 1)..last : Lost(u) \/ ~Fits(u)

(* What has been passed over is no match or lost; where a jump led back, so is *)
(* what lies between the minute it led to and the first one.                   *)
SearchInv ==
    /\ after \in Nat /\ t \in Int /\ result \in Int
    /\ result = Pending =>
         /\ \A u \in Int : Between(Start, t, u) => Lost(u) \/ ~Fits(u)
         /\ LosesHour => t >= Start
    /\ FirstUnlessLost

(* The first minute that is looked at is the first one after the instant. *)
LEMMA Instants ==
    ASSUME after \in Nat
    PROVE  /\ Start \in Int /\ Start > 0 /\ Limit \in Int
           /\ \A n \in Int : n >= Start => n * Second > after
<1> DEFINE q == after \div Second
<1>1. /\ q \in Int /\ after % Second \in Int /\ q * Second \in Int
      /\ after = (q * Second) + (after % Second) /\ after % Second < Second
  BY DivMod, Units
<1>2. q >= 0
  BY Units, SMTT(20)
<1>3. Limit \in Int
  <2>1. Wall(q) \in Int /\ Years * YearDays * Day \in Int
    BY <1>1, Walls, Units
  <2>2. Wall(q) + Years * YearDays * Day \in Int
    BY <2>1
  <2>3. Date(Wall(q) + Years * YearDays * Day) \in Int
    BY <2>2, Walls
  <2> QED
    BY <2>3, <1>1, Units DEF Limit
<1>4. ASSUME NEW n \in Int, n >= Start PROVE n * Second > after
  <2>1. q < n
    BY <1>1, <1>4 DEF Start
  <2>2. (q * Second) + Second <= n * Second
    BY <1>1, <2>1, Products, Units
  <2>3. n * Second \in Int
    BY Units
  <2> HIDE DEF q
  <2> QED
    BY <1>1, <2>2, <2>3, Units
<1> QED
  BY <1>1, <1>2, <1>3, <1>4 DEF Start

(* When a minute is past the limit, the last one to be looked at is before it. *)
LEMMA BeforeLimit ==
    ASSUME NEW n \in Int, NEW l \in Int, n * Second >= l,
           NEW u \in Int, u <= (l - 1) \div Second
    PROVE  u < n
<1> DEFINE q == (l - 1) \div Second
<1>1. /\ q \in Int /\ (l - 1) % Second \in Int /\ (l - 1) % Second >= 0
      /\ l - 1 = (q * Second) + ((l - 1) % Second) /\ q * Second \in Int
  BY DivMod, Units
<1>2. u * Second <= q * Second
  BY <1>1, Products, Units
<1>3. u * Second \in Int /\ n * Second \in Int
  BY Units
<1>4. u * Second < n * Second
  <2> HIDE DEF q
  <2> QED
    BY <1>1, <1>2, <1>3
<1> QED
  BY <1>4, Products, Units

(* The expression does not change. *)
LEMMA FitsStays ==
    ASSUME cron' = cron, NEW u \in Int
    PROVE  Fits(u)' = Fits(u)
  BY DEF Fits, MonthFits, DayFits, HourFits, MinuteFits

(* A search that has not looked at anything has passed over nothing. *)
LEMMA SearchStarts == Init => SearchInv
<1> SUFFICES ASSUME Init PROVE SearchInv
  OBVIOUS
<1>1. after \in Nat /\ t = Start /\ result = Pending
  BY CronAssumption DEF Init, Start
<1>2. Start \in Int
  BY <1>1, Instants
<1>3. \A u \in Int : ~Between(Start, t, u)
  BY <1>1, <1>2 DEF Between
<1>4. FirstUnlessLost
  BY <1>1 DEF FirstUnlessLost
<1> QED
  BY <1>1, <1>2, <1>3, <1>4 DEF SearchInv, Pending

(* A step of the search adds what it passes over to what was passed over. *)
LEMMA SearchPreserves == ASSUME FullHour, SearchInv, Search PROVE SearchInv'
<1>1. /\ result = Pending /\ cron' = cron /\ after' = after /\ result' = result
      /\ after \in Nat /\ t \in Int
  BY DEF SearchInv, Search, NextMonth, NextDay, NextHour, NextMinute, Searching
<1>2. Start \in Int /\ Start' = Start
  BY <1>1, Instants DEF Start
<1>3. t' \in Int /\ \A u \in Int : Between(t, t', u) => Lost(u) \/ ~Fits(u)
  BY <1>1, SearchSkips
<1>4. \A u \in Int : Between(Start, t, u) => Lost(u) \/ ~Fits(u)
  BY <1>1 DEF SearchInv
<1>5. ASSUME NEW u \in Int, Between(Start, t', u)
      PROVE  Lost(u) \/ ~(Fits(u)')
  <2>1. Between(Start, t, u) \/ Between(t, t', u)
    BY <1>1, <1>2, <1>3, <1>5 DEF Between
  <2>2. Fits(u)' = Fits(u)
    BY <1>1, FitsStays
  <2> QED
    BY <2>1, <2>2, <1>3, <1>4
<1>6. LosesHour => t' >= Start
  <2> SUFFICES ASSUME LosesHour PROVE t' >= Start
    OBVIOUS
  <2>1. t >= Start
    BY <1>1 DEF SearchInv
  <2>2. ~LeadsBack
    BY Units DEF LosesHour, LeadsBack
  <2>3. t' > t
    BY <1>1, <2>2, SearchGoesOn
  <2> QED
    BY <1>1, <1>2, <1>3, <2>1, <2>3
<1>7. FirstUnlessLost'
  BY <1>1 DEF FirstUnlessLost
<1>8. \A u \in Int : Between(Start', t', u) => Lost(u) \/ ~(Fits(u)')
  BY <1>2, <1>5
<1> QED
  BY <1>1, <1>2, <1>3, <1>6, <1>7, <1>8
  DEF SearchInv, Between, Lost, LosesHour, Wall, Offset

(* Found: a match that is not before the first minute. *)
LEMMA FoundPreserves == ASSUME SearchInv, Found PROVE SearchInv'
<1>1. /\ result = Pending /\ Fits(t) /\ result' = t
      /\ cron' = cron /\ after' = after /\ t' = t /\ after \in Nat /\ t \in Int
  BY DEF SearchInv, Found, Searching
<1>2. /\ Start \in Int /\ Start > 0
      /\ \A n \in Int : n >= Start => n * Second > after
  BY <1>1, Instants
<1>3. \A u \in Int : Between(Start, t, u) => Lost(u) \/ ~Fits(u)
  BY <1>1 DEF SearchInv
<1>4. t >= Start
  <2>1. CASE LosesHour
    BY <1>1, <2>1 DEF SearchInv
  <2>2. CASE ~LosesHour
    <3>1. ~Lost(t)
      BY <2>2 DEF Lost
    <3>2. ~Between(Start, t, t)
      BY <1>1, <1>3, <3>1
    <3> QED
      BY <1>1, <1>2, <3>2 DEF Between
  <2> QED
    BY <2>1, <2>2
<1>5. t * Second > after /\ t # Pending /\ t # Zero
  BY <1>1, <1>2, <1>4 DEF Pending, Zero
<1>6. \A u \in Start..(t - 1) : Lost(u) \/ ~Fits(u)
  BY <1>1, <1>2, <1>3 DEF Between
<1>7. \A u \in Int : Fits(u)' = Fits(u)
  BY <1>1, FitsStays
<1>8. FirstUnlessLost'
  <2>1. Fits(t)'
    BY <1>1, <1>7
  <2>2. Fits(result)'
    BY <1>1, <2>1 DEF Fits, MonthFits, DayFits, HourFits, MinuteFits
  <2>3. \A u \in Start..(t - 1) : Lost(u)' = Lost(u)
    BY DEF Lost, LosesHour, Wall, Offset
  <2>4. \A u \in Start..(t - 1) : Lost(u) \/ ~(Fits(u)')
    BY <1>1, <1>2, <1>6, <1>7
  <2> QED
    BY <1>1, <1>5, <2>2, <2>3, <2>4 DEF FirstUnlessLost, Start
<1> QED
  BY <1>1, <1>5, <1>8 DEF SearchInv

(* GiveUp: what is before the limit has been passed over. *)
LEMMA GiveUpPreserves == ASSUME SearchInv, GiveUp PROVE SearchInv'
<1>1. /\ result = Pending /\ ~(t * Second < Limit) /\ result' = Zero
      /\ cron' = cron /\ after' = after /\ t' = t /\ after \in Nat /\ t \in Int
  BY DEF SearchInv, GiveUp, Searching
<1>2. Start \in Int /\ Limit \in Int
  BY <1>1, Instants
<1>3. \A u \in Int : Between(Start, t, u) => Lost(u) \/ ~Fits(u)
  BY <1>1 DEF SearchInv
<1>4. t * Second \in Int /\ t * Second >= Limit
  BY <1>1, <1>2, Units
<1>5. ASSUME NEW u \in Start..((Limit - 1) \div Second)
      PROVE  Lost(u) \/ ~(Fits(u)')
  <2>1. (Limit - 1) \div Second \in Int
    BY <1>2, Units
  <2>2. u \in Int /\ u >= Start /\ u <= (Limit - 1) \div Second
    BY <1>2, <2>1
  <2>3. u < t
    BY <1>1, <1>2, <1>4, <2>2, BeforeLimit
  <2>4. Fits(u)' = Fits(u)
    BY <1>1, <2>2, FitsStays
  <2> QED
    BY <2>2, <2>3, <2>4, <1>3 DEF Between
<1>6. Limit' = Limit
  BY <1>1 DEF Limit
<1>7. FirstUnlessLost'
  BY <1>1, <1>5, <1>6 DEF FirstUnlessLost, Start, Lost, LosesHour, Wall, Offset
<1> QED
  BY <1>1, <1>7 DEF SearchInv, Pending, Zero

(* Whatever the zone, as long as its clock changes at a full hour and by an    *)
(* hour at most: what Next returns is a match, strictly later than the         *)
(* instant, and every earlier match lies in the first coming of an hour that   *)
(* comes twice.                                                                *)
THEOREM NextLosesOneHour ==
    ASSUME FullHour
    PROVE  Spec => []FirstUnlessLost
<1>1. SearchInv /\ [Next]_vars => SearchInv'
  <2> SUFFICES ASSUME SearchInv, [Next]_vars PROVE SearchInv'
    OBVIOUS
  <2>1. CASE Search
    BY <2>1, SearchPreserves
  <2>2. CASE Found
    BY <2>2, FoundPreserves
  <2>3. CASE GiveUp
    BY <2>3, GiveUpPreserves
  <2>4. CASE UNCHANGED vars
    BY <2>4 DEF vars, SearchInv, FirstUnlessLost, Start, Between, Limit, Fits,
                MonthFits, DayFits, HourFits, MinuteFits, Lost, LosesHour
  <2> QED
    BY <2>1, <2>2, <2>3, <2>4 DEF Next, Search
<1>2. SearchInv => FirstUnlessLost
  BY DEF SearchInv
<1> QED
  BY <1>1, <1>2, SearchStarts, PTL DEF Spec

(* What Next returns is the first minute strictly after the instant that the  *)
(* five fields admit, or the zero time when there is none within the limit.   *)
THEOREM NextCorrect ==
    ASSUME FullHour, ~LosesHour
    PROVE  Spec => []NextIsFirst
<1>1. FirstUnlessLost => NextIsFirst
  BY DEF FirstUnlessLost, NextIsFirst, Lost
<1> QED
  BY <1>1, NextLosesOneHour, PTL
=============================================================================
