----------------------------- MODULE CronProofs -----------------------------
(***************************************************************************)
(* Theorems about Cron, for every calendar, every set of expressions and   *)
(* instants, from the assumptions of Cron alone.                           *)
(*                                                                         *)
(* An instant is handled through its wall clock.  Where the offset is      *)
(* fixed the two differ by a constant, and every jump of the scan is a     *)
(* jump within one unit: the second, the minute and the hour are digits of *)
(* the wall clock, the day and the month its quotients.                    *)
(***************************************************************************)
EXTENDS Cron, NaturalsInduction, WellFoundedInduction, TLAPS

-----------------------------------------------------------------------------
\* Quotients and remainders.

\* A number is its quotient times the divisor, plus its remainder.
LEMMA Division ==
  ASSUME NEW a \in Int, NEW n \in Nat \ {0}
  PROVE  /\ a \div n \in Int
         /\ a % n \in 0..(n - 1)
         /\ a = n * (a \div n) + (a % n)
OBVIOUS

\* Different multiples of n are at least n apart.
LEMMA Multiples ==
  ASSUME NEW n \in Nat \ {0}, NEW x \in Int, NEW y \in Int, x < y
  PROVE  n * x + n <= n * y
OBVIOUS

\* Quotient and remainder are determined by that.
LEMMA DivisionUnique ==
  ASSUME NEW n \in Nat \ {0}, NEW q \in Int, NEW r \in 0..(n - 1), NEW a \in Int,
         a = n * q + r
  PROVE  a \div n = q /\ a % n = r
<1>1. /\ a \div n \in Int
      /\ a % n \in 0..(n - 1)
      /\ a = n * (a \div n) + (a % n)
  BY Division
<1>2. CASE q < a \div n
  BY <1>1, <1>2, Multiples
<1>3. CASE a \div n < q
  BY <1>1, <1>3, Multiples
<1> QED
  BY <1>1, <1>2, <1>3

\* Within one unit the remainder grows as the number does.
LEMMA Within ==
  ASSUME NEW n \in Nat \ {0}, NEW w \in Int, NEW x \in Int,
         w <= x, x < w - (w % n) + n
  PROVE  /\ x \div n = w \div n
         /\ x % n = (w % n) + (x - w)
         /\ w - (w % n) = n * (w \div n)
<1>1. /\ w \div n \in Int
      /\ w % n \in 0..(n - 1)
      /\ w = n * (w \div n) + (w % n)
  BY Division
<1> DEFINE q == w \div n
           r == (w % n) + (x - w)
<1>2. q \in Int /\ r \in 0..(n - 1) /\ x = n * q + r
  BY <1>1
<1>3. x \div n = q /\ x % n = r
  <2> HIDE DEF q, r
  <2> QED
    BY <1>2, DivisionUnique
<1> QED
  BY <1>1, <1>3

\* The digit of a clock that counts units of m within n grows with the number.
LEMMA DigitGrows ==
  ASSUME NEW m \in Nat \ {0}, NEW r \in Int, NEW s \in Int, r <= s
  PROVE  r \div m <= s \div m
<1>1. /\ r \div m \in Int /\ s \div m \in Int
      /\ r % m \in 0..(m - 1) /\ s % m \in 0..(m - 1)
      /\ r = m * (r \div m) + (r % m)
      /\ s = m * (s \div m) + (s % m)
  BY Division
<1>2. SUFFICES ASSUME s \div m < r \div m
               PROVE  FALSE
  BY <1>1
<1>3. m * (s \div m) + m <= m * (r \div m)
  BY <1>1, <1>2, Multiples
<1>4. m * (s \div m) \in Int /\ m * (r \div m) \in Int
  BY <1>1
<1> QED
  BY <1>1, <1>3, <1>4

\* And stays below v as long as the number stays below v units.
LEMMA DigitBelow ==
  ASSUME NEW m \in Nat \ {0}, NEW s \in Int, NEW v \in Int, s < m * v
  PROVE  s \div m < v
<1>1. /\ s \div m \in Int
      /\ s % m \in 0..(m - 1)
      /\ s = m * (s \div m) + (s % m)
  BY Division
<1>2. SUFFICES ASSUME v <= s \div m
               PROVE  FALSE
  BY <1>1
<1>3. m * v <= m * (s \div m)
  <2>1. CASE v = s \div m
    BY <2>1, <1>1
  <2>2. CASE v < s \div m
    <3>1. m * v + m <= m * (s \div m)
      BY <2>2, <1>1, Multiples
    <3>2. m * v \in Int /\ m * (s \div m) \in Int
      BY <1>1
    <3> QED
      BY <3>1, <3>2
  <2> QED
    BY <2>1, <2>2, <1>1, <1>2
<1>4. m * v \in Int /\ m * (s \div m) \in Int
  BY <1>1
<1> QED
  BY <1>1, <1>3, <1>4

\* A unit that is made of whole smaller ones.
LEMMA Whole ==
  ASSUME NEW n \in Nat \ {0}, NEW m \in Nat \ {0}, n % m = 0
  PROVE  n = m * (n \div m) /\ n \div m \in Nat \ {0}
<1>1. /\ n \div m \in Int
      /\ n = m * (n \div m) + (n % m)
  BY Division
<1>2. n = m * (n \div m)
  BY <1>1
<1>3. n \div m >= 1
  <2>1. SUFFICES ASSUME n \div m < 1
                 PROVE  FALSE
    BY <1>1
  <2>2. CASE n \div m = 0
    BY <2>2, <1>2
  <2>3. CASE n \div m < 0
    <3>1. m * (n \div m) + m <= m * 0
      BY <2>3, <1>1, Multiples
    <3> QED
      BY <3>1, <1>2
  <2> QED
    BY <2>1, <2>2, <2>3, <1>1
<1> QED
  BY <1>1, <1>2, <1>3

\* Adding whole units does not change the remainder.
LEMMA Shift ==
  ASSUME NEW m \in Nat \ {0}, NEW a \in Int, NEW c \in Int, c % m = 0
  PROVE  (a + c) % m = a % m
<1>1. /\ a \div m \in Int /\ a % m \in 0..(m - 1) /\ a = m * (a \div m) + (a % m)
      /\ c \div m \in Int /\ c = m * (c \div m) + (c % m)
  BY Division
<1> DEFINE q == (a \div m) + (c \div m)
           r == a % m
           e == a + c
<1>2. q \in Int /\ r \in 0..(m - 1) /\ e \in Int /\ e = m * q + r
  BY <1>1
<1>3. e % m = r
  <2> HIDE DEF q, r, e
  <2> QED
    BY <1>2, DivisionUnique
<1> QED
  BY <1>3

\* A multiple of n is a multiple of what n is a multiple of.
LEMMA WholeWhole ==
  ASSUME NEW n \in Nat \ {0}, NEW m \in Nat \ {0}, NEW c \in Int, n % m = 0, c % n = 0
  PROVE  c % m = 0
<1>1. c \div n \in Int /\ c = n * (c \div n) + (c % n)
  BY Division
<1>2. n = m * (n \div m) /\ n \div m \in Nat \ {0}
  BY Whole
<1>3. c = m * ((n \div m) * (c \div n)) + 0
  <2>1. c = n * (c \div n)
    BY <1>1
  <2>2. m * ((n \div m) * (c \div n)) = (m * (n \div m)) * (c \div n)
    BY <1>1, <1>2
  <2> QED
    BY <2>1, <2>2, <1>1, <1>2
<1> DEFINE q == (n \div m) * (c \div n)
<1>4. q \in Int /\ c = m * q + 0
  BY <1>1, <1>2, <1>3
<1> QED
  <2> HIDE DEF q
  <2> QED
    BY <1>4, DivisionUnique

-----------------------------------------------------------------------------
\* Least elements.

\* A set of natural numbers that is not empty has a least element.
LEMMA LeastExists ==
  ASSUME NEW S, S \subseteq Nat, S # {}
  PROVE  /\ Min(S) \in S
         /\ \A y \in S : Min(S) <= y
<1> DEFINE Less == {p \in Nat \X Nat : p[1] < p[2]}
<1>1. IsWellFoundedOn(Less, Nat)
  BY NatLessThanWellFounded DEF OpToRel, Less
<1>2. \E x \in S : \A y \in S : ~ (<<y, x>> \in Less)
  <2> HIDE DEF Less
  <2> QED
    BY <1>1, WFMin
<1>3. \E x \in S : \A y \in S : x <= y
  <2>1. PICK x \in S : \A y \in S : ~ (<<y, x>> \in Less)
    BY <1>2
  <2>2. \A y \in S : ~ (y < x)
    BY <2>1
  <2> QED
    BY <2>2
<1> QED
  BY <1>3 DEF Min

\* An interval begins with its least element and ends with its greatest.
LEMMA Interval ==
  ASSUME NEW a \in Int, NEW b \in Int, a <= b
  PROVE  Min(a..b) = a /\ Max(a..b) = b
  BY DEF Min, Max

-----------------------------------------------------------------------------
\* The calendar.

\* The month of a day, of which MonthAt is the month of the day of an instant.
MonthOfDay(d) == Months * (d \div Cycle) + MonthIn(d % Cycle)

\* The day after month i of a cycle, counted within the cycle.
EndOf(i) == IF i < Months THEN MonthStart[i + 1] ELSE Cycle

LEMMA CycleTypes ==
  /\ Months \in Nat \ {0}
  /\ Cycle \in Nat \ {0}
  /\ \A i \in 1..Months : MonthStart[i] \in Nat /\ EndOf(i) \in Nat
BY CalendarAssumption DEF Months, EndOf

\* Within a cycle, days and months go together.
LEMMA CycleFits ==
  /\ \A i \in 1..Months : /\ EndOf(i) <= Cycle
                          /\ MonthStart[i] < EndOf(i)
                          /\ EndOf(i) <= MonthStart[i] + MonthLimit
  /\ \A i, j \in 1..Months : i < j => EndOf(i) <= MonthStart[j]
<1>1. \A i \in 1..Months : MonthStart[i] < EndOf(i) /\ EndOf(i) <= MonthStart[i] + MonthLimit
  BY CalendarAssumption DEF EndOf
<1>2. \A i, j \in 1..Months : i < j => MonthStart[i] < MonthStart[j]
  BY CalendarAssumption
<1>3. \A i, j \in 1..Months : i < j => EndOf(i) <= MonthStart[j]
  <2>1. SUFFICES ASSUME NEW i \in 1..Months, NEW j \in 1..Months, i < j
                 PROVE  EndOf(i) <= MonthStart[j]
    OBVIOUS
  <2>2. EndOf(i) = MonthStart[i + 1] /\ i + 1 \in 1..Months
    BY <2>1, CycleTypes DEF EndOf
  <2>3. CASE i + 1 = j
    BY <2>2, <2>3, CycleTypes
  <2>4. CASE i + 1 < j
    BY <2>2, <2>4, <1>2, CycleTypes
  <2> QED
    BY <2>1, <2>3, <2>4, CycleTypes
<1>4. \A i \in 1..Months : EndOf(i) <= Cycle
  <2>1. SUFFICES ASSUME NEW i \in 1..Months
                 PROVE  EndOf(i) <= Cycle
    OBVIOUS
  <2>2. CASE i = Months
    BY <2>2, CycleTypes DEF EndOf
  <2>3. CASE i < Months
    <3>1. Months \in 1..Months /\ EndOf(Months) = Cycle
      BY CycleTypes DEF EndOf
    <3>2. EndOf(i) <= MonthStart[Months] /\ MonthStart[Months] < Cycle
      BY <2>3, <3>1, <1>1, <1>3
    <3> QED
      BY <3>1, <3>2, CycleTypes
  <2> QED
    BY <2>2, <2>3, CycleTypes
<1> QED
  BY <1>1, <1>3, <1>4

\* Every day of a cycle lies in one month of it.
LEMMA MonthInIs ==
  ASSUME NEW d \in 0..(Cycle - 1)
  PROVE  /\ MonthIn(d) \in 1..Months
         /\ MonthStart[MonthIn(d)] <= d
         /\ d < EndOf(MonthIn(d))
<1> DEFINE Begun == {j \in 1..Months : MonthStart[j] <= d}
           Left == {Months - j : j \in Begun}
<1>1. Left \subseteq Nat /\ Left # {}
  <2>1. 1 \in Begun
    BY CycleTypes, CalendarAssumption
  <2> QED
    BY <2>1, CycleTypes
<1>2. PICK i \in Begun : \A j \in Begun : Months - i <= Months - j
  <2>1. PICK m \in Left : \A n \in Left : m <= n
    <3> HIDE DEF Left
    <3> QED
      BY <1>1, LeastExists
  <2> QED
    BY <2>1
<1>3. \A j \in Begun : j <= i
  BY <1>2, CycleTypes
<1>4. i < Months => d < MonthStart[i + 1]
  <2>1. SUFFICES ASSUME i < Months, ~ (d < MonthStart[i + 1])
                 PROVE  FALSE
    OBVIOUS
  <2>2. i + 1 \in 1..Months /\ MonthStart[i + 1] \in Nat
    BY <2>1, CycleTypes
  <2>3. i + 1 \in Begun
    BY <2>1, <2>2, CycleTypes
  <2> QED
    BY <1>3, <2>3, CycleTypes
<1>5. \E k \in 1..Months : MonthStart[k] <= d /\ (k < Months => d < MonthStart[k + 1])
  BY <1>4
<1>6. /\ MonthIn(d) \in 1..Months
      /\ MonthStart[MonthIn(d)] <= d
      /\ MonthIn(d) < Months => d < MonthStart[MonthIn(d) + 1]
  BY <1>5 DEF MonthIn
<1> QED
  BY <1>6, CycleTypes DEF EndOf

LEMMA MonthInOnly ==
  ASSUME NEW d \in 0..(Cycle - 1), NEW i \in 1..Months, MonthStart[i] <= d, d < EndOf(i)
  PROVE  MonthIn(d) = i
<1> DEFINE j == MonthIn(d)
<1>1. j \in 1..Months /\ MonthStart[j] <= d /\ d < EndOf(j)
  BY MonthInIs
<1> HIDE DEF j
<1>2. CASE i < j
  BY <1>1, <1>2, CycleFits, CycleTypes
<1>3. CASE j < i
  BY <1>1, <1>3, CycleFits, CycleTypes
<1> QED
  BY <1>1, <1>2, <1>3 DEF j

\* The first days of month i of cycle q and of the month after it.
LEMMA FirstDays ==
  ASSUME NEW q \in Int, NEW i \in 1..Months
  PROVE  /\ FirstDay(Months * q + i) = Cycle * q + MonthStart[i]
         /\ FirstDay(Months * q + i + 1) = Cycle * q + EndOf(i)
<1> USE CycleTypes
<1>1. FirstDay(Months * q + i) = Cycle * q + MonthStart[i]
  <2> DEFINE k == (Months * q + i) - 1
             r == i - 1
  <2>1. k \in Int /\ r \in 0..(Months - 1) /\ k = Months * q + r
    OBVIOUS
  <2>2. k \div Months = q /\ k % Months = r
    <3> HIDE DEF k, r
    <3> QED
      BY <2>1, DivisionUnique
  <2> QED
    BY <2>2 DEF FirstDay
<1>2. CASE i < Months
  <2> DEFINE k == (Months * q + i + 1) - 1
  <2>1. k \in Int /\ i \in 0..(Months - 1) /\ k = Months * q + i
    BY <1>2
  <2>2. k \div Months = q /\ k % Months = i
    <3> HIDE DEF k
    <3> QED
      BY <2>1, DivisionUnique
  <2>3. FirstDay(Months * q + i + 1) = Cycle * q + MonthStart[i + 1]
    BY <2>2 DEF FirstDay
  <2> QED
    BY <1>1, <1>2, <2>3 DEF EndOf
<1>3. CASE i = Months
  <2> DEFINE k == (Months * q + i + 1) - 1
             p == q + 1
  <2>1. k \in Int /\ p \in Int /\ 0 \in 0..(Months - 1) /\ k = Months * p + 0
    BY <1>3
  <2>2. k \div Months = p /\ k % Months = 0
    <3> HIDE DEF k, p
    <3> QED
      BY <2>1, DivisionUnique
  <2>3. FirstDay(Months * q + i + 1) = Cycle * (q + 1) + MonthStart[0 + 1]
    BY <2>2 DEF FirstDay
  <2>4. MonthStart[0 + 1] = 0
    BY CalendarAssumption
  <2>5. FirstDay(Months * q + i + 1) = Cycle * q + Cycle
    BY <2>3, <2>4
  <2> QED
    BY <1>1, <1>3, <2>5 DEF EndOf
<1> QED
  BY <1>2, <1>3

LEMMA FirstDayType ==
  ASSUME NEW k \in Int
  PROVE  FirstDay(k) \in Int
<1>1. (k - 1) \div Months \in Int /\ (k - 1) % Months \in 0..(Months - 1)
  BY CycleTypes, Division
<1>2. ((k - 1) % Months) + 1 \in 1..Months
  BY <1>1, CycleTypes
<1> QED
  BY <1>1, <1>2, CycleTypes DEF FirstDay

\* A day lies in its month, which is not too long, and so do exactly the days
\* from its first day to the first day of the next month.
LEMMA MonthOfDayIs ==
  ASSUME NEW d \in Int
  PROVE  LET k == MonthOfDay(d)
         IN /\ k \in Int
            /\ FirstDay(k) <= d /\ d < FirstDay(k + 1)
            /\ FirstDay(k + 1) <= FirstDay(k) + MonthLimit
            /\ \A e \in Int : FirstDay(k) <= e /\ e < FirstDay(k + 1) => MonthOfDay(e) = k
<1> DEFINE q == d \div Cycle
           r == d % Cycle
           i == MonthIn(r)
           k == Months * q + i
<1>1. q \in Int /\ r \in 0..(Cycle - 1) /\ d = Cycle * q + r
  BY CycleTypes, Division
<1>2. i \in 1..Months /\ MonthStart[i] <= r /\ r < EndOf(i)
  BY <1>1, MonthInIs
<1>3. MonthOfDay(d) = k
  BY DEF MonthOfDay
<1> HIDE DEF q, r, i
<1>4. FirstDay(k) = Cycle * q + MonthStart[i] /\ FirstDay(k + 1) = Cycle * q + EndOf(i)
  BY <1>1, <1>2, FirstDays
<1>5. k \in Int
  BY <1>1, <1>2, CycleTypes
<1>6. /\ FirstDay(k) <= d /\ d < FirstDay(k + 1)
      /\ FirstDay(k + 1) <= FirstDay(k) + MonthLimit
  <2>1. EndOf(i) <= MonthStart[i] + MonthLimit /\ MonthLimit \in Nat
    BY <1>2, CycleFits, CalendarAssumption
  <2>2. Cycle * q \in Int /\ MonthStart[i] \in Nat /\ EndOf(i) \in Nat
    BY <1>1, <1>2, CycleTypes
  <2> QED
    BY <1>1, <1>2, <1>4, <2>1, <2>2
<1>7. ASSUME NEW e \in Int, FirstDay(k) <= e, e < FirstDay(k + 1)
      PROVE  MonthOfDay(e) = k
  <2> DEFINE s == e - Cycle * q
  <2>1. s \in 0..(Cycle - 1) /\ MonthStart[i] <= s /\ s < EndOf(i) /\ e = Cycle * q + s
    BY <1>1, <1>2, <1>4, <1>7, CycleTypes, CycleFits
  <2> HIDE DEF s
  <2>2. e \div Cycle = q /\ e % Cycle = s
    BY <2>1, <1>1, CycleTypes, DivisionUnique
  <2>3. MonthIn(s) = i
    BY <2>1, <1>2, MonthInOnly
  <2> QED
    BY <2>2, <2>3 DEF MonthOfDay
<1> HIDE DEF k
<1> QED
  BY <1>3, <1>5, <1>6, <1>7

-----------------------------------------------------------------------------
\* Types.

LEMMA Naturals ==
  Minute \in Nat \ {0} /\ Hour \in Nat \ {0} /\ Day \in Nat \ {0}
BY CronAssumption

LEMMA Units ==
  /\ Minute \in Nat \ {0} /\ Hour \in Nat \ {0} /\ Day \in Nat \ {0}
  /\ Week \in Nat \ {0} /\ Year \in Nat \ {0} /\ ScanYears \in Nat \ {0}
  /\ Rounds \in Nat \ {0}
  /\ Hour = Minute * (Hour \div Minute) /\ Hour \div Minute \in Nat \ {0}
  /\ Day = Hour * (Day \div Hour) /\ Day \div Hour \in Nat \ {0}
BY CronAssumption, Whole

\* Every range is an interval of natural numbers.
LEMMA BoundsTypes ==
  ASSUME NEW f \in Fields
  PROVE  \E a, b \in Nat : a <= b /\ Bounds[f] = a..b
BY Units, CalendarAssumption DEF Fields, Bounds

\* The text of an expression, for each field.
LEMMA TextTypes ==
  ASSUME text \in Texts, NEW f \in Fields
  PROVE  \A p \in text[f] : p \in Part
BY TextAssumption

\* What a part means lies in the range it was tested against, and a star
\* without a step means the whole range.
LEMMA ValuesTypes ==
  ASSUME NEW p \in Part, NEW f \in Fields, ValidPart(p, Bounds[f])
  PROVE  /\ Values(p, Bounds[f]) \subseteq Bounds[f]
         /\ p.star /\ p.step = 1 => Values(p, Bounds[f]) = Bounds[f]
<1>1. PICK a \in Nat, b \in Nat : a <= b /\ Bounds[f] = a..b
  BY BoundsTypes
<1>2. Min(Bounds[f]) = a /\ Max(Bounds[f]) = b
  BY <1>1, Interval
<1>3. CASE p.star
  <2>1. Values(p, Bounds[f]) = {i \in a..b : (i - a) % p.step = 0}
    BY <1>2, <1>3 DEF Values
  <2>2. \A i \in a..b : (i - a) % 1 = 0
    BY <1>1
  <2> QED
    BY <1>1, <2>1, <2>2
<1>4. CASE ~ p.star
  <2>1. Values(p, Bounds[f]) \subseteq p.lo .. p.hi
    BY <1>4 DEF Values
  <2>2. p.lo \in a..b /\ p.hi \in a..b
    BY <1>1, <1>4 DEF ValidPart
  <2> QED
    BY <1>1, <1>4, <2>1, <2>2
<1> QED
  BY <1>3, <1>4

\* The wall clock of every instant is within the ranges of the fields: the
\* code uses it to index the sets.
LEMMA ClockTypes ==
  ASSUME TypeOK, NEW u \in Int
  PROVE  /\ Offset(u) \in Int /\ Wall(u) \in Int
         /\ DayOf(u) \in Int /\ MonthAt(u) \in Int
         /\ SecondOf(u) \in Bounds["sec"]
         /\ MinuteOf(u) \in Bounds["min"]
         /\ HourOf(u) \in Bounds["hour"]
         /\ DomOf(u) \in Bounds["dom"]
         /\ MonthOf(u) \in Bounds["month"]
         /\ DowOf(u) \in Bounds["dow"]
<1>1. Offset(u) \in Int /\ Wall(u) \in Int
  BY CronAssumption DEF TypeOK, Offset, Wall
<1>2. DayOf(u) \in Int /\ Wall(u) % Day \in 0..(Day - 1)
  BY <1>1, Units, Division DEF DayOf
<1>3. SecondOf(u) \in Bounds["sec"]
  BY <1>1, Units, Division DEF SecondOf, Bounds
<1>4. MinuteOf(u) \in Bounds["min"]
  <2> DEFINE r == Wall(u) % Hour
  <2>1. r \in 0..(Hour - 1)
    BY <1>1, Units, Division
  <2> HIDE DEF r
  <2>2. r \div Minute \in Int /\ 0 \div Minute <= r \div Minute
    BY <2>1, Units, Division, DigitGrows
  <2>3. 0 \div Minute = 0
    BY Units
  <2>4. r \div Minute < Hour \div Minute
    BY <2>1, Units, DigitBelow
  <2> QED
    BY <2>2, <2>3, <2>4, Units DEF MinuteOf, Bounds, r
<1>5. HourOf(u) \in Bounds["hour"]
  <2> DEFINE r == Wall(u) % Day
  <2>1. r \in 0..(Day - 1)
    BY <1>1, Units, Division
  <2> HIDE DEF r
  <2>2. r \div Hour \in Int /\ 0 \div Hour <= r \div Hour
    BY <2>1, Units, Division, DigitGrows
  <2>3. 0 \div Hour = 0
    BY Units
  <2>4. r \div Hour < Day \div Hour
    BY <2>1, Units, DigitBelow
  <2> QED
    BY <2>2, <2>3, <2>4, Units DEF HourOf, Bounds, r
<1>6. MonthAt(u) = MonthOfDay(DayOf(u))
  BY DEF MonthAt, MonthOfDay
<1>7. /\ MonthAt(u) \in Int
      /\ FirstDay(MonthAt(u)) <= DayOf(u)
      /\ DayOf(u) < FirstDay(MonthAt(u) + 1)
      /\ FirstDay(MonthAt(u) + 1) <= FirstDay(MonthAt(u)) + MonthLimit
  BY <1>2, <1>6, MonthOfDayIs
<1>8. FirstDay(MonthAt(u)) \in Int /\ FirstDay(MonthAt(u) + 1) \in Int
  BY <1>7, FirstDayType
<1>9. DomOf(u) \in Bounds["dom"]
  BY <1>2, <1>7, <1>8, CalendarAssumption DEF DomOf, Bounds
<1>10. MonthOf(u) \in Bounds["month"]
  <2>1. MonthAt(u) - 1 \in Int
    BY <1>7
  <2>2. (MonthAt(u) - 1) % Year \in 0..(Year - 1)
    BY <2>1, Units, Division
  <2> QED
    BY <2>2, Units DEF MonthOf, Bounds
<1>11. DowOf(u) \in Bounds["dow"]
  BY <1>2, Units, Division DEF DowOf, Bounds
<1> QED
  BY <1>1, <1>2, <1>3, <1>4, <1>5, <1>7, <1>9, <1>10, <1>11

LEMMA FromWallType ==
  ASSUME TypeOK, NEW w \in Int
  PROVE  FromWall(w) \in Int
<1>1. Offset(w) \in Int
  BY ClockTypes
<1>2. Offset(w - Offset(w)) \in Int
  BY <1>1, ClockTypes
<1> QED
  BY <1>1, <1>2 DEF FromWall

LEMMA TruncateType ==
  ASSUME NEW u \in Int, NEW n \in Nat \ {0}
  PROVE  Truncate(u, n) \in Int
BY Division DEF Truncate

\* The values of a field are natural numbers, so that the least of some of
\* them is one of them.
LEMMA LeastValue ==
  ASSUME TypeOK, NEW f \in Fields, NEW S, S \subseteq expr[f].set, S # {}
  PROVE  /\ Min(S) \in S /\ Min(S) \in Bounds[f] /\ Min(S) \in Nat
         /\ \A y \in S : Min(S) <= y
<1>1. Bounds[f] \subseteq Nat
  BY BoundsTypes
<1>2. expr[f].set \subseteq Bounds[f]
  BY DEF TypeOK
<1>3. S \subseteq Nat
  BY <1>1, <1>2
<1>4. Min(S) \in S /\ \A y \in S : Min(S) <= y
  BY <1>3, LeastExists
<1> QED
  BY <1>1, <1>2, <1>4

-----------------------------------------------------------------------------
\* The types of every variable: the scan stays on instants, and the sets of a
\* field are within its range.

LEMMA TypesInit == Init => TypeOK
<1> SUFFICES ASSUME Init
             PROVE  TypeOK
  OBVIOUS
<1>1. \A f \in Fields : expr[f].set = {} /\ expr[f].all = FALSE
  BY DEF Init, NoField
<1>2. DOMAIN expr = Fields
  BY DEF Init
<1>3. after \in Int /\ t \in Int /\ limit \in Int /\ left \in 1..Rounds
  BY CronAssumption, Units DEF Init
<1> QED
  BY <1>1, <1>2, <1>3 DEF Init, TypeOK

LEMMA TypesParse == TypeOK /\ Parse => TypeOK'
<1> SUFFICES ASSUME TypeOK, Parse
             PROVE  TypeOK'
  OBVIOUS
<1>1. CASE ~ (\A f \in Fields : \A p \in text[f] : ValidPart(p, Bounds[f]))
  BY <1>1 DEF TypeOK, Parse
<1>2. CASE \A f \in Fields : \A p \in text[f] : ValidPart(p, Bounds[f])
  <2>1. /\ pc' = "ready"
        /\ expr' = [f \in Fields |-> ParseField(text[f], Bounds[f])]
        /\ UNCHANGED <<text, zone, after, t, limit, left>>
    BY <1>2 DEF Parse
  <2>2. ASSUME NEW f \in Fields
        PROVE  expr'[f].set \subseteq Bounds[f] /\ expr'[f].all \in BOOLEAN
    <3>1. \A p \in text[f] : p \in Part
      BY TextTypes DEF TypeOK
    <3>2. \A p \in text[f] : Values(p, Bounds[f]) \subseteq Bounds[f]
      BY <3>1, <1>2, ValuesTypes
    <3>3. expr'[f] = [set |-> UNION {Values(p, Bounds[f]) : p \in text[f]},
                      all |-> \E p \in text[f] : p.star]
      BY <2>1 DEF ParseField
    <3>4. (\E p \in text[f] : p.star) \in BOOLEAN
      OBVIOUS
    <3> QED
      BY <3>2, <3>3, <3>4
  <2>3. DOMAIN expr' = Fields
    BY <2>1
  <2>4. UNCHANGED Bounds
    BY DEF Bounds
  <2> QED
    BY <2>1, <2>2, <2>3 DEF TypeOK
<1> QED
  BY <1>1, <1>2

LEMMA TypesCall == TypeOK /\ NextCall => TypeOK'
<1> SUFFICES ASSUME TypeOK, NextCall
             PROVE  TypeOK'
  OBVIOUS
<1> DEFINE u == after + 1
           n == ScanYears * Year
<1>1. u \in Int /\ n \in Int
  BY Units DEF TypeOK
<1> HIDE DEF u, n
<1>2. MonthAt(u) \in Int /\ DomOf(u) \in Int /\ Wall(u) \in Int
  <2>1. MonthAt(u) \in Int /\ DomOf(u) \in Bounds["dom"] /\ Wall(u) \in Int
    BY <1>1, ClockTypes
  <2>2. Bounds["dom"] = 1..MonthLimit
    BY DEF Bounds
  <2> QED
    BY <2>1, <2>2, CalendarAssumption
<1>3. FirstDay(MonthAt(u) + n) \in Int /\ Wall(u) % Day \in Int
  BY <1>1, <1>2, FirstDayType, Units, Division
<1>4. Day * (FirstDay(MonthAt(u) + n) + DomOf(u) - 1) + (Wall(u) % Day) \in Int
  BY <1>2, <1>3, Units
<1>5. AddMonths(u, n) \in Int
  BY <1>4, FromWallType DEF AddMonths
<1> QED
  BY <1>1, <1>5 DEF TypeOK, NextCall, u, n

\* Wherever the scan goes, it goes to an instant.
LEMMA ScanTypes ==
  ASSUME TypeOK, NEW u \in Int, ScanTo(u)
  PROVE  TypeOK'
BY DEF TypeOK, ScanTo

LEMMA Landings ==
  ASSUME TypeOK
  PROVE  /\ \A h \in Int : AtHour(h) \in Int
         /\ NextDay(Midnight(t)) \in Int
         /\ FromWall(Day * FirstDay(MonthAt(t) + 1)) \in Int
<1>1. t \in Int /\ DayOf(t) \in Int /\ MonthAt(t) \in Int
  BY ClockTypes DEF TypeOK
<1>2. ASSUME NEW h \in Int
      PROVE  AtHour(h) \in Int
  <2>1. Day * DayOf(t) + Hour * h \in Int
    BY <1>1, Units
  <2> QED
    BY <2>1, FromWallType DEF AtHour
<1>3. NextDay(Midnight(t)) \in Int
  <2>1. Day * DayOf(t) \in Int
    BY <1>1, Units
  <2>2. Midnight(t) \in Int
    BY <2>1, FromWallType DEF Midnight
  <2>3. Wall(Midnight(t)) + Day \in Int
    BY <2>2, ClockTypes, Units
  <2> QED
    BY <2>3, FromWallType DEF NextDay
<1>4. FromWall(Day * FirstDay(MonthAt(t) + 1)) \in Int
  <2>1. FirstDay(MonthAt(t) + 1) \in Int
    BY <1>1, FirstDayType
  <2>2. Day * FirstDay(MonthAt(t) + 1) \in Int
    BY <2>1, Units
  <2> QED
    BY <2>2, FromWallType
<1> QED
  BY <1>2, <1>3, <1>4

LEMMA TypesScan ==
  TypeOK /\ (SecondStep \/ MinuteStep \/ HourStep \/ DayStep \/ MonthStep) => TypeOK'
<1> SUFFICES ASSUME TypeOK, SecondStep \/ MinuteStep \/ HourStep \/ DayStep \/ MonthStep
             PROVE  TypeOK'
  OBVIOUS
<1>1. t \in Int
  BY DEF TypeOK
<1>2. /\ Truncate(t, Minute) + Minute \in Int /\ Truncate(t, Minute) \in Int
      /\ Truncate(t, Hour) + Hour \in Int
  BY <1>1, TruncateType, Units
<1>3. SecondOf(t) \in Int /\ MinuteOf(t) \in Int
  BY <1>1, ClockTypes, Units DEF Bounds
<1>4. CASE SecondStep
  <2> DEFINE later == NextInSet(expr["sec"], SecondOf(t))
  <2>1. later # {} => Min(later) \in Nat
    BY LeastValue DEF NextInSet, Fields
  <2>2. PICK u \in Int : ScanTo(u)
    BY <1>1, <1>2, <1>3, <1>4, <2>1 DEF SecondStep
  <2> QED
    BY <2>2, ScanTypes
<1>5. CASE MinuteStep
  <2> DEFINE later == NextInSet(expr["min"], MinuteOf(t))
  <2>1. later # {} => Min(later) \in Nat
    BY LeastValue DEF NextInSet, Fields
  <2>2. later # {} => Truncate(t, Minute) + Minute * (Min(later) - MinuteOf(t)) \in Int
    BY <1>2, <1>3, <2>1, Units
  <2>3. PICK u \in Int : ScanTo(u)
    BY <1>2, <1>5, <2>2 DEF MinuteStep
  <2> QED
    BY <2>3, ScanTypes
<1>6. CASE HourStep
  <2> DEFINE later == {h \in NextInSet(expr["hour"], HourOf(t) + 1) : HourOf(AtHour(h)) = h}
  <2>1. later # {} => Min(later) \in Nat
    BY LeastValue DEF NextInSet, Fields
  <2>2. PICK u \in Int : ScanTo(u)
    BY <1>6, <2>1, Landings DEF HourStep
  <2> QED
    BY <2>2, ScanTypes
<1>7. CASE DayStep
  BY <1>7, Landings, ScanTypes DEF DayStep
<1>8. CASE MonthStep
  BY <1>8, Landings, ScanTypes DEF MonthStep
<1> QED
  BY <1>4, <1>5, <1>6, <1>7, <1>8

\* TypeOK is inductive.
LEMMA TypesNext == TypeOK /\ [Next]_vars => TypeOK'
<1> SUFFICES ASSUME TypeOK, [Next]_vars
             PROVE  TypeOK'
  OBVIOUS
<1>1. CASE Parse
  BY <1>1, TypesParse
<1>2. CASE NextCall
  BY <1>2, TypesCall
<1>3. CASE NextRound
  <2>1. left' \in 1..Rounds
    BY <1>3, Units DEF NextRound, TypeOK
  <2> QED
    BY <1>3, <2>1 DEF NextRound, TypeOK
<1>4. CASE SecondStep \/ MinuteStep \/ HourStep \/ DayStep \/ MonthStep
  BY <1>4, TypesScan
<1>5. CASE Found \/ Exhausted
  BY <1>5 DEF Found, Exhausted, TypeOK
<1>6. CASE UNCHANGED vars
  BY <1>6 DEF vars, TypeOK
<1> QED
  BY <1>1, <1>2, <1>3, <1>4, <1>5, <1>6 DEF Next

\* The sets of an expression hold values of their ranges, by which the code
\* indexes an array, and the scan stays on instants, whatever the zone.
THEOREM CronTypeCorrect == Spec => []TypeOK
<1>1. Init => TypeOK
  BY TypesInit
<1>2. TypeOK /\ [Next]_vars => TypeOK'
  BY TypesNext
<1> QED
  BY <1>1, <1>2, PTL DEF Spec

-----------------------------------------------------------------------------
\* What a parsed expression means.

\* Past Parse, the fields are what parseField makes of valid parts.
Parsed ==
  pc \in {"ready", "scan", "found", "none"} =>
    \A f \in Fields : /\ expr[f] = ParseField(text[f], Bounds[f])
                      /\ \A p \in text[f] : ValidPart(p, Bounds[f])

\* A star in a day field has no step.  With one the code still takes the field
\* for unrestricted (cron.go:191), so that its values do not count.
PlainStars ==
  \A x \in Texts : \A f \in {"dom", "dow"} : \A p \in x[f] : p.star => p.step = 1

\* The code's five tests, of any instant.
DayFits(u) ==
  DayMatch(expr["dom"].all, expr["dow"].all,
           DomOf(u) \in expr["dom"].set, DowOf(u) \in expr["dow"].set)

Fits(u) ==
  /\ SecondOf(u) \in expr["sec"].set
  /\ MinuteOf(u) \in expr["min"].set
  /\ HourOf(u) \in expr["hour"].set
  /\ DayFits(u)
  /\ MonthOf(u) \in expr["month"].set

\* The tests of the code say that the instant matches the text: a day field
\* with a plain star holds every day.
LEMMA FitsMatches ==
  ASSUME TypeOK, Parsed, PlainStars, pc \in {"ready", "scan", "found", "none"},
         NEW u \in Int
  PROVE  Fits(u) <=> Matches(u)
<1>1. ASSUME NEW f \in Fields
      PROVE  /\ expr[f].set = Written(f)
             /\ expr[f].all <=> \E p \in text[f] : p.star
  <2>1. expr[f] = [set |-> Written(f), all |-> \E p \in text[f] : p.star]
    BY DEF Parsed, ParseField, Written
  <2>2. (\E p \in text[f] : p.star) \in BOOLEAN
    OBVIOUS
  <2> QED
    BY <2>1, <2>2
<1>2. ASSUME NEW f \in {"dom", "dow"}
      PROVE  /\ expr[f].all <=> ~ Restricted(f)
             /\ expr[f].all => expr[f].set = Bounds[f]
  <2>1. f \in Fields /\ text \in Texts
    BY DEF Fields, TypeOK
  <2>2. \A p \in text[f] : p \in Part /\ ValidPart(p, Bounds[f]) /\ (p.star => p.step = 1)
    BY <2>1, TextTypes DEF Parsed, PlainStars
  <2>3. expr[f].all <=> ~ Restricted(f)
    BY <1>1, <2>1, <2>2 DEF Restricted
  <2>4. ASSUME expr[f].all
        PROVE  expr[f].set = Bounds[f]
    <3>1. PICK p \in text[f] : p.star
      BY <1>1, <2>1, <2>4
    <3>2. Values(p, Bounds[f]) = Bounds[f]
      BY <2>1, <2>2, <3>1, ValuesTypes
    <3>3. Bounds[f] \subseteq expr[f].set
      BY <1>1, <2>1, <3>2 DEF Written
    <3> QED
      BY <2>1, <3>3 DEF TypeOK
  <2> QED
    BY <2>3, <2>4
<1>3. DomOf(u) \in Bounds["dom"] /\ DowOf(u) \in Bounds["dow"]
  BY ClockTypes
<1>4. DayFits(u) <=> IF Restricted("dom") /\ Restricted("dow")
                       THEN DomOf(u) \in Written("dom") \/ DowOf(u) \in Written("dow")
                       ELSE DomOf(u) \in Written("dom") /\ DowOf(u) \in Written("dow")
  <2>1. expr["dom"].set = Written("dom") /\ expr["dow"].set = Written("dow")
    BY <1>1 DEF Fields
  <2>2. /\ expr["dom"].all <=> ~ Restricted("dom")
        /\ expr["dow"].all <=> ~ Restricted("dow")
        /\ expr["dom"].all => DomOf(u) \in Written("dom")
        /\ expr["dow"].all => DowOf(u) \in Written("dow")
    BY <1>2, <1>3, <2>1
  <2> QED
    BY <2>1, <2>2 DEF DayFits, DayMatch
<1> QED
  BY <1>1, <1>4 DEF Fits, Matches, Fields

\* In the scan, the conditions of its branches are those of Fits for t.
LEMMA FitsHere ==
  Fits(t) <=> SecondOK /\ MinuteOK /\ HourOK /\ DayOK /\ MonthOK
BY DEF Fits, DayFits, SecondOK, MinuteOK, HourOK, DayOK, MonthOK

-----------------------------------------------------------------------------
\* The jumps of the scan, where the offset is fixed.

\* The zones of the theorem: their offset does not change, and is a number of
\* whole hours, as Truncate(time.Hour) takes for granted (cron.go:104).
FixedZones == \A z \in Zones : z.before = z.after /\ z.before % Hour = 0

LEMMA FixedClock ==
  ASSUME TypeOK, FixedZones
  PROVE  /\ zone.before \in Int
         /\ zone.before % Hour = 0 /\ zone.before % Minute = 0
         /\ \A u \in Int : Wall(u) = u + zone.before /\ FromWall(u) = u - zone.before
<1>1. zone \in [before : Int, after : Int, at : Int]
  BY CronAssumption DEF TypeOK
<1>2. zone.before = zone.after /\ zone.before % Hour = 0
  BY DEF TypeOK, FixedZones
<1>3. zone.before % Minute = 0
  BY <1>1, <1>2, Units, CronAssumption, WholeWhole
<1>4. \A u : Offset(u) = zone.before
  BY <1>2 DEF Offset
<1>5. \A u \in Int : Wall(u) = u + zone.before /\ FromWall(u) = u - zone.before
  BY <1>1, <1>4 DEF Wall, FromWall
<1> QED
  BY <1>1, <1>2, <1>3, <1>5

\* A jump to the next allowed value v of a digit, or to the end of the unit
\* when there is none left, moves forward and passes over no allowed value.
LEMMA DigitJump ==
  ASSUME NEW n \in Nat \ {0}, NEW m \in Nat \ {0}, n % m = 0,
         NEW w \in Int, NEW v \in Int, NEW S,
         (w % n) \div m < v, v <= n \div m,
         \A y \in S : y >= (w % n) \div m => y >= v
  PROVE  /\ w < w - (w % n) + m * v
         /\ \A x \in Int : w <= x /\ x < w - (w % n) + m * v => (x % n) \div m \notin S
<1> DEFINE r == w % n
           a == r \div m
<1>1. r \in 0..(n - 1)
  BY Division
<1>2. a \in Int /\ r % m \in 0..(m - 1) /\ r = m * a + (r % m)
  BY <1>1, Division
<1> HIDE DEF r, a
<1>3. m * a + m <= m * v
  BY <1>2, Multiples DEF r, a
<1>4. m * v <= n
  <2>1. n = m * (n \div m) /\ n \div m \in Nat
    BY Whole
  <2>2. CASE v = n \div m
    BY <2>1, <2>2
  <2>3. CASE v < n \div m
    <3>1. m * v + m <= m * (n \div m)
      BY <2>1, <2>3, Multiples
    <3>2. m * v \in Int /\ m * v + m <= n
      BY <2>1, <3>1
    <3> QED
      BY <3>2
  <2> QED
    BY <2>1, <2>2, <2>3
<1>5. m * v \in Int /\ m * a \in Int
  BY <1>2
<1>6. w < w - r + m * v
  BY <1>1, <1>2, <1>3, <1>5
<1>7. ASSUME NEW x \in Int, w <= x, x < w - r + m * v, (x % n) \div m \in S
      PROVE  FALSE
  <2>1. x < w - r + n
    BY <1>1, <1>4, <1>5, <1>7
  <2>2. x % n = r + (x - w)
    BY <1>7, <2>1, Within DEF r
  <2> DEFINE s == x % n
  <2>3. s \in Int /\ r <= s /\ s < m * v
    BY <1>1, <1>5, <1>7, <2>2
  <2> HIDE DEF s
  <2>4. a <= s \div m /\ s \div m < v /\ s \div m \in Int
    BY <1>1, <2>3, DigitGrows, DigitBelow, Division DEF a
  <2>5. s \div m \in S
    BY <1>7 DEF s
  <2> QED
    BY <2>4, <2>5, <1>2 DEF r, a
<1> QED
  BY <1>6, <1>7 DEF r

\* The scan may go on to u: it moves forward, over no match.
Skips(u) == u \in Int /\ t < u /\ \A x \in t..(u - 1) : ~ Fits(x)

\* The same, seen on the wall clock.
LEMMA SkipsByWall ==
  ASSUME TypeOK, FixedZones, NEW u \in Int, NEW target \in Int,
         u + zone.before = target, Wall(t) < target,
         \A x \in Int : Wall(t) <= Wall(x) /\ Wall(x) < target => ~ Fits(x)
  PROVE  Skips(u)
<1>1. t \in Int /\ zone.before \in Int /\ \A x \in Int : Wall(x) = x + zone.before
  BY FixedClock DEF TypeOK
<1> QED
  BY <1>1 DEF Skips

\* Truncated to whole units, the instant is the wall clock truncated.
LEMMA TruncatedWall ==
  ASSUME TypeOK, FixedZones, NEW n \in {Minute, Hour}
  PROVE  Truncate(t, n) + zone.before = Wall(t) - (Wall(t) % n)
<1>1. /\ t \in Int /\ zone.before \in Int /\ zone.before % n = 0
      /\ Wall(t) = t + zone.before
      /\ n \in Nat \ {0}
  BY FixedClock, Units DEF TypeOK
<1>2. Wall(t) % n = t % n
  BY <1>1, Shift
<1> DEFINE r == t % n
<1>3. r \in Int /\ Wall(t) % n = r /\ Truncate(t, n) = t - r
  BY <1>1, <1>2, Division DEF Truncate
<1> HIDE DEF r
<1> QED
  BY <1>1, <1>3

\* The least of the values from v on, if there is one.
LEMMA NextValue ==
  ASSUME TypeOK, NEW f \in Fields, NEW v \in Int, NextInSet(expr[f], v) # {}
  PROVE  LET m == Min(NextInSet(expr[f], v))
         IN /\ m \in Nat /\ m \in expr[f].set /\ m \in Bounds[f] /\ v <= m
            /\ \A y \in expr[f].set : v <= y => m <= y
<1> DEFINE S == NextInSet(expr[f], v)
           m == Min(S)
<1>1. S \subseteq expr[f].set /\ S # {}
  BY DEF NextInSet
<1>2. \A y \in expr[f].set : y \in Int
  BY BoundsTypes DEF TypeOK
<1> HIDE DEF S
<1>3. m \in S /\ m \in Bounds[f] /\ m \in Nat /\ \A y \in S : m <= y
  BY <1>1, LeastValue
<1> HIDE DEF m
<1> SUFFICES /\ m \in Nat /\ m \in expr[f].set /\ m \in Bounds[f] /\ v <= m
             /\ \A y \in expr[f].set : v <= y => m <= y
  BY DEF m, S
<1> QED
  BY <1>1, <1>2, <1>3 DEF NextInSet, S

LEMMA SecondJump ==
  ASSUME TypeOK, FixedZones, SecondStep
  PROVE  Skips(t')
<1> DEFINE w == Wall(t)
           s == SecondOf(t)
           later == NextInSet(expr["sec"], s)
           v == IF later # {} THEN Min(later) ELSE Minute
<1>1. /\ t \in Int /\ w \in Int /\ zone.before \in Int
      /\ w = t + zone.before /\ w % Minute = s
      /\ Minute \in Nat \ {0}
  BY FixedClock, ClockTypes, Units DEF TypeOK, SecondOf
<1>2. s \in 0..(Minute - 1)
  BY <1>1, Division
<1>3. s \notin expr["sec"].set
  BY DEF SecondStep, SecondOK
<1>4. v \in Int /\ s < v /\ v <= Minute /\ \A y \in expr["sec"].set : y >= s => y >= v
  <2>1. CASE later # {}
    <3>1. /\ v \in Nat /\ v \in expr["sec"].set /\ v \in Bounds["sec"] /\ s <= v
          /\ \A y \in expr["sec"].set : s <= y => v <= y
      BY <2>1, <1>2, NextValue DEF Fields
    <3>2. v \in 0..(Minute - 1)
      BY <3>1 DEF Bounds
    <3>3. \A y \in expr["sec"].set : y \in Int
      BY DEF TypeOK, Bounds, Fields
    <3> HIDE DEF v, s
    <3> QED
      BY <3>1, <3>2, <3>3, <1>2, <1>3, Naturals
  <2>2. CASE later = {}
    <3>1. v = Minute /\ \A y \in expr["sec"].set : ~ (y >= s)
      BY <2>2 DEF NextInSet
    <3> QED
      BY <3>1, <1>1, <1>2
  <2> QED
    BY <2>1, <2>2
<1>5. t' + zone.before = w - s + v /\ t' \in Int
  <2>1. CASE later # {}
    <3>1. t' = t + v - s
      BY <2>1 DEF SecondStep, ScanTo
    <3>2. s \in Int
      BY <1>2, Naturals
    <3> HIDE DEF v, w, s
    <3> QED
      BY <3>1, <3>2, <1>1, <1>4
  <2>2. CASE later = {}
    <3>1. t' = Truncate(t, Minute) + Minute /\ v = Minute
      BY <2>2 DEF SecondStep, ScanTo
    <3>2. Truncate(t, Minute) + zone.before = w - s /\ Truncate(t, Minute) \in Int
      BY <1>1, TruncatedWall, TruncateType
    <3> QED
      BY <3>1, <3>2, <1>1, <1>2
  <2> QED
    BY <2>1, <2>2
<1>6. ASSUME NEW x \in Int, w <= Wall(x), Wall(x) < w - s + v
      PROVE  ~ Fits(x)
  <2>1. Wall(x) \in Int
    BY ClockTypes
  <2>2. Wall(x) < w - s + Minute
    BY <1>1, <1>2, <1>4, <1>6, <2>1
  <2>3. SecondOf(x) = s + (Wall(x) - w)
    BY <1>1, <1>6, <2>1, <2>2, Within DEF SecondOf
  <2>4. SecondOf(x) \in Int /\ s <= SecondOf(x) /\ SecondOf(x) < v
    BY <1>1, <1>2, <1>4, <1>6, <2>1, <2>3
  <2>5. SecondOf(x) \notin expr["sec"].set
    BY <1>2, <1>4, <2>4
  <2> QED
    BY <2>5 DEF Fits
<1> HIDE DEF v, w, s
<1>7. w < w - s + v /\ w - s + v \in Int
  BY <1>1, <1>2, <1>4
<1> QED
  BY <1>5, <1>6, <1>7, SkipsByWall DEF w

\* The second within the minute and the minute within the hour are read off
\* the same wall clock.
LEMMA MinuteOfHour ==
  ASSUME TypeOK, NEW u \in Int
  PROVE  Wall(u) % Hour = Minute * MinuteOf(u) + (Wall(u) % Minute)
<1> DEFINE w == Wall(u)
           r == w % Hour
           q == w \div Hour
           c == Hour * q
<1>1. w \in Int /\ r \in 0..(Hour - 1) /\ q \in Int /\ w = Hour * q + r
  BY ClockTypes, Naturals, Division
<1> HIDE DEF r, q
<1>2. r \in Int /\ c \in Int /\ 0 \in 0..(Hour - 1) /\ c = Hour * q + 0
  BY <1>1, Naturals
<1> HIDE DEF c
<1>3. c % Hour = 0
  BY <1>1, <1>2, Naturals, DivisionUnique
<1>4. c % Minute = 0
  BY <1>2, <1>3, Naturals, CronAssumption, WholeWhole
<1>5. (r + c) % Minute = r % Minute
  BY <1>2, <1>4, Naturals, Shift
<1>6. w = r + c
  BY <1>1, <1>2, Naturals
<1>7. r = Minute * (r \div Minute) + (r % Minute)
  BY <1>2, Naturals, Division
<1>8. MinuteOf(u) = r \div Minute
  BY DEF MinuteOf, r
<1> HIDE DEF w
<1>9. w % Hour = Minute * MinuteOf(u) + (w % Minute)
  BY <1>5, <1>6, <1>7, <1>8 DEF r
<1> QED
  BY <1>9 DEF w

LEMMA MinuteJump ==
  ASSUME TypeOK, FixedZones, MinuteStep
  PROVE  Skips(t')
<1> DEFINE w == Wall(t)
           a == MinuteOf(t)
           later == NextInSet(expr["min"], a)
           v == IF later # {} THEN Min(later) ELSE Hour \div Minute
<1>1. /\ t \in Int /\ w \in Int /\ zone.before \in Int
      /\ w = t + zone.before /\ a = (w % Hour) \div Minute
  BY FixedClock, ClockTypes DEF TypeOK, MinuteOf
<1>2. a \in 0..((Hour \div Minute) - 1)
  BY ClockTypes DEF TypeOK, Bounds
<1>3. a \notin expr["min"].set
  BY DEF MinuteStep, MinuteOK
<1>4. /\ v \in Int /\ a < v /\ v <= Hour \div Minute
      /\ \A y \in expr["min"].set : y >= a => y >= v
  <2>1. CASE later # {}
    <3>1. /\ v \in Nat /\ v \in expr["min"].set /\ v \in Bounds["min"] /\ a <= v
          /\ \A y \in expr["min"].set : a <= y => v <= y
      BY <2>1, <1>2, NextValue DEF Fields
    <3>2. v \in 0..((Hour \div Minute) - 1)
      BY <3>1 DEF Bounds
    <3>3. \A y \in expr["min"].set : y \in Int
      BY DEF TypeOK, Bounds, Fields
    <3> HIDE DEF v, a
    <3> QED
      BY <3>1, <3>2, <3>3, <1>2, <1>3, Units
  <2>2. CASE later = {}
    <3>1. v = Hour \div Minute /\ \A y \in expr["min"].set : ~ (y >= a)
      BY <2>2 DEF NextInSet
    <3> QED
      BY <3>1, <1>2, Units
  <2> QED
    BY <2>1, <2>2
<1> DEFINE target == w - (w % Hour) + Minute * v
<1>5. t' + zone.before = target /\ t' \in Int /\ target \in Int
  <2>1. w % Hour = Minute * a + (w % Minute)
    BY <1>1, MinuteOfHour
  <2>2. a \in Int
    BY <1>2, Units
  <2>3. w % Hour \in Int /\ w % Minute \in Int
    <3>1. w \in Int
      BY <1>1
    <3> HIDE DEF w
    <3>2. w % Hour \in 0..(Hour - 1) /\ w % Minute \in 0..(Minute - 1)
      BY <3>1, Division, Naturals
    <3> QED
      BY <3>2, Naturals
  <2> HIDE DEF v, w, a
  <2>4. Minute * a \in Int /\ Minute * v \in Int
    BY <1>4, <2>2, Naturals
  <2> USE DEF v, w, a
  <2>5. CASE later # {}
    <3>1. t' = Truncate(t, Minute) + Minute * (v - a)
      BY <2>5 DEF MinuteStep, ScanTo
    <3>2. Truncate(t, Minute) + zone.before = w - (w % Minute) /\ Truncate(t, Minute) \in Int
      BY <1>1, TruncatedWall, TruncateType, Naturals
    <3> HIDE DEF v, w, a
    <3>3. Minute * (v - a) = Minute * v - Minute * a
      BY <2>2, <1>4, Naturals
    <3> QED
      BY <3>1, <3>2, <3>3, <2>1, <2>2, <2>3, <2>4, <1>1
  <2>6. CASE later = {}
    <3>1. t' = Truncate(t, Hour) + Hour /\ Hour = Minute * v
      BY <2>6, Units DEF MinuteStep, ScanTo
    <3>2. Truncate(t, Hour) + zone.before = w - (w % Hour) /\ Truncate(t, Hour) \in Int
      BY <1>1, TruncatedWall, TruncateType, Naturals
    <3> HIDE DEF v, w, a
    <3> QED
      BY <3>1, <3>2, <2>3, <2>4, <1>1
  <2> QED
    BY <2>5, <2>6
<1>6. /\ w < target
      /\ \A x \in Int : w <= x /\ x < target => (x % Hour) \div Minute \notin expr["min"].set
  <2> DEFINE S == expr["min"].set
  <2>1. /\ (w % Hour) \div Minute < v /\ v <= Hour \div Minute
        /\ \A y \in S : y >= (w % Hour) \div Minute => y >= v
    BY <1>1, <1>4
  <2> HIDE DEF v, w, S
  <2>2. Hour % Minute = 0
    BY CronAssumption
  <2>3. /\ w < w - (w % Hour) + Minute * v
        /\ \A x \in Int : w <= x /\ x < w - (w % Hour) + Minute * v
              => (x % Hour) \div Minute \notin S
    BY <1>1, <1>4, <2>1, <2>2, Naturals, DigitJump
  <2> QED
    BY <2>3 DEF S
<1>7. ASSUME NEW x \in Int, w <= Wall(x), Wall(x) < target
      PROVE  ~ Fits(x)
  <2>1. Wall(x) \in Int
    BY ClockTypes
  <2> HIDE DEF target, w
  <2> QED
    BY <1>6, <1>7, <2>1 DEF Fits, MinuteOf
<1> HIDE DEF target
<1> QED
  BY <1>5, <1>6, <1>7, SkipsByWall

\* The wall clocks that the other branches go to: an hour of the day of t, the
\* midnight after it, and the first day of the next month.
LEMMA Landed ==
  ASSUME TypeOK, FixedZones
  PROVE  /\ \A h \in Int : /\ AtHour(h) \in Int
                           /\ AtHour(h) + zone.before = Day * DayOf(t) + Hour * h
         /\ NextDay(Midnight(t)) + zone.before = Day * DayOf(t) + Day
         /\ FromWall(Day * FirstDay(MonthAt(t) + 1)) + zone.before
              = Day * FirstDay(MonthAt(t) + 1)
<1>1. /\ zone.before \in Int
      /\ \A u \in Int : Wall(u) = u + zone.before /\ FromWall(u) = u - zone.before
  BY FixedClock
<1>2. t \in Int /\ DayOf(t) \in Int /\ MonthAt(t) \in Int
  BY ClockTypes DEF TypeOK
<1>3. ASSUME NEW h \in Int
      PROVE  AtHour(h) \in Int /\ AtHour(h) + zone.before = Day * DayOf(t) + Hour * h
  <2>1. Day * DayOf(t) + Hour * h \in Int
    BY <1>2, Naturals
  <2> QED
    BY <1>1, <2>1 DEF AtHour
<1>4. NextDay(Midnight(t)) + zone.before = Day * DayOf(t) + Day
  <2>1. Day * DayOf(t) \in Int
    BY <1>2, Naturals
  <2>2. Midnight(t) \in Int /\ Midnight(t) = Day * DayOf(t) - zone.before
    BY <1>1, <2>1 DEF Midnight
  <2>3. Wall(Midnight(t)) = Day * DayOf(t)
    BY <1>1, <2>1, <2>2
  <2>4. Day * DayOf(t) + Day \in Int
    BY <2>1, Naturals
  <2>5. NextDay(Midnight(t)) = (Day * DayOf(t) + Day) - zone.before
    BY <1>1, <2>3, <2>4 DEF NextDay
  <2> QED
    BY <1>1, <2>4, <2>5
<1>5. FromWall(Day * FirstDay(MonthAt(t) + 1)) + zone.before = Day * FirstDay(MonthAt(t) + 1)
  <2>1. FirstDay(MonthAt(t) + 1) \in Int
    BY <1>2, FirstDayType
  <2>2. Day * FirstDay(MonthAt(t) + 1) \in Int
    BY <2>1, Naturals
  <2> QED
    BY <1>1, <2>2
<1> QED
  BY <1>3, <1>4, <1>5

\* The instant is that far into its day.
LEMMA WithinDay ==
  ASSUME TypeOK, NEW u \in Int
  PROVE  /\ Wall(u) = Day * DayOf(u) + (Wall(u) % Day)
         /\ Wall(u) \in Int /\ DayOf(u) \in Int /\ Day * DayOf(u) \in Int
         /\ Wall(u) % Day \in 0..(Day - 1)
<1>1. Wall(u) \in Int
  BY ClockTypes
<1> DEFINE w == Wall(u)
<1> HIDE DEF w
<1>2. w \in Int
  BY <1>1 DEF w
<1>3. w \div Day \in Int /\ w % Day \in 0..(Day - 1) /\ w = Day * (w \div Day) + (w % Day)
  BY <1>2, Naturals, Division
<1>4. Day * (w \div Day) \in Int
  BY <1>3, Naturals
<1> QED
  BY <1>2, <1>3, <1>4 DEF w, DayOf

LEMMA HourJump ==
  ASSUME TypeOK, FixedZones, HourStep
  PROVE  Skips(t')
<1> DEFINE w == Wall(t)
           a == HourOf(t)
           d == Day * DayOf(t)
           asked == NextInSet(expr["hour"], a + 1)
           later == {h \in asked : HourOf(AtHour(h)) = h}
           v == IF asked # {} THEN Min(asked) ELSE Day \div Hour
<1>1. /\ t \in Int /\ zone.before \in Int
      /\ w \in Int /\ d \in Int /\ w = d + (w % Day) /\ w % Day \in 0..(Day - 1)
      /\ a = (w % Day) \div Hour
  BY FixedClock, WithinDay DEF TypeOK, HourOf
<1>2. a \in 0..((Day \div Hour) - 1)
  BY ClockTypes DEF TypeOK, Bounds
<1>3. a \notin expr["hour"].set
  BY DEF HourStep, HourOK
<1>4. /\ v \in Int /\ a < v /\ v <= Day \div Hour
      /\ \A y \in expr["hour"].set : y >= a => y >= v
  <2>1. \A y \in expr["hour"].set : y \in Int
    BY DEF TypeOK, Bounds, Fields
  <2>2. CASE asked # {}
    <3>1. /\ v \in Nat /\ v \in Bounds["hour"] /\ a + 1 <= v
          /\ \A y \in expr["hour"].set : a + 1 <= y => v <= y
      BY <2>2, <1>2, Units, NextValue DEF Fields
    <3>2. v \in 0..((Day \div Hour) - 1)
      BY <3>1 DEF Bounds
    <3>3. a \in Int /\ v \in Int /\ v <= Day \div Hour
      BY <3>2, <1>2, Units
    <3> HIDE DEF v, a
    <3> QED
      BY <3>1, <3>3, <2>1, <1>3
  <2>3. CASE asked = {}
    <3>1. v = Day \div Hour /\ \A y \in expr["hour"].set : ~ (y >= a + 1)
      BY <2>3 DEF NextInSet
    <3> HIDE DEF v, a
    <3> QED
      BY <3>1, <2>1, <1>2, <1>3, Units
  <2> QED
    BY <2>2, <2>3
\* No hour of the day is skipped by the clock.
<1>5. ASSUME NEW h \in Bounds["hour"]
      PROVE  HourOf(AtHour(h)) = h
  <2> DEFINE x == Hour * h
  <2>1. h \in Nat /\ h < Day \div Hour
    BY Units DEF Bounds
  <2>2. x \in Int /\ 0 <= x /\ x < Day
    <3>1. Hour * h + Hour <= Hour * (Day \div Hour)
      BY <2>1, Units, Multiples
    <3>2. Hour * h \in Nat
      BY <2>1, Naturals
    <3> QED
      BY <3>1, <3>2, Units
  <2>3. Wall(AtHour(h)) = Day * DayOf(t) + x /\ AtHour(h) \in Int
    BY <2>1, <1>1, FixedClock, Landed
  <2> DEFINE e == Wall(AtHour(h))
             q == DayOf(t)
  <2>4. e \in Int /\ q \in Int /\ x \in 0..(Day - 1) /\ e = Day * q + x
    BY <2>2, <2>3, ClockTypes, Naturals DEF TypeOK
  <2>5. e % Day = x
    <3> HIDE DEF e, q, x
    <3> QED
      BY <2>4, Naturals, DivisionUnique
  <2>6. x \div Hour = h
    <3>1. x = Hour * h + 0 /\ 0 \in 0..(Hour - 1)
      BY <2>2, <2>1, Naturals
    <3> HIDE DEF x
    <3> QED
      BY <3>1, <2>1, <2>2, Naturals, DivisionUnique
  <2> QED
    BY <2>5, <2>6 DEF HourOf
<1>6. later = asked
  <2>1. asked \subseteq Bounds["hour"]
    BY DEF NextInSet, TypeOK, Fields
  <2> QED
    BY <2>1, <1>5
<1> DEFINE target == d + Hour * v
<1>7. t' + zone.before = target /\ t' \in Int /\ target \in Int
  <2>1. CASE asked # {}
    <3>1. t' = AtHour(v)
      BY <2>1, <1>6 DEF HourStep, ScanTo
    <3> HIDE DEF v
    <3>2. AtHour(v) \in Int /\ AtHour(v) + zone.before = target
      BY <1>4, Landed
    <3> QED
      BY <3>1, <3>2, <1>1
  <2>2. CASE asked = {}
    <3>1. t' = NextDay(Midnight(t)) /\ v = Day \div Hour
      BY <2>2, <1>6 DEF HourStep, ScanTo
    <3>2. NextDay(Midnight(t)) \in Int /\ NextDay(Midnight(t)) + zone.before = d + Day
      BY Landed, Landings
    <3>3. Hour * v = Day
      BY <3>1, Units
    <3>4. target = d + Day
      BY <3>3
    <3>5. d \in Int
      BY <1>1
    <3> HIDE DEF target, d
    <3> QED
      BY <3>1, <3>2, <3>4, <3>5, Naturals
  <2> QED
    BY <2>1, <2>2
<1>8. /\ w < target
      /\ \A x \in Int : w <= x /\ x < target => (x % Day) \div Hour \notin expr["hour"].set
  <2> DEFINE S == expr["hour"].set
             r == w % Day
  <2>1. /\ (w % Day) \div Hour < v /\ v <= Day \div Hour
        /\ \A y \in S : y >= (w % Day) \div Hour => y >= v
    BY <1>1, <1>4
  <2>2. Day % Hour = 0
    BY CronAssumption
  <2> HIDE DEF v, w, S
  <2>3. /\ w < w - (w % Day) + Hour * v
        /\ \A x \in Int : w <= x /\ x < w - (w % Day) + Hour * v
              => (x % Day) \div Hour \notin S
    BY <1>1, <1>4, <2>1, <2>2, Naturals, DigitJump
  <2>4. r \in Int /\ w = d + r
    BY <1>1, Naturals
  <2>5. w - r = d
    <3> HIDE DEF r, d
    <3> QED
      BY <1>1, <2>4
  <2> QED
    BY <2>3, <2>5 DEF S
<1>9. ASSUME NEW x \in Int, w <= Wall(x), Wall(x) < target
      PROVE  ~ Fits(x)
  <2>1. Wall(x) \in Int
    BY ClockTypes
  <2> HIDE DEF target, w
  <2> QED
    BY <1>8, <1>9, <2>1 DEF Fits, HourOf
<1> HIDE DEF target
<1> QED
  BY <1>7, <1>8, <1>9, SkipsByWall

\* A jump to midnight: the rest of a day that does not match.
LEMMA DayJump ==
  ASSUME TypeOK, FixedZones, DayStep
  PROVE  Skips(t')
<1> DEFINE w == Wall(t)
           d == Day * DayOf(t)
           target == d + Day
<1>1. /\ t \in Int /\ zone.before \in Int
      /\ w \in Int /\ d \in Int /\ w = d + (w % Day) /\ w % Day \in 0..(Day - 1)
  BY FixedClock, WithinDay DEF TypeOK
<1>2. ~ DayFits(t)
  BY DEF DayStep, DayOK, DayFits
<1>3. t' + zone.before = target /\ t' \in Int
  BY Landed, Landings DEF DayStep, ScanTo
<1>4. target \in Int /\ w < target /\ target = w - (w % Day) + Day
  <2> DEFINE r == w % Day
  <2>1. r \in 0..(Day - 1) /\ w = d + r
    BY <1>1
  <2> HIDE DEF r, w, d
  <2>2. target \in Int /\ w < target /\ target = w - r + Day
    BY <2>1, <1>1, Naturals
  <2> QED
    BY <2>2 DEF r
<1>5. ASSUME NEW x \in Int, w <= Wall(x), Wall(x) < target
      PROVE  ~ Fits(x)
  <2>1. Wall(x) \in Int
    BY ClockTypes
  <2> HIDE DEF target
  <2>2. Wall(x) \div Day = w \div Day
    BY <1>1, <1>4, <1>5, <2>1, Naturals, Within
  <2>3. DayOf(x) = DayOf(t)
    BY <2>2 DEF DayOf
  <2>4. DomOf(x) = DomOf(t) /\ DowOf(x) = DowOf(t)
    BY <2>3 DEF DomOf, DowOf, MonthAt
  <2> QED
    BY <2>4, <1>2 DEF Fits, DayFits
<1> HIDE DEF target
<1> QED
  BY <1>3, <1>4, <1>5, SkipsByWall

\* A jump to the first of the next month: the rest of a month that does not
\* match.
LEMMA MonthJump ==
  ASSUME TypeOK, FixedZones, MonthStep
  PROVE  Skips(t')
<1> DEFINE w == Wall(t)
           k == MonthAt(t)
           target == Day * FirstDay(k + 1)
<1>1. /\ t \in Int /\ zone.before \in Int
      /\ w \in Int /\ DayOf(t) \in Int
      /\ w = Day * DayOf(t) + (w % Day) /\ w % Day \in 0..(Day - 1)
  BY FixedClock, WithinDay DEF TypeOK
<1>2. MonthOf(t) \notin expr["month"].set
  BY DEF MonthStep, MonthOK
<1>3. /\ k \in Int
      /\ FirstDay(k) <= DayOf(t) /\ DayOf(t) < FirstDay(k + 1)
      /\ \A e \in Int : FirstDay(k) <= e /\ e < FirstDay(k + 1) => MonthOfDay(e) = k
  BY <1>1, MonthOfDayIs DEF MonthAt, MonthOfDay
<1>4. FirstDay(k) \in Int /\ FirstDay(k + 1) \in Int
  BY <1>3, FirstDayType
<1>5. t' + zone.before = target /\ t' \in Int
  BY Landed, Landings DEF MonthStep, ScanTo
<1>6. target \in Int /\ w < target
  <2> DEFINE r == w % Day
             a == DayOf(t)
             b == FirstDay(k + 1)
  <2>1. r \in 0..(Day - 1) /\ w = Day * a + r /\ a \in Int /\ b \in Int /\ a < b
    BY <1>1, <1>3, <1>4
  <2> HIDE DEF r, w, a, b, k
  <2>2. Day * a + Day <= Day * b /\ Day * a \in Int /\ Day * b \in Int
    BY <2>1, Naturals, Multiples
  <2>3. w < Day * b
    BY <2>1, <2>2, Naturals
  <2> QED
    BY <2>2, <2>3 DEF b
<1>7. ASSUME NEW x \in Int, w <= Wall(x), Wall(x) < target
      PROVE  ~ Fits(x)
  <2>1. Wall(x) \in Int /\ DayOf(x) \in Int
    BY ClockTypes
  <2>2. DayOf(t) <= DayOf(x)
    BY <1>1, <1>7, <2>1, Naturals, DigitGrows DEF DayOf
  <2>3. DayOf(x) < FirstDay(k + 1)
    <3> HIDE DEF k
    <3> QED
      BY <1>4, <1>7, <2>1, Naturals, DigitBelow DEF DayOf
  <2>4. MonthOfDay(DayOf(x)) = k
    <3> HIDE DEF k
    <3> QED
      BY <1>1, <1>3, <1>4, <2>1, <2>2, <2>3
  <2>5. MonthOf(x) = MonthOf(t)
    BY <2>4 DEF MonthOf, MonthAt, MonthOfDay
  <2> QED
    BY <2>5, <1>2 DEF Fits
<1> HIDE DEF target
<1> QED
  BY <1>5, <1>6, <1>7, SkipsByWall

-----------------------------------------------------------------------------
\* The inductive invariant.

\* No instant between the argument of Next and where the scan stands matches.
NoneMissed ==
  pc \in {"scan", "found", "none"} =>
    after < t /\ \A u \in (after + 1)..(t - 1) : ~ Matches(u)

Answered ==
  /\ pc = "found" => Matches(t)
  /\ pc = "none" => t >= limit

Exact == TypeOK /\ Parsed /\ NoneMissed /\ Answered

\* What an instant and a text mean depends on the text and the zone only.
LEMMA MeaningKept ==
  ASSUME text' = text, zone' = zone
  PROVE  \A u : Matches(u)' <=> Matches(u)
BY DEF Matches, Restricted, Written, Values, Bounds, SecondOf, MinuteOf, HourOf, MonthOf,
       DomOf, DowOf, MonthAt, MonthIn, FirstDay, DayOf, Wall, Offset

LEMMA ExactInit == Init => Exact
<1> SUFFICES ASSUME Init
             PROVE  Exact
  OBVIOUS
<1>1. TypeOK
  BY TypesInit
<1>2. Parsed /\ NoneMissed /\ Answered
  BY DEF Init, Parsed, NoneMissed, Answered
<1> QED
  BY <1>1, <1>2 DEF Exact

\* A jump of the scan keeps the invariant.
LEMMA ExactScan ==
  ASSUME Exact, FixedZones, PlainStars,
         SecondStep \/ MinuteStep \/ HourStep \/ DayStep \/ MonthStep
  PROVE  Skips(t') /\ (Parsed /\ NoneMissed /\ Answered)'
<1>1. TypeOK /\ Parsed /\ NoneMissed
  BY DEF Exact
<1>2. Skips(t')
  BY <1>1, SecondJump, MinuteJump, HourJump, DayJump, MonthJump
<1>3. pc = "scan" /\ UNCHANGED <<text, zone, expr, pc, after, limit, left>>
  BY DEF SecondStep, MinuteStep, HourStep, DayStep, MonthStep, Scanning, ScanTo
<1>4. PICK n \in Int : n = t'
  BY <1>2 DEF Skips
<1>5. /\ after \in Int /\ t \in Int /\ t < n
      /\ \A u \in t..(n - 1) : ~ Fits(u)
  BY <1>1, <1>2, <1>4 DEF TypeOK, Skips
<1>6. \A u \in (after + 1)..(n - 1) : ~ Matches(u)
  <2>1. SUFFICES ASSUME NEW u \in (after + 1)..(n - 1)
                 PROVE  ~ Matches(u)
    OBVIOUS
  <2>2. u \in Int
    BY <1>5
  <2>3. CASE u < t
    BY <1>1, <1>3, <1>5, <2>3 DEF NoneMissed
  <2>4. CASE t <= u
    <3>1. u \in t..(n - 1)
      BY <1>5, <2>4
    <3>2. ~ Fits(u)
      BY <1>5, <3>1
    <3> QED
      BY <1>1, <1>3, <2>2, <3>2, FitsMatches
  <2> QED
    BY <1>5, <2>2, <2>3, <2>4
<1>7. NoneMissed'
  <2>1. after < n
    BY <1>1, <1>3, <1>5 DEF NoneMissed
  <2>2. \A u : Matches(u)' <=> Matches(u)
    BY <1>3, MeaningKept
  <2> QED
    BY <1>3, <1>4, <1>6, <2>1, <2>2 DEF NoneMissed
<1>8. Parsed' /\ Answered'
  <2>1. UNCHANGED Bounds
    BY DEF Bounds
  <2> QED
    BY <1>1, <1>3 DEF Parsed, Answered, ParseField, ValidPart, Values, Bounds
<1> QED
  BY <1>2, <1>7, <1>8

LEMMA ExactNext ==
  ASSUME FixedZones, PlainStars
  PROVE  Exact /\ [Next]_vars => Exact'
<1> SUFFICES ASSUME Exact, [Next]_vars
             PROVE  Exact'
  OBVIOUS
<1>1. TypeOK /\ Parsed /\ NoneMissed /\ Answered
  BY DEF Exact
<1>2. TypeOK'
  BY <1>1, TypesNext
<1> SUFFICES (Parsed /\ NoneMissed /\ Answered)'
  BY <1>2 DEF Exact
<1>3. CASE Parse
  <2>1. CASE pc' = "refused"
    BY <2>1 DEF Parsed, NoneMissed, Answered
  <2>2. CASE pc' # "refused"
    <3>1. /\ \A f \in Fields : \A p \in text[f] : ValidPart(p, Bounds[f])
          /\ expr' = [f \in Fields |-> ParseField(text[f], Bounds[f])]
          /\ pc' = "ready" /\ text' = text
      BY <1>3, <2>2 DEF Parse
    <3>2. Parsed'
      BY <3>1 DEF Parsed, ParseField, ValidPart, Values, Bounds
    <3> QED
      BY <3>1, <3>2 DEF NoneMissed, Answered
  <2> QED
    BY <2>1, <2>2
<1>4. CASE NextCall
  <2>1. /\ pc = "ready" /\ pc' = "scan" /\ t' = after + 1
        /\ UNCHANGED <<text, expr, after>>
    BY <1>4 DEF NextCall
  <2>2. Parsed'
    BY <1>1, <2>1 DEF Parsed, ParseField, ValidPart, Values, Bounds
  <2>3. after \in Int
    BY <1>1 DEF TypeOK
  <2>4. NoneMissed'
    BY <2>1, <2>3 DEF NoneMissed
  <2> QED
    BY <2>1, <2>2, <2>4 DEF Answered
<1>5. CASE NextRound
  <2>1. pc = "found" /\ pc' = "ready" /\ UNCHANGED <<text, expr>>
    BY <1>5 DEF NextRound
  <2>2. Parsed'
    BY <1>1, <2>1 DEF Parsed, ParseField, ValidPart, Values, Bounds
  <2> QED
    BY <2>1, <2>2 DEF NoneMissed, Answered
<1>6. CASE SecondStep \/ MinuteStep \/ HourStep \/ DayStep \/ MonthStep
  BY <1>6, ExactScan
<1>7. CASE Found
  <2>1. /\ pc = "scan" /\ pc' = "found"
        /\ UNCHANGED <<text, zone, expr, after, t, limit>>
    BY <1>7 DEF Found, Scanning
  <2>2. Parsed'
    BY <1>1, <2>1 DEF Parsed, ParseField, ValidPart, Values, Bounds
  <2>3. \A u : Matches(u)' <=> Matches(u)
    BY <2>1, MeaningKept
  <2>4. NoneMissed'
    BY <1>1, <2>1, <2>3 DEF NoneMissed
  <2>5. Matches(t)
    <3>1. t \in Int
      BY <1>1 DEF TypeOK
    <3>2. Fits(t)
      BY <1>7, FitsHere DEF Found
    <3> QED
      BY <1>1, <2>1, <3>1, <3>2, FitsMatches
  <2>6. Matches(t)' <=> Matches(t)
    BY <2>1 DEF Matches, Restricted, Written, Values, Bounds, SecondOf, MinuteOf, HourOf,
                MonthOf, DomOf, DowOf, MonthAt, MonthIn, FirstDay, DayOf, Wall, Offset
  <2> QED
    BY <2>1, <2>2, <2>4, <2>5, <2>6 DEF Answered
<1>8. CASE Exhausted
  <2>1. /\ pc = "scan" /\ pc' = "none" /\ t >= limit
        /\ UNCHANGED <<text, zone, expr, after, t, limit>>
    BY <1>8 DEF Exhausted
  <2>2. Parsed'
    BY <1>1, <2>1 DEF Parsed, ParseField, ValidPart, Values, Bounds
  <2>3. \A u : Matches(u)' <=> Matches(u)
    BY <2>1, MeaningKept
  <2>4. NoneMissed'
    BY <1>1, <2>1, <2>3 DEF NoneMissed
  <2> QED
    BY <2>1, <2>2, <2>4 DEF Answered
<1>9. CASE UNCHANGED vars
  <2>1. UNCHANGED <<text, zone, expr, pc, after, t, limit>>
    BY <1>9 DEF vars
  <2>2. Parsed'
    BY <1>1, <2>1 DEF Parsed, ParseField, ValidPart, Values, Bounds
  <2>3. \A u : Matches(u)' <=> Matches(u)
    BY <2>1, MeaningKept
  <2>4. NoneMissed'
    BY <1>1, <2>1, <2>3 DEF NoneMissed
  <2>5. Matches(t)' <=> Matches(t)
    BY <2>1 DEF Matches, Restricted, Written, Values, Bounds, SecondOf, MinuteOf, HourOf,
                MonthOf, DomOf, DowOf, MonthAt, MonthIn, FirstDay, DayOf, Wall, Offset
  <2> QED
    BY <1>1, <2>1, <2>2, <2>4, <2>5 DEF Answered
<1> QED
  BY <1>3, <1>4, <1>5, <1>6, <1>7, <1>8, <1>9 DEF Next

\* In every zone with a fixed offset of whole hours, and for every expression
\* whose day fields have no stepped star, what Next returns is the first later
\* instant that matches the text, and it gives up only when nothing matches up
\* to the limit: the jumps over seconds, minutes, hours, days and months lose
\* nothing, on any calendar.
THEOREM CronNextExact ==
  ASSUME FixedZones, PlainStars
  PROVE  Spec => []NextExact
<1>1. Init => Exact
  BY ExactInit
<1>2. Exact /\ [Next]_vars => Exact'
  BY ExactNext
<1>3. Exact => NextExact
  BY DEF Exact, NoneMissed, Answered, NextExact
<1> QED
  BY <1>1, <1>2, <1>3, PTL DEF Spec

\* Under the same conditions every turn of the loop of Next moves on, so that it
\* makes at most limit - after of them.
THEOREM CronScanAdvances ==
  ASSUME FixedZones, PlainStars
  PROVE  Spec => [][pc = "scan" /\ pc' = "scan" => t < t' /\ limit' = limit]_vars
<1>1. Init => Exact
  BY ExactInit
<1>2. Exact /\ [Next]_vars => Exact'
  BY ExactNext
<1>3. Exact /\ [Next]_vars => [pc = "scan" /\ pc' = "scan" => t < t' /\ limit' = limit]_vars
  <2> SUFFICES ASSUME Exact, Next, pc = "scan", pc' = "scan"
               PROVE  t < t' /\ limit' = limit
    OBVIOUS
  <2>1. SecondStep \/ MinuteStep \/ HourStep \/ DayStep \/ MonthStep
    BY DEF Next, Parse, NextCall, NextRound, Found, Exhausted
  <2>2. t < t'
    BY <2>1, ExactScan DEF Skips
  <2>3. limit' = limit
    BY <2>1 DEF SecondStep, MinuteStep, HourStep, DayStep, MonthStep, ScanTo
  <2> QED
    BY <2>2, <2>3
<1> QED
  BY <1>1, <1>2, <1>3, PTL DEF Spec
=============================================================================
