-------------------------- MODULE Sequential_proofs --------------------------
(***************************************************************************)
(* Proofs about parts that run on one thread: dates and summer time, for   *)
(* any days, hours and zones; command lines, for any characters, texts and *)
(* arguments; and random numbers, for words of any width and twisters of   *)
(* any size.                                                               *)
(***************************************************************************)
EXTENDS RZCmdLine, RZRandom, RZDate, Induction, FiniteSetTheorems

-----------------------------------------------------------------------------
(* Dates and times.                                                        *)
(* A year begins in March: month 11 is February.  Dates are counted by     *)
(* centuries, years, months and days.                                      *)
MonthStart(f) == (153 * f + 2) \div 5
YearStart(d) == (1461 * d) \div 4
CenturyStart(b) == (146097 * b) \div 4

(* The day before 1 March of the year 0.                                  *)
Epoch == 1721119

Number(b, d, f, k) == k + MonthStart(f) + YearStart(d) + CenturyStart(b) + 1721119

LongYear(b, d) == d % 4 = 3 /\ (d # 99 \/ b % 4 = 3)

MonthLength(b, d, f) ==
  IF f = 11 THEN IF LongYear(b, d) THEN 29 ELSE 28
  ELSE IF f \in {1, 3, 6, 8} THEN 30 ELSE 31

Valid(b, d, f, k) == b \in Nat /\ d \in 0 .. 99 /\ f \in 0 .. 11 /\ k \in 1 .. MonthLength(b, d, f)

Named(b, d, f, k) ==
  [month |-> IF f > 9 THEN f - 9 ELSE f + 3, day |-> k,
   year |-> IF f > 9 THEN d + 100 * b + 1 ELSE d + 100 * b]

(* The quotients that Mdy takes give back what the number was made of.     *)
LEMMA MdyOfNumber ==
  ASSUME NEW b, NEW d, NEW f, NEW k, Valid(b, d, f, k)
  PROVE  /\ Mdy(Number(b, d, f, k)) = Named(b, d, f, k)
         /\ Number(b, d, f, k) \in Nat /\ Number(b, d, f, k) > Epoch
<1>1. b \in Nat /\ d \in 0 .. 99 /\ f \in 0 .. 11 /\ k \in 1 .. MonthLength(b, d, f)
  BY DEF Valid
<1>2. k \in Int /\ 1 <= k /\ k <= 31
  BY <1>1, SMT DEF MonthLength
<1> DEFINE t == MonthStart(f) + k - 1
           r == YearStart(d) + t
           c == CenturyStart(b)
           m == b % 4
           j == Number(b, d, f, k)
           s == 4 * (j - 1721119) - 1
<1>3. /\ t \in 0 .. 365 /\ (t = 365 => d % 4 = 3 /\ (d # 99 \/ m = 3))
      /\ (5 * (t + 1) - 3) \div 153 = f
      /\ (5 * (t + 1) - 153 * f + 2) \div 5 = k
  <2>1. CASE f = 11
    BY <1>1, <1>2, <2>1, SMT DEF MonthLength, MonthStart, LongYear
  <2>2. CASE f \in 0 .. 10
    BY <1>1, <1>2, <2>2, SMT DEF MonthLength, MonthStart
  <2> QED BY <1>1, <2>1, <2>2, SMT
<1>4. j = c + r + 1721120 /\ YearStart(d) \in Nat /\ c \in Nat /\ m \in 0 .. 3 /\ 146097 * b = 4 * c + m
  <2>1. MonthStart(f) \in Int
    BY <1>1, SMT DEF MonthStart
  <2>2. YearStart(d) \in Nat
    BY <1>1, SMT DEF YearStart
  <2>3. c \in Nat /\ m \in 0 .. 3 /\ 146097 * b = 4 * c + m
    BY <1>1, SMT DEF CenturyStart
  <2>4. j = c + r + 1721120
    BY <1>2, <2>1, <2>2, <2>3, SMT DEF Number
  <2> QED BY <2>2, <2>3, <2>4
<1> HIDE DEF t, m, c
<1>5. /\ r \in 0 .. 36524 /\ (r = 36524 => d = 99 /\ t = 365)
      /\ (4 * r + 3) \div 1461 = d
      /\ (4 * r - 1461 * d + 7) \div 4 = t + 1
  <2> DEFINE u == YearStart(d)
             n == d % 4
  <2>1. u \in Int /\ n \in 0 .. 3 /\ 1461 * d = 4 * u + n
    BY <1>1, SMT DEF YearStart
  <2>2. r = u + t /\ (t = 365 => n = 3)
    BY <1>3
  <2> HIDE DEF u, n, r
  <2>3. t \in Int /\ 0 <= t /\ t <= 365 /\ d \in Int /\ 0 <= d /\ d <= 99
    BY <1>1, <1>3, SMT
  <2>4. n \in Int /\ 0 <= n /\ n <= 3 /\ r \in Int /\ 4 * r = 1461 * d + (4 * t - n)
    BY ONLY <2>1, <2>2, <2>3, SMT
  <2>5. r \in 0 .. 36524 /\ (r = 36524 => d = 99 /\ t = 365)
    <3> DEFINE v == 1461 * d
               w == 4 * t - n
    <3>1. w \in Int /\ w <= 1457 /\ 0 <= w + 3 /\ (t # 365 => w < 1457)
      BY ONLY <2>2, <2>3, <2>4, SMT
    <3>2. v \in Int /\ v <= 144639 /\ 0 <= v /\ (d # 99 => v <= 143178)
      BY ONLY <2>3, SMT
    <3>3. 4 * r = v + w
      BY <2>4
    <3> HIDE DEF v, w
    <3>4. 4 * r <= 146096 /\ 0 <= 4 * r + 3 /\ (4 * r = 146096 => d = 99 /\ t = 365)
      BY ONLY <3>1, <3>2, <3>3, SMT
    <3> QED BY ONLY <2>4, <3>4, SMT
  <2>6. (4 * r + 3) \div 1461 = d
    BY ONLY <2>2, <2>3, <2>4, SMT
  <2>7. (4 * r - 1461 * d + 7) \div 4 = t + 1
    BY ONLY <2>3, <2>4, SMT
  <2> QED BY <2>5, <2>6, <2>7
<1> HIDE DEF r, j
<1>6. j \in Nat /\ j > Epoch
  BY ONLY <1>4, <1>5, SMT DEF Epoch
<1> DEFINE x == 4 * r + (3 - m)
<1>7. s \in Int /\ s = 146097 * b + x /\ 4 * (j - 1721119) - 146097 * b - 1 = s - 146097 * b
  <2>1. s \in Int /\ s = 4 * j - 6884477
    BY ONLY <1>6, SMT
  <2>2. s = 146097 * b + x
    BY ONLY <1>1, <1>4, <1>5, <2>1, SMT
  <2>3. 4 * (j - 1721119) - 146097 * b - 1 = s - 146097 * b
    BY ONLY <1>1, <1>6, SMT
  <2> QED BY ONLY <2>1, <2>2, <2>3, SMT
<1>8. x \in Int /\ 0 <= x /\ x < 146097
  <2>1. r \in Int /\ 0 <= r /\ r <= 36524 /\ m \in Int /\ 0 <= m /\ m <= 3
    BY ONLY <1>4, <1>5, SMT
  <2>2. m # 3 => r < 36524
    BY ONLY <1>3, <1>5, <2>1, SMT
  <2> QED BY ONLY <2>1, <2>2, SMT
<1> HIDE DEF s
<1>9. s \div 146097 = b
  <2>1. b \in Int
    BY <1>1
  <2> HIDE DEF x
  <2> QED BY ONLY <2>1, <1>7, <1>8, SMT
<1>10. (s - 146097 * b) - ((s - 146097 * b) % 4) = 4 * r
  <2>1. s - 146097 * b = x
    BY ONLY <1>1, <1>7, <1>8, SMT
  <2>2. (4 * r + (3 - m)) % 4 = 3 - m
    BY ONLY <1>4, <1>5, SMT
  <2> QED BY ONLY <1>4, <1>5, <2>1, <2>2, SMT
<1>11. Mdy(j) = Named(b, d, f, k)
  <2> DEFINE q == s - 146097 * b
             e == 5 * ((4 * r - 1461 * d + 7) \div 4)
  <2>1. (4 * (j - 1721119) - 1) \div 146097 = b /\ 4 * (j - 1721119) - 146097 * b - 1 = q
    BY <1>7, <1>9 DEF s
  <2>2. q - (q % 4) = 4 * r
    BY <1>10
  <2>3. e = 5 * (t + 1)
    BY <1>5
  <2> HIDE DEF q
  <2>4. Mdy(j) = [month |-> IF f > 9 THEN f - 9 ELSE f + 3, day |-> k,
                  year |-> IF f > 9 THEN d + 100 * b + 1 ELSE d + 100 * b]
    BY <2>1, <2>2, <2>3, <1>3, <1>5, SMT DEF Mdy
  <2> QED BY <2>4 DEF Named
<1> QED BY <1>6, <1>11, SMT DEF j

MonthOf(f) == IF f > 9 THEN f - 9 ELSE f + 3

YearOf(b, d, f) == IF f > 9 THEN d + 100 * b + 1 ELSE d + 100 * b

(* The month is as long as the calendar says: its February has 29 days     *)
(* exactly where the year that begins in March has 366.                    *)
LEMMA LengthOfMonth ==
  ASSUME NEW b \in Nat, NEW d \in 0 .. 99, NEW f \in 0 .. 11
  PROVE  /\ DaysInMonth(MonthOf(f), YearOf(b, d, f)) = MonthLength(b, d, f)
         /\ MonthOf(f) \in 1 .. 12 /\ YearOf(b, d, f) \in Nat
<1>1. MonthOf(f) \in 1 .. 12 /\ YearOf(b, d, f) \in Nat
  BY SMT DEF MonthOf, YearOf
<1>2. CASE f = 11
  <2> DEFINE y == d + 100 * b + 1
  <2>1. MonthOf(f) = 2 /\ YearOf(b, d, f) = y
    BY <1>2, SMT DEF MonthOf, YearOf
  <2>2. y % 4 = (d + 1) % 4 /\ y % 100 = (d + 1) % 100
    BY SMT
  <2>3. d = 99 => (y % 400 = 0 <=> b % 4 = 3)
    BY SMT
  <2>4. y % 400 = 0 => y % 100 = 0
    BY SMT
  <2>5. (d + 1) % 100 = 0 <=> d = 99
    BY SMT
  <2>6. (d + 1) % 4 = 0 <=> d % 4 = 3
    BY SMT
  <2> HIDE DEF y
  <2>7. IsLeapYear(y) <=> LongYear(b, d)
    BY <2>2, <2>3, <2>4, <2>5, <2>6 DEF IsLeapYear, LongYear
  <2>8. DaysInMonth(2, y) = 28 + (IF IsLeapYear(y) THEN 1 ELSE 0)
    BY SMT DEF DaysInMonth
  <2> QED BY <1>1, <1>2, <2>1, <2>7, <2>8, SMT DEF MonthLength
<1>3. CASE f \in 0 .. 10
  <2> DEFINE m == MonthOf(f)
             lengths == <<31, 28, 31, 30, 31, 30, 31, 31, 30, 31, 30, 31>>
  <2>1. m # 2
    BY <1>3, SMT DEF MonthOf
  <2>2. DaysInMonth(m, YearOf(b, d, f)) = lengths[m] + 0
    BY <2>1, Zenon DEF DaysInMonth
  <2>3. lengths[m] = MonthLength(b, d, f)
    <3>1. f \in {0, 1, 2, 3, 4, 5, 6, 7, 8, 9, 10}
      BY <1>3, SMT
    <3> QED BY <3>1, SMT DEF MonthOf, MonthLength
  <2>4. MonthLength(b, d, f) \in Int
    BY <1>3, SMT DEF MonthLength
  <2> QED BY <1>1, <2>2, <2>3, <2>4, SMT
<1> QED BY <1>2, <1>3, SMT

LEMMA JdayOfNumber ==
  ASSUME NEW b, NEW d, NEW f, NEW k, Valid(b, d, f, k)
  PROVE  Jday(MonthOf(f), k, YearOf(b, d, f)) = Number(b, d, f, k)
<1>1. b \in Nat /\ d \in 0 .. 99 /\ f \in 0 .. 11 /\ k \in 1 .. MonthLength(b, d, f)
  BY DEF Valid
<1>2. DayWithinMonth(MonthOf(f), k, YearOf(b, d, f))
  BY <1>1, LengthOfMonth DEF DayWithinMonth
<1> DEFINE early == MonthOf(f) <= 2
           adj_month == IF early THEN MonthOf(f) + 9 ELSE MonthOf(f) - 3
           adj_year  == IF early THEN YearOf(b, d, f) - 1 ELSE YearOf(b, d, f)
<1>3. adj_month = f
  BY <1>1, SMT DEF MonthOf
<1>4. adj_year = d + 100 * b
  BY <1>1, SMT DEF MonthOf, YearOf
<1>5. (d + 100 * b) % 100 = d /\ (d + 100 * b) \div 100 = b
  BY <1>1, SMT
<1> DEFINE number(m, y) == k + (153 * m + 2) \div 5 + (1461 * (y % 100)) \div 4
                             + (146097 * (y \div 100)) \div 4 + 1721119
<1>6. Jday(MonthOf(f), k, YearOf(b, d, f)) = number(adj_month, adj_year)
  BY <1>2, SMT DEF Jday
<1>7. number(f, d + 100 * b) = Number(b, d, f, k)
  BY <1>5, SMT DEF Number, MonthStart, YearStart, CenturyStart
<1> QED BY <1>3, <1>4, <1>6, <1>7, SMT

(* The number after one is that of the day that follows in the calendar.   *)
LEMMA NextNumber ==
  ASSUME NEW b, NEW d, NEW f, NEW k, Valid(b, d, f, k)
  PROVE  \E bb, dd, ff, kk :
           /\ Valid(bb, dd, ff, kk)
           /\ Number(bb, dd, ff, kk) = Number(b, d, f, k) + 1
           /\ Named(bb, dd, ff, kk) = Following(Named(b, d, f, k))
<1>1. b \in Nat /\ d \in 0 .. 99 /\ f \in 0 .. 11 /\ k \in 1 .. MonthLength(b, d, f)
  BY DEF Valid
<1> DEFINE m == MonthOf(f)
           y == YearOf(b, d, f)
           n == Named(b, d, f, k)
<1>2. DaysInMonth(m, y) = MonthLength(b, d, f) /\ m \in 1 .. 12 /\ y \in Nat
  BY <1>1, LengthOfMonth
<1>3. n = [month |-> m, day |-> k, year |-> y]
  BY DEF Named, MonthOf, YearOf
<1>4. MonthLength(b, d, f) \in Int /\ k \in Int /\ 1 <= k /\ k <= MonthLength(b, d, f) /\ MonthLength(b, d, f) >= 28
  BY <1>1, SMT DEF MonthLength
<1>5. DayWithinMonth(m, k + 1, y) <=> k < MonthLength(b, d, f)
  BY <1>2, <1>4, SMT DEF DayWithinMonth
<1>6. \A dd \in 0 .. 99 : YearStart(dd) \in Int
  BY SMT DEF YearStart
<1>7. \A ff \in 0 .. 11 : MonthStart(ff) \in Int
  BY SMT DEF MonthStart
<1>8. CenturyStart(b) \in Int /\ CenturyStart(b + 1) \in Int
  BY <1>1, SMT DEF CenturyStart
<1>9. CASE k < MonthLength(b, d, f)
  <2>1. Valid(b, d, f, k + 1)
    BY <1>1, <1>4, <1>9, SMT DEF Valid
  <2>2. Number(b, d, f, k + 1) = Number(b, d, f, k) + 1
    BY <1>1, <1>4, <1>6, <1>7, <1>8, SMT DEF Number
  <2>3. Following(n) = [month |-> m, day |-> k + 1, year |-> y]
    BY <1>3, <1>5, <1>9, SMT DEF Following
  <2>4. Named(b, d, f, k + 1) = [month |-> m, day |-> k + 1, year |-> y]
    BY DEF Named, MonthOf, YearOf
  <2> QED BY <2>1, <2>2, <2>3, <2>4, Zenon
<1>10. CASE k = MonthLength(b, d, f) /\ f < 11
  <2>1. f + 1 \in 0 .. 11 /\ MonthLength(b, d, f + 1) >= 1 /\ MonthLength(b, d, f + 1) \in Int
    BY <1>1, <1>10, SMT DEF MonthLength
  <2>2. Valid(b, d, f + 1, 1)
    BY <1>1, <2>1, SMT DEF Valid
  <2>3. MonthStart(f + 1) = MonthStart(f) + MonthLength(b, d, f)
    <3>1. f \in {0, 1, 2, 3, 4, 5, 6, 7, 8, 9, 10}
      BY <1>1, <1>10, SMT
    <3> QED BY <3>1, SMT DEF MonthStart, MonthLength
  <2>4. Number(b, d, f + 1, 1) = Number(b, d, f, k) + 1
    <3> DEFINE s == MonthStart(f)
               u == MonthStart(f + 1)
    <3>1. s \in Int /\ u \in Int /\ u = s + k
      BY <1>1, <1>7, <1>10, <2>1, <2>3
    <3> HIDE DEF s, u
    <3>2. Number(b, d, f, k) = k + s + YearStart(d) + CenturyStart(b) + 1721119
      BY DEF Number, s
    <3>3. Number(b, d, f + 1, 1) = 1 + u + YearStart(d) + CenturyStart(b) + 1721119
      BY DEF Number, u
    <3> QED BY <1>1, <1>4, <1>6, <1>8, <3>1, <3>2, <3>3, SMT
  <2>5. Following(n) = IF m < 12 THEN [month |-> m + 1, day |-> 1, year |-> y]
                       ELSE [month |-> 1, day |-> 1, year |-> y + 1]
    BY <1>3, <1>4, <1>5, <1>10, SMT DEF Following
  <2>6. Named(b, d, f + 1, 1) = [month |-> MonthOf(f + 1), day |-> 1, year |-> YearOf(b, d, f + 1)]
    BY DEF Named, MonthOf, YearOf
  <2>7. IF m < 12 THEN MonthOf(f + 1) = m + 1 /\ YearOf(b, d, f + 1) = y
        ELSE MonthOf(f + 1) = 1 /\ YearOf(b, d, f + 1) = y + 1
    BY <1>1, <1>10, SMT DEF MonthOf, YearOf
  <2> QED BY <2>2, <2>4, <2>5, <2>6, <2>7, Zenon
<1>11. CASE k = MonthLength(b, d, f) /\ f = 11
  <2>1. m = 2 /\ y = d + 100 * b + 1 /\ 2 < 12
    BY <1>1, <1>11, SMT DEF MonthOf, YearOf
  <2>2. Following(n) = [month |-> 3, day |-> 1, year |-> d + 100 * b + 1]
    <3>1. Following(n) = [month |-> m + 1, day |-> 1, year |-> y]
      BY <1>3, <1>4, <1>5, <1>11, <2>1, SMT DEF Following
    <3> QED BY <2>1, <3>1, SMT
  <2>3. MonthStart(0) = 0 /\ MonthStart(f) = 337
    BY <1>11, SMT DEF MonthStart
  <2>4. k = IF LongYear(b, d) THEN 29 ELSE 28
    BY <1>11, SMT DEF MonthLength
  <2>5. Number(b, d, f, k) = k + 337 + YearStart(d) + CenturyStart(b) + 1721119
    BY <2>3 DEF Number
  <2>6. CASE d < 99
    <3>1. d + 1 \in 0 .. 99
      BY <1>1, <2>6, SMT
    <3>2. Valid(b, d + 1, 0, 1)
      BY <1>1, <3>1, SMT DEF Valid, MonthLength
    <3>3. YearStart(d + 1) = YearStart(d) + k + 337
      <4>1. k = IF d % 4 = 3 THEN 29 ELSE 28
        BY <1>1, <2>4, <2>6, SMT DEF LongYear
      <4>2. YearStart(d + 1) = YearStart(d) + 365 + (IF d % 4 = 3 THEN 1 ELSE 0)
        BY <1>1, SMT DEF YearStart
      <4>3. YearStart(d) \in Int
        BY <1>1, <1>6
      <4> QED BY <4>1, <4>2, <4>3, SMT
    <3>4. Number(b, d + 1, 0, 1) = 1 + 0 + YearStart(d + 1) + CenturyStart(b) + 1721119
      BY <2>3 DEF Number
    <3>5. YearStart(d) \in Int
      BY <1>1, <1>6
    <3>6. Number(b, d + 1, 0, 1) = Number(b, d, f, k) + 1
      BY <1>4, <1>8, <2>5, <3>3, <3>4, <3>5, SMT
    <3>7. Named(b, d + 1, 0, 1) = [month |-> 3, day |-> 1, year |-> d + 100 * b + 1]
      BY <1>1, SMT DEF Named
    <3> QED BY <2>2, <3>2, <3>6, <3>7, Zenon
  <2>7. CASE d = 99
    <3>1. Valid(b + 1, 0, 0, 1)
      BY <1>1, SMT DEF Valid, MonthLength
    <3>2. YearStart(0) = 0 /\ YearStart(d) = 36159
      BY <2>7, SMT DEF YearStart
    <3>3. CenturyStart(b + 1) = CenturyStart(b) + 36496 + k
      <4>1. k = IF b % 4 = 3 THEN 29 ELSE 28
        BY <1>1, <2>4, <2>7, SMT DEF LongYear
      <4>2. CenturyStart(b + 1) = CenturyStart(b) + 36524 + (IF b % 4 = 3 THEN 1 ELSE 0)
        BY <1>1, SMT DEF CenturyStart
      <4> QED BY <1>8, <4>1, <4>2, SMT
    <3>4. Number(b + 1, 0, 0, 1) = 1 + 0 + 0 + CenturyStart(b + 1) + 1721119
      BY <2>3, <3>2 DEF Number
    <3>5. Number(b + 1, 0, 0, 1) = Number(b, d, f, k) + 1
      BY <1>4, <1>8, <2>5, <3>2, <3>3, <3>4, SMT
    <3>6. Named(b + 1, 0, 0, 1) = [month |-> 3, day |-> 1, year |-> d + 100 * b + 1]
      BY <1>1, <2>7, SMT DEF Named
    <3> QED BY <2>2, <3>1, <3>5, <3>6, Zenon
  <2> QED BY <1>1, <2>6, <2>7, SMT
<1> QED BY <1>1, <1>4, <1>9, <1>10, <1>11, SMT

(* Every Julian day after 1721119 is the number of a date.                 *)
LEMMA EveryNumber ==
  ASSUME NEW j \in Nat, j > Epoch
  PROVE  \E b, d, f, k : Valid(b, d, f, k) /\ Number(b, d, f, k) = j
<1> DEFINE At(i) == \E b, d, f, k : Valid(b, d, f, k) /\ Number(b, d, f, k) = i + 1721120
           P == {i \in Nat : At(i)}
<1>1. At(0)
  <2>1. Valid(0, 0, 0, 1)
    BY SMT DEF Valid, MonthLength
  <2>2. Number(0, 0, 0, 1) = 0 + 1721120
    BY SMT DEF Number, MonthStart, YearStart, CenturyStart
  <2> QED BY <2>1, <2>2
<1>2. ASSUME NEW i \in Nat, At(i) PROVE At(i + 1)
  <2>1. PICK b, d, f, k : Valid(b, d, f, k) /\ Number(b, d, f, k) = i + 1721120
    BY <1>2
  <2>2. PICK bb, dd, ff, kk : Valid(bb, dd, ff, kk) /\ Number(bb, dd, ff, kk) = Number(b, d, f, k) + 1
    BY <2>1, NextNumber
  <2>3. Number(bb, dd, ff, kk) = (i + 1) + 1721120
    BY <2>1, <2>2, SMT
  <2> QED BY <2>2, <2>3
<1> HIDE DEF At
<1>3. 0 \in P
  BY <1>1
<1>4. ASSUME NEW i \in Nat, i \in P PROVE i + 1 \in P
  BY <1>2, <1>4
<1> HIDE DEF P
<1>5. \A i \in Nat : i \in P
  BY <1>3, <1>4, SetInduction
<1>6. j - 1721120 \in Nat /\ (j - 1721120) + 1721120 = j
  BY SMT DEF Epoch
<1>7. At(j - 1721120)
  BY <1>5, <1>6 DEF P
<1> QED BY <1>6, <1>7, SMT DEF At

LEMMA DateOfDay ==
  ASSUME NEW j \in Nat, j > Epoch
  PROVE  /\ Mdy(j).year \in Nat
         /\ Jday(Mdy(j).month, Mdy(j).day, Mdy(j).year) = j
         /\ Mdy(j + 1) = Following(Mdy(j))
<1>1. PICK b, d, f, k : Valid(b, d, f, k) /\ Number(b, d, f, k) = j
  BY EveryNumber
<1>2. Mdy(j) = Named(b, d, f, k)
  BY <1>1, MdyOfNumber
<1>3. Named(b, d, f, k) = [month |-> MonthOf(f), day |-> k, year |-> YearOf(b, d, f)]
  BY DEF Named, MonthOf, YearOf
<1>4. Jday(MonthOf(f), k, YearOf(b, d, f)) = j
  BY <1>1, JdayOfNumber
<1>5. YearOf(b, d, f) \in Nat
  BY <1>1, LengthOfMonth DEF Valid
<1>6. PICK bb, dd, ff, kk :
        /\ Valid(bb, dd, ff, kk)
        /\ Number(bb, dd, ff, kk) = Number(b, d, f, k) + 1
        /\ Named(bb, dd, ff, kk) = Following(Named(b, d, f, k))
  BY <1>1, NextNumber
<1>7. Mdy(j + 1) = Following(Mdy(j))
  BY <1>1, <1>2, <1>6, MdyOfNumber
<1>8. Mdy(j).month = MonthOf(f) /\ Mdy(j).day = k /\ Mdy(j).year = YearOf(b, d, f)
  BY <1>2, <1>3
<1> QED BY <1>4, <1>5, <1>7, <1>8

(* The days of the week.                                                   *)
LEMMA WeekDay ==
  ASSUME NEW j \in Int
  PROVE  DayOfWeek(j) = (j % 7) + 1 /\ j % 7 \in 0 .. 6
BY SMT DEF DayOfWeek

LEMMA LastOfThatName ==
  ASSUME NEW j \in Int, NEW days \in 1 .. 7
  PROVE  /\ Previous(j, days) \in Int
         /\ Previous(j, days) <= j /\ j < Previous(j, days) + 7
         /\ DayOfWeek(Previous(j, days)) = days
<1> DEFINE w == DayOfWeek(j) - 1
           p == Previous(j, days)
<1>1. w = j % 7 /\ w \in 0 .. 6
  BY WeekDay, SMT
<1>2. p = j - (IF days - 1 <= w THEN w - (days - 1) ELSE 7 - (days - 1) + w)
  BY DEF Previous
<1> HIDE DEF w, p
<1>3. p \in Int /\ p <= j /\ j < p + 7
  BY <1>1, <1>2, SMT
<1>4. p % 7 = days - 1
  <2>1. CASE days - 1 <= w
    <3>1. p = j - w + (days - 1)
      BY <1>1, <1>2, <2>1, SMT
    <3> QED BY <1>1, <3>1, SMT
  <2>2. CASE ~(days - 1 <= w)
    <3>1. p = j - w + (days - 1) - 7
      BY <1>1, <1>2, <2>2, SMT
    <3> QED BY <1>1, <3>1, SMT
  <2> QED BY <2>1, <2>2
<1>5. DayOfWeek(p) = days
  BY <1>3, <1>4, WeekDay, SMT
<1> QED BY <1>3, <1>5 DEF p

LEMMA OneInAWeek ==
  ASSUME NEW first \in Int, NEW days \in 1 .. 7
  PROVE  (CHOOSE j \in first .. first + 6 : DayOfWeek(j) = days) = Previous(first + 6, days)
<1> DEFINE p == Previous(first + 6, days)
           c == CHOOSE j \in first .. first + 6 : DayOfWeek(j) = days
<1>1. first + 6 \in Int
  BY SMT
<1>2. p \in Int /\ p <= first + 6 /\ first + 6 < p + 7 /\ DayOfWeek(p) = days
  BY <1>1, LastOfThatName
<1> HIDE DEF p
<1>3. p \in first .. first + 6
  BY <1>2, SMT
<1>4. c \in first .. first + 6 /\ DayOfWeek(c) = days
  BY <1>2, <1>3
<1> HIDE DEF c
<1>5. c \in Int /\ first <= c /\ c <= first + 6
  BY <1>4, SMT
<1>6. c % 7 = p % 7
  BY <1>2, <1>4, <1>5, WeekDay, SMT
<1>7. c = p
  BY <1>2, <1>5, <1>6, SMT
<1> QED BY <1>7 DEF c, p

(* The week of April in which summer begins and the last one of October.   *)
LEMMA WeeksOfChange ==
  ASSUME NEW y \in Nat
  PROVE  /\ Jday(4, 2, y) \in Int /\ Jday(4, 8, y) = Jday(4, 2, y) + 6
         /\ Jday(10, 25, y) \in Int /\ Jday(10, 31, y) = Jday(10, 25, y) + 6
<1> DEFINE s == (1461 * (y % 100)) \div 4 + (146097 * (y \div 100)) \div 4 + 1721119
<1>1. DaysInMonth(4, y) = 30 /\ DaysInMonth(10, y) = 31
  BY SMT DEF DaysInMonth
<1>2. /\ DayWithinMonth(4, 2, y) /\ DayWithinMonth(4, 8, y)
      /\ DayWithinMonth(10, 25, y) /\ DayWithinMonth(10, 31, y)
  BY <1>1, SMT DEF DayWithinMonth
<1>3. (1461 * (y % 100)) \div 4 \in Int /\ (146097 * (y \div 100)) \div 4 \in Int
  BY SMT
<1>4. Jday(4, 2, y) = 2 + 31 + s /\ Jday(4, 8, y) = 8 + 31 + s
  BY <1>2, <1>3, SMT DEF Jday
<1>5. Jday(10, 25, y) = 25 + 214 + s /\ Jday(10, 31, y) = 31 + 214 + s
  BY <1>2, <1>3, SMT DEF Jday
<1>6. s \in Int
  BY <1>3, SMT
<1> HIDE DEF s
<1> QED BY <1>4, <1>5, <1>6, SMT

-----------------------------------------------------------------------------
(* A date that goes on by days and a time that goes on by hours, from any  *)
(* day, hour and zone.                                                     *)
DateSpec == DateTypeOK /\ [][NextDay \/ NextHour]_dateVars

LEMMA DateTypeStep == DateTypeOK /\ [NextDay \/ NextHour]_dateVars => DateTypeOK'
<1> SUFFICES ASSUME DateTypeOK, [NextDay \/ NextHour]_dateVars PROVE DateTypeOK'
  OBVIOUS
<1>1. CASE NextDay
  BY <1>1 DEF DateTypeOK, NextDay
<1>2. CASE NextHour
  BY <1>2 DEF DateTypeOK, NextHour
<1>3. CASE UNCHANGED dateVars
  BY <1>3 DEF DateTypeOK, dateVars
<1> QED BY <1>1, <1>2, <1>3

(* A date stays one of the days, a time one of the hours.                  *)
THEOREM DateType == DateSpec => []DateTypeOK
BY DateTypeStep, PTL DEF DateSpec

LEMMA CalendarHolds == DateTypeOK => DaysOfCalendar
<1> SUFFICES ASSUME DateTypeOK PROVE DaysOfCalendar
  OBVIOUS
<1> DEFINE j == mnJulianDate
<1>1. j \in Nat /\ j > Epoch
  BY DateAssumption, SMT DEF DateTypeOK, Epoch
<1> HIDE DEF j
<1>2. /\ Jday(Mdy(j).month, Mdy(j).day, Mdy(j).year) = j
      /\ Mdy(j + 1) = Following(Mdy(j))
  BY <1>1, DateOfDay
<1>3. DayOfWeek(j) = ((j - Jday(1, 1, 2000) + 5) % 7) + 1
  <2>1. Jday(1, 1, 2000) = 2451545
    BY SMT DEF Jday, DayWithinMonth, DaysInMonth, IsLeapYear
  <2>2. (j - 2451545 + 5) % 7 = j % 7
    BY <1>1, SMT
  <2> QED BY <1>1, <2>1, <2>2, WeekDay, SMT
<1>4. ASSUME NEW days \in 1 .. 7
      PROVE  /\ DayOfWeek(Previous(j, days)) = days
             /\ Previous(j, days) <= j /\ j < Previous(j, days) + 7
  <2>1. j \in Int
    BY <1>1
  <2> QED BY <2>1, LastOfThatName, Zenon
<1>5. \A days \in 1 .. 7 :
        LET previous == Previous(mnJulianDate, days)
        IN  /\ DayOfWeek(previous) = days
            /\ previous <= mnJulianDate /\ mnJulianDate < previous + 7
  BY <1>4, Zenon DEF j
<1>6. LET date == Mdy(mnJulianDate)
      IN  /\ Jday(date.month, date.day, date.year) = mnJulianDate
          /\ Mdy(mnJulianDate + 1) = Following(date)
  BY <1>2, Zenon DEF j
<1>7. DayOfWeek(mnJulianDate) = ((mnJulianDate - Jday(1, 1, 2000) + 5) % 7) + 1
  BY <1>3, SMT DEF j
<1> QED BY <1>5, <1>6, <1>7, SMT DEF DaysOfCalendar

(* Mdy and Jday are inverse and Mdy goes through the calendar day by day,  *)
(* leap years and centuries included, and Previous finds the last day of   *)
(* a name (rzdate.cpp).                                                    *)
THEOREM CalendarOfDays == DateSpec => []DaysOfCalendar
BY DateType, CalendarHolds, PTL

LEMMA SummerHolds == DateTypeOK => SummerTime
<1> SUFFICES ASSUME DateTypeOK PROVE SummerTime
  OBVIOUS
<1> DEFINE standard == mnTime - _timezone
           year     == Mdy(RefDate + standard \div 24).year
           begin    == 24 * (SundayOfApril(year) - RefDate) + 2 + _timezone
           end      == 24 * (LastSundayOfOctober(year) - RefDate) + 1 + _timezone
           summer   == _daylight /\ year \notin {1974, 1975} /\ begin <= standard /\ standard < end
<1>1. mnTime \in Nat /\ _timezone \in -12 .. 12 /\ _daylight \in BOOLEAN
  BY DateAssumption, SMT DEF DateTypeOK
<1>2. standard \in Int /\ standard >= -12
  BY <1>1, SMT
<1> HIDE DEF standard
<1>3. RefDate + standard \div 24 \in Nat /\ RefDate + standard \div 24 > Epoch
  BY <1>2, SMT DEF RefDate, Epoch
<1>4. year \in Nat
  <2> DEFINE day == RefDate + standard \div 24
  <2> HIDE DEF day
  <2>1. Mdy(day).year \in Nat
    BY <1>3, DateOfDay DEF day
  <2> QED BY <2>1 DEF day
<1>5. DayNumber(standard \div 24) = RefDate + standard \div 24
  BY <1>2, SMT DEF DayNumber, RefDate
<1>6. Mdy(DayNumber(standard \div 24)).year = year
  BY <1>5
<1> HIDE DEF year
<1>7. ASSUME year \notin {1974, 1975}
      PROVE  LocalHours(mnTime) = standard + (IF summer THEN 1 ELSE 0)
  <2>1. SundayOfApril(year) = Previous(Jday(4, 8, year), 7)
    <3> DEFINE first == Jday(4, 2, year)
    <3>1. first \in Int /\ Jday(4, 8, year) = first + 6
      BY <1>4, WeeksOfChange
    <3> HIDE DEF first
    <3>2. (CHOOSE j \in first .. first + 6 : DayOfWeek(j) = 7) = Previous(first + 6, 7)
      BY <3>1, OneInAWeek
    <3> QED BY <3>1, <3>2 DEF SundayOfApril, first
  <2>2. LastSundayOfOctober(year) = Previous(Jday(10, 31, year), 7)
    <3> DEFINE first == Jday(10, 25, year)
    <3>1. first \in Int /\ Jday(10, 31, year) = first + 6
      BY <1>4, WeeksOfChange
    <3> HIDE DEF first
    <3>2. (CHOOSE j \in first .. first + 6 : DayOfWeek(j) = 7) = Previous(first + 6, 7)
      BY <3>1, OneInAWeek
    <3> QED BY <3>1, <3>2 DEF LastSundayOfOctober, first
  <2>3. SundayOfApril(year) \in Int /\ LastSundayOfOctober(year) \in Int
    <3>1. Jday(4, 8, year) \in Int /\ Jday(10, 31, year) \in Int
      BY <1>4, WeeksOfChange, SMT
    <3> QED BY <2>1, <2>2, <3>1, LastOfThatName
  <2>4. BeginDST(year) = BuildLocal(SundayOfApril(year), 2)
    BY <1>7, <2>1 DEF BeginDST
  <2>5. EndDST(year) = BuildLocal(LastSundayOfOctober(year), 1)
    BY <2>2 DEF EndDST
  <2>6. BuildLocal(SundayOfApril(year), 2) = begin /\ BuildLocal(LastSundayOfOctober(year), 1) = end
    BY <1>1, <2>3, SMT DEF BuildLocal, RefDate
  <2>7. IsDST(standard) <=> summer
    BY <1>6, <1>7, <2>4, <2>5, <2>6 DEF IsDST
  <2> HIDE DEF summer
  <2>8. LocalHours(mnTime) = IF IsDST(standard) THEN standard + 1 ELSE standard
    BY DEF LocalHours, standard
  <2> QED BY <1>2, <2>7, <2>8, SMT
<1> QED BY <1>7, Zenon DEF SummerTime, standard, year

(* Local time is in summer between the two Sundays, both late by the zone  *)
(* (rztime.cpp: IsDST is asked with local time).                           *)
THEOREM SummerOfTimes == DateSpec => []SummerTime
BY DateType, SummerHolds, PTL

-----------------------------------------------------------------------------
(* Command lines: what may be asked.                                       *)
Strings == Seq(Char)

LEMMA FirstIndexIs ==
  ASSUME NEW holds, NEW from \in Nat, NEW n \in Nat, Len(mArguments) = n
  PROVE  LET found == {i \in from .. n - 1 : holds[i + 1]}
             first == FirstIndex(holds, from)
         IN  /\ found = {} => first = -1
             /\ found # {} => first \in found /\ \A j \in found : first <= j
<1> DEFINE found == {i \in from .. n - 1 : holds[i + 1]}
<1>1. FirstIndex(holds, from) = IF found = {} THEN -1 ELSE CHOOSE i \in found : \A j \in found : i <= j
  BY DEF FirstIndex
<1>2. found \subseteq Nat
  OBVIOUS
<1> HIDE DEF found
<1>3. CASE found # {}
  <2>1. \E i \in found : \A j \in found : i <= j
    BY <1>2, <1>3, LeastExists
  <2>2. FirstIndex(holds, from) \in found /\ \A j \in found : FirstIndex(holds, from) <= j
    BY <1>1, <1>3, <2>1, Zenon
  <2> QED BY <1>3, <2>2 DEF found
<1>4. CASE found = {}
  BY <1>1, <1>4 DEF found
<1> QED BY <1>3, <1>4 DEF found

LEMMA FirstHolds ==
  ASSUME NEW holds, NEW n \in Nat, Len(mArguments) = n, FirstIndex(holds, 0) >= 0
  PROVE  FirstIndex(holds, 0) \in 0 .. n - 1 /\ holds[FirstIndex(holds, 0) + 1]
<1> DEFINE found == {i \in 0 .. n - 1 : holds[i + 1]}
           first == FirstIndex(holds, 0)
<1>1. (found = {} => first = -1) /\ (found # {} => first \in found)
  BY FirstIndexIs
<1> HIDE DEF found
<1>2. found # {}
  BY <1>1
<1> HIDE DEF first
<1> QED BY <1>1, <1>2 DEF found, first

LEMMA FirstSooner ==
  ASSUME NEW holds, NEW n \in Nat, Len(mArguments) = n, NEW i \in 0 .. n - 1, holds[i + 1]
  PROVE  FirstIndex(holds, 0) \in 0 .. i
<1> DEFINE found == {j \in 0 .. n - 1 : holds[j + 1]}
           first == FirstIndex(holds, 0)
<1>1. found # {} => first \in found /\ \A j \in found : first <= j
  BY FirstIndexIs
<1>2. i \in found
  OBVIOUS
<1>3. first \in 0 .. n - 1 /\ first <= i
  <2>1. found \subseteq 0 .. n - 1
    OBVIOUS
  <2> HIDE DEF found, first
  <2> QED BY <1>1, <1>2, <2>1
<1> HIDE DEF first
<1> QED BY <1>3 DEF first

LEMMA LowerLength ==
  ASSUME NEW s \in Strings
  PROVE  /\ MakeLower(s) \in Strings /\ Len(MakeLower(s)) = Len(s)
         /\ \A i \in 1 .. Len(s) : MakeLower(s)[i] = ToLower(s[i])
<1>1. Len(s) \in Nat /\ \A i \in 1 .. Len(s) : s[i] \in Char
  BY SMT DEF Strings
<1>2. \A c \in Char : ToLower(c) \in Char
  BY CmdAssumption DEF ToLower
<1>3. MakeLower(s) \in [1 .. Len(s) -> Char]
  BY <1>1, <1>2, Zenon DEF MakeLower
<1>4. \A i \in 1 .. Len(s) : MakeLower(s)[i] = ToLower(s[i])
  BY Zenon DEF MakeLower
<1> DEFINE t == MakeLower(s)
           n == Len(s)
<1> HIDE DEF t, n
<1>5. t \in Seq(Char) /\ Len(t) = n
  <2>1. t \in [1 .. n -> Char] /\ n \in Nat
    BY <1>1, <1>3 DEF t, n
  <2> QED BY <2>1, SMT
<1> QED BY <1>4, <1>5 DEF t, n, Strings

LEMMA LowerMarker ==
  ASSUME NEW c
  PROVE  (ToLower(c) \in Markers <=> c \in Markers) /\ (c \in Markers => ToLower(c) = c)
BY CmdAssumption, Zenon DEF ToLower

(* A part that is as long as the rest of a string is found there alone.    *)
LEMMA FoundAtIs ==
  ASSUME NEW s \in Strings, NEW sub \in Strings, NEW k \in {0, 1}, Len(s) = Len(sub) + k
  PROVE  /\ FoundAt(s, sub) = 0 <=> SubSeq(s, 1, Len(sub)) = sub
         /\ k = 0 => (FoundAt(s, sub) >= 0 <=> s = sub)
         /\ k = 1 => (FoundAt(s, sub) = 1 <=> SubSeq(s, 1, Len(sub)) # sub /\ SubSeq(s, 2, Len(s)) = sub)
<1> DEFINE n == Len(sub)
           places == {i \in 0 .. Len(s) - n : SubSeq(s, i + 1, i + n) = sub}
<1>1. n \in Nat /\ Len(s) = n + k /\ Len(s) - n = k
  BY SMT DEF Strings
<1>2. FoundAt(s, sub) = IF places = {} THEN -1 ELSE CHOOSE i \in places : \A j \in places : i <= j
  BY DEF FoundAt
<1>3. places \subseteq 0 .. k /\ places \subseteq Nat
  BY <1>1, SMT
<1>4. 0 \in places <=> SubSeq(s, 1, n) = sub
  BY <1>1, SMT
<1>5. k = 1 => (1 \in places <=> SubSeq(s, 2, Len(s)) = sub)
  BY <1>1, SMT
<1> HIDE DEF places
<1> DEFINE at == FoundAt(s, sub)
<1>6. places # {} => at \in places /\ \A j \in places : at <= j
  <2> SUFFICES ASSUME places # {} PROVE at \in places /\ \A j \in places : at <= j
    OBVIOUS
  <2>1. \E i \in places : \A j \in places : i <= j
    BY <1>3, LeastExists
  <2> QED BY <1>2, <2>1, Zenon
<1>7. places = {} => at = -1
  BY <1>2
<1> HIDE DEF at
<1>12. \A i \in places : i = 0 \/ i = 1
  BY <1>3, SMT
<1>13. ~(1 <= 0) /\ -1 # 0 /\ -1 # 1 /\ 0 # 1 /\ ~(-1 >= 0) /\ 0 >= 0
  BY SMT
<1>14. k = 0 => \A i \in places : i = 0
  BY <1>3, SMT
<1>8. at = 0 <=> 0 \in places
  BY <1>6, <1>7, <1>12, <1>13, Zenon
<1>9. k = 1 => (at = 1 <=> 0 \notin places /\ 1 \in places)
  BY <1>6, <1>7, <1>12, <1>13, Zenon
<1>10. k = 0 => (at >= 0 <=> 0 \in places)
  BY <1>6, <1>7, <1>13, <1>14, Zenon
<1>11. k = 0 => SubSeq(s, 1, n) = s
  BY <1>1, SMT DEF Strings
<1> QED BY <1>4, <1>5, <1>8, <1>9, <1>10, <1>11, Zenon DEF at

(* One element in front of a sequence.                                     *)
LEMMA Prefixed ==
  ASSUME NEW S, NEW c \in S, NEW s \in Seq(S)
  PROVE  /\ <<c>> \o s \in Seq(S) /\ Len(<<c>> \o s) = Len(s) + 1 /\ (<<c>> \o s)[1] = c
         /\ \A i \in 1 .. Len(s) : (<<c>> \o s)[i + 1] = s[i]
         /\ SubSeq(<<c>> \o s, 2, Len(s) + 1) = s
<1> DEFINE one == <<c>>
           t == one \o s
           n == Len(s)
<1>0. n \in Nat
  BY SMT
<1> HIDE DEF n
<1>1. one \in Seq(S) /\ Len(one) = 1 /\ one[1] = c
  BY SMT
<1> HIDE DEF one
<1>2. /\ t \in Seq(S) /\ Len(t) = Len(one) + n
      /\ \A i \in 1 .. Len(one) + n : t[i] = IF i <= Len(one) THEN one[i] ELSE s[i - Len(one)]
  BY <1>1, ConcatProperties DEF n
<1> HIDE DEF t
<1>3. Len(t) = n + 1 /\ \A i \in 1 .. n + 1 : t[i] = IF i <= 1 THEN one[i] ELSE s[i - 1]
  <2>1. Len(t) = 1 + n /\ \A i \in 1 .. 1 + n : t[i] = IF i <= 1 THEN one[i] ELSE s[i - 1]
    BY <1>1, <1>2
  <2>2. 1 + n = n + 1
    BY <1>0
  <2> QED BY <2>1, <2>2
<1>4. t[1] = c
  <2>1. 1 \in 1 .. n + 1 /\ 1 <= 1
    BY <1>0, SMT
  <2> QED BY <1>1, <1>3, <2>1, Zenon
<1>5. ASSUME NEW i \in 1 .. n PROVE t[i + 1] = s[i]
  <2>1. i + 1 \in 1 .. n + 1 /\ ~(i + 1 <= 1) /\ (i + 1) - 1 = i
    BY <1>0, SMT
  <2> QED BY <1>3, <2>1, Zenon
<1>6. SubSeq(t, 2, n + 1) = s
  <2> DEFINE u == SubSeq(t, 2, n + 1)
  <2>1. \A i \in 2 .. n + 1 : t[i] \in S
    <3>1. \A i \in 2 .. n + 1 : i \in 1 .. Len(t)
      BY <1>0, <1>3, SMT
    <3> QED BY <1>2, <3>1, ElementOfSeq
  <2>2. /\ u \in Seq(S) /\ Len(u) = IF 2 <= n + 1 THEN (n + 1) - 2 + 1 ELSE 0
        /\ \A i \in 1 .. (n + 1) - 2 + 1 : u[i] = t[2 + i - 1]
    <3>1. 2 \in Int /\ n + 1 \in Int
      BY <1>0, SMT
    <3> QED BY <2>1, <3>1, SubSeqProperties
  <2> HIDE DEF u
  <2>3. Len(u) = n /\ \A i \in 1 .. n : u[i] = t[i + 1]
    <3>1. (n + 1) - 2 + 1 = n /\ \A i \in 1 .. n : 2 + i - 1 = i + 1
      BY <1>0, SMT
    <3> QED BY <1>0, <2>2, <3>1, SMT
  <2>4. \A i \in 1 .. n : u[i] = s[i]
    BY <1>5, <2>3, Zenon
  <2>5. u = s
    BY <2>2, <2>3, <2>4, SeqEqual DEF n
  <2> QED BY <2>5 DEF u
<1> QED BY <1>2, <1>3, <1>4, <1>5, <1>6 DEF t, one, n

LEMMA NamesAre ==
  ASSUME NEW name \in SwitchNames
  PROVE  /\ name \in Strings /\ Len(name) \in Nat /\ Len(name) >= 1
         /\ name[1] \notin Markers
<1>1. name \in Seq(Char) /\ name # <<>> /\ name[1] \notin Markers
  BY CmdAssumption
<1> QED BY <1>1, SMT DEF Strings

LEMMA MarkedName ==
  ASSUME NEW name \in Strings, NEW mark \in Markers
  PROVE  /\ MakeLower(<<mark>> \o name) = <<mark>> \o MakeLower(name)
         /\ <<mark>> \o name \in Strings
<1> DEFINE n == Len(name)
           long == <<mark>> \o name
           low == MakeLower(name)
<1>1. mark \in Char
  BY CmdAssumption
<1>2. long \in Strings /\ Len(long) = n + 1 /\ n \in Nat /\ long[1] = mark
      /\ \A i \in 1 .. n : long[i + 1] = name[i]
  <2>1. n \in Nat
    BY SMT DEF Strings
  <2>2. name \in Seq(Char)
    BY DEF Strings
  <2>3. /\ long \in Seq(Char) /\ Len(long) = n + 1 /\ long[1] = mark
        /\ \A i \in 1 .. n : long[i + 1] = name[i]
    BY <1>1, <2>2, Prefixed
  <2> HIDE DEF long
  <2> QED BY <2>1, <2>3 DEF Strings
<1> HIDE DEF long
<1>3. low \in Strings /\ Len(low) = n /\ \A i \in 1 .. n : low[i] = ToLower(name[i])
  BY LowerLength
<1>4. MakeLower(long) \in Strings /\ Len(MakeLower(long)) = n + 1
      /\ \A i \in 1 .. n + 1 : MakeLower(long)[i] = ToLower(long[i])
  BY <1>2, LowerLength
<1> DEFINE x == MakeLower(long)
           y == <<mark>> \o low
<1> HIDE DEF x, low
<1>5. y \in Strings /\ Len(y) = n + 1 /\ y[1] = mark /\ \A i \in 1 .. n : y[i + 1] = low[i]
  <2>2. low \in Seq(Char)
    BY <1>3 DEF Strings
  <2>3. /\ y \in Seq(Char) /\ Len(y) = Len(low) + 1 /\ y[1] = mark
        /\ \A i \in 1 .. Len(low) : y[i + 1] = low[i]
    BY <1>1, <2>2, Prefixed
  <2> HIDE DEF y
  <2> QED BY <1>3, <2>3 DEF Strings
<1> HIDE DEF y
<1>6. ASSUME NEW i \in 1 .. n + 1 PROVE x[i] = y[i]
  <2>1. CASE i = 1
    <3>1. x[1] = ToLower(mark)
      BY <1>2, <1>4, <2>1 DEF x
    <3> QED BY <1>5, <2>1, <3>1, LowerMarker
  <2>2. CASE i # 1
    <3> DEFINE k == i - 1
    <3>1. k \in 1 .. n /\ k + 1 = i
      BY <1>2, <2>2, SMT
    <3> HIDE DEF k
    <3>2. x[i] = ToLower(long[i]) /\ long[i] = name[k] /\ y[i] = low[k] /\ low[k] = ToLower(name[k])
      BY <1>2, <1>3, <1>4, <1>5, <3>1 DEF x
    <3> QED BY <3>2
  <2> QED BY <2>1, <2>2
<1>7. x \in Strings /\ Len(x) = n + 1
  BY <1>4 DEF x
<1>8. x = y
  BY <1>5, <1>6, <1>7, SeqEqual DEF Strings
<1> QED BY <1>2, <1>8 DEF x, y, low, long

(* A long switch is a marker and its name, in any case.                    *)
LEMMA LongSwitch ==
  ASSUME NEW arg \in Strings, NEW name \in SwitchNames
  PROVE  /\ IsMarked(arg)
         /\ Len(arg) = Len(name) + 1
         /\ FoundAt(MakeLower(arg), MakeLower(name)) = 1
         <=> \E mark \in Markers : MakeLower(arg) = MakeLower(<<mark>> \o name)
<1> DEFINE a == MakeLower(arg)
           b == MakeLower(name)
           n == Len(name)
<1>1. name \in Strings /\ n \in Nat /\ n >= 1 /\ name[1] \notin Markers
  BY NamesAre
<1>2. a \in Strings /\ Len(a) = Len(arg) /\ \A i \in 1 .. Len(arg) : a[i] = ToLower(arg[i])
  BY LowerLength
<1>3. b \in Strings /\ Len(b) = n /\ b[1] \notin Markers
  <2>1. b \in Strings /\ Len(b) = n /\ \A i \in 1 .. n : b[i] = ToLower(name[i])
    BY <1>1, LowerLength
  <2>2. 1 \in 1 .. n
    BY <1>1, SMT
  <2> QED BY <1>1, <2>1, <2>2, LowerMarker
<1>4. \A mark \in Markers : MakeLower(<<mark>> \o name) = <<mark>> \o b
  BY <1>1, MarkedName
<1>5. Markers \subseteq Char
  BY CmdAssumption
<1>6. Len(arg) \in Nat
  BY SMT DEF Strings
<1>7. Len(arg) = n + 1 => (FoundAt(a, b) = 1 <=> SubSeq(a, 1, n) # b /\ SubSeq(a, 2, Len(a)) = b)
  <2>1. 1 \in {0, 1}
    OBVIOUS
  <2>2. SUFFICES ASSUME Len(a) = Len(b) + 1
                 PROVE  FoundAt(a, b) = 1 <=> SubSeq(a, 1, Len(b)) # b /\ SubSeq(a, 2, Len(a)) = b
    BY <1>2, <1>3
  <2> QED BY <1>2, <1>3, <2>1, <2>2, FoundAtIs, Zenon
<1> HIDE DEF a, b, n
<1>8. ASSUME IsMarked(arg), Len(arg) = n + 1, FoundAt(a, b) = 1
      PROVE  \E mark \in Markers : a = <<mark>> \o b
  <2> DEFINE mark == arg[1]
  <2>1. mark \in Markers
    BY <1>8 DEF IsMarked, Strings
  <2>2. a[1] = mark
    <3>1. 1 \in 1 .. Len(arg)
      BY <1>1, <1>8, SMT
    <3> QED BY <1>2, <2>1, <3>1, LowerMarker
  <2> HIDE DEF mark
  <2>3. SubSeq(a, 2, Len(a)) = b /\ Len(a) = n + 1
    BY <1>2, <1>7, <1>8
  <2>4. a = <<mark>> \o b
    <3>1. 1 \in 1 .. Len(a) /\ Len(a) \in 1 .. Len(a) /\ 1 + 1 = 2
      BY <1>1, <2>3, SMT
    <3>2. SubSeq(a, 1, Len(a)) = <<a[1]>> \o SubSeq(a, 1 + 1, Len(a))
      BY <1>2, <3>1, SubSeqRecursiveFirst DEF Strings
    <3>3. SubSeq(a, 1, Len(a)) = a
      BY <1>2, SubSeqFull DEF Strings
    <3> QED BY <2>2, <2>3, <3>1, <3>2, <3>3
  <2> QED BY <2>1, <2>4
<1>9. ASSUME NEW mark \in Markers, a = <<mark>> \o b
      PROVE  IsMarked(arg) /\ Len(arg) = n + 1 /\ FoundAt(a, b) = 1
  <2>1. mark \in Char
    BY <1>5
  <2> DEFINE y == <<mark>> \o b
  <2>8. b \in Seq(Char)
    BY <1>3 DEF Strings
  <2>9. Len(y) = Len(b) + 1 /\ y[1] = mark /\ SubSeq(y, 2, Len(b) + 1) = b
    BY <2>1, <2>8, Prefixed
  <2>10. a = y
    BY <1>9
  <2> HIDE DEF y
  <2>2. Len(a) = n + 1 /\ a[1] = mark
    BY <1>3, <2>9, <2>10
  <2>3. SubSeq(a, 2, Len(a)) = b
    BY <1>3, <2>2, <2>9, <2>10
  <2>4. SubSeq(a, 1, n) # b
    <3>1. SubSeq(a, 1, n)[1] = a[1]
      BY <1>1, <1>2, <2>2, SMT DEF Strings
    <3> QED BY <1>3, <2>2, <3>1
  <2>5. Len(arg) = n + 1
    BY <1>2, <2>2
  <2>6. arg[1] \in Markers
    <3>1. 1 \in 1 .. Len(arg)
      BY <1>1, <2>5, SMT
    <3>2. a[1] = ToLower(arg[1])
      BY <1>2, <3>1
    <3> QED BY <2>2, <3>2, LowerMarker
  <2>7. IsMarked(arg)
    <3>1. arg # <<>>
      BY <1>1, <2>5, SMT
    <3> QED BY <2>6, <3>1 DEF IsMarked
  <2> QED BY <1>7, <2>3, <2>4, <2>5, <2>7
<1> QED BY <1>4, <1>8, <1>9, Zenon DEF a, b, n

(* A name begins with no marker, so no argument holds it with a value.     *)
LEMMA NoValue ==
  ASSUME NEW arg \in Strings, NEW name \in SwitchNames
  PROVE  ~HasValue(arg, name)
<1> SUFFICES ASSUME HasValue(arg, name) PROVE FALSE
  OBVIOUS
<1> DEFINE a == MakeLower(arg)
           n == Len(name)
<1>1. name \in Strings /\ n \in Nat /\ n >= 1 /\ name[1] \notin Markers
  BY NamesAre
<1>2. arg[1] \in Markers /\ Len(arg) >= n + 3 /\ SubSeq(a, 1, n) = name
  BY DEF HasValue, IsMarked, Strings
<1>3. a \in Strings /\ Len(a) = Len(arg) /\ \A i \in 1 .. Len(arg) : a[i] = ToLower(arg[i])
  BY LowerLength
<1> HIDE DEF a, n
<1>4. Len(arg) \in Nat
  BY SMT DEF Strings
<1>5. 1 \in 1 .. Len(arg)
  BY <1>1, <1>2, <1>4, SMT
<1>6. a[1] = ToLower(arg[1])
  BY <1>3, <1>5
<1>7. SubSeq(a, 1, n)[1] = a[1]
  <2>1. 1 \in 1 .. Len(a) /\ n \in 1 .. Len(a)
    BY <1>1, <1>2, <1>3, <1>4, SMT
  <2>2. Head(SubSeq(a, 1, n)) = a[1]
    BY <1>3, <2>1, HeadTailOfSubSeq DEF Strings
  <2> QED BY <1>1, <1>2, <2>2 DEF Strings
<1> QED BY <1>1, <1>2, <1>6, <1>7, LowerMarker

LEMMA AnswersHold == CmdTypeOK => SwitchAnswers
<1> SUFFICES ASSUME CmdTypeOK PROVE SwitchAnswers
  OBVIOUS
<1> DEFINE n == Len(mArguments)
<1>1. n \in Nat /\ \A i \in 1 .. n : mArguments[i] \in Strings
  BY SMT DEF CmdTypeOK, Strings
<1>2. ASSUME NEW name \in SwitchNames, NEW start \in -1 .. MaxArgs
      PROVE  GetIndexOfLongSwitch(name, start) =
               FirstIndex([i \in 1 .. n |->
                  \E mark \in Markers : MakeLower(mArguments[i]) = MakeLower(<<mark>> \o name)],
                  FromStart(start))
  <2> DEFINE A(i) == /\ IsMarked(mArguments[i])
                     /\ Len(mArguments[i]) = Len(name) + 1
                     /\ FoundAt(MakeLower(mArguments[i]), MakeLower(name)) = 1
             B(i) == \E mark \in Markers : MakeLower(mArguments[i]) = MakeLower(<<mark>> \o name)
  <2>1. \A i \in 1 .. n : A(i) <=> B(i)
    BY <1>1, LongSwitch
  <2>3. \A i \in 1 .. n : A(i) \in BOOLEAN /\ B(i) \in BOOLEAN
    OBVIOUS
  <2> HIDE DEF A, B
  <2>4. \A i \in 1 .. n : A(i) = B(i)
    BY <2>1, <2>3
  <2>2. [i \in 1 .. n |-> A(i)] = [i \in 1 .. n |-> B(i)]
    BY <2>4
  <2> USE DEF A, B
  <2> QED BY <2>1, <2>2 DEF GetIndexOfLongSwitch
<1>3. ASSUME NEW name \in SwitchNames
      PROVE  IsLongSwitchPresent(name) <=> GetIndexOfLongSwitch(name, 0) >= 0
  <2>1. \A i \in 1 .. n : ~HasValue(mArguments[i], name)
    BY <1>1, NoValue
  <2> QED BY <2>1, Zenon DEF IsLongSwitchPresent
<1>4. ASSUME NEW name \in SwitchNames, n = 1
      PROVE  ~(IsSwitchPresent(name[1]) /\ GetIndexOfSwitch(name[1], 0) >= 0)
  <2> SUFFICES ASSUME IsSwitchPresent(name[1]), GetIndexOfSwitch(name[1], 0) >= 0 PROVE FALSE
    OBVIOUS
  <2> DEFINE arg == mArguments[1]
  <2>1. Len(arg) > 2
    <3>1. PICK i \in 1 .. n : Len(mArguments[i]) > 2
      BY DEF IsSwitchPresent
    <3>2. i = 1
      BY <1>4, SMT
    <3> QED BY <3>1, <3>2
  <2> DEFINE H(i) == /\ Len(mArguments[i]) = 2
                     /\ IsMarked(mArguments[i])
                     /\ ToLower(mArguments[i][2]) = ToLower(name[1])
             holds == [i \in 1 .. n |-> H(i)]
             found == {i \in 0 .. n - 1 : holds[i + 1]}
             first == FirstIndex(holds, 0)
  <2>2. GetIndexOfSwitch(name[1], 0) = first
    BY SMT DEF GetIndexOfSwitch, FromStart
  <2>3. found = {} => first = -1
    BY <1>1, FirstIndexIs
  <2>4. found # {}
    <3> HIDE DEF found, first
    <3> QED BY <2>2, <2>3, SMT
  <2>5. PICK i \in 0 .. n - 1 : holds[i + 1]
    BY <2>4
  <2>6. i = 0 /\ i + 1 = 1 /\ 1 \in 1 .. n
    BY <1>4, SMT
  <2>7. H(1)
    BY <2>5, <2>6
  <2>8. Len(arg) = 2
    BY <2>7
  <2> QED BY <2>1, <2>8, SMT
<1>5. ASSUME NEW name \in SwitchNames, NEW case_sensitive \in BOOLEAN
      PROVE  LET whole == Find(name, TRUE)
                 part  == FindSubString(name, case_sensitive)
             IN  /\ whole >= 0 => Find(name, FALSE) \in 0 .. whole
                 /\ whole >= 0 /\ name = MakeLower(name) => part \in 0 .. whole
                 /\ whole = 0 /\ name # MakeLower(name) /\ n = 1 => part = -1
  <2> DEFINE low == MakeLower(name)
             E(i) == mArguments[i] = name
             L(i) == MakeLower(mArguments[i]) = low
             P(i) == /\ mArguments[i] # <<>>
                     /\ IF case_sensitive THEN FoundAt(mArguments[i], low) >= 0
                                          ELSE FoundAt(MakeLower(mArguments[i]), name) >= 0
             e == [i \in 1 .. n |-> E(i)]
             l == [i \in 1 .. n |-> L(i)]
             p == [i \in 1 .. n |-> P(i)]
             whole == FirstIndex(e, 0)
  <2>1. name \in Strings /\ name # <<>>
    BY NamesAre, CmdAssumption
  <2>2. low \in Strings /\ Len(low) = Len(name)
    BY <2>1, LowerLength
  <2>3. Find(name, TRUE) = whole
    BY DEF Find
  <2>4. Find(name, FALSE) = FirstIndex(l, 0)
    BY DEF Find
  <2>5. FindSubString(name, case_sensitive) = FirstIndex(p, 0)
    BY DEF FindSubString
  <2>6. ASSUME NEW i \in 1 .. n, mArguments[i] = name
        PROVE  L(i) /\ (P(i) <=> name = low)
    <3>1. FoundAt(name, low) >= 0 <=> name = low
      <4>1. 0 \in {0, 1} /\ Len(name) = Len(low) + 0
        BY <2>1, <2>2, SMT DEF Strings
      <4> QED BY <2>1, <2>2, <4>1, FoundAtIs
    <3>2. FoundAt(low, name) >= 0 <=> low = name
      <4>1. 0 \in {0, 1} /\ Len(low) = Len(name) + 0
        BY <2>1, <2>2, SMT DEF Strings
      <4> QED BY <2>1, <2>2, <4>1, FoundAtIs
    <3> HIDE DEF low
    <3>3. P(i) <=> name = low
      BY <2>1, <2>6, <3>1, <3>2 DEF low
    <3>4. L(i)
      BY <2>6 DEF low
    <3> QED BY <3>3, <3>4
  <2> HIDE DEF low, L, P
  <2>7. ASSUME whole >= 0
        PROVE  /\ whole \in 0 .. n - 1 /\ whole + 1 \in 1 .. n
               /\ l[whole + 1] /\ (p[whole + 1] <=> name = low)
    <3>1. whole \in 0 .. n - 1 /\ e[whole + 1]
      <4> HIDE DEF e
      <4> QED BY <1>1, <2>7, FirstHolds
    <3> HIDE DEF whole
    <3>2. whole + 1 \in 1 .. n
      BY <1>1, <3>1, SMT
    <3> QED BY <2>6, <3>1, <3>2
  <2> HIDE DEF e, l, p
  <2>8. whole >= 0 => FirstIndex(l, 0) \in 0 .. whole
    <3> HIDE DEF whole
    <3> QED BY <1>1, <2>7, FirstSooner
  <2>9. whole >= 0 /\ name = low => FirstIndex(p, 0) \in 0 .. whole
    <3> HIDE DEF whole
    <3> QED BY <1>1, <2>7, FirstSooner
  <2>10. ASSUME whole = 0, name # low, n = 1 PROVE FirstIndex(p, 0) = -1
    <3>1. ~p[1]
      <4>1. whole >= 0 /\ whole + 1 = 1
        BY <2>10
      <4> HIDE DEF whole
      <4> QED BY <2>7, <2>10, <4>1
    <3>2. {i \in 0 .. n - 1 : p[i + 1]} = {}
      <4>1. \A i \in 0 .. n - 1 : i + 1 = 1
        BY <2>10, SMT
      <4> QED BY <3>1, <4>1
    <3> QED BY <1>1, <3>2, FirstIndexIs
  <2> QED BY <2>3, <2>4, <2>5, <2>8, <2>9, <2>10 DEF low
<1>6. ASSUME NEW name \in SwitchNames, Len(name) = 1 /\ n = 1
      PROVE  ~(IsSwitchPresent(name[1]) /\ GetIndexOfSwitch(name[1], 0) >= 0)
  BY <1>4, <1>6
<1> QED BY <1>2, <1>3, <1>5, <1>6, Zenon DEF SwitchAnswers

-----------------------------------------------------------------------------
(* Splitting: the scan, character by character.                            *)
Start == [array |-> <<>>, sub_str |-> <<>>, in_quotes |-> FALSE, skips |-> FALSE]

(* The fold over characters that it is, and the sets of places it is over. *)
Scans(s, it, n) ==
  it = [S \in SUBSET (1 .. n) |->
          IF S = {} THEN Start ELSE Scan(it[S \ {Max(S)}], s[Max(S)])]

LEMMA ScanExists ==
  ASSUME NEW s
  PROVE  \A n \in Nat : \E it : Scans(s, it, n)
<1> DEFINE Step(it, S) == IF S = {} THEN Start ELSE Scan(it[S \ {Max(S)}], s[Max(S)])
           P == {n \in Nat : \E it : Scans(s, it, n)}
<1>1. 0 \in P
  <2> DEFINE it == [S \in SUBSET (1 .. 0) |-> Start]
  <2>1. \A S \in SUBSET (1 .. 0) : S = {}
    OBVIOUS
  <2>2. Scans(s, it, 0)
    BY <2>1 DEF Scans
  <2> QED BY <2>2
<1>2. ASSUME NEW n \in Nat, n \in P PROVE n + 1 \in P
  <2>1. PICK it : Scans(s, it, n)
    BY <1>2
  <2>2. \A S \in SUBSET (1 .. n) : it[S] = Step(it, S)
    BY <2>1 DEF Scans
  <2> DEFINE new == [S \in SUBSET (1 .. n + 1) |->
                       IF n + 1 \in S THEN Scan(it[S \ {n + 1}], s[n + 1]) ELSE it[S]]
  <2>3. \A S \in SUBSET (1 .. n) : S \in SUBSET (1 .. n + 1) /\ n + 1 \notin S
    OBVIOUS
  <2>4. \A S \in SUBSET (1 .. n) : new[S] = it[S]
    BY <2>3
  <2>5. ASSUME NEW S \in SUBSET (1 .. n + 1)
        PROVE  new[S] = Step(new, S)
    <3>1. CASE n + 1 \in S
      <4>1. Max(S) = n + 1 /\ S # {}
        BY <3>1, MaxOf
      <4>2. S \ {n + 1} \in SUBSET (1 .. n)
        OBVIOUS
      <4>3. new[S \ {n + 1}] = it[S \ {n + 1}]
        BY <2>4, <4>2
      <4>4. new[S] = Scan(it[S \ {n + 1}], s[n + 1])
        BY <3>1
      <4> HIDE DEF new
      <4> QED BY <4>1, <4>3, <4>4
    <3>2. CASE n + 1 \notin S
      <4>1. S \in SUBSET (1 .. n)
        <5>1. \A x \in S : x \in 1 .. n + 1 /\ x # n + 1
          BY <3>2
        <5>2. \A x \in 1 .. n + 1 : x # n + 1 => x \in 1 .. n
          OBVIOUS
        <5> QED BY <5>1, <5>2, Zenon
      <4>2. new[S] = it[S] /\ new[S \ {Max(S)}] = it[S \ {Max(S)}]
        <5>1. S \ {Max(S)} \in SUBSET (1 .. n)
          BY <4>1, Zenon
        <5> QED BY <2>4, <4>1, <5>1
      <4> HIDE DEF new
      <4> QED BY <2>2, <4>1, <4>2
    <3> QED BY <3>1, <3>2
  <2>6. new = [S \in SUBSET (1 .. n + 1) |-> new[S]]
    OBVIOUS
  <2> HIDE DEF new
  <2>7. Scans(s, new, n + 1)
    BY <2>5, <2>6, Zenon DEF Scans
  <2> QED BY <2>7
<1> HIDE DEF P
<1>3. \A n \in Nat : n \in P
  BY <1>1, <1>2, SetInduction
<1> QED BY <1>3 DEF P

(* What the scan has done after every character.                           *)
LEMMA ScanRuns ==
  ASSUME NEW s, NEW n \in Nat, DOMAIN s = 1 .. n
  PROVE  \E f : /\ f[0] = Start
                /\ \A i \in 1 .. n : f[i] = Scan(f[i - 1], s[i])
                /\ FoldLeft(Scan, Start, s) = f[n]
<1> DEFINE it == CHOOSE it : Scans(s, it, n)
           f == [i \in 0 .. n |-> it[1 .. i]]
<1>1. FoldLeft(Scan, Start, s) = it[1 .. n]
  BY DEF FoldLeft, MapThenFoldSet, Scans
<1>2. Scans(s, it, n)
  BY ScanExists
<1> HIDE DEF it
<1>3. f[0] = Start
  <2>1. 1 .. 0 = {} /\ {} \in SUBSET (1 .. n) /\ 0 \in 0 .. n
    OBVIOUS
  <2> QED BY <1>2, <2>1 DEF Scans
<1>4. ASSUME NEW i \in 1 .. n PROVE f[i] = Scan(f[i - 1], s[i])
  <2>1. i - 1 \in Nat /\ (i - 1) + 1 = i /\ i \in 1 .. i /\ 1 .. i \in SUBSET (1 .. n)
    OBVIOUS
  <2>2. Max(1 .. i) = i
    BY <2>1, MaxOf
  <2>3. (1 .. i) \ {i} = 1 .. i - 1 /\ 1 .. i # {}
    OBVIOUS
  <2>4. it[1 .. i] = Scan(it[1 .. i - 1], s[i])
    BY <1>2, <2>1, <2>2, <2>3 DEF Scans
  <2>5. i \in 0 .. n /\ i - 1 \in 0 .. n
    OBVIOUS
  <2> QED BY <2>4, <2>5
<1>5. f[n] = it[1 .. n]
  OBVIOUS
<1> HIDE DEF f
<1> QED BY <1>1, <1>3, <1>4, <1>5

LEMMA UnquotedType ==
  ASSUME NEW token \in Strings
  PROVE  Unquoted(token) \in Strings
<1>1. \A i \in 2 .. Len(token) - 1 : token[i] \in Char
  BY SMT DEF Strings
<1>2. 2 \in Int /\ Len(token) - 1 \in Int
  BY SMT DEF Strings
<1>3. SubSeq(token, 2, Len(token) - 1) \in Strings
  BY <1>1, <1>2, SubSeqProperties DEF Strings
<1> QED BY <1>3 DEF Unquoted

(* The printed characters of a text, and what is between the first and the *)
(* last of them.                                                           *)
Printed(s) == {i \in 1 .. Len(s) : IsPrinted(s[i])}

LEMMA TrimIs ==
  ASSUME NEW s \in Strings
  PROVE  \/ Printed(s) = {} /\ Trim(s) = <<>>
         \/ \E a, b \in Printed(s) :
              /\ \A i \in Printed(s) : a <= i /\ i <= b
              /\ Trim(s) = SubSeq(s, a, b)
<1> DEFINE I == Printed(s)
<1>1. Len(s) \in Nat /\ I \subseteq 1 .. Len(s)
  BY SMT DEF Strings, Printed
<1>2. SelectInSeq(s, IsPrinted) = IF I # {} THEN Min(I) ELSE 0
  BY DEF SelectInSeq, Printed
<1>3. SelectLastInSeq(s, IsPrinted) = IF I # {} THEN Max(I) ELSE 0
  BY DEF SelectLastInSeq, Printed
<1> HIDE DEF I
<1>4. CASE I = {}
  BY <1>2, <1>4 DEF Trim, I
<1>5. CASE I # {}
  <2>1. I \subseteq Nat
    BY <1>1
  <2>2. Min(I) \in I /\ \A i \in I : Min(I) <= i
    <3>1. \E x \in I : \A y \in I : x <= y
      BY <1>5, <2>1, LeastExists
    <3> QED BY <3>1 DEF Min
  <2>3. Max(I) \in I /\ \A i \in I : i <= Max(I)
    <3> DEFINE D == {Len(s) - i : i \in I}
    <3>1. D \subseteq Nat /\ D # {}
      <4>1. \A i \in I : Len(s) - i \in Nat
        BY <1>1
      <4> QED BY <1>5, <4>1
    <3>2. PICK d \in D : \A e \in D : d <= e
      BY <3>1, LeastExists
    <3>3. PICK x \in I : d = Len(s) - x
      BY <3>2
    <3>4. ASSUME NEW y \in I PROVE x >= y
      <4>1. d <= Len(s) - y
        BY <3>2
      <4>2. x \in Nat /\ y \in Nat
        BY <1>1
      <4> QED BY <1>1, <3>3, <4>1, <4>2
    <3>5. \E u \in I : \A y \in I : u >= y
      BY <3>4
    <3>6. Max(I) \in I /\ \A y \in I : Max(I) >= y
      BY <3>5 DEF Max
    <3> QED BY <1>1, <3>6
  <2> DEFINE a == Min(I)
             b == Max(I)
  <2>4. a # 0
    BY <1>1, <2>2
  <2> HIDE DEF a, b
  <2>5. Trim(s) = SubSeq(s, a, b)
    BY <1>2, <1>3, <1>5, <2>4 DEF Trim, a, b
  <2> QED BY <2>2, <2>3, <2>5 DEF I, a, b
<1> QED BY <1>4, <1>5

LEMMA TrimType ==
  ASSUME NEW s \in Strings
  PROVE  Trim(s) \in Strings
<1>1. Len(s) \in Nat /\ Printed(s) \subseteq 1 .. Len(s)
  BY SMT DEF Strings, Printed
<1>2. CASE Trim(s) = <<>>
  BY <1>2, EmptySeq DEF Strings
<1>3. ASSUME NEW a \in 1 .. Len(s), NEW b \in 1 .. Len(s), Trim(s) = SubSeq(s, a, b) PROVE Trim(s) \in Strings
  <2>1. \A i \in a .. b : s[i] \in Char
    BY <1>1, SMT DEF Strings
  <2>2. a \in Int /\ b \in Int
    BY <1>1
  <2> QED BY <1>3, <2>1, <2>2, SubSeqProperties DEF Strings
<1> QED BY <1>1, <1>2, <1>3, TrimIs

ScanType == [array : Seq(Strings), sub_str : Strings, in_quotes : BOOLEAN, skips : BOOLEAN]

LEMMA EmptyStrings == <<>> \in Strings /\ <<>> \in Seq(Strings)
BY EmptySeq DEF Strings

LEMMA ScanTyped ==
  ASSUME NEW scan \in ScanType, NEW c \in Char
  PROVE  Scan(scan, c) \in ScanType
<1> DEFINE a == scan.array
           t == scan.sub_str
           toggled == IF c = Quote THEN ~scan.in_quotes ELSE scan.in_quotes
<1>1. a \in Seq(Strings) /\ t \in Strings /\ scan.in_quotes \in BOOLEAN
  BY DEF ScanType
<1>2. Append(a, Unquoted(t)) \in Seq(Strings)
  BY <1>1, UnquotedType, AppendProperties
<1>3. Append(t, c) \in Strings
  BY <1>1, AppendProperties DEF Strings
<1>4. <<c>> \in Strings
  BY SMT DEF Strings
<1>5. toggled \in BOOLEAN
  BY <1>1
<1>6. CASE IsWhite(c) /\ scan.skips
  BY <1>6 DEF Scan
<1>7. CASE ~(IsWhite(c) /\ scan.skips) /\ IsWhite(c) /\ ~scan.in_quotes
  <2>1. Scan(scan, c) = [scan EXCEPT !.array = Append(a, Unquoted(t)), !.skips = TRUE]
    BY <1>7 DEF Scan
  <2> QED BY <1>2, <2>1 DEF ScanType
<1>8. CASE ~(IsWhite(c) /\ scan.skips) /\ ~(IsWhite(c) /\ ~scan.in_quotes)
  <2> DEFINE u == IF scan.skips THEN <<c>> ELSE Append(t, c)
  <2>1. Scan(scan, c) = [scan EXCEPT !.sub_str = u, !.in_quotes = toggled, !.skips = FALSE]
    BY <1>8 DEF Scan
  <2>2. u \in Strings
    BY <1>3, <1>4
  <2> HIDE DEF u, toggled
  <2> QED BY <1>5, <2>1, <2>2 DEF ScanType
<1> QED BY <1>6, <1>7, <1>8, Zenon

LEMMA SplitType ==
  ASSUME NEW text \in Strings
  PROVE  Split(text) \in Seq(Strings)
<1> DEFINE s == Trim(text)
           n == Len(s)
<1>1. s \in Strings
  BY TrimType
<1> HIDE DEF s
<1>2. n \in Nat /\ DOMAIN s = 1 .. n /\ \A i \in 1 .. n : s[i] \in Char
  BY <1>1, SMT DEF Strings
<1> HIDE DEF n
<1>3. PICK f : /\ f[0] = Start
               /\ \A i \in 1 .. n : f[i] = Scan(f[i - 1], s[i])
               /\ FoldLeft(Scan, Start, s) = f[n]
  BY <1>2, ScanRuns
<1> DEFINE P == {i \in Nat : i <= n => f[i] \in ScanType}
<1>4. 0 \in P
  <2>1. Start \in ScanType
    BY EmptyStrings DEF Start, ScanType
  <2> QED BY <1>3, <2>1
<1>5. ASSUME NEW i \in Nat, i \in P PROVE i + 1 \in P
  <2> SUFFICES ASSUME i + 1 <= n PROVE f[i + 1] \in ScanType
    OBVIOUS
  <2>1. i + 1 \in 1 .. n /\ (i + 1) - 1 = i /\ i <= n
    BY <1>2
  <2>2. f[i] \in ScanType
    BY <1>5, <2>1
  <2>3. f[i + 1] = Scan(f[i], s[i + 1])
    BY <1>3, <2>1
  <2> QED BY <1>2, <2>1, <2>2, <2>3, ScanTyped
<1> HIDE DEF P
<1>6. n \in P
  BY <1>2, <1>4, <1>5, SetInduction
<1> USE DEF P
<1>7. f[n] \in ScanType
  BY <1>2, <1>6
<1>8. Split(text) = Append(f[n].array, Unquoted(f[n].sub_str))
  BY <1>3 DEF Split, Start, s
<1>9. f[n].array \in Seq(Strings) /\ f[n].sub_str \in Strings
  BY <1>7 DEF ScanType
<1> QED BY <1>8, <1>9, UnquotedType, AppendProperties

LEMMA WhitesCounted ==
  ASSUME NEW arg, Len(arg) \in Nat
  PROVE  /\ Whites(arg) \in Nat
         /\ IsFiniteSet({i \in 1 .. Len(arg) : IsWhite(arg[i])})
<1> DEFINE W == {i \in 1 .. Len(arg) : IsWhite(arg[i])}
           n == Len(arg)
<1> HIDE DEF n
<1>1. IsFiniteSet(1 .. n)
  <2>1. 1 \in Int /\ n \in Int
    BY DEF n
  <2> QED BY <2>1, FS_Interval
<1>2. W \subseteq 1 .. n
  BY DEF n
<1> HIDE DEF W
<1>3. IsFiniteSet(W)
  BY <1>1, <1>2, FS_Subset
<1>4. Cardinality(W) \in Nat
  BY <1>3, FS_CardinalityType
<1> QED BY <1>3, <1>4 DEF Whites, W

LEMMA JoinedType ==
  ASSUME NEW arg \in Strings
  PROVE  Joined(arg) \in Strings
<1> DEFINE m == Whites(arg)
           opened == [i \in 1 .. m |-> Quote]
           closed == IF opened = <<>> THEN <<>> ELSE <<Quote>>
<1>1. Len(arg) \in Nat
  BY SMT DEF Strings
<1>2. m \in Nat
  BY <1>1, WhitesCounted
<1>3. Quote \in Char
  BY CmdAssumption
<1>4. opened \in Strings
  <2> HIDE DEF m
  <2> QED BY <1>2, <1>3, SMT DEF Strings
<1>5. closed \in Strings
  <2>1. <<Quote>> \in Strings
    BY <1>3, SMT DEF Strings
  <2> QED BY <2>1, EmptyStrings
<1>6. Joined(arg) = opened \o arg \o closed
  BY DEF Joined
<1> HIDE DEF opened, closed
<1> QED BY <1>4, <1>5, <1>6, ConcatProperties DEF Strings

LEMMA JoinType ==
  ASSUME NEW args \in Seq(Strings)
  PROVE  Join(args) \in Strings
<1> DEFINE n == Len(args)
           part(i) == Joined(args[i]) \o (IF i < n THEN <<" ">> ELSE <<>>)
           parts == [i \in 1 .. n |-> part(i)]
<1>1. n \in Nat /\ \A i \in 1 .. n : args[i] \in Strings
  BY SMT
<1>2. ASSUME NEW i \in 1 .. n PROVE part(i) \in Strings
  <2> DEFINE gap == IF i < n THEN <<" ">> ELSE <<>>
  <2>1. " " \in Char
    BY CmdAssumption DEF White
  <2>2. <<" ">> \in Strings
    <3> DEFINE space == " "
    <3> HIDE DEF space
    <3>1. <<space>> \in Seq(Char)
      <4>1. space \in Char
        BY <2>1 DEF space
      <4> QED BY <4>1, SMT
    <3> QED BY <3>1 DEF Strings, space
  <2>3. gap \in Strings
    BY <2>2, EmptyStrings
  <2>4. Joined(args[i]) \in Strings
    BY <1>1, JoinedType
  <2> HIDE DEF gap
  <2>5. Joined(args[i]) \o gap \in Strings
    BY <2>3, <2>4, ConcatProperties DEF Strings
  <2> QED BY <2>5 DEF gap
<1>3. parts \in [1 .. n -> Strings]
  <2> HIDE DEF part
  <2> QED BY <1>2
<1>4. Join(args) = FlattenSeq(parts)
  BY DEF Join
<1> HIDE DEF parts, n
<1>5. parts \in Seq(Strings)
  BY <1>1, <1>3, SMT
<1> QED BY <1>4, <1>5, FlattenRange DEF Strings

-----------------------------------------------------------------------------
(* What is done with a command line.                                       *)
CmdSpec == CmdInit /\ [][CmdNext]_cmdVars

LEMMA CmdTypeInit == CmdInit => CmdTypeOK
<1> SUFFICES ASSUME CmdInit PROVE CmdTypeOK
  OBVIOUS
<1>1. CASE mzCmdLineText \in Texts /\ mArguments = Split(mzCmdLineText)
  <2>1. mzCmdLineText \in Strings
    BY <1>1, CmdAssumption DEF Strings
  <2> DEFINE text == mzCmdLineText
  <2> HIDE DEF text
  <2>2. Split(text) \in Seq(Strings)
    BY <2>1, SplitType DEF text
  <2> QED BY <1>1, <2>1, <2>2 DEF CmdInit, CmdTypeOK, text, Strings
<1>2. CASE mArguments \in ArgLists /\ mzCmdLineText = Join(mArguments)
  <2>1. mArguments \in Seq(Strings)
    BY <1>2, CmdAssumption DEF Strings
  <2> DEFINE args == mArguments
  <2> HIDE DEF args
  <2>2. Join(args) \in Strings
    BY <2>1, JoinType DEF args
  <2> QED BY <1>2, <2>1, <2>2 DEF CmdInit, CmdTypeOK, args, Strings
<1> QED BY <1>1, <1>2 DEF CmdInit

LEMMA Parts ==
  ASSUME NEW S, NEW s \in Seq(S), NEW a \in Int, NEW b \in Int, 1 <= a, b <= Len(s)
  PROVE  SubSeq(s, a, b) \in Seq(S)
<1>1. \A i \in a .. b : s[i] \in S
  <2>1. Len(s) \in Nat
    BY SMT
  <2>2. \A i \in a .. b : i \in 1 .. Len(s)
    BY <2>1
  <2> QED BY <2>2, ElementOfSeq
<1> QED BY <1>1, SubSeqProperties

LEMMA InsertedType ==
  ASSUME NEW args \in Seq(Strings), NEW arg \in Strings, NEW at \in 1 .. Len(args) + 1
  PROVE  InsertAt(args, at, arg) \in Seq(Strings)
<1>1. Len(args) \in Nat /\ at \in Int /\ at - 1 \in Int /\ 1 <= at /\ at - 1 <= Len(args)
  BY SMT
<1>2. SubSeq(args, 1, at - 1) \in Seq(Strings) /\ SubSeq(args, at, Len(args)) \in Seq(Strings)
  BY <1>1, Parts
<1>3. <<arg>> \in Seq(Strings)
  BY SMT
<1>4. SubSeq(args, 1, at - 1) \o <<arg>> \in Seq(Strings)
  BY <1>2, <1>3, ConcatProperties
<1> QED BY <1>2, <1>4, ConcatProperties DEF InsertAt

LEMMA RemovedType ==
  ASSUME NEW args \in Seq(Strings), NEW at \in 1 .. Len(args)
  PROVE  RemoveAt(args, at) \in Seq(Strings)
<1>1. Len(args) \in Nat /\ at - 1 \in Int /\ at + 1 \in Int /\ 1 <= at + 1 /\ at - 1 <= Len(args)
  BY SMT
<1>2. SubSeq(args, 1, at - 1) \in Seq(Strings) /\ SubSeq(args, at + 1, Len(args)) \in Seq(Strings)
  BY <1>1, Parts
<1> QED BY <1>2, ConcatProperties DEF RemoveAt

LEMMA CmdTypeStep == CmdTypeOK /\ [CmdNext]_cmdVars => CmdTypeOK'
<1> SUFFICES ASSUME CmdTypeOK, [CmdNext]_cmdVars PROVE CmdTypeOK'
  OBVIOUS
<1> DEFINE args == mArguments
           new == mArguments'
           n == Len(args)
<1>1. args \in Seq(Strings) /\ n \in Nat
  BY SMT DEF CmdTypeOK, Strings
<1>2. ASSUME new \in Seq(Strings), mzCmdLineText' = Join(new), undefined' \in BOOLEAN
      PROVE  CmdTypeOK'
  <2> HIDE DEF new
  <2>1. Join(new) \in Strings
    BY <1>2, JoinType
  <2> QED BY <1>2, <2>1 DEF CmdTypeOK, Strings, new
<1> HIDE DEF args, n
<1>3. ASSUME NEW arg \in Inserted, NEW index \in -1 .. MaxArgs, InsertArgument(arg, index)
      PROVE  CmdTypeOK'
  <2> DEFINE at == IF index < 0 THEN 0 ELSE IF index < n THEN index ELSE n
  <2>1. new = InsertAt(args, at + 1, arg)
    BY <1>3 DEF InsertArgument, args, n
  <2>2. at + 1 \in 1 .. n + 1
    BY <1>1, CmdAssumption, SMT
  <2> HIDE DEF at
  <2>3. arg \in Strings
    BY CmdAssumption DEF Strings
  <2>4. new \in Seq(Strings)
    <3> DEFINE place == at + 1
    <3>1. place \in 1 .. Len(args) + 1
      BY <2>2 DEF n
    <3> HIDE DEF place
    <3>2. InsertAt(args, place, arg) \in Seq(Strings)
      BY <1>1, <2>3, <3>1, InsertedType
    <3> QED BY <2>1, <3>2 DEF place
  <2> QED BY <1>2, <1>3, <2>4 DEF InsertArgument, CmdTypeOK
<1>4. ASSUME NEW index \in -1 .. MaxArgs, EraseArgument(index)
      PROVE  CmdTypeOK'
  <2>1. CASE 0 <= index /\ index < n
    <3> DEFINE place == index + 1
    <3>1. place \in 1 .. n
      BY <1>1, <2>1, CmdAssumption, SMT
    <3>2. new = RemoveAt(args, place)
      BY <1>4, <2>1 DEF EraseArgument, args, n
    <3> HIDE DEF place
    <3>3. new \in Seq(Strings)
      BY <1>1, <3>1, <3>2, RemovedType DEF n
    <3> QED BY <1>2, <1>4, <3>3 DEF EraseArgument
  <2>2. CASE ~(0 <= index /\ index < n)
    <3>1. new = SubSeq(args, 1, n - 1)
      BY <1>4, <2>2 DEF EraseArgument, args, n
    <3>2. n - 1 \in Int /\ n - 1 <= Len(args) /\ 1 \in Int /\ 1 <= 1
      BY <1>1, SMT DEF n
    <3>3. new \in Seq(Strings)
      BY <1>1, <3>1, <3>2, Parts
    <3> QED BY <1>2, <1>4, <3>3 DEF EraseArgument
  <2> QED BY <2>1, <2>2
<1>5. CASE UNCHANGED cmdVars
  BY <1>5 DEF CmdTypeOK, cmdVars
<1> QED BY <1>3, <1>4, <1>5 DEF CmdNext

(* Text and arguments stay strings whatever is inserted and erased.        *)
THEOREM CmdType == CmdSpec => []CmdTypeOK
BY CmdTypeInit, CmdTypeStep, PTL DEF CmdSpec

(* What the questions of rzcmdline.cpp answer about switches and arguments,*)
(* and where they disagree.                                                *)
THEOREM SwitchAnswersHold == CmdSpec => []SwitchAnswers
BY CmdType, AnswersHold, PTL

-----------------------------------------------------------------------------
(* What ends an argument, and what the scan does there.                    *)
Quotes(s, i) == {j \in 1 .. i : s[j] = Quote}

LEMMA QuotesCounted ==
  ASSUME NEW s, NEW i \in Nat
  PROVE  /\ Cardinality(Quotes(s, i)) \in Nat /\ IsFiniteSet(Quotes(s, i))
         /\ Cardinality(Quotes(s, i + 1)) =
              Cardinality(Quotes(s, i)) + (IF s[i + 1] = Quote THEN 1 ELSE 0)
<1>1. IsFiniteSet(1 .. i)
  <2>1. 1 \in Int /\ i \in Int
    OBVIOUS
  <2> QED BY <2>1, FS_Interval
<1>2. IsFiniteSet(Quotes(s, i))
  <2>1. Quotes(s, i) \subseteq 1 .. i
    BY DEF Quotes
  <2> QED BY <1>1, <2>1, FS_Subset
<1>3. Cardinality(Quotes(s, i)) \in Nat
  BY <1>2, FS_CardinalityType
<1>4. CASE s[i + 1] = Quote
  <2>1. Quotes(s, i + 1) = Quotes(s, i) \cup {i + 1} /\ i + 1 \notin Quotes(s, i)
    BY <1>4 DEF Quotes
  <2>2. Cardinality(Quotes(s, i) \cup {i + 1}) = Cardinality(Quotes(s, i)) + 1
    BY <1>2, <2>1, FS_AddElement
  <2> QED BY <1>2, <1>3, <1>4, <2>1, <2>2
<1>5. CASE s[i + 1] # Quote
  <2>1. Quotes(s, i + 1) = Quotes(s, i)
    BY <1>5 DEF Quotes
  <2> QED BY <1>2, <1>3, <1>5, <2>1
<1> QED BY <1>4, <1>5

LEMMA QuoteIsNoWhite == ~IsWhite(Quote)
BY Zenon DEF IsWhite, White, Quote

(* The state of the scan after i characters of s.                          *)
Scanned(s, scan, i) ==
  /\ scan \in ScanType
  /\ scan.in_quotes <=> Cardinality(Quotes(s, i)) % 2 = 1
  /\ scan.skips <=> i # 0 /\ Outside(s, i)
  /\ scan.skips => ~scan.in_quotes

LEMMA ScanStep ==
  ASSUME NEW s \in Strings, NEW i \in Nat, i + 1 \in 1 .. Len(s), NEW scan, Scanned(s, scan, i)
  PROVE  LET next == Scan(scan, s[i + 1])
         IN  /\ Scanned(s, next, i + 1)
             /\ Outside(s, i + 1) /\ scan.skips => next = scan
             /\ Outside(s, i + 1) /\ ~scan.skips => next.array = Append(scan.array, Unquoted(scan.sub_str))
             /\ ~Outside(s, i + 1) =>
                  /\ next.array = scan.array
                  /\ next.sub_str = IF scan.skips THEN <<s[i + 1]>> ELSE Append(scan.sub_str, s[i + 1])
<1> DEFINE c == s[i + 1]
           next == Scan(scan, c)
           count == Cardinality(Quotes(s, i))
           later == Cardinality(Quotes(s, i + 1))
           out == Outside(s, i + 1)
<1>1. c \in Char
  BY SMT DEF Strings
<1>2. /\ scan \in ScanType
      /\ scan.in_quotes <=> count % 2 = 1
      /\ scan.skips => ~scan.in_quotes
  BY DEF Scanned
<1>3. count \in Nat /\ later = count + (IF c = Quote THEN 1 ELSE 0)
  BY QuotesCounted
<1>4. out <=> IsWhite(c) /\ later % 2 = 0
  BY DEF Outside, Quotes
<1>5. i + 1 # 0
  OBVIOUS
<1> HIDE DEF c, count, later, out
<1>6. count % 2 \in {0, 1}
  BY <1>3
<1>7. c = Quote => (later % 2 = 1 <=> count % 2 = 0)
  BY <1>3
<1>8. c # Quote => later = count
  BY <1>3
<1>9. out <=> IsWhite(c) /\ ~scan.in_quotes
  <2>1. IsWhite(c) => later = count
    BY <1>8, QuoteIsNoWhite, Zenon
  <2>2. later = count => (later % 2 = 0 <=> ~scan.in_quotes)
    BY <1>2, <1>6
  <2> QED BY <1>4, <2>1, <2>2, Zenon
<1>10. next \in ScanType
  BY <1>1, <1>2, ScanTyped
<1> DEFINE toggled == IF c = Quote THEN ~scan.in_quotes ELSE scan.in_quotes
<1>11. scan.in_quotes \in BOOLEAN /\ scan.skips \in BOOLEAN
  BY <1>2 DEF ScanType
<1>12. toggled \in BOOLEAN /\ (toggled <=> later % 2 = 1)
  <2>1. CASE c = Quote
    <3>1. toggled <=> ~scan.in_quotes
      BY <2>1
    <3>2. count % 2 = 0 <=> ~scan.in_quotes
      BY <1>2, <1>6
    <3>3. toggled \in BOOLEAN
      BY <1>11, <2>1
    <3> HIDE DEF toggled
    <3> QED BY <1>7, <2>1, <3>1, <3>2, <3>3, Zenon
  <2>2. CASE c # Quote
    <3>1. toggled = scan.in_quotes
      BY <2>2
    <3> HIDE DEF toggled
    <3> QED BY <1>2, <1>8, <1>11, <2>2, <3>1
  <2> QED BY <2>1, <2>2
<1> HIDE DEF toggled
<1>13. IsWhite(c) => (toggled <=> scan.in_quotes)
  <2>1. IsWhite(c) => later = count
    BY <1>8, QuoteIsNoWhite, Zenon
  <2>2. later = count => (later % 2 = 1 <=> scan.in_quotes)
    BY <1>2
  <2> QED BY <1>12, <2>1, <2>2, Zenon
<1>14. Scanned(s, next, i + 1) <=>
         /\ next.in_quotes <=> later % 2 = 1
         /\ next.skips <=> out
         /\ next.skips => ~next.in_quotes
  BY <1>5, <1>10 DEF Scanned, later, out
<1>15. CASE out /\ scan.skips
  <2>1. next = scan
    BY <1>9, <1>15 DEF Scan
  <2>2. next.in_quotes <=> later % 2 = 1
    BY <1>2, <1>9, <1>12, <1>13, <1>15, <2>1
  <2> QED BY <1>2, <1>14, <1>15, <2>1, <2>2 DEF out, c
<1>16. CASE out /\ ~scan.skips
  <2>1. next = [scan EXCEPT !.array = Append(@, Unquoted(scan.sub_str)), !.skips = TRUE]
    BY <1>9, <1>16 DEF Scan
  <2>2. /\ next.array = Append(scan.array, Unquoted(scan.sub_str))
        /\ next.skips = TRUE /\ next.in_quotes = scan.in_quotes
    BY <1>2, <2>1 DEF ScanType
  <2>3. next.in_quotes <=> later % 2 = 1
    BY <1>9, <1>12, <1>13, <1>16, <2>2
  <2> HIDE DEF next
  <2> QED BY <1>9, <1>14, <1>16, <2>2, <2>3 DEF out, c, next
<1>17. CASE ~out
  <2> DEFINE u == IF scan.skips THEN <<c>> ELSE Append(scan.sub_str, c)
  <2>1. ~(IsWhite(c) /\ scan.skips) /\ ~(IsWhite(c) /\ ~scan.in_quotes)
    BY <1>2, <1>9, <1>17
  <2>2. next = [scan EXCEPT !.sub_str = u, !.in_quotes = toggled, !.skips = FALSE]
    BY <2>1 DEF Scan, toggled
  <2> HIDE DEF u
  <2>3. /\ next.array = scan.array /\ next.sub_str = u
        /\ next.skips = FALSE /\ next.in_quotes = toggled
    BY <1>2, <2>2 DEF ScanType
  <2> HIDE DEF next
  <2> QED BY <1>12, <1>14, <1>17, <2>3 DEF out, c, next, u
<1> QED BY <1>15, <1>16, <1>17

(* The pieces of a text that end before a place, and how many pieces begin *)
(* where one does or before.                                               *)
Closed(text, i) == {p \in Pieces(text) : p[2] < i}

Turn(text, p) == Cardinality({q \in Pieces(text) : q[1] <= p[1]})

LEMMA PieceIs ==
  ASSUME NEW text \in Strings, NEW p \in Pieces(text)
  PROVE  /\ Len(text) \in Nat
         /\ p = <<p[1], p[2]>> /\ p[1] \in 1 .. Len(text) /\ p[2] \in 1 .. Len(text)
         /\ p[1] <= p[2]
         /\ \A i \in p[1] .. p[2] : ~Outside(text, i)
         /\ p[1] = 1 \/ Outside(text, p[1] - 1)
         /\ p[2] = Len(text) \/ Outside(text, p[2] + 1)
<1>1. Len(text) \in Nat
  BY SMT DEF Strings
<1>2. p \in (1 .. Len(text)) \X (1 .. Len(text))
  BY Zenon DEF Pieces
<1>3. p = <<p[1], p[2]>> /\ p[1] \in 1 .. Len(text) /\ p[2] \in 1 .. Len(text)
  BY <1>2
<1> QED BY <1>1, <1>3, Zenon DEF Pieces

LEMMA PiecesFinite ==
  ASSUME NEW text \in Strings, NEW T, T \subseteq Pieces(text)
  PROVE  IsFiniteSet(T) /\ Cardinality(T) \in Nat
<1> DEFINE N == 1 .. Len(text)
<1>1. IsFiniteSet(N)
  <2>1. 1 \in Int /\ Len(text) \in Int
    BY SMT DEF Strings
  <2> QED BY <2>1, FS_Interval
<1>2. Pieces(text) \subseteq N \X N
  BY Zenon DEF Pieces
<1> HIDE DEF N
<1>3. IsFiniteSet(N \X N)
  BY <1>1, FS_Product
<1>4. IsFiniteSet(T)
  BY <1>2, <1>3, FS_Subset
<1> QED BY <1>4, FS_CardinalityType

(* A piece that is open from a on and ends at i is the next one.           *)
LEMMA PieceEnds ==
  ASSUME NEW text \in Strings, NEW i \in 1 .. Len(text), NEW a \in 1 .. i,
         a = 1 \/ Outside(text, a - 1),
         \A j \in a .. i : ~Outside(text, j),
         i = Len(text) \/ Outside(text, i + 1)
  PROVE  /\ <<a, i>> \in Pieces(text) /\ <<a, i>> \notin Closed(text, i)
         /\ Closed(text, i + 1) = Closed(text, i) \cup {<<a, i>>}
         /\ Cardinality(Closed(text, i + 1)) = Cardinality(Closed(text, i)) + 1
         /\ Turn(text, <<a, i>>) = Cardinality(Closed(text, i)) + 1
<1> DEFINE new == <<a, i>>
           n == Len(text)
<1>1. n \in Nat
  BY SMT DEF Strings
<1>2. i \in Nat /\ a \in Nat /\ 1 <= a /\ a <= i /\ i <= n /\ a \in 1 .. n /\ i \in 1 .. n
  BY <1>1
<1>3. new \in Pieces(text)
  BY <1>2 DEF Pieces
<1>4. new[1] = a /\ new[2] = i
  OBVIOUS
<1> HIDE DEF new
<1>5. new \notin Closed(text, i) /\ new \in Closed(text, i + 1)
  BY <1>2, <1>3, <1>4 DEF Closed
<1>6. ASSUME NEW q \in Pieces(text)
      PROVE  /\ q[1] \in Nat /\ q[2] \in Nat
             /\ q[1] <= a <=> q[2] <= i
             /\ q[2] = i => q = new
  <2>1. /\ q = <<q[1], q[2]>> /\ q[1] \in 1 .. n /\ q[2] \in 1 .. n /\ q[1] <= q[2]
        /\ \A j \in q[1] .. q[2] : ~Outside(text, j)
        /\ q[1] = 1 \/ Outside(text, q[1] - 1)
        /\ q[2] = n \/ Outside(text, q[2] + 1)
    BY PieceIs
  <2> DEFINE b == q[1]
             e == q[2]
  <2>2. b \in Nat /\ e \in Nat /\ 1 <= b /\ b <= e /\ e <= n
    BY <1>1, <2>1
  <2> HIDE DEF b, e
  <2>3. ASSUME b <= a, e > i PROVE FALSE
    <3>1. i + 1 \in b .. e /\ i # n
      BY <1>1, <1>2, <2>2, <2>3
    <3> QED BY <2>1, <3>1 DEF b, e
  <2>4. ASSUME e <= i, b > a PROVE FALSE
    <3>1. b - 1 \in a .. i /\ b # 1
      BY <1>2, <2>2, <2>4
    <3> QED BY <2>1, <3>1 DEF b
  <2>5. ASSUME e = i, b < a PROVE FALSE
    <3>1. a - 1 \in b .. e /\ a # 1
      BY <1>2, <2>2, <2>5
    <3> QED BY <2>1, <3>1 DEF b, e
  <2>6. b <= a <=> e <= i
    BY <1>2, <2>2, <2>3, <2>4
  <2>7. e = i => b = a
    BY <1>2, <2>2, <2>4, <2>5
  <2>8. e = i => q = new
    BY <2>1, <2>7 DEF b, e, new
  <2> QED BY <2>2, <2>6, <2>8 DEF b, e
<1>7. Closed(text, i + 1) = Closed(text, i) \cup {new}
  <2>1. ASSUME NEW q \in Closed(text, i + 1) PROVE q \in Closed(text, i) \cup {new}
    <3>1. q \in Pieces(text) /\ q[2] < i + 1
      BY <2>1 DEF Closed
    <3>2. q[2] < i \/ q[2] = i
      BY <1>2, <1>6, <3>1
    <3> QED BY <1>6, <3>1, <3>2 DEF Closed
  <2>2. ASSUME NEW q \in Closed(text, i) PROVE q \in Closed(text, i + 1)
    <3>1. q \in Pieces(text) /\ q[2] < i
      BY <2>2 DEF Closed
    <3>2. q[2] < i + 1
      BY <1>2, <1>6, <3>1
    <3> QED BY <3>1, <3>2 DEF Closed
  <2> QED BY <1>5, <2>1, <2>2
<1>8. {q \in Pieces(text) : q[1] <= new[1]} = Closed(text, i + 1)
  <2>1. ASSUME NEW q \in Pieces(text) PROVE q[1] <= a <=> q[2] < i + 1
    BY <1>2, <1>6
  <2> QED BY <1>4, <2>1, Zenon DEF Closed
<1>9. Closed(text, i) \subseteq Pieces(text)
  BY DEF Closed
<1>10. IsFiniteSet(Closed(text, i))
  BY <1>9, PiecesFinite
<1>11. Cardinality(Closed(text, i) \cup {new}) = Cardinality(Closed(text, i)) + 1
  BY <1>5, <1>10, FS_AddElement
<1>12. Turn(text, new) = Cardinality(Closed(text, i + 1))
  BY <1>8 DEF Turn
<1> QED BY <1>3, <1>5, <1>7, <1>11, <1>12 DEF new

(* Elsewhere no piece ends.                                                *)
LEMMA NoPieceEnds ==
  ASSUME NEW text \in Strings, NEW i \in 1 .. Len(text), i # Len(text),
         Outside(text, i) \/ ~Outside(text, i + 1)
  PROVE  Closed(text, i + 1) = Closed(text, i)
<1>1. ASSUME NEW q \in Pieces(text) PROVE q[2] < i + 1 <=> q[2] < i
  <2>1. q[1] \in Nat /\ q[2] \in Nat /\ q[1] <= q[2] /\ i \in Nat
    BY PieceIs
  <2>2. q[2] # i
    <3> SUFFICES ASSUME q[2] = i PROVE FALSE
      OBVIOUS
    <3>1. i \in q[1] .. q[2]
      BY <2>1
    <3> QED BY <3>1, PieceIs
  <2> QED BY <2>1, <2>2
<1> QED BY <1>1, Zenon DEF Closed

(* What the scan of a text has made of its first i characters: the pieces  *)
(* that ended, each at its turn, and the beginning of the open one.        *)
Done(text, array, i) ==
  /\ Len(array) = Cardinality(Closed(text, i))
  /\ \A p \in Closed(text, i) :
       /\ Turn(text, p) \in 1 .. Len(array)
       /\ array[Turn(text, p)] = Unquoted(SubSeq(text, p[1], p[2]))

Open(text, sub_str, i) ==
  \E a \in 1 .. i :
    /\ a = 1 \/ Outside(text, a - 1)
    /\ \A j \in a .. i : ~Outside(text, j)
    /\ sub_str = SubSeq(text, a, i)

Follows(text, scan, i) ==
  /\ Scanned(text, scan, i)
  /\ Done(text, scan.array, i)
  /\ ~Outside(text, i) => Open(text, scan.sub_str, i)

LEMMA DoneMore ==
  ASSUME NEW text \in Strings, NEW i \in 1 .. Len(text), NEW array \in Seq(Strings), NEW sub_str \in Strings,
         Done(text, array, i), Open(text, sub_str, i),
         i = Len(text) \/ Outside(text, i + 1)
  PROVE  Done(text, Append(array, Unquoted(sub_str)), i + 1)
<1> DEFINE e == Unquoted(sub_str)
           more == Append(array, e)
           m == Len(array)
<1>1. PICK a \in 1 .. i : /\ a = 1 \/ Outside(text, a - 1)
                          /\ \A j \in a .. i : ~Outside(text, j)
                          /\ sub_str = SubSeq(text, a, i)
  BY DEF Open
<1> DEFINE new == <<a, i>>
<1>2. /\ Closed(text, i + 1) = Closed(text, i) \cup {new}
      /\ Cardinality(Closed(text, i + 1)) = Cardinality(Closed(text, i)) + 1
      /\ Turn(text, new) = Cardinality(Closed(text, i)) + 1
  BY <1>1, PieceEnds
<1>3. new[1] = a /\ new[2] = i
  OBVIOUS
<1>4. e \in Strings
  BY UnquotedType
<1> HIDE DEF e
<1>5. m \in Nat /\ Len(more) = m + 1 /\ more[m + 1] = e /\ \A k \in 1 .. m : more[k] = array[k]
  BY <1>4
<1> HIDE DEF more, new, m
<1>6. /\ m = Cardinality(Closed(text, i))
      /\ \A p \in Closed(text, i) :
           /\ Turn(text, p) \in 1 .. m
           /\ array[Turn(text, p)] = Unquoted(SubSeq(text, p[1], p[2]))
  BY DEF Done, m
<1>7. Len(more) = Cardinality(Closed(text, i + 1))
  BY <1>2, <1>5, <1>6
<1>8. ASSUME NEW p \in Closed(text, i + 1)
      PROVE  Turn(text, p) \in 1 .. Len(more) /\ more[Turn(text, p)] = Unquoted(SubSeq(text, p[1], p[2]))
  <2>1. CASE p \in Closed(text, i)
    <3>1. Turn(text, p) \in 1 .. m /\ array[Turn(text, p)] = Unquoted(SubSeq(text, p[1], p[2]))
      BY <1>6, <2>1
    <3>2. Turn(text, p) \in 1 .. m + 1
      BY <1>5, <3>1
    <3> QED BY <1>5, <3>1, <3>2
  <2>2. CASE p = new
    <3>1. Turn(text, p) = m + 1
      BY <1>2, <1>6, <2>2
    <3>2. m + 1 \in 1 .. m + 1
      BY <1>5
    <3> QED BY <1>1, <1>3, <1>5, <2>2, <3>1, <3>2 DEF e
  <2> QED BY <1>2, <2>1, <2>2
<1> QED BY <1>7, <1>8 DEF Done, more, e

LEMMA OneCharacter ==
  ASSUME NEW text \in Strings, NEW i \in 1 .. Len(text)
  PROVE  SubSeq(text, i, i) = <<text[i]>> /\ SubSeq(text, i, i) \in Strings
<1> DEFINE one == SubSeq(text, i, i)
<1>1. i \in Int /\ \A j \in i .. i : text[j] \in Char
  BY SMT DEF Strings
<1>2. one \in Seq(Char) /\ Len(one) = (IF i <= i THEN i - i + 1 ELSE 0) /\ \A j \in 1 .. i - i + 1 : one[j] = text[i + j - 1]
  BY <1>1, SubSeqProperties
<1>3. i - i + 1 = 1 /\ i <= i /\ 1 \in 1 .. 1 /\ i + 1 - 1 = i
  BY <1>1
<1> HIDE DEF one
<1>4. Len(one) = 1 /\ one[1] = text[i]
  BY <1>2, <1>3
<1>5. one = <<text[i]>>
  BY <1>2, <1>4, SMT
<1> QED BY <1>2, <1>5 DEF one, Strings

LEMMA FollowsNext ==
  ASSUME NEW text \in Strings, NEW i \in 1 .. Len(text), i # Len(text), NEW scan, Follows(text, scan, i)
  PROVE  Follows(text, Scan(scan, text[i + 1]), i + 1)
<1> DEFINE next == Scan(scan, text[i + 1])
<1>1. i \in Nat /\ i + 1 \in 1 .. Len(text) /\ i # 0 /\ (i + 1) - 1 = i
  BY SMT DEF Strings
<1>2. /\ Scanned(text, scan, i) /\ Done(text, scan.array, i)
      /\ ~Outside(text, i) => Open(text, scan.sub_str, i)
  BY DEF Follows
<1>3. scan.array \in Seq(Strings) /\ scan.sub_str \in Strings /\ (scan.skips <=> Outside(text, i))
  BY <1>1, <1>2 DEF Scanned, ScanType
<1>4. /\ Scanned(text, next, i + 1)
      /\ Outside(text, i + 1) /\ scan.skips => next = scan
      /\ Outside(text, i + 1) /\ ~scan.skips => next.array = Append(scan.array, Unquoted(scan.sub_str))
      /\ ~Outside(text, i + 1) =>
           /\ next.array = scan.array
           /\ next.sub_str = IF scan.skips THEN <<text[i + 1]>> ELSE Append(scan.sub_str, text[i + 1])
  BY <1>1, <1>2, ScanStep
<1> HIDE DEF next
<1>5. Done(text, next.array, i + 1)
  <2>1. CASE Outside(text, i + 1) /\ ~Outside(text, i)
    BY <1>2, <1>3, <1>4, <2>1, DoneMore
  <2>2. CASE Outside(text, i) \/ ~Outside(text, i + 1)
    <3>1. Closed(text, i + 1) = Closed(text, i)
      BY <2>2, NoPieceEnds
    <3>2. next.array = scan.array
      BY <1>3, <1>4, <2>2
    <3> QED BY <1>2, <3>1, <3>2 DEF Done
  <2> QED BY <2>1, <2>2
<1>6. ASSUME ~Outside(text, i + 1) PROVE Open(text, next.sub_str, i + 1)
  <2>1. CASE Outside(text, i)
    <3>1. next.sub_str = <<text[i + 1]>>
      BY <1>3, <1>4, <1>6, <2>1
    <3>2. SubSeq(text, i + 1, i + 1) = <<text[i + 1]>>
      BY <1>1, OneCharacter
    <3>3. \A j \in i + 1 .. i + 1 : ~Outside(text, j)
      <4>1. \A j \in i + 1 .. i + 1 : j = i + 1
        BY <1>1
      <4> QED BY <1>6, <4>1, Zenon
    <3>4. i + 1 \in 1 .. i + 1
      BY <1>1
    <3> QED BY <1>1, <2>1, <3>1, <3>2, <3>3, <3>4 DEF Open
  <2>2. CASE ~Outside(text, i)
    <3>1. PICK a \in 1 .. i : /\ a = 1 \/ Outside(text, a - 1)
                              /\ \A j \in a .. i : ~Outside(text, j)
                              /\ scan.sub_str = SubSeq(text, a, i)
      BY <1>2, <2>2 DEF Open
    <3>2. next.sub_str = Append(SubSeq(text, a, i), text[i + 1])
      BY <1>3, <1>4, <1>6, <2>2, <3>1
    <3>3. SubSeq(text, a, i + 1) = Append(SubSeq(text, a, i), text[i + 1])
      BY <1>1, SMT DEF Strings
    <3>4. \A j \in a .. i + 1 : ~Outside(text, j)
      <4>1. \A j \in a .. i + 1 : j \in a .. i \/ j = i + 1
        BY <1>1
      <4> QED BY <1>6, <3>1, <4>1, Zenon
    <3>5. a \in 1 .. i + 1
      BY <1>1
    <3> QED BY <3>1, <3>2, <3>3, <3>4, <3>5, Zenon DEF Open
  <2> QED BY <2>1, <2>2
<1> QED BY <1>4, <1>5, <1>6 DEF Follows, next

LEMMA FollowsFirst ==
  ASSUME NEW text \in Strings, 1 \in 1 .. Len(text), ~IsWhite(text[1])
  PROVE  Follows(text, Scan(Start, text[1]), 1)
<1> DEFINE next == Scan(Start, text[1])
<1>1. ~Outside(text, 1)
  BY Zenon DEF Outside
<1>2. Quotes(text, 0) = {} /\ 0 + 1 = 1 /\ 0 \in Nat
  BY DEF Quotes
<1>3. Scanned(text, Start, 0)
  <2>1. Start \in ScanType /\ Start.in_quotes = FALSE /\ Start.skips = FALSE
    BY EmptyStrings DEF Start, ScanType
  <2>2. Cardinality(Quotes(text, 0)) = 0
    BY <1>2, FS_EmptySet
  <2> QED BY <2>1, <2>2 DEF Scanned
<1>4. /\ Scanned(text, next, 1) /\ next.array = Start.array
      /\ next.sub_str = IF Start.skips THEN <<text[1]>> ELSE Append(Start.sub_str, text[1])
  <2>1. 0 + 1 \in 1 .. Len(text)
    BY <1>2
  <2>2. /\ Scanned(text, Scan(Start, text[0 + 1]), 0 + 1)
        /\ ~Outside(text, 0 + 1) =>
             /\ Scan(Start, text[0 + 1]).array = Start.array
             /\ Scan(Start, text[0 + 1]).sub_str =
                  IF Start.skips THEN <<text[0 + 1]>> ELSE Append(Start.sub_str, text[0 + 1])
    BY <1>2, <1>3, <2>1, ScanStep
  <2> QED BY <1>1, <1>2, <2>2
<1> HIDE DEF next
<1>5. text[1] \in Char
  BY SMT DEF Strings
<1>6. next.array = <<>> /\ next.sub_str = <<text[1]>>
  BY <1>4, <1>5 DEF Start
<1>7. Closed(text, 1) = {}
  <2> SUFFICES ASSUME NEW p \in Closed(text, 1) PROVE FALSE
    OBVIOUS
  <2>1. p \in Pieces(text) /\ p[2] < 1
    BY DEF Closed
  <2>2. p[2] \in 1 .. Len(text)
    BY <2>1, PieceIs
  <2> QED BY <2>1, <2>2
<1>8. Done(text, next.array, 1)
  BY <1>6, <1>7, FS_EmptySet DEF Done
<1>9. Open(text, next.sub_str, 1)
  <2>1. SubSeq(text, 1, 1) = <<text[1]>>
    BY OneCharacter
  <2>2. 1 \in 1 .. 1 /\ \A j \in 1 .. 1 : j = 1
    OBVIOUS
  <2> QED BY <1>1, <1>6, <2>1, <2>2 DEF Open
<1> QED BY <1>4, <1>8, <1>9 DEF Follows, next

(* The text of a state split, in the words of the property.                *)
LEMMA SplitPieces ==
  ASSUME NEW s \in Strings, Trim(s) # <<>>
  PROVE  LET text == Trim(s)
         IN  Done(text, Split(s), Len(text) + 1) /\ Closed(text, Len(text) + 1) = Pieces(text)
<1> DEFINE text == Trim(s)
           n == Len(text)
<1>1. text \in Strings
  BY TrimType
<1>2. PICK a \in Printed(s), b \in Printed(s) :
        /\ \A i \in Printed(s) : a <= i /\ i <= b
        /\ text = SubSeq(s, a, b)
  BY TrimIs
<1>3. Len(s) \in Nat /\ a \in 1 .. Len(s) /\ b \in 1 .. Len(s) /\ a <= b
      /\ ~IsWhite(s[a]) /\ ~IsWhite(s[b])
  BY <1>2, SMT DEF Strings, Printed, IsPrinted, IsWhite
<1>4. n = b - a + 1 /\ text[1] = s[a] /\ text[n] = s[b]
  <2>1. \A i \in a .. b : s[i] \in Char
    BY <1>3, SMT DEF Strings
  <2>2. a \in Int /\ b \in Int
    BY <1>3
  <2>3. Len(SubSeq(s, a, b)) = b - a + 1 /\ \A i \in 1 .. b - a + 1 : SubSeq(s, a, b)[i] = s[a + i - 1]
    BY <1>3, SMT DEF Strings
  <2>4. 1 \in 1 .. b - a + 1 /\ b - a + 1 \in 1 .. b - a + 1 /\ a + 1 - 1 = a /\ a + (b - a + 1) - 1 = b
    BY <1>3
  <2> QED BY <1>2, <2>3, <2>4
<1> HIDE DEF text
<1>5. n \in Nat /\ n >= 1 /\ DOMAIN text = 1 .. n
  BY <1>1, <1>3, <1>4, SMT DEF Strings
<1> HIDE DEF n
<1>6. ~Outside(text, n)
  BY <1>3, <1>4, Zenon DEF Outside
<1>7. PICK f : /\ f[0] = Start
               /\ \A i \in 1 .. n : f[i] = Scan(f[i - 1], text[i])
               /\ FoldLeft(Scan, Start, text) = f[n]
  BY <1>5, ScanRuns
<1> DEFINE P == {i \in Nat : i + 1 <= n => Follows(text, f[i + 1], i + 1)}
<1>8. 0 \in P
  <2>1. 1 \in 1 .. Len(text) /\ 1 \in 1 .. n /\ 1 - 1 = 0 /\ 0 + 1 = 1
    BY <1>5 DEF n
  <2>2. f[1] = Scan(Start, text[1])
    BY <1>7, <2>1
  <2>3. Follows(text, Scan(Start, text[1]), 1)
    BY <1>1, <1>3, <1>4, <2>1, FollowsFirst
  <2> QED BY <2>1, <2>2, <2>3
<1>9. ASSUME NEW i \in Nat, i \in P PROVE i + 1 \in P
  <2> SUFFICES ASSUME (i + 1) + 1 <= n PROVE Follows(text, f[(i + 1) + 1], (i + 1) + 1)
    OBVIOUS
  <2> DEFINE k == i + 1
  <2>1. k \in 1 .. n /\ k # n /\ k + 1 \in 1 .. n /\ (k + 1) - 1 = k
    BY <1>5
  <2>2. Follows(text, f[k], k)
    BY <1>9, <2>1
  <2> HIDE DEF k
  <2>3. f[k + 1] = Scan(f[k], text[k + 1])
    BY <1>7, <2>1
  <2>4. Follows(text, f[k + 1], k + 1)
    BY <1>1, <2>1, <2>2, <2>3, FollowsNext DEF n
  <2> QED BY <2>4 DEF k
<1> HIDE DEF P
<1>10. n - 1 \in P
  <2>1. n - 1 \in Nat
    BY <1>5
  <2> QED BY <1>8, <1>9, <2>1, SetInduction
<1> USE DEF P
<1>11. Follows(text, f[n], n)
  <2>1. (n - 1) + 1 = n /\ n <= n
    BY <1>5
  <2> QED BY <1>10, <2>1
<1> HIDE DEF P
<1>12. Done(text, f[n].array, n) /\ Open(text, f[n].sub_str, n)
  BY <1>6, <1>11 DEF Follows
<1>13. f[n].array \in Seq(Strings) /\ f[n].sub_str \in Strings
  BY <1>11 DEF Follows, Scanned, ScanType
<1>14. Split(s) = Append(f[n].array, Unquoted(f[n].sub_str))
  BY <1>7 DEF Split, Start, text
<1>15. n \in 1 .. Len(text)
  BY <1>5 DEF n
<1>16. Done(text, Split(s), n + 1)
  BY <1>1, <1>12, <1>13, <1>14, <1>15, DoneMore DEF n
<1>17. Closed(text, n + 1) = Pieces(text)
  <2>1. ASSUME NEW p \in Pieces(text) PROVE p[2] < n + 1
    <3>1. p[2] \in 1 .. Len(text)
      BY <1>1, PieceIs
    <3> QED BY <1>5, <3>1 DEF n
  <2> QED BY <2>1 DEF Closed
<1> QED BY <1>16, <1>17 DEF text, n

(* The scan of ConvertStringArrayToString finds the longest pieces without *)
(* white space outside of quotes, all of them, in their order.             *)
THEOREM SplitsAtWhiteHolds == CmdSpec => []SplitsAtWhite
<1>1. CmdTypeOK => SplitsAtWhite
  <2> SUFFICES ASSUME CmdTypeOK, Trim(mzCmdLineText) # <<>>
               PROVE  /\ Len(Split(mzCmdLineText)) = Cardinality(Pieces(Trim(mzCmdLineText)))
                      /\ \A p \in Pieces(Trim(mzCmdLineText)) :
                           Split(mzCmdLineText)[Cardinality({q \in Pieces(Trim(mzCmdLineText)) : q[1] <= p[1]})]
                             = Unquoted(SubSeq(Trim(mzCmdLineText), p[1], p[2]))
    BY Zenon DEF SplitsAtWhite
  <2>1. mzCmdLineText \in Strings
    BY DEF CmdTypeOK, Strings
  <2>2. /\ Done(Trim(mzCmdLineText), Split(mzCmdLineText), Len(Trim(mzCmdLineText)) + 1)
        /\ Closed(Trim(mzCmdLineText), Len(Trim(mzCmdLineText)) + 1) = Pieces(Trim(mzCmdLineText))
    BY <2>1, SplitPieces
  <2> QED BY <2>2, Zenon DEF Done, Turn
<1> QED BY <1>1, CmdType, PTL

-----------------------------------------------------------------------------
(* White characters counted: of the beginning of a string, and of the      *)
(* first strings of a sequence.                                            *)
WhitesTo(s, i) == Cardinality({j \in 1 .. i : IsWhite(s[j])})

LEMMA WhitesToNext ==
  ASSUME NEW s, NEW i \in Nat
  PROVE  /\ WhitesTo(s, 0) = 0 /\ WhitesTo(s, i) \in Nat
         /\ WhitesTo(s, i + 1) = WhitesTo(s, i) + (IF IsWhite(s[i + 1]) THEN 1 ELSE 0)
<1> DEFINE W(k) == {j \in 1 .. k : IsWhite(s[j])}
<1>1. IsFiniteSet(1 .. i)
  <2>1. 1 \in Int /\ i \in Int
    OBVIOUS
  <2> QED BY <2>1, FS_Interval
<1>2. IsFiniteSet(W(i))
  <2>1. W(i) \subseteq 1 .. i
    OBVIOUS
  <2> QED BY <1>1, <2>1, FS_Subset
<1>3. Cardinality(W(i)) \in Nat
  BY <1>2, FS_CardinalityType
<1>4. Cardinality(W(0)) = 0
  <2>1. W(0) = {}
    OBVIOUS
  <2> QED BY <2>1, FS_EmptySet
<1>5. CASE IsWhite(s[i + 1])
  <2>1. W(i + 1) = W(i) \cup {i + 1} /\ i + 1 \notin W(i)
    BY <1>5
  <2>2. Cardinality(W(i) \cup {i + 1}) = Cardinality(W(i)) + 1
    BY <1>2, <2>1, FS_AddElement
  <2> HIDE DEF W
  <2> QED BY <1>3, <1>4, <1>5, <2>1, <2>2 DEF WhitesTo, W
<1>6. CASE ~IsWhite(s[i + 1])
  <2>1. W(i + 1) = W(i)
    BY <1>6
  <2> HIDE DEF W
  <2> QED BY <1>3, <1>4, <1>6, <2>1 DEF WhitesTo, W
<1> QED BY <1>5, <1>6

(* A string t that s has from place p + 1 on adds its own.                 *)
Goes(s, p, t, n) == \A j \in 1 .. n : s[p + j] = t[j]

LEMMA WhitesMoved ==
  \A s, t : \A p, n \in Nat :
     Goes(s, p, t, n) => WhitesTo(s, p + n) = WhitesTo(s, p) + WhitesTo(t, n)
<1> SUFFICES ASSUME NEW s, NEW t, NEW p \in Nat, NEW n \in Nat, Goes(s, p, t, n)
             PROVE  WhitesTo(s, p + n) = WhitesTo(s, p) + WhitesTo(t, n)
  OBVIOUS
<1> DEFINE P == {i \in Nat : i <= n => WhitesTo(s, p + i) = WhitesTo(s, p) + WhitesTo(t, i)}
<1>1. 0 \in P
  <2>1. WhitesTo(t, 0) = 0 /\ WhitesTo(s, p) \in Nat /\ p + 0 = p
    BY WhitesToNext
  <2> QED BY <2>1
<1>2. ASSUME NEW i \in Nat, i \in P PROVE i + 1 \in P
  <2> SUFFICES ASSUME i + 1 <= n PROVE WhitesTo(s, p + (i + 1)) = WhitesTo(s, p) + WhitesTo(t, i + 1)
    OBVIOUS
  <2> DEFINE k == p + i
             w == IF IsWhite(t[i + 1]) THEN 1 ELSE 0
  <2>1. k \in Nat /\ p + (i + 1) = k + 1 /\ i + 1 \in 1 .. n /\ i <= n
    OBVIOUS
  <2>2. WhitesTo(s, k) = WhitesTo(s, p) + WhitesTo(t, i)
    BY <1>2, <2>1
  <2>3. s[k + 1] = t[i + 1]
    <3>1. s[p + (i + 1)] = t[i + 1]
      BY <2>1 DEF Goes
    <3> QED BY <2>1, <3>1
  <2> HIDE DEF k
  <2>4. WhitesTo(s, k + 1) = WhitesTo(s, k) + (IF IsWhite(s[k + 1]) THEN 1 ELSE 0)
    BY <2>1, WhitesToNext
  <2>5. WhitesTo(s, k + 1) = WhitesTo(s, k) + w
    BY <2>3, <2>4
  <2>6. WhitesTo(t, i + 1) = WhitesTo(t, i) + w /\ WhitesTo(t, i) \in Nat
    BY WhitesToNext
  <2>7. WhitesTo(s, p) \in Nat /\ w \in Nat
    BY WhitesToNext
  <2> HIDE DEF w
  <2>8. WhitesTo(s, k + 1) = WhitesTo(s, p) + WhitesTo(t, i + 1)
    BY <2>2, <2>5, <2>6, <2>7
  <2> QED BY <2>1, <2>8
<1> HIDE DEF P
<1>3. n \in P
  BY <1>1, <1>2, SetInduction
<1> QED BY <1>3 DEF P

LEMMA WhitesAgree ==
  ASSUME NEW s, NEW t, NEW n \in Nat, \A j \in 1 .. n : s[j] = t[j]
  PROVE  WhitesTo(s, n) = WhitesTo(t, n)
<1>1. {j \in 1 .. n : IsWhite(s[j])} = {j \in 1 .. n : IsWhite(t[j])}
  OBVIOUS
<1> QED BY <1>1 DEF WhitesTo

LEMMA WhitesMore ==
  ASSUME NEW s, NEW i \in Nat, NEW k \in Nat, i <= k
  PROVE  WhitesTo(s, i) <= WhitesTo(s, k)
<1> DEFINE P == {d \in Nat : WhitesTo(s, i) <= WhitesTo(s, i + d)}
<1>1. 0 \in P
  <2>1. WhitesTo(s, i) \in Nat /\ i + 0 = i
    BY WhitesToNext
  <2> QED BY <2>1
<1>2. ASSUME NEW d \in Nat, d \in P PROVE d + 1 \in P
  <2> DEFINE m == i + d
  <2>1. m \in Nat /\ i + (d + 1) = m + 1 /\ WhitesTo(s, i) <= WhitesTo(s, m)
    BY <1>2
  <2> HIDE DEF m
  <2>2. WhitesTo(s, m + 1) = WhitesTo(s, m) + (IF IsWhite(s[m + 1]) THEN 1 ELSE 0) /\ WhitesTo(s, m) \in Nat
    BY <2>1, WhitesToNext
  <2>3. WhitesTo(s, i) \in Nat
    BY WhitesToNext
  <2>4. WhitesTo(s, i) <= WhitesTo(s, m + 1)
    BY <2>1, <2>2, <2>3
  <2> QED BY <2>1, <2>4
<1> HIDE DEF P
<1>3. k - i \in P
  <2>1. k - i \in Nat
    OBVIOUS
  <2> QED BY <1>1, <1>2, <2>1, SetInduction
<1>4. i + (k - i) = k
  OBVIOUS
<1> QED BY <1>3, <1>4 DEF P

LEMMA WhitesNone ==
  ASSUME NEW s, NEW n \in Nat, \A j \in 1 .. n : ~IsWhite(s[j])
  PROVE  WhitesTo(s, n) = 0
<1>1. {j \in 1 .. n : IsWhite(s[j])} = {}
  OBVIOUS
<1> QED BY <1>1, FS_EmptySet DEF WhitesTo

LEMMA WhitesAre ==
  ASSUME NEW s \in Strings
  PROVE  /\ Whites(s) = WhitesTo(s, Len(s)) /\ Len(s) \in Nat /\ Whites(s) \in Nat
         /\ Whites(s) = 0 <=> \A j \in 1 .. Len(s) : ~IsWhite(s[j])
<1>1. Len(s) \in Nat
  BY SMT DEF Strings
<1>2. Whites(s) = WhitesTo(s, Len(s))
  BY DEF Whites, WhitesTo
<1>3. IsFiniteSet({i \in 1 .. Len(s) : IsWhite(s[i])}) /\ Whites(s) \in Nat
  BY <1>1, WhitesCounted
<1>4. Whites(s) = 0 => {i \in 1 .. Len(s) : IsWhite(s[i])} = {}
  BY <1>3, FS_EmptySet DEF Whites
<1>5. (\A j \in 1 .. Len(s) : ~IsWhite(s[j])) => Whites(s) = 0
  BY <1>1, <1>2, WhitesNone
<1> QED BY <1>1, <1>2, <1>3, <1>4, <1>5

(* Of the first k strings.                                                 *)
WhitesUpTo(args, k) ==
  Cardinality({p \in (1 .. k) \X Nat : p[2] \in 1 .. Len(args[p[1]]) /\ IsWhite(args[p[1]][p[2]])})

LEMMA WhitesUpToNext ==
  ASSUME NEW args, NEW k \in Nat, \A i \in 1 .. k + 1 : args[i] \in Strings
  PROVE  /\ WhitesUpTo(args, 0) = 0 /\ WhitesUpTo(args, k) \in Nat
         /\ WhitesUpTo(args, k + 1) = WhitesUpTo(args, k) + Whites(args[k + 1])
<1> DEFINE W(m) == {p \in (1 .. m) \X Nat : p[2] \in 1 .. Len(args[p[1]]) /\ IsWhite(args[p[1]][p[2]])}
           V(m) == {j \in 1 .. Len(args[m]) : IsWhite(args[m][j])}
           New(m) == {p \in {m} \X Nat : p[2] \in V(m)}
           P == {m \in Nat : m <= k + 1 => IsFiniteSet(W(m))}
<1>1. \A m \in 1 .. k + 1 : IsFiniteSet(V(m)) /\ Cardinality(V(m)) = Whites(args[m]) /\ Whites(args[m]) \in Nat
  <2> TAKE m \in 1 .. k + 1
  <2>1. Len(args[m]) \in Nat
    BY SMT DEF Strings
  <2> QED BY <2>1, WhitesCounted DEF Whites
<1>2. \A m \in 1 .. k + 1 : IsFiniteSet(New(m)) /\ Cardinality(New(m)) = Cardinality(V(m))
  <2> TAKE m \in 1 .. k + 1
  <2> DEFINE f == [j \in V(m) |-> <<m, j>>]
             A == V(m)
             B == New(m)
  <2>1. \A j \in A : f[j] = <<m, j>> /\ f[j] \in B
    OBVIOUS
  <2>2. f \in Injection(A, B)
    BY <2>1 DEF Injection, IsInjective
  <2>3. f \in Surjection(A, B)
    <3>1. \A p \in B : p[2] \in A /\ f[p[2]] = p
      OBVIOUS
    <3> QED BY <2>1, <3>1 DEF Surjection
  <2>4. f \in Bijection(A, B)
    BY <2>2, <2>3 DEF Bijection
  <2>5. ExistsBijection(A, B)
    BY <2>4 DEF ExistsBijection
  <2> HIDE DEF f, A, B
  <2>6. IsFiniteSet(B) /\ Cardinality(A) = Cardinality(B)
    <3>1. IsFiniteSet(A)
      BY <1>1 DEF A
    <3> QED BY <2>5, <3>1, FS_Bijection, FS_CountingElements
  <2> QED BY <2>6 DEF A, B
<1>3. \A m \in 0 .. k : W(m + 1) = W(m) \cup New(m + 1) /\ W(m) \cap New(m + 1) = {}
  OBVIOUS
<1>4. W(0) = {}
  OBVIOUS
<1> HIDE DEF W, V, New
<1>5. 0 \in P
  BY <1>4, FS_EmptySet
<1>6. ASSUME NEW m \in Nat, m \in P PROVE m + 1 \in P
  <2> SUFFICES ASSUME m + 1 <= k + 1 PROVE IsFiniteSet(W(m + 1))
    OBVIOUS
  <2>1. m \in 0 .. k /\ m + 1 \in 1 .. k + 1
    OBVIOUS
  <2>2. IsFiniteSet(W(m)) /\ IsFiniteSet(New(m + 1)) /\ W(m + 1) = W(m) \cup New(m + 1)
    BY <1>2, <1>3, <1>6, <2>1
  <2>3. IsFiniteSet(W(m) \cup New(m + 1))
    BY <2>2, FS_Union
  <2> QED BY <2>2, <2>3
<1> HIDE DEF P
<1>7. k \in P
  BY <1>5, <1>6, SetInduction
<1>8. IsFiniteSet(W(k))
  BY <1>7 DEF P
<1>9. k \in 0 .. k /\ k + 1 \in 1 .. k + 1
  OBVIOUS
<1>10. Cardinality(W(k + 1)) = Cardinality(W(k)) + Cardinality(New(k + 1)) - Cardinality(W(k) \cap New(k + 1))
  BY <1>2, <1>3, <1>8, <1>9, FS_Union
<1>11. Cardinality({}) = 0 /\ Cardinality(W(k)) \in Nat
  BY <1>8, FS_EmptySet, FS_CardinalityType
<1>12. Cardinality(W(k + 1)) = Cardinality(W(k)) + Whites(args[k + 1])
  <2>1. W(k) \cap New(k + 1) = {}
    BY <1>3, <1>9
  <2>2. Cardinality(W(k) \cap New(k + 1)) = 0
    BY <1>11, <2>1
  <2>3. Cardinality(New(k + 1)) = Whites(args[k + 1]) /\ Whites(args[k + 1]) \in Nat
    BY <1>1, <1>2, <1>9
  <2> QED BY <1>10, <1>11, <2>2, <2>3
<1> QED BY <1>4, <1>11, <1>12 DEF WhitesUpTo, W

LEMMA WhitesUpToAgree ==
  ASSUME NEW args, NEW array, NEW k \in Nat, \A i \in 1 .. k : args[i] = array[i]
  PROVE  WhitesUpTo(args, k) = WhitesUpTo(array, k)
<1>1. {p \in (1 .. k) \X Nat : p[2] \in 1 .. Len(args[p[1]]) /\ IsWhite(args[p[1]][p[2]])} =
      {p \in (1 .. k) \X Nat : p[2] \in 1 .. Len(array[p[1]]) /\ IsWhite(array[p[1]][p[2]])}
  <2>1. \A p \in (1 .. k) \X Nat : args[p[1]] = array[p[1]]
    OBVIOUS
  <2> QED BY <2>1, Zenon
<1> QED BY <1>1 DEF WhitesUpTo

-----------------------------------------------------------------------------
(* The scan, step by step along a string.                                  *)
Runs(g, s) == g[0] = Start /\ \A i \in 1 .. Len(s) : g[i] = Scan(g[i - 1], s[i])

LEMMA ScanSkips ==
  ASSUME NEW scan \in ScanType, NEW c \in Char, IsWhite(c), scan.skips
  PROVE  Scan(scan, c) = scan
BY DEF Scan

LEMMA ScanEnds ==
  ASSUME NEW scan \in ScanType, NEW c \in Char, IsWhite(c), ~scan.skips, ~scan.in_quotes
  PROVE  LET next == Scan(scan, c)
         IN  /\ next.array = Append(scan.array, Unquoted(scan.sub_str))
             /\ next.sub_str = scan.sub_str /\ next.skips /\ ~next.in_quotes
<1> DEFINE more == Append(scan.array, Unquoted(scan.sub_str))
<1>1. Scan(scan, c) = [scan EXCEPT !.array = more, !.skips = TRUE]
  BY DEF Scan
<1> HIDE DEF more
<1>2. scan = [array |-> scan.array, sub_str |-> scan.sub_str, in_quotes |-> scan.in_quotes, skips |-> scan.skips]
  BY DEF ScanType
<1>3. /\ Scan(scan, c).array = more /\ Scan(scan, c).sub_str = scan.sub_str
      /\ Scan(scan, c).skips = TRUE /\ Scan(scan, c).in_quotes = scan.in_quotes
  BY <1>1, <1>2
<1> QED BY <1>3 DEF more

LEMMA ScanGoes ==
  ASSUME NEW scan \in ScanType, NEW c \in Char, ~IsWhite(c) \/ (~scan.skips /\ scan.in_quotes)
  PROVE  LET next == Scan(scan, c)
         IN  /\ next.array = scan.array
             /\ next.sub_str = IF scan.skips THEN <<c>> ELSE Append(scan.sub_str, c)
             /\ ~next.skips
             /\ next.in_quotes = IF c = Quote THEN ~scan.in_quotes ELSE scan.in_quotes
<1> DEFINE toggled == IF c = Quote THEN ~scan.in_quotes ELSE scan.in_quotes
           u == IF scan.skips THEN <<c>> ELSE Append(scan.sub_str, c)
<1>1. Scan(scan, c) = [scan EXCEPT !.sub_str = u, !.in_quotes = toggled, !.skips = FALSE]
  BY DEF Scan
<1> HIDE DEF u, toggled
<1>2. scan = [array |-> scan.array, sub_str |-> scan.sub_str, in_quotes |-> scan.in_quotes, skips |-> scan.skips]
  BY DEF ScanType
<1>3. /\ Scan(scan, c).array = scan.array /\ Scan(scan, c).sub_str = u
      /\ Scan(scan, c).skips = FALSE /\ Scan(scan, c).in_quotes = toggled
  BY <1>1, <1>2
<1> QED BY <1>3 DEF u, toggled

LEMMA RunsTyped ==
  ASSUME NEW s \in Strings, NEW g, Runs(g, s)
  PROVE  \A i \in 0 .. Len(s) : g[i] \in ScanType
<1> DEFINE P == {i \in Nat : i <= Len(s) => g[i] \in ScanType}
<1>1. Len(s) \in Nat /\ \A i \in 1 .. Len(s) : s[i] \in Char
  BY SMT DEF Strings
<1>2. 0 \in P
  <2>1. Start \in ScanType
    BY EmptyStrings DEF Start, ScanType
  <2> QED BY <2>1 DEF Runs
<1>3. ASSUME NEW i \in Nat, i \in P PROVE i + 1 \in P
  <2> SUFFICES ASSUME i + 1 <= Len(s) PROVE g[i + 1] \in ScanType
    OBVIOUS
  <2>1. i + 1 \in 1 .. Len(s) /\ (i + 1) - 1 = i /\ i <= Len(s)
    BY <1>1
  <2>2. g[i] \in ScanType /\ g[i + 1] = Scan(g[i], s[i + 1])
    BY <1>3, <2>1 DEF Runs
  <2> QED BY <1>1, <2>1, <2>2, ScanTyped
<1> HIDE DEF P
<1>4. \A i \in Nat : i \in P
  BY <1>2, <1>3, SetInduction
<1> QED BY <1>1, <1>4 DEF P

(* One step of a run.                                                      *)
LEMMA RunsStep ==
  ASSUME NEW s \in Strings, NEW g, Runs(g, s), NEW i \in Nat, i + 1 <= Len(s)
  PROVE  /\ g[i] \in ScanType /\ s[i + 1] \in Char /\ i + 1 \in 1 .. Len(s)
         /\ g[i + 1] = Scan(g[i], s[i + 1])
<1>1. Len(s) \in Nat /\ \A j \in 1 .. Len(s) : s[j] \in Char
  BY SMT DEF Strings
<1>2. i + 1 \in 1 .. Len(s) /\ (i + 1) - 1 = i /\ i \in 0 .. Len(s)
  BY <1>1
<1> QED BY <1>1, <1>2, RunsTyped DEF Runs

LEMMA RunExists ==
  ASSUME NEW s \in Strings
  PROVE  \E g : Runs(g, s) /\ FoldLeft(Scan, Start, s) = g[Len(s)]
<1> DEFINE n == Len(s)
<1>1. n \in Nat /\ DOMAIN s = 1 .. n
  BY SMT DEF Strings
<1> HIDE DEF n
<1>2. PICK f : /\ f[0] = Start
               /\ \A i \in 1 .. n : f[i] = Scan(f[i - 1], s[i])
               /\ FoldLeft(Scan, Start, s) = f[n]
  BY <1>1, ScanRuns
<1> QED BY <1>2, Zenon DEF Runs, n

(* One more character of a piece.                                          *)
LEMMA PieceGrows ==
  ASSUME NEW s \in Strings, NEW q \in Nat, NEW i \in Nat, 1 <= q, q <= i, i + 1 <= Len(s)
  PROVE  SubSeq(s, q, i + 1) = Append(SubSeq(s, q, i), s[i + 1])
BY SMT DEF Strings

(* While a piece has no quotes, and none of its white characters is        *)
(* outside of quotes, the scan goes on with it.                            *)
LEMMA RunOn ==
  ASSUME NEW s \in Strings, NEW g, Runs(g, s), NEW q \in Nat, NEW p \in Nat, NEW e \in Nat,
         1 <= q, q <= p, p <= e, e <= Len(s),
         ~g[p].skips, g[p].sub_str = SubSeq(s, q, p),
         \A j \in p + 1 .. e : s[j] # Quote /\ (g[p].in_quotes \/ ~IsWhite(s[j]))
  PROVE  /\ g[e].array = g[p].array /\ g[e].sub_str = SubSeq(s, q, e)
         /\ ~g[e].skips /\ (g[e].in_quotes <=> g[p].in_quotes)
<1> DEFINE Good(i) == /\ g[i].array = g[p].array /\ g[i].sub_str = SubSeq(s, q, i)
                      /\ ~g[i].skips /\ (g[i].in_quotes <=> g[p].in_quotes)
           P == {d \in Nat : p + d <= e => Good(p + d)}
<1>1. Len(s) \in Nat
  BY SMT DEF Strings
<1>2. 0 \in P
  <2>1. p + 0 = p
    OBVIOUS
  <2>2. Good(p)
    OBVIOUS
  <2> HIDE DEF Good
  <2> QED BY <2>1, <2>2
<1>3. ASSUME NEW d \in Nat, d \in P PROVE d + 1 \in P
  <2> SUFFICES ASSUME p + (d + 1) <= e PROVE Good(p + (d + 1))
    BY DEF P
  <2> DEFINE i == p + d
  <2>1. i \in Nat /\ p + (d + 1) = i + 1 /\ i <= e /\ q <= i /\ i + 1 <= Len(s) /\ i + 1 \in p + 1 .. e
    BY <1>1
  <2> HIDE DEF Good
  <2>2. Good(i)
    BY <1>3, <2>1
  <2> HIDE DEF i
  <2>3. g[i] \in ScanType /\ s[i + 1] \in Char /\ g[i + 1] = Scan(g[i], s[i + 1])
    BY <2>1, RunsStep
  <2>4. s[i + 1] # Quote /\ (g[p].in_quotes \/ ~IsWhite(s[i + 1]))
    BY <2>1
  <2>5. /\ g[i].array = g[p].array /\ g[i].sub_str = SubSeq(s, q, i)
        /\ ~g[i].skips /\ (g[i].in_quotes <=> g[p].in_quotes)
    BY <2>2 DEF Good
  <2>6. ~IsWhite(s[i + 1]) \/ (~g[i].skips /\ g[i].in_quotes)
    BY <2>4, <2>5, Zenon
  <2> DEFINE next == Scan(g[i], s[i + 1])
  <2>7. /\ next.array = g[i].array
        /\ next.sub_str = IF g[i].skips THEN <<s[i + 1]>> ELSE Append(g[i].sub_str, s[i + 1])
        /\ ~next.skips
        /\ next.in_quotes = IF s[i + 1] = Quote THEN ~g[i].in_quotes ELSE g[i].in_quotes
    BY <2>3, <2>6, ScanGoes
  <2> HIDE DEF next
  <2>8. next.sub_str = Append(SubSeq(s, q, i), s[i + 1])
    BY <2>5, <2>7, Zenon
  <2>9. next.in_quotes <=> g[p].in_quotes
    BY <2>4, <2>5, <2>7, Zenon
  <2>10. SubSeq(s, q, i + 1) = Append(SubSeq(s, q, i), s[i + 1])
    BY <2>1, PieceGrows
  <2>11. g[i + 1] = next
    BY <2>3 DEF next
  <2>12. Good(i + 1)
    BY <2>5, <2>7, <2>8, <2>9, <2>10, <2>11, Zenon DEF Good
  <2> QED BY <2>1, <2>12
<1> HIDE DEF P, Good
<1>4. e - p \in P
  <2>1. e - p \in Nat
    OBVIOUS
  <2> QED BY <1>2, <1>3, <2>1, SetInduction
<1>5. p + (e - p) = e /\ e <= e
  OBVIOUS
<1>6. Good(e)
  BY <1>4, <1>5 DEF P
<1> QED BY <1>6 DEF Good

(* A piece that was begun stays open, or it is an argument.                *)
Begun(scan, array, s, q, p, i) ==
  \/ scan.array = array /\ ~scan.skips /\ scan.sub_str = SubSeq(s, q, i)
  \/ /\ Len(scan.array) > Len(array)
     /\ \E e \in p .. i : scan.array[Len(array) + 1] = Unquoted(SubSeq(s, q, e))

LEMMA BegunNext ==
  ASSUME NEW s \in Strings, NEW g, Runs(g, s), NEW q \in Nat, NEW p \in Nat, NEW i \in Nat,
         1 <= q, q <= p, p <= i, i + 1 <= Len(s), NEW array \in Seq(Strings),
         Begun(g[i], array, s, q, p, i)
  PROVE  Begun(g[i + 1], array, s, q, p, i + 1)
<1> DEFINE scan == g[i]
           c == s[i + 1]
           next == Scan(scan, c)
           m == Len(array)
           Done1(a) == Len(a) > m /\ \E e \in p .. i + 1 : a[m + 1] = Unquoted(SubSeq(s, q, e))
<1>1. scan \in ScanType /\ c \in Char /\ g[i + 1] = next
  BY RunsStep
<1>2. scan.array \in Seq(Strings) /\ scan.sub_str \in Strings /\ m \in Nat
      /\ scan.skips \in BOOLEAN /\ scan.in_quotes \in BOOLEAN
  BY <1>1, SMT DEF ScanType
<1>3. \A x \in Strings : Append(scan.array, x) \in Seq(Strings) /\ Len(Append(scan.array, x)) = Len(scan.array) + 1
        /\ Append(scan.array, x)[Len(scan.array) + 1] = x
        /\ \A j \in 1 .. Len(scan.array) : Append(scan.array, x)[j] = scan.array[j]
  BY <1>2, AppendProperties
<1>4. /\ IsWhite(c) /\ scan.skips => next = scan
      /\ IsWhite(c) /\ ~scan.skips /\ ~scan.in_quotes => next.array = Append(scan.array, Unquoted(scan.sub_str))
      /\ ~IsWhite(c) \/ (~scan.skips /\ scan.in_quotes) =>
           /\ next.array = scan.array /\ ~next.skips
           /\ next.sub_str = IF scan.skips THEN <<c>> ELSE Append(scan.sub_str, c)
  <2>1. ASSUME IsWhite(c), scan.skips PROVE next = scan
    <3> HIDE DEF scan, c
    <3> QED BY <1>1, <2>1, ScanSkips DEF next
  <2>2. ASSUME IsWhite(c), ~scan.skips, ~scan.in_quotes PROVE next.array = Append(scan.array, Unquoted(scan.sub_str))
    <3> HIDE DEF scan, c
    <3> QED BY <1>1, <2>2, ScanEnds DEF next
  <2>3. ASSUME ~IsWhite(c) \/ (~scan.skips /\ scan.in_quotes)
        PROVE  /\ next.array = scan.array /\ ~next.skips
               /\ next.sub_str = IF scan.skips THEN <<c>> ELSE Append(scan.sub_str, c)
    <3> HIDE DEF scan, c
    <3> QED BY <1>1, <2>3, ScanGoes DEF next
  <2> HIDE DEF next, scan, c
  <2> QED BY <2>1, <2>2, <2>3, Zenon
<1>5. Unquoted(scan.sub_str) \in Strings
  BY <1>2, UnquotedType
<1> HIDE DEF next, scan, c
<1>6. CASE scan.array = array /\ ~scan.skips /\ scan.sub_str = SubSeq(s, q, i)
  <2>1. CASE IsWhite(c) /\ ~scan.in_quotes
    <3>1. next.array = Append(array, Unquoted(SubSeq(s, q, i)))
      BY <1>4, <1>6, <2>1, Zenon
    <3>2. Len(next.array) = m + 1 /\ next.array[m + 1] = Unquoted(SubSeq(s, q, i))
      BY <1>3, <1>5, <1>6, <3>1
    <3>3. i \in p .. i + 1 /\ m + 1 > m
      BY <1>2
    <3> QED BY <1>1, <3>2, <3>3, Zenon DEF Begun, m
  <2>2. CASE ~(IsWhite(c) /\ ~scan.in_quotes)
    <3>1. /\ next.array = array /\ ~next.skips /\ next.sub_str = Append(SubSeq(s, q, i), c)
      BY <1>4, <1>6, <2>2, Zenon
    <3>2. SubSeq(s, q, i + 1) = Append(SubSeq(s, q, i), c)
      BY PieceGrows DEF c
    <3> QED BY <1>1, <3>1, <3>2 DEF Begun
  <2> QED BY <2>1, <2>2
<1>7. ASSUME Len(scan.array) > m, NEW e \in p .. i, scan.array[m + 1] = Unquoted(SubSeq(s, q, e))
      PROVE  Begun(g[i + 1], array, s, q, p, i + 1)
  <2>1. next.array = scan.array \/ next.array = Append(scan.array, Unquoted(scan.sub_str))
    BY <1>2, <1>4, Zenon
  <2>2. m + 1 \in 1 .. Len(scan.array) /\ Len(scan.array) + 1 > m
    BY <1>2, <1>7
  <2>3. Len(next.array) > m /\ next.array[m + 1] = scan.array[m + 1]
    BY <1>3, <1>5, <1>7, <2>1, <2>2
  <2>4. e \in p .. i + 1
    OBVIOUS
  <2> QED BY <1>1, <1>7, <2>3, <2>4, Zenon DEF Begun, m
<1> QED BY <1>6, <1>7, Zenon DEF Begun, scan, m

LEMMA BegunLasts ==
  ASSUME NEW s \in Strings, NEW g, Runs(g, s), NEW q \in Nat, NEW p \in Nat, NEW last \in Nat,
         1 <= q, q <= p, p <= last, last <= Len(s),
         ~g[p].skips, g[p].sub_str = SubSeq(s, q, p)
  PROVE  Begun(g[last], g[p].array, s, q, p, last)
<1> DEFINE array == g[p].array
           P == {d \in Nat : p + d <= last => Begun(g[p + d], array, s, q, p, p + d)}
<1>1. Len(s) \in Nat
  BY SMT DEF Strings
<1>2. array \in Seq(Strings)
  <2>1. p \in 0 .. Len(s)
    BY <1>1
  <2> QED BY <2>1, RunsTyped DEF ScanType
<1>3. 0 \in P
  <2>1. p + 0 = p
    OBVIOUS
  <2>2. Begun(g[p], array, s, q, p, p)
    BY DEF Begun
  <2> QED BY <2>1, <2>2
<1> HIDE DEF array
<1>4. ASSUME NEW d \in Nat, d \in P PROVE d + 1 \in P
  <2> SUFFICES ASSUME p + (d + 1) <= last PROVE Begun(g[p + (d + 1)], array, s, q, p, p + (d + 1))
    BY DEF P
  <2> DEFINE i == p + d
  <2>1. i \in Nat /\ p + (d + 1) = i + 1 /\ i <= last /\ p <= i /\ i + 1 <= Len(s)
    BY <1>1
  <2>2. Begun(g[i], array, s, q, p, i)
    BY <1>4, <2>1
  <2> HIDE DEF i
  <2>3. Begun(g[i + 1], array, s, q, p, i + 1)
    BY <1>2, <2>1, <2>2, BegunNext
  <2> QED BY <2>1, <2>3
<1> HIDE DEF P
<1>5. last - p \in P
  <2>1. last - p \in Nat
    OBVIOUS
  <2> QED BY <1>3, <1>4, <2>1, SetInduction
<1>6. p + (last - p) = last /\ last <= last
  OBVIOUS
<1> QED BY <1>5, <1>6 DEF P, array

-----------------------------------------------------------------------------
(* White space is kept in an argument, ends one, or is skipped.            *)
WhitesIn(args) == WhitesUpTo(args, Len(args))

LEMMA WhitesInMore ==
  ASSUME NEW args \in Seq(Strings), NEW arg \in Strings
  PROVE  WhitesIn(args) \in Nat /\ WhitesIn(Append(args, arg)) = WhitesIn(args) + Whites(arg)
<1> DEFINE more == Append(args, arg)
           k == Len(args)
<1>1. k \in Nat /\ more \in Seq(Strings) /\ Len(more) = k + 1 /\ more[k + 1] = arg
      /\ \A i \in 1 .. k : more[i] = args[i]
  BY AppendProperties
<1>2. \A i \in 1 .. k + 1 : more[i] \in Strings
  BY <1>1, ElementOfSeq
<1> HIDE DEF more, k
<1>3. WhitesUpTo(more, k + 1) = WhitesUpTo(more, k) + Whites(more[k + 1]) /\ WhitesUpTo(more, k) \in Nat
  BY <1>1, <1>2, WhitesUpToNext
<1>4. WhitesUpTo(more, k) = WhitesUpTo(args, k)
  BY <1>1, WhitesUpToAgree
<1> QED BY <1>1, <1>3, <1>4 DEF WhitesIn, more, k

LEMMA UnquotedIs ==
  ASSUME NEW z \in Strings
  PROVE  \/ Unquoted(z) = z
         \/ z = <<Quote>> /\ Unquoted(z) = <<>>
         \/ /\ Len(z) >= 2 /\ z[1] = Quote /\ z[Len(z)] = Quote
            /\ Len(Unquoted(z)) = Len(z) - 2 /\ \A j \in 1 .. Len(z) - 2 : Unquoted(z)[j] = z[j + 1]
<1> DEFINE n == Len(z)
           u == SubSeq(z, 2, n - 1)
<1>1. n \in Nat
  BY SMT DEF Strings
<1>2. CASE ~(z # <<>> /\ Head(z) = Quote /\ Last(z) = Quote)
  BY <1>2 DEF Unquoted
<1>3. CASE z # <<>> /\ Head(z) = Quote /\ Last(z) = Quote
  <2>1. Unquoted(z) = u
    BY <1>3 DEF Unquoted
  <2>2. z[1] = Quote /\ z[n] = Quote /\ n # 0
    BY <1>3, SMT DEF Last, Strings
  <2>3. CASE n = 1
    <3>1. z = <<Quote>>
      BY <2>2, <2>3, SMT DEF Strings
    <3>2. u = <<>>
      BY <2>3, SMT DEF Strings
    <3> QED BY <2>1, <3>1, <3>2
  <2>4. CASE n # 1
    <3>1. n >= 2
      <4>1. n # 0 /\ n # 1
        BY <2>2, <2>4
      <4> HIDE DEF n
      <4> QED BY <1>1, <4>1
    <3>2. Len(u) = n - 2 /\ \A j \in 1 .. n - 2 : u[j] = z[j + 1]
      <4>1. z \in Seq(Char)
        BY DEF Strings
      <4> DEFINE a == 2
                 b == n - 1
      <4>2. a \in 1 .. n /\ b \in 0 .. n /\ a <= b + 1 /\ b - a + 1 = n - 2
        BY <1>1, <3>1
      <4>3. Len(SubSeq(z, a, b)) = n - 2
        BY <4>1, <4>2, SMT
      <4>4. \A j \in 1 .. n - 2 : SubSeq(z, a, b)[j] = z[a + j - 1] /\ a + j - 1 = j + 1
        BY <4>1, <4>2, SMT
      <4> QED BY <4>3, <4>4
    <3> HIDE DEF u
    <3> QED BY <2>1, <2>2, <3>1, <3>2
  <2> QED BY <2>3, <2>4
<1> QED BY <1>2, <1>3

LEMMA UnquotedWhites ==
  ASSUME NEW z \in Strings
  PROVE  Whites(Unquoted(z)) = Whites(z)
<1> DEFINE u == Unquoted(z)
           n == Len(z)
<1>1. u \in Strings
  BY UnquotedType
<1>2. n \in Nat /\ Whites(z) = WhitesTo(z, n) /\ Whites(u) = WhitesTo(u, Len(u)) /\ Len(u) \in Nat
  BY <1>1, WhitesAre
<1>3. CASE u = z
  BY <1>3
<1>4. CASE z = <<Quote>> /\ u = <<>>
  <2>1. n = 1 /\ z[1] = Quote /\ Len(u) = 0
    BY <1>4
  <2>2. \A j \in 1 .. 1 : ~IsWhite(z[j])
    <3>1. \A j \in 1 .. 1 : j = 1
      OBVIOUS
    <3> QED BY <2>1, <3>1, QuoteIsNoWhite, Zenon
  <2>3. WhitesTo(z, 1) = 0 /\ WhitesTo(u, 0) = 0
    BY <2>2, WhitesNone, WhitesToNext
  <2> QED BY <1>2, <2>1, <2>3
<1>5. CASE /\ n >= 2 /\ z[1] = Quote /\ z[n] = Quote
           /\ Len(u) = n - 2 /\ \A j \in 1 .. n - 2 : u[j] = z[j + 1]
  <2> DEFINE m == n - 2
  <2>1. m \in Nat /\ 1 + m \in Nat /\ n = (1 + m) + 1 /\ \A j \in 1 .. m : z[1 + j] = u[j]
    BY <1>2, <1>5
  <2>2. Len(u) = m
    BY <1>5
  <2> HIDE DEF m, u, n
  <2>3. WhitesTo(z, 1 + m) = WhitesTo(z, 1) + WhitesTo(u, m)
    <3>1. 1 \in Nat /\ Goes(z, 1, u, m)
      BY <2>1 DEF Goes
    <3> QED BY <2>1, <3>1, WhitesMoved
  <2>4. WhitesTo(z, 1) = 0
    <3>1. \A j \in 1 .. 1 : j = 1
      OBVIOUS
    <3>2. \A j \in 1 .. 1 : ~IsWhite(z[j])
      BY <1>5, <3>1, QuoteIsNoWhite, Zenon
    <3> QED BY <3>2, WhitesNone
  <2>5. WhitesTo(z, n) = WhitesTo(z, 1 + m)
    <3>1. WhitesTo(z, (1 + m) + 1) = WhitesTo(z, 1 + m) + (IF IsWhite(z[(1 + m) + 1]) THEN 1 ELSE 0)
          /\ WhitesTo(z, 1 + m) \in Nat
      BY <2>1, WhitesToNext
    <3>2. ~IsWhite(z[n])
      BY <1>5, QuoteIsNoWhite, Zenon
    <3> QED BY <2>1, <3>1, <3>2
  <2>6. WhitesTo(u, m) \in Nat
    BY <2>1, WhitesToNext
  <2>7. WhitesTo(z, n) = WhitesTo(u, m)
    BY <2>3, <2>4, <2>5, <2>6
  <2> QED BY <1>2, <2>2, <2>7 DEF u
<1> HIDE DEF u, n
<1>6. u = z \/ (z = <<Quote>> /\ u = <<>>)
      \/ (/\ n >= 2 /\ z[1] = Quote /\ z[n] = Quote
          /\ Len(u) = n - 2 /\ \A j \in 1 .. n - 2 : u[j] = z[j + 1])
  BY UnquotedIs, Zenon DEF u, n
<1> QED BY <1>3, <1>4, <1>5, <1>6 DEF u, n

LEMMA AppendWhites ==
  ASSUME NEW z \in Strings, NEW c \in Char
  PROVE  /\ Whites(Append(z, c)) = Whites(z) + (IF IsWhite(c) THEN 1 ELSE 0)
         /\ Whites(<<c>>) = IF IsWhite(c) THEN 1 ELSE 0
<1> DEFINE t == Append(z, c)
           n == Len(z)
           o == <<c>>
<1>1. n \in Nat /\ Len(t) = n + 1 /\ t[n + 1] = c /\ (\A j \in 1 .. n : t[j] = z[j])
  BY SMT DEF Strings
<1>2. Len(o) = 1 /\ o[1] = c
  OBVIOUS
<1>3. t \in Strings
  BY AppendProperties DEF Strings
<1>4. o \in Strings
  BY SMT DEF Strings
<1> HIDE DEF t, n, o
<1>5. Whites(t) = WhitesTo(t, n + 1) /\ Whites(z) = WhitesTo(z, n) /\ Whites(o) = WhitesTo(o, 1)
  BY <1>1, <1>2, <1>3, <1>4, WhitesAre DEF n
<1>6. WhitesTo(t, n + 1) = WhitesTo(t, n) + (IF IsWhite(t[n + 1]) THEN 1 ELSE 0)
  BY <1>1, WhitesToNext
<1>7. WhitesTo(t, n) = WhitesTo(z, n)
  BY <1>1, WhitesAgree
<1>8. WhitesTo(o, 1) = IF IsWhite(o[1]) THEN 1 ELSE 0
  <2>1. WhitesTo(o, 0 + 1) = WhitesTo(o, 0) + (IF IsWhite(o[0 + 1]) THEN 1 ELSE 0) /\ WhitesTo(o, 0) = 0
    BY WhitesToNext
  <2> QED BY <2>1
<1> QED BY <1>1, <1>2, <1>5, <1>6, <1>7, <1>8 DEF t, o

(* What the scan has kept of the white space so far, those that ended an   *)
(* argument included.                                                      *)
Kept(scan) ==
  WhitesIn(scan.array) + Len(scan.array) + (IF scan.skips THEN 0 ELSE Whites(scan.sub_str))

LEMMA KeptStep ==
  ASSUME NEW scan \in ScanType, NEW c \in Char
  PROVE  /\ Kept(scan) \in Nat /\ Kept(Scan(scan, c)) \in Nat
         /\ Kept(Scan(scan, c)) + (IF IsWhite(c) /\ scan.skips THEN 1 ELSE 0)
              = Kept(scan) + (IF IsWhite(c) THEN 1 ELSE 0)
<1> DEFINE next == Scan(scan, c)
           a == scan.array
           z == scan.sub_str
<1>1. a \in Seq(Strings) /\ z \in Strings /\ Len(a) \in Nat /\ Unquoted(z) \in Strings
  <2>1. a \in Seq(Strings) /\ z \in Strings
    BY DEF ScanType
  <2>2. Len(a) \in Nat
    BY <2>1, SMT
  <2> QED BY <2>1, <2>2, UnquotedType
<1>2. WhitesIn(a) \in Nat /\ WhitesIn(Append(a, Unquoted(z))) = WhitesIn(a) + Whites(z)
  BY <1>1, WhitesInMore, UnquotedWhites
<1>3. Whites(z) \in Nat /\ Whites(Append(z, c)) = Whites(z) + (IF IsWhite(c) THEN 1 ELSE 0)
      /\ Whites(<<c>>) = IF IsWhite(c) THEN 1 ELSE 0
  BY <1>1, AppendWhites, WhitesAre
<1>4. Len(Append(a, Unquoted(z))) = Len(a) + 1
  BY <1>1, AppendProperties
<1>5. Kept(scan) = WhitesIn(a) + Len(a) + (IF scan.skips THEN 0 ELSE Whites(z))
  BY DEF Kept
<1>6. Kept(next) = WhitesIn(next.array) + Len(next.array) + (IF next.skips THEN 0 ELSE Whites(next.sub_str))
  BY DEF Kept
<1>7. CASE IsWhite(c) /\ scan.skips
  <2>1. next = scan
    BY <1>7, ScanSkips
  <2> HIDE DEF next, a, z
  <2> QED BY <1>1, <1>2, <1>3, <1>5, <1>7, <2>1 DEF next
<1>8. CASE IsWhite(c) /\ ~scan.skips /\ ~scan.in_quotes
  <2>1. next.array = Append(a, Unquoted(z)) /\ next.skips
    BY <1>8, ScanEnds
  <2> HIDE DEF next, a, z
  <2>2. Kept(next) = (WhitesIn(a) + Whites(z)) + (Len(a) + 1) + 0
    BY <1>2, <1>4, <1>6, <2>1
  <2> QED BY <1>1, <1>2, <1>3, <1>5, <1>8, <2>2 DEF next
<1>9. CASE ~IsWhite(c) \/ (~scan.skips /\ scan.in_quotes)
  <2>1. /\ next.array = a /\ ~next.skips
        /\ next.sub_str = IF scan.skips THEN <<c>> ELSE Append(z, c)
    BY <1>9, ScanGoes
  <2> HIDE DEF next, a, z
  <2>2. Kept(next) = WhitesIn(a) + Len(a) + Whites(next.sub_str)
    BY <1>6, <2>1
  <2>3. CASE scan.skips
    <3>1. ~IsWhite(c) /\ next.sub_str = <<c>>
      BY <1>9, <2>1, <2>3
    <3>2. Whites(next.sub_str) = 0
      BY <1>3, <3>1
    <3> QED BY <1>1, <1>2, <1>5, <2>2, <2>3, <3>1, <3>2 DEF next
  <2>4. CASE ~scan.skips
    <3>1. Whites(next.sub_str) = Whites(z) + (IF IsWhite(c) THEN 1 ELSE 0)
      BY <1>3, <2>1, <2>4
    <3> QED BY <1>1, <1>2, <1>3, <1>5, <2>2, <2>4, <3>1 DEF next
  <2> QED BY <2>3, <2>4
<1> QED BY <1>7, <1>8, <1>9, Zenon

(* Once some white space is lost it stays lost.                            *)
LEMMA KeptLasts ==
  ASSUME NEW s \in Strings, NEW g, Runs(g, s), NEW p \in Nat, NEW lost \in Nat,
         Kept(g[p]) + lost <= WhitesTo(s, p)
  PROVE  \A i \in p .. Len(s) : Kept(g[i]) \in Nat /\ Kept(g[i]) + lost <= WhitesTo(s, i)
<1> DEFINE Good(i) == Kept(g[i]) + lost <= WhitesTo(s, i)
           P == {d \in Nat : p + d <= Len(s) => Good(p + d)}
<1>1. Len(s) \in Nat
  BY SMT DEF Strings
<1>2. 0 \in P
  <2>1. p + 0 = p
    OBVIOUS
  <2> QED BY <2>1
<1>3. ASSUME NEW d \in Nat, d \in P PROVE d + 1 \in P
  <2> SUFFICES ASSUME p + (d + 1) <= Len(s) PROVE Good(p + (d + 1))
    BY DEF P
  <2> DEFINE i == p + d
  <2>1. i \in Nat /\ p + (d + 1) = i + 1 /\ i <= Len(s) /\ i + 1 <= Len(s)
    BY <1>1
  <2>2. Good(i)
    BY <1>3, <2>1
  <2> HIDE DEF i
  <2>3. g[i] \in ScanType /\ s[i + 1] \in Char /\ g[i + 1] = Scan(g[i], s[i + 1])
    BY <2>1, RunsStep
  <2>4. /\ Kept(g[i]) \in Nat /\ Kept(g[i + 1]) \in Nat
        /\ Kept(g[i + 1]) + (IF IsWhite(s[i + 1]) /\ g[i].skips THEN 1 ELSE 0)
              = Kept(g[i]) + (IF IsWhite(s[i + 1]) THEN 1 ELSE 0)
    BY <2>3, KeptStep
  <2>5. WhitesTo(s, i + 1) = WhitesTo(s, i) + (IF IsWhite(s[i + 1]) THEN 1 ELSE 0) /\ WhitesTo(s, i) \in Nat
    BY <2>1, WhitesToNext
  <2>6. Good(i + 1)
    BY <2>2, <2>4, <2>5
  <2> QED BY <2>1, <2>6
<1> HIDE DEF P
<1>4. \A d \in Nat : d \in P
  BY <1>2, <1>3, SetInduction
<1> USE DEF P
<1>5. ASSUME NEW i \in p .. Len(s) PROVE Kept(g[i]) \in Nat /\ Good(i)
  <2>1. i - p \in Nat /\ p + (i - p) = i /\ i <= Len(s) /\ i \in 0 .. Len(s)
    BY <1>1
  <2>2. Good(i)
    BY <1>4, <2>1
  <2>3. g[i] \in ScanType
    BY <2>1, RunsTyped
  <2>4. Kept(g[i]) \in Nat
    <3>1. g[i].array \in Seq(Strings) /\ g[i].sub_str \in Strings
      BY <2>3 DEF ScanType
    <3>2. WhitesIn(g[i].array) \in Nat /\ Len(g[i].array) \in Nat /\ Whites(g[i].sub_str) \in Nat
      <4>1. <<>> \in Strings
        BY EmptyStrings
      <4> QED BY <3>1, <4>1, WhitesInMore, WhitesAre, LenProperties
    <3> QED BY <3>2 DEF Kept
  <2> QED BY <2>2, <2>4
<1> QED BY <1>5

(* The arguments of a trimmed text have no more white space than it has.   *)
LEMMA SplitKeeps ==
  ASSUME NEW s \in Strings, s # <<>>, NEW g, Runs(g, s), NEW lost \in Nat, NEW p \in 0 .. Len(s),
         ~IsWhite(s[Len(s)]), Kept(g[p]) + lost <= WhitesTo(s, p)
  PROVE  LET n == Len(s)
             split == Append(g[n].array, Unquoted(g[n].sub_str))
         IN  WhitesIn(split) \in Nat /\ Len(split) \in Nat /\ WhitesIn(split) + Len(split) + lost <= Whites(s) + 1
<1> DEFINE n == Len(s)
           scan == g[n]
           split == Append(scan.array, Unquoted(scan.sub_str))
<1>1. n \in Nat /\ n # 0 /\ n - 1 \in Nat /\ (n - 1) + 1 = n /\ n <= Len(s) /\ n \in p .. Len(s) /\ p \in Nat
  BY SMT DEF Strings
<1>2. g[n - 1] \in ScanType /\ s[n] \in Char /\ scan = Scan(g[n - 1], s[n]) /\ scan \in ScanType
  <2> DEFINE m == n - 1
  <2>1. m \in Nat /\ m + 1 = n /\ m + 1 <= Len(s)
    BY <1>1
  <2> HIDE DEF m
  <2>2. g[m] \in ScanType /\ s[m + 1] \in Char /\ g[m + 1] = Scan(g[m], s[m + 1])
    BY <2>1, RunsStep
  <2>3. n \in 0 .. Len(s)
    BY <1>1
  <2>4. scan \in ScanType
    BY <2>3, RunsTyped
  <2> QED BY <2>1, <2>2, <2>4 DEF m
<1>3. ~scan.skips
  <2> DEFINE prior == g[n - 1]
             c == s[n]
  <2>1. prior \in ScanType /\ c \in Char /\ scan = Scan(prior, c) /\ ~IsWhite(c)
    BY <1>2
  <2> HIDE DEF prior, c, scan
  <2>2. ~Scan(prior, c).skips
    BY <2>1, ScanGoes
  <2> QED BY <2>1, <2>2
<1>4. scan.array \in Seq(Strings) /\ scan.sub_str \in Strings
  BY <1>2 DEF ScanType
<1>5. Kept(scan) \in Nat /\ Kept(scan) + lost <= WhitesTo(s, n)
  BY <1>1, KeptLasts
<1>6. Kept(scan) = WhitesIn(scan.array) + Len(scan.array) + Whites(scan.sub_str)
  BY <1>3 DEF Kept
<1>7. Unquoted(scan.sub_str) \in Strings /\ Whites(Unquoted(scan.sub_str)) = Whites(scan.sub_str)
      /\ Whites(scan.sub_str) \in Nat
  BY <1>4, UnquotedType, UnquotedWhites, WhitesAre
<1>8. WhitesIn(split) = WhitesIn(scan.array) + Whites(scan.sub_str) /\ WhitesIn(scan.array) \in Nat
  BY <1>4, <1>7, WhitesInMore
<1>9. Len(split) = Len(scan.array) + 1 /\ Len(scan.array) \in Nat
  BY <1>4, <1>7, AppendProperties, LenProperties
<1>10. Whites(s) = WhitesTo(s, n)
  BY WhitesAre
<1> HIDE DEF split, scan, n
<1>11. WhitesIn(split) \in Nat /\ Len(split) \in Nat /\ WhitesIn(split) + Len(split) + lost <= Whites(s) + 1
  <2> DEFINE a == WhitesIn(scan.array)
             m == Len(scan.array)
             w == Whites(scan.sub_str)
             k == Kept(scan)
             d == WhitesTo(s, n)
  <2>1. a \in Nat /\ m \in Nat /\ w \in Nat /\ k = a + m + w /\ k + lost <= d /\ d \in Nat
    <3>1. d \in Nat
      BY <1>1, WhitesToNext
    <3> QED BY <1>5, <1>6, <1>7, <1>8, <1>9, <3>1
  <2>2. WhitesIn(split) = a + w /\ Len(split) = m + 1 /\ Whites(s) = d
    BY <1>8, <1>9, <1>10
  <2> HIDE DEF a, m, w, k, d
  <2> QED BY <2>1, <2>2
<1> QED BY <1>11 DEF split, scan, n

-----------------------------------------------------------------------------
(* Where the arguments are in the text they are joined into.               *)
HasAt(s, p, t) == p + Len(t) <= Len(s) /\ \A j \in 1 .. Len(t) : s[p + j] = t[j]

LEMMA HasMore ==
  ASSUME NEW s \in Strings, NEW u \in Strings
  PROVE  /\ HasAt(s \o u, Len(s), u) /\ Len(s \o u) = Len(s) + Len(u) /\ s \o u \in Strings
         /\ \A p \in Nat, t \in Strings : HasAt(s, p, t) => HasAt(s \o u, p, t)
<1> DEFINE r == s \o u
<1>1. r \in Strings /\ Len(s) \in Nat /\ Len(u) \in Nat /\ Len(r) = Len(s) + Len(u)
      /\ (\A j \in 1 .. Len(s) : r[j] = s[j]) /\ (\A j \in 1 .. Len(u) : r[Len(s) + j] = u[j])
  <2>1. s \in Seq(Char) /\ u \in Seq(Char)
    BY DEF Strings
  <2>2. r \in Seq(Char) /\ Len(r) = Len(s) + Len(u) /\ Len(s) \in Nat /\ Len(u) \in Nat
    BY <2>1, SMT
  <2>3. \A j \in 1 .. Len(s) : r[j] = s[j]
    BY <2>1, SMT
  <2>4. \A j \in 1 .. Len(u) : r[Len(s) + j] = u[j]
    BY <2>1, SMT
  <2> QED BY <2>2, <2>3, <2>4 DEF Strings
<1> HIDE DEF r
<1>2. HasAt(r, Len(s), u)
  BY <1>1 DEF HasAt
<1>3. ASSUME NEW p \in Nat, NEW t \in Strings, HasAt(s, p, t) PROVE HasAt(r, p, t)
  <2>1. Len(t) \in Nat /\ p + Len(t) <= Len(s) /\ \A j \in 1 .. Len(t) : s[p + j] = t[j]
    BY <1>3, LenProperties DEF HasAt, Strings
  <2>2. \A j \in 1 .. Len(t) : p + j \in 1 .. Len(s)
    BY <1>1, <2>1
  <2> QED BY <1>1, <2>1, <2>2 DEF HasAt
<1> QED BY <1>1, <1>2, <1>3 DEF r

LEMMA HasParts ==
  ASSUME NEW s \in Strings, NEW p \in Nat, NEW t \in Strings, NEW u \in Strings, HasAt(s, p, t \o u)
  PROVE  HasAt(s, p, t) /\ HasAt(s, p + Len(t), u)
<1> DEFINE r == t \o u
<1>1. Len(s) \in Nat /\ Len(t) \in Nat /\ Len(u) \in Nat /\ Len(r) = Len(t) + Len(u)
      /\ (\A j \in 1 .. Len(t) : r[j] = t[j]) /\ (\A j \in 1 .. Len(u) : r[Len(t) + j] = u[j])
  <2>1. s \in Seq(Char) /\ t \in Seq(Char) /\ u \in Seq(Char)
    BY DEF Strings
  <2>2. Len(r) = Len(t) + Len(u) /\ Len(t) \in Nat /\ Len(u) \in Nat /\ Len(s) \in Nat
    BY <2>1, SMT
  <2>3. \A j \in 1 .. Len(t) : r[j] = t[j]
    BY <2>1, SMT
  <2>4. \A j \in 1 .. Len(u) : r[Len(t) + j] = u[j]
    BY <2>1, SMT
  <2> QED BY <2>2, <2>3, <2>4
<1>2. p + Len(r) <= Len(s) /\ \A j \in 1 .. Len(r) : s[p + j] = r[j]
  BY DEF HasAt
<1> HIDE DEF r
<1>3. HasAt(s, p, t)
  <2>1. \A j \in 1 .. Len(t) : j \in 1 .. Len(r)
    BY <1>1
  <2> QED BY <1>1, <1>2, <2>1 DEF HasAt
<1>4. HasAt(s, p + Len(t), u)
  <2>1. \A j \in 1 .. Len(u) : Len(t) + j \in 1 .. Len(r) /\ (p + Len(t)) + j = p + (Len(t) + j)
    BY <1>1
  <2> QED BY <1>1, <1>2, <2>1 DEF HasAt
<1> QED BY <1>3, <1>4

Space == " "

SpaceAfter(i, n) == IF i < n THEN <<Space>> ELSE <<>>

Part(args, i) == Joined(args[i]) \o SpaceAfter(i, Len(args))

LEMMA SpaceIs ==
  /\ Space \in Char /\ IsWhite(Space) /\ <<Space>> \in Strings
  /\ \A i, n : SpaceAfter(i, n) \in Strings
<1>1. Space \in Char /\ IsWhite(Space)
  BY CmdAssumption DEF White, IsWhite, Space
<1>2. <<Space>> \in Strings
  BY <1>1, SMT DEF Strings
<1> QED BY <1>1, <1>2, EmptyStrings DEF SpaceAfter

LEMMA PartType ==
  ASSUME NEW args \in Seq(Strings), NEW i \in 1 .. Len(args)
  PROVE  args[i] \in Strings /\ Joined(args[i]) \in Strings /\ Part(args, i) \in Strings
<1>1. args[i] \in Strings
  BY ElementOfSeq
<1>2. Joined(args[i]) \in Strings /\ SpaceAfter(i, Len(args)) \in Strings
  BY <1>1, JoinedType, SpaceIs
<1> QED BY <1>1, <1>2, HasMore DEF Part

(* The places where the parts begin.                                       *)
LaidOut(args, at) ==
  /\ at[0] = 0 /\ at[Len(args)] = Len(Join(args))
  /\ \A k \in 0 .. Len(args) : at[k] \in Nat
  /\ \A k \in 1 .. Len(args) :
       at[k] = at[k - 1] + Len(Part(args, k)) /\ HasAt(Join(args), at[k - 1], Part(args, k))

LEMMA JoinLaidOut ==
  ASSUME NEW args \in Seq(Strings)
  PROVE  \E at : LaidOut(args, at)
<1> DEFINE n == Len(args)
           parts == [i \in 1 .. n |-> Part(args, i)]
<1>1. n \in Nat /\ \A i \in 1 .. n : Part(args, i) \in Strings
  BY PartType, LenProperties
<1>2. Join(args) = FlattenSeq(parts)
  BY DEF Join, Part, SpaceAfter, Space
<1> HIDE DEF n
<1>3. parts \in Seq(Strings) /\ Len(parts) = n /\ \A i \in 1 .. n : parts[i] = Part(args, i) /\ parts[i] \in Strings
  BY <1>1, SMT
<1> HIDE DEF parts
<1>4. PICK f \in [0 .. Len(parts) -> Seq(Char)] :
        /\ f[0] = <<>>
        /\ \A i \in 1 .. Len(parts) : f[i] = f[i - 1] \o parts[i]
        /\ FlattenSeq(parts) = f[Len(parts)]
  BY <1>3, FlattenSums DEF Strings
<1>5. /\ f[0] = <<>> /\ \A i \in 1 .. n : f[i] = f[i - 1] \o parts[i]
      /\ Join(args) = f[n] /\ \A i \in 0 .. n : f[i] \in Strings
  BY <1>2, <1>3, <1>4 DEF Strings
<1> DEFINE at == [k \in 0 .. n |-> Len(f[k])]
           P == {m \in Nat : m <= n => \A k \in 1 .. m : HasAt(f[m], Len(f[k - 1]), parts[k])}
<1>6. 0 \in P
  OBVIOUS
<1>7. ASSUME NEW m \in Nat, m \in P PROVE m + 1 \in P
  <2> SUFFICES ASSUME m + 1 <= n, NEW k \in 1 .. m + 1 PROVE HasAt(f[m + 1], Len(f[k - 1]), parts[k])
    BY DEF P
  <2>1. m + 1 \in 1 .. n /\ (m + 1) - 1 = m /\ m \in 0 .. n /\ k \in 1 .. n /\ k - 1 \in 0 .. n
    BY <1>1
  <2>2. f[m + 1] = f[m] \o parts[m + 1] /\ f[m] \in Strings /\ parts[m + 1] \in Strings
    BY <1>3, <1>5, <2>1
  <2>3. CASE k = m + 1
    BY <2>1, <2>2, <2>3, HasMore
  <2>4. CASE k # m + 1
    <3>1. k \in 1 .. m
      BY <2>4
    <3>2. HasAt(f[m], Len(f[k - 1]), parts[k])
      BY <1>7, <2>1, <3>1
    <3>3. Len(f[k - 1]) \in Nat /\ parts[k] \in Strings
      BY <1>3, <1>5, <2>1, LenProperties DEF Strings
    <3> QED BY <2>2, <3>2, <3>3, HasMore
  <2> QED BY <2>3, <2>4
<1> HIDE DEF P
<1>8. n \in P
  BY <1>1, <1>6, <1>7, SetInduction
<1>9. \A k \in 1 .. n : HasAt(Join(args), Len(f[k - 1]), parts[k])
  BY <1>1, <1>5, <1>8 DEF P
<1>10. \A k \in 0 .. n : at[k] = Len(f[k]) /\ at[k] \in Nat
  BY <1>5, LenProperties DEF Strings
<1>11. at[0] = 0 /\ at[n] = Len(Join(args))
  BY <1>1, <1>5, <1>10
<1>12. ASSUME NEW k \in 1 .. n
       PROVE  at[k] = at[k - 1] + Len(Part(args, k)) /\ HasAt(Join(args), at[k - 1], Part(args, k))
  <2>1. k - 1 \in 0 .. n /\ k \in 0 .. n
    BY <1>1
  <2>2. f[k - 1] \in Strings /\ parts[k] \in Strings /\ f[k] = f[k - 1] \o parts[k] /\ parts[k] = Part(args, k)
    BY <1>3, <1>5, <2>1
  <2>3. Len(f[k]) = Len(f[k - 1]) + Len(parts[k])
    BY <2>2, HasMore
  <2> QED BY <1>9, <1>10, <2>1, <2>2, <2>3
<1> HIDE DEF at
<1>13. LaidOut(args, at)
  BY <1>10, <1>11, <1>12 DEF LaidOut, n
<1> QED BY <1>13

(* One argument joined.                                                    *)
LEMMA JoinedIs ==
  ASSUME NEW arg \in Strings
  PROVE  LET w == Whites(arg)
             j == Joined(arg)
         IN  /\ w \in Nat /\ Len(arg) \in Nat /\ Len(j) = w + Len(arg) + (IF w = 0 THEN 0 ELSE 1)
             /\ \A i \in 1 .. w : j[i] = Quote
             /\ \A i \in 1 .. Len(arg) : j[w + i] = arg[i]
             /\ w # 0 => j[Len(j)] = Quote
<1> DEFINE w == Whites(arg)
           opened == [i \in 1 .. w |-> Quote]
           closed == IF opened = <<>> THEN <<>> ELSE <<Quote>>
           j == (opened \o arg) \o closed
<1>1. w \in Nat /\ Len(arg) \in Nat
  BY WhitesAre
<1>2. Quote \in Char
  BY CmdAssumption
<1>3. Joined(arg) = j
  BY DEF Joined
<1>4. opened \in Strings /\ Len(opened) = w /\ \A i \in 1 .. w : opened[i] = Quote
  <2> HIDE DEF w
  <2> QED BY <1>1, <1>2, SMT DEF Strings
<1>5. opened = <<>> <=> w = 0
  <2>1. w = 0 => opened = <<>>
    <3> HIDE DEF w
    <3> QED BY <1>4, SMT DEF Strings
  <2>2. opened = <<>> => w = 0
    BY <1>4
  <2> QED BY <2>1, <2>2
<1>6. closed \in Strings /\ Len(closed) = (IF w = 0 THEN 0 ELSE 1) /\ (w # 0 => closed[1] = Quote)
  <2>1. <<Quote>> \in Strings /\ Len(<<Quote>>) = 1 /\ <<Quote>>[1] = Quote
    BY <1>2, SMT DEF Strings
  <2>2. Len(<<>>) = 0
    OBVIOUS
  <2> QED BY <1>5, <2>1, <2>2, EmptyStrings
<1> HIDE DEF opened, closed
<1> DEFINE o == opened \o arg
<1>7. o \in Strings /\ Len(o) = w + Len(arg) /\ HasAt(o, 0, opened) /\ HasAt(o, w, arg)
  <2>1. HasAt(opened, 0, opened)
    BY <1>1, <1>4 DEF HasAt
  <2> QED BY <1>4, <2>1, HasMore
<1> HIDE DEF o
<1>8. HasAt(j, 0, opened) /\ HasAt(j, w, arg) /\ HasAt(j, Len(o), closed) /\ Len(j) = Len(o) + Len(closed)
  BY <1>1, <1>4, <1>6, <1>7, HasMore DEF o
<1> HIDE DEF j, w
<1>9. \A i \in 1 .. w : j[i] = Quote
  <2>1. \A i \in 1 .. w : 0 + i = i
    OBVIOUS
  <2> QED BY <1>4, <1>8, <2>1 DEF HasAt
<1>10. \A i \in 1 .. Len(arg) : j[w + i] = arg[i]
  BY <1>8 DEF HasAt
<1>11. Len(j) = w + Len(arg) + (IF w = 0 THEN 0 ELSE 1)
  BY <1>6, <1>7, <1>8
<1>12. ASSUME w # 0 PROVE j[Len(j)] = Quote
  <2>1. Len(closed) = 1 /\ closed[1] = Quote /\ 1 \in 1 .. 1
    BY <1>6, <1>12
  <2>2. j[Len(o) + 1] = Quote
    BY <1>8, <2>1 DEF HasAt
  <2> QED BY <1>8, <2>1, <2>2
<1> QED BY <1>1, <1>3, <1>9, <1>10, <1>11, <1>12 DEF w

LEMMA JoinedWhites ==
  ASSUME NEW arg \in Strings
  PROVE  Whites(Joined(arg)) = Whites(arg)
<1> DEFINE w == Whites(arg)
           j == Joined(arg)
           m == Len(arg)
<1>1. /\ w \in Nat /\ m \in Nat /\ Len(j) = w + m + (IF w = 0 THEN 0 ELSE 1)
      /\ \A i \in 1 .. w : j[i] = Quote
      /\ \A i \in 1 .. m : j[w + i] = arg[i]
      /\ w # 0 => j[Len(j)] = Quote
  BY JoinedIs
<1>2. j \in Strings
  BY JoinedType
<1>3. Whites(j) = WhitesTo(j, Len(j)) /\ w = WhitesTo(arg, m)
  BY <1>2, WhitesAre
<1> HIDE DEF w, j, m
<1>4. WhitesTo(j, w) = 0
  <2>1. \A i \in 1 .. w : ~IsWhite(j[i])
    BY <1>1, QuoteIsNoWhite
  <2> QED BY <1>1, <2>1, WhitesNone
<1>5. WhitesTo(j, w + m) = w
  <2>1. WhitesTo(j, w + m) = WhitesTo(j, w) + WhitesTo(arg, m)
    <3>1. Goes(j, w, arg, m)
      BY <1>1 DEF Goes
    <3> QED BY <1>1, <3>1, WhitesMoved
  <2> QED BY <1>1, <1>3, <1>4, <2>1
<1>6. CASE w = 0
  BY <1>1, <1>3, <1>5, <1>6 DEF w, j
<1>7. CASE w # 0
  <2> DEFINE k == w + m
  <2>1. k \in Nat /\ Len(j) = k + 1
    BY <1>1, <1>7
  <2>2. ~IsWhite(j[k + 1])
    BY <1>1, <1>7, <2>1, QuoteIsNoWhite
  <2> HIDE DEF k
  <2>3. WhitesTo(j, k + 1) = WhitesTo(j, k) + (IF IsWhite(j[k + 1]) THEN 1 ELSE 0) /\ WhitesTo(j, k) \in Nat
    BY <2>1, WhitesToNext
  <2>4. WhitesTo(j, Len(j)) = WhitesTo(j, k)
    BY <2>1, <2>2, <2>3
  <2> QED BY <1>3, <1>5, <2>4 DEF k, w, j
<1> QED BY <1>6, <1>7

LEMMA PartWhites ==
  ASSUME NEW args \in Seq(Strings), NEW i \in 1 .. Len(args)
  PROVE  Whites(Part(args, i)) = Whites(args[i]) + (IF i < Len(args) THEN 1 ELSE 0)
<1> DEFINE j == Joined(args[i])
<1>1. args[i] \in Strings /\ j \in Strings /\ Part(args, i) \in Strings
  BY PartType
<1>2. Whites(j) = Whites(args[i]) /\ Whites(j) \in Nat
  BY <1>1, JoinedWhites, WhitesAre
<1> HIDE DEF j
<1>3. CASE i < Len(args)
  <2>1. Part(args, i) = Append(j, Space)
    <3>1. Part(args, i) = j \o <<Space>>
      BY <1>3 DEF Part, SpaceAfter, j
    <3> QED BY <1>1, <3>1, SpaceIs, AppendIsConcat DEF Strings
  <2>2. Whites(Append(j, Space)) = Whites(j) + 1
    BY <1>1, SpaceIs, AppendWhites
  <2> QED BY <1>2, <1>3, <2>1, <2>2
<1>4. CASE ~(i < Len(args))
  <2>1. Part(args, i) = j
    BY <1>1, <1>4, ConcatEmptySeq DEF Part, SpaceAfter, j, Strings
  <2> QED BY <1>2, <1>4, <2>1
<1> QED BY <1>3, <1>4

(* A text has the white space of its arguments and that between them.      *)
LEMMA JoinWhites ==
  ASSUME NEW args \in Seq(Strings), Len(args) # 0
  PROVE  Whites(Join(args)) + 1 = WhitesIn(args) + Len(args) /\ WhitesIn(args) \in Nat
<1> DEFINE n == Len(args)
           text == Join(args)
<1>1. n \in Nat /\ n # 0 /\ text \in Strings /\ \A i \in 1 .. n : args[i] \in Strings
  BY PartType, JoinType, LenProperties
<1>2. PICK at : LaidOut(args, at)
  BY JoinLaidOut
<1>3. /\ at[0] = 0 /\ at[n] = Len(text) /\ \A k \in 0 .. n : at[k] \in Nat
      /\ \A k \in 1 .. n : at[k] = at[k - 1] + Len(Part(args, k)) /\ HasAt(text, at[k - 1], Part(args, k))
  BY <1>2 DEF LaidOut
<1> DEFINE Sum(k) == WhitesTo(text, at[k]) = WhitesUpTo(args, k) + (IF k < n THEN k ELSE n - 1)
           P == {k \in Nat : k <= n => Sum(k)}
<1>4. 0 \in P
  <2>1. WhitesTo(text, 0) = 0
    BY WhitesToNext
  <2>2. WhitesUpTo(args, 0) = 0
    <3>1. \A i \in 1 .. 0 + 1 : i \in 1 .. n
      BY <1>1
    <3>2. \A i \in 1 .. 0 + 1 : args[i] \in Strings
      BY <1>1, <3>1
    <3> QED BY <3>2, WhitesUpToNext
  <2> HIDE DEF text, n
  <2> QED BY <1>1, <1>3, <2>1, <2>2
<1> HIDE DEF text
<1>5. ASSUME NEW k \in Nat, k \in P PROVE k + 1 \in P
  <2> SUFFICES ASSUME k + 1 <= n PROVE Sum(k + 1)
    BY DEF P
  <2> DEFINE part == Part(args, k + 1)
             p == at[k]
             m == Len(part)
  <2>1. k + 1 \in 1 .. n /\ (k + 1) - 1 = k /\ k \in 0 .. n /\ k < n /\ \A i \in 1 .. k + 1 : i \in 1 .. n
    BY <1>1
  <2>2. Sum(k)
    BY <1>5, <2>1
  <2>3. at[k + 1] = p + m /\ p \in Nat /\ \A j \in 1 .. m : text[p + j] = part[j]
    <3>1. at[k + 1] = at[(k + 1) - 1] + Len(part) /\ HasAt(text, at[(k + 1) - 1], part)
      BY <1>3, <2>1
    <3>2. at[k] \in Nat
      BY <1>3, <2>1
    <3> QED BY <2>1, <3>1, <3>2 DEF HasAt
  <2>4. m \in Nat /\ WhitesTo(part, m) = Whites(args[k + 1]) + (IF k + 1 < n THEN 1 ELSE 0) /\ Whites(args[k + 1]) \in Nat
    <3>1. part \in Strings /\ args[k + 1] \in Strings
      BY <2>1, PartType
    <3>2. Whites(part) = Whites(args[k + 1]) + (IF k + 1 < n THEN 1 ELSE 0)
      BY <2>1, PartWhites
    <3> QED BY <3>1, <3>2, WhitesAre
  <2> HIDE DEF part, m, p
  <2>5. WhitesTo(text, p + m) = WhitesTo(text, p) + WhitesTo(part, m)
    <3>1. Goes(text, p, part, m)
      BY <2>3 DEF Goes
    <3> QED BY <2>3, <2>4, <3>1, WhitesMoved
  <2>6. WhitesUpTo(args, k + 1) = WhitesUpTo(args, k) + Whites(args[k + 1]) /\ WhitesUpTo(args, k) \in Nat
    <3>1. \A i \in 1 .. k + 1 : args[i] \in Strings
      BY <1>1, <2>1
    <3> QED BY <3>1, WhitesUpToNext
  <2>7. WhitesTo(text, p) = WhitesUpTo(args, k) + k
    BY <2>1, <2>2 DEF p
  <2>8. WhitesTo(text, at[k + 1]) = (WhitesUpTo(args, k) + k) + (Whites(args[k + 1]) + (IF k + 1 < n THEN 1 ELSE 0))
    BY <2>3, <2>4, <2>5, <2>7
  <2>9. k + (IF k + 1 < n THEN 1 ELSE 0) = IF k + 1 < n THEN k + 1 ELSE n - 1
    BY <1>1, <2>1
  <2>10. WhitesTo(text, at[k + 1]) = WhitesUpTo(args, k + 1) + (IF k + 1 < n THEN k + 1 ELSE n - 1)
    <3> DEFINE a == WhitesUpTo(args, k)
               b == Whites(args[k + 1])
               e == IF k + 1 < n THEN 1 ELSE 0
               e2 == IF k + 1 < n THEN k + 1 ELSE n - 1
               x == WhitesTo(text, at[k + 1])
               y == WhitesUpTo(args, k + 1)
    <3>1. a \in Nat /\ b \in Nat /\ e \in Nat /\ k + e = e2 /\ x = (a + k) + (b + e) /\ y = a + b
      BY <2>4, <2>6, <2>8, <2>9
    <3> HIDE DEF a, b, e, e2, x, y
    <3>2. x = y + e2
      BY <3>1
    <3> QED BY <3>2 DEF x, y, e2
  <2> QED BY <2>10
<1> HIDE DEF P
<1>6. n \in P
  BY <1>1, <1>4, <1>5, SetInduction
<1>7. Sum(n)
  BY <1>1, <1>6 DEF P
<1>8. Whites(text) = WhitesTo(text, at[n])
  BY <1>1, <1>3, WhitesAre
<1>9. WhitesUpTo(args, n) \in Nat
  <2>1. \A i \in 1 .. (n - 1) + 1 : args[i] \in Strings
    BY <1>1
  <2> DEFINE k == n - 1
  <2>2. k \in Nat /\ k + 1 = n
    BY <1>1
  <2> HIDE DEF k
  <2>3. \A i \in 1 .. k + 1 : args[i] \in Strings
    BY <1>1, <2>2
  <2>4. WhitesUpTo(args, k + 1) = WhitesUpTo(args, k) + Whites(args[k + 1]) /\ WhitesUpTo(args, k) \in Nat
    BY <2>2, <2>3, WhitesUpToNext
  <2>5. Whites(args[k + 1]) \in Nat
    <3>1. args[k + 1] \in Strings
      BY <1>1, <2>2
    <3> QED BY <3>1, WhitesAre
  <2> QED BY <2>2, <2>4, <2>5
<1> HIDE DEF n
<1> QED BY <1>1, <1>7, <1>8, <1>9 DEF WhitesIn, n, text

-----------------------------------------------------------------------------
(* What trimming takes away.                                               *)
LEMMA TrimPlaces ==
  ASSUME NEW s \in Strings, Trim(s) # <<>>
  PROVE  \E a, b \in 1 .. Len(s) :
           /\ a <= b /\ ~IsWhite(s[a]) /\ ~IsWhite(s[b])
           /\ \A i \in 1 .. Len(s) : ~IsWhite(s[i]) => a <= i /\ i <= b
           /\ Trim(s) = SubSeq(s, a, b) /\ Len(Trim(s)) = b - a + 1
           /\ \A i \in 1 .. b - a + 1 : Trim(s)[i] = s[(a - 1) + i]
<1>1. PICK a \in Printed(s), b \in Printed(s) :
        /\ \A i \in Printed(s) : a <= i /\ i <= b
        /\ Trim(s) = SubSeq(s, a, b)
  BY TrimIs
<1>2. Len(s) \in Nat /\ a \in 1 .. Len(s) /\ b \in 1 .. Len(s) /\ a <= b
      /\ ~IsWhite(s[a]) /\ ~IsWhite(s[b]) /\ \A i \in 1 .. Len(s) : ~IsWhite(s[i]) => i \in Printed(s)
  BY <1>1, SMT DEF Strings, Printed, IsPrinted, IsWhite
<1>3. Len(SubSeq(s, a, b)) = b - a + 1 /\ \A i \in 1 .. b - a + 1 : SubSeq(s, a, b)[i] = s[(a - 1) + i]
  BY <1>2, SMT DEF Strings
<1> QED BY <1>1, <1>2, <1>3

LEMMA TrimWhites ==
  ASSUME NEW s \in Strings, Trim(s) # <<>>
  PROVE  /\ Whites(Trim(s)) \in Nat /\ Whites(Trim(s)) <= Whites(s) /\ ~IsWhite(Trim(s)[Len(Trim(s))])
         /\ IsWhite(s[1]) \/ IsWhite(s[Len(s)]) => Whites(Trim(s)) < Whites(s)
<1> DEFINE t == Trim(s)
           n == Len(s)
           m == Len(t)
<1>1. PICK a \in 1 .. n, b \in 1 .. n :
        /\ a <= b /\ ~IsWhite(s[a]) /\ ~IsWhite(s[b])
        /\ m = b - a + 1 /\ \A i \in 1 .. b - a + 1 : t[i] = s[(a - 1) + i]
  BY TrimPlaces
<1>2. t \in Strings
  BY TrimType
<1>3. Whites(t) = WhitesTo(t, m) /\ Whites(s) = WhitesTo(s, n) /\ n \in Nat /\ m \in Nat
  BY <1>2, WhitesAre
<1> HIDE DEF t, n, m
<1> DEFINE c == a - 1
<1>4. c \in Nat /\ c + m = b /\ m >= 1 /\ \A i \in 1 .. m : s[c + i] = t[i]
  BY <1>1, <1>3
<1> HIDE DEF c
<1>5. WhitesTo(s, b) = WhitesTo(s, c) + WhitesTo(t, m)
  <2>1. WhitesTo(s, c + m) = WhitesTo(s, c) + WhitesTo(t, m)
    <3>1. Goes(s, c, t, m)
      BY <1>4 DEF Goes
    <3>2. c \in Nat /\ m \in Nat
      BY <1>3, <1>4
    <3> QED BY <3>1, <3>2, WhitesMoved
  <2> QED BY <1>4, <2>1
<1>6. WhitesTo(s, c) \in Nat /\ WhitesTo(t, m) \in Nat /\ WhitesTo(s, b) \in Nat /\ WhitesTo(s, n) \in Nat
  <2>1. c \in Nat /\ m \in Nat /\ b \in Nat /\ n \in Nat
    BY <1>1, <1>3, <1>4
  <2>2. \A x \in Nat : WhitesTo(s, x) \in Nat /\ WhitesTo(t, x) \in Nat
    BY WhitesToNext
  <2> QED BY <2>1, <2>2
<1>7. WhitesTo(s, b) <= WhitesTo(s, n)
  BY <1>1, <1>3, WhitesMore
<1>8. ~IsWhite(t[m])
  <2>1. m \in 1 .. m /\ c + m = b
    BY <1>3, <1>4
  <2> QED BY <1>1, <1>4, <2>1
<1>9. ASSUME IsWhite(s[1]) PROVE WhitesTo(s, c) >= 1
  <2>1. a # 1
    BY <1>1, <1>9
  <2>2. c \in Nat /\ 1 <= c
    BY <1>1, <1>4, <2>1 DEF c
  <2>3. WhitesTo(s, 0 + 1) = WhitesTo(s, 0) + (IF IsWhite(s[0 + 1]) THEN 1 ELSE 0) /\ WhitesTo(s, 0) = 0
    BY WhitesToNext
  <2>4. WhitesTo(s, 1) = 1
    BY <1>9, <2>3
  <2>5. WhitesTo(s, 1) <= WhitesTo(s, c)
    BY <2>2, WhitesMore
  <2> QED BY <1>6, <2>4, <2>5
<1>10. ASSUME IsWhite(s[n]) PROVE WhitesTo(s, b) < WhitesTo(s, n)
  <2> DEFINE k == n - 1
  <2>1. b # n
    BY <1>1, <1>10
  <2>2. k \in Nat /\ k + 1 = n /\ b <= k /\ b \in Nat
    BY <1>1, <1>3, <2>1
  <2> HIDE DEF k
  <2>3. WhitesTo(s, b) <= WhitesTo(s, k)
    BY <2>2, WhitesMore
  <2>4. WhitesTo(s, k + 1) = WhitesTo(s, k) + (IF IsWhite(s[k + 1]) THEN 1 ELSE 0) /\ WhitesTo(s, k) \in Nat
    BY <2>2, WhitesToNext
  <2>5. WhitesTo(s, n) = WhitesTo(s, k) + 1
    BY <1>10, <2>2, <2>4
  <2> QED BY <1>6, <2>3, <2>4, <2>5
<1>11. Whites(t) \in Nat /\ Whites(t) <= Whites(s) /\ (IsWhite(s[1]) \/ IsWhite(s[n]) => Whites(t) < Whites(s))
  BY <1>3, <1>5, <1>6, <1>7, <1>9, <1>10
<1> QED BY <1>8, <1>11 DEF t, n, m

(* The arguments of a text that does not begin with white space, by a run  *)
(* over the whole of it.                                                   *)
LEMMA SplitRuns ==
  ASSUME NEW s \in Strings, s # <<>>, ~IsWhite(s[1]), NEW g, Runs(g, s)
  PROVE  \E b \in 1 .. Len(s) :
           /\ \A i \in 1 .. Len(s) : ~IsWhite(s[i]) => i <= b
           /\ Split(s) = Append(g[b].array, Unquoted(g[b].sub_str))
           /\ b = Len(s) => Trim(s) = s
<1> DEFINE t == Trim(s)
           n == Len(s)
<1>1. n \in Nat /\ n >= 1 /\ 1 \in 1 .. n
  BY SMT DEF Strings
<1>2. t # <<>>
  <2>1. 1 \in Printed(s)
    BY <1>1 DEF Printed, IsPrinted, IsWhite
  <2>2. PICK a \in Printed(s), b \in Printed(s) :
          /\ \A i \in Printed(s) : a <= i /\ i <= b
          /\ t = SubSeq(s, a, b)
    BY <2>1, TrimIs
  <2>3. a \in 1 .. n /\ b \in 1 .. n /\ a <= b
    <3>1. a \in 1 .. n /\ b \in 1 .. n /\ a <= b
      BY <2>2 DEF Printed
    <3> QED BY <3>1
  <2>4. Len(SubSeq(s, a, b)) = b - a + 1
    BY <2>3, SMT DEF Strings
  <2>5. Len(t) # 0
    BY <2>2, <2>3, <2>4
  <2> QED BY <2>5
<1>3. PICK a \in 1 .. n, b \in 1 .. n :
           /\ a <= b
           /\ \A i \in 1 .. n : ~IsWhite(s[i]) => a <= i /\ i <= b
           /\ t = SubSeq(s, a, b) /\ Len(t) = b - a + 1
           /\ \A i \in 1 .. b - a + 1 : t[i] = s[(a - 1) + i]
  BY <1>2, TrimPlaces
<1>4. a = 1
  BY <1>1, <1>3
<1>5. Len(t) = b /\ b \in Nat /\ \A i \in 1 .. b : t[i] = s[i]
  BY <1>3, <1>4
<1>6. t \in Strings
  BY TrimType
<1> HIDE DEF t
<1>7. PICK f : Runs(f, t) /\ FoldLeft(Scan, Start, t) = f[Len(t)]
  BY <1>6, RunExists
<1> DEFINE P == {i \in Nat : i <= b => f[i] = g[i]}
<1>8. 0 \in P
  BY <1>7 DEF Runs
<1>9. ASSUME NEW i \in Nat, i \in P PROVE i + 1 \in P
  <2> SUFFICES ASSUME i + 1 <= b PROVE f[i + 1] = g[i + 1]
    BY DEF P
  <2>1. i + 1 \in 1 .. b /\ i + 1 \in 1 .. n /\ (i + 1) - 1 = i /\ i <= b
    BY <1>3, <1>5
  <2>2. f[i + 1] = Scan(f[i], t[i + 1])
    BY <1>5, <1>7, <2>1 DEF Runs
  <2>3. g[i + 1] = Scan(g[i], s[i + 1])
    BY <2>1 DEF Runs
  <2> QED BY <1>5, <1>9, <2>1, <2>2, <2>3
<1> HIDE DEF P
<1>10. b \in P
  BY <1>5, <1>8, <1>9, SetInduction
<1>11. f[b] = g[b]
  BY <1>5, <1>10 DEF P
<1>12. Split(s) = Append(g[b].array, Unquoted(g[b].sub_str))
  BY <1>5, <1>7, <1>11 DEF Split, Start, t
<1>13. ASSUME b = n PROVE t = s
  <2>1. SubSeq(s, 1, Len(s)) = s
    BY SMT DEF Strings
  <2> QED BY <1>3, <1>4, <1>13, <2>1
<1> QED BY <1>3, <1>12, <1>13 DEF t

-----------------------------------------------------------------------------
(* A plain argument, joined and scanned.                                   *)
LEMMA SameString ==
  ASSUME NEW u \in Strings, NEW v \in Strings, Len(u) = Len(v), \A i \in 1 .. Len(u) : u[i] = v[i]
  PROVE  u = v
BY SeqEqual DEF Strings

LEMMA HasIs ==
  ASSUME NEW s \in Strings, NEW t \in Strings, NEW p \in Nat, HasAt(s, p, t)
  PROVE  SubSeq(s, p + 1, p + Len(t)) = t
<1> DEFINE n == Len(t)
           a == p + 1
           b == p + n
           u == SubSeq(s, a, b)
<1>1. n \in Nat /\ Len(s) \in Nat /\ b <= Len(s)
  BY SMT DEF Strings, HasAt
<1>2. s \in Seq(Char) /\ t \in Seq(Char)
  BY DEF Strings
<1> HIDE DEF n
<1>3. a \in Nat /\ b \in Nat /\ 1 <= a /\ a <= b + 1 /\ b - a + 1 = n
  BY <1>1
<1>4. \A i \in 1 .. n : s[a + i - 1] = t[i]
  <2>1. \A i \in 1 .. n : s[p + i] = t[i] /\ a + i - 1 = p + i
    BY <1>1 DEF HasAt, n
  <2> QED BY <2>1
<1> HIDE DEF a, b
<1>5. Len(u) = n
  BY <1>1, <1>2, <1>3, SMT
<1>6. \A i \in 1 .. n : u[i] = s[a + i - 1]
  BY <1>1, <1>2, <1>3, SMT
<1>7. u \in Strings
  BY <1>1, <1>2, <1>3, SMT DEF Strings
<1> HIDE DEF u
<1>8. u = t
  BY <1>4, <1>5, <1>6, <1>7, SameString DEF n
<1> QED BY <1>8 DEF u, a, b, n

LEMMA JoinedPlain ==
  ASSUME NEW arg \in Strings, Plain(arg)
  PROVE  LET j == Joined(arg)
             w == Whites(arg)
         IN  /\ j \in Strings /\ Len(j) \in Nat /\ Len(j) >= 1 /\ Unquoted(j) = arg
             /\ ~IsWhite(j[1]) /\ ~IsWhite(j[Len(j)])
             /\ \/ w = 0 /\ \A i \in 1 .. Len(j) : j[i] # Quote /\ ~IsWhite(j[i])
                \/ /\ w = 1 /\ Len(j) >= 2 /\ j[1] = Quote /\ j[Len(j)] = Quote
                   /\ \A i \in 2 .. Len(j) - 1 : j[i] # Quote
<1> DEFINE j == Joined(arg)
           w == Whites(arg)
           m == Len(arg)
           u == Unquoted(j)
<1>1. /\ w \in Nat /\ m \in Nat /\ Len(j) = w + m + (IF w = 0 THEN 0 ELSE 1)
      /\ \A i \in 1 .. w : j[i] = Quote
      /\ \A i \in 1 .. m : j[w + i] = arg[i]
      /\ w # 0 => j[Len(j)] = Quote
  BY JoinedIs
<1>2. j \in Strings /\ u \in Strings
  BY JoinedType, UnquotedType
<1>3. w <= 1 /\ arg # <<>> /\ \A i \in 1 .. m : arg[i] # Quote
  <2>1. DOMAIN arg = 1 .. m
    BY SMT DEF Strings
  <2> QED BY <2>1 DEF Plain, ToSet
<1>4. m # 0
  BY <1>3, EmptySeq DEF Strings
<1>5. w = 0 => \A i \in 1 .. m : ~IsWhite(arg[i])
  BY WhitesAre
<1>6. \/ u = j
      \/ j = <<Quote>> /\ u = <<>>
      \/ /\ Len(j) >= 2 /\ j[1] = Quote /\ j[Len(j)] = Quote
         /\ Len(u) = Len(j) - 2 /\ \A i \in 1 .. Len(j) - 2 : u[i] = j[i + 1]
  BY <1>2, UnquotedIs
<1>7. ASSUME Len(j) >= 2, j[1] = Quote, j[Len(j)] = Quote
      PROVE  u = SubSeq(j, 2, Len(j) - 1)
  <2> HIDE DEF j
  <2>1. j # <<>> /\ Head(j) = Quote /\ Last(j) = Quote
    BY <1>2, <1>7, SMT DEF Last, Strings
  <2> QED BY <2>1 DEF Unquoted
<1> HIDE DEF j, w, m, u
<1>8. CASE w = 0
  <2>1. Len(j) = m /\ m >= 1 /\ 1 \in 1 .. m /\ m \in 1 .. m
    BY <1>1, <1>4, <1>8
  <2>2. \A i \in 1 .. m : j[i] = arg[i]
    <3>1. \A i \in 1 .. m : w + i = i
      BY <1>8
    <3> QED BY <1>1, <3>1
  <2>3. j = arg
    BY <1>2, <2>1, <2>2, SameString DEF m
  <2>4. \A i \in 1 .. m : j[i] # Quote /\ ~IsWhite(j[i])
    BY <1>3, <1>5, <1>8, <2>2
  <2>5. u = j
    <3>1. j[1] # Quote
      BY <2>1, <2>4
    <3>2. j # <<Quote>>
      <4>1. <<Quote>>[1] = Quote
        OBVIOUS
      <4> QED BY <3>1, <4>1
    <3> QED BY <1>6, <3>1, <3>2, Zenon
  <2>6. u = arg
    BY <2>3, <2>5
  <2>7. ~IsWhite(j[1]) /\ ~IsWhite(j[Len(j)])
    BY <2>1, <2>4
  <2>8. \A i \in 1 .. Len(j) : j[i] # Quote /\ ~IsWhite(j[i])
    BY <2>1, <2>4
  <2> QED BY <1>1, <1>2, <1>8, <2>1, <2>6, <2>7, <2>8 DEF j, w, u
<1>9. CASE w = 1
  <2>1. Len(j) = m + 2 /\ Len(j) >= 2 /\ m >= 1 /\ Len(j) \in Nat /\ Len(j) >= 1
    BY <1>1, <1>4, <1>9
  <2>2. j[1] = Quote /\ j[Len(j)] = Quote
    <3>1. 1 \in 1 .. w /\ w # 0
      BY <1>9
    <3> QED BY <1>1, <3>1
  <2>3. \A i \in 1 .. m : j[i + 1] = arg[i]
    <3>1. \A i \in 1 .. m : w + i = i + 1
      BY <1>1, <1>9
    <3> QED BY <1>1, <3>1
  <2>4. \A i \in 2 .. Len(j) - 1 : j[i] # Quote
    <3>1. \A i \in 2 .. Len(j) - 1 : i - 1 \in 1 .. m /\ (i - 1) + 1 = i
      BY <1>1, <2>1
    <3> QED BY <1>3, <2>3, <3>1
  <2>5. u = SubSeq(j, 2, Len(j) - 1)
    BY <1>7, <2>1, <2>2
  <2>6. HasAt(j, 1, arg) /\ 1 \in Nat /\ 1 + 1 = 2 /\ 1 + m = Len(j) - 1
    <3>1. \A i \in 1 .. m : 1 + i = i + 1
      BY <1>1
    <3>2. \A i \in 1 .. m : j[1 + i] = arg[i]
      BY <2>3, <3>1
    <3> QED BY <1>1, <2>1, <3>2 DEF HasAt, m
  <2>7. SubSeq(j, 1 + 1, 1 + m) = arg
    BY <1>2, <2>6, HasIs DEF m
  <2>8. u = arg
    BY <2>5, <2>6, <2>7
  <2>9. ~IsWhite(j[1]) /\ ~IsWhite(j[Len(j)])
    BY <2>2, QuoteIsNoWhite
  <2> QED BY <1>2, <1>9, <2>1, <2>2, <2>4, <2>8, <2>9 DEF j, w, u
<1> QED BY <1>1, <1>3, <1>8, <1>9

(* A scan that is about to begin an argument.                              *)
Ready(scan) == scan \in ScanType /\ ~scan.in_quotes /\ (scan.skips \/ scan.sub_str = <<>>)

LEMMA ReadyGoes ==
  ASSUME NEW s \in Strings, NEW g, Runs(g, s), NEW p \in Nat, p + 1 <= Len(s), Ready(g[p]), ~IsWhite(s[p + 1])
  PROVE  /\ g[p + 1] \in ScanType /\ g[p + 1].array = g[p].array /\ ~g[p + 1].skips
         /\ g[p + 1].sub_str = SubSeq(s, p + 1, p + 1)
         /\ g[p + 1].in_quotes <=> s[p + 1] = Quote
<1> DEFINE scan == g[p]
           c == s[p + 1]
           next == Scan(scan, c)
           q == p + 1
<1>1. scan \in ScanType /\ c \in Char /\ g[q] = next /\ q \in 1 .. Len(s)
  BY RunsStep
<1>2. next \in ScanType
  BY <1>1, ScanTyped
<1>3. ~scan.in_quotes /\ (scan.skips \/ scan.sub_str = <<>>) /\ ~IsWhite(c)
  BY DEF Ready
<1>4. SubSeq(s, q, q) = <<s[q]>>
  <2> HIDE DEF q
  <2>1. s \in Seq(Char) /\ q \in 1 .. Len(s)
    BY <1>1 DEF Strings
  <2>2. Len(SubSeq(s, q, q)) = 1 /\ SubSeq(s, q, q)[1] = s[q] /\ SubSeq(s, q, q) \in Seq(Char)
    BY <2>1, SMT
  <2> DEFINE u == SubSeq(s, q, q)
             v == <<s[q]>>
  <2>3. s[q] \in Char
    BY <2>1
  <2>4. v \in Strings /\ Len(v) = 1 /\ v[1] = s[q]
    BY <2>3, SMT DEF Strings
  <2>5. u \in Strings /\ Len(u) = 1 /\ u[1] = s[q]
    BY <2>2 DEF Strings
  <2> HIDE DEF u, v
  <2>6. \A i \in 1 .. 1 : u[i] = v[i]
    BY <2>4, <2>5
  <2>7. u = v
    BY <2>4, <2>5, <2>6, SameString
  <2> QED BY <2>7 DEF u, v
<1> HIDE DEF scan, c
<1>5. /\ next.array = scan.array
      /\ next.sub_str = IF scan.skips THEN <<c>> ELSE Append(scan.sub_str, c)
      /\ ~next.skips
      /\ next.in_quotes = IF c = Quote THEN ~scan.in_quotes ELSE scan.in_quotes
  BY <1>1, <1>3, ScanGoes
<1> HIDE DEF next
<1>6. Append(<<>>, c) = <<c>>
  OBVIOUS
<1>7. next.sub_str = <<c>>
  BY <1>3, <1>5, <1>6
<1>8. next.in_quotes <=> c = Quote
  BY <1>3, <1>5
<1> HIDE DEF q
<1>9. s[q] = c
  BY DEF c, q
<1> QED BY <1>1, <1>2, <1>4, <1>5, <1>7, <1>8, <1>9 DEF q, scan, c

LEMMA ArgScanned ==
  ASSUME NEW s \in Strings, NEW g, Runs(g, s), NEW p \in Nat, NEW arg \in Strings, Plain(arg),
         HasAt(s, p, Joined(arg)), Ready(g[p])
  PROVE  LET e == p + Len(Joined(arg))
         IN  /\ e \in Nat /\ e <= Len(s) /\ e >= p + 1 /\ g[e] \in ScanType /\ g[e].array = g[p].array
             /\ g[e].sub_str = Joined(arg) /\ ~g[e].in_quotes /\ ~g[e].skips
<1> DEFINE j == Joined(arg)
           n == Len(j)
           w == Whites(arg)
           e == p + n
           q == p + 1
<1>1. /\ j \in Strings /\ n \in Nat /\ n >= 1
      /\ ~IsWhite(j[1]) /\ ~IsWhite(j[n])
      /\ \/ w = 0 /\ \A i \in 1 .. n : j[i] # Quote /\ ~IsWhite(j[i])
         \/ /\ w = 1 /\ n >= 2 /\ j[1] = Quote /\ j[n] = Quote
            /\ \A i \in 2 .. n - 1 : j[i] # Quote
  BY JoinedPlain
<1>2. e <= Len(s) /\ \A i \in 1 .. n : s[p + i] = j[i]
  BY DEF HasAt
<1>3. SubSeq(s, q, e) = j
  BY <1>1, HasIs
<1> HIDE DEF j, n, w
<1>4. Len(s) \in Nat /\ e \in Nat /\ q \in Nat /\ 1 <= q /\ q <= e /\ q <= Len(s) /\ 1 \in 1 .. n /\ n \in 1 .. n
  BY <1>1, <1>2, SMT DEF Strings
<1>5. s[q] = j[1] /\ s[e] = j[n]
  BY <1>2, <1>4
<1>6. /\ g[q] \in ScanType /\ g[q].array = g[p].array /\ ~g[q].skips
      /\ g[q].sub_str = SubSeq(s, q, q)
      /\ g[q].in_quotes <=> s[q] = Quote
  BY <1>1, <1>4, <1>5, ReadyGoes
<1>7. g[e] \in ScanType
  BY <1>2, <1>4, RunsTyped
<1>8. CASE w = 0 /\ \A i \in 1 .. n : j[i] # Quote /\ ~IsWhite(j[i])
  <2>1. \A i \in q + 1 .. e : s[i] # Quote /\ ~IsWhite(s[i])
    <3>1. \A i \in q + 1 .. e : i - p \in 1 .. n /\ p + (i - p) = i
      BY <1>1, <1>4
    <3> QED BY <1>2, <1>8, <3>1
  <2>2. s[q] # Quote
    BY <1>4, <1>5, <1>8
  <2> HIDE DEF q, e
  <2>3. /\ g[e].array = g[q].array /\ g[e].sub_str = SubSeq(s, q, e)
        /\ ~g[e].skips /\ (g[e].in_quotes <=> g[q].in_quotes)
    <3>1. q <= q /\ e <= Len(s)
      BY <1>2, <1>4
    <3>2. \A i \in q + 1 .. e : s[i] # Quote /\ (g[q].in_quotes \/ ~IsWhite(s[i]))
      BY <2>1
    <3>3. q \in Nat /\ e \in Nat /\ 1 <= q /\ q <= e
      BY <1>4
    <3>4. ~g[q].skips /\ g[q].sub_str = SubSeq(s, q, q)
      BY <1>6
    <3> QED BY <3>1, <3>2, <3>3, <3>4, RunOn
  <2> QED BY <1>2, <1>3, <1>4, <1>6, <1>7, <2>2, <2>3 DEF q, e, n, j
<1>9. CASE /\ w = 1 /\ n >= 2 /\ j[1] = Quote /\ j[n] = Quote
           /\ \A i \in 2 .. n - 1 : j[i] # Quote
  <2> DEFINE k == e - 1
  <2>1. k \in Nat /\ q <= k /\ k + 1 = e /\ k <= Len(s)
    BY <1>1, <1>2, <1>4, <1>9
  <2>2. \A i \in q + 1 .. k : s[i] # Quote
    <3>1. \A i \in q + 1 .. k : i - p \in 2 .. n - 1 /\ i - p \in 1 .. n /\ p + (i - p) = i
      BY <1>1, <1>4
    <3> QED BY <1>2, <1>9, <3>1
  <2>3. s[q] = Quote /\ s[k + 1] = Quote
    BY <1>5, <1>9, <2>1
  <2> HIDE DEF q, e, k
  <2>4. /\ g[k].array = g[q].array /\ g[k].sub_str = SubSeq(s, q, k)
        /\ ~g[k].skips /\ (g[k].in_quotes <=> g[q].in_quotes)
    <3>1. q <= q /\ g[q].in_quotes
      BY <1>4, <1>6, <2>3
    <3> QED BY <1>4, <1>6, <2>1, <2>2, <3>1, RunOn
  <2>5. k + 1 <= Len(s)
    BY <1>2, <2>1
  <2>6. g[k] \in ScanType /\ s[k + 1] \in Char /\ g[k + 1] = Scan(g[k], s[k + 1])
    BY <2>1, <2>5, RunsStep
  <2>7. SubSeq(s, q, k + 1) = Append(SubSeq(s, q, k), s[k + 1])
    BY <1>4, <2>1, <2>5, PieceGrows
  <2> DEFINE scan == g[k]
             c == s[k + 1]
             next == Scan(scan, c)
  <2>8. ~IsWhite(c)
    BY <2>3, QuoteIsNoWhite
  <2> HIDE DEF scan, c
  <2>9. /\ next.array = scan.array
        /\ next.sub_str = IF scan.skips THEN <<c>> ELSE Append(scan.sub_str, c)
        /\ ~next.skips
        /\ next.in_quotes = IF c = Quote THEN ~scan.in_quotes ELSE scan.in_quotes
    BY <2>6, <2>8, ScanGoes DEF scan, c
  <2> HIDE DEF next
  <2>10. next.sub_str = Append(scan.sub_str, c)
    BY <2>4, <2>9 DEF scan
  <2>11. ~next.in_quotes
    BY <1>6, <2>3, <2>4, <2>9 DEF scan, c
  <2>12. g[e] = next
    BY <2>1, <2>6 DEF next, scan, c
  <2>13. next.sub_str = j
    BY <1>3, <2>1, <2>4, <2>7, <2>10 DEF scan, c
  <2>14. next.array = g[p].array
    BY <1>6, <2>4, <2>9 DEF scan
  <2> QED BY <1>2, <1>4, <1>7, <2>9, <2>11, <2>12, <2>13, <2>14 DEF q, e, n, j
<1> QED BY <1>1, <1>8, <1>9

-----------------------------------------------------------------------------
(* The arguments joined, one after the other.                              *)
LEMMA PartAt ==
  ASSUME NEW args \in Seq(Strings), NEW at, LaidOut(args, at), NEW i \in 1 .. Len(args)
  PROVE  LET s == Join(args)
             p == at[i - 1]
             e == p + Len(Joined(args[i]))
         IN  /\ p \in Nat /\ e \in Nat /\ e <= Len(s) /\ HasAt(s, p, Joined(args[i]))
             /\ i < Len(args) => at[i] = e + 1 /\ e + 1 <= Len(s) /\ s[e + 1] = Space
             /\ i = Len(args) => at[i] = e /\ e = Len(s)
<1> DEFINE s == Join(args)
           p == at[i - 1]
           j == Joined(args[i])
           after == SpaceAfter(i, Len(args))
           e == p + Len(j)
<1>1. j \in Strings /\ after \in Strings /\ s \in Strings /\ Len(s) \in Nat /\ Len(j) \in Nat
  <2>1. j \in Strings /\ s \in Strings
    BY PartType, JoinType
  <2> QED BY <2>1, SpaceIs, WhitesAre
<1>2. i - 1 \in 0 .. Len(args) /\ Len(args) \in Nat
  BY LenProperties
<1>3. p \in Nat /\ e \in Nat
  BY <1>1, <1>2 DEF LaidOut
<1>4. at[i] = p + Len(j \o after) /\ HasAt(s, p, j \o after) /\ at[Len(args)] = Len(s)
  BY DEF LaidOut, Part
<1>5. Len(j \o after) = Len(j) + Len(after) /\ HasAt(s, p, j) /\ HasAt(s, e, after)
  BY <1>1, <1>3, <1>4, HasMore, HasParts
<1>6. e <= Len(s)
  BY <1>5 DEF HasAt
<1>7. ASSUME i < Len(args) PROVE at[i] = e + 1 /\ e + 1 <= Len(s) /\ s[e + 1] = Space
  <2>1. after = <<Space>>
    BY <1>7 DEF SpaceAfter
  <2> HIDE DEF after, j, s
  <2>2. Len(after) = 1 /\ after[1] = Space /\ 1 \in 1 .. 1
    BY <2>1
  <2>3. e + 1 <= Len(s) /\ s[e + 1] = Space
    BY <1>5, <2>2 DEF HasAt
  <2>4. at[i] = p + (Len(j) + 1)
    BY <1>4, <1>5, <2>2
  <2> QED BY <1>1, <1>3, <2>3, <2>4
<1>8. ASSUME i = Len(args) PROVE at[i] = e /\ e = Len(s)
  <2>1. after = <<>>
    BY <1>8 DEF SpaceAfter
  <2> HIDE DEF after, j, s
  <2>2. Len(after) = 0
    BY <2>1
  <2>3. at[i] = p + Len(j)
    BY <1>1, <1>4, <1>5, <2>2
  <2> QED BY <1>4, <1>8, <2>3
<1> QED BY <1>3, <1>5, <1>6, <1>7, <1>8

LEMMA PartScanned ==
  ASSUME NEW args \in Seq(Strings), NEW at, LaidOut(args, at), NEW g, Runs(g, Join(args)),
         NEW i \in 1 .. Len(args), i < Len(args), Plain(args[i]), Ready(g[at[i - 1]])
  PROVE  /\ Ready(g[at[i]]) /\ g[at[i]].skips
         /\ g[at[i]].array = Append(g[at[i - 1]].array, args[i])
<1> DEFINE s == Join(args)
           p == at[i - 1]
           arg == args[i]
           j == Joined(arg)
           e == p + Len(j)
<1>1. s \in Strings /\ arg \in Strings
  BY PartType, JoinType
<1>2. /\ p \in Nat /\ e \in Nat /\ HasAt(s, p, j)
      /\ at[i] = e + 1 /\ e + 1 <= Len(s) /\ s[e + 1] = Space
  BY PartAt
<1>3. Unquoted(j) = arg
  BY <1>1, JoinedPlain
<1> HIDE DEF s, p
<1>4. /\ g[e] \in ScanType /\ g[e].array = g[p].array
      /\ g[e].sub_str = j /\ ~g[e].in_quotes /\ ~g[e].skips
  <2>1. Ready(g[p]) /\ Runs(g, s)
    BY DEF p, s
  <2> HIDE DEF arg
  <2>2. Plain(arg)
    BY DEF arg
  <2> QED BY <1>1, <1>2, <2>1, <2>2, ArgScanned
<1> HIDE DEF j, e, arg
<1>5. s[e + 1] \in Char /\ g[e + 1] = Scan(g[e], s[e + 1])
  <2>1. Runs(g, s)
    BY DEF s
  <2> QED BY <1>1, <1>2, <2>1, RunsStep
<1> DEFINE scan == g[e]
           next == Scan(scan, Space)
<1>6. Space \in Char /\ IsWhite(Space)
  BY SpaceIs
<1>7. next \in ScanType
  BY <1>4, <1>6, ScanTyped
<1> HIDE DEF scan
<1>8. /\ next.array = Append(scan.array, Unquoted(scan.sub_str))
      /\ next.skips /\ ~next.in_quotes
  BY <1>4, <1>6, ScanEnds DEF scan
<1> HIDE DEF next
<1>9. g[at[i]] = next
  BY <1>2, <1>5 DEF next, scan
<1>10. next.array = Append(g[p].array, arg)
  BY <1>3, <1>4, <1>8 DEF scan
<1> QED BY <1>7, <1>8, <1>9, <1>10 DEF Ready, p, arg

LEMMA StartReady == Ready(Start) /\ Kept(Start) = 0
<1>1. Start \in ScanType /\ ~Start.in_quotes /\ Start.sub_str = <<>>
  BY EmptyStrings DEF Start, ScanType
<1>2. Start.array = <<>> /\ ~Start.skips
  BY DEF Start
<1>3. WhitesIn(<<>>) = 0
  <2>1. Len(<<>>) = 0
    OBVIOUS
  <2>2. {x \in (1 .. 0) \X Nat : x[2] \in 1 .. Len(<<>>[x[1]]) /\ IsWhite(<<>>[x[1]][x[2]])} = {}
    OBVIOUS
  <2> QED BY <2>1, <2>2, FS_EmptySet DEF WhitesIn, WhitesUpTo
<1>4. Whites(<<>>) = 0
  <2>1. \A i \in 1 .. Len(<<>>) : ~IsWhite(<<>>[i])
    OBVIOUS
  <2> QED BY <2>1, EmptyStrings, WhitesAre
<1>5. Len(<<>>) = 0
  OBVIOUS
<1>6. Kept(Start) = 0 + 0 + 0
  BY <1>1, <1>2, <1>3, <1>4, <1>5 DEF Kept
<1> QED BY <1>1, <1>6 DEF Ready

(* Plain arguments are found again up to the first that is not, or to the  *)
(* last.                                                                   *)
LEMMA PlainScanned ==
  ASSUME NEW args \in Seq(Strings), NEW at, LaidOut(args, at), NEW g, Runs(g, Join(args)),
         NEW k \in Nat, k < Len(args), \A i \in 1 .. k : Plain(args[i])
  PROVE  /\ Ready(g[at[k]]) /\ (k # 0 => g[at[k]].skips)
         /\ Len(g[at[k]].array) = k /\ \A i \in 1 .. k : g[at[k]].array[i] = args[i]
<1> DEFINE n == Len(args)
           Good(m) == /\ Ready(g[at[m]]) /\ (m # 0 => g[at[m]].skips)
                      /\ Len(g[at[m]].array) = m /\ \A i \in 1 .. m : g[at[m]].array[i] = args[i]
           P == {m \in Nat : m <= k => Good(m)}
<1>1. n \in Nat
  BY LenProperties
<1>2. 0 \in P
  <2>1. g[at[0]] = Start
    BY DEF LaidOut, Runs
  <2>2. Ready(Start)
    BY StartReady
  <2>3. Len(Start.array) = 0
    BY DEF Start
  <2>4. Good(0)
    BY <2>1, <2>2, <2>3
  <2> HIDE DEF Good
  <2> QED BY <2>4
<1>3. ASSUME NEW m \in Nat, m \in P PROVE m + 1 \in P
  <2> SUFFICES ASSUME m + 1 <= k PROVE Good(m + 1)
    BY DEF P
  <2> DEFINE i == m + 1
             a == g[at[m]].array
             b == g[at[i]].array
  <2>1. i \in 1 .. n /\ i < n /\ i - 1 = m /\ i \in 1 .. k /\ m <= k /\ i # 0 /\ i \in Nat
    BY <1>1
  <2>2. Good(m)
    <3> HIDE DEF Good
    <3> QED BY <1>3, <2>1
  <2>3. Ready(g[at[m]]) /\ Len(a) = m /\ \A x \in 1 .. m : a[x] = args[x]
    BY <2>2
  <2>4. Plain(args[i])
    BY <2>1
  <2> HIDE DEF i, Good
  <2>5. Ready(g[at[i]]) /\ g[at[i]].skips /\ b = Append(a, args[i])
    <3>1. at[i - 1] = at[m]
      BY <2>1
    <3>2. i \in 1 .. Len(args) /\ i < Len(args)
      BY <2>1
    <3>3. Ready(g[at[i - 1]])
      BY <2>3, <3>1
    <3>4. Ready(g[at[i]]) /\ g[at[i]].skips /\ g[at[i]].array = Append(g[at[i - 1]].array, args[i])
      BY <2>4, <3>2, <3>3, PartScanned
    <3> QED BY <3>1, <3>4
  <2>6. a \in Seq(Strings) /\ args[i] \in Strings
    <3>1. a \in Seq(Strings)
      BY <2>3 DEF Ready, ScanType
    <3> QED BY <2>1, <3>1, PartType
  <2>7. Len(Append(a, args[i])) = m + 1 /\ Append(a, args[i])[m + 1] = args[i]
        /\ \A x \in 1 .. m : Append(a, args[i])[x] = a[x]
    BY <2>3, <2>6, AppendProperties
  <2>8. Len(b) = i /\ \A x \in 1 .. i : b[x] = args[x]
    <3> HIDE DEF a, b
    <3>1. \A x \in 1 .. i : x \in 1 .. m \/ x = m + 1
      BY DEF i
    <3> QED BY <2>3, <2>5, <2>7, <3>1 DEF i
  <2>9. Good(i)
    BY <2>5, <2>8 DEF Good
  <2> QED BY <2>9 DEF i
<1> HIDE DEF P, Good
<1>4. k \in P
  BY <1>2, <1>3, SetInduction
<1>5. Good(k)
  BY <1>4 DEF P
<1> QED BY <1>5 DEF Good

-----------------------------------------------------------------------------
(* Plain arguments are split into themselves.                              *)
LEMMA JoinBegins ==
  ASSUME NEW args \in Seq(Strings), Len(args) # 0, args[1] # <<>>
  PROVE  /\ Join(args) \in Strings /\ Join(args) # <<>>
         /\ Join(args)[1] = Joined(args[1])[1]
<1> DEFINE s == Join(args)
           j == Joined(args[1])
<1>1. 1 \in 1 .. Len(args) /\ 1 - 1 = 0
  BY LenProperties
<1>2. PICK at : LaidOut(args, at)
  BY JoinLaidOut
<1>3. at[0] = 0
  BY <1>2 DEF LaidOut
<1>4. HasAt(s, at[1 - 1], j)
  BY <1>1, <1>2, PartAt
<1>5. HasAt(s, 0, j)
  BY <1>1, <1>3, <1>4
<1>6. s \in Strings /\ args[1] \in Strings /\ j \in Strings
  BY <1>1, JoinType, PartType
<1>7. Len(args[1]) # 0 /\ Len(args[1]) \in Nat
  BY <1>6, EmptySeq, LenProperties DEF Strings
<1>8. Whites(args[1]) \in Nat /\ Len(j) = Whites(args[1]) + Len(args[1]) + (IF Whites(args[1]) = 0 THEN 0 ELSE 1)
  BY <1>6, JoinedIs
<1> HIDE DEF s, j
<1>9. Len(j) \in Nat /\ Len(j) >= 1
  BY <1>7, <1>8
<1>10. 0 + Len(j) <= Len(s) /\ s[0 + 1] = j[1]
  <2>1. 1 \in 1 .. Len(j)
    BY <1>9
  <2> QED BY <1>5, <2>1 DEF HasAt
<1>11. s # <<>>
  <2>1. Len(<<>>) = 0
    OBVIOUS
  <2> QED BY <1>9, <1>10, <2>1
<1> QED BY <1>6, <1>10, <1>11 DEF s, j

LEMMA PlainSplitsBack ==
  ASSUME NEW args \in Seq(Strings), Len(args) # 0, \A i \in 1 .. Len(args) : Plain(args[i])
  PROVE  Split(Join(args)) = args
<1> DEFINE s == Join(args)
           n == Len(args)
           k == n - 1
           j == Joined(args[n])
<1>1. n \in Nat /\ k \in Nat /\ k + 1 = n /\ k < n /\ n \in 1 .. n /\ 1 \in 1 .. n /\ \A i \in 1 .. k : i \in 1 .. n
  BY LenProperties
<1>2. PICK at : LaidOut(args, at)
  BY JoinLaidOut
<1>3. args[1] \in Strings /\ args[n] \in Strings /\ Plain(args[1]) /\ Plain(args[n])
  BY <1>1, PartType
<1>4. s \in Strings /\ s # <<>> /\ s[1] = Joined(args[1])[1]
  <2>1. args[1] # <<>>
    BY <1>3 DEF Plain
  <2> QED BY <2>1, JoinBegins
<1>5. ~IsWhite(s[1])
  BY <1>3, <1>4, JoinedPlain
<1>6. PICK g : Runs(g, s)
  BY <1>4, RunExists
<1> DEFINE p == at[k]
           e == p + Len(j)
           a == g[p].array
<1>7. Ready(g[p]) /\ Len(a) = k /\ \A i \in 1 .. k : a[i] = args[i]
  <2>1. k \in Nat /\ k < Len(args) /\ \A i \in 1 .. k : Plain(args[i])
    BY <1>1
  <2> HIDE DEF k
  <2> QED BY <1>2, <1>6, <2>1, PlainScanned
<1>8. p \in Nat /\ e \in Nat /\ HasAt(s, p, j) /\ e = Len(s)
  <2>1. n - 1 = k /\ n \in 1 .. Len(args)
    BY <1>1
  <2>2. /\ at[n - 1] \in Nat /\ at[n - 1] + Len(j) \in Nat /\ HasAt(s, at[n - 1], j)
        /\ n = Len(args) => at[n - 1] + Len(j) = Len(s)
    BY <1>2, <2>1, PartAt
  <2> QED BY <2>1, <2>2
<1>9. /\ j \in Strings /\ Unquoted(j) = args[n] /\ Len(j) >= 1 /\ ~IsWhite(j[Len(j)]) /\ Len(j) \in Nat
  BY <1>3, JoinedPlain
<1>10. g[e].array = a /\ g[e].sub_str = j
  <2> DEFINE arg == args[n]
  <2>1. arg \in Strings /\ Plain(arg)
    BY <1>3
  <2>2. p \in Nat /\ HasAt(s, p, Joined(arg)) /\ Ready(g[p])
    BY <1>7, <1>8
  <2> HIDE DEF arg, s, p
  <2>3. g[p + Len(Joined(arg))].array = g[p].array /\ g[p + Len(Joined(arg))].sub_str = Joined(arg)
    BY <1>4, <1>6, <2>1, <2>2, ArgScanned
  <2> QED BY <2>3 DEF arg
<1>11. Len(s) \in 1 .. Len(s) /\ ~IsWhite(s[Len(s)])
  <2> HIDE DEF j, s, p
  <2>1. Len(j) \in 1 .. Len(j)
    BY <1>9
  <2>2. s[e] = j[Len(j)]
    BY <1>8, <2>1 DEF HasAt
  <2>3. Len(s) \in 1 .. Len(s)
    BY <1>8, <1>9
  <2> QED BY <1>8, <1>9, <2>2, <2>3
<1>12. PICK b \in 1 .. Len(s) :
           /\ \A i \in 1 .. Len(s) : ~IsWhite(s[i]) => i <= b
           /\ Split(s) = Append(g[b].array, Unquoted(g[b].sub_str))
  BY <1>4, <1>5, <1>6, SplitRuns
<1>13. b = e
  <2>1. Len(s) <= b
    BY <1>11, <1>12
  <2> QED BY <1>8, <2>1
<1>14. Split(s) = Append(a, args[n])
  BY <1>9, <1>10, <1>12, <1>13
<1>15. a \in Seq(Strings)
  BY <1>7 DEF Ready, ScanType
<1>16. Append(a, args[n]) = args
  <2> DEFINE u == Append(a, args[n])
  <2>1. u \in Seq(Strings) /\ Len(u) = k + 1 /\ u[k + 1] = args[n] /\ \A i \in 1 .. k : u[i] = a[i]
    <3> HIDE DEF k, a
    <3>1. Len(a) = k
      BY <1>7
    <3> QED BY <1>3, <1>15, <3>1, AppendProperties
  <2> HIDE DEF u
  <2>2. \A i \in 1 .. n : i \in 1 .. k \/ i = n
    <3>1. n \in Nat /\ k \in Nat /\ k + 1 = n
      BY <1>1
    <3> HIDE DEF n, k
    <3> QED BY <3>1
  <2> HIDE DEF k, a
  <2>3. \A i \in 1 .. n : u[i] = args[i]
    BY <1>1, <1>7, <2>1, <2>2
  <2>4. Len(u) = Len(args)
    BY <1>1, <2>1
  <2>5. u = args
    BY <2>1, <2>3, <2>4, SeqEqual
  <2> QED BY <2>5 DEF u
<1> QED BY <1>14, <1>16

-----------------------------------------------------------------------------
(* Arguments that are split into themselves are plain.                     *)

(* The run that splits a text.                                             *)
LEMMA SplitEnds ==
  ASSUME NEW s \in Strings
  PROVE  /\ Split(s) # <<>> /\ (Trim(s) = <<>> => Split(s) = <<<<>>>>)
         /\ \E g : /\ Runs(g, Trim(s))
                   /\ Split(s) = Append(g[Len(Trim(s))].array, Unquoted(g[Len(Trim(s))].sub_str))
<1> DEFINE t == Trim(s)
           n == Len(t)
<1>1. t \in Strings
  BY TrimType
<1>2. n \in Nat
  BY <1>1, LenProperties DEF Strings
<1>3. PICK g : Runs(g, t) /\ FoldLeft(Scan, Start, t) = g[n]
  BY <1>1, RunExists
<1>4. Split(s) = Append(g[n].array, Unquoted(g[n].sub_str))
  BY <1>3 DEF Split, Start
<1>5. g[n] \in ScanType
  <2>1. n \in 0 .. Len(t)
    BY <1>2
  <2> QED BY <1>1, <1>3, <2>1, RunsTyped
<1>6. g[n].array \in Seq(Strings) /\ Unquoted(g[n].sub_str) \in Strings
  BY <1>5, UnquotedType DEF ScanType
<1>7. Split(s) # <<>>
  <2>1. Len(Split(s)) = Len(g[n].array) + 1 /\ Len(g[n].array) \in Nat
    BY <1>4, <1>6, AppendProperties, LenProperties
  <2>2. Len(<<>>) = 0
    OBVIOUS
  <2> QED BY <2>1, <2>2
<1>8. ASSUME t = <<>> PROVE Split(s) = <<<<>>>>
  <2>1. n = 0
    BY <1>8
  <2>2. g[n] = Start
    BY <1>3, <2>1 DEF Runs
  <2>3. g[n].array = <<>> /\ g[n].sub_str = <<>>
    BY <2>2 DEF Start
  <2>4. Unquoted(<<>>) = <<>>
    BY DEF Unquoted
  <2>5. Split(s) = Append(<<>>, <<>>)
    BY <1>4, <2>3, <2>4
  <2> QED BY <2>5
<1> QED BY <1>3, <1>4, <1>7, <1>8

(* No white space is made.                                                 *)
LEMMA SplitWhites ==
  ASSUME NEW s \in Strings, Trim(s) # <<>>
  PROVE  /\ WhitesIn(Split(s)) + Len(Split(s)) <= Whites(Trim(s)) + 1
         /\ WhitesIn(Split(s)) \in Nat /\ Len(Split(s)) \in Nat
<1> DEFINE t == Trim(s)
<1>1. t \in Strings /\ Whites(t) \in Nat /\ ~IsWhite(t[Len(t)]) /\ t # <<>>
  BY TrimType, TrimWhites
<1>2. PICK g : /\ Runs(g, t)
               /\ Split(s) = Append(g[Len(t)].array, Unquoted(g[Len(t)].sub_str))
  BY SplitEnds
<1> HIDE DEF t
<1>3. Len(t) \in Nat
  BY <1>1, LenProperties DEF Strings
<1>4. g[0] = Start /\ Kept(g[0]) = 0 /\ WhitesTo(t, 0) = 0
  BY <1>2, StartReady, WhitesToNext DEF Runs
<1>5. 0 \in 0 .. Len(t) /\ 0 \in Nat /\ Kept(g[0]) + 0 <= WhitesTo(t, 0)
  BY <1>3, <1>4
<1> DEFINE split == Append(g[Len(t)].array, Unquoted(g[Len(t)].sub_str))
<1>6. WhitesIn(split) \in Nat /\ Len(split) \in Nat /\ WhitesIn(split) + Len(split) + 0 <= Whites(t) + 1
  BY <1>1, <1>2, <1>5, SplitKeeps
<1>7. split = Split(s)
  BY <1>2
<1> HIDE DEF split
<1>8. WhitesIn(Split(s)) + Len(Split(s)) <= Whites(t) + 1
  BY <1>1, <1>6, <1>7
<1> QED BY <1>6, <1>7, <1>8 DEF t

(* An argument with more white space than one does not come back: more     *)
(* quotes than one are opened before it.                                   *)
LEMMA WideIsLost ==
  ASSUME NEW args \in Seq(Strings), NEW i \in 1 .. Len(args), Whites(args[i]) >= 2,
         \A x \in 1 .. i - 1 : Plain(args[x]),
         Quote \notin ToSet(args[i])
  PROVE  Split(Join(args)) # args
<1> SUFFICES ASSUME Split(Join(args)) = args PROVE FALSE
  OBVIOUS
<1> DEFINE s == Join(args)
           n == Len(args)
           k == i - 1
           arg == args[i]
           j == Joined(arg)
           w == Whites(arg)
<1>1. n \in Nat /\ k \in Nat /\ k + 1 = i /\ k < n /\ 1 \in 1 .. n /\ i \in 1 .. Len(args)
  BY LenProperties
<1>2. arg \in Strings /\ args[1] \in Strings /\ j \in Strings
  BY <1>1, PartType
<1>3. PICK at : LaidOut(args, at)
  BY JoinLaidOut
<1> DEFINE p == at[k]
<1>4. p \in Nat /\ HasAt(s, p, j)
  BY <1>3, PartAt
<1>5. w \in Nat /\ Len(arg) \in Nat /\ Len(j) = w + Len(arg) + (IF w = 0 THEN 0 ELSE 1) /\ \A x \in 1 .. w : j[x] = Quote
  BY <1>2, JoinedIs
<1>6. Len(arg) # 0 /\ \A x \in 1 .. Len(arg) : arg[x] # Quote
  <2>1. Len(arg) # 0
    <3>1. Len(arg) = 0 => \A x \in 1 .. Len(arg) : ~IsWhite(arg[x])
      BY <1>5
    <3>2. w # 0
      OBVIOUS
    <3> QED BY <1>2, <3>1, <3>2, WhitesAre
  <2>2. DOMAIN arg = 1 .. Len(arg)
    BY <1>2, LenProperties DEF Strings
  <2> QED BY <2>1, <2>2 DEF ToSet
<1>7. s \in Strings /\ s # <<>> /\ s[1] = Joined(args[1])[1] /\ ~IsWhite(s[1])
  <2>1. CASE i = 1
    <3>1. args[1] # <<>>
      BY <1>6, <2>1
    <3>2. s \in Strings /\ s # <<>> /\ s[1] = Joined(args[1])[1]
      BY <1>1, <3>1, JoinBegins
    <3>3. Joined(args[1])[1] = Quote
      BY <1>5, <2>1
    <3> QED BY <3>2, <3>3, QuoteIsNoWhite
  <2>2. CASE i # 1
    <3>1. Plain(args[1])
      <4>1. 1 \in 1 .. i - 1
        BY <1>1, <2>2
      <4> QED BY <4>1
    <3>2. args[1] # <<>>
      BY <3>1 DEF Plain
    <3>3. s \in Strings /\ s # <<>> /\ s[1] = Joined(args[1])[1]
      BY <1>1, <3>2, JoinBegins
    <3>4. ~IsWhite(Joined(args[1])[1])
      BY <1>2, <3>1, JoinedPlain
    <3> QED BY <3>3, <3>4
  <2> QED BY <2>1, <2>2
<1>8. PICK g : Runs(g, s)
  BY <1>7, RunExists
<1>9. PICK b \in 1 .. Len(s) :
           /\ \A x \in 1 .. Len(s) : ~IsWhite(s[x]) => x <= b
           /\ Split(s) = Append(g[b].array, Unquoted(g[b].sub_str))
  BY <1>7, <1>8, SplitRuns
<1> DEFINE array == g[p].array
           q == p + 1
           r == p + 2
<1>10. Ready(g[p]) /\ Len(array) = k
  BY <1>1, <1>3, <1>8, PlainScanned
<1>11. array \in Seq(Strings)
  BY <1>10 DEF Ready, ScanType
<1>12. q \in Nat /\ r \in Nat /\ 1 <= q /\ q <= r /\ q + 1 = r /\ q <= Len(s) /\ r <= Len(s) /\ Len(s) \in Nat
       /\ s[q] = Quote /\ s[r] = Quote /\ b \in Nat /\ b <= Len(s)
  <2> HIDE DEF s, j, p, w, arg
  <2>1. Len(s) \in Nat
    BY <1>7, LenProperties DEF Strings
  <2>2. w >= 2
    BY DEF w, arg
  <2>3. 1 \in 1 .. w /\ 2 \in 1 .. w /\ 1 \in 1 .. Len(j) /\ 2 \in 1 .. Len(j) /\ p + Len(j) <= Len(s) /\ Len(j) >= 2
    BY <1>4, <1>5, <2>2 DEF HasAt
  <2>4. s[p + 1] = j[1] /\ s[p + 2] = j[2]
    BY <1>4, <2>3 DEF HasAt
  <2>5. j[1] = Quote /\ j[2] = Quote
    BY <1>5, <2>3
  <2>6. Len(j) \in Nat
    BY <1>5
  <2> QED BY <1>4, <2>1, <2>3, <2>4, <2>5, <2>6
<1> HIDE DEF s, p, j, w, arg, k, n
<1>13. r <= b
  <2>1. r \in 1 .. Len(s) /\ ~IsWhite(s[r])
    BY <1>12, QuoteIsNoWhite
  <2> QED BY <1>9, <2>1
<1>14. /\ g[q] \in ScanType /\ g[q].array = array /\ ~g[q].skips /\ g[q].sub_str = SubSeq(s, q, q) /\ g[q].in_quotes
  <2>1. ~IsWhite(s[p + 1])
    BY <1>12, QuoteIsNoWhite
  <2> QED BY <1>4, <1>7, <1>8, <1>10, <1>12, <2>1, ReadyGoes
<1>15. /\ g[r].array = array /\ ~g[r].skips /\ g[r].sub_str = SubSeq(s, q, r)
  <2> HIDE DEF q, r, array
  <2>1. s[q + 1] \in Char /\ g[q + 1] = Scan(g[q], s[q + 1])
    BY <1>7, <1>8, <1>12, RunsStep
  <2>2. SubSeq(s, q, q + 1) = Append(SubSeq(s, q, q), s[q + 1])
    <3>1. q <= q
      BY <1>12
    <3> QED BY <1>7, <1>12, <3>1, PieceGrows
  <2> DEFINE scan == g[q]
             c == s[q + 1]
             next == Scan(scan, c)
  <2>3. ~IsWhite(c)
    BY <1>12, QuoteIsNoWhite
  <2> HIDE DEF scan, c
  <2>4. /\ next.array = scan.array
        /\ next.sub_str = IF scan.skips THEN <<c>> ELSE Append(scan.sub_str, c)
        /\ ~next.skips
    BY <1>14, <2>1, <2>3, ScanGoes DEF scan, c
  <2> HIDE DEF next
  <2>5. g[r] = next
    BY <1>12, <2>1 DEF next, scan, c
  <2>6. next.sub_str = SubSeq(s, q, r)
    BY <1>12, <1>14, <2>2, <2>4 DEF scan, c
  <2> QED BY <1>14, <2>4, <2>5, <2>6 DEF scan
<1> HIDE DEF q, r, array
<1>16. Begun(g[b], array, s, q, r, b)
  <2>1. Begun(g[b], g[r].array, s, q, r, b)
    BY <1>7, <1>8, <1>12, <1>13, <1>15, BegunLasts
  <2> QED BY <1>15, <2>1
<1>17. g[b].array \in Seq(Strings) /\ Unquoted(g[b].sub_str) \in Strings
  <2>1. b \in 0 .. Len(s)
    BY <1>12
  <2>2. g[b] \in ScanType
    BY <1>7, <1>8, <2>1, RunsTyped
  <2> QED BY <2>2, UnquotedType DEF ScanType
<1>18. \E e \in r .. b : arg = Unquoted(SubSeq(s, q, e))
  <2>1. args = Append(g[b].array, Unquoted(g[b].sub_str))
    BY <1>9 DEF s
  <2>2. /\ args[Len(g[b].array) + 1] = Unquoted(g[b].sub_str)
        /\ \A x \in 1 .. Len(g[b].array) : args[x] = g[b].array[x]
    BY <1>17, <2>1, AppendProperties
  <2>3. i = Len(array) + 1
    BY <1>1, <1>10
  <2>4. CASE g[b].array = array /\ g[b].sub_str = SubSeq(s, q, b)
    <3>1. arg = Unquoted(SubSeq(s, q, b))
      BY <2>2, <2>3, <2>4 DEF arg
    <3>2. b \in r .. b
      BY <1>12, <1>13
    <3> QED BY <3>1, <3>2
  <2>5. ASSUME Len(g[b].array) > Len(array), NEW e \in r .. b, g[b].array[Len(array) + 1] = Unquoted(SubSeq(s, q, e))
        PROVE  arg = Unquoted(SubSeq(s, q, e))
    <3>1. Len(g[b].array) \in Nat /\ Len(array) = k
      BY <1>10, <1>17, LenProperties
    <3>2. i \in 1 .. Len(g[b].array)
      BY <1>1, <2>3, <2>5, <3>1
    <3> QED BY <2>2, <2>3, <2>5, <3>2 DEF arg
  <2> QED BY <1>16, <2>4, <2>5 DEF Begun
<1>19. PICK e \in r .. b : arg = Unquoted(SubSeq(s, q, e))
  BY <1>18
<1> DEFINE z == SubSeq(s, q, e)
<1>20. z \in Strings /\ Len(z) >= 2 /\ Len(z) \in Nat /\ z[1] = Quote /\ z[2] = Quote
  <2> DEFINE d == e - q + 1
  <2>1. e \in Nat /\ q \in 1 .. Len(s) /\ e \in 1 .. Len(s) /\ q <= e /\ d >= 2 /\ d \in Nat
        /\ q + 1 - 1 = q /\ q + 2 - 1 = r
    BY <1>12, <1>13
  <2> HIDE DEF d
  <2>2. s \in Seq(Char)
    BY <1>7 DEF Strings
  <2>3. Len(z) = d /\ z \in Seq(Char)
    <3>1. d = e - q + 1
      BY DEF d
    <3> QED BY <2>1, <2>2, <3>1, SMT
  <2>4. \A x \in 1 .. d : z[x] = s[q + x - 1]
    <3>1. d = e - q + 1
      BY DEF d
    <3> QED BY <2>1, <2>2, <3>1, SMT
  <2> HIDE DEF z
  <2>5. 1 \in 1 .. d /\ 2 \in 1 .. d
    BY <2>1
  <2>6. z[1] = s[q + 1 - 1] /\ z[2] = s[q + 2 - 1]
    BY <2>4, <2>5
  <2> QED BY <1>12, <2>1, <2>3, <2>6 DEF Strings
<1> HIDE DEF z
<1>21. arg = Unquoted(z)
  BY <1>19 DEF z
<1>22. 1 \in 1 .. Len(arg) /\ arg[1] # Quote
  <2>1. 1 \in 1 .. Len(arg)
    BY <1>5, <1>6
  <2> QED BY <1>6, <2>1
<1>23. CASE arg = z
  BY <1>20, <1>22, <1>23
<1>24. CASE z = <<Quote>>
  BY <1>20, <1>24
<1>25. CASE /\ Len(arg) = Len(z) - 2 /\ \A x \in 1 .. Len(z) - 2 : arg[x] = z[x + 1]
  <2>1. 1 \in 1 .. Len(z) - 2 /\ 1 + 1 = 2
    BY <1>22, <1>25
  <2>2. arg[1] = z[1 + 1]
    BY <1>25, <2>1
  <2> QED BY <1>20, <1>22, <2>1, <2>2
<1>26. \/ Unquoted(z) = z
       \/ z = <<Quote>>
       \/ Len(Unquoted(z)) = Len(z) - 2 /\ \A x \in 1 .. Len(z) - 2 : Unquoted(z)[x] = z[x + 1]
  BY <1>20, UnquotedIs
<1> QED BY <1>21, <1>23, <1>24, <1>25, <1>26

(* An empty argument does not come back unless it is the only one: the     *)
(* space that was written beside it is trimmed or skipped, and no other    *)
(* white space takes its place.                                            *)
LEMMA EmptyIsLost ==
  ASSUME NEW args \in Seq(Strings), NEW i \in 1 .. Len(args), args[i] = <<>>,
         \A x \in 1 .. i - 1 : Plain(args[x]), args # <<<<>>>>
  PROVE  Split(Join(args)) # args
<1> SUFFICES ASSUME Split(Join(args)) = args PROVE FALSE
  OBVIOUS
<1> DEFINE s == Join(args)
           t == Trim(s)
           n == Len(args)
           k == i - 1
           kept == WhitesIn(args) + n
           W == Whites(s)
           j == Joined(args[i])
<1>1. n \in Nat /\ n # 0 /\ k \in Nat /\ k + 1 = i /\ k < n /\ 1 \in 1 .. n /\ n \in 1 .. n
  BY LenProperties
<1>2. s \in Strings /\ t \in Strings /\ W \in Nat /\ Len(s) \in Nat
  <2>1. s \in Strings
    BY JoinType
  <2> QED BY <2>1, TrimType, WhitesAre
<1>3. t # <<>>
  BY <1>2, SplitEnds
<1>4. W + 1 = kept /\ kept \in Nat /\ WhitesIn(args) \in Nat
  <2>1. Whites(Join(args)) + 1 = WhitesIn(args) + Len(args) /\ WhitesIn(args) \in Nat
    BY <1>1, JoinWhites
  <2> QED BY <1>1, <2>1
<1>5. kept <= Whites(t) + 1
  BY <1>2, <1>3, SplitWhites
<1>6. Whites(t) \in Nat /\ (IsWhite(s[1]) \/ IsWhite(s[Len(s)]) => Whites(t) < W)
  BY <1>2, <1>3, TrimWhites
<1> HIDE DEF W, kept, t
<1>7. ~IsWhite(s[1]) /\ ~IsWhite(s[Len(s)])
  BY <1>2, <1>4, <1>5, <1>6
<1>8. PICK at : LaidOut(args, at)
  BY JoinLaidOut
<1> DEFINE p == at[k]
<1>9. Len(j) = 0
  <2>1. <<>> \in Strings /\ Whites(<<>>) = 0 /\ Len(<<>>) = 0
    <3>1. \A x \in 1 .. Len(<<>>) : ~IsWhite(<<>>[x])
      OBVIOUS
    <3>2. Len(<<>>) = 0
      OBVIOUS
    <3> QED BY <3>1, <3>2, EmptyStrings, WhitesAre
  <2>2. Len(Joined(<<>>)) = 0 + 0 + 0
    BY <2>1, JoinedIs
  <2> QED BY <2>2
<1>10. /\ p \in Nat
       /\ i < n => at[i] = p + 1 /\ p + 1 <= Len(s) /\ s[p + 1] = Space
       /\ i = n => p = Len(s)
  <2>1. LET e == at[i - 1] + Len(Joined(args[i]))
        IN  /\ at[i - 1] \in Nat
            /\ i < Len(args) => at[i] = e + 1 /\ e + 1 <= Len(s) /\ s[e + 1] = Space
            /\ i = Len(args) => at[i] = e /\ e = Len(s)
    BY <1>8, PartAt
  <2> DEFINE b == at[i - 1]
  <2>2. b \in Nat /\ b + Len(j) = b
    <3>1. b \in Nat
      BY <2>1
    <3> HIDE DEF b, j
    <3> QED BY <1>9, <3>1
  <2>3. /\ i < Len(args) => at[i] = b + 1 /\ b + 1 <= Len(s) /\ s[b + 1] = Space
        /\ i = Len(args) => b = Len(s)
    <3>1. at[i - 1] + Len(Joined(args[i])) = b
      BY <2>2
    <3> HIDE DEF b
    <3> QED BY <2>1, <3>1, Zenon DEF b
  <2> QED BY <2>2, <2>3
<1>11. IsWhite(Space)
  BY SpaceIs
<1>12. CASE i = 1 /\ n = 1
  <2>1. args = <<<<>>>>
    <3> DEFINE u == <<<<>>>>
    <3>1. u \in Seq(Strings) /\ Len(u) = 1 /\ u[1] = <<>>
      BY EmptyStrings
    <3> HIDE DEF u
    <3>2. \A x \in 1 .. 1 : args[x] = u[x]
      BY <1>12, <3>1
    <3>3. args = u
      BY <1>12, <3>1, <3>2, SeqEqual
    <3> QED BY <3>3 DEF u
  <2> QED BY <2>1
<1>13. CASE i = 1 /\ n # 1
  <2>1. i < n /\ k = 0
    <3>1. n \in Nat /\ n # 0 /\ k + 1 = i /\ k \in Nat
      BY <1>1
    <3> HIDE DEF n, k
    <3> QED BY <1>13, <3>1
  <2>2. p = 0
    BY <1>8, <2>1 DEF LaidOut
  <2>3. s[1] = Space
    BY <1>10, <2>1, <2>2
  <2> QED BY <1>7, <1>11, <2>3
<1>14. CASE i # 1 /\ i = n
  <2> DEFINE b == at[k - 1]
  <2>1. k \in 1 .. Len(args) /\ k < Len(args)
    BY <1>1, <1>14
  <2>2. LET e == b + Len(Joined(args[k]))
        IN  at[k] = e + 1 /\ s[e + 1] = Space
    <3> HIDE DEF k
    <3>1. LET e == at[k - 1] + Len(Joined(args[k]))
          IN  k < Len(args) => at[k] = e + 1 /\ e + 1 <= Len(s) /\ s[e + 1] = Space
      BY <1>8, <2>1, PartAt
    <3> QED BY <2>1, <3>1
  <2>3. s[p] = Space
    BY <2>2
  <2>4. s[Len(s)] = Space
    BY <1>10, <1>14, <2>3
  <2> QED BY <1>7, <1>11, <2>4
<1>15. CASE i # 1 /\ i # n
  <2>1. i < n /\ k # 0
    BY <1>1, <1>15
  <2>2. at[i] = p + 1 /\ p + 1 <= Len(s) /\ s[p + 1] = Space
    BY <1>10, <2>1
  <2>3. s # <<>> /\ Len(s) \in 1 .. Len(s)
    <3>1. Len(s) \in 1 .. Len(s)
      BY <1>2, <1>10, <2>2
    <3>2. s # <<>>
      <4>1. Len(<<>>) = 0
        OBVIOUS
      <4> HIDE DEF s
      <4> QED BY <3>1, <4>1
    <3> QED BY <3>1, <3>2
  <2>4. PICK g : Runs(g, s)
    BY <1>2, RunExists
  <2>5. Ready(g[p]) /\ g[p].skips
    <3>1. k \in Nat /\ k < Len(args) /\ \A x \in 1 .. k : Plain(args[x])
      BY <1>1
    <3> HIDE DEF k
    <3> QED BY <1>8, <2>1, <2>4, <3>1, PlainScanned
  <2> HIDE DEF s, p, k, n, j
  <2>6. Kept(g[p]) \in Nat /\ Kept(g[p]) + 0 <= WhitesTo(s, p)
    <3>1. Kept(g[0]) + 0 <= WhitesTo(s, 0) /\ 0 \in Nat
      BY <2>4, StartReady, WhitesToNext DEF Runs
    <3>2. p \in 0 .. Len(s)
      BY <1>2, <1>10, <2>2
    <3> QED BY <1>2, <2>4, <3>1, <3>2, KeptLasts
  <2>7. g[p + 1] = Scan(g[p], s[p + 1]) /\ s[p + 1] \in Char /\ g[p] \in ScanType
    BY <1>2, <1>10, <2>2, <2>4, RunsStep
  <2>8. Kept(g[p + 1]) = Kept(g[p]) /\ IsWhite(s[p + 1])
    <3> DEFINE scan == g[p]
               c == s[p + 1]
    <3>1. IsWhite(c) /\ scan.skips /\ scan \in ScanType /\ c \in Char
      BY <1>11, <2>2, <2>5, <2>7
    <3> HIDE DEF scan, c
    <3>2. Scan(scan, c) = scan
      BY <3>1, ScanSkips
    <3> QED BY <2>7, <3>1, <3>2 DEF scan, c
  <2>9. WhitesTo(s, p + 1) = WhitesTo(s, p) + 1 /\ WhitesTo(s, p) \in Nat
    BY <1>10, <2>8, WhitesToNext
  <2> DEFINE r == p + 1
  <2>10. r \in 0 .. Len(s) /\ Kept(g[r]) + 1 <= WhitesTo(s, r)
    BY <1>2, <1>10, <2>2, <2>6, <2>8, <2>9
  <2> HIDE DEF r
  <2> DEFINE m == Len(s)
             split == Append(g[m].array, Unquoted(g[m].sub_str))
  <2>11. WhitesIn(split) \in Nat /\ Len(split) \in Nat /\ WhitesIn(split) + Len(split) + 1 <= Whites(s) + 1
    <3>1. 1 \in Nat
      OBVIOUS
    <3> QED BY <1>2, <1>7, <2>3, <2>4, <2>10, <3>1, SplitKeeps
  <2>12. split = args
    <3>1. PICK b \in 1 .. Len(s) :
             /\ \A x \in 1 .. Len(s) : ~IsWhite(s[x]) => x <= b
             /\ Split(s) = Append(g[b].array, Unquoted(g[b].sub_str))
      BY <1>2, <1>7, <2>3, <2>4, SplitRuns
    <3>2. Len(s) <= b
      BY <1>7, <2>3, <3>1
    <3>3. b = m
      BY <1>2, <3>1, <3>2
    <3> QED BY <3>1, <3>3 DEF s
  <2> HIDE DEF split
  <2>13. kept + 1 <= W + 1
    BY <2>11, <2>12 DEF kept, n, W
  <2> QED BY <1>2, <1>4, <2>13
<1> QED BY <1>12, <1>13, <1>14, <1>15

LEMMA OneEmpty == Split(Join(<<<<>>>>)) = <<<<>>>>
<1> DEFINE args == <<<<>>>>
           s == Join(args)
<1>1. args \in Seq(Strings) /\ Len(args) = 1 /\ args[1] = <<>> /\ 1 \in 1 .. Len(args)
  BY EmptyStrings
<1>2. PICK at : LaidOut(args, at)
  BY <1>1, JoinLaidOut
<1>3. Whites(<<>>) = 0
  <2>1. \A i \in 1 .. Len(<<>>) : ~IsWhite(<<>>[i])
    OBVIOUS
  <2> QED BY <2>1, EmptyStrings, WhitesAre
<1>4. Len(Joined(<<>>)) = 0
  <2>1. Len(<<>>) = 0
    OBVIOUS
  <2>2. Len(Joined(<<>>)) = 0 + 0 + 0
    BY <1>3, <2>1, EmptyStrings, JoinedIs
  <2> QED BY <2>2
<1> HIDE DEF args
<1>5. at[1 - 1] + Len(Joined(args[1])) = Len(s)
  BY <1>1, <1>2, PartAt
<1>6. at[1 - 1] = 0
  BY <1>2 DEF LaidOut
<1>7. Len(s) = 0
  BY <1>1, <1>4, <1>5, <1>6
<1>8. s \in Strings
  BY <1>1, JoinType
<1>9. Trim(s) = <<>>
  <2>1. Printed(s) = {}
    BY <1>7 DEF Printed
  <2> QED BY <1>8, <2>1, TrimIs
<1>10. Split(s) = <<<<>>>>
  BY <1>8, <1>9, SplitEnds
<1> QED BY <1>10 DEF args

LEMMA SplitsBack ==
  ASSUME NEW args \in Seq(Strings), \A i \in 1 .. Len(args) : Quote \notin ToSet(args[i])
  PROVE  Split(Join(args)) = args <=>
           \/ args = <<<<>>>>
           \/ args # <<>> /\ \A i \in 1 .. Len(args) : Plain(args[i])
<1> DEFINE n == Len(args)
<1>1. n \in Nat
  BY LenProperties
<1>2. CASE args = <<<<>>>>
  BY <1>2, OneEmpty
<1>3. CASE args # <<>> /\ \A i \in 1 .. n : Plain(args[i])
  <2>1. Len(args) # 0
    BY <1>3, EmptySeq
  <2> QED BY <1>3, <2>1, PlainSplitsBack
<1>4. ASSUME args # <<<<>>>>, args = <<>> PROVE Split(Join(args)) # args
  <2>1. Join(args) \in Strings
    BY JoinType
  <2> QED BY <1>4, <2>1, SplitEnds
<1>5. ASSUME args # <<<<>>>>, NEW i0 \in 1 .. n, ~Plain(args[i0]) PROVE Split(Join(args)) # args
  <2> DEFINE Lost == {i \in 1 .. n : ~Plain(args[i])}
  <2>1. Lost # {} /\ Lost \subseteq Nat
    BY <1>1, <1>5
  <2>2. PICK i \in Lost : \A x \in Lost : i <= x
    BY <2>1, LeastExists
  <2>3. i \in 1 .. n /\ ~Plain(args[i]) /\ \A x \in 1 .. i - 1 : Plain(args[x])
    <3>1. \A x \in 1 .. i - 1 : x \in 1 .. n /\ ~(i <= x)
      BY <1>1, <2>2
    <3> QED BY <2>2, <3>1
  <2>4. args[i] \in Strings /\ Whites(args[i]) \in Nat
    BY <2>3, PartType, WhitesAre
  <2>5. args[i] = <<>> \/ Whites(args[i]) >= 2
    <3>1. Quote \notin ToSet(args[i])
      BY <2>3
    <3>2. args[i] = <<>> \/ ~(Whites(args[i]) <= 1)
      BY <2>3, <3>1 DEF Plain
    <3> QED BY <2>4, <3>2
  <2>6. CASE args[i] = <<>>
    BY <1>5, <2>3, <2>6, EmptyIsLost
  <2>7. CASE Whites(args[i]) >= 2
    BY <2>3, <2>7, WideIsLost
  <2> QED BY <2>5, <2>6, <2>7
<1> QED BY <1>2, <1>3, <1>4, <1>5

(* One is made from the other.                                             *)
LEMMA MadeInit == CmdInit => mArguments = Split(mzCmdLineText) \/ mzCmdLineText = Join(mArguments)
BY DEF CmdInit

LEMMA MadeStep ==
  /\ mArguments = Split(mzCmdLineText) \/ mzCmdLineText = Join(mArguments)
  /\ [CmdNext]_cmdVars
  => (mArguments = Split(mzCmdLineText) \/ mzCmdLineText = Join(mArguments))'
<1> SUFFICES ASSUME mArguments = Split(mzCmdLineText) \/ mzCmdLineText = Join(mArguments), [CmdNext]_cmdVars
             PROVE  (mArguments = Split(mzCmdLineText) \/ mzCmdLineText = Join(mArguments))'
  OBVIOUS
<1>1. ASSUME NEW arg \in Inserted, NEW index \in -1 .. MaxArgs, InsertArgument(arg, index)
      PROVE  mzCmdLineText' = Join(mArguments')
  BY <1>1 DEF InsertArgument
<1>2. ASSUME NEW index \in -1 .. MaxArgs, EraseArgument(index)
      PROVE  mzCmdLineText' = Join(mArguments')
  BY <1>2 DEF EraseArgument
<1>3. CASE UNCHANGED cmdVars
  BY <1>3 DEF cmdVars
<1> QED BY <1>1, <1>2, <1>3 DEF CmdNext

(* Arguments joined into a text are split from it again exactly if they are*)
(* plain (ConvertStringArrayToString quotes for one space only).           *)
THEOREM TextSplitsBackHolds == CmdSpec => []TextSplitsBack
<1> DEFINE Made == mArguments = Split(mzCmdLineText) \/ mzCmdLineText = Join(mArguments)
<1>1. CmdInit => Made
  BY MadeInit
<1>2. Made /\ [CmdNext]_cmdVars => Made'
  BY MadeStep
<1>3. CmdTypeOK /\ Made => TextSplitsBack
  <2> SUFFICES ASSUME CmdTypeOK, Made PROVE TextSplitsBack
    OBVIOUS
  <2>1. mArguments \in Seq(Strings)
    BY DEF CmdTypeOK, Strings
  <2> QED BY <2>1, SplitsBack DEF TextSplitsBack
<1> HIDE DEF Made
<1> QED BY <1>1, <1>2, <1>3, CmdType, PTL DEF CmdSpec

-----------------------------------------------------------------------------
(* Random numbers.                                                         *)
LEMMA PowerIs ==
  /\ Power[0] = 1
  /\ \A n \in Nat : Power[n] \in Nat /\ Power[n] > 0 /\ Power[n + 1] = 2 * Power[n]
<1> DEFINE Doubles(f) == f = [n \in Nat |-> IF n = 0 THEN 1 ELSE 2 * f[n - 1]]
           step == [p \in Nat \X Nat |-> 2 * p[2]]
<1>1. PICK f : IsRecursion(f, Nat, 1, step)
  <2>1. step \in [Nat \X Nat -> Nat] /\ 1 \in Nat
    OBVIOUS
  <2> HIDE DEF step
  <2> QED BY <2>1, RecursionExists, Zenon
<1>2. f \in [Nat -> Nat] /\ f[0] = 1 /\ \A n \in Nat : f[n + 1] = 2 * f[n]
  BY <1>1 DEF IsRecursion
<1>3. Doubles(f)
  <2>1. ASSUME NEW n \in Nat PROVE f[n] = IF n = 0 THEN 1 ELSE 2 * f[n - 1]
    <3>1. CASE n = 0
      BY <1>2, <3>1
    <3>2. CASE n # 0
      <4>1. n - 1 \in Nat /\ (n - 1) + 1 = n
        BY <3>2
      <4> QED BY <1>2, <3>2, <4>1
    <3> QED BY <3>1, <3>2
  <2>2. f = [n \in Nat |-> f[n]]
    BY <1>2
  <2> QED BY <2>1, <2>2
<1>4. Power = CHOOSE g : Doubles(g)
  BY DEF Power
<1>5. Doubles(Power)
  <2> HIDE DEF Doubles
  <2> QED BY <1>3, <1>4
<1>6. \A n \in Nat : Power[n] = IF n = 0 THEN 1 ELSE 2 * Power[n - 1]
  BY <1>5
<1>7. Power[0] = 1
  BY <1>6
<1>8. ASSUME NEW n \in Nat PROVE Power[n + 1] = 2 * Power[n]
  <2>1. n + 1 \in Nat /\ n + 1 # 0 /\ (n + 1) - 1 = n
    OBVIOUS
  <2> QED BY <1>6, <2>1
<1> DEFINE P == {n \in Nat : Power[n] \in Nat /\ Power[n] > 0}
<1>9. \A n \in Nat : n \in P
  <2>1. 0 \in P
    BY <1>7
  <2>2. ASSUME NEW n \in Nat, n \in P PROVE n + 1 \in P
    BY <1>8, <2>2
  <2> HIDE DEF P
  <2> QED BY <2>1, <2>2, SetInduction
<1> QED BY <1>7, <1>8, <1>9

(* A product of two numbers is no more than that of two that are no less.  *)
LEMMA PowerSum ==
  ASSUME NEW m \in Nat, NEW n \in Nat
  PROVE  Power[m + n] = Power[m] * Power[n]
<1> DEFINE P == {k \in Nat : Power[m + k] = Power[m] * Power[k]}
<1>1. 0 \in P
  <2>1. Power[0] = 1 /\ Power[m] \in Nat /\ m + 0 = m
    BY PowerIs
  <2> QED BY <2>1
<1>2. ASSUME NEW k \in Nat, k \in P PROVE k + 1 \in P
  <2>1. Power[(m + k) + 1] = 2 * Power[m + k] /\ Power[k + 1] = 2 * Power[k] /\ m + (k + 1) = (m + k) + 1
    BY PowerIs
  <2>2. Power[m] \in Nat /\ Power[k] \in Nat
    BY PowerIs
  <2>3. 2 * (Power[m] * Power[k]) = Power[m] * (2 * Power[k])
    BY <2>2
  <2> QED BY <1>2, <2>1, <2>3
<1> HIDE DEF P
<1>3. n \in P
  BY <1>1, <1>2, SetInduction
<1> QED BY <1>3 DEF P

(* The sizes of a word.                                                    *)
LEMMA WordSizes ==
  /\ Words \in Nat /\ Top \in Nat /\ Words = 2 * Top /\ Top >= 4 /\ Top % 2 = 0
  /\ Power[Bits \div 2] \in Nat /\ Power[Bits \div 2] > 0
  /\ Words = Power[Bits \div 2] * Power[Bits \div 2]
<1>1. Bits \in Nat /\ Bits % 2 = 0 /\ 2 < Bits
  BY RandomAssumption
<1>2. Bits - 1 \in Nat /\ (Bits - 1) + 1 = Bits /\ Bits - 2 \in Nat /\ (Bits - 2) + 1 = Bits - 1
      /\ Bits - 3 \in Nat /\ (Bits - 3) + 1 = Bits - 2
  BY <1>1
<1>3. Words = 2 * Top /\ Top \in Nat
  BY <1>2, PowerIs DEF Words, Top
<1>4. Top = 2 * (2 * Power[Bits - 3]) /\ Power[Bits - 3] \in Nat /\ Power[Bits - 3] > 0
  BY <1>2, PowerIs DEF Top
<1>5. Bits \div 2 \in Nat /\ (Bits \div 2) + (Bits \div 2) = Bits
  BY <1>1
<1>6. Power[Bits \div 2] \in Nat /\ Power[Bits \div 2] > 0
  BY <1>5, PowerIs
<1>7. Power[(Bits \div 2) + (Bits \div 2)] = Power[Bits \div 2] * Power[Bits \div 2]
  BY <1>5, PowerSum
<1>8. Top >= 4 /\ Top % 2 = 0
  <2> DEFINE e == Power[Bits - 3]
  <2>1. Top = 4 * e /\ e \in Nat /\ e > 0
    BY <1>4
  <2> HIDE DEF e
  <2> QED BY <2>1
<1> QED BY <1>3, <1>5, <1>6, <1>7, <1>8 DEF Words

LEMMA XorIs ==
  ASSUME NEW u \in Word, NEW v \in Word
  PROVE  BitXor(u, v) \in Word /\ BitXor(u, v) = BitXor(v, u) /\ BitXor(u, 0) = u /\ BitXor(u, u) = 0
BY BitAssumption, Zenon

LEMMA ShiftsAndMasks ==
  ASSUME NEW u \in Word, NEW v \in Word, NEW k \in 0 .. Bits
  PROVE  /\ BitXor(u, v) \div Power[k] = BitXor(u \div Power[k], v \div Power[k])
         /\ (BitXor(u, v) * Power[k]) % Words = BitXor((u * Power[k]) % Words, (v * Power[k]) % Words)
         /\ u % Power[k] = 0 => BitAnd(u, v) % Power[k] = 0
<1>1. \A n \in 0 .. Bits :
        /\ BitXor(u, v) \div Power[n] = BitXor(u \div Power[n], v \div Power[n])
        /\ (BitXor(u, v) * Power[n]) % Words = BitXor((u * Power[n]) % Words, (v * Power[n]) % Words)
        /\ u % Power[n] = 0 => BitAnd(u, v) % Power[n] = 0
  BY BitAssumption, Zenon
<1> QED BY <1>1, Zenon

(* The top bit of a word and the rest of it.                               *)
LEMMA TopBit ==
  ASSUME NEW u \in Word
  PROVE  /\ u \div Top = IF u < Top THEN 0 ELSE 1
         /\ u % Top = IF u < Top THEN u ELSE u - Top
<1>1. u \in Nat /\ Top \in Nat /\ Top >= 4 /\ u < 2 * Top
  BY WordSizes DEF Word
<1> DEFINE t == Top
<1> HIDE DEF t
<1>2. CASE u < t
  <2>1. 0 \in Nat /\ t \in Nat /\ u \in 0 .. t - 1 /\ 0 * t + u = u
    BY <1>1, <1>2 DEF t
  <2>2. (0 * t + u) \div t = 0 /\ (0 * t + u) % t = u
    BY <2>1, DivisionOf
  <2> QED BY <1>2, <2>1, <2>2 DEF t
<1>3. CASE ~(u < t)
  <2>1. 1 \in Nat /\ t \in Nat /\ u - t \in 0 .. t - 1 /\ 1 * t + (u - t) = u
    BY <1>1, <1>3 DEF t
  <2>2. (1 * t + (u - t)) \div t = 1 /\ (1 * t + (u - t)) % t = u - t
    BY <2>1, DivisionOf
  <2> QED BY <1>3, <2>1, <2>2 DEF t
<1> QED BY <1>2, <1>3

(* The top bit of an exclusive or with a word that has none.               *)
LEMMA TopKept ==
  ASSUME NEW u \in Word, NEW v \in Word, v < Top
  PROVE  BitXor(u, v) \div Top = u \div Top
<1> DEFINE a == u \div Top
<1>1. Bits - 1 \in 0 .. Bits
  BY RandomAssumption
<1>2. BitXor(u, v) \div Power[Bits - 1] = BitXor(u \div Power[Bits - 1], v \div Power[Bits - 1])
  BY <1>1, ShiftsAndMasks
<1>3. v \div Top = 0 /\ a \in {0, 1}
  BY TopBit
<1>4. a \in Word
  BY <1>3, WordSizes DEF Word
<1> HIDE DEF a
<1>5. BitXor(a, 0) = a
  BY <1>4, XorIs
<1> QED BY <1>2, <1>3, <1>5 DEF a, Top

(* The word that is shifted: one's top bit and the other's rest.           *)
LEMMA TwistIs ==
  ASSUME NEW u \in Word, NEW v \in Word
  PROVE  LET y == (IF u < Top THEN 0 ELSE Top) + (v % Top)
         IN  /\ y \in Word /\ y \div 2 \in Word
             /\ Twist(u, v) = BitXor(y \div 2, IF y % 2 = 1 THEN XOR_MASK ELSE 0)
             /\ Twist(u, v) \in Word
<1> DEFINE y == (IF u < Top THEN 0 ELSE Top) + (v % Top)
           mask == IF y % 2 = 1 THEN XOR_MASK ELSE 0
<1>1. u \in Nat /\ v \in Nat /\ u < 2 * Top /\ v < 2 * Top /\ Top \in Nat /\ Words = 2 * Top /\ Top >= 4
  BY WordSizes DEF Word
<1>2. u % Top = (IF u < Top THEN u ELSE u - Top) /\ v % Top = (IF v < Top THEN v ELSE v - Top)
  BY TopBit
<1>3. BitOr(BitAnd(u, Top), BitAnd(v, Top - 1)) = (u - (u % Top)) + (v % Top)
  BY BitAssumption, Zenon
<1>4. BitOr(BitAnd(u, Top), BitAnd(v, Top - 1)) = y
  BY <1>1, <1>2, <1>3
<1>5. y \in Word /\ y \div 2 \in Word
  BY <1>1, <1>2 DEF Word
<1>6. mask \in Word
  BY <1>1, RandomAssumption DEF Word
<1>7. Twist(u, v) = BitXor(y \div 2, mask)
  BY <1>4 DEF Twist
<1> HIDE DEF y, mask
<1>8. BitXor(y \div 2, mask) \in Word
  BY <1>5, <1>6, XorIs
<1> QED BY <1>5, <1>7, <1>8 DEF y, mask

LEMMA TwistTop ==
  ASSUME NEW u \in Word, NEW w \in Word, NEW v \in Word, u \div Top = w \div Top
  PROVE  Twist(u, v) = Twist(w, v)
<1>1. u < Top <=> w < Top
  BY TopBit
<1> QED BY <1>1, TwistIs

(* After an even word there is no top bit: the mask is not put on.         *)
LEMMA TwistEven ==
  ASSUME NEW u \in Word, NEW v \in Word, v % 2 = 0
  PROVE  Twist(u, v) < Top
<1> DEFINE y == (IF u < Top THEN 0 ELSE Top) + (v % Top)
<1>1. v \in Nat /\ v < 2 * Top /\ Top \in Nat /\ Top % 2 = 0
  BY WordSizes DEF Word
<1>2. v % Top = (IF v < Top THEN v ELSE v - Top)
  BY TopBit
<1>3. (v % Top) % 2 = 0 /\ v % Top \in Nat /\ v % Top < Top
  BY <1>1, <1>2
<1>4. y % 2 = 0 /\ y \in Nat /\ y < 2 * Top
  BY <1>1, <1>3
<1>5. /\ y \div 2 \in Word
      /\ Twist(u, v) = BitXor(y \div 2, IF y % 2 = 1 THEN XOR_MASK ELSE 0)
  BY TwistIs
<1> HIDE DEF y
<1>6. Twist(u, v) = BitXor(y \div 2, 0)
  BY <1>4, <1>5
<1>7. BitXor(y \div 2, 0) = y \div 2
  BY <1>5, XorIs
<1> QED BY <1>1, <1>4, <1>6, <1>7

Twister == [0 .. TWIST_SIZE - 1 -> Word]

(* The word that another is put together with when it is twisted.          *)
Other(i) == IF i < TWIST_DIFF THEN i + TWIST_PERIOD ELSE i - TWIST_DIFF

LEMMA TwistSizes ==
  /\ TWIST_SIZE \in Nat /\ TWIST_PERIOD \in Nat /\ TWIST_DIFF \in Nat
  /\ TWIST_DIFF = TWIST_SIZE - TWIST_PERIOD /\ 0 < TWIST_PERIOD /\ 0 < TWIST_DIFF /\ TWIST_DIFF <= TWIST_PERIOD
  /\ \A i \in 0 .. TWIST_SIZE - 1 : Other(i) \in 0 .. TWIST_SIZE - 1
BY RandomAssumption DEF TWIST_DIFF, Other

LEMMA TwistAtIs ==
  ASSUME NEW t \in Twister, NEW i \in 0 .. TWIST_SIZE - 1, NEW next \in Word
  PROVE  /\ TwistAt(t, i, next) \in Twister
         /\ TwistAt(t, i, next)[i] = BitXor(t[Other(i)], Twist(t[i], next))
         /\ \A k \in 0 .. TWIST_SIZE - 1 : k # i => TwistAt(t, i, next)[k] = t[k]
<1> DEFINE v == BitXor(t[Other(i)], Twist(t[i], next))
           N == TWIST_SIZE
<1>1. Other(i) \in 0 .. N - 1
  BY TwistSizes
<1>2. t[i] \in Word /\ t[Other(i)] \in Word
  BY <1>1 DEF Twister
<1>3. v \in Word
  BY <1>2, TwistIs, XorIs
<1>4. TwistAt(t, i, next) = [t EXCEPT ![i] = v]
  BY DEF TwistAt, Other
<1> HIDE DEF v
<1> QED BY <1>3, <1>4 DEF Twister, v

(* The loop of Reload, turn by turn.                                       *)
LEMMA TwistedRuns ==
  ASSUME NEW t \in Twister, NEW behind \in Word
  PROVE  \E f \in [0 .. TWIST_SIZE -> Twister] :
           /\ f[0] = t
           /\ \A n \in 0 .. TWIST_SIZE - 1 :
                f[n + 1] = TwistAt(f[n], n, IF n + 1 = TWIST_SIZE THEN behind ELSE f[n][n + 1])
           /\ Twisted(t, behind) = TwistAt(f[TWIST_SIZE], TWIST_SIZE - 1, f[TWIST_SIZE][0])
<1> DEFINE N == TWIST_SIZE
           Turned(w, n) == TwistAt(w, n, IF n + 1 = N THEN behind ELSE w[n + 1])
           step == [p \in Nat \X Twister |-> IF p[1] < N THEN Turned(p[2], p[1]) ELSE p[2]]
           Body(g, n) == IF n = 0 THEN t
                         ELSE TwistAt(g[n - 1], n - 1, IF n = N THEN behind ELSE g[n - 1][n])
           IsUpTo(g) == g = [n \in 0 .. N |-> Body(g, n)]
           upTo == CHOOSE g : IsUpTo(g)
<1>1. N \in Nat /\ 0 \in 0 .. N - 1
  BY TwistSizes
<1>2. ASSUME NEW w \in Twister, NEW n \in 0 .. N - 1 PROVE Turned(w, n) \in Twister
  <2>1. n + 1 = N \/ n + 1 \in 0 .. N - 1
    BY <1>1
  <2>2. n + 1 # N => w[n + 1] \in Word
    BY <2>1 DEF Twister
  <2> QED BY <2>2, TwistAtIs
<1> HIDE DEF Turned
<1>3. step \in [Nat \X Twister -> Twister]
  <2>1. ASSUME NEW p \in Nat \X Twister PROVE (IF p[1] < N THEN Turned(p[2], p[1]) ELSE p[2]) \in Twister
    <3>1. p[1] \in Nat /\ p[2] \in Twister
      OBVIOUS
    <3>2. p[1] < N => p[1] \in 0 .. N - 1
      BY <1>1, <3>1
    <3> QED BY <1>2, <3>1, <3>2
  <2> QED BY <2>1
<1>4. PICK f : IsRecursion(f, Twister, t, step)
  <2> HIDE DEF step
  <2> QED BY <1>3, RecursionExists, Zenon
<1>5. f \in [Nat -> Twister] /\ f[0] = t /\ \A n \in Nat : f[n + 1] = step[<<n, f[n]>>]
  BY <1>4, Zenon DEF IsRecursion
<1>6. ASSUME NEW n \in 0 .. N - 1 PROVE f[n + 1] = Turned(f[n], n)
  <2>1. n \in Nat /\ n < N
    BY <1>1
  <2>2. <<n, f[n]>> \in Nat \X Twister
    BY <1>5, <2>1
  <2> QED BY <1>5, <2>1, <2>2
<1> HIDE DEF step
<1> DEFINE g == [n \in 0 .. N |-> f[n]]
<1>7. IsUpTo(g)
  <2>1. ASSUME NEW n \in 0 .. N PROVE g[n] = Body(g, n)
    <3>1. CASE n = 0
      BY <1>5, <3>1
    <3>2. CASE n # 0
      <4>1. n - 1 \in 0 .. N - 1 /\ n - 1 \in 0 .. N /\ (n - 1) + 1 = n
        BY <1>1, <3>2
      <4>2. g[n] = f[(n - 1) + 1] /\ g[n - 1] = f[n - 1]
        BY <4>1
      <4> HIDE DEF g
      <4>3. g[n] = Turned(g[n - 1], n - 1)
        BY <1>6, <4>1, <4>2
      <4> QED BY <3>2, <4>1, <4>3 DEF Turned
    <3> QED BY <3>1, <3>2
  <2> QED BY <2>1
<1>8. IsUpTo(upTo)
  <2> HIDE DEF IsUpTo, g
  <2> QED BY <1>7
<1>9. Twisted(t, behind) = TwistAt(upTo[N], N - 1, upTo[N][0])
  BY DEF Twisted
<1> HIDE DEF upTo, g
<1>10. \A n \in 0 .. N : upTo[n] = Body(upTo, n)
  BY <1>8
<1>11. upTo[0] = t
  BY <1>1, <1>10
<1>12. ASSUME NEW n \in 0 .. N - 1 PROVE upTo[n + 1] = Turned(upTo[n], n)
  <2>1. n + 1 \in 0 .. N /\ n + 1 # 0 /\ (n + 1) - 1 = n
    BY <1>1
  <2> QED BY <1>10, <2>1 DEF Turned
<1> DEFINE P == {n \in Nat : n <= N => upTo[n] \in Twister}
<1>13. \A n \in Nat : n \in P
  <2>1. 0 \in P
    BY <1>11
  <2>2. ASSUME NEW n \in Nat, n \in P PROVE n + 1 \in P
    <3> SUFFICES ASSUME n + 1 <= N PROVE upTo[n + 1] \in Twister
      OBVIOUS
    <3>1. n \in 0 .. N - 1 /\ n <= N
      BY <1>1
    <3> QED BY <1>2, <1>12, <2>2, <3>1
  <2> HIDE DEF P
  <2> QED BY <2>1, <2>2, SetInduction
<1>14. upTo \in [0 .. N -> Twister]
  <2>1. \A n \in 0 .. N : upTo[n] \in Twister
    BY <1>1, <1>13
  <2>2. upTo = [n \in 0 .. N |-> upTo[n]]
    BY <1>8
  <2> QED BY <2>1, <2>2
<1> QED BY <1>9, <1>11, <1>12, <1>14 DEF Turned

(* After n turns: the first n words are twisted, the others are not yet.   *)
HalfTwisted(t, w, n) ==
  /\ w \in Twister
  /\ \A i \in 0 .. TWIST_SIZE - 1 : i >= n => w[i] = t[i]
  /\ \A i \in 0 .. TWIST_SIZE - 1 :
       i < n /\ i # TWIST_SIZE - 1 =>
         w[i] = BitXor(IF i < TWIST_DIFF THEN t[i + TWIST_PERIOD] ELSE w[i - TWIST_DIFF], Twist(t[i], t[i + 1]))

LEMMA TwistTurn ==
  ASSUME NEW t \in Twister, NEW w, NEW n \in 0 .. TWIST_SIZE - 1, HalfTwisted(t, w, n), NEW behind \in Word
  PROVE  LET next == TwistAt(w, n, IF n + 1 = TWIST_SIZE THEN behind ELSE w[n + 1])
         IN  /\ HalfTwisted(t, next, n + 1)
             /\ n = TWIST_SIZE - 1 => next[n] = BitXor(next[Other(n)], Twist(t[n], behind))
<1> DEFINE N == TWIST_SIZE
           b == IF n + 1 = N THEN behind ELSE w[n + 1]
           next == TwistAt(w, n, b)
<1>1. /\ N \in Nat /\ n \in Nat /\ n < N /\ TWIST_DIFF \in Nat /\ 0 < TWIST_DIFF
      /\ TWIST_PERIOD \in Nat /\ 0 < TWIST_PERIOD /\ TWIST_DIFF = N - TWIST_PERIOD
      /\ Other(n) \in 0 .. N - 1
  BY TwistSizes
<1>2. w \in Twister /\ (\A i \in 0 .. N - 1 : i >= n => w[i] = t[i])
  BY DEF HalfTwisted
<1>3. b \in Word
  <2>1. n + 1 = N \/ n + 1 \in 0 .. N - 1
    BY <1>1
  <2> QED BY <1>2, <2>1 DEF Twister
<1> HIDE DEF b
<1>4. /\ next \in Twister
      /\ next[n] = BitXor(w[Other(n)], Twist(w[n], b))
      /\ \A k \in 0 .. N - 1 : k # n => next[k] = w[k]
  BY <1>2, <1>3, TwistAtIs
<1> HIDE DEF next
<1>5. ASSUME NEW i \in 0 .. N - 1, i >= n + 1 PROVE next[i] = t[i]
  BY <1>1, <1>2, <1>4, <1>5
<1>6. ASSUME NEW i \in 0 .. N - 1, i < n, i # N - 1
      PROVE  next[i] = BitXor(IF i < TWIST_DIFF THEN t[i + TWIST_PERIOD] ELSE next[i - TWIST_DIFF], Twist(t[i], t[i + 1]))
  <2>1. next[i] = w[i]
    BY <1>1, <1>4, <1>6
  <2>2. w[i] = BitXor(IF i < TWIST_DIFF THEN t[i + TWIST_PERIOD] ELSE w[i - TWIST_DIFF], Twist(t[i], t[i + 1]))
    BY <1>6 DEF HalfTwisted
  <2>3. ~(i < TWIST_DIFF) => next[i - TWIST_DIFF] = w[i - TWIST_DIFF]
    <3> SUFFICES ASSUME ~(i < TWIST_DIFF) PROVE next[i - TWIST_DIFF] = w[i - TWIST_DIFF]
      OBVIOUS
    <3>1. i - TWIST_DIFF \in 0 .. N - 1 /\ i - TWIST_DIFF # n
      BY <1>1, <1>6
    <3> QED BY <1>4, <3>1
  <2> QED BY <2>1, <2>2, <2>3
<1>7. w[n] = t[n] /\ Other(n) # n
  <2>1. n >= n /\ n \in 0 .. N - 1
    BY <1>1
  <2> QED BY <1>1, <1>2, <2>1 DEF Other
<1>8. next[n] = BitXor(next[Other(n)], Twist(t[n], b))
  BY <1>1, <1>4, <1>7
<1>9. n # N - 1 =>
        next[n] = BitXor(IF n < TWIST_DIFF THEN t[n + TWIST_PERIOD] ELSE next[n - TWIST_DIFF], Twist(t[n], t[n + 1]))
  <2> SUFFICES ASSUME n # N - 1 PROVE
        next[n] = BitXor(IF n < TWIST_DIFF THEN t[n + TWIST_PERIOD] ELSE next[n - TWIST_DIFF], Twist(t[n], t[n + 1]))
    OBVIOUS
  <2>1. n + 1 \in 0 .. N - 1 /\ n + 1 # N /\ n + 1 >= n
    BY <1>1
  <2>2. b = t[n + 1]
    BY <1>2, <2>1 DEF b
  <2>3. CASE n < TWIST_DIFF
    <3>1. Other(n) = n + TWIST_PERIOD /\ n + TWIST_PERIOD \in 0 .. N - 1 /\ n + TWIST_PERIOD >= n + 1
      BY <1>1, <2>3 DEF Other
    <3>2. next[Other(n)] = t[n + TWIST_PERIOD]
      BY <1>5, <3>1
    <3> QED BY <1>8, <2>2, <2>3, <3>2
  <2>4. CASE ~(n < TWIST_DIFF)
    BY <1>8, <2>2, <2>4 DEF Other
  <2> QED BY <2>3, <2>4
<1>10. HalfTwisted(t, next, n + 1)
  <2>1. ASSUME NEW i \in 0 .. N - 1, i < n + 1, i # N - 1
        PROVE  next[i] = BitXor(IF i < TWIST_DIFF THEN t[i + TWIST_PERIOD] ELSE next[i - TWIST_DIFF], Twist(t[i], t[i + 1]))
    <3>1. i < n \/ i = n
      BY <1>1, <2>1
    <3> QED BY <1>6, <1>9, <2>1, <3>1
  <2> QED BY <1>4, <1>5, <2>1 DEF HalfTwisted
<1>11. n = N - 1 => next[n] = BitXor(next[Other(n)], Twist(t[n], behind))
  <2>1. n = N - 1 => b = behind
    BY <1>1 DEF b
  <2> QED BY <1>8, <2>1
<1> QED BY <1>10, <1>11 DEF next, b

(* All turns of the loop, and the last word once more.                     *)
LEMMA TwistedIs ==
  ASSUME NEW t \in Twister, NEW behind \in Word, behind % 2 = 0
  PROVE  LET w == Twisted(t, behind)
         IN  /\ w \in Twister
             /\ \A i \in 0 .. TWIST_SIZE - 2 :
                  w[i] = BitXor(IF i < TWIST_DIFF THEN t[i + TWIST_PERIOD] ELSE w[i - TWIST_DIFF], Twist(t[i], t[i + 1]))
             /\ w[TWIST_SIZE - 1] = BitXor(w[TWIST_PERIOD - 1], Twist(w[TWIST_PERIOD - 1], w[0]))
<1> DEFINE N == TWIST_SIZE
           w == Twisted(t, behind)
<1>1. /\ N \in Nat /\ TWIST_DIFF \in Nat /\ 0 < TWIST_DIFF
      /\ TWIST_PERIOD \in Nat /\ 0 < TWIST_PERIOD /\ TWIST_DIFF = N - TWIST_PERIOD
  BY TwistSizes
<1>2. N - 1 \in 0 .. N - 1 /\ Other(N - 1) = TWIST_PERIOD - 1 /\ TWIST_PERIOD - 1 \in 0 .. N - 2
      /\ 0 \in 0 .. N - 2 /\ (N - 1) + 1 = N /\ N - 1 \in Nat
  BY <1>1, TwistSizes, RandomAssumption DEF Other
<1>3. PICK f \in [0 .. N -> Twister] :
        /\ f[0] = t
        /\ \A n \in 0 .. N - 1 : f[n + 1] = TwistAt(f[n], n, IF n + 1 = N THEN behind ELSE f[n][n + 1])
        /\ w = TwistAt(f[N], N - 1, f[N][0])
  BY TwistedRuns
<1> HIDE DEF w
<1> DEFINE P == {n \in Nat : n <= N => HalfTwisted(t, f[n], n)}
<1>4. \A n \in Nat : n \in P
  <2>1. 0 \in P
    <3>1. \A i \in 0 .. N - 1 : ~(i < 0)
      BY <1>1
    <3> QED BY <1>3, <3>1 DEF HalfTwisted
  <2>2. ASSUME NEW n \in Nat, n \in P PROVE n + 1 \in P
    <3> SUFFICES ASSUME n + 1 <= N PROVE HalfTwisted(t, f[n + 1], n + 1)
      OBVIOUS
    <3>1. n \in 0 .. N - 1 /\ n <= N
      BY <1>1
    <3>2. HalfTwisted(t, f[n], n)
      BY <2>2, <3>1
    <3>3. HalfTwisted(t, TwistAt(f[n], n, IF n + 1 = N THEN behind ELSE f[n][n + 1]), n + 1)
      BY <3>1, <3>2, TwistTurn
    <3> QED BY <1>3, <3>1, <3>3
  <2> HIDE DEF P
  <2> QED BY <2>1, <2>2, SetInduction
<1> DEFINE e == f[N]
           d == f[N - 1]
<1>5. HalfTwisted(t, e, N) /\ HalfTwisted(t, d, N - 1)
  <2>1. N <= N /\ N - 1 <= N
    BY <1>1
  <2> QED BY <1>1, <1>2, <1>4, <2>1
<1> HIDE DEF P
<1>6. e = TwistAt(d, N - 1, IF (N - 1) + 1 = N THEN behind ELSE d[(N - 1) + 1])
  BY <1>2, <1>3
<1>7. w = TwistAt(e, N - 1, e[0])
  BY <1>3
<1> HIDE DEF e, d
<1>8. e[N - 1] = BitXor(e[TWIST_PERIOD - 1], Twist(t[N - 1], behind))
  <2> DEFINE m == N - 1
  <2>1. m \in 0 .. N - 1 /\ HalfTwisted(t, d, m) /\ m + 1 = N /\ m = N - 1
    BY <1>2, <1>5
  <2>2. e = TwistAt(d, m, IF m + 1 = N THEN behind ELSE d[m + 1])
    BY <1>6
  <2>3. Other(m) = TWIST_PERIOD - 1
    BY <1>2
  <2> HIDE DEF m
  <2>4. m = N - 1 => e[m] = BitXor(e[Other(m)], Twist(t[m], behind))
    BY <2>1, <2>2, TwistTurn
  <2> QED BY <2>1, <2>3, <2>4
<1>9. e \in Twister /\ e[0] \in Word /\ e[TWIST_PERIOD - 1] \in Word /\ e[N - 1] \in Word /\ t[N - 1] \in Word
  <2>1. 0 \in 0 .. N - 1 /\ TWIST_PERIOD - 1 \in 0 .. N - 1
    BY <1>1, <1>2
  <2>2. e \in Twister
    BY <1>5 DEF HalfTwisted
  <2> QED BY <1>2, <2>1, <2>2 DEF Twister
<1>10. /\ w \in Twister
       /\ w[N - 1] = BitXor(e[TWIST_PERIOD - 1], Twist(e[N - 1], e[0]))
       /\ \A k \in 0 .. N - 1 : k # N - 1 => w[k] = e[k]
  <2> DEFINE m == N - 1
             b == e[0]
  <2>1. m \in 0 .. N - 1 /\ b \in Word /\ w = TwistAt(e, m, b) /\ Other(m) = TWIST_PERIOD - 1
    BY <1>2, <1>7, <1>9
  <2> HIDE DEF m, b
  <2>2. /\ TwistAt(e, m, b) \in Twister
        /\ TwistAt(e, m, b)[m] = BitXor(e[Other(m)], Twist(e[m], b))
        /\ \A k \in 0 .. N - 1 : k # m => TwistAt(e, m, b)[k] = e[k]
    BY <1>9, <2>1, TwistAtIs
  <2>3. /\ w \in Twister
        /\ w[m] = BitXor(e[TWIST_PERIOD - 1], Twist(e[m], b))
        /\ \A k \in 0 .. N - 1 : k # m => w[k] = e[k]
    BY <2>1, <2>2
  <2> QED BY <2>3 DEF m, b
<1>11. \A k \in 0 .. N - 2 : k \in 0 .. N - 1 /\ k # N - 1 /\ k < N
  BY <1>1
<1>12. \A k \in 0 .. N - 2 : w[k] = e[k]
  BY <1>10, <1>11
<1>13. Twist(e[N - 1], e[0]) = Twist(e[TWIST_PERIOD - 1], e[0])
  <2>1. Twist(t[N - 1], behind) \in Word /\ Twist(t[N - 1], behind) < Top
    BY <1>9, TwistIs, TwistEven
  <2>2. e[N - 1] \div Top = e[TWIST_PERIOD - 1] \div Top
    BY <1>8, <1>9, <2>1, TopKept
  <2> QED BY <1>9, <2>2, TwistTop
<1>14. w[N - 1] = BitXor(w[TWIST_PERIOD - 1], Twist(w[TWIST_PERIOD - 1], w[0]))
  BY <1>2, <1>10, <1>12, <1>13
<1>15. ASSUME NEW i \in 0 .. N - 2
       PROVE  w[i] = BitXor(IF i < TWIST_DIFF THEN t[i + TWIST_PERIOD] ELSE w[i - TWIST_DIFF], Twist(t[i], t[i + 1]))
  <2>1. e[i] = BitXor(IF i < TWIST_DIFF THEN t[i + TWIST_PERIOD] ELSE e[i - TWIST_DIFF], Twist(t[i], t[i + 1]))
    BY <1>5, <1>11 DEF HalfTwisted
  <2>2. ~(i < TWIST_DIFF) => i - TWIST_DIFF \in 0 .. N - 2
    BY <1>1
  <2> QED BY <1>12, <2>1, <2>2
<1> QED BY <1>10, <1>14, <1>15 DEF w

LEMMA RecurrenceHolds ==
  ASSUME before \in Twister, NEW behind \in Word, behind % 2 = 0, mTwister = Twisted(before, behind)
  PROVE  TwistIsTheRecurrence
<1> DEFINE N == TWIST_SIZE
           sequence(k) == IF k < N THEN before[k] ELSE mTwister[k - N]
           top(k)      == sequence(IF k = N - 1 THEN N + TWIST_PERIOD - 1 ELSE k)
<1>1. /\ N \in Nat /\ TWIST_DIFF \in Nat /\ 0 < TWIST_DIFF
      /\ TWIST_PERIOD \in Nat /\ 0 < TWIST_PERIOD /\ TWIST_DIFF = N - TWIST_PERIOD
  BY TwistSizes
<1>2. /\ \A i \in 0 .. N - 2 :
           mTwister[i] = BitXor(IF i < TWIST_DIFF THEN before[i + TWIST_PERIOD] ELSE mTwister[i - TWIST_DIFF],
                             Twist(before[i], before[i + 1]))
      /\ mTwister[N - 1] = BitXor(mTwister[TWIST_PERIOD - 1], Twist(mTwister[TWIST_PERIOD - 1], mTwister[0]))
  BY TwistedIs
<1> SUFFICES ASSUME NEW k \in 0 .. N - 1
             PROVE  sequence(k + N) = BitXor(sequence(k + TWIST_PERIOD), Twist(top(k), sequence(k + 1)))
  BY DEF TwistIsTheRecurrence
<1>3. CASE k = N - 1
  <2>1. ~(k + N < N) /\ (k + N) - N = N - 1
    BY <1>1, <1>3
  <2>2. ~(k + TWIST_PERIOD < N) /\ (k + TWIST_PERIOD) - N = TWIST_PERIOD - 1
    BY <1>1, <1>3
  <2>3. ~(N + TWIST_PERIOD - 1 < N) /\ (N + TWIST_PERIOD - 1) - N = TWIST_PERIOD - 1
    BY <1>1
  <2>4. ~(k + 1 < N) /\ (k + 1) - N = 0
    BY <1>1, <1>3
  <2> QED BY <1>2, <1>3, <2>1, <2>2, <2>3, <2>4
<1>4. CASE k # N - 1
  <2>1. k \in 0 .. N - 2 /\ k < N /\ k + 1 < N /\ ~(k + N < N) /\ (k + N) - N = k
    BY <1>1, <1>4
  <2>2. sequence(k + N) = mTwister[k] /\ top(k) = before[k] /\ sequence(k + 1) = before[k + 1]
    BY <1>4, <2>1
  <2>3. sequence(k + TWIST_PERIOD) = IF k < TWIST_DIFF THEN before[k + TWIST_PERIOD] ELSE mTwister[k - TWIST_DIFF]
    <3>1. k + TWIST_PERIOD < N <=> k < TWIST_DIFF
      BY <1>1
    <3>2. (k + TWIST_PERIOD) - N = k - TWIST_DIFF
      BY <1>1
    <3> QED BY <3>1, <3>2
  <2> HIDE DEF sequence, top
  <2> QED BY <1>2, <2>1, <2>2, <2>3
<1> QED BY <1>3, <1>4

-----------------------------------------------------------------------------
(* The words that are drawn, seeded and left.                              *)
LEMMA WordsOf ==
  ASSUME NEW x \in Nat
  PROVE  x % Words \in Word
<1>1. Words \in Nat /\ Words > 0
  BY WordSizes
<1>2. x % Words \in 0 .. Words - 1
  BY <1>1, Division
<1> QED BY <1>2 DEF Word

LEMMA TemperedType ==
  ASSUME NEW w \in Word
  PROVE  Tempered(w) \in Word
<1>1. /\ \A x \in Word, k \in 0 .. Bits : x \div Power[k] \in Word
      /\ \A x \in Word, k \in 0 .. Bits : (x * Power[k]) % Words \in Word
  <2>1. ASSUME NEW x \in Word, NEW k \in 0 .. Bits
        PROVE  x \div Power[k] \in Word /\ (x * Power[k]) % Words \in Word
    <3> DEFINE p == Power[k]
    <3>1. p \in Nat /\ p > 0 /\ x \in Nat /\ Words \in Nat /\ x < Words
      BY PowerIs, WordSizes, RandomAssumption DEF Word
    <3> HIDE DEF p
    <3>2. x \div p \in Nat /\ x * p \in Nat
      BY <3>1, Division
    <3>3. x \div p <= x
      BY <3>1, <3>2
    <3>4. (x * p) % Words \in Word
      BY <3>2, WordsOf
    <3> QED BY <3>1, <3>2, <3>3, <3>4 DEF Word, p
  <2> QED BY <2>1
<1>2. Tempering \in [U : 1 .. Bits, S : 1 .. Bits, B : Word, T : 1 .. Bits, C : Word, L : 1 .. Bits] /\ Bits \in Nat
  BY RandomAssumption
<1>3. /\ Tempering.U \in 0 .. Bits /\ Tempering.S \in 0 .. Bits /\ Tempering.T \in 0 .. Bits
      /\ Tempering.L \in 0 .. Bits /\ Tempering.B \in Word /\ Tempering.C \in Word
  BY <1>2
<1>4. \A u, v \in Word : BitAnd(u, v) \in Word
  BY BitAssumption, Zenon
<1> DEFINE u == BitXor(w, w \div Power[Tempering.U])
           s == BitXor(u, (BitAnd(u, Tempering.B) * Power[Tempering.S]) % Words)
           t == BitXor(s, (BitAnd(s, Tempering.C) * Power[Tempering.T]) % Words)
<1>5. u \in Word
  BY <1>1, <1>3, XorIs
<1> HIDE DEF u
<1>6. s \in Word
  BY <1>1, <1>3, <1>4, <1>5, XorIs
<1> HIDE DEF s
<1>7. t \in Word
  BY <1>1, <1>3, <1>4, <1>6, XorIs
<1> HIDE DEF t
<1>8. BitXor(t, t \div Power[Tempering.L]) \in Word
  BY <1>1, <1>3, <1>7, XorIs
<1> QED BY <1>8 DEF Tempered, u, s, t

LEMMA SeedsType ==
  ASSUME NEW seed \in Word
  PROVE  \A i \in 0 .. TWIST_SIZE - 1 : SeedsFrom(seed)[i] \in Word
<1> DEFINE N == TWIST_SIZE
           first == BitOr(seed, 1)
           After(x) == (SeedMultiplier * (SeedMultiplier * x + 1) + 1) % Words
           step == [p \in Nat \X Word |-> After(p[2])]
           IsSeeds(s) == s = [i \in 0 .. N - 1 |-> IF i = 0 THEN first ELSE After(s[i - 1])]
<1>1. first \in Word
  <2>1. 1 \in Word
    BY WordSizes DEF Word
  <2> QED BY <2>1, BitAssumption, Zenon
<1>2. ASSUME NEW x \in Word PROVE After(x) \in Word
  <2>1. x \in Nat /\ SeedMultiplier \in Nat
    BY RandomAssumption, WordSizes DEF Word
  <2>2. SeedMultiplier * x \in Nat
    BY <2>1
  <2>3. SeedMultiplier * (SeedMultiplier * x + 1) \in Nat
    BY <2>1, <2>2
  <2>4. SeedMultiplier * (SeedMultiplier * x + 1) + 1 \in Nat
    BY <2>3
  <2> QED BY <2>4, WordsOf
<1> HIDE DEF After
<1>3. step \in [Nat \X Word -> Word]
  BY <1>2
<1>4. PICK f : IsRecursion(f, Word, first, step)
  <2> HIDE DEF step, first
  <2> QED BY <1>1, <1>3, RecursionExists, Zenon
<1>5. f \in [Nat -> Word] /\ f[0] = first /\ \A n \in Nat : f[n + 1] = After(f[n])
  <2>1. f \in [Nat -> Word] /\ f[0] = first /\ \A n \in Nat : f[n + 1] = step[<<n, f[n]>>]
    BY <1>4, Zenon DEF IsRecursion
  <2>2. ASSUME NEW n \in Nat PROVE step[<<n, f[n]>>] = After(f[n])
    <3>1. <<n, f[n]>> \in Nat \X Word
      BY <2>1
    <3> QED BY <3>1
  <2> QED BY <2>1, <2>2
<1> HIDE DEF step, first
<1> DEFINE g == [i \in 0 .. N - 1 |-> f[i]]
<1>6. IsSeeds(g)
  <2>1. ASSUME NEW i \in 0 .. N - 1 PROVE f[i] = IF i = 0 THEN first ELSE After(g[i - 1])
    <3>1. CASE i = 0
      BY <1>5, <3>1
    <3>2. CASE i # 0
      <4>1. i - 1 \in Nat /\ i - 1 \in 0 .. N - 1 /\ (i - 1) + 1 = i
        BY <3>2, TwistSizes
      <4>2. f[(i - 1) + 1] = After(f[i - 1])
        BY <1>5, <4>1
      <4> QED BY <3>2, <4>1, <4>2
    <3> QED BY <3>1, <3>2
  <2> QED BY <2>1
<1> DEFINE s == CHOOSE h : IsSeeds(h)
<1>7. IsSeeds(s)
  <2> HIDE DEF IsSeeds, g
  <2> QED BY <1>6
<1>8. SeedsFrom(seed) = s
  BY DEF SeedsFrom, After, first
<1> HIDE DEF s, g
<1>9. \A i \in 0 .. N - 1 : s[i] = IF i = 0 THEN first ELSE After(s[i - 1])
  BY <1>7
<1> DEFINE P == {n \in Nat : n <= N - 1 => s[n] \in Word}
<1>10. \A n \in Nat : n \in P
  <2>1. 0 \in P
    <3>1. 0 \in 0 .. N - 1
      BY RandomAssumption
    <3> QED BY <1>1, <1>9, <3>1
  <2>2. ASSUME NEW n \in Nat, n \in P PROVE n + 1 \in P
    <3> SUFFICES ASSUME n + 1 <= N - 1 PROVE s[n + 1] \in Word
      OBVIOUS
    <3>1. n + 1 \in 0 .. N - 1 /\ n + 1 # 0 /\ (n + 1) - 1 = n /\ n <= N - 1
      BY TwistSizes
    <3>2. s[n + 1] = After(s[n])
      BY <1>9, <3>1
    <3> QED BY <1>2, <2>2, <3>1, <3>2
  <2> HIDE DEF P
  <2> QED BY <2>1, <2>2, SetInduction
<1> QED BY <1>8, <1>10, TwistSizes

LEMMA SeededType ==
  ASSUME NEW seed \in Word
  PROVE  Seeded(seed) \in Twister
<1> DEFINE half == Power[Bits \div 2]
           Made(s) == ((SeedMultiplier * s) % Words) \div half + (s - (s % half))
<1>1. half \in Nat /\ half > 0 /\ Words = half * half /\ Words \in Nat
  BY WordSizes
<1>2. ASSUME NEW s \in Word PROVE Made(s) \in Word
  <2> DEFINE m == (SeedMultiplier * s) % Words
             q == m \div half
             h == s \div half
  <2>1. s \in Nat /\ s < Words
    BY <1>1 DEF Word
  <2>2. SeedMultiplier * s \in Nat
    BY <2>1, RandomAssumption
  <2>3. m \in Nat /\ m < Words
    <3>1. m \in Word
      BY <2>2, WordsOf
    <3> QED BY <1>1, <3>1 DEF Word
  <2> HIDE DEF m
  <2>4. q \in Nat /\ m % half \in 0 .. half - 1 /\ m % half = m - half * q
    BY <1>1, <2>3, Division
  <2>5. h \in Nat /\ s % half \in 0 .. half - 1 /\ s % half = s - half * h
    BY <1>1, <2>1, Division
  <2>6. Made(s) = q + half * h
    <3>1. half * h \in Nat
      BY <1>1, <2>5
    <3>2. s - (s % half) = half * h
      BY <2>1, <2>5, <3>1
    <3> QED BY <3>2 DEF m
  <2> DEFINE c == half
  <2> HIDE DEF q, h, half
  <2>7. ASSUME NEW x \in Nat, half * x < half * half PROVE x <= half - 1
    <3> SUFFICES ASSUME x >= half PROVE FALSE
      BY <1>1
    <3>1. half * x >= half * half
      BY <1>1
    <3> QED BY <1>1, <2>7, <3>1
  <2>8. half * q < half * half /\ half * h < half * half
    <3>1. half * q \in Nat /\ half * h \in Nat
      BY <1>1, <2>4, <2>5
    <3> QED BY <1>1, <2>1, <2>3, <2>4, <2>5, <3>1
  <2>9. q <= half - 1 /\ h <= half - 1
    BY <2>4, <2>5, <2>7, <2>8
  <2>10. half * h <= half * (half - 1) /\ half * (half - 1) = half * half - half
    BY <1>1, <2>5, <2>9
  <2>11. half * h \in Nat
    BY <1>1, <2>5
  <2>12. q + half * h \in Nat /\ q + half * h <= Words - 1
    BY <1>1, <2>4, <2>9, <2>10, <2>11
  <2> QED BY <1>1, <2>6, <2>12 DEF Word
<1>3. Seeded(seed) = [i \in 0 .. TWIST_SIZE - 1 |-> Made(SeedsFrom(seed)[i])]
  BY DEF Seeded
<1> HIDE DEF Made
<1> QED BY <1>2, <1>3, SeedsType DEF Twister

-----------------------------------------------------------------------------
(* The generators as a specification of their own.                         *)
RandomSpec == RandomInit /\ [][RandomNext]_randomVars

(* The words are those of a reload.                                        *)
Reloads == \E behind \in Word : behind % 2 = 0 /\ mTwister = Twisted(before, behind)

RandomInv == RandomTypeOK /\ Reloads

LEMMA ReloadType ==
  ASSUME NEW twister \in Twister, NEW next \in 0 .. TWIST_SIZE, Reloaded(twister, next)
  PROVE  /\ mTwister' \in Twister /\ before' \in Twister /\ mpNext' \in 0 .. TWIST_SIZE
         /\ mnRemaining' = TWIST_SIZE - mpNext'
         /\ Reloads'
<1>1. PICK behind \in Addresses : mTwister' = Twisted(twister, behind)
  BY DEF Reloaded
<1>2. behind \in Word /\ behind % 2 = 0
  BY WordSizes DEF Addresses, Word
<1>3. before' = twister /\ mpNext' = next /\ mnRemaining' = TWIST_SIZE - next
  BY DEF Reloaded
<1>4. mTwister' \in Twister
  BY <1>1, <1>2, TwistedIs
<1>5. Reloads'
  BY <1>1, <1>2, <1>3 DEF Reloads
<1> QED BY <1>3, <1>4, <1>5

LEMMA RandomInitInv == RandomInit => RandomInv
<1> SUFFICES ASSUME RandomInit PROVE RandomInv
  OBVIOUS
<1>1. /\ mnIntegerSeed \in Word /\ before = Seeded(mnIntegerSeed) /\ mTwister = Twisted(before, 0)
      /\ mpNext = 0 /\ mnRemaining = TWIST_SIZE /\ drawn = 0 /\ word = 0
  BY RandomAssumption DEF RandomInit
<1>2. 0 \in Word /\ 0 % 2 = 0
  BY WordSizes DEF Word
<1>3. before \in Twister
  BY <1>1, SeededType
<1>4. mTwister \in Twister
  BY <1>1, <1>2, <1>3, TwistedIs
<1>5. Reloads
  BY <1>1, <1>2 DEF Reloads
<1>6. Draws \in Nat
  BY RandomAssumption
<1> QED BY <1>1, <1>2, <1>3, <1>4, <1>5, <1>6, TwistSizes DEF RandomInv, RandomTypeOK, Twister

LEMMA RandomStep == RandomInv /\ [RandomNext]_randomVars => RandomInv'
<1> SUFFICES ASSUME RandomInv, [RandomNext]_randomVars PROVE RandomInv'
  OBVIOUS
<1>1. /\ mnIntegerSeed \in Word /\ mTwister \in Twister /\ before \in Twister /\ mpNext \in 0 .. TWIST_SIZE
      /\ mnRemaining = TWIST_SIZE - mpNext /\ drawn \in 0 .. Draws /\ word \in Word /\ Reloads
  BY DEF RandomInv, RandomTypeOK, Twister
<1>2. TWIST_SIZE \in Nat /\ 0 \in 0 .. TWIST_SIZE - 1 /\ 1 \in 0 .. TWIST_SIZE /\ 0 \in 0 .. TWIST_SIZE
  BY TwistSizes
<1>3. Draws \in Nat /\ 0 \in Word
  BY RandomAssumption, WordSizes DEF Word
<1>4. CASE RandomUint32Uniform
  <2> DEFINE c == Congruence(mnIntegerSeed)
             half == Power[Bits \div 2]
  <2>1. c \in Nat
    <3>1. mnIntegerSeed \in Nat /\ Multiplier \in Nat /\ Increment \in Nat
      BY <1>1, RandomAssumption, WordSizes DEF Word
    <3>2. Multiplier * mnIntegerSeed \in Nat
      BY <3>1
    <3> QED BY <3>1, <3>2 DEF Congruence
  <2> HIDE DEF c
  <2>2. c \div half \in Nat
    BY <2>1, WordSizes, Division
  <2> HIDE DEF half
  <2>3. c % Words \in Word /\ (c \div half) % Words \in Word
    BY <2>1, <2>2, WordsOf
  <2>4. /\ mnIntegerSeed' = c % Words /\ word' = (c \div half) % Words
        /\ drawn < Draws /\ drawn' = drawn + 1
        /\ mTwister' = mTwister /\ mpNext' = mpNext /\ mnRemaining' = mnRemaining /\ before' = before
    BY <1>4 DEF RandomUint32Uniform, c, half
  <2>5. drawn' \in 0 .. Draws
    BY <1>1, <1>3, <2>4
  <2>6. Reloads'
    BY <1>1, <2>4 DEF Reloads
  <2> QED BY <1>1, <2>3, <2>4, <2>5, <2>6 DEF RandomInv, RandomTypeOK, Twister
<1>5. CASE TwisterUint32Uniform
  <2>1. drawn < Draws /\ drawn' = drawn + 1 /\ mnIntegerSeed' = mnIntegerSeed
    BY <1>5 DEF TwisterUint32Uniform
  <2>2. drawn' \in 0 .. Draws
    BY <1>1, <1>3, <2>1
  <2>3. CASE mnRemaining = 0
    <3>1. Reloaded(mTwister, 1) /\ word' = Tempered(mTwister'[0])
      BY <1>5, <2>3 DEF TwisterUint32Uniform
    <3>2. /\ mTwister' \in Twister /\ before' \in Twister /\ mpNext' \in 0 .. TWIST_SIZE
          /\ mnRemaining' = TWIST_SIZE - mpNext'
          /\ Reloads'
      BY <1>1, <1>2, <3>1, ReloadType
    <3>3. mTwister'[0] \in Word
      BY <1>2, <3>2 DEF Twister
    <3>4. word' \in Word
      BY <3>1, <3>3, TemperedType
    <3> QED BY <1>1, <2>1, <2>2, <3>2, <3>4 DEF RandomInv, RandomTypeOK, Twister
  <2>4. CASE mnRemaining # 0
    <3>1. /\ word' = Tempered(mTwister[mpNext]) /\ mpNext' = mpNext + 1 /\ mnRemaining' = mnRemaining - 1
          /\ mTwister' = mTwister /\ before' = before
      BY <1>5, <2>4 DEF TwisterUint32Uniform
    <3>2. mpNext \in 0 .. TWIST_SIZE - 1 /\ mpNext' \in 0 .. TWIST_SIZE /\ mnRemaining' = TWIST_SIZE - mpNext'
      BY <1>1, <1>2, <2>4, <3>1
    <3>3. mTwister[mpNext] \in Word
      BY <1>1, <3>2 DEF Twister
    <3>4. word' \in Word
      BY <3>1, <3>3, TemperedType
    <3>5. Reloads'
      BY <1>1, <3>1 DEF Reloads
    <3> QED BY <1>1, <2>1, <2>2, <3>1, <3>2, <3>4, <3>5 DEF RandomInv, RandomTypeOK, Twister
  <2> QED BY <2>3, <2>4
<1>6. ASSUME NEW seed \in Seeds, Seed(seed) PROVE RandomInv'
  <2>1. seed \in Word
    BY RandomAssumption
  <2>2. mnIntegerSeed' = seed /\ Reloaded(Seeded(seed), 0) /\ drawn' = 0 /\ word' = 0
    BY <1>6 DEF Seed
  <2>3. Seeded(seed) \in Twister
    BY <2>1, SeededType
  <2>4. /\ mTwister' \in Twister /\ before' \in Twister /\ mpNext' \in 0 .. TWIST_SIZE
        /\ mnRemaining' = TWIST_SIZE - mpNext'
        /\ Reloads'
    BY <1>2, <2>2, <2>3, ReloadType
  <2>5. drawn' \in 0 .. Draws
    BY <1>3, <2>2
  <2> QED BY <1>3, <2>1, <2>2, <2>4, <2>5 DEF RandomInv, RandomTypeOK, Twister
<1>7. CASE UNCHANGED randomVars
  <2>1. /\ mnIntegerSeed' = mnIntegerSeed /\ mTwister' = mTwister /\ mpNext' = mpNext
        /\ mnRemaining' = mnRemaining /\ drawn' = drawn /\ before' = before /\ word' = word
    BY <1>7 DEF randomVars
  <2>2. Reloads'
    BY <1>1, <2>1 DEF Reloads
  <2> QED BY <1>1, <2>1, <2>2 DEF RandomInv, RandomTypeOK, Twister
<1> QED BY <1>4, <1>5, <1>6, <1>7 DEF RandomNext

(* The words stay words, and mpNext inside the array or just behind it.    *)
THEOREM RandomType == RandomSpec => []RandomTypeOK
<1>1. RandomInv => RandomTypeOK
  BY DEF RandomInv
<1> QED BY <1>1, RandomInitInv, RandomStep, PTL DEF RandomSpec

(* The unrolled loops of Reload (rzrandomsuper.cpp) make the recurrence,   *)
(* whatever the second one reads behind the array.                         *)
THEOREM TwistIsRecurrent == RandomSpec => []TwistIsTheRecurrence
<1>1. RandomInv => TwistIsTheRecurrence
  <2> SUFFICES ASSUME RandomInv PROVE TwistIsTheRecurrence
    OBVIOUS
  <2>1. before \in Twister
    BY DEF RandomInv, RandomTypeOK, Twister
  <2> QED BY <2>1, RecurrenceHolds DEF RandomInv, Reloads
<1> QED BY <1>1, RandomInitInv, RandomStep, PTL DEF RandomSpec

-----------------------------------------------------------------------------
(* Tempering loses no word.                                                *)
LEMMA XorGroup ==
  ASSUME NEW u \in Word, NEW v \in Word, NEW w \in Word
  PROVE  /\ BitXor(BitXor(u, v), w) = BitXor(u, BitXor(v, w))
         /\ BitAnd(BitXor(u, v), w) = BitXor(BitAnd(u, w), BitAnd(v, w))
<1>1. \A x, y, z \in Word :
        /\ BitXor(BitXor(x, y), z) = BitXor(x, BitXor(y, z))
        /\ BitAnd(BitXor(x, y), z) = BitXor(BitAnd(x, z), BitAnd(y, z))
  BY BitAssumption, Zenon
<1> QED BY <1>1, Zenon

LEMMA XorApart ==
  ASSUME NEW u \in Word, NEW v \in Word, BitXor(u, v) = 0
  PROVE  u = v
<1>1. BitXor(u, BitXor(v, v)) = BitXor(BitXor(u, v), v)
  BY XorGroup
<1>2. BitXor(v, v) = 0 /\ BitXor(u, 0) = u
  BY XorIs
<1>3. 0 \in Word
  BY WordSizes DEF Word
<1>4. BitXor(0, v) = v
  BY <1>3, XorIs
<1> QED BY <1>1, <1>2, <1>4

LEMMA XorExchange ==
  ASSUME NEW u \in Word, NEW v \in Word, NEW a \in Word, NEW b \in Word, BitXor(u, a) = BitXor(v, b)
  PROVE  BitXor(u, v) = BitXor(a, b)
<1> DEFINE d == BitXor(u, a)
<1>1. d \in Word /\ d = BitXor(v, b)
  BY XorIs
<1> HIDE DEF d
<1>2. BitXor(d, a) = u
  <2>1. BitXor(d, a) = BitXor(u, BitXor(a, a)) /\ BitXor(a, a) = 0 /\ BitXor(u, 0) = u
    BY XorGroup, XorIs DEF d
  <2> QED BY <2>1
<1>3. BitXor(d, b) = v
  <2>1. BitXor(d, b) = BitXor(v, BitXor(b, b)) /\ BitXor(b, b) = 0 /\ BitXor(v, 0) = v
    BY <1>1, XorGroup, XorIs
  <2> QED BY <2>1
<1>4. BitXor(u, v) = BitXor(a, BitXor(d, v))
  <2>1. BitXor(d, a) = BitXor(a, d)
    BY <1>1, XorIs
  <2>2. BitXor(BitXor(a, d), v) = BitXor(a, BitXor(d, v))
    BY <1>1, XorGroup
  <2> QED BY <1>2, <2>1, <2>2
<1>5. BitXor(d, v) = b
  <2>1. BitXor(d, BitXor(d, b)) = BitXor(BitXor(d, d), b)
    BY <1>1, XorGroup
  <2>2. BitXor(d, d) = 0 /\ 0 \in Word
    BY <1>1, XorIs, WordSizes DEF Word
  <2>3. BitXor(0, b) = b
    BY <2>2, XorIs
  <2> QED BY <1>3, <2>1, <2>2, <2>3
<1> QED BY <1>4, <1>5

LEMMA PowerType ==
  ASSUME NEW k \in 0 .. Bits
  PROVE  k \in Nat /\ Bits \in Nat /\ Power[k] \in Nat /\ Power[k] > 0 /\ Words \in Nat /\ Words > 0
BY PowerIs, WordSizes, RandomAssumption

LEMMA ShiftedWord ==
  ASSUME NEW x \in Word, NEW k \in 0 .. Bits
  PROVE  x \div Power[k] \in Word /\ (x * Power[k]) % Words \in Word
<1> DEFINE p == Power[k]
<1>1. p \in Nat /\ p > 0 /\ x \in Nat /\ Words \in Nat /\ x < Words
  BY PowerType, WordSizes DEF Word
<1> HIDE DEF p
<1>2. x \div p \in Nat /\ x * p \in Nat
  BY <1>1, Division
<1>3. x \div p <= x
  BY <1>1, <1>2
<1>4. (x * p) % Words \in Word
  BY <1>2, WordsOf
<1> QED BY <1>1, <1>2, <1>3, <1>4 DEF Word, p

LEMMA PowerEven ==
  ASSUME NEW k \in 1 .. Bits
  PROVE  k - 1 \in 0 .. Bits /\ Power[k] = 2 * Power[k - 1]
<1>1. k - 1 \in Nat /\ (k - 1) + 1 = k /\ k - 1 \in 0 .. Bits
  BY RandomAssumption
<1>2. Power[(k - 1) + 1] = 2 * Power[k - 1]
  BY <1>1, PowerIs
<1> QED BY <1>1, <1>2

LEMMA ShiftedDown ==
  ASSUME NEW u \in Word, NEW v \in Word, NEW k \in 1 .. Bits,
         BitXor(u, u \div Power[k]) = BitXor(v, v \div Power[k])
  PROVE  u = v
<1> DEFINE d == BitXor(u, v)
           p == Power[k]
<1>1. k \in 0 .. Bits
  BY RandomAssumption
<1>2. u \div p \in Word /\ v \div p \in Word
  BY <1>1, ShiftedWord
<1>3. d = BitXor(u \div p, v \div p)
  BY <1>2, XorExchange
<1>4. d = d \div p
  BY <1>1, <1>3, ShiftsAndMasks
<1>5. d \in Nat
  BY XorIs, WordSizes DEF Word
<1>6. p \in Nat /\ p >= 2
  <2>1. p = 2 * Power[k - 1] /\ Power[k - 1] \in Nat /\ Power[k - 1] > 0
    BY PowerEven, PowerType
  <2> QED BY <2>1
<1> HIDE DEF d, p
<1>7. d \div p \in Nat /\ d % p \in 0 .. p - 1 /\ d % p = d - p * (d \div p)
  BY <1>5, <1>6, Division
<1>8. d - p * d >= 0
  BY <1>4, <1>5, <1>6, <1>7
<1>9. p * d >= 2 * d
  BY <1>5, <1>6
<1>10. p * d \in Nat
  BY <1>5, <1>6
<1>11. d = 0
  BY <1>5, <1>8, <1>9, <1>10
<1> QED BY <1>11, XorApart DEF d

(* A number of which a power divides a word.                               *)
LEMMA Divides ==
  ASSUME NEW x \in Nat, NEW m \in Nat, m > 0
  PROVE  x % m = 0 <=> \E q \in Nat : x = m * q
<1>1. x % m = 0 => \E q \in Nat : x = m * q
  <2>1. x \div m \in Nat /\ x % m = x - m * (x \div m)
    BY Division
  <2>2. m * (x \div m) \in Nat
    BY <2>1
  <2>3. x % m = 0 => x = m * (x \div m)
    BY <2>1, <2>2
  <2> QED BY <2>1, <2>3
<1>2. ASSUME NEW q \in Nat, x = m * q PROVE x % m = 0
  <2>1. q * m + 0 = x /\ 0 \in 0 .. m - 1
    BY <1>2
  <2>2. (q * m + 0) % m = 0
    BY <2>1, DivisionOf
  <2> QED BY <2>1, <2>2
<1> QED BY <1>1, <1>2

LEMMA ShiftedUp ==
  ASSUME NEW u \in Word, NEW v \in Word, NEW mask \in Word, NEW k \in 1 .. Bits,
         BitXor(u, (BitAnd(u, mask) * Power[k]) % Words) = BitXor(v, (BitAnd(v, mask) * Power[k]) % Words)
  PROVE  u = v
<1> DEFINE p == Power[k]
           Up(x) == (BitAnd(x, mask) * p) % Words
           d == BitXor(u, v)
<1>1. k \in 0 .. Bits
  BY RandomAssumption
<1>2. \A x \in Word : BitAnd(x, mask) \in Word
  BY BitAssumption, Zenon
<1>3. \A x \in Word : Up(x) \in Word
  BY <1>1, <1>2, ShiftedWord
<1>4. d \in Word /\ d = BitXor(Up(u), Up(v))
  BY <1>3, XorExchange, XorIs
<1>5. BitXor(Up(u), Up(v)) = (BitXor(BitAnd(u, mask), BitAnd(v, mask)) * p) % Words
  BY <1>1, <1>2, ShiftsAndMasks
<1>6. BitAnd(d, mask) = BitXor(BitAnd(u, mask), BitAnd(v, mask))
  BY XorGroup
<1>7. d = (BitAnd(d, mask) * p) % Words
  BY <1>4, <1>5, <1>6
<1> HIDE DEF d, Up
<1>8. d \in Nat /\ d < Words /\ BitAnd(d, mask) \in Nat /\ Words \in Nat /\ Words > 0
  BY <1>2, <1>4, WordSizes DEF Word
<1> DEFINE P == {j \in Nat : j <= Bits => d % Power[j] = 0}
<1>9. 0 \in P
  <2>1. d % 1 = 0
    BY <1>8
  <2> QED BY <2>1, PowerIs
<1>10. ASSUME NEW j \in Nat, j \in P PROVE j + 1 \in P
  <2> SUFFICES ASSUME j + 1 <= Bits PROVE d % Power[j + 1] = 0
    OBVIOUS
  <2> DEFINE a == BitAnd(d, mask)
             r == Power[j]
             h == Power[k - 1]
             rest == Power[Bits - (j + 1)]
             e == Power[j + 1]
  <2>1. j \in 0 .. Bits /\ Bits - (j + 1) \in Nat /\ j <= Bits /\ Bits \in Nat
    BY RandomAssumption
  <2>2. a % r = 0
    <3>1. d % Power[j] = 0
      BY <1>10, <2>1
    <3> QED BY <1>4, <2>1, <3>1, ShiftsAndMasks
  <2>3. r \in Nat /\ r > 0 /\ e = 2 * r /\ rest \in Nat
    BY <2>1, PowerIs
  <2>4. p = 2 * h /\ h \in Nat
    BY PowerEven, PowerType
  <2>5. Words = e * rest
    <3>1. (j + 1) + (Bits - (j + 1)) = Bits /\ j + 1 \in Nat
      BY <2>1
    <3>2. Power[(j + 1) + (Bits - (j + 1))] = Power[j + 1] * Power[Bits - (j + 1)]
      BY <2>1, <3>1, PowerSum
    <3> QED BY <3>1, <3>2 DEF Words
  <2>6. a \in Nat
    BY <1>8
  <2> HIDE DEF a, r, h, rest, e, p
  <2>7. PICK q \in Nat : a = r * q
    BY <2>2, <2>3, <2>6, Divides
  <2>8. a * p = e * (q * h)
    <3>1. (r * q) * (2 * h) = (2 * r) * (q * h)
      BY <2>3, <2>4
    <3> QED BY <2>3, <2>4, <2>7, <3>1
  <2> DEFINE x == a * p
             n == x \div Words
  <2>9. x \in Nat /\ e \in Nat /\ e > 0 /\ q * h \in Nat
    BY <2>3, <2>4, <2>6
  <2>10. n \in Nat /\ x % Words = x - Words * n
    <3> HIDE DEF x
    <3> QED BY <1>8, <2>9, Division
  <2>11. d = x - Words * n
    BY <1>7, <2>10 DEF a
  <2> HIDE DEF x, n
  <2>12. Words * n = e * (rest * n) /\ rest * n \in Nat
    BY <2>3, <2>5, <2>9, <2>10
  <2>13. x = e * (q * h)
    BY <2>8 DEF x
  <2>14. d = e * (q * h - rest * n)
    BY <2>9, <2>11, <2>12, <2>13
  <2>15. q * h - rest * n \in Nat
    <3> DEFINE g == q * h - rest * n
    <3>1. g \in Int
      BY <2>9, <2>12
    <3> HIDE DEF g
    <3>2. ASSUME g < 0 PROVE FALSE
      <4>1. e * g < 0
        BY <2>9, <3>1, <3>2
      <4> QED BY <1>8, <2>14, <4>1 DEF g
    <3> QED BY <3>1, <3>2 DEF g
  <2> QED BY <1>8, <2>9, <2>14, <2>15, Divides DEF e
<1> HIDE DEF P
<1>11. Bits \in P
  BY <1>9, <1>10, SetInduction, RandomAssumption
<1>12. d % Words = 0
  BY <1>11, RandomAssumption DEF P, Words
<1>13. d = 0
  <2>1. PICK q \in Nat : d = Words * q
    BY <1>8, <1>12, Divides
  <2>2. q = 0
    <3> SUFFICES ASSUME q >= 1 PROVE FALSE
      OBVIOUS
    <3>1. Words * q >= Words
      BY <1>8
    <3> QED BY <1>8, <2>1, <3>1
  <2> QED BY <1>8, <2>1, <2>2
<1> QED BY <1>13, XorApart DEF d

LEMMA TemperedApart ==
  ASSUME NEW w \in Word, NEW x \in Word, Tempered(w) = Tempered(x)
  PROVE  w = x
<1> DEFINE First(y) == BitXor(y, y \div Power[Tempering.U])
           Second(y) == BitXor(y, (BitAnd(y, Tempering.B) * Power[Tempering.S]) % Words)
           Third(y) == BitXor(y, (BitAnd(y, Tempering.C) * Power[Tempering.T]) % Words)
           Fourth(y) == BitXor(y, y \div Power[Tempering.L])
<1>1. Tempering \in [U : 1 .. Bits, S : 1 .. Bits, B : Word, T : 1 .. Bits, C : Word, L : 1 .. Bits] /\ Bits \in Nat
  BY RandomAssumption
<1>2. /\ Tempering.U \in 1 .. Bits /\ Tempering.S \in 1 .. Bits /\ Tempering.T \in 1 .. Bits
      /\ Tempering.L \in 1 .. Bits /\ Tempering.B \in Word /\ Tempering.C \in Word
      /\ \A k \in 1 .. Bits : k \in 0 .. Bits
  BY <1>1
<1>3. \A u, v \in Word : BitAnd(u, v) \in Word
  BY BitAssumption, Zenon
<1>4. ASSUME NEW y \in Word
      PROVE  First(y) \in Word /\ Second(y) \in Word /\ Third(y) \in Word
  BY <1>2, <1>3, ShiftedWord, XorIs
<1>5. \A y, z \in Word : First(y) = First(z) => y = z
  BY <1>2, ShiftedDown
<1>6. \A y, z \in Word : Second(y) = Second(z) => y = z
  BY <1>2, ShiftedUp
<1>7. \A y, z \in Word : Third(y) = Third(z) => y = z
  BY <1>2, ShiftedUp
<1>8. \A y, z \in Word : Fourth(y) = Fourth(z) => y = z
  BY <1>2, ShiftedDown
<1>9. \A y : Tempered(y) = Fourth(Third(Second(First(y))))
  BY DEF Tempered
<1> HIDE DEF First, Second, Third, Fourth
<1>10. First(w) \in Word /\ First(x) \in Word
  BY <1>4
<1>11. Second(First(w)) \in Word /\ Second(First(x)) \in Word
  BY <1>4, <1>10
<1>12. Third(Second(First(w))) \in Word /\ Third(Second(First(x))) \in Word
  BY <1>4, <1>11
<1>13. Third(Second(First(w))) = Third(Second(First(x)))
  BY <1>8, <1>9, <1>12
<1>14. Second(First(w)) = Second(First(x))
  BY <1>7, <1>11, <1>13
<1>15. First(w) = First(x)
  BY <1>6, <1>10, <1>14
<1> QED BY <1>5, <1>15

LEMMA TemperedAll ==
  ASSUME NEW x \in Word
  PROVE  \E w \in Word : Tempered(w) = x
<1> DEFINE f == [w \in Word |-> Tempered(w)]
<1>1. f \in [Word -> Word] /\ DOMAIN f = Word
  BY TemperedType
<1>2. \A a, b \in DOMAIN f : f[a] = f[b] => a = b
  BY TemperedApart
<1>3. IsFiniteSet(Word)
  <2>1. 0 \in Int /\ Words - 1 \in Int
    BY WordSizes
  <2> QED BY <2>1, FS_Interval DEF Word
<1> HIDE DEF f
<1>4. f \in Injection(Word, Word)
  BY <1>1, <1>2, Zenon DEF Injection, IsInjective
<1>5. f \in Surjection(Word, Word)
  BY <1>3, <1>4, FS_Injection
<1>6. \A t \in Word : \E s \in Word : f[s] = t
  BY <1>5, Zenon DEF Surjection
<1> QED BY <1>6 DEF f

-----------------------------------------------------------------------------
(* A word scaled is below the scale, and every number below it is one.     *)
LEMMA ScaledBelow ==
  ASSUME NEW n \in 1 .. Words - 1, NEW w \in Word
  PROVE  Scaled(n, w) \in 0 .. n - 1
<1> DEFINE x == n * w
           q == x \div Words
<1>1. n \in Nat /\ n >= 1 /\ w \in Nat /\ w <= Words - 1 /\ Words \in Nat /\ Words > 0
  BY WordSizes DEF Word
<1>2. x \in Nat /\ x <= n * (Words - 1) /\ n * (Words - 1) = n * Words - n
  BY <1>1
<1> HIDE DEF x
<1>3. q \in Nat /\ x % Words \in 0 .. Words - 1 /\ x % Words = x - Words * q
  BY <1>1, <1>2, Division
<1> HIDE DEF q
<1>4. ~(q >= n)
  <2> SUFFICES ASSUME q >= n PROVE FALSE
    OBVIOUS
  <2>1. Words * q >= Words * n /\ Words * n = n * Words /\ Words * q \in Nat /\ n * Words \in Nat
    BY <1>1, <1>3
  <2> QED BY <1>1, <1>2, <1>3, <2>1
<1>5. Scaled(n, w) = q
  BY DEF Scaled, q, x
<1> QED BY <1>1, <1>3, <1>4, <1>5

LEMMA ScaledAll ==
  ASSUME NEW n \in 1 .. Words - 1, NEW t \in 0 .. n - 1
  PROVE  \E w \in Word : Scaled(n, w) = t
<1> DEFINE m == Words
           y == t * m + (n - 1)
           w == y \div n
           x == n * w
<1>1. n \in Nat /\ n >= 1 /\ t \in Nat /\ t <= n - 1 /\ m \in Nat /\ n <= m - 1
  BY WordSizes
<1> HIDE DEF m
<1>2. t * m \in Nat /\ y \in Nat
  BY <1>1
<1>3. t * m <= (n - 1) * m /\ (n - 1) * m = n * m - m /\ n * m \in Nat
  BY <1>1
<1>4. y = t * m + (n - 1)
  OBVIOUS
<1> HIDE DEF y
<1>5. w \in Nat /\ y % n \in 0 .. n - 1 /\ y % n = y - n * w
  BY <1>1, <1>2, Division
<1> HIDE DEF w
<1>6. x \in Nat
  BY <1>1, <1>5
<1>7. t * m <= x /\ x <= t * m + (n - 1) /\ x < n * m
  BY <1>1, <1>2, <1>3, <1>4, <1>5, <1>6
<1>8. x \div m = t
  <2> DEFINE r == x - t * m
  <2>1. r \in 0 .. m - 1 /\ t * m + r = x
    BY <1>1, <1>2, <1>6, <1>7
  <2> HIDE DEF r, x
  <2>2. (t * m + r) \div m = t
    BY <1>1, <2>1, DivisionOf
  <2> QED BY <2>1, <2>2
<1>9. w < m
  <2> SUFFICES ASSUME w >= m PROVE FALSE
    BY <1>1, <1>5
  <2>1. n * w >= n * m
    BY <1>1, <1>5
  <2> QED BY <1>3, <1>6, <1>7, <2>1
<1>10. w \in Word
  BY <1>1, <1>5, <1>9 DEF Word, m
<1>11. Scaled(n, w) = t
  BY <1>8 DEF Scaled, m
<1> QED BY <1>10, <1>11

(* A signed word is kept by the way through a word.                        *)
LEMMA SignedOf ==
  ASSUME NEW z \in - Top .. Top - 1
  PROVE  Signed(z % Words) = z
<1> DEFINE m == Words
<1>1. m \in Nat /\ Top \in Nat /\ m = 2 * Top /\ Top >= 4 /\ z \in Int /\ - Top <= z /\ z < Top
  BY WordSizes
<1>2. CASE z >= 0
  <2>1. z \in 0 .. m - 1 /\ 0 * m + z = z /\ 0 \in Nat
    BY <1>1, <1>2
  <2>2. (0 * m + z) % m = z
    BY <1>1, <2>1, DivisionOf
  <2> QED BY <1>1, <2>1, <2>2 DEF Signed
<1>3. CASE z < 0
  <2>1. z % m = z + m
    <3>1. z % m \in 0 .. m - 1
      BY <1>1
    <3> QED BY <1>1, <1>3
  <2> QED BY <1>1, <1>3, <2>1 DEF Signed
<1> QED BY <1>1, <1>2, <1>3

LEMMA RangeOfWords ==
  ASSUME NEW min \in - Top .. Top - 1, NEW max \in - Top .. Top - 1, min < max
  PROVE  {RandomSint32RangeUniform(min, max, Tempered(w)) : w \in Word} = min .. max - 1
<1> DEFINE n == max - min
           Given(w) == RandomSint32RangeUniform(min, max, w)
<1>1. Words \in Nat /\ Top \in Nat /\ Words = 2 * Top /\ Top >= 4
  BY WordSizes
<1>2. n \in 1 .. Words - 1 /\ min \in Int /\ max \in Int /\ - Top <= min /\ max <= Top - 1
  BY <1>1
<1>3. n % Words = n
  <2>1. n \in 0 .. Words - 1 /\ 0 \in Nat /\ 0 * Words + n = n
    BY <1>1, <1>2
  <2> HIDE DEF n
  <2>2. (0 * Words + n) % Words = n
    BY <1>1, <2>1, DivisionOf
  <2> QED BY <2>1, <2>2
<1>4. ASSUME NEW w \in Word
      PROVE  Given(w) = min + Scaled(n, w) /\ Given(w) \in min .. max - 1
  <2>1. Scaled(n, w) \in 0 .. n - 1
    BY <1>2, ScaledBelow
  <2>2. min + Scaled(n, w) \in min .. max - 1 /\ min + Scaled(n, w) \in - Top .. Top - 1
    BY <1>1, <1>2, <2>1
  <2>3. Given(w) = Signed((min + Scaled(n, w)) % Words)
    BY <1>3 DEF RandomSint32RangeUniform
  <2> HIDE DEF Given
  <2> QED BY <2>2, <2>3, SignedOf
<1>5. ASSUME NEW z \in min .. max - 1
      PROVE  \E w \in Word : Given(Tempered(w)) = z
  <2>1. z - min \in 0 .. n - 1 /\ min + (z - min) = z
    BY <1>2
  <2>2. PICK w \in Word : Scaled(n, w) = z - min
    BY <1>2, <2>1, ScaledAll
  <2>3. PICK u \in Word : Tempered(u) = w
    BY TemperedAll
  <2>4. Given(w) = z
    BY <1>4, <2>1, <2>2
  <2> HIDE DEF Given
  <2> QED BY <2>3, <2>4
<1>6. \A w \in Word : Given(Tempered(w)) \in min .. max - 1
  BY <1>4, TemperedType
<1>7. {RandomSint32RangeUniform(min, max, Tempered(w)) : w \in Word} = {Given(Tempered(w)) : w \in Word}
  OBVIOUS
<1> HIDE DEF Given
<1> QED BY <1>5, <1>6, <1>7

(* RandomSint32RangeUniform gives every number of a range and no other.    *)
THEOREM NumbersCome == RandomSpec => []EveryNumberComes
<1>1. EveryNumberComes
  <2>1. Limits \subseteq - Top .. Top - 1
    BY RandomAssumption
  <2> QED BY <2>1, RangeOfWords DEF EveryNumberComes
<1> QED BY <1>1, PTL
==============================================================================
