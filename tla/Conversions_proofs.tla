------------------------- MODULE Conversions_proofs -------------------------
(***************************************************************************)
(* Proofs about Conversions, for every day, every tick count and           *)
(* resolution, and every word, byte and buffer size.                       *)
(***************************************************************************)
EXTENDS Conversions, FoldLemmas, SequenceTheorems

(* Powers.                                                                 *)

\* p is the table of the powers of b up to n.
Powers(b, n, p) == p = [i \in 0 .. n |-> IF i = 0 THEN 1 ELSE b * p[i - 1]]

\* Every base has its table of powers.
LEMMA PowersExist ==
    ASSUME NEW b, NEW n \in Nat
    PROVE  \E p : Powers(b, n, p)
<1> DEFINE Tabled == {m \in Nat : \E p : Powers(b, m, p)}
<1>1. 0 \in Tabled
  <2> DEFINE p == [i \in 0 .. 0 |-> 1]
  <2>1. p = [i \in 0 .. 0 |-> IF i = 0 THEN 1 ELSE b * p[i - 1]]
    OBVIOUS
  <2> QED
    BY <2>1 DEF Powers
<1>2. ASSUME NEW m \in Nat, m \in Tabled PROVE m + 1 \in Tabled
  <2>1. PICK p : Powers(b, m, p)
    BY <1>2
  <2> DEFINE q == [i \in 0 .. m + 1 |-> IF i = 0 THEN 1 ELSE b * p[i - 1]]
  <2>2. \A i \in 0 .. m : q[i] = p[i]
    BY <2>1 DEF Powers
  <2>3. \A i \in 0 .. m + 1 : i # 0 => i - 1 \in 0 .. m
    OBVIOUS
  <2>4. q = [i \in 0 .. m + 1 |-> IF i = 0 THEN 1 ELSE b * q[i - 1]]
    <3> HIDE DEF q
    <3>1. q = [i \in 0 .. m + 1 |-> IF i = 0 THEN 1 ELSE b * p[i - 1]]
      BY DEF q
    <3> QED
      BY <2>2, <2>3, <3>1
  <2>5. Powers(b, m + 1, q)
    BY <2>4 DEF Powers
  <2> QED
    BY <2>5
<1>3. \A m \in Nat : m \in Tabled
  <2> HIDE DEF Tabled
  <2> QED
    BY <1>1, <1>2, Induct
<1> QED
  BY <1>3

\* A power is the last entry of a table.
LEMMA PowIsTable ==
    ASSUME NEW b, NEW n \in Nat
    PROVE  \E p : Powers(b, n, p) /\ pow(b, n) = p[n]
<1> DEFINE p == CHOOSE q : Powers(b, n, q)
<1>1. Powers(b, n, p)
  BY PowersExist
<1>2. pow(b, n) = p[n]
  BY DEF pow, Powers
<1> QED
  BY <1>1, <1>2

\* Two tables of the powers of b agree as far as both go.
LEMMA PowersAgree ==
    ASSUME NEW b, NEW n \in Nat, NEW p, NEW q, Powers(b, n, p), Powers(b, n + 1, q)
    PROVE  p[n] = q[n]
<1> DEFINE Agree == {i \in Nat : i <= n => p[i] = q[i]}
<1>1. 0 \in Agree
  BY DEF Powers
<1>2. ASSUME NEW i \in Nat, i \in Agree PROVE i + 1 \in Agree
  BY <1>2 DEF Powers
<1>3. \A i \in Nat : i \in Agree
  <2> HIDE DEF Agree
  <2> QED
    BY <1>1, <1>2, Induct
<1> QED
  BY <1>3

\* The recurrence of powers.
LEMMA PowStep ==
    ASSUME NEW b, NEW n \in Nat
    PROVE  pow(b, 0) = 1 /\ pow(b, n + 1) = b * pow(b, n)
<1>1. PICK z : Powers(b, 0, z) /\ pow(b, 0) = z[0]
  BY PowIsTable
<1>2. PICK p : Powers(b, n, p) /\ pow(b, n) = p[n]
  BY PowIsTable
<1>3. PICK q : Powers(b, n + 1, q) /\ pow(b, n + 1) = q[n + 1]
  BY PowIsTable
<1>4. p[n] = q[n]
  BY <1>2, <1>3, PowersAgree
<1>5. q[n + 1] = b * q[n]
  BY <1>3 DEF Powers
<1>6. z[0] = 1
  BY <1>1 DEF Powers
<1> QED
  BY <1>1, <1>2, <1>3, <1>4, <1>5, <1>6

\* A power of a positive number is positive.
LEMMA PowType ==
    ASSUME NEW b \in Nat \ {0}, NEW n \in Nat
    PROVE  pow(b, n) \in Nat \ {0}
<1> DEFINE Typed == {i \in Nat : pow(b, i) \in Nat \ {0}}
<1>1. 0 \in Typed
  BY PowStep
<1>2. ASSUME NEW i \in Nat, i \in Typed PROVE i + 1 \in Typed
  <2>1. PICK x \in Nat \ {0} : x = pow(b, i)
    BY <1>2
  <2>2. pow(b, i + 1) = b * x
    BY <2>1, PowStep
  <2>3. b * x \in Nat \ {0}
    OBVIOUS
  <2> QED
    BY <2>2, <2>3
<1>3. \A i \in Nat : i \in Typed
  <2> HIDE DEF Typed
  <2> QED
    BY <1>1, <1>2, Induct
<1> QED
  BY <1>3

\* Exponents add up.
LEMMA PowAdd ==
    ASSUME NEW b \in Nat \ {0}, NEW m \in Nat, NEW n \in Nat
    PROVE  pow(b, m + n) = pow(b, m) * pow(b, n)
<1> DEFINE Adds == {i \in Nat : pow(b, m + i) = pow(b, m) * pow(b, i)}
<1>0. PICK x \in Nat \ {0} : x = pow(b, m)
  BY PowType
<1>1. 0 \in Adds
  BY <1>0, PowStep
<1>2. ASSUME NEW i \in Nat, i \in Adds PROVE i + 1 \in Adds
  <2>1. PICK y \in Nat \ {0} : y = pow(b, i)
    BY PowType
  <2>2. pow(b, m + i) = x * y
    BY <1>0, <1>2, <2>1
  <2>3. m + (i + 1) = (m + i) + 1 /\ m + i \in Nat
    OBVIOUS
  <2>4. pow(b, m + (i + 1)) = b * (x * y)
    BY <2>2, <2>3, PowStep
  <2>5. pow(b, i + 1) = b * y
    BY <2>1, PowStep
  <2>6. b * (x * y) = x * (b * y)
    OBVIOUS
  <2> QED
    BY <1>0, <2>4, <2>5, <2>6
<1>3. \A i \in Nat : i \in Adds
  <2> HIDE DEF Adds
  <2> QED
    BY <1>1, <1>2, Induct
<1> QED
  BY <1>3

-----------------------------------------------------------------------------
(* The calendar.  An era of 400 years is 4 centuries, a century 25 spans   *)
(* of 4 years; years begin on March 1, so that a leap day ends its year.   *)

\* c centuries, f spans, g years and doy days into an era; the last year of a
\* span has a day more, unless it ends a century that does not end the era.
IsPlace(c, f, g, doy) ==
    /\ c \in 0 .. 3 /\ f \in 0 .. 24 /\ g \in 0 .. 3
    /\ doy \in 0 .. 365
    /\ doy = 365 => g = 3 /\ (f # 24 \/ c = 3)

\* The day of an era at a place.
DayAt(c, f, g, doy) == 36524 * c + 1461 * f + 365 * g + doy

\* Division with remainder.
LEMMA Divide ==
    ASSUME NEW x \in Nat, NEW d \in Nat \ {0}
    PROVE  /\ x \div d \in Nat /\ x % d \in Nat
           /\ x = d * (x \div d) + (x % d) /\ (x % d) < d
<1> QED
  OBVIOUS

\* Quotients and remainders are unique.
LEMMA Quotient ==
    ASSUME NEW x \in Nat, NEW d \in Nat \ {0}, NEW q \in Nat, NEW r \in Nat, x = d * q + r, r < d
    PROVE  x \div d = q /\ x % d = r
<1>1. PICK a \in Nat, e \in Nat : a = x \div d /\ e = x % d /\ x = d * a + e /\ e < d
  BY Divide
<1>2. a = q
  <2>1. CASE a < q
    <3>1. q - a >= 1
      BY <2>1
    <3>2. d * q - d * a = d * (q - a) /\ d * (q - a) >= d
      BY <3>1
    <3> QED
      BY <1>1, <3>2
  <2>2. CASE q < a
    <3>1. a - q >= 1
      BY <2>2
    <3>2. d * a - d * q = d * (a - q) /\ d * (a - q) >= d
      BY <3>1
    <3> QED
      BY <1>1, <3>2
  <2> QED
    BY <2>1, <2>2
<1> QED
  BY <1>1, <1>2

\* year_of_era finds the year at every place of an era.
LEMMA YearAtPlace ==
    ASSUME NEW c, NEW f, NEW g, NEW doy, IsPlace(c, f, g, doy)
    PROVE  year_of_era(DayAt(c, f, g, doy)) = 100 * c + 4 * f + g
<1> DEFINE doe == DayAt(c, f, g, doy)
           t == 24 * c + f + 365 * g + doy
<1>1. c \in Nat /\ f \in Nat /\ g \in Nat /\ doy \in Nat /\ doe \in Nat /\ t \in Nat
  BY DEF IsPlace, DayAt
<1>2. doe = 1460 * (25 * c + f) + t /\ t <= 1556
  BY DEF IsPlace, DayAt
<1>3. doe \div 1460 = 25 * c + f + IF t < 1460 THEN 0 ELSE 1
  <2>1. CASE t < 1460
    BY <1>1, <1>2, <2>1
  <2>2. CASE t >= 1460
    <3>1. doe = 1460 * (25 * c + f + 1) + (t - 1460) /\ t - 1460 < 1460 /\ t - 1460 \in Nat
      BY <1>1, <1>2, <2>2
    <3> QED
      BY <1>1, <2>2, <3>1
  <2> QED
    BY <1>1, <2>1, <2>2
<1>4. doe \div 36524 - doe \div 146096 = c
  <2>1. CASE doe = 146096
    <3>1. c = 3
      BY <1>1, <2>1 DEF IsPlace, DayAt
    <3> QED
      BY <2>1, <3>1
  <2>2. CASE doe # 146096
    <3>1. doe < 146096 /\ doe = 36524 * c + (doe - 36524 * c)
          /\ 0 <= doe - 36524 * c /\ doe - 36524 * c < 36524
      BY <2>2 DEF IsPlace, DayAt
    <3>2. doe \div 146096 = 0
      BY <1>1, <3>1
    <3>3. doe \div 36524 = c
      BY <1>1, <3>1
    <3> QED
      BY <1>1, <3>2, <3>3
  <2> QED
    BY <2>1, <2>2
<1> DEFINE y == 100 * c + 4 * f + g
           extra == IF t < 1460 THEN 0 ELSE 1
           num == doe - doe \div 1460 + doe \div 36524 - doe \div 146096
<1>5. num = doe - (25 * c + f + extra) + c
  <2> PICK A, B, C : A = doe \div 1460 /\ B = doe \div 36524 /\ C = doe \div 146096
    OBVIOUS
  <2>1. A \in Int /\ B \in Int /\ C \in Int
    BY <1>1
  <2> QED
    BY <1>1, <1>3, <1>4, <2>1
<1>6. num = 365 * y + (doy - extra)
  BY <1>1, <1>5 DEF DayAt
<1>7. doy - extra \in 0 .. 364
  BY <1>1 DEF IsPlace
<1>8. num \div 365 = y
  <2>1. PICK n, r, v : n = num /\ r = doy - extra /\ v = y
    OBVIOUS
  <2>2. n = 365 * v + r /\ r \in 0 .. 364 /\ v \in Nat
    BY <1>1, <1>6, <1>7, <2>1
  <2>3. n \div 365 = v
    BY <2>2
  <2> QED
    BY <2>1, <2>3
<1> QED
  BY <1>8 DEF year_of_era

\* Every day of an era has a place.
LEMMA PlaceOfDay ==
    ASSUME NEW doe \in Nat, doe < 146097
    PROVE  \E c, f, g, doy : IsPlace(c, f, g, doy) /\ doe = DayAt(c, f, g, doy)
<1>1. \E c \in 0 .. 3 : \E r \in Nat :
         doe = 36524 * c + r /\ r <= 36524 /\ (r = 36524 => c = 3)
  <2>1. CASE doe < 36524
    BY <2>1
  <2>2. CASE doe >= 36524 /\ doe < 73048
    <3>1. doe = 36524 * 1 + (doe - 36524) /\ doe - 36524 \in Nat /\ doe - 36524 < 36524
      BY <2>2
    <3> QED
      BY <3>1
  <2>3. CASE doe >= 73048 /\ doe < 109572
    <3>1. doe = 36524 * 2 + (doe - 73048) /\ doe - 73048 \in Nat /\ doe - 73048 < 36524
      BY <2>3
    <3> QED
      BY <3>1
  <2>4. CASE doe >= 109572
    <3>1. doe = 36524 * 3 + (doe - 109572) /\ doe - 109572 \in Nat /\ doe - 109572 <= 36524
      BY <2>4
    <3> QED
      BY <3>1
  <2> QED
    BY <2>1, <2>2, <2>3, <2>4
<1>2. PICK c \in 0 .. 3 : \E r \in Nat :
         doe = 36524 * c + r /\ r <= 36524 /\ (r = 36524 => c = 3)
  BY <1>1
<1>3. PICK r \in Nat : doe = 36524 * c + r /\ r <= 36524 /\ (r = 36524 => c = 3)
  BY <1>2
<1>4. PICK f, s : f = r \div 1461 /\ s = r % 1461
  OBVIOUS
<1>5. f \in Nat /\ s \in Nat /\ r = 1461 * f + s /\ s < 1461
  BY <1>4
<1>6. f \in 0 .. 24 /\ (f = 24 /\ s = 1460 => c = 3)
  BY <1>3, <1>5
<1>7. \E g \in 0 .. 3 : \E doy \in Nat : s = 365 * g + doy /\ doy <= 365 /\ (doy = 365 => s = 1460 /\ g = 3)
  <2>1. CASE s < 365
    <3>1. s = 365 * 0 + s
      BY <1>5
    <3> QED
      BY <1>5, <2>1, <3>1
  <2>2. CASE s >= 365 /\ s < 730
    <3>1. s = 365 * 1 + (s - 365) /\ s - 365 \in Nat /\ s - 365 < 365
      BY <1>5, <2>2
    <3> QED
      BY <3>1
  <2>3. CASE s >= 730 /\ s < 1095
    <3>1. s = 365 * 2 + (s - 730) /\ s - 730 \in Nat /\ s - 730 < 365
      BY <1>5, <2>3
    <3> QED
      BY <3>1
  <2>4. CASE s >= 1095
    <3>1. /\ s = 365 * 3 + (s - 1095) /\ s - 1095 \in Nat /\ s - 1095 <= 365
          /\ s - 1095 = 365 => s = 1460
      BY <1>5, <2>4
    <3> QED
      BY <3>1
  <2> QED
    BY <1>5, <2>1, <2>2, <2>3, <2>4
<1>8. PICK g \in 0 .. 3 : \E doy \in Nat :
         s = 365 * g + doy /\ doy <= 365 /\ (doy = 365 => s = 1460 /\ g = 3)
  BY <1>7
<1>9. PICK doy \in Nat : s = 365 * g + doy /\ doy <= 365 /\ (doy = 365 => s = 1460 /\ g = 3)
  BY <1>8
<1>10. IsPlace(c, f, g, doy)
  BY <1>2, <1>6, <1>8, <1>9 DEF IsPlace
<1>11. doe = DayAt(c, f, g, doy)
  BY <1>2, <1>3, <1>5, <1>8, <1>9 DEF DayAt
<1> QED
  BY <1>10, <1>11

\* The date of day doy of the year y that begins on March 1: what the last lines
\* of civil_from_days compute.
DateAt(y, doy) ==
    LET mp == (5 * doy + 2) \div 153
        m == IF mp < 10 THEN mp + 3 ELSE mp - 9
    IN  <<IF m <= 2 THEN y + 1 ELSE y, m, doy - ((153 * mp + 2) \div 5) + 1>>

\* The first day of the month mp after March.
Start(mp) == (153 * mp + 2) \div 5

\* The months begin where the calendar has them.
LEMMA Starts ==
    /\ Start(0) = 0 /\ Start(1) = 31 /\ Start(2) = 61 /\ Start(3) = 92
    /\ Start(4) = 122 /\ Start(5) = 153 /\ Start(6) = 184 /\ Start(7) = 214
    /\ Start(8) = 245 /\ Start(9) = 275 /\ Start(10) = 306 /\ Start(11) = 337
<1> QED
  BY DEF Start

\* civil_from_days is the date at the place of its day.
LEMMA CivilAtPlace ==
    ASSUME NEW days \in Nat, NEW era \in Nat, NEW c, NEW f, NEW g, NEW doy,
           IsPlace(c, f, g, doy),
           days + 719468 = 146097 * era + DayAt(c, f, g, doy)
    PROVE  civil_from_days(days) = DateAt(400 * era + 100 * c + 4 * f + g, doy)
<1>1. PICK z, doe, yoe : z = days + 719468 /\ doe = DayAt(c, f, g, doy) /\ yoe = 100 * c + 4 * f + g
  OBVIOUS
<1>2. c \in Nat /\ f \in Nat /\ g \in Nat /\ doy \in Nat /\ doe \in Nat /\ z \in Nat /\ yoe \in Nat
  BY <1>1 DEF IsPlace, DayAt
<1>3. doe < 146097
  BY <1>1 DEF IsPlace, DayAt
<1>4. z \div 146097 = era
  BY <1>1, <1>2, <1>3
<1>5. z - era * 146097 = doe
  BY <1>1, <1>2
<1>6. year_of_era(doe) = yoe
  BY <1>1, YearAtPlace
<1>7. yoe \div 4 = 25 * c + f /\ yoe \div 100 = c
  <2>1. yoe = 4 * (25 * c + f) + g /\ g < 4
    BY <1>1, <1>2 DEF IsPlace
  <2>2. yoe = 100 * c + (4 * f + g) /\ 4 * f + g < 100
    BY <1>1, <1>2 DEF IsPlace
  <2> QED
    BY <1>2, <2>1, <2>2
<1>8. doe - (365 * yoe + (yoe \div 4) - (yoe \div 100)) = doy
  BY <1>1, <1>2, <1>7 DEF DayAt
<1>9. yoe + era * 400 = 400 * era + 100 * c + 4 * f + g
  BY <1>1, <1>2
<1> QED
  BY <1>1, <1>4, <1>5, <1>6, <1>8, <1>9 DEF civil_from_days, DateAt

\* The date at day d of the month k after March.
DateIn(y, k, d) ==
    <<IF k < 10 THEN y ELSE y + 1, IF k < 10 THEN k + 3 ELSE k - 9, d>>

\* Day doy lies in the month k after March.
InMonth(doy, k) ==
    doy \in 0 .. 365 /\ k \in 0 .. 11 /\ Start(k) <= doy /\ (k < 11 => doy < Start(k + 1))

\* Every day of a year lies in a month.
LEMMA MonthOfDay ==
    ASSUME NEW doy \in 0 .. 365
    PROVE  \E k : InMonth(doy, k)
<1>1. PICK k : k = (5 * doy + 2) \div 153
  OBVIOUS
<1>2. k \in 0 .. 11
  BY <1>1
<1>3. Start(k) <= doy /\ (k < 11 => doy < Start(k + 1))
  BY <1>1, <1>2 DEF Start
<1> QED
  BY <1>2, <1>3 DEF InMonth

\* DateAt is the date in the month its day lies in.
LEMMA DateByMonth ==
    ASSUME NEW y \in Nat, NEW doy, NEW k, InMonth(doy, k)
    PROVE  DateAt(y, doy) = DateIn(y, k, doy - Start(k) + 1)
<1>1. /\ doy \in 0 .. 365 /\ k \in 0 .. 11
      /\ Start(k) <= doy /\ (k < 11 => doy < Start(k + 1))
  BY DEF InMonth
<1>2. (5 * doy + 2) \div 153 = k
  BY <1>1 DEF Start
<1> QED
  BY <1>1, <1>2 DEF DateAt, DateIn, Start

\* The length of a month that is not the last of its year.
LEMMA MonthLength ==
    ASSUME NEW y \in Nat, NEW k \in 0 .. 10
    PROVE  DaysIn(IF k < 10 THEN y ELSE y + 1, IF k < 10 THEN k + 3 ELSE k - 9)
              = Start(k + 1) - Start(k)
<1>1. \/ k = 0 \/ k = 1 \/ k = 2 \/ k = 3 \/ k = 4 \/ k = 5 \/ k = 6 \/ k = 7
      \/ k = 8 \/ k = 9 \/ k = 10
  OBVIOUS
<1> QED
  BY <1>1, Starts DEF DaysIn

\* The next date, inside a month.
LEMMA NextInMonth ==
    ASSUME NEW y \in Nat, NEW k \in 0 .. 11, NEW d \in Nat,
           d < DaysIn(IF k < 10 THEN y ELSE y + 1, IF k < 10 THEN k + 3 ELSE k - 9)
    PROVE  NextDate(DateIn(y, k, d)) = DateIn(y, k, d + 1)
<1> QED
  BY DEF NextDate, DateIn

\* The next date, at the end of a month.
LEMMA NextMonth ==
    ASSUME NEW y \in Nat, NEW k \in 0 .. 10, NEW d \in Nat,
           d = DaysIn(IF k < 10 THEN y ELSE y + 1, IF k < 10 THEN k + 3 ELSE k - 9)
    PROVE  NextDate(DateIn(y, k, d)) = DateIn(y, k + 1, 1)
<1>1. CASE k < 9
  BY <1>1 DEF NextDate, DateIn
<1>2. CASE k = 9
  BY <1>2 DEF NextDate, DateIn
<1>3. CASE k = 10
  BY <1>3 DEF NextDate, DateIn
<1> QED
  BY <1>1, <1>2, <1>3

\* The next date, inside a year.
LEMMA NextInYear ==
    ASSUME NEW y \in Nat, NEW doy \in 0 .. 364, doy = 364 => IsLeap(y + 1)
    PROVE  NextDate(DateAt(y, doy)) = DateAt(y, doy + 1)
<1>0. doy \in 0 .. 365
  OBVIOUS
<1>8. PICK k : InMonth(doy, k)
  BY <1>0, MonthOfDay, SMT
<1>1. k \in 0 .. 11 /\ Start(k) <= doy /\ (k < 11 => doy < Start(k + 1))
  BY <1>8 DEF InMonth
<1>2. PICK s \in Nat : s = Start(k)
  BY <1>1 DEF Start
<1>3. PICK d \in Nat \ {0} : d = doy - s + 1
  BY <1>1, <1>2
<1>4. DateAt(y, doy) = DateIn(y, k, d)
  <2>1. DateAt(y, doy) = DateIn(y, k, doy - Start(k) + 1)
    BY <1>8, DateByMonth, Zenon
  <2> QED
    BY <1>2, <1>3, <2>1
<1>9. PICK e : e = doy + 1 /\ e \in 0 .. 365
  OBVIOUS
<1>5. CASE k < 11 /\ doy + 1 = Start(k + 1)
  <2>1. d = DaysIn(IF k < 10 THEN y ELSE y + 1, IF k < 10 THEN k + 3 ELSE k - 9)
    <3>1. k \in 0 .. 10
      BY <1>1, <1>5
    <3>2. DaysIn(IF k < 10 THEN y ELSE y + 1, IF k < 10 THEN k + 3 ELSE k - 9)
             = Start(k + 1) - Start(k)
      BY <3>1, MonthLength, Zenon
    <3>3. Start(k + 1) - Start(k) = d
      BY <1>2, <1>3, <1>5
    <3> QED
      BY <3>2, <3>3
  <2>2. NextDate(DateIn(y, k, d)) = DateIn(y, k + 1, 1)
    BY <1>1, <1>5, <2>1, NextMonth
  <2>3. k + 1 < 11 => doy + 1 < Start(k + 1 + 1)
    BY <1>1, <1>5 DEF Start
  <2>4. PICK j \in 0 .. 11 : j = k + 1
    BY <1>1, <1>5
  <2>5. InMonth(e, j)
    BY <1>5, <1>9, <2>3, <2>4 DEF InMonth
  <2>6. DateAt(y, e) = DateIn(y, j, e - Start(j) + 1)
    BY <2>5, DateByMonth, Zenon
  <2>7. e - Start(j) + 1 = 1
    BY <1>5, <1>9, <2>4
  <2> QED
    BY <1>4, <1>9, <2>2, <2>4, <2>6, <2>7
<1>6. CASE k < 11 /\ doy + 1 # Start(k + 1)
  <2>1. d < DaysIn(IF k < 10 THEN y ELSE y + 1, IF k < 10 THEN k + 3 ELSE k - 9)
    <3>1. PICK u : u = Start(k + 1) /\ u \in Nat
      BY <1>1, <1>6 DEF Start
    <3>2. k \in 0 .. 10
      BY <1>1, <1>6
    <3>3. DaysIn(IF k < 10 THEN y ELSE y + 1, IF k < 10 THEN k + 3 ELSE k - 9)
             = Start(k + 1) - Start(k)
      BY <3>2, MonthLength, Zenon
    <3> QED
      BY <1>1, <1>2, <1>3, <1>6, <3>1, <3>3
  <2>2. InMonth(e, k)
    BY <1>1, <1>2, <1>6, <1>9 DEF Start, InMonth
  <2>3. DateAt(y, e) = DateIn(y, k, e - Start(k) + 1)
    BY <2>2, DateByMonth, Zenon
  <2>4. e - Start(k) + 1 = d + 1
    BY <1>2, <1>3, <1>9
  <2> QED
    BY <1>1, <1>4, <1>9, <2>1, <2>3, <2>4, NextInMonth
<1>7. CASE k = 11
  <2>1. s = 337
    BY <1>2, <1>7, Starts
  <2>2. DaysIn(y + 1, 2) = (IF IsLeap(y + 1) THEN 29 ELSE 28)
    BY DEF DaysIn
  <2>3. d < DaysIn(IF k < 10 THEN y ELSE y + 1, IF k < 10 THEN k + 3 ELSE k - 9)
    BY <1>3, <1>7, <2>1, <2>2
  <2>4. InMonth(e, k)
    BY <1>1, <1>2, <1>7, <1>9 DEF InMonth
  <2>5. DateAt(y, e) = DateIn(y, k, e - Start(k) + 1)
    BY <2>4, DateByMonth, Zenon
  <2>6. e - Start(k) + 1 = d + 1
    BY <1>2, <1>3, <1>9
  <2> QED
    BY <1>1, <1>4, <1>9, <2>3, <2>5, <2>6, NextInMonth
<1> QED
  BY <1>1, <1>5, <1>6, <1>7

\* The next date, on the last day before March 1.
LEMMA NextYear ==
    ASSUME NEW y \in Nat, NEW doy, doy = IF IsLeap(y + 1) THEN 365 ELSE 364
    PROVE  NextDate(DateAt(y, doy)) = DateAt(y + 1, 0)
<1>1. /\ InMonth(doy, 11)
      /\ doy - Start(11) + 1 = IF IsLeap(y + 1) THEN 29 ELSE 28
  BY Starts DEF InMonth
<1>2. DateAt(y, doy) = DateIn(y, 11, IF IsLeap(y + 1) THEN 29 ELSE 28)
  <2>1. PICK k, o : k = 11 /\ o = doy
    OBVIOUS
  <2>2. InMonth(o, k)
    BY <1>1, <2>1
  <2>3. DateAt(y, o) = DateIn(y, k, o - Start(k) + 1)
    BY <2>2, DateByMonth, Zenon
  <2> QED
    BY <1>1, <2>1, <2>3
<1>3. DateIn(y, 11, IF IsLeap(y + 1) THEN 29 ELSE 28) = <<y + 1, 2, IF IsLeap(y + 1) THEN 29 ELSE 28>>
  BY DEF DateIn
<1>4. NextDate(<<y + 1, 2, IF IsLeap(y + 1) THEN 29 ELSE 28>>) = <<y + 1, 3, 1>>
  BY DEF NextDate, DaysIn
<1>5. DateAt(y + 1, 0) = DateIn(y + 1, 0, 1)
  <2>1. PICK v, o, u : v \in Nat /\ v = y + 1 /\ o = 0 /\ u = 0
    OBVIOUS
  <2>2. InMonth(u, o) /\ u - Start(o) + 1 = 1
    BY <2>1, Starts DEF InMonth
  <2>3. DateAt(v, u) = DateIn(v, o, u - Start(o) + 1)
    BY <2>1, <2>2, DateByMonth, Zenon
  <2> QED
    BY <2>1, <2>2, <2>3
<1> QED
  BY <1>2, <1>3, <1>4, <1>5 DEF DateIn

\* The years that end with a leap day are those before a Gregorian leap year.
LEMMA LeapAtPlace ==
    ASSUME NEW era \in Nat, NEW c \in 0 .. 3, NEW f \in 0 .. 24, NEW g \in 0 .. 3,
           NEW y, y = 400 * era + 100 * c + 4 * f + g
    PROVE  IsLeap(y + 1) <=> g = 3 /\ (f # 24 \/ c = 3)
<1>0. y \in Nat
  OBVIOUS
<1>1. (y + 1) % 4 = 0 <=> g = 3
  <2>1. CASE g = 3
    <3>1. y + 1 = 4 * (100 * era + 25 * c + f + 1) + 0
      BY <2>1
    <3> QED
      BY <1>0, <2>1, <3>1
  <2>2. CASE g # 3
    <3>1. y + 1 = 4 * (100 * era + 25 * c + f) + (g + 1) /\ g + 1 \in 1 .. 3
      BY <2>2
    <3>2. (y + 1) % 4 = g + 1
      BY <1>0, <3>1
    <3> QED
      BY <2>2, <3>1, <3>2
  <2> QED
    BY <2>1, <2>2
<1>2. g = 3 => ((y + 1) % 100 = 0 <=> f = 24)
  <2>1. CASE g = 3 /\ f = 24
    <3>1. y + 1 = 100 * (4 * era + c + 1) + 0
      BY <2>1
    <3> QED
      BY <1>0, <2>1, <3>1
  <2>2. CASE g = 3 /\ f # 24
    <3>1. y + 1 = 100 * (4 * era + c) + (4 * f + 4) /\ 4 * f + 4 \in 1 .. 99
      BY <2>2
    <3>2. (y + 1) % 100 = 4 * f + 4
      BY <1>0, <3>1
    <3> QED
      BY <2>2, <3>1, <3>2
  <2> QED
    BY <2>1, <2>2
<1>3. g = 3 /\ f = 24 => ((y + 1) % 400 = 0 <=> c = 3)
  <2>1. CASE g = 3 /\ f = 24 /\ c = 3
    <3>1. y + 1 = 400 * (era + 1) + 0
      BY <2>1
    <3> QED
      BY <1>0, <2>1, <3>1
  <2>2. CASE g = 3 /\ f = 24 /\ c # 3
    <3>1. y + 1 = 400 * era + (100 * c + 100) /\ 100 * c + 100 \in 1 .. 399
      BY <2>2
    <3>2. (y + 1) % 400 = 100 * c + 100
      BY <1>0, <3>1
    <3> QED
      BY <2>2, <3>1, <3>2
  <2> QED
    BY <2>1, <2>2
<1>4. f # 24 /\ g = 3 => (y + 1) % 100 # 0
  BY <1>2
<1> QED
  BY <1>1, <1>2, <1>3, <1>4 DEF IsLeap

\* The date of the day after a day is the date after its date, for every day.
LEMMA NextCivil ==
    ASSUME NEW days \in Nat
    PROVE  civil_from_days(days + 1) = NextDate(civil_from_days(days))
<1>0. PICK z \in Nat : z = days + 719468
  BY SMT
<1>10. PICK era, doe : era = z \div 146097 /\ doe = z % 146097
  BY SMT
<1>1. era \in Nat /\ doe \in Nat /\ days + 719468 = 146097 * era + doe /\ doe < 146097
  BY <1>0, <1>10, SMT
<1>2. PICK c, f, g, doy : IsPlace(c, f, g, doy) /\ doe = DayAt(c, f, g, doy)
  BY <1>1, PlaceOfDay, SMT
<1>3. PICK y : y = 400 * era + 100 * c + 4 * f + g
  OBVIOUS
<1>4. civil_from_days(days) = DateAt(y, doy)
  BY <1>1, <1>2, <1>3, CivilAtPlace, SMT
<1>5. /\ c \in 0 .. 3 /\ f \in 0 .. 24 /\ g \in 0 .. 3 /\ doy \in 0 .. 365
      /\ doy = 365 => g = 3 /\ (f # 24 \/ c = 3)
      /\ y \in Nat
  BY <1>1, <1>2, <1>3, SMT DEF IsPlace
<1>6. IsLeap(y + 1) <=> g = 3 /\ (f # 24 \/ c = 3)
  <2>1. era \in Nat /\ c \in 0 .. 3 /\ f \in 0 .. 24 /\ g \in 0 .. 3
    BY <1>1, <1>5, SMT
  <2> QED
    BY <1>3, <2>1, LeapAtPlace, SMTT(30)
<1>7. PICK d \in Nat : d = days + 1
  OBVIOUS
<1>8. CASE doy < 364 \/ (doy = 364 /\ IsLeap(y + 1))
  <2>1. PICK o : o = doy + 1
    OBVIOUS
  <2>2. IsPlace(c, f, g, o) /\ d + 719468 = 146097 * era + DayAt(c, f, g, o)
    <3>1. IsPlace(c, f, g, o)
      BY <1>5, <1>6, <1>8, <2>1, SMT DEF IsPlace
    <3>2. DayAt(c, f, g, o) = doe + 1
      BY <1>2, <1>5, <2>1, SMT DEF DayAt
    <3> QED
      BY <1>1, <1>7, <3>1, <3>2, SMT
  <2>3. civil_from_days(d) = DateAt(y, o)
    BY <1>1, <1>3, <2>2, CivilAtPlace, SMT
  <2>4. NextDate(DateAt(y, doy)) = DateAt(y, doy + 1)
    <3>1. doy \in 0 .. 364 /\ (doy = 364 => IsLeap(y + 1))
      BY <1>5, <1>8, SMT
    <3> QED
      BY <1>5, <3>1, NextInYear
  <2> QED
    BY <1>4, <1>7, <2>1, <2>3, <2>4, SMT
<1>9. CASE doy = IF IsLeap(y + 1) THEN 365 ELSE 364
  <2>1. NextDate(DateAt(y, doy)) = DateAt(y + 1, 0)
    BY <1>5, <1>9, NextYear
  <2>2. civil_from_days(d) = DateAt(y + 1, 0)
    <3>0. d + 719468 = 146097 * era + DayAt(c, f, g, doy) + 1
      BY <1>1, <1>2, <1>7, SMT
    <3>1. CASE g < 3
      <4>1. doy = 364
        BY <1>6, <1>9, <3>1, SMT
      <4>2. /\ era \in Nat /\ IsPlace(c, f, g + 1, 0)
            /\ d + 719468 = 146097 * era + DayAt(c, f, g + 1, 0)
            /\ y + 1 = 400 * era + 100 * c + 4 * f + (g + 1)
        BY <1>1, <1>3, <1>5, <3>0, <3>1, <4>1, SMT DEF IsPlace, DayAt
      <4> QED
        BY <4>2, CivilAtPlace, SMT
    <3>2. CASE g = 3 /\ f < 24
      <4>1. doy = 365
        BY <1>5, <1>6, <1>9, <3>2, SMT
      <4>2. /\ era \in Nat /\ IsPlace(c, f + 1, 0, 0)
            /\ d + 719468 = 146097 * era + DayAt(c, f + 1, 0, 0)
            /\ y + 1 = 400 * era + 100 * c + 4 * (f + 1) + 0
        BY <1>1, <1>3, <1>5, <3>0, <3>2, <4>1, SMT DEF IsPlace, DayAt
      <4> QED
        BY <4>2, CivilAtPlace, SMT
    <3>3. CASE g = 3 /\ f = 24 /\ c < 3
      <4>1. doy = 364
        BY <1>5, <1>6, <1>9, <3>3, SMT
      <4>2. /\ era \in Nat /\ IsPlace(c + 1, 0, 0, 0)
            /\ d + 719468 = 146097 * era + DayAt(c + 1, 0, 0, 0)
            /\ y + 1 = 400 * era + 100 * (c + 1) + 4 * 0 + 0
        BY <1>1, <1>3, <1>5, <3>0, <3>3, <4>1, SMT DEF IsPlace, DayAt
      <4> QED
        BY <4>2, CivilAtPlace, SMT
    <3>4. CASE g = 3 /\ f = 24 /\ c = 3
      <4>1. doy = 365
        BY <1>5, <1>6, <1>9, <3>4, SMT
      <4>2. PICK e, h : e = era + 1 /\ h = 0
        BY SMT
      <4>3. /\ e \in Nat /\ IsPlace(h, h, h, h)
            /\ d + 719468 = 146097 * e + DayAt(h, h, h, h)
            /\ y + 1 = 400 * e + 100 * h + 4 * h + h
        BY <1>1, <1>3, <1>5, <3>0, <3>4, <4>1, <4>2, SMT DEF IsPlace, DayAt
      <4>4. civil_from_days(d) = DateAt(y + 1, h)
        BY <4>3, CivilAtPlace, SMT
      <4> QED
        BY <4>2, <4>4, SMT
    <3> QED
      BY <1>5, <3>1, <3>2, <3>3, <3>4, SMT
  <2> QED
    BY <1>4, <1>7, <2>1, <2>2
<1> QED
  BY <1>5, <1>6, <1>8, <1>9

\* The epoch is January 1, 1970.
LEMMA Epoch == civil_from_days(0) = <<1970, 1, 1>>
<1>1. IsPlace(3, 17, 1, 306) /\ 0 + 719468 = 146097 * 4 + DayAt(3, 17, 1, 306)
  BY SMT DEF IsPlace, DayAt
<1>2. civil_from_days(0) = DateAt(1969, 306)
  BY <1>1, CivilAtPlace, SMT
<1>3. (5 * 306 + 2) \div 153 = 10 /\ (153 * 10 + 2) \div 5 = 306
  OBVIOUS
<1> QED
  BY <1>2, <1>3, SMT DEF DateAt

\* A behaviour that walks the calendar is on a day and holds its date.
DayInv == "day" \in DOMAIN probe => probe.day \in Nat /\ civil_from_days(probe.day) = probe.date

\* civil_from_days gives the Gregorian date of every day from 1970 on, not only
\* of those in the 400 years that TLC walks.
THEOREM GregorianDates == Spec => []DateIsGregorian
<1>1. Init => DayInv
  <2> SUFFICES ASSUME Init PROVE DayInv
    OBVIOUS
  <2>1. CASE probe = [day |-> 0, date |-> <<1970, 1, 1>>]
    BY <2>1, Epoch DEF DayInv
  <2>2. CASE \E resolution \in Resolutions : probe = [ticks |-> 0, if_tsresol |-> resolution]
    BY <2>2 DEF DayInv
  <2>3. CASE probe = [range |-> Tvb, outer |-> Tvb, at |-> 0, signed |-> FALSE]
    BY <2>3 DEF DayInv
  <2> QED
    BY <2>1, <2>2, <2>3 DEF Init
<1>2. DayInv /\ [Next]_probe => DayInv'
  <2> SUFFICES ASSUME DayInv, [Next]_probe PROVE DayInv'
    OBVIOUS
  <2>1. CASE NextDay
    <3>1. PICK d \in Nat : d = probe.day /\ civil_from_days(d) = probe.date
      BY <2>1 DEF NextDay, DayInv
    <3>2. PICK n \in Nat : n = d + 1
      OBVIOUS
    <3>3. PICK t : t = NextDate(probe.date)
      OBVIOUS
    <3>4. probe' = [day |-> n, date |-> t]
      BY <2>1, <3>1, <3>2, <3>3 DEF NextDay
    <3>5. civil_from_days(n) = t
      BY <3>1, <3>2, <3>3, NextCivil
    <3>6. probe'.day = n /\ probe'.date = t
      BY <3>4
    <3> QED
      BY <3>5, <3>6 DEF DayInv
  <2>2. CASE NextTick
    BY <2>2 DEF NextTick, DayInv
  <2>3. CASE Call
    BY <2>3 DEF Call, DayInv
  <2>4. CASE UNCHANGED probe
    BY <2>4 DEF DayInv
  <2> QED
    BY <2>1, <2>2, <2>3, <2>4 DEF Next
<1>3. DayInv => DateIsGregorian
  BY DEF DayInv, DateIsGregorian
<1> QED
  BY <1>1, <1>2, <1>3, PTL DEF Spec

-----------------------------------------------------------------------------
(* Packet times.                                                           *)

\* Scaling a count before dividing it is scaling its quotient and dividing what
\* the remainder scales to, which is less than one.
LEMMA ScaledQuotient ==
    ASSUME NEW t \in Nat, NEW u \in Nat \ {0}, NEW G \in Nat \ {0}
    PROVE  /\ (t * G) \div u = (t \div u) * G + ((t % u) * G) \div u
           /\ ((t % u) * G) \div u \in Nat /\ ((t % u) * G) \div u < G
<1>1. PICK q \in Nat, r \in Nat : q = t \div u /\ r = t % u /\ t = u * q + r /\ r < u
  BY Divide
<1>2. PICK x \in Nat : x = r * G
  OBVIOUS
<1>3. PICK a \in Nat, e \in Nat : a = x \div u /\ e = x % u /\ x = u * a + e /\ e < u
  BY Divide
<1>4. a < G
  <2> SUFFICES ASSUME a >= G PROVE FALSE
    OBVIOUS
  <2>1. u * a >= u * G
    OBVIOUS
  <2>2. r * G < u * G
    BY <1>1
  <2> QED
    BY <1>2, <1>3, <2>1, <2>2
<1>5. PICK s \in Nat, b \in Nat : s = t * G /\ b = q * G + a
  OBVIOUS
<1>6. s = u * b + e
  <2>1. t * G = (u * q) * G + r * G
    BY <1>1
  <2>2. (u * q) * G = u * (q * G) /\ u * (q * G + a) = u * (q * G) + u * a
    OBVIOUS
  <2>3. u * b = u * (q * G) + u * a
    BY <1>5, <2>2
  <2>4. s = u * (q * G) + x
    BY <1>2, <1>5, <2>1, <2>2
  <2> QED
    BY <1>3, <2>3, <2>4
<1>7. s \div u = b
  BY <1>3, <1>6, Quotient
<1> QED
  BY <1>1, <1>2, <1>3, <1>4, <1>5, <1>7

\* A Duration keeps every nanosecond of the count it was made from.
LEMMA NanosKept ==
    ASSUME NEW t \in Nat
    PROVE  as_nanos(from_nanos(t)) = t
<1>1. PICK G \in Nat \ {0} : G = pow(10, Nano)
  BY PowType, DigitsAssumption
<1>2. PICK q \in Nat, r \in Nat : q = t \div G /\ r = t % G /\ t = G * q + r /\ r < G
  BY Divide
<1>3. from_nanos(t) = <<q, r>>
  BY <1>1, <1>2 DEF from_nanos
<1>4. as_nanos(<<q, r>>) = q * G + r
  BY <1>1 DEF as_nanos
<1> QED
  BY <1>2, <1>3, <1>4

\* correct_epb_timestamp on a binary resolution: the exact time, cut.
LEMMA BinaryTime ==
    ASSUME NEW t \in Nat, NEW if_tsresol, NEW v \in Nat,
           unwrap_tsresol(if_tsresol) = [binary |-> TRUE, value |-> v]
    PROVE  LET time == correct_epb_timestamp(from_nanos(t), if_tsresol)
           IN  /\ time[2] \in 0 .. pow(10, Nano) - 1
               /\ as_nanos(time) = (t * pow(10, Nano)) \div pow(2, v)
<1>0. pow(10, Nano) \in Nat \ {0} /\ pow(2, v) \in Nat \ {0}
  BY PowType, DigitsAssumption
<1>1. PICK G \in Nat \ {0}, u \in Nat \ {0} : G = pow(10, Nano) /\ u = pow(2, v)
  BY <1>0
<1>2. PICK q \in Nat, r \in Nat : q = t \div u /\ r = t % u
  BY Divide
<1>3. PICK n \in Nat : n = (r * G) \div u
  BY <1>2, ScaledQuotient
<1>4. n < G /\ (t * G) \div u = q * G + n
  BY <1>2, <1>3, ScaledQuotient
<1>5. correct_epb_timestamp(from_nanos(t), if_tsresol) = <<q, n>>
  <2>1. PICK w : w = unwrap_tsresol(if_tsresol)
    OBVIOUS
  <2>2. w.binary = TRUE /\ w.value = v
    BY <2>1
  <2> QED
    BY <1>1, <1>2, <1>3, <2>1, <2>2, NanosKept DEF correct_epb_timestamp
<1>6. as_nanos(<<q, n>>) = q * G + n
  BY <1>1 DEF as_nanos
<1> QED
  BY <1>1, <1>3, <1>4, <1>5, <1>6

\* correct_epb_timestamp on a decimal resolution: the exact time up to a
\* nanosecond; a finer unit is taken for a nanosecond.
LEMMA DecimalTime ==
    ASSUME NEW t \in Nat, NEW if_tsresol, NEW v \in Nat,
           unwrap_tsresol(if_tsresol) = [binary |-> FALSE, value |-> v]
    PROVE  LET time == correct_epb_timestamp(from_nanos(t), if_tsresol)
               exact == (t * pow(10, Nano)) \div pow(10, v)
           IN  /\ time[2] \in 0 .. pow(10, Nano) - 1
               /\ IF v <= Nano THEN as_nanos(time) = exact ELSE as_nanos(time) >= exact
<1>0. Nano \in Nat
  BY DigitsAssumption
<1>1. PICK exp \in Nat : exp = IF v > Nano THEN Nano ELSE v
  BY <1>0
<1>2. exp <= Nano /\ Nano - exp \in Nat
  BY <1>0, <1>1
<1>13. /\ pow(10, Nano) \in Nat \ {0} /\ pow(10, exp) \in Nat \ {0}
       /\ pow(10, Nano - exp) \in Nat \ {0}
  BY <1>0, <1>2, PowType
<1>3. PICK G \in Nat \ {0}, u \in Nat \ {0}, w \in Nat \ {0} :
         G = pow(10, Nano) /\ u = pow(10, exp) /\ w = pow(10, Nano - exp)
  BY <1>13
<1>4. G = u * w
  <2>1. PICK m \in Nat : m = Nano - exp
    BY <1>2
  <2>2. exp + m = Nano
    BY <1>0, <2>1
  <2>3. pow(10, exp + m) = pow(10, exp) * pow(10, m)
    BY PowAdd
  <2> QED
    BY <1>3, <2>1, <2>2, <2>3
<1>5. PICK q \in Nat, r \in Nat : q = t \div u /\ r = t % u /\ t = u * q + r /\ r < u
  BY Divide
<1>6. correct_epb_timestamp(from_nanos(t), if_tsresol) = <<q, r * w>>
  <2>1. PICK z : z = unwrap_tsresol(if_tsresol)
    OBVIOUS
  <2>2. z.binary = FALSE /\ z.value = v
    BY <2>1
  <2> QED
    BY <1>1, <1>3, <1>5, <2>1, <2>2, NanosKept DEF correct_epb_timestamp
<1>7. PICK n \in Nat : n = r * w
  OBVIOUS
<1>8. n < G
  BY <1>4, <1>5, <1>7
<1>9. as_nanos(<<q, n>>) = q * G + n
  BY <1>3 DEF as_nanos
<1>10. q * G + n = t * w
  <2>1. q * G = (u * q) * w
    BY <1>4
  <2>2. t * w = (u * q) * w + r * w
    BY <1>5
  <2> QED
    BY <1>7, <2>1, <2>2
<1>11. CASE v <= Nano
  <2>1. u = pow(10, v)
    BY <1>0, <1>1, <1>3, <1>11
  <2>2. PICK s \in Nat, b \in Nat : s = t * G /\ b = t * w
    OBVIOUS
  <2>3. s = u * b + 0
    BY <1>4, <2>2
  <2>4. s \div u = b
    BY <2>3, Quotient
  <2> QED
    BY <1>3, <1>6, <1>7, <1>8, <1>9, <1>10, <1>11, <2>1, <2>2, <2>4
<1>12. CASE v > Nano
  <2>1. exp = Nano /\ u = G
    BY <1>1, <1>3, <1>12
  <2>2. w = 1
    BY <1>0, <1>3, <2>1, PowStep
  <2>3. PICK m \in Nat : m = v - Nano
    BY <1>0, <1>12
  <2>4. PICK k \in Nat \ {0} : k = pow(10, m)
    BY PowType
  <2>5. pow(10, v) = G * k
    <3>1. Nano + m = v
      BY <1>0, <2>3
    <3>2. pow(10, Nano + m) = pow(10, Nano) * pow(10, m)
      BY <1>0, PowAdd
    <3> QED
      BY <1>3, <2>4, <3>1, <3>2
  <2>6. PICK U \in Nat \ {0}, s \in Nat : U = G * k /\ s = t * G
    OBVIOUS
  <2>7. PICK a \in Nat, e \in Nat : a = s \div U /\ s = U * a + e
    BY Divide
  <2>8. a <= t
    <3> SUFFICES ASSUME a > t PROVE FALSE
      OBVIOUS
    <3>1. U * a >= G * a
      BY <2>6
    <3>2. G * a > G * t
      OBVIOUS
    <3> QED
      BY <2>6, <2>7, <3>1, <3>2
  <2> QED
    BY <1>0, <1>3, <1>6, <1>7, <1>8, <1>9, <1>10, <1>12, <2>2, <2>5, <2>6, <2>7, <2>8
<1> QED
  BY <1>0, <1>11, <1>12

\* A behaviour that counts ticks holds a count and a resolution.
TickInv ==
    "ticks" \in DOMAIN probe => probe.ticks \in Nat /\ probe.if_tsresol \in Resolutions

\* A packet's time is exact to the nanosecond for every tick count, resolution
\* and number of decimal digits (correct_epb_timestamp).
THEOREM ExactTimes == Spec => []TimeIsExact
<1>1. Init => TickInv
  <2> SUFFICES ASSUME Init PROVE TickInv
    OBVIOUS
  <2>1. CASE probe = [day |-> 0, date |-> <<1970, 1, 1>>]
    BY <2>1 DEF TickInv
  <2>2. CASE \E resolution \in Resolutions : probe = [ticks |-> 0, if_tsresol |-> resolution]
    BY <2>2 DEF TickInv
  <2>3. CASE probe = [range |-> Tvb, outer |-> Tvb, at |-> 0, signed |-> FALSE]
    BY <2>3 DEF TickInv
  <2> QED
    BY <2>1, <2>2, <2>3 DEF Init
<1>2. TickInv /\ [Next]_probe => TickInv'
  <2> SUFFICES ASSUME TickInv, [Next]_probe PROVE TickInv'
    OBVIOUS
  <2>1. CASE NextTick
    <3>1. probe.ticks \in Nat /\ probe.if_tsresol \in Resolutions
      BY <2>1 DEF NextTick, TickInv
    <3>2. probe' = [probe EXCEPT !.ticks = probe.ticks + 1]
      BY <2>1 DEF NextTick
    <3>3. DOMAIN probe' = DOMAIN probe /\ probe'.if_tsresol = probe.if_tsresol
      BY <3>2
    <3>4. "ticks" \in DOMAIN probe => probe'.ticks = probe.ticks + 1
      BY <3>2
    <3> QED
      BY <3>1, <3>3, <3>4 DEF TickInv
  <2>2. CASE NextDay
    BY <2>2 DEF NextDay, TickInv
  <2>3. CASE Call
    BY <2>3 DEF Call, TickInv
  <2>4. CASE UNCHANGED probe
    BY <2>4 DEF TickInv
  <2> QED
    BY <2>1, <2>2, <2>3, <2>4 DEF Next
<1>3. TickInv => TimeIsExact
  <2> SUFFICES ASSUME TickInv, "ticks" \in DOMAIN probe PROVE TimeIsExact
    BY DEF TimeIsExact
  <2>1. PICK t \in Nat, res \in Resolutions : t = probe.ticks /\ res = probe.if_tsresol
    BY DEF TickInv
  <2>2. PICK declared : declared = unwrap_tsresol(res)
    OBVIOUS
  <2>3. declared \in [binary : BOOLEAN, value : Nat]
    BY <2>2, ResolutionAssumption, DigitsAssumption DEF unwrap_tsresol
  <2>4. PICK v \in Nat : v = declared.value
    BY <2>3
  <2>5. CASE declared.binary
    <3>1. declared = [binary |-> TRUE, value |-> v]
      BY <2>3, <2>4, <2>5
    <3> QED
      BY <2>1, <2>2, <2>4, <2>5, <3>1, BinaryTime DEF TimeIsExact, unwrap_tsresol
  <2>6. CASE ~declared.binary
    <3>1. declared = [binary |-> FALSE, value |-> v]
      BY <2>3, <2>4, <2>6
    <3> QED
      BY <2>1, <2>2, <2>4, <2>6, <3>1, DecimalTime DEF TimeIsExact, unwrap_tsresol
  <2> QED
    BY <2>5, <2>6
<1> QED
  BY <1>1, <1>2, <1>3, PTL DEF Spec

-----------------------------------------------------------------------------
(* Nested ranges.                                                          *)

\* A range [start, end) inside [0, size).
IsRange(range, size) ==
    /\ range = [start |-> range.start, end |-> range.end]
    /\ range.start \in Nat /\ range.end \in Nat
    /\ range.start <= range.end /\ range.end <= size

\* A machine word is twice what a signed integer reaches, and holds the buffer
\* more than twice.
LEMMA WordHalf ==
    \E H \in Nat \ {0} : Word = 2 * H /\ Word \div 2 = H /\ BufferLen \in Nat /\ BufferLen < H
<1>1. PICK w \in Nat : w = Width - 1
  BY WordAssumption
<1>2. w + 1 = Width
  BY <1>1, WordAssumption
<1>3. pow(2, w) \in Nat \ {0}
  BY PowType
<1>4. PICK H \in Nat \ {0} : H = pow(2, w)
  BY <1>3
<1>5. pow(2, w + 1) = 2 * pow(2, w)
  BY PowStep
<1>6. Word = 2 * H
  BY <1>2, <1>4, <1>5 DEF Word
<1>7. BufferLen \in Nat /\ BufferLen < H
  BY <1>1, <1>4, WordAssumption
<1>8. (2 * H) \div 2 = H
  OBVIOUS
<1> QED
  BY <1>6, <1>7, <1>8

\* A slice with arguments that are not negative lies inside its range, where its
\* offset says: nothing wraps.
LEMMA SliceInside ==
    ASSUME NEW range, IsRange(range, BufferLen),
           NEW offset \in Nat, offset < Word \div 2,
           NEW length, length # None => length \in Nat /\ length < Word \div 2,
           slice(range, offset, length) # None
    PROVE  LET s == slice(range, offset, length)
           IN  /\ IsRange(s, BufferLen)
               /\ s.start = range.start + offset
               /\ range.start <= s.start /\ s.end <= range.end
<1>1. PICK H \in Nat \ {0} : Word = 2 * H /\ Word \div 2 = H /\ BufferLen \in Nat /\ BufferLen < H
  BY WordHalf
<1>2. PICK a \in Nat, b \in Nat : a = range.start /\ b = range.end
  BY DEF IsRange
<1>3. a <= b /\ b <= BufferLen
  BY <1>2 DEF IsRange
<1>4. PICK n \in Nat : n = b - a /\ n = range_len(range)
  BY <1>2, <1>3 DEF range_len
<1>5. PICK W \in Nat \ {0} : W = Word
  BY <1>1
<1>6. offset % W = offset
  BY <1>1, <1>5
<1> DEFINE rest == IF n > offset THEN n - offset ELSE 0
<1>7. PICK len \in Nat : len = IF length = None THEN rest ELSE length % W
  <2>1. rest \in Nat
    OBVIOUS
  <2>2. length # None => length % W \in Nat
    OBVIOUS
  <2> QED
    BY <2>1, <2>2
<1>8. len < H
  <2>1. CASE length = None
    BY <1>1, <1>3, <1>4, <1>7, <2>1
  <2>2. CASE length # None
    <3>1. length \in Nat /\ length < H
      BY <1>1, <2>2
    <3>2. length % W = length
      BY <1>1, <1>5, <3>1
    <3> QED
      BY <1>7, <2>2, <3>1, <3>2
  <2> QED
    BY <2>1, <2>2
<1>9. (offset + len) % W = offset + len
  BY <1>1, <1>5, <1>8
<1> HIDE DEF rest
<1> DEFINE start == (a + offset) % W
<1>10. slice(range, offset, length) =
          IF offset + len > n THEN None ELSE [start |-> start, end |-> (start + len) % W]
  BY <1>2, <1>4, <1>5, <1>6, <1>7, <1>9 DEF slice, rest
<1>11. offset + len <= n
  BY <1>10
<1>12. start = a + offset
  BY <1>1, <1>3, <1>4, <1>5, <1>11
<1>13. (start + len) % W = a + offset + len
  BY <1>1, <1>3, <1>4, <1>5, <1>11, <1>12
<1>14. PICK u \in Nat, v \in Nat : u = a + offset /\ v = a + offset + len
  OBVIOUS
<1>15. slice(range, offset, length) = [start |-> u, end |-> v]
  BY <1>10, <1>11, <1>12, <1>13, <1>14
<1>16. u <= v /\ v <= b /\ a <= u /\ v <= BufferLen
  BY <1>3, <1>4, <1>11, <1>14, <1>1
<1> HIDE DEF start
<1> QED
  BY <1>2, <1>14, <1>15, <1>16 DEF IsRange

\* A behaviour that slices holds a range of the buffer, cut from the one before,
\* at the sum of the offsets so far.
RangeInv ==
    "range" \in DOMAIN probe /\ ~probe.signed =>
        /\ IsRange(probe.range, BufferLen)
        /\ probe.range.start = probe.at
        /\ probe.outer.start <= probe.range.start /\ probe.range.end <= probe.outer.end

\* RangeInv holds throughout.
LEMMA RangesNest == Spec => []RangeInv
<1>1. Init => RangeInv
  <2> SUFFICES ASSUME Init PROVE RangeInv
    OBVIOUS
  <2>1. CASE probe = [day |-> 0, date |-> <<1970, 1, 1>>]
    BY <2>1 DEF RangeInv
  <2>2. CASE \E resolution \in Resolutions : probe = [ticks |-> 0, if_tsresol |-> resolution]
    BY <2>2 DEF RangeInv
  <2>3. CASE probe = [range |-> Tvb, outer |-> Tvb, at |-> 0, signed |-> FALSE]
    <3>1. BufferLen \in Nat
      BY WordHalf
    <3> QED
      BY <2>3, <3>1 DEF RangeInv, IsRange, Tvb
  <2> QED
    BY <2>1, <2>2, <2>3 DEF Init
<1>2. RangeInv /\ [Next]_probe => RangeInv'
  <2> SUFFICES ASSUME RangeInv, [Next]_probe PROVE RangeInv'
    OBVIOUS
  <2>1. CASE Call
    <3>1. PICK offset \in -(Word \div 2) .. Word \div 2 - 1,
               length \in (-(Word \div 2) .. Word \div 2 - 1) \union {None} :
             /\ slice(probe.range, offset, length) # None
             /\ probe' = [range |-> slice(probe.range, offset, length), outer |-> probe.range,
                          at |-> probe.at + offset,
                          signed |-> offset < 0 \/ (length # None /\ length < 0)]
      BY <2>1, Zenon DEF Call
    <3>2. PICK r, s, at : r = probe.range /\ s = slice(probe.range, offset, length) /\ at = probe.at
      OBVIOUS
    <3>3. IsRange(r, BufferLen) /\ r.start = at
      BY <2>1, <3>2 DEF Call, RangeInv
    <3>4. PICK signed \in BOOLEAN : signed <=> (offset < 0 \/ (length # None /\ length < 0))
      OBVIOUS
    <3>5. /\ probe'.range = s /\ probe'.outer = r /\ probe'.at = at + offset
          /\ probe'.signed <=> (offset < 0 \/ (length # None /\ length < 0))
      BY <3>1, <3>2
    <3>6. CASE probe'.signed
      BY <3>6 DEF RangeInv
    <3>7. CASE ~probe'.signed
      <4>1. PICK H \in Nat \ {0} : Word \div 2 = H
        BY WordHalf
      <4>2. offset \in Nat /\ offset < H
        BY <3>1, <3>5, <3>7, <4>1
      <4>3. length # None => length \in Nat /\ length < H
        BY <3>1, <3>5, <3>7, <4>1
      <4>4. s = slice(r, offset, length) /\ s # None
        BY <3>1, <3>2
      <4>5. /\ IsRange(s, BufferLen) /\ s.start = r.start + offset
            /\ r.start <= s.start /\ s.end <= r.end
        BY <3>3, <4>1, <4>2, <4>3, <4>4, SliceInside
      <4> QED
        BY <3>3, <3>5, <4>5 DEF RangeInv
    <3> QED
      BY <3>6, <3>7
  <2>2. CASE NextDay
    BY <2>2 DEF NextDay, RangeInv
  <2>3. CASE NextTick
    <3>1. DOMAIN probe' = DOMAIN probe /\ probe'.range = probe.range /\ probe'.outer = probe.outer
          /\ probe'.at = probe.at /\ probe'.signed = probe.signed
      BY <2>3 DEF NextTick
    <3> QED
      BY <3>1 DEF RangeInv
  <2>4. CASE UNCHANGED probe
    BY <2>4 DEF RangeInv
  <2> QED
    BY <2>1, <2>2, <2>3, <2>4 DEF Next
<1> QED
  BY <1>1, <1>2, PTL DEF Spec

-----------------------------------------------------------------------------
(* Numbers.                                                                *)

\* h is the table of the numbers that the first digits of ds make.
Leading(ds, h) == h = [j \in 0 .. Len(ds) |-> IF j = 0 THEN 0 ELSE h[j - 1] * Base + ds[j]]

\* Every sequence of digits has its table.
LEMMA LeadingExist ==
    ASSUME NEW ds, Len(ds) \in Nat
    PROVE  \E h : Leading(ds, h)
<1> DEFINE UpTo(m, h) == h = [j \in 0 .. m |-> IF j = 0 THEN 0 ELSE h[j - 1] * Base + ds[j]]
           Tabled == {m \in Nat : \E h : UpTo(m, h)}
<1>1. 0 \in Tabled
  <2> DEFINE h == [j \in 0 .. 0 |-> 0]
  <2>1. UpTo(0, h)
    OBVIOUS
  <2> QED
    BY <2>1
<1>2. ASSUME NEW m \in Nat, m \in Tabled PROVE m + 1 \in Tabled
  <2>1. PICK h : UpTo(m, h)
    BY <1>2
  <2> DEFINE q == [j \in 0 .. m + 1 |-> IF j = 0 THEN 0 ELSE h[j - 1] * Base + ds[j]]
  <2>2. \A j \in 0 .. m : q[j] = h[j]
    BY <2>1
  <2>3. \A j \in 0 .. m + 1 : j # 0 => j - 1 \in 0 .. m
    OBVIOUS
  <2>4. q = [j \in 0 .. m + 1 |-> IF j = 0 THEN 0 ELSE h[j - 1] * Base + ds[j]]
    OBVIOUS
  <2>5. UpTo(m + 1, q)
    <3> HIDE DEF q
    <3> QED
      BY <2>2, <2>3, <2>4
  <2> HIDE DEF UpTo, q
  <2> QED
    BY <2>5
<1>3. \A m \in Nat : m \in Tabled
  <2> HIDE DEF Tabled
  <2> QED
    BY <1>1, <1>2, Induct
<1> QED
  BY <1>3 DEF Leading

\* A number is the last entry of a table.
LEMMA NumberIsTable ==
    ASSUME NEW ds, Len(ds) \in Nat
    PROVE  \E h : Leading(ds, h) /\ NumberOf(ds) = h[Len(ds)]
<1> DEFINE h == CHOOSE g : Leading(ds, g)
<1>1. Leading(ds, h)
  BY LeadingExist
<1>2. NumberOf(ds) = h[Len(ds)]
  BY DEF NumberOf, Leading
<1> QED
  BY <1>1, <1>2

\* A sum of zeros is 0.
LEMMA SumZero ==
    ASSUME NEW f, NEW S, IsFiniteSet(S), \A x \in S : f[x] = 0
    PROVE  SumFunctionOnSet(f, S) = 0
<1> DEFINE Zero == {n \in Nat : \A s \in SUBSET S :
                        Cardinality(s) = n => SumFunctionOnSet(f, s) = 0}
<1>0. \A s \in SUBSET S : IsFiniteSet(s) /\ Cardinality(s) \in Nat
  BY FS_Subset, FS_CardinalityType
<1>1. 0 \in Zero
  BY <1>0, FS_EmptySet, SumEmpty
<1>2. ASSUME NEW n \in Nat, n \in Zero
      PROVE  n + 1 \in Zero
  <2>1. ASSUME NEW s \in SUBSET S, Cardinality(s) = n + 1
        PROVE  SumFunctionOnSet(f, s) = 0
    <3>1. s # {}
      BY <2>1, FS_EmptySet
    <3>2. Pick(s) \in S /\ s \ {Pick(s)} \in SUBSET S /\ Cardinality(s \ {Pick(s)}) = n
      BY <1>0, <2>1, <3>1, PickSmaller
    <3>3. SumFunctionOnSet(f, s \ {Pick(s)}) = 0 /\ f[Pick(s)] = 0
      BY <1>2, <3>2
    <3>4. SumFunctionOnSet(f, s) = f[Pick(s)] + SumFunctionOnSet(f, s \ {Pick(s)})
      BY <1>0, <3>1, SumFirst
    <3> QED
      BY <3>3, <3>4
  <2> QED
    BY <2>1
<1>3. \A n \in Nat : n \in Zero
  <2> HIDE DEF Zero
  <2> QED
    BY <1>1, <1>2, Induct
<1> QED
  BY <1>0, <1>3

\* Any element of any set may be taken out of its sum.
LEMMA SumTakesOut ==
    ASSUME NEW f
    PROVE  \A U, i : IsFiniteSet(U) /\ (\A y \in U : f[y] \in Nat) /\ i \in U =>
              SumFunctionOnSet(f, U) = f[i] + SumFunctionOnSet(f, U \ {i})
<1> SUFFICES ASSUME NEW U, NEW i, IsFiniteSet(U), \A y \in U : f[y] \in Nat, i \in U
             PROVE  SumFunctionOnSet(f, U) = f[i] + SumFunctionOnSet(f, U \ {i})
  OBVIOUS
<1> QED
  BY SumRemove

\* Adding a digit below a number.
LEMMA NextDigit ==
    ASSUME NEW v \in Nat, NEW b \in Nat, NEW d \in Nat, NEW p \in Nat
    PROVE  d * p + v * (b * p) = (v * b + d) * p /\ v * b + d \in Nat
<1> QED
  OBVIOUS

\* The places of n digits are added one by one, the most significant first: S[j]
\* holds those up to x[j], where f has digit j times its power of the base.
AreDigits(n, ds, f, S, x) ==
    /\ Len(ds) = n /\ \A j \in 1 .. n : ds[j] \in Nat
    /\ IsFiniteSet(S[n]) /\ \A i \in S[n] : f[i] \in Nat
    /\ \A j \in 0 .. n : S[j] \subseteq S[n]
    /\ \A j \in 1 .. n : /\ x[j] \in S[j] /\ S[j] \ {x[j]} = S[j - 1]
                         /\ f[x[j]] = ds[j] * pow(Base, n - j)
    /\ \A i \in S[0] : f[i] = 0

\* Digits at their places sum to their number.
LEMMA SumIsNumber ==
    ASSUME NEW n \in Nat, NEW ds, NEW f, NEW S, NEW x, AreDigits(n, ds, f, S, x)
    PROVE  SumFunctionOnSet(f, S[n]) = NumberOf(ds)
<1>0. /\ Len(ds) = n /\ \A j \in 1 .. n : ds[j] \in Nat
      /\ IsFiniteSet(S[n]) /\ \A i \in S[n] : f[i] \in Nat
      /\ \A j \in 0 .. n : S[j] \subseteq S[n]
      /\ \A j \in 1 .. n : /\ x[j] \in S[j] /\ S[j] \ {x[j]} = S[j - 1]
                           /\ f[x[j]] = ds[j] * pow(Base, n - j)
      /\ \A i \in S[0] : f[i] = 0
  BY Zenon DEF AreDigits
<1>1. PICK h : Leading(ds, h) /\ NumberOf(ds) = h[n]
  BY <1>0, NumberIsTable
<1> DEFINE Good == {j \in Nat : j <= n =>
              h[j] \in Nat /\ SumFunctionOnSet(f, S[j]) = h[j] * pow(Base, n - j)}
<1>2. Base \in Nat \ {0}
  BY ByteAssumption
<1>3. 0 \in Good
  <2>1. h[0] = 0
    BY <1>1 DEF Leading
  <2>2. IsFiniteSet(S[0])
    BY <1>0, FS_Subset
  <2>3. SumFunctionOnSet(f, S[0]) = 0
    BY <1>0, <2>2, SumZero
  <2>4. PICK y \in Nat \ {0} : y = pow(Base, n - 0)
    BY <1>2, PowType
  <2> QED
    BY <2>1, <2>3, <2>4
<1>4. ASSUME NEW j \in Nat, j \in Good PROVE j + 1 \in Good
  <2> SUFFICES ASSUME j + 1 <= n
               PROVE  /\ h[j + 1] \in Nat
                      /\ SumFunctionOnSet(f, S[j + 1]) = h[j + 1] * pow(Base, n - (j + 1))
    OBVIOUS
  <2>1. PICK k \in 1 .. n, m \in Nat : k = j + 1 /\ m = n - k
    OBVIOUS
  <2>2. k - 1 = j /\ n - j = m + 1 /\ j \in 0 .. n /\ k \in 0 .. n /\ j <= n
    BY <2>1
  <2>3. PICK v \in Nat : v = h[j]
    BY <1>4, <2>2
  <2>4. PICK d \in Nat : d = ds[k]
    BY <1>0, <2>1
  <2>5. h[k] = v * Base + d
    BY <1>0, <1>1, <2>1, <2>2, <2>3, <2>4 DEF Leading
  <2>6. PICK p \in Nat \ {0} : p = pow(Base, m)
    BY <1>2, PowType
  <2>7. pow(Base, m + 1) = Base * p
    BY <2>6, PowStep
  <2>8. SumFunctionOnSet(f, S[j]) = v * (Base * p)
    BY <1>4, <2>2, <2>3, <2>7
  <2>9. IsFiniteSet(S[k]) /\ (\A i \in S[k] : f[i] \in Nat) /\ x[k] \in S[k] /\ S[k] \ {x[k]} = S[j]
    BY <1>0, <2>1, <2>2, FS_Subset
  <2>10. SumFunctionOnSet(f, S[k]) = f[x[k]] + SumFunctionOnSet(f, S[j])
    <3>1. PICK T, e : T = S[k] /\ e = x[k]
      OBVIOUS
    <3>2. IsFiniteSet(T) /\ (\A i \in T : f[i] \in Nat) /\ e \in T /\ T \ {e} = S[j]
      BY <2>9, <3>1
    <3>3. \A U, i : IsFiniteSet(U) /\ (\A y \in U : f[y] \in Nat) /\ i \in U =>
             SumFunctionOnSet(f, U) = f[i] + SumFunctionOnSet(f, U \ {i})
      BY SumTakesOut, Zenon
    <3>4. SumFunctionOnSet(f, T) = f[e] + SumFunctionOnSet(f, T \ {e})
      BY <3>2, <3>3, Zenon
    <3> QED
      BY <3>1, <3>2, <3>4
  <2>11. f[x[k]] = d * p
    BY <1>0, <2>1, <2>4, <2>6
  <2>12. d * p + v * (Base * p) = (v * Base + d) * p /\ v * Base + d \in Nat
    BY <1>2, NextDigit
  <2> QED
    BY <2>1, <2>5, <2>6, <2>8, <2>10, <2>11, <2>12
<1>5. \A j \in Nat : j \in Good
  <2> HIDE DEF Good
  <2> QED
    BY <1>3, <1>4, Induct
<1>6. h[n] \in Nat /\ SumFunctionOnSet(f, S[n]) = h[n] * pow(Base, 0)
  BY <1>5
<1>7. pow(Base, 0) = 1
  BY PowStep
<1> QED
  BY <1>1, <1>6, <1>7

\* Bytes after zeros, or zeros after bytes.
LEMMA Padded ==
    ASSUME NEW bs \in Seq(Nat), NEW m \in Nat, NEW zeros, zeros = [i \in 1 .. m |-> 0]
    PROVE  /\ \A i \in 1 .. m : (zeros \o bs)[i] = 0
           /\ \A i \in 1 .. Len(bs) : (zeros \o bs)[m + i] = bs[i]
           /\ \A i \in 1 .. Len(bs) : (bs \o zeros)[i] = bs[i]
           /\ \A i \in Len(bs) + 1 .. Len(bs) + m : (bs \o zeros)[i] = 0
<1>1. zeros \in Seq(Nat) /\ Len(zeros) = m
  OBVIOUS
<1>2. Len(bs) \in Nat
  OBVIOUS
<1>3. \A i \in 1 .. m + Len(bs) : (zeros \o bs)[i] = IF i <= m THEN zeros[i] ELSE bs[i - m]
  BY <1>1, ConcatProperties
<1>4. \A i \in 1 .. Len(bs) + m : (bs \o zeros)[i] = IF i <= Len(bs) THEN bs[i] ELSE zeros[i - Len(bs)]
  BY <1>1, ConcatProperties
<1> QED
  BY <1>2, <1>3, <1>4

\* The powers of the base are natural numbers.
LEMMA PowOfBase == \A i \in Nat : pow(Base, i) \in Nat
<1> TAKE i \in Nat
<1>1. PICK b \in Nat \ {0} : b = Base
  BY ByteAssumption
<1>2. pow(b, i) \in Nat \ {0}
  BY PowType
<1> QED
  BY <1>1, <1>2

\* uint reads the bytes most significant first.
LEMMA BigEndian ==
    ASSUME NEW bs \in Seq(Nat), Len(bs) \in 1 .. MaxUint
    PROVE  parse_uint(bs, FALSE) = NumberOf(bs)
<1>1. PICK n \in Nat, M \in Nat : n = Len(bs) /\ M = MaxUint /\ n <= M
  BY ByteAssumption
<1>2. PICK m \in Nat : m = M - n
  BY <1>1
<1> DEFINE zeros == [i \in 1 .. m |-> 0]
           buf == zeros \o bs
           f == [i \in 1 .. M |-> buf[i] * pow(Base, M - i)]
           S == [j \in 0 .. n |-> 1 .. m + j]
           x == [j \in 1 .. n |-> m + j]
<1>3. parse_uint(bs, FALSE) = SumFunctionOnSet(f, 1 .. M)
  <2>1. ~(Len(bs) = 0 \/ Len(bs) > M) /\ MaxUint = M /\ M - Len(bs) = m
    BY <1>1, <1>2
  <2> QED
    BY <2>1, Zenon DEF parse_uint
<1>4. (\A i \in 1 .. m : buf[i] = 0) /\ (\A i \in 1 .. n : buf[m + i] = bs[i])
  BY <1>1, Padded
<1> HIDE DEF zeros, buf
<1>5. \A i \in 0 .. M : pow(Base, i) \in Nat
  <2> TAKE i \in 0 .. M
  <2>1. i \in Nat
    OBVIOUS
  <2> QED
    BY <2>1, PowOfBase, Zenon
<1>6. \A j \in 1 .. n : bs[j] \in Nat
  BY <1>1
<1>7. \A i \in 1 .. M : buf[i] \in Nat
  <2> TAKE i \in 1 .. M
  <2>1. CASE i <= m
    BY <1>2, <1>4, <2>1
  <2>2. CASE i > m
    <3>1. i - m \in 1 .. n /\ m + (i - m) = i
      BY <1>2, <2>2
    <3> QED
      BY <1>4, <1>6, <3>1
  <2> QED
    BY <2>1, <2>2
<1>8. \A i \in 1 .. M : f[i] \in Nat
  <2> TAKE i \in 1 .. M
  <2>1. M - i \in 0 .. M
    OBVIOUS
  <2>2. PICK a \in Nat, b \in Nat : a = buf[i] /\ b = pow(Base, M - i)
    BY <1>5, <1>7, <2>1
  <2> QED
    BY <2>2
<1>9. S[n] = 1 .. M /\ S[0] = 1 .. m /\ \A j \in 0 .. n : S[j] \subseteq S[n]
  BY <1>2
<1>10. ASSUME NEW j \in 1 .. n
       PROVE  x[j] \in S[j] /\ S[j] \ {x[j]} = S[j - 1] /\ f[x[j]] = bs[j] * pow(Base, n - j)
  <2>1. x[j] = m + j /\ S[j] = 1 .. m + j /\ S[j - 1] = 1 .. m + j - 1
    OBVIOUS
  <2>2. (1 .. m + j) \ {m + j} = 1 .. m + j - 1
    OBVIOUS
  <2>3. m + j \in 1 .. M /\ M - (m + j) = n - j
    BY <1>2
  <2>4. f[m + j] = bs[j] * pow(Base, n - j)
    BY <1>4, <2>3
  <2> HIDE DEF f, S, x
  <2> QED
    BY <2>1, <2>2, <2>4
<1>11. \A i \in S[0] : f[i] = 0
  <2> TAKE i \in S[0]
  <2>1. i \in 1 .. m /\ i \in 1 .. M /\ M - i \in 0 .. M
    BY <1>2, <1>9
  <2>2. PICK b \in Nat : b = pow(Base, M - i)
    BY <1>5, <2>1
  <2> QED
    BY <1>4, <2>1, <2>2
<1>12. IsFiniteSet(S[n])
  BY <1>9, FS_Interval
<1> HIDE DEF f, S, x
<1>13. AreDigits(n, bs, f, S, x)
  <2>1. \A i \in S[n] : f[i] \in Nat
    BY <1>8, <1>9
  <2>2. Len(bs) = n /\ \A j \in 1 .. n : bs[j] \in Nat
    BY <1>1, <1>6
  <2> QED
    BY <1>9, <1>10, <1>11, <1>12, <2>1, <2>2 DEF AreDigits
<1>14. SumFunctionOnSet(f, S[n]) = NumberOf(bs)
  BY <1>13, SumIsNumber
<1> QED
  BY <1>3, <1>9, <1>14

\* le_uint reads the bytes least significant first.
LEMMA LittleEndian ==
    ASSUME NEW bs \in Seq(Nat), Len(bs) \in 1 .. MaxUint
    PROVE  parse_uint(bs, TRUE) = NumberOf(Reverse(bs))
<1>1. PICK n \in Nat, M \in Nat : n = Len(bs) /\ M = MaxUint /\ n <= M
  BY ByteAssumption
<1>2. PICK m \in Nat : m = M - n
  BY <1>1
<1> DEFINE zeros == [i \in 1 .. m |-> 0]
           buf == bs \o zeros
           ds == Reverse(bs)
           f == [i \in 1 .. M |-> buf[i] * pow(Base, i - 1)]
           S == [j \in 0 .. n |-> n - j + 1 .. M]
           x == [j \in 1 .. n |-> n - j + 1]
<1>3. parse_uint(bs, TRUE) = SumFunctionOnSet(f, 1 .. M)
  <2>1. ~(Len(bs) = 0 \/ Len(bs) > M) /\ MaxUint = M /\ M - Len(bs) = m
    BY <1>1, <1>2
  <2> QED
    BY <2>1, Zenon DEF parse_uint
<1>4. (\A i \in 1 .. n : buf[i] = bs[i]) /\ (\A i \in n + 1 .. M : buf[i] = 0)
  <2>1. n + m = M
    BY <1>2
  <2> QED
    BY <1>1, <2>1, Padded
<1> HIDE DEF zeros, buf
<1>5. \A i \in 0 .. M : pow(Base, i) \in Nat
  <2> TAKE i \in 0 .. M
  <2>1. i \in Nat
    OBVIOUS
  <2> QED
    BY <2>1, PowOfBase, Zenon
<1>6. Len(ds) = n /\ \A j \in 1 .. n : ds[j] \in Nat /\ ds[j] = bs[n - j + 1]
  BY <1>1 DEF Reverse
<1>7. \A i \in 1 .. M : buf[i] \in Nat
  <2> TAKE i \in 1 .. M
  <2>1. CASE i <= n
    BY <1>1, <1>4, <2>1
  <2>2. CASE i > n
    BY <1>4, <2>2
  <2> QED
    BY <2>1, <2>2
<1> HIDE DEF ds
<1>8. \A i \in 1 .. M : f[i] \in Nat
  <2> TAKE i \in 1 .. M
  <2>1. i - 1 \in 0 .. M
    OBVIOUS
  <2>2. PICK a \in Nat, b \in Nat : a = buf[i] /\ b = pow(Base, i - 1)
    BY <1>5, <1>7, <2>1
  <2> QED
    BY <2>2
<1>9. S[n] = 1 .. M /\ S[0] = n + 1 .. M /\ \A j \in 0 .. n : S[j] \subseteq S[n]
  BY <1>1
<1>10. ASSUME NEW j \in 1 .. n
       PROVE  x[j] \in S[j] /\ S[j] \ {x[j]} = S[j - 1] /\ f[x[j]] = ds[j] * pow(Base, n - j)
  <2>1. PICK k \in 1 .. n : k = n - j + 1
    OBVIOUS
  <2>2. x[j] = k /\ S[j] = k .. M /\ S[j - 1] = k + 1 .. M
    BY <2>1
  <2>3. (k .. M) \ {k} = k + 1 .. M /\ k \in 1 .. M
    BY <1>1
  <2>4. k - 1 = n - j
    BY <2>1
  <2>5. f[k] = ds[j] * pow(Base, n - j)
    BY <1>4, <1>6, <2>1, <2>3, <2>4
  <2> HIDE DEF f, S, x
  <2> QED
    BY <2>2, <2>3, <2>5
<1>11. \A i \in S[0] : f[i] = 0
  <2> TAKE i \in S[0]
  <2>1. i \in n + 1 .. M /\ i \in 1 .. M /\ i - 1 \in 0 .. M
    BY <1>9
  <2>2. PICK b \in Nat : b = pow(Base, i - 1)
    BY <1>5, <2>1
  <2> QED
    BY <1>4, <2>1, <2>2
<1>12. IsFiniteSet(S[n])
  BY <1>9, FS_Interval
<1> HIDE DEF f, S, x
<1>13. AreDigits(n, ds, f, S, x)
  <2>1. \A i \in S[n] : f[i] \in Nat
    BY <1>8, <1>9
  <2>2. Len(ds) = n /\ \A j \in 1 .. n : ds[j] \in Nat
    BY <1>6
  <2> QED
    BY <1>9, <1>10, <1>11, <1>12, <2>1, <2>2 DEF AreDigits
<1>14. SumFunctionOnSet(f, S[n]) = NumberOf(ds)
  BY <1>13, SumIsNumber
<1> QED
  BY <1>3, <1>9, <1>14 DEF ds

\* Nested ranges stay inside each other and are read in their own byte order,
\* for every buffer, word and byte size and every nesting (slice, parse_uint).
THEOREM RangesRead == Spec => []RangesReadOwnBytes
<1>1. RangeInv => RangesReadOwnBytes
  <2> SUFFICES ASSUME RangeInv, "range" \in DOMAIN probe, ~probe.signed
               PROVE  RangesReadOwnBytes
    BY DEF RangesReadOwnBytes
  <2>1. PICK r : r = probe.range
    OBVIOUS
  <2>2. /\ IsRange(r, BufferLen) /\ r.start = probe.at
        /\ probe.outer.start <= r.start /\ r.end <= probe.outer.end
    BY <2>1 DEF RangeInv
  <2>3. PICK a \in Nat, b \in Nat : a = r.start /\ b = r.end
    BY <2>2 DEF IsRange
  <2>4. a <= b /\ b <= BufferLen /\ BufferLen \in Nat
    BY <2>2, <2>3, WordHalf DEF IsRange
  <2> DEFINE digits == [i \in 1 .. b - a |-> data[a + i]]
  <2>5. PICK n \in Nat : n = b - a
    BY <2>4
  <2>6. \A i \in 1 .. BufferLen : data[i] \in Nat
    BY ByteAssumption DEF data
  <2>7. \A i \in 1 .. n : data[a + i] \in Nat
    <3> TAKE i \in 1 .. n
    <3>1. a + i \in 1 .. BufferLen
      BY <2>4, <2>5
    <3> QED
      BY <2>6, <3>1
  <2>8. digits \in Seq(Nat) /\ Len(digits) = n
    BY <2>5, <2>7
  <2>9. SubSeq(data, a + 1, b) = digits
    <3>1. PICK c \in Int : c = a + 1
      OBVIOUS
    <3>2. \A i \in c .. b : data[i] \in Nat
      BY <2>4, <2>6, <3>1
    <3>3. /\ SubSeq(data, c, b) \in Seq(Nat)
          /\ Len(SubSeq(data, c, b)) = IF c <= b THEN b - c + 1 ELSE 0
          /\ \A i \in 1 .. b - c + 1 : SubSeq(data, c, b)[i] = data[c + i - 1]
      BY <3>2, SubSeqProperties
    <3>4. PICK s : s = SubSeq(data, c, b)
      OBVIOUS
    <3>5. s \in Seq(Nat) /\ Len(s) = n /\ \A i \in 1 .. n : s[i] = data[a + i]
      BY <2>4, <2>5, <3>1, <3>3, <3>4
    <3>6. s = [i \in 1 .. n |-> data[a + i]]
      BY <3>5
    <3> QED
      BY <2>5, <3>1, <3>4, <3>6
  <2>10. bytes(r) = digits
    BY <2>3, <2>9 DEF bytes
  <2>11. PICK ds : ds = digits
    OBVIOUS
  <2>12. ds \in Seq(Nat) /\ Len(ds) = n /\ bytes(r) = ds
    BY <2>8, <2>10, <2>11
  <2> HIDE DEF digits
  <2>13. Len(ds) \in 1 .. MaxUint =>
            parse_uint(ds, FALSE) = NumberOf(ds) /\ parse_uint(ds, TRUE) = NumberOf(Reverse(ds))
    BY <2>12, BigEndian, LittleEndian
  <2>14. Len(ds) \notin 1 .. MaxUint => parse_uint(ds, FALSE) = None
    BY <2>12, ByteAssumption DEF parse_uint
  <2>15. ds = [i \in 1 .. r.end - r.start |-> data[r.start + i]]
    BY <2>3, <2>11 DEF digits
  <2>16. r.start <= r.end
    BY <2>3, <2>4
  <2> QED
    BY <2>1, <2>2, <2>12, <2>13, <2>14, <2>15, <2>16 DEF RangesReadOwnBytes
<1> QED
  BY <1>1, RangesNest, PTL
=============================================================================
