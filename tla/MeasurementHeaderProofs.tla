---------------------- MODULE MeasurementHeaderProofs ----------------------
(***************************************************************************)
(* What becomes of a measurement's voltages and of its time, for all       *)
(* clocks, all voltages and whatever a Huffman header is read as.          *)
(*                                                                         *)
(* VoltagesAreMeasured is not inductive: a delta header starts from the    *)
(* header the loader has, so that one must hold the voltages of the base   *)
(* measurement it was made of, and the fields EXCEPT replaces              *)
(* (VoltageInv).  The properties of time need the calendar first: a date   *)
(* that mktime() and localtime() carry over is the one day it stands for.  *)
(* ClockInv then says what each header was made of.                        *)
(***************************************************************************)
EXTENDS MeasurementHeader, TLAPS

(* What is needed of a header: which fields it has, and that its voltages  *)
(* are bytes.                                                              *)
Whole(h) ==
  /\ h = [seconds |-> h.seconds, minutes |-> h.minutes, hours |-> h.hours,
          day |-> h.day, month |-> h.month, year |-> h.year,
          vcc |-> h.vcc, vbat |-> h.vbat]
  /\ h.vcc \in Byte
  /\ h.vbat \in Byte

SameVoltages(h, g) == h.vcc = g.vcc /\ h.vbat = g.vbat

(* The loader's header has the voltages of the base measurement.           *)
BaseIsMeasured ==
  HasBase => /\ Whole(base.header)
             /\ Whole(base.sent.header)
             /\ SameVoltages(base.header, base.sent.header)

(* The entry's header has those of the measurement it was last set by.     *)
EntryIsMeasured ==
  sent.kind \in {"raw", "plain", "delta"} =>
    /\ Whole(header)
    /\ Whole(sent.header)
    /\ SameVoltages(header, sent.header)

VoltageInv == BaseIsMeasured /\ EntryIsMeasured

-----------------------------------------------------------------------------
(* A difference of two bytes survives being cut to int8_t: added to the    *)
(* second, modulo 256, it gives the first.                                 *)
LEMMA DifferenceComesBack ==
  ASSUME NEW a \in Byte, NEW b \in Byte
  PROVE  (b + int8(a - b)) % 256 = a
<1>1. CASE a - b + 128 < 0
  <2>1. (a - b + 128) % 256 = a - b + 384
    BY <1>1, SMT DEF Byte
  <2> QED BY <2>1, <1>1, SMT DEF int8, Byte
<1>2. CASE a - b + 128 \in 0 .. 255
  <2>1. (a - b + 128) % 256 = a - b + 128
    BY <1>2, SMT DEF Byte
  <2> QED BY <2>1, <1>2, SMT DEF int8, Byte
<1>3. CASE a - b + 128 > 255
  <2>1. (a - b + 128) % 256 = a - b - 128
    BY <1>3, SMT DEF Byte
  <2> QED BY <2>1, <1>3, SMT DEF int8, Byte
<1> QED BY <1>1, <1>2, <1>3, SMT DEF Byte

(* What a logger can send has all fields.                                  *)
LEMMA MeasuredIsWhole ==
  ASSUME NEW h \in Measured
  PROVE  Whole(h)
BY VoltagesAssumption DEF Measured, Whole

(* addHeader() leaves the voltages alone, whatever it makes of the date.   *)
LEMMA AddHeaderKeepsVoltages ==
  ASSUME NEW h, h.vcc \in Byte, h.vbat \in Byte
  PROVE  Whole(addHeader(h)) /\ SameVoltages(addHeader(h), h)
BY DEF addHeader, assign, setHdr, Whole, SameVoltages

(* Adding the differences from a base measurement to a header of the same  *)
(* voltages gives the voltages measured.                                   *)
LEMMA DifferencesComeBack ==
  ASSUME NEW h, NEW b, NEW g, Whole(h), Whole(b), Whole(g), SameVoltages(g, b)
  PROVE  SameVoltages(DIFF_2_HDR(HDR_delta(h, b), g), h)
<1> DEFINE diff == HDR_delta(h, b)
<1>1. diff.vcc = int8(h.vcc - b.vcc) /\ diff.vbat = int8(h.vbat - b.vbat)
  BY DEF HDR_delta
<1>2. /\ DIFF_2_HDR(diff, g).vcc = (g.vcc + diff.vcc) % 256
      /\ DIFF_2_HDR(diff, g).vbat = (g.vbat + diff.vbat) % 256
  BY DEF DIFF_2_HDR, Whole
<1>3. /\ (b.vcc + int8(h.vcc - b.vcc)) % 256 = h.vcc
      /\ (b.vbat + int8(h.vbat - b.vbat)) % 256 = h.vbat
  BY DifferenceComesBack DEF Whole
<1> QED BY <1>1, <1>2, <1>3 DEF SameVoltages

-----------------------------------------------------------------------------
LEMMA VoltageInit == Init => VoltageInv
BY DEF Init, Nothing, NoBase, HasBase, VoltageInv, BaseIsMeasured, EntryIsMeasured

LEMMA VoltageStep == VoltageInv /\ [Next]_vars => VoltageInv'
<1> SUFFICES ASSUME VoltageInv, [Next]_vars
             PROVE  VoltageInv'
  OBVIOUS
<1> USE DEF VoltageInv
<1>1. ASSUME NEW h \in Measured, PutRaw(h)
      PROVE  VoltageInv'
  <2>1. Whole(h)
    BY MeasuredIsWhole
  <2>2. EntryIsMeasured'
    BY <1>1, <2>1 DEF PutRaw, EntryIsMeasured, SameVoltages
  <2> QED BY <1>1, <2>2 DEF PutRaw, BaseIsMeasured, HasBase
<1>2. ASSUME NEW h \in Measured, PutPlain(h)
      PROVE  VoltageInv'
  <2>1. Whole(h)
    BY MeasuredIsWhole
  <2>2. Whole(addHeader(h)) /\ SameVoltages(addHeader(h), h)
    BY <2>1, AddHeaderKeepsVoltages DEF Whole
  <2>3. EntryIsMeasured'
    BY <1>2, <2>1, <2>2 DEF PutPlain, EntryIsMeasured
  <2> QED BY <1>2, <2>3 DEF PutPlain, BaseIsMeasured, HasBase
<1>3. ASSUME NEW h \in Measured, PutDelta(h)
      PROVE  VoltageInv'
  <2> DEFINE sum == DIFF_2_HDR(HDR_delta(h, base.sent.header), base.header)
  <2>1. Whole(h)
    BY MeasuredIsWhole
  <2>2. SameVoltages(sum, h)
    BY <1>3, <2>1, DifferencesComeBack DEF PutDelta, BaseIsMeasured
  <2>3. sum.vcc \in Byte /\ sum.vbat \in Byte
    BY <2>1, <2>2 DEF Whole, SameVoltages
  <2> HIDE DEF sum
  <2>4. Whole(addHeader(sum)) /\ SameVoltages(addHeader(sum), h)
    BY <2>2, <2>3, AddHeaderKeepsVoltages DEF SameVoltages
  <2>5. header' = addHeader(sum) /\ sent' = [kind |-> "delta", header |-> h]
    BY <1>3 DEF PutDelta, sum
  <2>6. EntryIsMeasured'
    BY <2>1, <2>4, <2>5 DEF EntryIsMeasured
  <2> QED BY <1>3, <2>6 DEF PutDelta, BaseIsMeasured, HasBase
<1>4. ASSUME NEW h \in Measured, PutHuff(h) \/ PutWithoutBase(h)
      PROVE  VoltageInv'
  BY <1>4 DEF PutHuff, PutWithoutBase, EntryIsMeasured, BaseIsMeasured, HasBase
<1>5. CASE SaveAsBase
  BY <1>5 DEF SaveAsBase, EntryIsMeasured, BaseIsMeasured, HasBase
<1>6. CASE Remove
  BY <1>6 DEF Remove, Nothing, EntryIsMeasured, BaseIsMeasured, HasBase
<1>7. CASE UNCHANGED vars
  BY <1>7 DEF vars, EntryIsMeasured, BaseIsMeasured, HasBase
<1> QED BY <1>1, <1>2, <1>3, <1>4, <1>5, <1>6, <1>7 DEF Next

(* The voltages of a row are those the logger measured, for every set of   *)
(* clocks and voltages: put1() and addHeader() lose none on the way.       *)
THEOREM VoltagesCorrect == Spec => []VoltagesAreMeasured
<1>1. VoltageInv => VoltagesAreMeasured
  BY DEF VoltageInv, EntryIsMeasured, SameVoltages, VoltagesAreMeasured
<1> QED BY <1>1, VoltageInit, VoltageStep, PTL DEF Spec

-----------------------------------------------------------------------------
(* The calendar: localtime() finds a date, and mktime() of that date is    *)
(* the time it was made of.                                                *)

LeapDay(year) == IF Leap(year) THEN 1 ELSE 0

LEMMA MonthTable ==
  ASSUME NEW y
  PROVE  /\ BeforeMonth(y, 0) = 0
         /\ BeforeMonth(y, 1) = 31
         /\ BeforeMonth(y, 2) = 59 + LeapDay(y)
         /\ BeforeMonth(y, 3) = 90 + LeapDay(y)
         /\ BeforeMonth(y, 4) = 120 + LeapDay(y)
         /\ BeforeMonth(y, 5) = 151 + LeapDay(y)
         /\ BeforeMonth(y, 6) = 181 + LeapDay(y)
         /\ BeforeMonth(y, 7) = 212 + LeapDay(y)
         /\ BeforeMonth(y, 8) = 243 + LeapDay(y)
         /\ BeforeMonth(y, 9) = 273 + LeapDay(y)
         /\ BeforeMonth(y, 10) = 304 + LeapDay(y)
         /\ BeforeMonth(y, 11) = 334 + LeapDay(y)
         /\ BeforeMonth(y, 12) = 365 + LeapDay(y)
         /\ LeapDay(y) \in 0 .. 1
<1> DEFINE leap == Leap(y)
<1>1. LeapDay(y) = IF leap THEN 1 ELSE 0
  BY DEF LeapDay
<1>2. \A m : BeforeMonth(y, m) = MonthStart[m + 1] + (IF m > 1 /\ leap THEN 1 ELSE 0)
  BY DEF BeforeMonth
<1> HIDE DEF leap
<1>3. CASE leap
  BY <1>1, <1>2, <1>3 DEF MonthStart
<1>4. CASE ~leap
  BY <1>1, <1>2, <1>4 DEF MonthStart
<1> QED BY <1>3, <1>4

LEMMA MonthIsNat ==
  ASSUME NEW y, NEW m \in 0 .. 12
  PROVE  BeforeMonth(y, m) \in Nat
BY MonthTable

(* The months of a year make it up.                                        *)
LEMMA YearLength ==
  ASSUME NEW y \in Nat
  PROVE  BeforeYear(y + 1) = BeforeYear(y) + 365 + LeapDay(y)
<1>1. (y + 4) \div 4 = (y + 3) \div 4 + (IF y % 4 = 0 THEN 1 ELSE 0)
  BY SMT
<1>2. BeforeYear(y + 1) = 365 * (y + 1) + (y + 4) \div 4
                            - (IF y + 1 > 100 THEN 1 ELSE 0)
  BY SMT DEF BeforeYear
<1>3. LeapDay(y) = IF y % 4 = 0 THEN (IF y = 100 THEN 0 ELSE 1) ELSE 0
  BY DEF LeapDay, Leap
<1>4. CASE y = 100
  BY <1>2, <1>3, <1>4, SMT DEF BeforeYear
<1>5. CASE y # 100
  BY <1>1, <1>2, <1>3, <1>5, SMT DEF BeforeYear
<1> QED BY <1>4, <1>5

LEMMA BeforeYearBounds ==
  ASSUME NEW y \in Nat
  PROVE  /\ BeforeYear(y) \in Nat
         /\ 365 * y <= BeforeYear(y)
         /\ BeforeYear(y) <= 366 * y
BY SMT DEF BeforeYear

LEMMA BeforeYearGrows ==
  ASSUME NEW y \in Nat, NEW z \in Nat, y < z
  PROVE  BeforeYear(y + 1) <= BeforeYear(z)
<1>1. (y + 1 + 3) \div 4 <= (z + 3) \div 4
  BY SMT
<1>2. CASE z = y + 1
  BY <1>2, BeforeYearBounds
<1>3. CASE z > y + 1
  BY <1>1, <1>3, SMT DEF BeforeYear
<1> QED BY <1>2, <1>3, SMT

(* Each day is in a year localtime() looks at ...                          *)
LEMMA YearOfDay ==
  ASSUME NEW d \in Nat, d <= 100000
  PROVE  \E y \in (d \div 366) .. (d \div 365) :
           BeforeYear(y) <= d /\ d < BeforeYear(y + 1)
<1> DEFINE y == d \div 366
<1>1. y \in Nat /\ 366 * y <= d /\ d < 366 * (y + 1)
  BY SMT
<1>2. BeforeYear(y) <= d
  BY <1>1, BeforeYearBounds
<1>3. CASE d < BeforeYear(y + 1)
  <2>1. y \in (d \div 366) .. (d \div 365)
    BY SMT
  <2> QED BY <1>2, <1>3, <2>1
<1>4. CASE BeforeYear(y + 1) <= d
  <2>1. 365 * (y + 1) <= d
    BY <1>1, <1>4, BeforeYearBounds
  <2>2. y + 1 \in (d \div 366) .. (d \div 365)
    BY <1>1, <2>1, SMT
  <2>3. d < 365 * (y + 2)
    BY <1>1, SMT
  <2>4. d < BeforeYear((y + 1) + 1)
    <3>1. 365 * ((y + 1) + 1) <= BeforeYear((y + 1) + 1)
      BY <1>1, BeforeYearBounds
    <3> HIDE DEF y
    <3> QED BY <1>1, <2>3, <3>1, BeforeYearBounds
  <2> QED BY <1>4, <2>2, <2>4
<1> QED
  <2>1. BeforeYear(y + 1) \in Int
    BY <1>1, BeforeYearBounds
  <2> QED BY <1>3, <1>4, <2>1

(* ... and in a month of that year.                                        *)
LEMMA MonthOfDay ==
  ASSUME NEW y, NEW k \in Nat, k < 365 + LeapDay(y)
  PROVE  \E m \in 0 .. 11 : BeforeMonth(y, m) <= k /\ k < BeforeMonth(y, m + 1)
<1> DEFINE In(m) == BeforeMonth(y, m) <= k /\ k < BeforeMonth(y, m + 1)
<1>1. In(0) \/ In(1) \/ In(2) \/ In(3) \/ In(4) \/ In(5) \/ In(6) \/ In(7)
        \/ In(8) \/ In(9) \/ In(10) \/ In(11)
  BY MonthTable
<1> QED BY <1>1

LEMMA TimeOfDay ==
  ASSUME NEW s \in Nat, s < 86400
  PROVE  /\ s % 60 \in 0 .. 59 /\ (s \div 60) % 60 \in 0 .. 59
         /\ s \div 3600 \in 0 .. 23
         /\ (s % 60) + 60 * (((s \div 60) % 60) + 60 * (s \div 3600)) = s
<1> DEFINE q == s \div 60
<1>1. q \in Nat /\ q < 1440 /\ s % 60 \in 0 .. 59 /\ s = (s % 60) + 60 * q
  BY SMT
<1>2. s \div 3600 = q \div 60
  BY SMT
<1> HIDE DEF q
<1>3. q % 60 \in 0 .. 59 /\ q \div 60 \in 0 .. 23 /\ q = (q % 60) + 60 * (q \div 60)
  BY <1>1, SMT
<1>4. (s % 60) + 60 * ((q % 60) + 60 * (q \div 60)) = s
  BY <1>1, <1>3
<1> QED BY <1>1, <1>2, <1>3, <1>4 DEF q

LEMMA DayOfYear ==
  ASSUME NEW d \in Nat, d <= 100000, NEW y, y = YearOf(d),
         NEW k, k = d - BeforeYear(y), NEW m, m = MonthOf(y, k)
  PROVE  /\ y \in Nat /\ BeforeYear(y) <= d /\ d < BeforeYear(y + 1)
         /\ m \in 0 .. 11 /\ BeforeMonth(y, m) <= k /\ k < BeforeMonth(y, m + 1)
         /\ k - BeforeMonth(y, m) + 1 \in 1 .. 31
<1>1. y \in (d \div 366) .. (d \div 365) /\ BeforeYear(y) <= d /\ d < BeforeYear(y + 1)
  <2> DEFINE Years == (d \div 366) .. (d \div 365)
             Of(z) == BeforeYear(z) <= d /\ d < BeforeYear(z + 1)
  <2>1. \E z \in Years : Of(z)
    BY YearOfDay
  <2>2. y = CHOOSE z \in Years : Of(z)
    BY DEF YearOf
  <2> HIDE DEF Years, Of
  <2>3. y \in Years /\ Of(y)
    BY <2>1, <2>2
  <2> QED BY <2>3 DEF Years, Of
<1>2. y \in Nat
  BY <1>1, SMT
<1>3. k \in Nat /\ k < 365 + LeapDay(y)
  <2>1. BeforeYear(y + 1) = BeforeYear(y) + 365 + LeapDay(y)
    BY <1>2, YearLength
  <2>2. BeforeYear(y) \in Nat
    BY <1>2, BeforeYearBounds
  <2>3. LeapDay(y) \in 0 .. 1
    BY MonthTable
  <2> QED BY ONLY <1>1, <2>1, <2>2, <2>3, k = d - BeforeYear(y), d \in Nat
<1>4. m \in 0 .. 11 /\ BeforeMonth(y, m) <= k /\ k < BeforeMonth(y, m + 1)
  BY <1>3, MonthOfDay DEF MonthOf
<1>5. k - BeforeMonth(y, m) + 1 \in 1 .. 31
  BY <1>3, <1>4, MonthTable
<1> QED BY <1>1, <1>2, <1>4, <1>5

(* What localtime() makes of a time is a date, and the date of that time.  *)
LEMMA LocaltimeIsTheDate ==
  ASSUME NEW t, NEW r, r = localtime(t),
         t.day \in Nat, t.day <= 100000, t.second \in Nat, t.second < 86400
  PROVE  /\ r.sec \in 0 .. 59 /\ r.min \in 0 .. 59 /\ r.hour \in 0 .. 23
         /\ r.sec + 60 * (r.min + 60 * r.hour) = t.second
         /\ r.mday \in 1 .. 31 /\ r.mon \in 0 .. 11 /\ r.year \in Nat
         /\ BeforeYear(r.year) <= t.day /\ t.day < BeforeYear(r.year + 1)
         /\ BeforeMonth(r.year, r.mon) <= t.day - BeforeYear(r.year)
         /\ t.day - BeforeYear(r.year) < BeforeMonth(r.year, r.mon + 1)
         /\ r.mday = t.day - BeforeYear(r.year) - BeforeMonth(r.year, r.mon) + 1
<1>1. /\ r.sec = t.second % 60 /\ r.min = (t.second \div 60) % 60
      /\ r.hour = t.second \div 3600
      /\ r.year = YearOf(t.day)
      /\ r.mon = MonthOf(r.year, t.day - BeforeYear(r.year))
      /\ r.mday = t.day - BeforeYear(r.year) - BeforeMonth(r.year, r.mon) + 1
  BY DEF localtime
<1>2. /\ r.sec \in 0 .. 59 /\ r.min \in 0 .. 59 /\ r.hour \in 0 .. 23
      /\ r.sec + 60 * (r.min + 60 * r.hour) = t.second
  <2> DEFINE s == t.second
  <2>1. s \in Nat /\ s < 86400
    OBVIOUS
  <2>2. r.sec = s % 60 /\ r.min = (s \div 60) % 60 /\ r.hour = s \div 3600
    BY <1>1
  <2> HIDE DEF s
  <2>3. /\ r.sec \in 0 .. 59 /\ r.min \in 0 .. 59 /\ r.hour \in 0 .. 23
        /\ r.sec + 60 * (r.min + 60 * r.hour) = s
    BY <2>1, <2>2, TimeOfDay
  <2> QED BY <2>3 DEF s
<1> DEFINE y == r.year
           k == t.day - BeforeYear(y)
           m == r.mon
<1>3. y = YearOf(t.day) /\ m = MonthOf(y, k) /\ r.mday = k - BeforeMonth(y, m) + 1
  BY <1>1
<1>4. k = t.day - BeforeYear(y)
  OBVIOUS
<1> HIDE DEF k, y, m
<1>5. /\ y \in Nat /\ BeforeYear(y) <= t.day /\ t.day < BeforeYear(y + 1)
      /\ m \in 0 .. 11 /\ BeforeMonth(y, m) <= k /\ k < BeforeMonth(y, m + 1)
      /\ k - BeforeMonth(y, m) + 1 \in 1 .. 31
  BY <1>3, <1>4, DayOfYear
<1>6. /\ r.mday \in 1 .. 31 /\ m \in 0 .. 11 /\ y \in Nat
      /\ BeforeYear(y) <= t.day /\ t.day < BeforeYear(y + 1)
      /\ BeforeMonth(y, m) <= k /\ k < BeforeMonth(y, m + 1)
      /\ r.mday = k - BeforeMonth(y, m) + 1
  BY <1>3, <1>5
<1> QED BY ONLY <1>2, <1>6 DEF y, m, k

(* Day k is in month m of year y.                                          *)
InMonth(k, y, m) ==
  /\ y \in Nat /\ m \in 0 .. 11
  /\ BeforeYear(y) <= k /\ k < BeforeYear(y + 1)
  /\ BeforeMonth(y, m) <= k - BeforeYear(y)
  /\ k - BeforeYear(y) < BeforeMonth(y, m + 1)

(* A day is in one month: localtime() has no choice.                       *)
LEMMA DateIsUnique ==
  ASSUME NEW k \in Nat, NEW y, NEW m, NEW z, NEW n,
         InMonth(k, y, m), InMonth(k, z, n)
  PROVE  y = z /\ m = n
<1> USE DEF InMonth
<1>1. y = z
  <2>1. ~(y < z) /\ ~(z < y)
    BY BeforeYearGrows, BeforeYearBounds
  <2> QED BY <2>1
<1>2. m = n
  <2> DEFINE k0 == k - BeforeYear(y)
  <2>1. k0 \in Int
    BY BeforeYearBounds
  <2> HIDE DEF k0
  <2>2. /\ BeforeMonth(y, m) <= k0 /\ k0 < BeforeMonth(y, m + 1)
        /\ BeforeMonth(y, n) <= k0 /\ k0 < BeforeMonth(y, n + 1)
    BY <1>1 DEF k0
  <2> QED BY <2>1, <2>2, MonthTable
<1> QED BY <1>1, <1>2

-----------------------------------------------------------------------------
(* addHeader() brings a header through logger2time() and localtime().      *)

IsDate(h) ==
  /\ h.seconds \in Byte /\ h.minutes \in 0 .. 59 /\ h.hours \in 0 .. 23
  /\ h.day \in 1 .. 31 /\ h.month \in 1 .. 12 /\ h.year \in 0 .. 100

(* The time the numbers of a header stand for, its month taken as tm_mon.  *)
Shifted(h) ==
  logger2time(h.year, h.month, h.day, h.hours, h.minutes, h.seconds)

LEMMA ShiftedTime ==
  ASSUME NEW h, IsDate(h), NEW t, t = Shifted(h),
         NEW o, o = h.seconds + 60 * (h.minutes + 60 * h.hours)
  PROVE  /\ t = [day |-> t.day, second |-> t.second]
         /\ o \in Nat /\ t.second = o % 86400
         /\ t.second \in Nat /\ t.second < 86400
         /\ t.day = BeforeYear(h.year + h.month \div 12)
                      + BeforeMonth(h.year + h.month \div 12, h.month % 12)
                      + h.day - 1 + o \div 86400
         /\ t.day \in Nat /\ t.day <= 100000
         /\ t.day < BeforeYear(h.year + 2)
<1> DEFINE y == h.year  mo == h.month  d == h.day
           year == y + mo \div 12
<1>1. /\ y \in 0 .. 100 /\ mo \in 0 .. 12 /\ d \in 1 .. 31
  BY DEF IsDate
<1>2. /\ t = [day |-> BeforeYear(year) + BeforeMonth(year, mo % 12) + d - 1
                        + o \div 86400, second |-> o % 86400]
  BY DEF Shifted, logger2time, mktime
<1>3. o \in Nat /\ o % 86400 \in Nat /\ o % 86400 < 86400 /\ o \div 86400 \in 0 .. 1
  <2> DEFINE s == h.seconds  mi == h.minutes  ho == h.hours
  <2>1. s \in 0 .. 255 /\ mi \in 0 .. 59 /\ ho \in 0 .. 23
    BY DEF IsDate, Byte
  <2>2. o = s + 60 * (mi + 60 * ho)
    OBVIOUS
  <2> HIDE DEF s, mi, ho
  <2> QED BY ONLY <2>1, <2>2, SMT
<1> HIDE DEF y, mo, d
<1>4. year \in 0 .. 101 /\ mo % 12 \in 0 .. 11
  <2>1. CASE mo = 12
    BY ONLY <1>1, <2>1, SMT DEF year
  <2>2. CASE mo < 12
    BY ONLY <1>1, <2>2, SMT DEF year
  <2> QED BY ONLY <1>1, <2>1, <2>2
<1>5. BeforeMonth(year, mo % 12) \in 0 .. 335
  BY ONLY <1>4, MonthTable
<1>6. /\ year \in {y, y + 1}
      /\ year = y + 1 => mo % 12 = 0
  <2>1. CASE mo = 12
    BY ONLY <1>1, <2>1, SMT DEF year
  <2>2. CASE mo < 12
    BY ONLY <1>1, <2>2, SMT DEF year
  <2> QED BY ONLY <1>1, <2>1, <2>2
<1> HIDE DEF year
<1>7. /\ t.day = BeforeYear(year) + BeforeMonth(year, mo % 12) + d - 1 + o \div 86400
      /\ t.second = o % 86400
      /\ t = [day |-> t.day, second |-> t.second]
  BY <1>2
<1>8. /\ BeforeYear(y) \in Nat /\ BeforeYear(y) <= 40000 /\ BeforeYear(y + 1) = BeforeYear(y) + 365 + LeapDay(y)
      /\ BeforeYear((y + 1) + 1) = BeforeYear(y + 1) + 365 + LeapDay(y + 1)
      /\ LeapDay(y) \in 0 .. 1 /\ LeapDay(y + 1) \in 0 .. 1
  <2>1. y \in Nat /\ y + 1 \in Nat /\ y <= 100
    BY ONLY <1>1
  <2>2. /\ BeforeYear(y + 1) = BeforeYear(y) + 365 + LeapDay(y)
        /\ BeforeYear((y + 1) + 1) = BeforeYear(y + 1) + 365 + LeapDay(y + 1)
    BY ONLY <2>1, YearLength
  <2>3. BeforeYear(y) \in Nat /\ BeforeYear(y) <= 40000
    BY ONLY <2>1, BeforeYearBounds
  <2>4. LeapDay(y) \in 0 .. 1 /\ LeapDay(y + 1) \in 0 .. 1
    BY DEF LeapDay
  <2> QED BY ONLY <2>2, <2>3, <2>4
<1>9. BeforeMonth(year, 0) = 0 /\ (y + 1) + 1 = y + 2
  BY ONLY <1>1, MonthTable
<1>10. /\ t.day \in Nat /\ t.day <= 100000
      /\ BeforeYear(y) <= t.day /\ t.day < BeforeYear(y + 2)
  <2> DEFINE bm == BeforeMonth(year, mo % 12)
             carry == o \div 86400
  <2>1. /\ bm \in 0 .. 335 /\ carry \in 0 .. 1
        /\ t.day = BeforeYear(year) + bm + d - 1 + carry
    BY ONLY <1>3, <1>5, <1>7 DEF bm, carry
  <2>2. year = y + 1 => bm = 0
    BY ONLY <1>6, <1>9 DEF bm
  <2> HIDE DEF bm, carry
  <2>3. CASE year = y
    BY ONLY <1>1, <1>8, <1>9, <2>1, <2>3
  <2>4. CASE year = y + 1
    BY ONLY <1>1, <1>8, <1>9, <2>1, <2>2, <2>4
  <2> QED BY ONLY <1>6, <2>3, <2>4
<1> QED BY ONLY <1>3, <1>7, <1>10 DEF year, y, mo, d

(* What measured() makes of a header that went through addHeader() is the  *)
(* time addHeader() was given: the two shifts of the month cancel out.     *)
LEMMA AddHeaderKeepsTime ==
  ASSUME NEW h, IsDate(h), NEW g, g = addHeader(h)
  PROVE  /\ measured(g) = Shifted(h)
         /\ g.seconds \in 0 .. 59 /\ g.minutes \in 0 .. 59 /\ g.hours \in 0 .. 23
         /\ g.day \in 1 .. 31 /\ g.month \in 1 .. 12
         /\ g.year \in Nat /\ g.year <= h.year + 1
         /\ g.seconds + 60 * (g.minutes + 60 * g.hours) = Shifted(h).second
         /\ BeforeYear(g.year) <= Shifted(h).day
         /\ Shifted(h).day < BeforeYear(g.year + 1)
         /\ BeforeMonth(g.year, g.month - 1) <= Shifted(h).day - BeforeYear(g.year)
         /\ Shifted(h).day - BeforeYear(g.year) < BeforeMonth(g.year, g.month)
         /\ g.day = Shifted(h).day - BeforeYear(g.year)
                      - BeforeMonth(g.year, g.month - 1) + 1
<1> DEFINE t == Shifted(h)
           r == localtime(t)
<1>1. /\ g.seconds = r.sec /\ g.minutes = r.min /\ g.hours = r.hour
      /\ g.day = r.mday /\ g.month = r.mon + 1 /\ g.year = r.year % 256
  BY DEF addHeader, assign, setHdr, Shifted
<1>2. /\ t = [day |-> t.day, second |-> t.second]
      /\ t.second \in Nat /\ t.second < 86400
      /\ t.day \in Nat /\ t.day <= 100000 /\ t.day < BeforeYear(h.year + 2)
  BY ShiftedTime
<1>3. r = localtime(t)
  OBVIOUS
<1>4. h.year \in 0 .. 100
  BY DEF IsDate
<1> HIDE DEF t, r
<1>5. /\ r.sec \in 0 .. 59 /\ r.min \in 0 .. 59 /\ r.hour \in 0 .. 23
      /\ r.sec + 60 * (r.min + 60 * r.hour) = t.second
      /\ r.mday \in 1 .. 31 /\ r.mon \in 0 .. 11 /\ r.year \in Nat
      /\ BeforeYear(r.year) <= t.day /\ t.day < BeforeYear(r.year + 1)
      /\ BeforeMonth(r.year, r.mon) <= t.day - BeforeYear(r.year)
      /\ t.day - BeforeYear(r.year) < BeforeMonth(r.year, r.mon + 1)
      /\ r.mday = t.day - BeforeYear(r.year) - BeforeMonth(r.year, r.mon) + 1
  BY <1>2, <1>3, LocaltimeIsTheDate
<1>6. r.year <= h.year + 1
  <2>1. SUFFICES ASSUME h.year + 1 < r.year
                 PROVE  FALSE
    BY <1>4, <1>5
  <2>2. h.year + 1 \in Nat /\ (h.year + 1) + 1 = h.year + 2
    BY <1>4
  <2>3. BeforeYear(h.year + 2) <= BeforeYear(r.year)
    BY <1>5, <2>1, <2>2, BeforeYearGrows
  <2>4. BeforeYear(r.year) \in Nat /\ BeforeYear(h.year + 2) \in Nat
    <3>1. r.year \in Nat /\ h.year + 2 \in Nat
      BY <1>4, <1>5
    <3> QED BY ONLY <3>1, BeforeYearBounds
  <2> QED BY <1>2, <1>5, <2>3, <2>4
<1>7. g.year = r.year /\ g.month - 1 = r.mon
  BY <1>1, <1>4, <1>5, <1>6
<1>8. measured(g) = logger2time(r.year, r.mon, r.mday, r.hour, r.min, r.sec)
  <2>1. (g.month - 1) % 256 = r.mon
    BY <1>5, <1>7
  <2> QED BY <1>1, <1>7, <2>1 DEF measured
<1>9. measured(g) = t
  <2> DEFINE u == measured(g)
             o == r.sec + 60 * (r.min + 60 * r.hour)
  <2>1. r.year \in 0 .. 101 /\ r.mon \in 0 .. 11 /\ r.mday \in 1 .. 31
    BY <1>4, <1>5, <1>6
  <2>2. r.year + r.mon \div 12 = r.year /\ r.mon % 12 = r.mon
    BY <2>1
  <2>3. o = t.second /\ o % 86400 = o /\ o \div 86400 = 0
    BY <1>2, <1>5
  <2>4. u = [day |-> BeforeYear(r.year) + BeforeMonth(r.year, r.mon) + r.mday - 1
                       + o \div 86400, second |-> o % 86400]
    BY <1>8, <2>2 DEF logger2time, mktime
  <2>5. BeforeYear(r.year) \in Nat /\ BeforeMonth(r.year, r.mon) \in Nat
    <3>1. r.year \in Nat /\ r.mon \in 0 .. 12
      BY <1>5
    <3>2. BeforeYear(r.year) \in Nat
      BY ONLY <3>1, BeforeYearBounds
    <3>3. BeforeMonth(r.year, r.mon) \in Nat
      BY ONLY <3>1, MonthIsNat
    <3> QED BY ONLY <3>2, <3>3
  <2>6. BeforeYear(r.year) + BeforeMonth(r.year, r.mon) + r.mday - 1 + 0 = t.day
    BY <1>2, <1>5, <2>5
  <2> HIDE DEF u, o
  <2>7. u = [day |-> t.day, second |-> t.second]
    BY <2>3, <2>4, <2>6
  <2> QED BY <1>2, <2>7 DEF u
<1>10. g.month \in 1 .. 12 /\ r.mon + 1 = g.month
  BY <1>1, <1>5
<1>11. /\ g.seconds \in 0 .. 59 /\ g.minutes \in 0 .. 59 /\ g.hours \in 0 .. 23
       /\ g.day \in 1 .. 31 /\ g.year \in Nat /\ g.year <= h.year + 1
       /\ g.seconds + 60 * (g.minutes + 60 * g.hours) = t.second
  BY ONLY <1>1, <1>5, <1>6, <1>7
<1>12. /\ BeforeYear(g.year) <= t.day /\ t.day < BeforeYear(g.year + 1)
       /\ BeforeMonth(g.year, g.month - 1) <= t.day - BeforeYear(g.year)
       /\ t.day - BeforeYear(g.year) < BeforeMonth(g.year, g.month)
       /\ g.day = t.day - BeforeYear(g.year) - BeforeMonth(g.year, g.month - 1) + 1
  BY ONLY <1>1, <1>5, <1>7, <1>10
<1> QED BY ONLY <1>9, <1>10, <1>11, <1>12 DEF t

-----------------------------------------------------------------------------
(* Two headers of one month: what mktime() makes of them differs by their  *)
(* days and times of day only, whichever month it takes them for.          *)

OfDay(h) == h.seconds + 60 * (h.minutes + 60 * h.hours)

DatedAs(h, mon, year) ==
  mktime([sec |-> h.seconds, min |-> h.minutes, hour |-> h.hours,
          mday |-> h.day, mon |-> mon, year |-> year])

(* A day and time of day, carried over, counted from day k.                *)
CountedFrom(t, k, h) ==
  /\ t.day = k + h.day + OfDay(h) \div 86400
  /\ t.second = OfDay(h) % 86400

LEMMA OfDayIsNat ==
  ASSUME NEW h, IsDate(h)
  PROVE  OfDay(h) \in Nat /\ h.day \in Nat
<1> DEFINE s == h.seconds  mi == h.minutes  ho == h.hours
<1>1. s \in 0 .. 255 /\ mi \in 0 .. 59 /\ ho \in 0 .. 23 /\ h.day \in Nat
  BY DEF IsDate, Byte
<1>2. OfDay(h) = s + 60 * (mi + 60 * ho)
  BY DEF OfDay
<1> HIDE DEF s, mi, ho
<1> QED BY ONLY <1>1, <1>2

LEMMA TimesAreCounted ==
  ASSUME NEW y \in 0 .. 100, NEW mo \in 1 .. 12
  PROVE  /\ \E k \in Int : \A h : IsDate(h) /\ h.year = y /\ h.month = mo
                                    => CountedFrom(Shifted(h), k, h)
         /\ \E k \in Int : \A h : IsDate(h) /\ h.year = y /\ h.month = mo
                                    => CountedFrom(TimeOf(h), k, h)
         /\ \E k \in Int : \A h : IsDate(h) /\ h.year = y /\ h.month = mo
                                    => CountedFrom(HDR2time_t(h), k, h)
<1>1. ASSUME NEW z \in Nat, NEW m \in 0 .. 12
      PROVE  \E k \in Int : \A h : IsDate(h) => CountedFrom(DatedAs(h, m, z), k, h)
  <2> DEFINE year == z + m \div 12
             k == BeforeYear(year) + BeforeMonth(year, m % 12) - 1
  <2>1. year \in Nat /\ m % 12 \in 0 .. 12
    <3>1. CASE m = 12
      BY ONLY <3>1, z \in Nat, SMT
    <3>2. CASE m < 12
      BY ONLY <3>2, z \in Nat, m \in 0 .. 12, SMT
    <3> QED BY ONLY <3>1, <3>2, m \in 0 .. 12
  <2>2. BeforeYear(year) \in Nat /\ BeforeMonth(year, m % 12) \in Nat
    <3> HIDE DEF year
    <3>1. BeforeYear(year) \in Nat
      BY ONLY <2>1, BeforeYearBounds
    <3>2. BeforeMonth(year, m % 12) \in Nat
      BY ONLY <2>1, MonthIsNat
    <3> QED BY ONLY <3>1, <3>2
  <2>3. ASSUME NEW h, IsDate(h)
        PROVE  CountedFrom(DatedAs(h, m, z), k, h)
    <3>1. OfDay(h) \in Nat /\ h.day \in Nat
      BY <2>3, OfDayIsNat
    <3>2. DatedAs(h, m, z) = [day |-> BeforeYear(year) + BeforeMonth(year, m % 12) + h.day - 1
                            + OfDay(h) \div 86400,
                  second |-> OfDay(h) % 86400]
      BY DEF DatedAs, mktime, OfDay
    <3>3. OfDay(h) \div 86400 \in Int
      BY ONLY <3>1, SMT
    <3> DEFINE o == OfDay(h) \div 86400
               by == BeforeYear(year)
               bm == BeforeMonth(year, m % 12)
    <3>4. DatedAs(h, m, z).day = by + bm + h.day - 1 + o /\ DatedAs(h, m, z).second = OfDay(h) % 86400
      BY ONLY <3>2
    <3>5. by \in Int /\ bm \in Int /\ o \in Int /\ h.day \in Int /\ k = by + bm - 1
      BY ONLY <2>2, <3>1, <3>3
    <3> HIDE DEF o, by, bm, k
    <3>6. DatedAs(h, m, z).day = k + h.day + o
      BY ONLY <3>4, <3>5
    <3> QED BY ONLY <3>4, <3>6 DEF CountedFrom, o
  <2>4. k \in Int
    BY ONLY <2>2
  <2> HIDE DEF k
  <2> QED BY <2>3, <2>4
<1>2. mo \in 0 .. 12 /\ mo - 1 \in 0 .. 12 /\ y \in Nat /\ y + 100 \in Nat
  OBVIOUS
<1>3. \A h : h.year = y /\ h.month = mo =>
        /\ Shifted(h) = DatedAs(h, mo, y)
        /\ TimeOf(h) = DatedAs(h, mo - 1, y)
        /\ HDR2time_t(h) = DatedAs(h, mo, y + 100)
  BY DEF Shifted, logger2time, TimeOf, HDR2time_t, DatedAs
<1>4. \E k \in Int : \A h : IsDate(h) => CountedFrom(DatedAs(h, mo, y), k, h)
  BY <1>1, <1>2
<1>5. \E k \in Int : \A h : IsDate(h) => CountedFrom(DatedAs(h, mo - 1, y), k, h)
  BY <1>1, <1>2
<1>6. \E k \in Int : \A h : IsDate(h) => CountedFrom(DatedAs(h, mo, y + 100), k, h)
  BY <1>1, <1>2
<1> QED BY <1>3, <1>4, <1>5, <1>6

(* What a header counts, a day and a second, in numbers.                   *)
LEMMA CountsAreInt ==
  ASSUME NEW h, IsDate(h), NEW t, NEW k \in Int, CountedFrom(t, k, h)
  PROVE  /\ OfDay(h) \div 86400 \in Int /\ h.day \in Int
         /\ t.day \in Int /\ t.second \in Nat /\ t.second < 86400
<1>1. OfDay(h) \in Nat /\ h.day \in Int
  BY OfDayIsNat
<1> DEFINE o == OfDay(h)
<1>2. t.day = k + h.day + o \div 86400 /\ t.second = o % 86400
  BY DEF CountedFrom
<1> HIDE DEF o
<1>3. o \in Nat
  BY ONLY <1>1 DEF o
<1>4. o \div 86400 \in Int /\ o % 86400 \in Nat /\ o % 86400 < 86400
  BY ONLY <1>3, SMT
<1>5. t.day \in Int
  BY ONLY <1>1, <1>2, <1>4, k \in Int
<1> QED BY ONLY <1>1, <1>2, <1>4, <1>5 DEF o

(* The length of a day is a name here, for the sake of the provers.        *)
DayLength == 86400

IsTime(t) == t.day \in Int /\ t.second \in Nat /\ t.second < DayLength

(* The seconds from second q of day b to second p of day a.                *)
SecondsFrom(a, b, p, q) == 86400 * (a - b) + p - q
Apart(t, u) == SecondsFrom(t.day, u.day, t.second, u.second)

(* Two headers counted from one day stay as far apart when they are        *)
(* counted from another.                                                   *)
LEMMA SameDistance ==
  ASSUME NEW g, NEW h, IsDate(g), IsDate(h), NEW k \in Int, NEW l \in Int,
         NEW t, NEW u, CountedFrom(t, k, g), CountedFrom(u, k, h),
         NEW v, NEW w, CountedFrom(v, l, g), CountedFrom(w, l, h)
  PROVE  /\ IsTime(t) /\ IsTime(u) /\ IsTime(v) /\ IsTime(w)
         /\ v.day - w.day = t.day - u.day
         /\ v.second = t.second /\ w.second = u.second
<1>1. /\ t.day \in Int /\ u.day \in Int /\ v.day \in Int /\ w.day \in Int
      /\ t.second \in Nat /\ t.second < 86400 /\ u.second \in Nat /\ u.second < 86400
  BY CountsAreInt
<1> DEFINE a == OfDay(g) \div 86400
           b == OfDay(h) \div 86400
           x == g.day
           y == h.day
<1>2. a \in Int /\ b \in Int /\ x \in Int /\ y \in Int
  BY CountsAreInt
<1>3. /\ t.day = k + x + a /\ u.day = k + y + b
      /\ v.day = l + x + a /\ w.day = l + y + b
      /\ v.second = t.second /\ w.second = u.second
  BY DEF CountedFrom
<1> HIDE DEF a, b, x, y
<1>4. v.day - w.day = t.day - u.day
  BY ONLY <1>2, <1>3, k \in Int, l \in Int
<1> QED BY ONLY <1>1, <1>3, <1>4, SMT DEF IsTime, DayLength

LEMMA SameOrder ==
  ASSUME NEW t, NEW u, NEW v, NEW w,
         IsTime(t), IsTime(u), IsTime(v), IsTime(w),
         v.day - w.day = t.day - u.day, v.second = t.second, w.second = u.second
  PROVE  /\ After(t, u) => After(v, w)
         /\ After(t, u) => Apart(t, u) > 0
         /\ Apart(v, w) = Apart(t, u)
<1>1. ASSUME NEW a \in Int, NEW b \in Int, NEW x \in Int, NEW y \in Int,
             NEW p \in Nat, NEW q \in Nat, p < DayLength, q < DayLength, x - y = a - b
      PROVE  /\ ~(b > a \/ (b = a /\ q >= p)) => ~(y > x \/ (y = x /\ q >= p))
             /\ ~(b > a \/ (b = a /\ q >= p)) => SecondsFrom(a, b, p, q) > 0
             /\ SecondsFrom(x, y, p, q) = SecondsFrom(a, b, p, q)
  BY ONLY <1>1, SMT DEF SecondsFrom, DayLength
<1> DEFINE a == t.day  b == u.day  x == v.day  y == w.day
           p == t.second  q == u.second
<1>2. /\ After(t, u) <=> ~(b > a \/ (b = a /\ q >= p))
      /\ After(v, w) <=> ~(y > x \/ (y = x /\ q >= p))
      /\ Apart(t, u) = SecondsFrom(a, b, p, q)
      /\ Apart(v, w) = SecondsFrom(x, y, p, q)
  BY DEF After, NotBefore, Apart
<1>3. /\ a \in Int /\ b \in Int /\ x \in Int /\ y \in Int /\ p \in Nat /\ q \in Nat
      /\ p < DayLength /\ q < DayLength /\ x - y = a - b
  BY DEF IsTime
<1> HIDE DEF a, b, x, y, p, q
<1>4. /\ ~(b > a \/ (b = a /\ q >= p)) => ~(y > x \/ (y = x /\ q >= p))
      /\ ~(b > a \/ (b = a /\ q >= p)) => SecondsFrom(a, b, p, q) > 0
      /\ SecondsFrom(x, y, p, q) = SecondsFrom(a, b, p, q)
  BY ONLY <1>1, <1>3
<1> QED BY ONLY <1>2, <1>4

(* Of two headers of one month the later one is dated later.               *)
LEMMA MonthKeepsOrder ==
  ASSUME NEW g, NEW h, IsDate(g), IsDate(h), SameMonth(g, h)
  PROVE  After(TimeOf(g), TimeOf(h)) => After(Shifted(g), Shifted(h))
<1>1. h.year \in 0 .. 100 /\ h.month \in 1 .. 12 /\ g.year = h.year /\ g.month = h.month
  BY DEF IsDate, SameMonth
<1>2. PICK k \in Int : CountedFrom(TimeOf(g), k, g) /\ CountedFrom(TimeOf(h), k, h)
  BY <1>1, TimesAreCounted
<1>3. PICK l \in Int : CountedFrom(Shifted(g), l, g) /\ CountedFrom(Shifted(h), l, h)
  BY <1>1, TimesAreCounted
<1> DEFINE t == TimeOf(g)  u == TimeOf(h)  v == Shifted(g)  w == Shifted(h)
<1> HIDE DEF t, u, v, w
<1>4. /\ CountedFrom(t, k, g) /\ CountedFrom(u, k, h)
      /\ CountedFrom(v, l, g) /\ CountedFrom(w, l, h)
  BY ONLY <1>2, <1>3 DEF t, u, v, w
<1>5. /\ IsTime(t) /\ IsTime(u) /\ IsTime(v) /\ IsTime(w)
      /\ v.day - w.day = t.day - u.day
      /\ v.second = t.second /\ w.second = u.second
  BY ONLY <1>4, SameDistance, IsDate(g), IsDate(h), k \in Int, l \in Int
<1>6. After(t, u) => After(v, w)
  BY ONLY <1>5, SameOrder
<1> QED BY ONLY <1>6 DEF t, u, v, w

-----------------------------------------------------------------------------
(* Differences of time.                                                    *)

LEMMA TimesOfDates ==
  ASSUME NEW h, IsDate(h)
  PROVE  IsTime(TimeOf(h)) /\ IsTime(Shifted(h)) /\ IsTime(HDR2time_t(h))
<1>1. h.year \in 0 .. 100 /\ h.month \in 1 .. 12
  BY DEF IsDate
<1>2. PICK k \in Int : CountedFrom(TimeOf(h), k, h)
  BY <1>1, TimesAreCounted
<1>3. PICK l \in Int : CountedFrom(Shifted(h), l, h)
  BY <1>1, TimesAreCounted
<1>4. PICK m \in Int : CountedFrom(HDR2time_t(h), m, h)
  BY <1>1, TimesAreCounted
<1>5. ASSUME NEW t, NEW n \in Int, CountedFrom(t, n, h)
      PROVE  IsTime(t)
  <2>1. t.day \in Int /\ t.second \in Nat /\ t.second < 86400
    BY ONLY <1>5, CountsAreInt, IsDate(h)
  <2> QED BY ONLY <2>1, SMT DEF IsTime, DayLength
<1> QED BY <1>2, <1>3, <1>4, <1>5

LEMMA ApartIsInt ==
  ASSUME NEW t, NEW u, IsTime(t), IsTime(u)
  PROVE  Apart(t, u) \in Int
<1>1. t.day \in Int /\ u.day \in Int /\ t.second \in Int /\ u.second \in Int
  BY DEF IsTime
<1>2. ASSUME NEW a \in Int, NEW b \in Int, NEW p \in Int, NEW q \in Int
      PROVE  SecondsFrom(a, b, p, q) \in Int
  BY ONLY <1>2, SMT DEF SecondsFrom
<1> QED BY <1>1, <1>2 DEF Apart

(* Of two times the later one is farther from a third.                     *)
LEMMA LaterIsFarther ==
  ASSUME NEW g, NEW h, NEW b, IsDate(g), IsDate(h), IsDate(b),
         After(TimeOf(g), TimeOf(h))
  PROVE  Apart(TimeOf(h), TimeOf(b)) < Apart(TimeOf(g), TimeOf(b))
<1> DEFINE t == TimeOf(g)  u == TimeOf(h)  v == TimeOf(b)
<1>1. IsTime(t) /\ IsTime(u) /\ IsTime(v)
  BY TimesOfDates
<1>2. ASSUME NEW a \in Int, NEW c \in Int, NEW w \in Int,
             NEW p \in Nat, NEW q \in Nat, NEW r \in Nat,
             p < DayLength, q < DayLength,
             ~(c > a \/ (c = a /\ q >= p))
      PROVE  SecondsFrom(c, w, q, r) < SecondsFrom(a, w, p, r)
  BY ONLY <1>2, SMT DEF SecondsFrom, DayLength
<1> DEFINE a == t.day  c == u.day  w == v.day  p == t.second  q == u.second  r == v.second
<1>3. /\ a \in Int /\ c \in Int /\ w \in Int /\ p \in Nat /\ q \in Nat /\ r \in Nat
      /\ p < DayLength /\ q < DayLength
  BY ONLY <1>1 DEF IsTime
<1>4. ~(c > a \/ (c = a /\ q >= p))
  BY DEF After, NotBefore
<1>5. Apart(u, v) = SecondsFrom(c, w, q, r) /\ Apart(t, v) = SecondsFrom(a, w, p, r)
  BY DEF Apart
<1> HIDE DEF t, u, v, a, c, w, p, q, r
<1>6. SecondsFrom(c, w, q, r) < SecondsFrom(a, w, p, r)
  BY ONLY <1>2, <1>3, <1>4
<1>7. Apart(u, v) < Apart(t, v)
  BY ONLY <1>5, <1>6
<1> QED BY ONLY <1>7 DEF t, u, v

LEMMA Int8IsSigned ==
  ASSUME NEW n \in Int
  PROVE  int8(n) \in -128 .. 127 /\ (n \in 0 .. 127 => int8(n) = n)
<1>1. (n + 128) % 256 \in 0 .. 255
  BY SMT
<1>2. n \in 0 .. 127 => (n + 128) % 256 = n + 128
  BY SMT
<1> QED BY <1>1, <1>2 DEF int8

(* A difference of two headers is one of signed bytes.                     *)
LEMMA DifferenceIsSmall ==
  ASSUME NEW h, NEW b, IsDate(h), IsDate(b), Whole(h), Whole(b)
  PROVE  HDR_delta(h, b) \in Diffs
<1> DEFINE n == Apart(HDR2time_t(h), HDR2time_t(b))
<1>1. n \in Int /\ h.vcc - b.vcc \in Int /\ h.vbat - b.vbat \in Int
  <2>1. IsTime(HDR2time_t(h)) /\ IsTime(HDR2time_t(b))
    BY ONLY TimesOfDates, IsDate(h), IsDate(b)
  <2>2. n \in Int
    BY ONLY <2>1, ApartIsInt
  <2>3. h.vcc \in Int /\ b.vcc \in Int /\ h.vbat \in Int /\ b.vbat \in Int
    BY ONLY Whole(h), Whole(b), SMT DEF Whole, Headers, Byte
  <2> HIDE DEF n
  <2> QED BY ONLY <2>2, <2>3
<1>2. HDR_delta(h, b) = [delta_sec |-> int8(n), vcc |-> int8(h.vcc - b.vcc),
                         vbat |-> int8(h.vbat - b.vbat)]
  BY DEF HDR_delta, Apart, SecondsFrom
<1> HIDE DEF n
<1>3. /\ int8(n) \in -128 .. 127
      /\ int8(h.vcc - b.vcc) \in -128 .. 127
      /\ int8(h.vbat - b.vbat) \in -128 .. 127
  BY ONLY <1>1, Int8IsSigned
<1> QED BY ONLY <1>2, <1>3 DEF Diffs

(* Shortly after the base it is the number of seconds.                     *)
LEMMA DifferenceIsElapsed ==
  ASSUME NEW h, NEW b, IsDate(h), IsDate(b), SoonAfter(h, b)
  PROVE  /\ HDR_delta(h, b).delta_sec = Apart(TimeOf(h), TimeOf(b))
         /\ Apart(TimeOf(h), TimeOf(b)) \in 0 .. LongestDelta
<1>1. b.year \in 0 .. 100 /\ b.month \in 1 .. 12 /\ h.year = b.year /\ h.month = b.month
  BY DEF IsDate, SoonAfter, SameMonth
<1>2. PICK k \in Int : CountedFrom(TimeOf(h), k, h) /\ CountedFrom(TimeOf(b), k, b)
  BY <1>1, TimesAreCounted
<1>3. PICK l \in Int : CountedFrom(HDR2time_t(h), l, h) /\ CountedFrom(HDR2time_t(b), l, b)
  BY <1>1, TimesAreCounted
<1> DEFINE t == TimeOf(h)  u == TimeOf(b)  v == HDR2time_t(h)  w == HDR2time_t(b)
<1> HIDE DEF t, u, v, w
<1>4. /\ CountedFrom(t, k, h) /\ CountedFrom(u, k, b)
      /\ CountedFrom(v, l, h) /\ CountedFrom(w, l, b)
  BY ONLY <1>2, <1>3 DEF t, u, v, w
<1>5. /\ IsTime(t) /\ IsTime(u) /\ IsTime(v) /\ IsTime(w)
      /\ v.day - w.day = t.day - u.day
      /\ v.second = t.second /\ w.second = u.second
  BY ONLY <1>4, SameDistance, IsDate(h), IsDate(b), k \in Int, l \in Int
<1>6. Apart(v, w) = Apart(t, u)
  BY ONLY <1>5, SameOrder
<1>7. Apart(t, u) \in 0 .. 98
  BY DEF SoonAfter, LongestDelta, Apart, SecondsFrom, t, u
<1>8. HDR_delta(h, b).delta_sec = int8(Apart(v, w))
  BY DEF HDR_delta, Apart, SecondsFrom, v, w
<1>9. int8(Apart(t, u)) = Apart(t, u)
  BY ONLY <1>7, Int8IsSigned
<1> QED BY ONLY <1>6, <1>7, <1>8, <1>9 DEF LongestDelta, t, u

(* Adding the greater difference to the header of the base gives the later *)
(* time: the seconds stay within a byte.                                   *)
LEMMA MoreIsLater ==
  ASSUME NEW b, IsDate(b), Whole(b), b.seconds \in 0 .. 59,
         NEW d, d.delta_sec \in 0 .. LongestDelta,
         NEW e, e.delta_sec \in 0 .. LongestDelta, d.delta_sec < e.delta_sec
  PROVE  After(Shifted(DIFF_2_HDR(e, b)), Shifted(DIFF_2_HDR(d, b)))
<1> DEFINE g == DIFF_2_HDR(e, b)
           h == DIFF_2_HDR(d, b)
<1>1. /\ g.seconds = (b.seconds + 2 * e.delta_sec) % 256
      /\ h.seconds = (b.seconds + 2 * d.delta_sec) % 256
      /\ g.minutes = b.minutes /\ g.hours = b.hours /\ g.day = b.day
      /\ h.minutes = b.minutes /\ h.hours = b.hours /\ h.day = b.day
      /\ g.month = b.month /\ g.year = b.year /\ h.month = b.month /\ h.year = b.year
  BY DEF DIFF_2_HDR, Whole
<1> HIDE DEF g, h
<1>2. ASSUME NEW s \in 0 .. 59, NEW n \in 0 .. 98
      PROVE  (s + 2 * n) % 256 = s + 2 * n /\ s + 2 * n \in 0 .. 255
  BY ONLY <1>2, SMT
<1>3. /\ g.seconds = b.seconds + 2 * e.delta_sec /\ g.seconds \in 0 .. 255
      /\ h.seconds = b.seconds + 2 * d.delta_sec /\ h.seconds \in 0 .. 255
  <2> DEFINE s == b.seconds  m == d.delta_sec  n == e.delta_sec
  <2>1. s \in 0 .. 59 /\ m \in 0 .. 98 /\ n \in 0 .. 98
    BY DEF LongestDelta
  <2>2. g.seconds = (s + 2 * n) % 256 /\ h.seconds = (s + 2 * m) % 256
    BY ONLY <1>1
  <2> HIDE DEF s, m, n
  <2>3. /\ (s + 2 * n) % 256 = s + 2 * n /\ s + 2 * n \in 0 .. 255
        /\ (s + 2 * m) % 256 = s + 2 * m /\ s + 2 * m \in 0 .. 255
    BY ONLY <1>2, <2>1, SMT
  <2>4. /\ g.seconds = s + 2 * n /\ g.seconds \in 0 .. 255
        /\ h.seconds = s + 2 * m /\ h.seconds \in 0 .. 255
    BY ONLY <2>2, <2>3
  <2> QED BY ONLY <2>4 DEF s, m, n
<1>4. IsDate(g) /\ IsDate(h)
  BY <1>1, <1>3 DEF IsDate, Byte
<1>5. b.year \in 0 .. 100 /\ b.month \in 1 .. 12
  BY DEF IsDate
<1>6. PICK k \in Int : CountedFrom(Shifted(g), k, g) /\ CountedFrom(Shifted(h), k, h)
  BY <1>1, <1>4, <1>5, TimesAreCounted
<1>7. OfDay(g) \in Nat /\ OfDay(h) \in Nat /\ OfDay(h) < OfDay(g) /\ b.day \in Int
  <2> DEFINE s == b.seconds  m == d.delta_sec  n == e.delta_sec
             mi == b.minutes  ho == b.hours
  <2>1. /\ s \in 0 .. 59 /\ m \in 0 .. 98 /\ n \in 0 .. 98 /\ m < n
        /\ mi \in 0 .. 59 /\ ho \in 0 .. 23 /\ b.day \in Int
    BY DEF IsDate, LongestDelta
  <2>2. /\ OfDay(g) = (s + 2 * n) + 60 * (mi + 60 * ho)
        /\ OfDay(h) = (s + 2 * m) + 60 * (mi + 60 * ho)
    BY <1>1, <1>3 DEF OfDay
  <2> HIDE DEF s, m, n, mi, ho
  <2> QED BY ONLY <2>1, <2>2
<1> DEFINE o == OfDay(g)  p == OfDay(h)  y == b.day
           t == Shifted(g)  u == Shifted(h)
<1>8. /\ t.day = k + y + o \div 86400 /\ t.second = o % 86400
      /\ u.day = k + y + p \div 86400 /\ u.second = p % 86400
  BY ONLY <1>1, <1>6 DEF CountedFrom
<1>9. o \in Nat /\ p \in Nat /\ p < o /\ y \in Int
  BY ONLY <1>7
<1> HIDE DEF o, p, y, t, u
<1>10. ~(k + y + p \div 86400 > k + y + o \div 86400
          \/ (k + y + p \div 86400 = k + y + o \div 86400 /\ p % 86400 >= o % 86400))
  BY ONLY <1>9, k \in Int, SMT
<1>11. ~(u.day > t.day \/ (u.day = t.day /\ u.second >= t.second))
  BY ONLY <1>8, <1>10, SMT
<1>12. After(t, u)
  BY ONLY <1>11 DEF After, NotBefore
<1> QED BY ONLY <1>12 DEF t, u, g, h

-----------------------------------------------------------------------------
(* A date that every month has.                                            *)

(* addHeader() keeps a day every month has: shifted by a month it does not *)
(* carry over, so that localtime() finds it in the month it was put into.  *)
LEMMA EarlyDayStays ==
  ASSUME NEW h, IsDate(h), h.seconds \in 0 .. 59, h.day <= 28,
         NEW g, g = addHeader(h)
  PROVE  g.day = h.day
<1> DEFINE t == Shifted(h)  k == t.day  d == h.day
           y == h.year + h.month \div 12
           m == h.month % 12
           o == OfDay(h)
<1>1. /\ k = BeforeYear(y) + BeforeMonth(y, m) + d - 1 + o \div 86400
      /\ k \in Nat
  BY ShiftedTime DEF OfDay
<1>2. o \div 86400 = 0
  <2> DEFINE s == h.seconds  mi == h.minutes  ho == h.hours
  <2>1. s \in 0 .. 59 /\ mi \in 0 .. 59 /\ ho \in 0 .. 23
    BY DEF IsDate
  <2>2. o = s + 60 * (mi + 60 * ho)
    BY DEF OfDay
  <2> HIDE DEF s, mi, ho, o
  <2> QED BY ONLY <2>1, <2>2, SMT
<1>3. y \in Nat /\ m \in 0 .. 11 /\ d \in 1 .. 28
  <2> DEFINE mo == h.month  yy == h.year
  <2>1. mo \in 1 .. 12 /\ yy \in 0 .. 100 /\ d \in 1 .. 28
    BY DEF IsDate
  <2>2. y = yy + mo \div 12 /\ m = mo % 12
    OBVIOUS
  <2> HIDE DEF mo, yy, d, y, m
  <2> QED BY ONLY <2>1, <2>2, SMT
<1>4. /\ BeforeYear(g.year) <= k /\ k < BeforeYear(g.year + 1)
      /\ BeforeMonth(g.year, g.month - 1) <= k - BeforeYear(g.year)
      /\ k - BeforeYear(g.year) < BeforeMonth(g.year, g.month)
      /\ g.day = k - BeforeYear(g.year) - BeforeMonth(g.year, g.month - 1) + 1
      /\ g.year \in Nat /\ g.month \in 1 .. 12
  BY AddHeaderKeepsTime
<1> HIDE DEF t, k, d, y, m, o
<1> DEFINE z == g.year  n == g.month - 1
<1>5. /\ BeforeYear(z) <= k /\ k < BeforeYear(z + 1)
      /\ BeforeMonth(z, n) <= k - BeforeYear(z)
      /\ k - BeforeYear(z) < BeforeMonth(z, n + 1)
      /\ z \in Nat /\ n \in 0 .. 11
  <2>1. n + 1 = g.month /\ n \in 0 .. 11
    BY ONLY <1>4
  <2> QED BY ONLY <1>4, <2>1
<1>6. /\ BeforeYear(y) \in Nat
      /\ BeforeYear(y + 1) = BeforeYear(y) + 365 + LeapDay(y)
  BY ONLY <1>3, BeforeYearBounds, YearLength
<1>7. /\ BeforeMonth(y, m) \in Nat /\ BeforeMonth(y, m) + 28 <= BeforeMonth(y, m + 1)
      /\ BeforeMonth(y, m + 1) <= 365 + LeapDay(y)
      /\ BeforeMonth(y, m + 1) \in Nat /\ LeapDay(y) \in Nat
  BY ONLY <1>3, MonthTable
<1>8. /\ BeforeYear(y) <= k /\ k < BeforeYear(y + 1)
      /\ BeforeMonth(y, m) <= k - BeforeYear(y)
      /\ k - BeforeYear(y) < BeforeMonth(y, m + 1)
  <2> DEFINE B == BeforeYear(y)  C == BeforeYear(y + 1)  M == BeforeMonth(y, m)
             N == BeforeMonth(y, m + 1)  L == LeapDay(y)
  <2>1. /\ k = B + M + d - 1 + 0 /\ d \in 1 .. 28 /\ B \in Nat /\ C = B + 365 + L
        /\ M \in Nat /\ M + 28 <= N /\ N <= 365 + L /\ N \in Nat /\ L \in Nat
    BY ONLY <1>1, <1>2, <1>3, <1>6, <1>7
  <2> HIDE DEF B, C, M, N, L
  <2>2. B <= k /\ k < C /\ M <= k - B /\ k - B < N
    BY ONLY <2>1, SMT
  <2> QED BY ONLY <2>2 DEF B, C, M, N
<1>9. y = z /\ m = n
  <2> HIDE DEF z, n
  <2>1. InMonth(k, y, m) /\ InMonth(k, z, n)
    BY ONLY <1>3, <1>5, <1>8 DEF InMonth
  <2> QED BY ONLY <1>1, <2>1, DateIsUnique
<1>10. g.day = k - BeforeYear(y) - BeforeMonth(y, m) + 1
  BY ONLY <1>4, <1>9
<1>11. g.day = d
  BY ONLY <1>1, <1>2, <1>3, <1>6, <1>7, <1>10
<1> QED BY ONLY <1>11 DEF d

-----------------------------------------------------------------------------
(* The inductive invariant of the dates.  Three things must be remembered  *)
(* that no property says: a plain or raw header is made of what was sent;  *)
(* so is the header the loader has of the base; and a delta header is made *)
(* of both, of a base that stays while the entry is that delta.            *)

HeaderOf(s) == IF s.kind = "raw" THEN s.header ELSE addHeader(s.header)

DeltaOf(h) == DIFF_2_HDR(HDR_delta(h, base.sent.header), base.header)

Logged(s) == s.kind \in {"raw", "plain"} /\ s.header \in Measured

SentIsMeasured ==
  /\ sent.kind \in {"none", "raw", "plain", "delta", "huff", "unbased"}
  /\ sent.header \in Measured \cup {NoHeader}

EntryIsOfSent ==
  sent.kind \in {"raw", "plain"} => Logged(sent) /\ header = HeaderOf(sent)

BaseIsOfSent ==
  \/ Logged(base.sent) /\ base.header = HeaderOf(base.sent)
  \/ base.sent.kind = "none" /\ base.sent.header = NoHeader /\ base.header = NoHeader

EntryIsOfBase ==
  sent.kind = "delta" =>
    HasBase /\ sent.header \in Measured /\ header = addHeader(DeltaOf(sent.header))

ClockInv ==
  /\ header \in Headers
  /\ SentIsMeasured
  /\ EntryIsOfSent
  /\ BaseIsOfSent
  /\ EntryIsOfBase

(* A header that can be brought to a time and back.                        *)
Datable(h) == IsDate(h) /\ Whole(h) /\ h \in Headers

LEMMA NoHeaderIsHeader == NoHeader \in Headers
BY DEF NoHeader, Headers, Byte

LEMMA MeasuredIsDatable ==
  ASSUME NEW h \in Measured
  PROVE  Datable(h) /\ h.seconds \in 0 .. 59 /\ h.year \in 0 .. 99
<1>1. PICK c \in Clocks, v \in Voltages :
        h = [seconds |-> c.seconds, minutes |-> c.minutes, hours |-> c.hours,
             day |-> c.day, month |-> c.month, year |-> c.year, vcc |-> v.vcc,
             vbat |-> v.vbat]
  BY DEF Measured
<1>2. /\ c.seconds \in 0 .. 59 /\ c.minutes \in 0 .. 59 /\ c.hours \in 0 .. 23
      /\ c.day \in 1 .. 31 /\ c.month \in 1 .. 12 /\ c.year \in 0 .. 99
      /\ v.vcc \in Byte /\ v.vbat \in Byte
  BY ClocksAssumption, VoltagesAssumption
<1>3. /\ h.seconds \in 0 .. 59 /\ h.minutes \in 0 .. 59 /\ h.hours \in 0 .. 23
      /\ h.day \in 1 .. 31 /\ h.month \in 1 .. 12 /\ h.year \in 0 .. 99
      /\ h.vcc \in Byte /\ h.vbat \in Byte
  BY ONLY <1>1, <1>2
<1>4. Whole(h)
  BY MeasuredIsWhole
<1>5. IsDate(h)
  BY ONLY <1>3 DEF IsDate, Byte
<1>6. /\ h.seconds \in Byte /\ h.minutes \in Byte /\ h.hours \in Byte
      /\ h.day \in Byte /\ h.month \in Byte /\ h.year \in Byte
  BY ONLY <1>3 DEF Byte
<1>7. h \in Headers
  BY ONLY <1>3, <1>4, <1>6 DEF Headers, Whole
<1> QED BY ONLY <1>3, <1>4, <1>5, <1>7 DEF Datable

(* addHeader() of such a header is a header, and of a logger's own such a  *)
(* header again: at most the year after.                                   *)
LEMMA AddHeaderIsDatable ==
  ASSUME NEW h, Datable(h), NEW g, g = addHeader(h)
  PROVE  /\ g \in Headers /\ Whole(g) /\ g.seconds \in 0 .. 59
         /\ h.year \in 0 .. 99 => Datable(g)
<1>1. Whole(g)
  BY AddHeaderKeepsVoltages DEF Datable, Whole
<1>2. /\ g.seconds \in 0 .. 59 /\ g.minutes \in 0 .. 59 /\ g.hours \in 0 .. 23
      /\ g.day \in 1 .. 31 /\ g.month \in 1 .. 12
      /\ g.year \in Nat /\ g.year <= h.year + 1
  BY AddHeaderKeepsTime DEF Datable
<1>3. h.year \in 0 .. 100
  BY DEF Datable, IsDate
<1>4. g.year \in 0 .. 101 /\ (h.year \in 0 .. 99 => g.year \in 0 .. 100)
  BY ONLY <1>2, <1>3
<1>5. /\ g.seconds \in Byte /\ g.minutes \in Byte /\ g.hours \in Byte
      /\ g.day \in Byte /\ g.month \in Byte /\ g.year \in Byte
  BY ONLY <1>2, <1>4 DEF Byte
<1>6. g \in Headers
  BY ONLY <1>1, <1>5 DEF Headers, Whole
<1>7. h.year \in 0 .. 99 => IsDate(g)
  BY ONLY <1>2, <1>4, <1>5 DEF IsDate
<1> QED BY ONLY <1>1, <1>2, <1>6, <1>7 DEF Datable

(* The header of a raw or plain measurement.                               *)
LEMMA HeaderOfIsDatable ==
  ASSUME NEW s, Logged(s)
  PROVE  Datable(HeaderOf(s)) /\ HeaderOf(s).seconds \in 0 .. 59
<1>1. Datable(s.header) /\ s.header.seconds \in 0 .. 59 /\ s.header.year \in 0 .. 99
  BY MeasuredIsDatable DEF Logged
<1>2. Datable(addHeader(s.header)) /\ addHeader(s.header).seconds \in 0 .. 59
  BY ONLY <1>1, AddHeaderIsDatable
<1> QED BY ONLY <1>1, <1>2 DEF HeaderOf

(* Differences of signed bytes leave the date of the base a date: only its *)
(* seconds and voltages change, and they stay bytes.                       *)
LEMMA SumIsDatable ==
  ASSUME NEW d \in Diffs, NEW b, Datable(b)
  PROVE  Datable(DIFF_2_HDR(d, b))
<1> DEFINE g == DIFF_2_HDR(d, b)
<1>1. /\ g.seconds = (b.seconds + 2 * d.delta_sec) % 256
      /\ g.vcc = (b.vcc + d.vcc) % 256 /\ g.vbat = (b.vbat + d.vbat) % 256
      /\ g.minutes = b.minutes /\ g.hours = b.hours /\ g.day = b.day
      /\ g.month = b.month /\ g.year = b.year
      /\ g = [seconds |-> g.seconds, minutes |-> g.minutes, hours |-> g.hours,
              day |-> g.day, month |-> g.month, year |-> g.year,
              vcc |-> g.vcc, vbat |-> g.vbat]
  <2> DEFINE x == (b.seconds + 2 * d.delta_sec) % 256
             y == (b.vcc + d.vcc) % 256
             z == (b.vbat + d.vbat) % 256
  <2>1. g = [b EXCEPT !.seconds = x, !.vcc = y, !.vbat = z]
    BY DEF DIFF_2_HDR
  <2> HIDE DEF x, y, z, g
  <2>2. b = [seconds |-> b.seconds, minutes |-> b.minutes, hours |-> b.hours,
             day |-> b.day, month |-> b.month, year |-> b.year,
             vcc |-> b.vcc, vbat |-> b.vbat]
    BY DEF Datable, Whole
  <2>3. g = [seconds |-> x, minutes |-> b.minutes, hours |-> b.hours,
             day |-> b.day, month |-> b.month, year |-> b.year,
             vcc |-> y, vbat |-> z]
    BY ONLY <2>1, <2>2, Zenon
  <2> QED BY ONLY <2>3 DEF x, y, z
<1>2. /\ b.seconds \in Int /\ b.vcc \in Int /\ b.vbat \in Int
      /\ d.delta_sec \in Int /\ d.vcc \in Int /\ d.vbat \in Int
  BY DEF Datable, Headers, Byte, Diffs
<1> HIDE DEF g
<1>3. ASSUME NEW n \in Int
      PROVE  n % 256 \in Byte
  BY ONLY <1>3, SMT DEF Byte
<1>4. /\ b.seconds + 2 * d.delta_sec \in Int
      /\ b.vcc + d.vcc \in Int /\ b.vbat + d.vbat \in Int
  BY ONLY <1>2
<1>5. g.seconds \in Byte /\ g.vcc \in Byte /\ g.vbat \in Byte
  BY ONLY <1>1, <1>3, <1>4
<1>6. IsDate(g)
  BY ONLY Datable(b), <1>1, <1>5 DEF Datable, IsDate
<1>7. Whole(g)
  BY ONLY <1>1, <1>5 DEF Whole
<1>8. /\ g.minutes \in Byte /\ g.hours \in Byte /\ g.day \in Byte
      /\ g.month \in Byte /\ g.year \in Byte
  BY ONLY Datable(b), <1>1 DEF Datable, Headers
<1>9. g \in Headers
  BY ONLY <1>1, <1>5, <1>8 DEF Headers
<1> QED BY ONLY <1>6, <1>7, <1>9 DEF Datable, g

(* The base the loader has, under the invariant.                           *)
LEMMA BaseIsDatable ==
  ASSUME BaseIsOfSent, HasBase
  PROVE  /\ Datable(base.header) /\ base.header.seconds \in 0 .. 59
         /\ Datable(base.sent.header) /\ base.sent.header \in Measured
<1>1. Logged(base.sent) /\ base.header = HeaderOf(base.sent)
  BY DEF BaseIsOfSent, HasBase
<1>2. base.sent.header \in Measured
  BY <1>1 DEF Logged
<1> QED BY <1>1, <1>2, HeaderOfIsDatable, MeasuredIsDatable

LEMMA DeltaIsDatable ==
  ASSUME BaseIsOfSent, HasBase, NEW h \in Measured
  PROVE  Datable(DeltaOf(h)) /\ HDR_delta(h, base.sent.header) \in Diffs
<1>1. Datable(h) /\ Datable(base.sent.header) /\ Datable(base.header)
  BY BaseIsDatable, MeasuredIsDatable
<1>2. HDR_delta(h, base.sent.header) \in Diffs
  BY ONLY <1>1, DifferenceIsSmall DEF Datable
<1> QED BY ONLY <1>1, <1>2, SumIsDatable DEF DeltaOf

-----------------------------------------------------------------------------
LEMMA ClockInit == Init => ClockInv
BY NoHeaderIsHeader
   DEF Init, Nothing, NoBase, HasBase, ClockInv, SentIsMeasured, EntryIsOfSent,
       BaseIsOfSent, EntryIsOfBase

(* A step that sets the entry and leaves the base alone keeps what is      *)
(* known of the base.                                                      *)
LEMMA BaseStays ==
  ASSUME BaseIsOfSent, UNCHANGED base
  PROVE  BaseIsOfSent'
BY DEF BaseIsOfSent, Logged, HeaderOf

LEMMA ClockStep == ClockInv /\ [Next]_vars => ClockInv'
<1> SUFFICES ASSUME ClockInv, [Next]_vars
             PROVE  ClockInv'
  OBVIOUS
<1> USE DEF ClockInv
<1>1. ASSUME NEW h \in Measured, PutRaw(h)
      PROVE  ClockInv'
  <2>1. header' = h /\ sent' = [kind |-> "raw", header |-> h] /\ UNCHANGED base
    BY <1>1 DEF PutRaw
  <2>2. h \in Headers
    BY MeasuredIsDatable DEF Datable
  <2>3. SentIsMeasured' /\ EntryIsOfSent' /\ EntryIsOfBase'
    BY <2>1 DEF SentIsMeasured, EntryIsOfSent, EntryIsOfBase, Logged, HeaderOf
  <2> QED BY <2>1, <2>2, <2>3, BaseStays
<1>2. ASSUME NEW h \in Measured, PutPlain(h)
      PROVE  ClockInv'
  <2>1. /\ header' = addHeader(h) /\ sent' = [kind |-> "plain", header |-> h]
        /\ UNCHANGED base
    BY <1>2 DEF PutPlain
  <2>2. addHeader(h) \in Headers
    BY MeasuredIsDatable, AddHeaderIsDatable
  <2>3. SentIsMeasured' /\ EntryIsOfSent' /\ EntryIsOfBase'
    BY <2>1 DEF SentIsMeasured, EntryIsOfSent, EntryIsOfBase, Logged, HeaderOf
  <2> QED BY <2>1, <2>2, <2>3, BaseStays
<1>3. ASSUME NEW h \in Measured, PutDelta(h)
      PROVE  ClockInv'
  <2>1. /\ HasBase
        /\ header' = addHeader(DeltaOf(h)) /\ sent' = [kind |-> "delta", header |-> h]
        /\ UNCHANGED base
    BY <1>3 DEF PutDelta, DeltaOf
  <2>2. addHeader(DeltaOf(h)) \in Headers
    BY <2>1, DeltaIsDatable, AddHeaderIsDatable
  <2>3. SentIsMeasured' /\ EntryIsOfSent'
    BY <2>1 DEF SentIsMeasured, EntryIsOfSent
  <2>4. EntryIsOfBase'
    BY <2>1 DEF EntryIsOfBase, HasBase, DeltaOf
  <2> QED BY <2>1, <2>2, <2>3, <2>4, BaseStays
<1>4. ASSUME NEW h \in Measured, PutHuff(h)
      PROVE  ClockInv'
  <2>1. PICK diff \in FreedDiffs \cup {HDR_delta(h, base.sent.header)} :
          header' = addHeader(DIFF_2_HDR(diff, base.header))
    BY <1>4 DEF PutHuff
  <2>2. HasBase /\ sent' = [kind |-> "huff", header |-> h] /\ UNCHANGED base
    BY <1>4 DEF PutHuff
  <2>3. diff \in Diffs
    BY <2>1, <2>2, DeltaIsDatable, FreedDiffsAssumption
  <2>4. Datable(DIFF_2_HDR(diff, base.header))
    BY <2>2, <2>3, BaseIsDatable, SumIsDatable
  <2>5. header' \in Headers
    BY <2>1, <2>4, AddHeaderIsDatable
  <2>6. SentIsMeasured' /\ EntryIsOfSent' /\ EntryIsOfBase'
    BY <2>2 DEF SentIsMeasured, EntryIsOfSent, EntryIsOfBase
  <2> QED BY <2>2, <2>5, <2>6, BaseStays
<1>5. ASSUME NEW h \in Measured, PutWithoutBase(h)
      PROVE  ClockInv'
  <2>1. sent' = [kind |-> "unbased", header |-> h] /\ UNCHANGED <<header, base>>
    BY <1>5 DEF PutWithoutBase
  <2>2. SentIsMeasured' /\ EntryIsOfSent' /\ EntryIsOfBase'
    BY <2>1 DEF SentIsMeasured, EntryIsOfSent, EntryIsOfBase
  <2> QED BY <2>1, <2>2, BaseStays
<1>6. CASE SaveAsBase
  <2>1. /\ sent.kind \in {"raw", "plain"} /\ base' = [header |-> header, sent |-> sent]
        /\ UNCHANGED <<header, sent>>
    BY <1>6 DEF SaveAsBase
  <2>2. SentIsMeasured' /\ EntryIsOfSent' /\ EntryIsOfBase'
    BY <2>1 DEF SentIsMeasured, EntryIsOfSent, EntryIsOfBase, Logged, HeaderOf
  <2>3. BaseIsOfSent'
    BY <2>1 DEF EntryIsOfSent, BaseIsOfSent, Logged, HeaderOf
  <2> QED BY <2>1, <2>2, <2>3
<1>7. CASE Remove
  <2>1. header' = NoHeader /\ sent' = Nothing /\ UNCHANGED base
    BY <1>7 DEF Remove
  <2>2. SentIsMeasured' /\ EntryIsOfSent' /\ EntryIsOfBase'
    BY <2>1 DEF SentIsMeasured, EntryIsOfSent, EntryIsOfBase, Nothing
  <2> QED BY <2>1, <2>2, NoHeaderIsHeader, BaseStays
<1>8. CASE UNCHANGED vars
  <2>1. UNCHANGED <<header, sent, base>>
    BY <1>8 DEF vars
  <2>2. SentIsMeasured' /\ EntryIsOfSent' /\ EntryIsOfBase'
    BY <2>1 DEF SentIsMeasured, EntryIsOfSent, EntryIsOfBase, Logged, HeaderOf,
                HasBase, DeltaOf
  <2> QED BY <2>1, <2>2, BaseStays
<1> QED BY <1>1, <1>2, <1>3, <1>4, <1>5, <1>6, <1>7, <1>8 DEF Next

LEMMA ClockInvariant == Spec => []ClockInv
BY ClockInit, ClockStep, PTL DEF Spec

(* The headers stay headers: no conversion leaves a byte, whatever the     *)
(* date is and whatever a freed string is read as.                         *)
THEOREM HeadersAreTyped == Spec => []TypeOK
<1>1. ClockInv => TypeOK
  <2> SUFFICES ASSUME ClockInv
               PROVE  TypeOK
    OBVIOUS
  <2>1. CASE base.sent.kind = "none"
    BY <2>1, NoHeaderIsHeader
       DEF ClockInv, SentIsMeasured, BaseIsOfSent, Logged, TypeOK
  <2>2. CASE HasBase
    <3>1. base.header \in Headers /\ base.sent.header \in Measured
      BY <2>2, BaseIsDatable DEF ClockInv, Datable
    <3>2. base.sent.kind \in {"raw", "plain"}
      BY <2>2 DEF ClockInv, BaseIsOfSent, Logged, HasBase
    <3> QED BY <3>1, <3>2 DEF ClockInv, SentIsMeasured, TypeOK
  <2> QED BY <2>1, <2>2 DEF HasBase
<1> QED BY <1>1, ClockInvariant, PTL

(* What measured() makes of a header of the logger: its own time of day.   *)
LEMMA TimeOfDayIsKept ==
  ASSUME NEW h, IsDate(h)
  PROVE  /\ TimeOf(h).second = Shifted(h).second
         /\ measured(h).second = TimeOf(h).second
<1>1. h.year \in 0 .. 100 /\ h.month \in 1 .. 12
  BY DEF IsDate
<1>2. PICK k \in Int : CountedFrom(Shifted(h), k, h)
  BY <1>1, TimesAreCounted
<1>3. PICK l \in Int : CountedFrom(TimeOf(h), l, h)
  BY <1>1, TimesAreCounted
<1>4. (h.month - 1) % 256 = h.month - 1
  BY ONLY <1>1, SMT
<1>5. measured(h) = TimeOf(h)
  BY ONLY <1>4 DEF measured, TimeOf, logger2time
<1> QED BY ONLY <1>2, <1>3, <1>5 DEF CountedFrom

(* The clock of a raw or plain measurement comes back, its time of day     *)
(* always and its day where every month has one: the month put() adds when *)
(* it files the header is the one measured() takes off.                    *)
THEOREM ClockComesBack == Spec => []ClockIsKept
<1>1. ClockInv => ClockIsKept
  <2> SUFFICES ASSUME ClockInv, sent.kind \in {"raw", "plain"}
               PROVE  /\ measured(header).second = TimeOf(sent.header).second
                      /\ sent.header.day <= 28 => header.day = sent.header.day
    BY DEF ClockIsKept
  <2>1. header = HeaderOf(sent) /\ sent.header \in Measured
    BY DEF ClockInv, EntryIsOfSent, Logged
  <2>2. IsDate(sent.header) /\ sent.header.seconds \in 0 .. 59
    BY <2>1, MeasuredIsDatable DEF Datable
  <2>3. CASE sent.kind = "raw"
    BY <2>1, <2>2, <2>3, TimeOfDayIsKept DEF HeaderOf
  <2>4. CASE sent.kind = "plain"
    <3>1. header = addHeader(sent.header)
      BY <2>1, <2>4 DEF HeaderOf
    <3>2. measured(header) = Shifted(sent.header)
      BY ONLY <2>2, <3>1, AddHeaderKeepsTime
    <3>3. sent.header.day <= 28 => header.day = sent.header.day
      BY ONLY <2>2, <3>1, EarlyDayStays
    <3> QED BY ONLY <2>2, <3>2, <3>3, TimeOfDayIsKept
  <2> QED BY <2>3, <2>4
<1> QED BY <1>1, ClockInvariant, PTL

(* Plain measurements of one month keep their order: the month both are    *)
(* shifted by moves their times by the same number of days.                *)
THEOREM PlainKeepsOrder == Spec => LaterIsLater
<1>1. ASSUME ClockInv, ClockInv', sent.kind = "plain", sent'.kind = "plain",
             SameMonth(sent'.header, sent.header),
             After(TimeOf(sent'.header), TimeOf(sent.header))
      PROVE  After(measured(header'), measured(header))
  <2>1. /\ header = addHeader(sent.header) /\ sent.header \in Measured
        /\ header' = addHeader(sent'.header) /\ sent'.header \in Measured
    BY <1>1 DEF ClockInv, EntryIsOfSent, Logged, HeaderOf
  <2>2. IsDate(sent.header) /\ IsDate(sent'.header)
    BY <2>1, MeasuredIsDatable DEF Datable
  <2>3. /\ measured(header) = Shifted(sent.header)
        /\ measured(header') = Shifted(sent'.header)
    BY ONLY <2>1, <2>2, AddHeaderKeepsTime
  <2> QED BY ONLY <1>1, <2>2, <2>3, MonthKeepsOrder
<1>2. ClockInv /\ ClockInv' =>
        [ /\ sent.kind = "plain" /\ sent'.kind = "plain"
          /\ SameMonth(sent'.header, sent.header)
          /\ After(TimeOf(sent'.header), TimeOf(sent.header))
          => After(measured(header'), measured(header)) ]_vars
  BY <1>1
<1> QED BY <1>2, ClockInvariant, PTL DEF LaterIsLater

(* Delta measurements keep their order as well, within 98 seconds of their *)
(* base: there the differences are what the logger measured, in spite of   *)
(* int8_t, and twice the greater one is more, in spite of uint8_t.         *)
THEOREM DeltaKeepsOrder == Spec => DeltasKeepOrder
<1> DEFINE b == base.sent.header
<1>1. ASSUME ClockInv, ClockInv', [Next]_vars, sent.kind = "delta",
             SoonAfter(sent.header, b), sent'.kind = "delta",
             SoonAfter(sent'.header, b),
             After(TimeOf(sent'.header), TimeOf(sent.header))
      PROVE  After(measured(header'), measured(header))
  <2> DEFINE h == sent.header  g == sent'.header  c == base.header
             d == HDR_delta(h, b)  e == HDR_delta(g, b)
  <2>1. base' = base
    BY <1>1 DEF Next, PutRaw, PutPlain, PutDelta, PutHuff, PutWithoutBase,
                SaveAsBase, Remove, vars
  <2>2. /\ HasBase /\ h \in Measured /\ header = addHeader(DIFF_2_HDR(d, c))
        /\ g \in Measured /\ header' = addHeader(DIFF_2_HDR(e, c))
    BY <1>1, <2>1 DEF ClockInv, EntryIsOfBase, DeltaOf
  <2>3. Datable(c) /\ c.seconds \in 0 .. 59 /\ Datable(b) /\ Datable(h) /\ Datable(g)
    BY <1>1, <2>2, BaseIsDatable, MeasuredIsDatable DEF ClockInv
  <2>4. d \in Diffs /\ e \in Diffs
    BY ONLY <2>3, DifferenceIsSmall DEF Datable
  <2>5. IsDate(DIFF_2_HDR(d, c)) /\ IsDate(DIFF_2_HDR(e, c))
    BY ONLY <2>3, <2>4, SumIsDatable DEF Datable
  <2>6. /\ d.delta_sec = Apart(TimeOf(h), TimeOf(b))
        /\ e.delta_sec = Apart(TimeOf(g), TimeOf(b))
        /\ d.delta_sec \in 0 .. LongestDelta /\ e.delta_sec \in 0 .. LongestDelta
    BY ONLY <1>1, <2>3, DifferenceIsElapsed DEF Datable
  <2>7. Apart(TimeOf(h), TimeOf(b)) < Apart(TimeOf(g), TimeOf(b))
    BY ONLY <1>1, <2>3, LaterIsFarther DEF Datable
  <2>8. After(Shifted(DIFF_2_HDR(e, c)), Shifted(DIFF_2_HDR(d, c)))
    BY ONLY <2>3, <2>6, <2>7, MoreIsLater DEF Datable
  <2>9. /\ measured(header) = Shifted(DIFF_2_HDR(d, c))
        /\ measured(header') = Shifted(DIFF_2_HDR(e, c))
    BY ONLY <2>2, <2>5, AddHeaderKeepsTime
  <2> QED BY ONLY <2>8, <2>9
<1>2. ClockInv /\ ClockInv' /\ [Next]_vars =>
        [ /\ sent.kind = "delta" /\ SoonAfter(sent.header, base.sent.header)
          /\ sent'.kind = "delta" /\ SoonAfter(sent'.header, base.sent.header)
          /\ After(TimeOf(sent'.header), TimeOf(sent.header))
          => After(measured(header'), measured(header)) ]_vars
  BY <1>1
<1> QED BY <1>2, ClockInvariant, PTL DEF DeltasKeepOrder, Spec
=============================================================================
