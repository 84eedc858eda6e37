------------------------- MODULE MeasurementHeader -------------------------
(***************************************************************************)
(* When a measurement was taken, and at which voltages: the way of a       *)
(* LOGGER_MEASUREMENT_HDR from the logger's frame to the entry of its      *)
(* plume and to measured(), the value of the "measured" column.            *)
(*                                                                         *)
(* A plain or raw frame carries the header itself.  The first frame of a   *)
(* delta measurement carries its differences (LOGGER_MEASUREMENT_HDR_DIFF) *)
(* from the header of the base measurement, which the loader gives.  The   *)
(* module follows the entry of one plume; who matches frames with entries  *)
(* is the matter of LoggerKosaCollector.                                   *)
(*                                                                         *)
(* A time_t is a day since 1 January 2000 and a second of that day, so     *)
(* that no number leaves 32 bits.  The time zone has no summer time.       *)
(***************************************************************************)
EXTENDS Integers, FiniteSets

CONSTANTS
  Clocks,    (* Times loggers measure at: [seconds, ..., year].            *)
  Voltages,  (* What they measure then: [vcc, vbat].                       *)
  FreedDiffs (* What the freed string of a Huffman header can read as.     *)

VARIABLES
  header,  (* LoggerKosaPackets::measurementHeader of the entry            *)
  sent,    (* history: the measurement last received                       *)
  base     (* the base plume of the loader, and what its logger had sent   *)

vars == <<header, sent, base>>

Byte == 0 .. 255
int8(n) == ((n + 128) % 256) - 128

Headers == [seconds : Byte, minutes : Byte, hours : Byte, day : Byte,
            month : Byte, year : Byte, vcc : Byte, vbat : Byte]
Diffs == [delta_sec : -128 .. 127, vcc : -128 .. 127, vbat : -128 .. 127]

ASSUME ClocksAssumption ==
  Clocks \subseteq [seconds : 0 .. 59, minutes : 0 .. 59, hours : 0 .. 23,
                    day : 1 .. 31, month : 1 .. 12, year : 0 .. 99]
ASSUME VoltagesAssumption == Voltages \subseteq [vcc : Byte, vbat : Byte]
ASSUME FreedDiffsAssumption == FreedDiffs \subseteq Diffs

(* What a logger can send.                                                 *)
Measured ==
  {[seconds |-> c.seconds, minutes |-> c.minutes, hours |-> c.hours,
    day |-> c.day, month |-> c.month, year |-> c.year, vcc |-> v.vcc,
    vbat |-> v.vbat] : c \in Clocks, v \in Voltages}

(* clear_LOGGER_MEASUREMENT_HDR()                                          *)
NoHeader == [seconds |-> 0, minutes |-> 0, hours |-> 0, day |-> 0, month |-> 0,
             year |-> 0, vcc |-> 0, vbat |-> 0]

-----------------------------------------------------------------------------
(* The calendar of mktime() and localtime().  Years count from 2000; the   *)
(* year 2100 is no leap year.  Months count from 0, as in struct tm.       *)

Leap(year) == year % 4 = 0 /\ year # 100

(* The days of a common year before each month, and those of the year.     *)
MonthStart == <<0, 31, 59, 90, 120, 151, 181, 212, 243, 273, 304, 334, 365>>

BeforeMonth(year, mon) ==
  MonthStart[mon + 1] + (IF mon > 1 /\ Leap(year) THEN 1 ELSE 0)

BeforeYear(year) ==
  365 * year + (year + 3) \div 4 - (IF year > 100 THEN 1 ELSE 0)

(* A day past the end of its month, a month past December and a second     *)
(* past the minute carry over.                                             *)
mktime(tm) ==
  LET year == tm.year + tm.mon \div 12
      ofday == tm.sec + 60 * (tm.min + 60 * tm.hour)
  IN  [day |-> BeforeYear(year) + BeforeMonth(year, tm.mon % 12) + tm.mday - 1
                 + ofday \div 86400,
       second |-> ofday % 86400]

YearOf(day) ==
  CHOOSE y \in (day \div 366) .. (day \div 365) :
    BeforeYear(y) <= day /\ day < BeforeYear(y + 1)

MonthOf(year, yday) ==
  CHOOSE m \in 0 .. 11 :
    BeforeMonth(year, m) <= yday /\ yday < BeforeMonth(year, m + 1)

localtime(time) ==
  LET year == YearOf(time.day)
      yday == time.day - BeforeYear(year)
      mon  == MonthOf(year, yday)
  IN  [sec |-> time.second % 60, min |-> (time.second \div 60) % 60,
       hour |-> time.second \div 3600, mday |-> yday - BeforeMonth(year, mon) + 1,
       mon |-> mon, year |-> year]

NotBefore(t, u) == t.day > u.day \/ (t.day = u.day /\ t.second >= u.second)
After(t, u) == ~NotBefore(u, t)

(* The time the logger measured at.                                        *)
TimeOf(h) ==
  mktime([sec |-> h.seconds, min |-> h.minutes, hour |-> h.hours,
          mday |-> h.day, mon |-> h.month - 1, year |-> h.year])

-----------------------------------------------------------------------------
(* The conversions.                                                        *)

(* Mutant: the day is held back, so that no month carries over.            *)
logger2timeClamped(year2000, month, date, hours, minutes, seconds) ==
  mktime([sec |-> seconds, min |-> minutes, hour |-> hours,
          mday |-> IF date > 28 THEN 28 ELSE date, mon |-> month,
          year |-> year2000])

(* logger2time(): month goes to tm_mon as it is.                           *)
logger2time(year2000, month, date, hours, minutes, seconds) ==
  mktime([sec |-> seconds, min |-> minutes, hour |-> hours,
          mday |-> date, mon |-> month, year |-> year2000])

(* LOGGER_MEASUREMENT_HDR2time_t(): a hundred years late, and a month.     *)
HDR2time_t(h) ==
  mktime([sec |-> h.seconds, min |-> h.minutes, hour |-> h.hours,
          mday |-> h.day, mon |-> h.month, year |-> h.year + 100])

(* Mutant: a voltage is sent as it is, like used.                          *)
HDR_deltaWhole(h1, h0) ==
  LET t1 == HDR2time_t(h1)
      t0 == HDR2time_t(h0)
  IN  [delta_sec |-> int8(86400 * (t1.day - t0.day) + t1.second - t0.second),
       vcc |-> int8(h1.vcc), vbat |-> int8(h1.vbat - h0.vbat)]

(* LOGGER_MEASUREMENT_HDR_delta(): a difference is cut to int8_t.          *)
HDR_delta(h1, h0) ==
  LET t1 == HDR2time_t(h1)
      t0 == HDR2time_t(h0)
  IN  [delta_sec |-> int8(86400 * (t1.day - t0.day) + t1.second - t0.second),
       vcc |-> int8(h1.vcc - h0.vcc), vbat |-> int8(h1.vbat - h0.vbat)]

(* Mutant: the voltages grow beyond a byte.                                *)
DIFF_2_HDRWide(diff, h) ==
  [h EXCEPT !.seconds = (@ + 2 * diff.delta_sec) % 256,
            !.vcc = @ + diff.vcc,
            !.vbat = @ + diff.vbat]

(* Mutant: the seconds are subtracted.                                     *)
DIFF_2_HDRBack(diff, h) ==
  [h EXCEPT !.seconds = (@ - 2 * diff.delta_sec) % 256,
            !.vcc = (@ + diff.vcc) % 256,
            !.vbat = (@ + diff.vbat) % 256]

(* LOGGER_MEASUREMENT_HDR_DIFF_2_LOGGER_MEASUREMENT_HDR(): delta_sec is    *)
(* added to seconds twice, and seconds is a byte.                          *)
DIFF_2_HDR(diff, h) ==
  [h EXCEPT !.seconds = (@ + 2 * diff.delta_sec) % 256,
            !.vcc = (@ + diff.vcc) % 256,
            !.vbat = (@ + diff.vbat) % 256]

(* Mutant: minutes and hours change places.                                *)
setHdrSwapped(h) ==
  [start |-> logger2time(h.year, h.month, h.day, h.minutes, h.hours, h.seconds),
   vcc |-> h.vcc, vbat |-> h.vbat]

(* LoggerMeasurementHeader::setHdr()                                       *)
setHdr(h) ==
  [start |-> logger2time(h.year, h.month, h.day, h.hours, h.minutes, h.seconds),
   vcc |-> h.vcc, vbat |-> h.vbat]

(* LoggerMeasurementHeader::assign()                                       *)
assign(v) ==
  LET ti == localtime(v.start)
  IN  [seconds |-> ti.sec, minutes |-> ti.min, hours |-> ti.hour,
       day |-> ti.mday, month |-> ti.mon + 1, year |-> ti.year % 256,
       vcc |-> v.vcc, vbat |-> v.vbat]

(* LoggerKosaCollector::addHeader(), which put() calls for every header    *)
(* of the frames after it has filed them.                                  *)
addHeader(h) == assign(setHdr(h))

(* LoggerKosaPackets::measured(): month - 1 is passed as a byte.           *)
measured(h) ==
  logger2time(h.year, (h.month - 1) % 256, h.day, h.hours, h.minutes, h.seconds)

-----------------------------------------------------------------------------
(* What happens to the entry.                                              *)

Nothing == [kind |-> "none", header |-> NoHeader]
NoBase == [header |-> NoHeader, sent |-> Nothing]

Init ==
  /\ header = NoHeader
  /\ sent = Nothing
  /\ base = NoBase

(* A raw measurement: LoggerKosaPackets::add() copies the header as it is, *)
(* and put1() is not called.                                               *)
PutRaw(h) ==
  /\ header' = h
  /\ sent' = [kind |-> "raw", header |-> h]
  /\ UNCHANGED base

(* The first frame of a plain measurement: add() copies the header, then   *)
(* addHeader() overwrites it.                                              *)
PutPlain(h) ==
  /\ header' = addHeader(h)
  /\ sent' = [kind |-> "plain", header |-> h]
  /\ UNCHANGED base

HasBase == base.sent.kind # "none"

(* The first frame of a delta measurement taken at h, when the loader has  *)
(* the base measurement.  The logger knows its own header of the base.     *)
PutDelta(h) ==
  /\ HasBase
  /\ header' = addHeader(DIFF_2_HDR(HDR_delta(h, base.sent.header), base.header))
  /\ sent' = [kind |-> "delta", header |-> h]
  /\ UNCHANGED base

(* The same of a Huffman measurement.  The differences are read from the   *)
(* decompressed string s after its block has ended.                        *)
PutHuff(h) ==
  /\ HasBase
  /\ \E diff \in FreedDiffs \cup {HDR_delta(h, base.sent.header)} :
       header' = addHeader(DIFF_2_HDR(diff, base.header))
  /\ sent' = [kind |-> "huff", header |-> h]
  /\ UNCHANGED base

(* The loader has no base measurement: the header stays what it was.       *)
PutWithoutBase(h) ==
  /\ ~HasBase
  /\ sent' = [kind |-> "unbased", header |-> h]
  /\ UNCHANGED <<header, base>>

(* The plume in memory becomes the one the loader gives.                   *)
SaveAsBase ==
  /\ sent.kind \in {"raw", "plain"}
  /\ base' = [header |-> header, sent |-> sent]
  /\ UNCHANGED <<header, sent>>

(* The entry is removed; the next frame finds a new one.                   *)
Remove ==
  /\ sent.kind # "none"
  /\ header' = NoHeader
  /\ sent' = Nothing
  /\ UNCHANGED base

Next ==
  \/ \E h \in Measured :
       \/ PutRaw(h)
       \/ PutPlain(h)
       \/ PutDelta(h)
       \/ PutHuff(h)
       \/ PutWithoutBase(h)
  \/ SaveAsBase
  \/ Remove

Spec == Init /\ [][Next]_vars

-----------------------------------------------------------------------------
(* Properties.                                                             *)

(* The type invariant.                                                     *)
TypeOK ==
  /\ header \in Headers
  /\ sent.kind \in {"none", "raw", "plain", "delta", "huff", "unbased"}
  /\ sent.header \in Measured \cup {NoHeader}
  /\ base.header \in Headers
  /\ base.sent.kind \in {"none", "raw", "plain"}
  /\ base.sent.header \in Measured \cup {NoHeader}

(* The voltages of the row are those the logger measured, also where they  *)
(* travel as differences from a base measurement and wrap on the way.      *)
VoltagesAreMeasured ==
  sent.kind \in {"raw", "plain", "delta"} =>
    header.vcc = sent.header.vcc /\ header.vbat = sent.header.vbat

(* A plain header goes through mktime() and localtime() with a month that  *)
(* is one too large.  Its time of day comes back nevertheless, and so does *)
(* its day where every month has such a day.                               *)
ClockIsKept ==
  sent.kind \in {"raw", "plain"} =>
    /\ measured(header).second = TimeOf(sent.header).second
    /\ sent.header.day <= 28 => header.day = sent.header.day

(* A delta measurement taken at most this long after its base keeps its    *)
(* seconds within a byte: 59 + 2 * 98 = 255.                               *)
LongestDelta == 98

SameMonth(h, b) == h.month = b.month /\ h.year = b.year

SoonAfter(h, b) ==
  LET t == TimeOf(h)
      u == TimeOf(b)
  IN  /\ SameMonth(h, b)
      /\ 86400 * (t.day - u.day) + t.second - u.second \in 0 .. LongestDelta

(* Of two delta measurements taken soon after their base, the one taken    *)
(* later is dated later, although the difference is cut to eight bits and  *)
(* added twice, to a header whose month may have been shifted before.      *)
DeltasKeepOrder ==
  [][ /\ sent.kind = "delta" /\ SoonAfter(sent.header, base.sent.header)
      /\ sent'.kind = "delta" /\ SoonAfter(sent'.header, base.sent.header)
      /\ After(TimeOf(sent'.header), TimeOf(sent.header))
      => After(measured(header'), measured(header)) ]_vars

(* Of two plain measurements of one month, the one taken later is dated    *)
(* later, although both dates are wrong and a day may carry over.          *)
LaterIsLater ==
  [][ /\ sent.kind = "plain" /\ sent'.kind = "plain"
      /\ SameMonth(sent'.header, sent.header)
      /\ After(TimeOf(sent'.header), TimeOf(sent.header))
      => After(measured(header'), measured(header)) ]_vars

(* The "measured" column is the "measurement time" (README.md:318).        *)
MeasuredIsTime ==
  sent.kind = "plain" => measured(header) = TimeOf(sent.header)
=============================================================================
