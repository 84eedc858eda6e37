------------------------ MODULE MCMeasurementHeader ------------------------
(***************************************************************************)
(* Dates at the ends of months and years, a leap day among them, and       *)
(* seconds that carry over: 15:18:37 is LongestDelta after a base at 59.   *)
(***************************************************************************)
EXTENDS MeasurementHeader

At(year, month, day, hours, minutes, seconds) ==
  [seconds |-> seconds, minutes |-> minutes, hours |-> hours, day |-> day,
   month |-> month, year |-> year]

Dates ==
  {At(22, 2, 22, 15, 16, 59), At(22, 2, 22, 15, 17, 6), At(22, 2, 22, 15, 18, 37),
   At(22, 1, 31, 23, 59, 59), At(22, 1, 31, 23, 58, 21), At(22, 1, 31, 23, 59, 0), At(22, 2, 1, 0, 0, 9),
   At(24, 1, 29, 6, 0, 0), At(24, 1, 30, 0, 0, 0),
   At(20, 12, 31, 23, 59, 30), At(21, 1, 1, 0, 0, 10)}

TwoVoltages == {[vcc |-> 10, vbat |-> 250], [vcc |-> 250, vbat |-> 9]}

Garbage == {[delta_sec |-> -128, vcc |-> 127, vbat |-> -1],
            [delta_sec |-> 127, vcc |-> 0, vbat |-> 0]}
=============================================================================
