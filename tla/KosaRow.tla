------------------------------ MODULE KosaRow ------------------------------
(***************************************************************************)
(* The row a plume becomes in the database: LoggerKosaPackets::toStrings() *)
(* writes the sensors' values as lists, where the place of a value is all  *)
(* that says which sensor it is of.  What separates the values, and how    *)
(* one is written, is left out.                                            *)
(***************************************************************************)
EXTENDS LoggerItem

NoValue == <<>>  (* substEmptyValue                                        *)

(* Mutant: the values printed before are not taken off.                    *)
EntryNoCount(r, s) ==
  IF s \notin DOMAIN r THEN <<>> ELSE [i \in 1 .. s |-> NoValue] \o <<r[s]>>

(* What the loop prints of sensor s, when c values have been printed: what *)
(* its number exceeds c by is taken for the number of sensors missed.      *)
Entry(r, s) ==
  LET c == Cardinality({u \in DOMAIN r : u < s})
  IN  IF s \notin DOMAIN r THEN <<>>
      ELSE [i \in 1 .. s - c |-> NoValue] \o <<r[s]>>

(* The loop temperatureCommaString() and valueCommaString() share.  "map   *)
(* is sorted by the first": sensors ascend.                                *)
CommaString(r) ==
  LET end == Max({0} \cup {s + 1 : s \in DOMAIN r})
  IN  FlattenSeq([i \in 1 .. end |-> Entry(r, i - 1)])

(* The columns t, raw and th; tp is t when no passport corrects it.        *)
toStrings == [t   |-> CommaString(getTemperature),
              raw |-> items,
              th  |-> CommaString(get)]

-----------------------------------------------------------------------------
(* Properties.                                                             *)

(* Sensor s of r is where a reader of the list looks for it.               *)
InPlace(list, r, s) == s < Len(list) /\ list[s + 1] = r[s]

(* At most one run of sensors is missed before sensor s.                   *)
FollowsOneGap(r, s) ==
  \E t \in 0 .. s : \A u \in 0 .. s - 1 : u \in DOMAIN r <=> u < t

(* Frames that are missing must not shift the sensors of a row: up to the  *)
(* first value after the first gap each value of th stands at the place of *)
(* the sensor that measured it.                                            *)
RowIsInPlace ==
  LET measured == get
      list == toStrings.th
  IN  Readable =>
        \A s \in DOMAIN measured :
          FollowsOneGap(measured, s) =>
            /\ InPlace(list, measured, s)
            /\ TEMPERATURE_2_BYTES_2_double(list[s + 1]) = temperature[s + 1]

(* "substitute substEmptyValue string if sensor has no value"              *)
(* (logger-collection.h:303): every value of t is at its sensor's place.   *)
(* The code does not keep it: README.md, other disagreements.              *)
MissedAreSubstituted ==
  LET measured == getTemperature
      list == toStrings.t
  IN  \A s \in DOMAIN measured : InPlace(list, measured, s)
=============================================================================
