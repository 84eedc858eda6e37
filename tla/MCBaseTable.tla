---------------------------- MODULE MCBaseTable ----------------------------
(* The traffic of MCLoraGateway and the database.                          *)
EXTENDS BaseTable

Base(measure, n) ==
  [i \in 1 .. n |->
     [typ |-> IF i = 1 THEN "PKT_1" ELSE "PKT_2", addr |-> 1, kosa |-> 28,
      kosa_year |-> 21, measure |-> measure, packet |-> i, packets |-> n]]

NoTraffic == {}

(* The loader knows the plume from an earlier base measurement.            *)
KnownPlume == [a \in {1} |-> [kosa |-> 28, kosa_year |-> 21, measure |-> 1]]
AnyYear == {0, 255}

OneLoggerOfFour == [a \in {1} |-> Base(2, 4)]
OneLoggerOfTwo == [a \in {1} |-> Base(2, 2)]
NoneOrTwo == {0, 2}
=============================================================================
