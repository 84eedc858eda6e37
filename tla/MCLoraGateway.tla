--------------------------- MODULE MCLoraGateway ---------------------------
(***************************************************************************)
(* Small radio traffic for LoraGateway.  Years are small numbers: only     *)
(* equality and the values 0 and 255 matter to the code.                   *)
(***************************************************************************)
EXTENDS LoraGateway

(* A plain (0x4a, 0x4b) measurement of n frames.                           *)
Plain(addr, kosa, year, measure, n) ==
  [i \in 1 .. n |->
     [typ |-> IF i = 1 THEN "PKT_1" ELSE "PKT_2", addr |-> addr, kosa |-> kosa,
      kosa_year |-> year, measure |-> measure, packet |-> i, packets |-> n]]

NoTraffic == {}
NoBase == [a \in {} |-> 0]
AnyYear == {0, 255}

TwoLoggers ==
  [a \in {1, 2} |-> IF a = 1 THEN Plain(1, 28, 21, 2, 2) ELSE Plain(2, 29, 19, 7, 2)]
=============================================================================
