---------------------------- MODULE MCLoggerItem ----------------------------
(***************************************************************************)
(* Measurements whose temperatures all differ, so that a value that is     *)
(* read for another sensor shows, with differences of one byte and of two. *)
(***************************************************************************)
EXTENDS KosaRow

(* n sensors that measure from sixteenths more, and i times step, than the *)
(* base, which falls by one from sensor to sensor.                         *)
Ramp(kind, swaps, n, from, step) ==
  LET base == [i \in 1 .. n |-> 160 - i]
  IN  [kind |-> kind, hostSwaps |-> swaps, base |-> base,
       temperature |-> [i \in 1 .. n |-> base[i] + from + i * step]]

Ramps(kind, ns, froms, steps) ==
  {Ramp(kind, TRUE, n, f, s) : n \in ns, f \in froms, s \in steps}

(* The other build.                                                        *)
Unswapped(ms) == {[m EXCEPT !.hostSwaps = FALSE] : m \in ms}

PlainMeasurements == Ramps("plain", 0 .. 17 \cup {20}, {0, -300}, {0, 7})

(* A full first frame, and no difference of exactly eight bits.            *)
DeltaMeasurements ==
  Ramps("delta", 6 .. 28, {0, -20}, {0, 1})
    \cup Ramps("delta", 3 .. 28, {300, -1500}, {0, 40})

(* No number of sensors that leaves one byte over for the last frame.      *)
HuffmanMeasurements ==
  Ramps("huffman", 0 .. 28, {0}, {0})
    \cup Ramps("huffman", {4, 8, 12, 16, 24, 28}, {0, -20}, {0, 1, -3})
    \cup Ramps("huffman", 1 .. 14, {300}, {0, 11})

(* Two frames of two-byte differences.                                     *)
WideMeasurements == Ramps("delta", {13}, {300}, {0})

Swapping == PlainMeasurements \cup DeltaMeasurements \cup HuffmanMeasurements
AllMeasurements == Swapping \cup Unswapped(Swapping)
=============================================================================
