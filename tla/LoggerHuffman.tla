--------------------------- MODULE LoggerHuffman ---------------------------
(***************************************************************************)
(* The vocabulary of logger-huffman.h/.c: the frames a LoRa logger sends.  *)
(*                                                                         *)
(* A frame is a record.  Its type is the first byte on the air; addr is    *)
(* the LoRaWAN address the receiver got it from.  A frame of a first type  *)
(* carries kosa, kosa_year, measure and packets; one of a next type only   *)
(* kosa, measure and packet.  The record of a next frame nevertheless has  *)
(* a kosa_year and a packets field: they tell which plume and measurement  *)
(* the frame really comes from, and no operator that stands for code reads *)
(* them.  Payload bytes are left out.                                      *)
(***************************************************************************)
EXTENDS Integers, Sequences

Byte == 0 .. 255

FirstTypes == {"PKT_1", "DELTA_1", "HUFF_1"}
SecondTypes == {"PKT_2", "DELTA_2", "HUFF_2"}

(* RAW is a measurement without packet headers, UNKNOWN any other byte.    *)
LOGGER_PACKET_TYPE == FirstTypes \cup SecondTypes \cup {"RAW", "UNKNOWN"}

(* LoggerItemId.kosa_year of a lookup that accepts a plume of any year.    *)
NO_MATCH_YEAR == 255

(* A plume ("kosa") is named by its serial number and production year.     *)
Plumes == [kosa : Byte, kosa_year : Byte]

(* LoggerItemId without the packet number, which no decision reads.        *)
ItemIds == [kosa : Byte, kosa_year : Byte, measure : Byte]

Frames == [typ : LOGGER_PACKET_TYPE, addr : Nat, kosa : Byte,
           kosa_year : Byte, measure : Byte, packet : Byte, packets : Byte]

PlumeOf(x) == [kosa |-> x.kosa, kosa_year |-> x.kosa_year]

(* An extracted header is the set of the frame that holds it, or {} where  *)
(* the code returns a null pointer.                                        *)
extractFirstHdr(f) == IF f.typ \in FirstTypes THEN {f} ELSE {}
extractMeasurementHeader(f) == IF f.typ \in {"RAW", "PKT_1"} THEN {f} ELSE {}
=============================================================================
