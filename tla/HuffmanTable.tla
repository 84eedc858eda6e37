---------------------------- MODULE HuffmanTable ----------------------------
(***************************************************************************)
(* The code of util-compress.cpp: the codeword of every byte, as bits.     *)
(***************************************************************************)
EXTENDS Integers, Sequences

Byte == 0 .. 255

Bits8(b) ==
  << b \div 128, (b \div 64) % 2, (b \div 32) % 2, (b \div 16) % 2,
     (b \div 8) % 2, (b \div 4) % 2, (b \div 2) % 2, b % 2 >>

(* Small differences have codewords of their own, any other byte follows a *)
(* tag.                                                                    *)
Code(b) ==
  CASE b = 0   -> <<1>>
    [] b = 1   -> <<0, 0, 1, 0>>
    [] b = 2   -> <<0, 0, 0, 0, 1>>
    [] b = 3   -> <<0, 0, 0, 0, 0, 1>>
    [] b = 4   -> <<0, 0, 0, 0, 0, 0, 0>>
    [] b = 252 -> <<0, 0, 0, 0, 0, 0, 1>>
    [] b = 253 -> <<0, 0, 0, 1, 0>>
    [] b = 254 -> <<0, 0, 0, 1, 1>>
    [] b = 255 -> <<0, 0, 1, 1>>
    [] OTHER   -> <<0, 1>> \o Bits8(b)

(* Mutant: zeros, which are the codeword of 4.                             *)
FillerZeros == <<0, 0, 0, 0, 0, 0, 0>>

(* What the last byte is filled up with.                                   *)
Filler == <<0, 1, 0, 1, 0, 1, 0>>
=============================================================================
