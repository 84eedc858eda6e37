---------------------------- MODULE HuffmanCode ----------------------------
(***************************************************************************)
(* What util-compress.cpp promises of bits, free of byte buffers, masks    *)
(* and trees: the codewords of a sequence of bytes are laid one after the  *)
(* other, the last byte is filled up with the beginning of a codeword that *)
(* does not fit, and the decoder reads codewords until none fits.          *)
(***************************************************************************)
EXTENDS HuffmanTable

CONSTANT Sources  (* The sequences of bytes that are encoded.              *)

ASSUME SourcesAssumption == Sources \subseteq Seq(0 .. 255)

VARIABLES
  src,    (* the bytes to encode                                           *)
  marks,  (* the bit each codeword written so far ends at                  *)
  bits,   (* the bits written                                              *)
  pos,    (* how many of them the decoder has used up                      *)
  out,    (* the bytes decoded                                             *)
  phase

vars == <<src, marks, bits, pos, out, phase>>

(* Codeword w stands at bit p of s.                                        *)
StandsAt(w, s, p) ==
  /\ p + Len(w) <= Len(s)
  /\ \A i \in 1 .. Len(w) : s[p + i] = w[i]

(* The bytes whose codeword stands there.                                  *)
Fitting(s, p) == {b \in Byte : StandsAt(Code(b), s, p)}

Init ==
  /\ src \in Sources
  /\ marks = <<>> /\ bits = <<>> /\ pos = 0 /\ out = <<>>
  /\ phase = "encode"

Encode ==
  /\ phase = "encode"
  /\ Len(marks) < Len(src)
  /\ bits' = bits \o Code(src[Len(marks) + 1])
  /\ marks' = Append(marks, Len(bits'))
  /\ UNCHANGED <<src, pos, out, phase>>

Pad ==
  /\ phase = "encode"
  /\ Len(marks) = Len(src)
  /\ \E k \in 0 .. 7 :
       /\ (Len(bits) + k) % 8 = 0
       /\ bits' = bits \o SubSeq(Filler, 1, k)
  /\ phase' = "decode"
  /\ UNCHANGED <<src, marks, pos, out>>

(* Mutant: the byte that follows a tag is not skipped.                     *)
DecodeInTag ==
  /\ phase = "decode"
  /\ \E b \in Fitting(bits, pos) :
       /\ pos' = pos + (IF b \in 5 .. 251 THEN 2 ELSE Len(Code(b)))
       /\ out' = Append(out, b)
  /\ UNCHANGED <<src, marks, bits, phase>>

Decode ==
  /\ phase = "decode"
  /\ \E b \in Fitting(bits, pos) :
       /\ pos' = pos + Len(Code(b))
       /\ out' = Append(out, b)
  /\ UNCHANGED <<src, marks, bits, phase>>

Stop ==
  /\ phase = "decode"
  /\ Fitting(bits, pos) = {}
  /\ phase' = "done"
  /\ UNCHANGED <<src, marks, bits, pos, out>>

Next == Encode \/ Pad \/ Decode \/ Stop

Spec == Init /\ [][Next]_vars

-----------------------------------------------------------------------------
(* Properties.                                                             *)

(* The type invariant.                                                     *)
TypeOK ==
  /\ src \in Seq(Byte)
  /\ marks \in Seq(Nat) /\ Len(marks) <= Len(src)
  /\ bits \in Seq({0, 1})
  /\ pos \in Nat
  /\ out \in Seq(Byte)
  /\ phase \in {"encode", "decode", "done"}

(* "Junk bits are not decoded": what the decoder has put out is always the *)
(* beginning of what was encoded, and all of it when it stops.             *)
RoundTrip ==
  /\ Len(out) <= Len(src)
  /\ \A i \in 1 .. Len(out) : out[i] = src[i]
  /\ phase = "done" => Len(out) = Len(src)

(* The bit the i-th codeword begins at.                                    *)
Start(i) == IF i = 1 THEN 0 ELSE marks[i - 1]

(* Each codeword stands where the marks say.                               *)
Written ==
  \A i \in 1 .. Len(marks) :
    /\ marks[i] = Start(i) + Len(Code(src[i]))
    /\ StandsAt(Code(src[i]), bits, Start(i))

Filled ==
  LET end == Start(Len(marks) + 1)
  IN  /\ phase = "encode" => Len(bits) = end
      /\ phase # "encode" =>
           /\ Len(marks) = Len(src)
           /\ Len(bits) - end \in 0 .. 7
           /\ \A j \in 1 .. Len(bits) - end : bits[end + j] = Filler[j]

(* The decoder stands at the beginning of a codeword.                      *)
Aligned ==
  /\ pos = Start(Len(out) + 1)
  /\ phase = "encode" => out = <<>>

(* The inductive invariant: where the codewords stand, what fills the rest *)
(* and that the decoder never stands inside a codeword.                    *)
CodeInv == TypeOK /\ RoundTrip /\ Written /\ Filled /\ Aligned
=============================================================================
