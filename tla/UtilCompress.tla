---------------------------- MODULE UtilCompress ----------------------------
(***************************************************************************)
(* util-compress.cpp: Huffman coding.  A behaviour is one of the encoders, *)
(* which fills the buffer bf byte by byte and appends the padding bits,    *)
(* followed by one of the decoders, which decodes the buffer bit by bit    *)
(* into out.  "logger" is compressLogger() and decompressLogger(), which   *)
(* copy two bytes first, "buffer" encodeHuffman() and decodeHuffman(),     *)
(* "stream" encodeHuffmanStream() and decodeHuffmanStream().               *)
(* bytes counts the loop of the encoder; n is the decoder's tree node,     *)
(* named by the path that leads to it from huffmanTreeRoot.                *)
(***************************************************************************)
EXTENDS HuffmanTable

CONSTANT Inputs  (* The bytes to encode, the encoder and the decoder.      *)

(* Of fewer than two bytes, compressLogger() encodes SIZE_MAX bytes or so. *)
(* BitStreamReader() takes the end of an empty stream for a byte.          *)
ASSUME InputsAssumption ==
  \A s \in Inputs :
    /\ s.src \in Seq(0 .. 255)
    /\ \/ s.encoder = "logger" /\ s.decoder = "logger" /\ Len(s.src) >= 2
       \/ s.encoder = "buffer" /\ s.decoder = "stream" /\ Len(s.src) >= 1
       \/ s.encoder = "buffer" /\ s.decoder = "buffer"
       \/ s.encoder = "stream" /\ s.decoder \in {"buffer", "stream"}

VARIABLES input, bytes, bf, bitPosition, n, out, phase

vars == <<input, bytes, bf, bitPosition, n, out, phase>>

src == input.src

-----------------------------------------------------------------------------
(* BitBufferWriter and BitBufferReader.                                    *)

BitBufferWriter == [bitCount |-> 0, buffer |-> <<>>]

Shr(v, k) == v \div 2 ^ k
Low(v, k) == v % 2 ^ k

(* a | b, of bytes.                                                        *)
Or(a, b) ==
  LET bit(k) == IF Low(Shr(a, k), 1) = 1 \/ Low(Shr(b, k), 1) = 1 THEN 2 ^ k ELSE 0
  IN  bit(7) + bit(6) + bit(5) + bit(4) + bit(3) + bit(2) + bit(1) + bit(0)

(* bits_to_use: what is left of the current byte, and no more than needed. *)
bitsToUse(bitCount, bits) == IF 8 - (bitCount % 8) < bits THEN 8 - (bitCount % 8) ELSE bits

(* Mutant: the bits already written to the byte before stay in the value.  *)
PushUnmasked(w, value, nbits, use) ==
  LET sz  == w.bitCount \div 8
      dst == IF Len(w.buffer) <= sz THEN Append(w.buffer, 0) ELSE w.buffer
      off == 8 - (w.bitCount % 8) - use
  IN  [bitCount |-> w.bitCount + use,
       buffer   |-> [dst EXCEPT ![sz + 1] = @ + Shr(value, nbits - use) * 2 ^ off]]

(* One level of push(): as many of the bits as the current byte takes.     *)
PushSome(w, value, nbits, use) ==
  LET sz  == w.bitCount \div 8
      dst == IF Len(w.buffer) <= sz THEN Append(w.buffer, 0) ELSE w.buffer
      off == 8 - (w.bitCount % 8) - use
      cur == dst[sz + 1]
  IN  [bitCount |-> w.bitCount + use,
       buffer   |-> [dst EXCEPT ![sz + 1] =
                       cur + (Low(Shr(value, nbits - use), use)
                                - Low(Shr(cur, off), use)) * 2 ^ off]]

(* At most 8 bits reach over at most two bytes.                            *)
push(w, value, nbits) ==
  LET use == bitsToUse(w.bitCount, nbits)
      one == PushSome(w, value, nbits, use)
  IN  IF use = nbits THEN one
      ELSE PushSome(one, value, nbits - use, nbits - use)

(* Mutant: the rest of the last byte stays zero.                           *)
appendNoBits(w) == w

appendPaddingBits(w) ==
  LET rsz == w.bitCount % 8
      sz  == w.bitCount \div 8
  IN  IF rsz = 0 THEN w
      ELSE [w EXCEPT !.buffer[sz + 1] = Or(@, Shr(85, rsz))]

(* One level of peek().                                                    *)
PeekSome(buffer, use, offset, accum) ==
  accum * 2 ^ use + Low(Shr(buffer[offset \div 8 + 1], 8 - (offset % 8) - use), use)

peek(buffer, nbits, offset) ==
  LET use == bitsToUse(offset, nbits)
      one == PeekSome(buffer, use, offset, 0)
  IN  IF use = nbits THEN one
      ELSE PeekSome(buffer, nbits - use, offset + use, one)

hasBits(buffer, nbits, offset) == offset + nbits <= Len(buffer) * 8

(* BitStreamReader keeps one byte, lastByte of the stream, and gets the    *)
(* next when a bit beyond it is peeked.  A pop beyond the end is given up. *)
lastByte(offset) == offset \div 8

PeekStream(strm, nbits, offset) ==
  LET use == bitsToUse(offset, nbits)
      cur == strm[lastByte(offset) + 1]
      hi  == Shr(Low(cur, 8 - (offset % 8)), 8 - (offset % 8) - use)
  IN  IF use = nbits THEN hi
      ELSE hi * 2 ^ (nbits - use)
             + Shr(strm[lastByte(offset + use) + 1], 8 - (nbits - use))

(* reachEof: get() has failed for the byte of the last bit.                *)
reachEof(strm, nbits, offset) == lastByte(offset + nbits - 1) >= Len(strm)

HasBits(nbits, offset) ==
  IF input.decoder = "stream" THEN ~reachEof(bf.buffer, nbits, offset)
  ELSE hasBits(bf.buffer, nbits, offset)

Peek(nbits, offset) ==
  IF input.decoder = "stream" THEN PeekStream(bf.buffer, nbits, offset)
  ELSE peek(bf.buffer, nbits, offset)

-----------------------------------------------------------------------------
(* The code tables and the tree.                                           *)

huffmanCodeBitLength == <<1, 4, 5, 6, 7, 7, 5, 5, 4, 2>>
huffmanCodes         == <<1, 2, 1, 1, 0, 1, 2, 3, 3, 1>>

(* Terminal nodes of huffmanTreeRoot; 8 stands for the tag.                *)
terminals ==
  { <<1>>, <<0, 1>>, <<0, 0, 1, 0>>, <<0, 0, 1, 1>>, <<0, 0, 0, 1, 0>>,
    <<0, 0, 0, 1, 1>>, <<0, 0, 0, 0, 1>>, <<0, 0, 0, 0, 0, 1>>,
    <<0, 0, 0, 0, 0, 0, 0>>, <<0, 0, 0, 0, 0, 0, 1>> }

symbol ==
  [path \in terminals |->
     CASE path = <<1>>                   -> 0
       [] path = <<0, 1>>                -> 8
       [] path = <<0, 0, 1, 0>>          -> 1
       [] path = <<0, 0, 1, 1>>          -> 255
       [] path = <<0, 0, 0, 1, 0>>       -> 253
       [] path = <<0, 0, 0, 1, 1>>       -> 254
       [] path = <<0, 0, 0, 0, 1>>       -> 2
       [] path = <<0, 0, 0, 0, 0, 1>>    -> 3
       [] path = <<0, 0, 0, 0, 0, 0, 0>> -> 4
       [] path = <<0, 0, 0, 0, 0, 0, 1>> -> 252]

(* Mutant: byte <= 3 for byte <= 4.                                        *)
EncodeSymbolShort(w, byte) ==
  LET index  == IF byte <= 3 THEN byte ELSE IF byte >= 252 THEN byte - 247 ELSE 9
      coded  == push(w, huffmanCodes[index + 1], huffmanCodeBitLength[index + 1])
  IN  IF index = 9 THEN push(coded, byte, 8) ELSE coded

(* The body of the encoder's loop.                                         *)
EncodeSymbol(w, byte) ==
  LET index  == IF byte <= 4 THEN byte ELSE IF byte >= 252 THEN byte - 247 ELSE 9
      coded  == push(w, huffmanCodes[index + 1], huffmanCodeBitLength[index + 1])
  IN  IF index = 9 THEN push(coded, byte, 8) ELSE coded

-----------------------------------------------------------------------------
(* compressLogger() copies the first two bytes.                            *)
SkippedOf(i) == IF i.encoder = "logger" THEN 2 ELSE 0
Skipped == SkippedOf(input)
Encoded == SubSeq(src, Skipped + 1, Len(src))

(* The bytes the loop encodes: eof() is raised only by a get() beyond the  *)
(* end, whose EOF is encoded as a byte.                                    *)
SymbolsOf(i) ==
  SubSeq(i.src, SkippedOf(i) + 1, Len(i.src))
    \o (IF i.encoder = "stream" THEN <<255>> ELSE <<>>)
Symbols == SymbolsOf(input)

Init ==
  /\ input \in Inputs
  /\ bytes = 0
  /\ bf = BitBufferWriter
  /\ bitPosition = 0
  /\ n = <<>>
  /\ out = SubSeq(src, 1, Skipped)
  /\ phase = "encode"

encodeHuffman ==
  /\ phase = "encode" /\ input.encoder # "stream"
  /\ bytes < Len(Encoded)
  /\ bf' = EncodeSymbol(bf, Encoded[bytes + 1])
  /\ bytes' = bytes + 1
  /\ UNCHANGED <<input, bitPosition, n, out, phase>>

(* One iteration of while(!eof): the last one gets EOF, (uint8_t) -1.      *)
eof == bytes > Len(src)

encodeHuffmanStream ==
  /\ phase = "encode" /\ input.encoder = "stream"
  /\ ~eof
  /\ bf' = EncodeSymbol(bf, IF bytes < Len(src) THEN src[bytes + 1] ELSE 255)
  /\ bytes' = bytes + 1
  /\ UNCHANGED <<input, bitPosition, n, out, phase>>

endEncodeHuffman ==
  /\ phase = "encode"
  /\ IF input.encoder = "stream" THEN eof ELSE bytes = Len(Encoded)
  /\ bf' = appendPaddingBits(bf)
  /\ phase' = "decode"
  /\ UNCHANGED <<input, bytes, bitPosition, n, out>>

(* One iteration of a decoder's loop: a bit, and a byte after the tag.     *)
DecodeBit ==
  /\ phase = "decode"
  /\ HasBits(1, bitPosition)
  /\ LET node == Append(n, Peek(1, bitPosition))
         next == bitPosition + 1
     IN  IF node \notin terminals
         THEN n' = node /\ bitPosition' = next /\ UNCHANGED <<out, phase>>
         ELSE IF symbol[node] # 8
         THEN /\ out' = Append(out, symbol[node])
              /\ n' = <<>> /\ bitPosition' = next /\ UNCHANGED phase
         ELSE IF HasBits(8, next)
         THEN /\ out' = Append(out, Peek(8, next))
              /\ n' = <<>> /\ bitPosition' = next + 8 /\ UNCHANGED phase
         ELSE /\ n' = node /\ bitPosition' = next
              /\ phase' = "done" /\ UNCHANGED out
  /\ UNCHANGED <<input, bytes, bf>>

decodeHuffman == input.decoder # "stream" /\ DecodeBit

decodeHuffmanStream == input.decoder = "stream" /\ DecodeBit

endDecodeHuffman ==
  /\ phase = "decode"
  /\ ~HasBits(1, bitPosition)
  /\ phase' = "done"
  /\ UNCHANGED <<input, bytes, bf, bitPosition, n, out>>

Next ==
  \/ encodeHuffman \/ encodeHuffmanStream \/ endEncodeHuffman
  \/ decodeHuffman \/ decodeHuffmanStream \/ endDecodeHuffman

Spec == Init /\ [][Next]_vars

-----------------------------------------------------------------------------
(* Properties.                                                             *)

(* The type invariant: no push leaves a byte that is not one, and the      *)
(* buffer has just the bytes its bits need.                                *)
CodecTypeOK ==
  /\ input \in Inputs
  /\ bytes \in 0 .. Len(Symbols)
  /\ bf.buffer \in Seq(0 .. 255)
  /\ Len(bf.buffer) = (bf.bitCount + 7) \div 8
  /\ bitPosition \in 0 .. Len(bf.buffer) * 8
  /\ out \in Seq(0 .. 255)
  /\ phase \in {"encode", "decode", "done"}

(* What test-compress-decompress.cpp asserts of two values: decoding what  *)
(* was encoded gives it back, from a buffer or from a stream; but a stream *)
(* that was encoded comes back with the 0xff of its end.                   *)
DecodedIsEncoded == phase = "done" => out = SubSeq(src, 1, Skipped) \o Symbols

(* The buffer as the bits it stands for: those written, and once padded    *)
(* all of them.  The decoder has used up the bits before its current node. *)
BitsOf(w) ==
  [i \in 1 .. (IF phase = "encode" THEN w.bitCount ELSE Len(w.buffer) * 8) |->
     peek(w.buffer, 1, i - 1)]

CodeLength ==
  [byte \in 0 .. 255 |-> EncodeSymbol(BitBufferWriter, byte).bitCount]

(* The bit each codeword ends at.                                          *)
Ends[i \in 0 .. Len(Symbols)] ==
  IF i = 0 THEN 0 ELSE Ends[i - 1] + CodeLength[Symbols[i]]

Huffman == INSTANCE HuffmanCode WITH
  Sources <- {SymbolsOf(i) : i \in Inputs},
  src     <- Symbols,
  marks   <- [i \in 1 .. bytes |-> Ends[i]],
  bits    <- BitsOf(bf),
  pos     <- bitPosition - Len(n),
  out     <- SubSeq(out, Skipped + 1, Len(out))

(* The buffers, masks, shifts, tables and the tree implement the code.     *)
HuffmanSpec == Huffman!Spec
=============================================================================
