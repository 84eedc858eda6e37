--------------------------- MODULE MCUtilCompress ---------------------------
(***************************************************************************)
(* Every byte that has a codeword, bytes on both sides of the table, and   *)
(* bytes whose bits look like codewords, padding or tags, through every    *)
(* pair of an encoder and a decoder that a user can put together.          *)
(***************************************************************************)
EXTENDS UtilCompress

Table == {0, 1, 2, 3, 4, 252, 253, 254, 255}
Tagged == {5, 85, 128, 251}

UpTo(bytes_, k) == UNION {[1 .. m -> bytes_] : m \in 0 .. k}

Inputs_(encoder, decoder, sources) ==
  {[encoder |-> encoder, decoder |-> decoder, src |-> s] : s \in sources}

LoggerInputs ==
  {<<4, 85>> \o s : s \in UpTo(Table \cup Tagged, 2) \cup UpTo({4, 85}, 4)}
    \cup {<<0, 1, b, 0>> : b \in 0 .. 255}

Words == UpTo({1, 4, 85, 251, 255}, 2)

AllInputs ==
  Inputs_("logger", "logger", LoggerInputs)
    \cup Inputs_("buffer", "buffer", Words)
    \cup Inputs_("buffer", "stream", Words \ {<<>>})
    \cup Inputs_("stream", "stream", Words)
    \cup Inputs_("stream", "buffer", {<<>>, <<5>>})
=============================================================================
