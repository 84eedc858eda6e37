----------------------------- MODULE BaseTable -----------------------------
(***************************************************************************)
(* How a base measurement comes back from the database.  The program of    *)
(* LoraGateway executes the INSERT clauses it gets; a row holds the frames *)
(* of its entry as hex strings ("raw").  To read a delta measurement it    *)
(* executes loggerBuildSQLBaseMeasurementSelect() and gives the string it  *)
(* gets to loggerParseSQLBaseMeasurement(), which reads it character by    *)
(* character.                                                              *)
(*                                                                         *)
(* Which digit a character is does not matter, but whose: a hex digit is   *)
(* the frame it was written for and its place in it.                       *)
(***************************************************************************)
EXTENDS LoraGateway

CONSTANTS
  FrameBytes,  (* Bytes of a frame.                                        *)
  Paddings     (* Numbers of blanks a database may pad the string with.    *)

ASSUME FrameBytesAssumption == FrameBytes \in Nat \ {0}
ASSUME PaddingsAssumption == Paddings \subseteq Nat

VARIABLES
  table,    (* logger_lora: rows in the order of their id                  *)
  asked,    (* the row last selected, or 0                                 *)
  value,    (* the string being parsed                                     *)
  pos,      (* characters of it readHex() has passed                       *)
  r,        (* what readHex() has read of a packet                         *)
  packets   (* retClauses                                                  *)

queryVars == <<asked, value, pos, r, packets>>
tableVars == <<gatewayVars, table, queryVars>>

Space == <<>>
Digit(f, i) == <<f, i>>

(* bin2hexString(): two digits for each byte.                              *)
bin2hexString(f) == [i \in 1 .. 2 * FrameBytes |-> Digit(f, i)]

(* Mutant: the separator is left out.                                      *)
rawString(items) == FlattenSeq([i \in DOMAIN items |->
  FlattenSeq([j \in DOMAIN items[i].packet |-> bin2hexString(items[i].packet[j])])])

(* LoggerKosaPackets::rawCommaString(): the items, a blank in between.     *)
rawCommaString(items) ==
  LET hex(item) == FlattenSeq([j \in DOMAIN item.packet |->
                                 bin2hexString(item.packet[j])])
  IN  FlattenSeq([i \in DOMAIN items |->
                    (IF i = 1 THEN <<>> ELSE <<Space>>) \o hex(items[i])])

(* The row an INSERT clause makes.  The address is not in the clause: the  *)
(* program adds it ("loraaddr", an extra value), here the one it received  *)
(* the first frame from.                                                   *)
InsertedRow(kosa) ==
  [loraaddr |-> kosa.items[1].packet[1].addr, raw |-> rawCommaString(kosa.items),
   items |-> kosa.items]

(* raw LIKE '4a%' OR raw LIKE '00%'                                        *)
LikeBase(row) == row.raw[1][1].typ \in {"PKT_1", "RAW"}

(* loggerBuildSQLSelectBaseMeasurement(): the newest such row, 0 if none.  *)
Select(addr) ==
  Max({0} \cup {i \in DOMAIN table :
                  table[i].loraaddr = addr /\ LikeBase(table[i])})

Reading == value # <<>>

TableInit ==
  /\ GatewayInit
  /\ table = <<>>
  /\ asked = 0 /\ value = <<>> /\ pos = 0 /\ r = <<>> /\ packets = <<>>

(* A step of the program of LoraGateway.  An iteration of the loop of      *)
(* loggerSQLInsertPackets() that returns a clause makes a row.             *)
Program ==
  /\ ~Reading
  /\ GatewayNext
  /\ table' = IF loop = "insert" /\ it' = it + 1 /\ Ready(koses[it])
              THEN Append(table, InsertedRow(koses[it])) ELSE table
  /\ UNCHANGED queryVars

(* The program asks for the base measurement of a logger, if the answer is *)
(* a new one (a bound of the model).                                       *)
Ask(addr) ==
  /\ ~Reading /\ Idle
  /\ Select(addr) \notin {0, asked}
  /\ asked' = Select(addr)
  /\ \E n \in Paddings :
       LET blanks == [i \in 1 .. n |-> Space]
       IN  value' = blanks \o table[asked'].raw \o blanks
  /\ pos' = 0 /\ r' = <<>> /\ packets' = <<>>
  /\ UNCHANGED <<gatewayVars, table>>

(* readHex() returns, and its string is kept unless it is empty.           *)
Push == packets' = IF r = <<>> THEN packets ELSE Append(packets, r)

More == Reading /\ pos + 1 < Len(value)

(* Mutant: a blank before the first digit is not passed over.              *)
ReadGapStays ==
  /\ More
  /\ Space \in {value[pos + 1], value[pos + 2]}
  /\ pos' = IF r = <<>> THEN pos ELSE pos + 1
  /\ Push /\ r' = <<>>
  /\ UNCHANGED <<gatewayVars, table, asked, value>>

(* One iteration of readHex() that meets a blank: a blank before the first *)
(* digit is passed over, one behind the last ends the packet.              *)
ReadGap ==
  /\ More
  /\ Space \in {value[pos + 1], value[pos + 2]}
  /\ pos' = IF value[pos + 1] = Space THEN pos + 1 ELSE pos + 2
  /\ Push /\ r' = <<>>
  /\ UNCHANGED <<gatewayVars, table, asked, value>>

(* One iteration that reads two digits.                                    *)
ReadByte ==
  /\ More
  /\ Space \notin {value[pos + 1], value[pos + 2]}
  /\ pos' = pos + 2
  /\ r' = Append(r, <<value[pos + 1], value[pos + 2]>>)
  /\ UNCHANGED <<gatewayVars, table, asked, value, packets>>

(* Less than two characters are left: loggerParseSQLBaseMeasurement()      *)
(* returns.                                                                *)
EndOfValue ==
  /\ Reading /\ ~More
  /\ Push /\ r' = <<>>
  /\ value' = <<>> /\ pos' = 0
  /\ UNCHANGED <<gatewayVars, table, asked>>

Parse == ReadGap \/ ReadByte \/ EndOfValue

TableNext ==
  \/ Program
  \/ \E addr \in DOMAIN Sends : Ask(addr)
  \/ Parse

TableSpec == TableInit /\ [][TableNext]_tableVars

(* The calls return, the program keeps saving and removing, time passes.   *)
(* A base measurement may never be asked for.                              *)
TableFairness ==
  /\ WF_tableVars(Program /\ Call)
  /\ WF_tableVars(Program /\ SaveReady)
  /\ WF_tableVars(Program /\ EndSave)
  /\ WF_tableVars(Program /\ RemoveReady)
  /\ WF_tableVars(Program /\ EndRemove)
  /\ WF_tableVars(Program /\ Clock)
  /\ WF_tableVars(Parse)

FairTableSpec == TableSpec /\ TableFairness

-----------------------------------------------------------------------------
(* Properties.                                                             *)

(* The bytes of a frame, as pairs of digits.                               *)
Bytes(f) ==
  [i \in 1 .. FrameBytes |-> <<Digit(f, 2 * i - 1), Digit(f, 2 * i)>>]

BytesOf(item) ==
  FlattenSeq([j \in DOMAIN item.packet |-> Bytes(item.packet[j])])

(* What loggerParseSQLBaseMeasurement() returns are the packets of the     *)
(* entry the row was made of, each whole, in their order, none run into    *)
(* the next: what the loader then puts is what was once received.          *)
GivenBackIsSaved ==
  asked # 0 /\ ~Reading =>
    packets = [i \in DOMAIN table[asked].items |-> BytesOf(table[asked].items[i])]

(* The two nested loops of the parser end, whatever blanks the string has. *)
ParseEnds == Reading ~> ~Reading

(* "If packet stored in SQL database, you can retrieve "base" packets"     *)
(* (README.md:199): a row that holds a whole plain measurement is the one  *)
(* the query finds, as long as no later one is there.                      *)
SavedIsFound ==
  \A i \in DOMAIN table :
    LET row == table[i]
        whole == {f \in FramesOf(row) : f.typ = "PKT_1"
                                       /\ Measurement(f) \subseteq FramesOf(row)}
    IN  whole # {} => Select(row.loraaddr) >= i
=============================================================================
