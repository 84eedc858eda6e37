---------------------------- MODULE LoggerParse ----------------------------
(***************************************************************************)
(* The C-style interface of logger-parse.cpp over one collector:           *)
(* loggerParsePackets(), loggerSQLInsertPackets(),                         *)
(* loggerRemoveCompletedOrExpired(), flushLoggerParser() and               *)
(* doneLoggerParser().  Saving and removing are two separate calls, each   *)
(* of which asks every plume anew whether it is completed or expired.      *)
(***************************************************************************)
EXTENDS LoggerKosaCollector

VARIABLE clauses  (* The rows loggerSQLInsertPackets() has returned so far. *)

parseVars == <<vars, clauses>>

(* What an INSERT clause holds of a plume, its text left out.              *)
Row(kosa) == [id |-> kosa.id, items |-> kosa.items]
Rows == [id : ItemIds, items : Seq(Items)]

initLoggerParser == Init /\ clauses = {}

(* Mutant: what is not completed waits for its missing frames for ever.    *)
ReadyIfCompleted(kosa) == Completed(kosa)

(* The condition of both loops below.                                      *)
Ready(kosa) == Completed(kosa) \/ Expired(kosa)

loggerParsePackets(batch) == Put(batch) /\ UNCHANGED clauses

beginInsertPackets == BeginLoop("insert") /\ UNCHANGED clauses

(* Mutant: what has expired is not saved any more.                         *)
insertPacketsInTime ==
  /\ loop = "insert"
  /\ it <= Len(koses)
  /\ clauses' = IF Completed(koses[it]) /\ ~Expired(koses[it])
                THEN clauses \cup {Row(koses[it])} ELSE clauses
  /\ it' = it + 1
  /\ UNCHANGED <<koses, capacity, values, c, mhs, loop>>

(* One iteration of loggerSQLInsertPackets().                              *)
insertPackets ==
  /\ loop = "insert"
  /\ it <= Len(koses)
  /\ clauses' = IF Ready(koses[it]) THEN clauses \cup {Row(koses[it])}
                                    ELSE clauses
  /\ it' = it + 1
  /\ UNCHANGED <<koses, capacity, values, c, mhs, loop>>

endInsertPackets == EndLoop("insert") /\ UNCHANGED clauses

beginRemoveCompletedOrExpired == BeginLoop("remove") /\ UNCHANGED clauses

(* One iteration of loggerRemoveCompletedOrExpired().                      *)
removeCompletedOrExpired ==
  /\ loop = "remove"
  /\ it <= Len(koses)
  /\ EraseIf(Ready(koses[it]))
  /\ UNCHANGED clauses

endRemoveCompletedOrExpired == EndLoop("remove") /\ UNCHANGED clauses

flushLoggerParser == BeginLoop("rmExpired") /\ UNCHANGED clauses

(* The collector is deleted, whatever it holds.                            *)
doneLoggerParser ==
  /\ Idle
  /\ loop' = "done"
  /\ koses' = <<>>
  /\ capacity' = 0
  /\ UNCHANGED <<values, c, mhs, it, clauses>>

(* The steps of the call that runs.                                        *)
CallStep ==
  \/ PutStep /\ UNCHANGED clauses
  \/ RmExpiredStep /\ UNCHANGED clauses
  \/ insertPackets
  \/ removeCompletedOrExpired
=============================================================================
