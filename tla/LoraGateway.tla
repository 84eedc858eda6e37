---------------------------- MODULE LoraGateway ----------------------------
(***************************************************************************)
(* The program README.md tells a user of the library to write: a loop that *)
(* gives every frame received over LoRaWAN to the parser, and a second     *)
(* part ("do it in another thread") that saves what is completed or        *)
(* expired and then removes it.  Loggers send their frames in order; the   *)
(* radio may lose, repeat or reorder them.                                 *)
(***************************************************************************)
EXTENDS LoggerParse

CONSTANTS
  Sends,        (* What each logger sends: address -> sequence of frames.  *)
  MaxBatch,     (* Bound: frames received between two calls of the parser. *)
  MaxRepeats,   (* Bound: repeated deliveries.                             *)
  Loses,        (* TRUE when the radio may lose frames.                    *)
  Reorders,     (* TRUE when it may deliver a later frame first.           *)
  OtherThread,  (* TRUE when frames may arrive between save and remove.    *)
  Ends          (* TRUE when the program may flush and finish.             *)

ASSUME SendsAssumption ==
  Sends \in [DOMAIN Sends -> Seq(Frames)]
ASSUME FlagsAssumption ==
  /\ MaxBatch \in Nat \ {0} /\ MaxRepeats \in Nat
  /\ Loses \in BOOLEAN /\ Reorders \in BOOLEAN
  /\ OtherThread \in BOOLEAN /\ Ends \in BOOLEAN

VARIABLES
  air,      (* address -> frames sent and not yet received                 *)
  repeats,  (* repeated deliveries so far                                  *)
  saved     (* TRUE between loggerSQLInsertPackets() and the removal       *)

gatewayVars == <<parseVars, air, repeats, saved>>

GatewayInit ==
  /\ initLoggerParser
  /\ air = Sends
  /\ repeats = 0
  /\ saved = FALSE

(* The frames of logger a from the i-th to the j-th on are received.       *)
Receive(a, i, j) ==
  /\ saved => OtherThread
  /\ i = 1 \/ Reorders
  /\ loggerParsePackets(SubSeq(air[a], i, j))
  /\ UNCHANGED saved

Deliver(a, i, j) ==
  /\ Receive(a, i, j)
  /\ air' = [air EXCEPT ![a] = SubSeq(@, 1, i - 1) \o SubSeq(@, j + 1, Len(@))]
  /\ UNCHANGED repeats

(* The frames arrive and will arrive again.                                *)
Repeat(a, i, j) ==
  /\ repeats < MaxRepeats
  /\ Receive(a, i, j)
  /\ repeats' = repeats + 1
  /\ UNCHANGED air

Lose(a) ==
  /\ Loses
  /\ air[a] # <<>>
  /\ air' = [air EXCEPT ![a] = Tail(@)]
  /\ UNCHANGED <<parseVars, repeats, saved>>

SaveReady ==
  ~saved /\ beginInsertPackets /\ UNCHANGED <<air, repeats, saved>>
EndSave ==
  endInsertPackets /\ saved' = TRUE /\ UNCHANGED <<air, repeats>>

RemoveReady ==
  saved /\ beginRemoveCompletedOrExpired /\ UNCHANGED <<air, repeats, saved>>
EndRemove ==
  endRemoveCompletedOrExpired /\ saved' = FALSE /\ UNCHANGED <<air, repeats>>

(* The program ends: flushLoggerParser(), then doneLoggerParser().  All    *)
(* that is still in memory is given up.                                    *)
Finish ==
  /\ Ends
  /\ \A a \in DOMAIN air : air[a] = <<>>
  /\ ~saved
  /\ flushLoggerParser \/ doneLoggerParser
  /\ UNCHANGED <<air, repeats, saved>>

Call == CallStep /\ UNCHANGED <<air, repeats, saved>>
Clock == Tick /\ UNCHANGED <<clauses, air, repeats, saved>>

Radio ==
  \E a \in DOMAIN air :
    \/ Lose(a)
    \/ \E i \in DOMAIN air[a], n \in 1 .. MaxBatch :
         /\ i + n - 1 <= Len(air[a])
         /\ Deliver(a, i, i + n - 1) \/ Repeat(a, i, i + n - 1)

GatewayNext ==
  \/ Radio
  \/ Call
  \/ SaveReady
  \/ EndSave
  \/ RemoveReady
  \/ EndRemove
  \/ Finish
  \/ Clock

GatewaySpec == GatewayInit /\ [][GatewayNext]_gatewayVars

(* The calls return, the program keeps saving and removing, and time       *)
(* passes.  Nothing obliges the radio to deliver, nor the program to end.  *)
Fairness ==
  /\ WF_gatewayVars(Call)
  /\ WF_gatewayVars(SaveReady)
  /\ WF_gatewayVars(EndSave)
  /\ WF_gatewayVars(RemoveReady)
  /\ WF_gatewayVars(EndRemove)
  /\ WF_gatewayVars(Clock)

FairGatewaySpec == GatewaySpec /\ Fairness

-----------------------------------------------------------------------------
(* Properties.                                                             *)

(* The type invariant.                                                     *)
GatewayTypeOK ==
  /\ TypeOK
  /\ clauses \subseteq Rows
  /\ air \in [DOMAIN Sends -> Seq(Frames)]
  /\ repeats \in 0 .. MaxRepeats
  /\ saved \in BOOLEAN

Sent == UNION {ToSet(Sends[a]) : a \in DOMAIN Sends}

FramesOf(kosa) == {item.packet[1] : item \in ToSet(kosa.items)}

(* All the frames of the measurement f is a frame of.                      *)
Measurement(f) ==
  {g \in Sent : PlumeOf(g) = PlumeOf(f) /\ g.measure = f.measure}

(* completed() answers "true- all packets received" (logger-parse.cpp:130) *)
(* only if every frame of a measurement is in the entry, although it only  *)
(* compares the number of items with the last count it was told.           *)
CompletedIsWhole ==
  \A k \in DOMAIN koses :
    Completed(koses[k]) =>
      \E f \in FramesOf(koses[k]) : Measurement(f) \subseteq FramesOf(koses[k])

(* "When last packet has been received, it can be stored in the database": *)
(* once put() has returned with the last frame of a measurement in memory, *)
(* the entry that holds it is completed().                                 *)
ReceivedIsCompleted ==
  LET held == UNION {FramesOf(koses[k]) : k \in DOMAIN koses}
  IN  Idle => \A f \in held :
        Measurement(f) \subseteq held =>
          \E k \in DOMAIN koses :
            f \in FramesOf(koses[k]) /\ Completed(koses[k])

(* An entry never mixes the frames of two plumes, although next frames do  *)
(* not carry the year of theirs.                                           *)
OnePlume ==
  \A k \in DOMAIN koses :
    \A f, g \in FramesOf(koses[k]) : PlumeOf(f) = PlumeOf(g)

(* The entry of plume k leaves memory in this step.                        *)
Leaves(k) ==
  \A j \in DOMAIN koses' : PlumeOf(koses'[j].id) # PlumeOf(koses[k].id)

(* loggerRemoveCompletedOrExpired() removes a completed plume only after   *)
(* loggerSQLInsertPackets() has returned exactly what it holds.            *)
CompletedIsSavedFirst ==
  [][loop = "remove" => \A k \in DOMAIN koses :
       Completed(koses[k]) /\ Leaves(k) => Row(koses[k]) \in clauses]_gatewayVars

(* The same of every plume, completed or expired: "packets trying to store *)
(* in the database [...] then it removes from the memory".                 *)
(* The code does not keep it: README.md, other disagreements.              *)
SavedFirst ==
  [][loop = "remove" => \A k \in DOMAIN koses :
       Leaves(k) => Row(koses[k]) \in clauses]_gatewayVars

Holds(p) == \E k \in DOMAIN koses : PlumeOf(koses[k].id) = p

HoldsCompleted(p) ==
  \E k \in DOMAIN koses : PlumeOf(koses[k].id) = p /\ Completed(koses[k])

(* The plumes entries can be filed under: those of the frames, and the     *)
(* year 0 of a next frame whose year is not known.                         *)
Filed == {PlumeOf(f) : f \in Sent}
           \cup {[kosa |-> f.kosa, kosa_year |-> 0] : f \in Sent}

(* Memory is freed: no plume stays in memory for ever, be it completed or  *)
(* not, since its start is never refreshed.                                *)
Freed == \A p \in Filed : Holds(p) ~> ~Holds(p)

(* A completed plume is returned by loggerSQLInsertPackets() some day, as  *)
(* a row of that plume.                                                    *)
CompletedIsSaved ==
  \A p \in Filed :
    HoldsCompleted(p) ~> \E row \in clauses : PlumeOf(row.id) = p
=============================================================================
