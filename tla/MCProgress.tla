----------------------------- MODULE MCProgress -----------------------------
(* What must come to an end by itself: the repair of an errored torrent,   *)
(* the rescue of a download that was never imported, and the migration of  *)
(* a pilot and a batch of season packs. They share nothing: a behaviour is *)
(* one of one of them, and the others rest in the state they began in.     *)
EXTENDS Naturals

CONSTANTS MAX, Mishaps

VARIABLES
  part,
  torrent, disk, event, rechecked, present, reported, worker, lock, failed,
  download, command, attempts, gaveUp, saved, run, poll, notified, told, scans, mishaps,
  tor, library, mirror, inflight, pilotDone, tick

Repair == INSTANCE DelugeRepair WITH told <- reported
Rescue == INSTANCE ImportRescue
Packs == {1, 2, 3}
Migration == INSTANCE SeasonMigration WITH
  Workers <- {"w1"}, Batch <- 2, Faults <- {"copy", "timeout", "error"}

\* What the theorems about the rescue assume.
ASSUME ProgressAssumption == Rescue!RescueAssumption

repair == <<torrent, disk, event, rechecked, present, reported, worker, lock, failed>>
rescue == <<download, command, attempts, gaveUp, saved, run, poll, notified, told, scans, mishaps>>
migration == <<tor, library, mirror, inflight, pilotDone, tick>>
vars == <<part, repair, rescue, migration>>

Init ==
  /\ part \in {"repair", "rescue", "migration"}
  /\ Repair!Init /\ (part = "repair" \/ (torrent.state = "Seeding" /\ ~ torrent.library
                                         /\ disk = "whole"))
  /\ Rescue!Init
  /\ Migration!Init /\ (part = "migration" \/ \A w \in DOMAIN tick : tick[w].pack = 1)

Only(p) == part = p /\ UNCHANGED part
OnlyRepair == Only("repair") /\ UNCHANGED <<rescue, migration>>
OnlyRescue == Only("rescue") /\ UNCHANGED <<repair, migration>>
OnlyMigration == Only("migration") /\ UNCHANGED <<repair, rescue>>

Next ==
  \/ OnlyRepair /\ Repair!Next
  \/ OnlyRescue /\ Rescue!Next
  \/ OnlyMigration /\ Migration!Next

\* The fairness of each, as its module states it.
Fairness ==
  /\ \A w \in Repair!Workers : WF_vars(OnlyRepair /\ Repair!PassStep(w))
  /\ WF_vars(OnlyRepair /\ Repair!FinishCheck /\ Repair!DelugeStep)
  /\ WF_vars(OnlyRepair /\ Repair!FinishMove /\ Repair!DelugeStep)
  /\ SF_vars(OnlyRepair /\ Repair!Acquire("repair"))
  /\ \A w \in Rescue!Runs : WF_vars(OnlyRescue /\ Rescue!RunStep(w))
  /\ WF_vars(OnlyMigration /\ Migration!Do("w1")) /\ SF_vars(OnlyMigration /\ Migration!Copy("w1"))

Spec == Init /\ [][Next]_vars /\ Fairness

-----------------------------------------------------------------------------
\* The types of all three.
TypeOK == Repair!TypeOK /\ Rescue!TypeOK /\ Migration!TypeOK

\* An errored torrent is brought back, or reported (see DelugeRepair).
Healed == Repair!Healed


\* Each mishap costs one more round of scans at most (see ImportRescue).
RescueBounded == Rescue!RescueBounded

\* A download that nobody imports is rescued, or the digest says that it is
\* not (see ImportRescue).
Settled == Rescue!Settled

\* No pack that could be migrated is passed over for ever (see SeasonMigration).
TakenUp == part = "migration" => Migration!TakenUp
=============================================================================
