--------------------------- MODULE SeedFloorRules ---------------------------
(***************************************************************************)
(* The decisions of remove_torrent (src/arr-webhook.py:723) that depend    *)
(* only on the info dict it holds: the seed floor and the never-seeded     *)
(* exemption.  A field absent from the dict, or None, is "unknown".        *)
(***************************************************************************)
EXTENDS Integers

CONSTANT SeedFloor   \* SEED_DAYS * 86400, in seed units

ASSUME FloorAssumption == SeedFloor \in Nat \ {0}

UnknownTime == -1

(* A mutant of Merge: the caller's seeding time is added, not preferred.   *)
MergeSummed(fetched, own) ==
    [fetched EXCEPT !.seeding_time = @ + own.seeding_time]

(* {**fetched, **_i}: a field the caller knows wins over Deluge's.         *)
Merge(fetched, own) ==
    [seeding_time   |-> IF own.seeding_time # UnknownTime
                        THEN own.seeding_time ELSE fetched.seeding_time,
     total_uploaded |-> IF own.total_uploaded # "unknown"
                        THEN own.total_uploaded ELSE fetched.total_uploaded,
     is_finished    |-> IF own.is_finished # "unknown"
                        THEN own.is_finished ELSE fetched.is_finished,
     progress       |-> IF own.progress # "unknown"
                        THEN own.progress ELSE fetched.progress,
     save_path      |-> IF own.save_path # "unknown"
                        THEN own.save_path ELSE fetched.save_path]

(* A mutant of NoInfo: a missing upload count reads as 0.                  *)
NoInfoNoUpload ==
    [seeding_time |-> UnknownTime, total_uploaded |-> "none",
     is_finished |-> "unknown", progress |-> "unknown",
     save_path |-> "unknown"]

(* The empty dict.                                                         *)
NoInfo ==
    [seeding_time |-> UnknownTime, total_uploaded |-> "unknown",
     is_finished |-> "unknown", progress |-> "unknown",
     save_path |-> "unknown"]

(* A mutant of NeverSeeded: seeding time alone decides.                    *)
NeverSeededByTime(info) == info.seeding_time = 0 /\ info.is_finished = "no"

(* A provably never-seeded partial download: every field known.            *)
NeverSeeded(info) ==
    /\ info.seeding_time = 0
    /\ info.total_uploaded = "none"
    /\ info.is_finished = "no"
    /\ info.progress = "partial"

(* A mutant of FloorBlocks: an unknown seeding time is not deferred.       *)
FloorBlocksKnown(info) ==
    /\ info.seeding_time \in 0..(SeedFloor - 1)
    /\ ~NeverSeeded(info)

(* The seed floor: unknown seeding time defers, too.                       *)
FloorBlocks(info) ==
    \/ info.seeding_time = UnknownTime
    \/ info.seeding_time < SeedFloor /\ ~NeverSeeded(info)
=============================================================================
