---------------------------- MODULE MCQueueDupes ----------------------------
(* QueueDupes on two small instances: for Sonarr, two equal packs of a     *)
(* season and one that straddles both of its halves; for Radarr, two       *)
(* releases of one movie with one score.                                   *)
EXTENDS QueueDupes, TLC

CONSTANTS r1, r2, r3

SeasonCovers == r1 :> {1, 2} @@ r2 :> {1, 2} @@ r3 :> {2, 3}
SeasonScore == r1 :> 1 @@ r2 :> 1 @@ r3 :> 2

MovieCovers == r1 :> {1} @@ r2 :> {1}
MovieScore == r1 :> 0 @@ r2 :> 0
=============================================================================
