-------------------------- MODULE MCUpgradeBatches --------------------------
(* Two movies and one series for the interleavings of two cycles; three    *)
(* and two for the scheduler on its own.                                   *)
EXTENDS UpgradeBatches

FewSize    == [s \in Services |-> IF s = "radarr" THEN 2 ELSE 1]
FewHasFile == {<<"radarr", 0>>, <<"sonarr", 0>>}
MoreSize    == [s \in Services |-> IF s = "radarr" THEN 3 ELSE 2]
MoreHasFile == {<<"radarr", 0>>, <<"radarr", 2>>, <<"sonarr", 0>>}
RecentItems == {<<"radarr", 2>>, <<"sonarr", 0>>}

=============================================================================
