--------------------------- MODULE MCSeriesDedupe ---------------------------
(* SeriesDedupe on a season: a pack, one of its first part, and two        *)
(* releases of its last episode.                                           *)
EXTENDS SeriesDedupe

SeasonCovers == <<{1, 2, 3}, {1, 2}, {3}, {3}>>
SeasonNames == <<0, 0, 3, 3>>
SeasonCodec == <<1, 0, 1, 0>>
SeasonFiles == {{1, 2, 3}, {1, 2}, {3}}
=============================================================================
