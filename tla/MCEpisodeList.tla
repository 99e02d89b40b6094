---------------------------- MODULE MCEpisodeList ----------------------------
(* Two failed episodes, one row per page; "text" finds the first.           *)
EXTENDS EpisodeList

CONSTANTS e1, e2

MCOrder == <<e1, e2>>
=============================================================================
