---------------------------- MODULE MCDetailedTwo ----------------------------
(* Small instances of DetailedTwo for TLC.                                 *)
EXTENDS DetailedTwo, MCOffers

(* The lineups of Respecified only: each one more is a content of the files.*)
TwoRosters == [x \in {AB, AC} |-> MCRoster[x]]
=============================================================================
