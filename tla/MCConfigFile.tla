--------------------------- MODULE MCConfigFile ---------------------------
(* Small instances of ConfigFile for TLC.                                  *)
EXTENDS ConfigFile, TLC

CONSTANTS daemon, manual, M1, M2, AB, BA

(* Bridges, names and contents do not differ among themselves.             *)
Symmetry == Permutations(Bridges) \cup Permutations(Paths) \cup Permutations(Contents)
=============================================================================
