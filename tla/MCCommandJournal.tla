-------------------------- MODULE MCCommandJournal --------------------------
(* Small instances of CommandJournal for TLC.                              *)
EXTENDS CommandJournal

MCRawCodes == {"PREPARED", " PREPARED ", "LOCAL_ACTUATION_FAILED", "  "}
MCTrim == [raw \in MCRawCodes |->
              CASE raw \in {"PREPARED", " PREPARED "} -> "PREPARED"
                [] raw = "LOCAL_ACTUATION_FAILED" -> "LOCAL_ACTUATION_FAILED"
                [] raw = "  " -> Null]
=============================================================================
