---------------------------- MODULE JournalRows ----------------------------
(***************************************************************************)
(* One row of the table command_journal (journal.py) and what the four     *)
(* operations of CommandJournal make of it, as functions from the row the  *)
(* SELECT of the operation found to the row its transaction leaves.  A     *)
(* command the table has no row for has NoRow.  "result" stands for the    *)
(* pair (result_code, result_json); the stamps are in CommandJournal.tla.  *)
(***************************************************************************)
CONSTANT Null   \* SQL NULL, and "no value" wherever the code has None

Terminal == {"SUCCEEDED", "FAILED"}
CommandState == {"RECEIVED", "APPLYING"} \cup Terminal

NoRow == [identity |-> Null, state |-> "ABSENT", result |-> Null]

(* Every row the table can hold: an open command has no result yet, a      *)
(* terminal one has.                                                       *)
Rows(Identities, Results) ==
    {NoRow}
      \cup [identity: Identities, state: {"RECEIVED", "APPLYING"}, result: {Null}]
      \cup [identity: Identities, state: Terminal, result: Results]

(* observe: the immutable identity of a known command must match.          *)
ConflictsUnchecked(row, identity) == FALSE                     \* mutant

Conflicts(row, identity) == row.state # "ABSENT" /\ row.identity # identity

ObservedAnew(row, identity) ==                                 \* mutant
    [identity |-> identity, state |-> "RECEIVED", result |-> Null]

Observed(row, identity) ==
    IF row.state = "ABSENT"
    THEN [identity |-> identity, state |-> "RECEIVED", result |-> Null]
    ELSE row

(* mark_applying: from RECEIVED, and idempotent on APPLYING.               *)
MayApply(row) == row.state \in {"RECEIVED", "APPLYING"}

Applied(row) == [row EXCEPT !.state = "APPLYING"]

(* mark_succeeded and mark_failed: from APPLYING, and idempotent on the    *)
(* same terminal state with the same result.                               *)
MayCompleteAgain(row, state, result) ==                        \* mutant
    row.state \in {"APPLYING"} \cup Terminal

MayComplete(row, state, result) ==
    \/ row.state = "APPLYING"
    \/ row.state = state /\ row.result = result

Completed(row, state, result) ==
    [identity |-> row.identity, state |-> state, result |-> result]
=============================================================================
