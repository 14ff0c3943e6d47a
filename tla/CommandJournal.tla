--------------------------- MODULE CommandJournal ---------------------------
(***************************************************************************)
(* The durable journal of journal.py: one SQLite database, opened by any   *)
(* number of connections (the daemon `run`, the CLI `check`, a restarted   *)
(* daemon).  Every operation is one BEGIN IMMEDIATE transaction, hence one *)
(* action; an operation that raises is rolled back and is no step at all.  *)
(* What is NOT in the transaction is modelled apart: PRAGMA user_version   *)
(* is read before the transaction that creates the schema, and an operation*)
(* that wrote reads the entry it returns after its COMMIT.                 *)
(***************************************************************************)
EXTENDS JournalRows, Naturals

CONSTANTS
    Commands,     \* command_id
    Identities,   \* (assignment_id, server_key, runtime_match_id, command_type)
    RawCodes,     \* result_code as a caller passes it
    Trim,         \* str.strip() on RawCodes; Null for a blank code
    Payloads,     \* the result dictionaries a caller passes, serialized
    Instants,     \* what the wall clock may show; it may well go backwards
    Conns         \* connections

CurrentVersion == 1                  \* CURRENT_SCHEMA_VERSION
Versions == {0, CurrentVersion, 2}   \* new file, this release, a later one
Codes == {Trim[raw] : raw \in RawCodes} \ {Null}
Results == [code: Codes, json: Payloads \cup {Null}]

ASSUME JournalConstants ==
    /\ Null \notin Identities \cup Instants \cup Commands
    /\ Null \notin Results

VARIABLES
    version,   \* PRAGMA user_version
    table,     \* whether the table command_journal exists
    rows,      \* its rows: identity, state, result
    stamps,    \* their first_seen_at, execution_started_at, completed_at, updated_at
    conn,      \* where each connection is in _open_and_initialize
    call       \* the last operation each connection committed, and its entry

vars == <<version, table, rows, stamps, conn, call>>

StampRecord == [first_seen: Instants \cup {Null}, started: Instants \cup {Null},
                completed: Instants \cup {Null}, updated: Instants \cup {Null}]

NoStamps == [first_seen |-> Null, started |-> Null, completed |-> Null, updated |-> Null]

CallRecord == [command: Commands, asked: Identities \cup {Null},
               reached: CommandState, entry: Rows(Identities, Results) \cup {Null}]

TypeOK ==
    /\ version \in Versions
    /\ table \in BOOLEAN
    /\ rows \in [Commands -> Rows(Identities, Results)]
    /\ stamps \in [Commands -> StampRecord]
    /\ conn \in [Conns -> {"closed", "read_new", "read_current", "open"}]
    /\ call \in [Conns -> CallRecord \cup {Null}]

Init ==
    /\ version \in Versions
    /\ table = (version # 0)
    /\ rows = [c \in Commands |-> NoRow]
    /\ stamps = [c \in Commands |-> NoStamps]
    /\ conn = [p \in Conns |-> "closed"]
    /\ call = [p \in Conns |-> Null]

-----------------------------------------------------------------------------
(* _open_and_initialize, _initialize_and_check_schema                      *)

(* The version is read outside the transaction; another one is refused and *)
(* the connection closed (SchemaVersionError): no step.                    *)
ReadVersionUnchecked(p) ==                                     \* mutant
    /\ conn[p] = "closed"
    /\ conn' = [conn EXCEPT ![p] = IF version = 0 THEN "read_new" ELSE "read_current"]
    /\ UNCHANGED <<version, table, rows, stamps, call>>

ReadVersion(p) ==
    /\ conn[p] = "closed"
    /\ version \in {0, CurrentVersion}
    /\ conn' = [conn EXCEPT ![p] = IF version = 0 THEN "read_new" ELSE "read_current"]
    /\ UNCHANGED <<version, table, rows, stamps, call>>

(* CREATE TABLE IF NOT EXISTS, and for a new file the version as well.     *)
InitializeSchemaUnversioned(p) ==                              \* mutant
    /\ conn[p] \in {"read_new", "read_current"}
    /\ table' = TRUE
    /\ conn' = [conn EXCEPT ![p] = "open"]
    /\ UNCHANGED <<version, rows, stamps, call>>

InitializeSchemaAfresh(p) ==                                   \* mutant
    /\ conn[p] \in {"read_new", "read_current"}
    /\ table' = TRUE
    /\ version' = CurrentVersion
    /\ conn' = [conn EXCEPT ![p] = "open"]
    /\ rows' = IF conn[p] = "read_new" THEN [c \in Commands |-> NoRow] ELSE rows
    /\ UNCHANGED <<stamps, call>>

InitializeSchema(p) ==
    /\ conn[p] \in {"read_new", "read_current"}
    /\ table' = TRUE
    /\ version' = IF conn[p] = "read_new" THEN CurrentVersion ELSE version
    /\ conn' = [conn EXCEPT ![p] = "open"]
    /\ UNCHANGED <<rows, stamps, call>>

(* close(), or the death of the process: nothing committed is lost.        *)
Close(p) ==
    /\ conn[p] # "closed"
    /\ conn' = [conn EXCEPT ![p] = "closed"]
    /\ call' = [call EXCEPT ![p] = Null]
    /\ UNCHANGED <<version, table, rows, stamps>>

-----------------------------------------------------------------------------
(* A connection runs one operation at a time.                              *)
Ready(p) == conn[p] = "open" /\ (call[p] # Null => call[p].entry # Null)

(* The operation found nothing to write: it returns the row it selected.   *)
ReturnSelected(p, c, asked, reached) ==
    /\ call' = [call EXCEPT ![p] = [command |-> c, asked |-> asked,
                                    reached |-> reached, entry |-> rows[c]]]
    /\ UNCHANGED <<version, table, rows, stamps, conn>>

(* The operation wrote and committed: the entry is still to be read.       *)
Write(p, c, asked, row, stamp) ==
    /\ rows' = [rows EXCEPT ![c] = row]
    /\ stamps' = [stamps EXCEPT ![c] = stamp]
    /\ call' = [call EXCEPT ![p] = [command |-> c, asked |-> asked,
                                    reached |-> row.state, entry |-> Null]]
    /\ UNCHANGED <<version, table, conn>>

(* get(command_id) after the COMMIT.                                       *)
ReadBack(p) ==
    /\ conn[p] = "open"
    /\ call[p] # Null
    /\ call[p].entry = Null
    /\ call' = [call EXCEPT ![p].entry = rows[call[p].command]]
    /\ UNCHANGED <<version, table, rows, stamps, conn>>

ObserveTouching(p, c, identity) ==                             \* mutant
    /\ Ready(p)
    /\ ~Conflicts(rows[c], identity)
    /\ \E now \in Instants :
          Write(p, c, identity, Observed(rows[c], identity),
                [stamps[c] EXCEPT !.first_seen = IF @ = Null THEN now ELSE @,
                                  !.updated = now])

Observe(p, c, identity) ==
    /\ Ready(p)
    /\ ~Conflicts(rows[c], identity)          \* CommandConflictError
    /\ IF rows[c].state = "ABSENT"
       THEN \E now \in Instants :
                Write(p, c, identity, Observed(rows[c], identity),
                      [NoStamps EXCEPT !.first_seen = now, !.updated = now])
       ELSE ReturnSelected(p, c, identity, "RECEIVED")

MarkApplyingRestamping(p, c) ==                                \* mutant
    /\ Ready(p)
    /\ MayApply(rows[c])
    /\ \E now \in Instants :
          Write(p, c, Null, Applied(rows[c]), [stamps[c] EXCEPT !.started = now, !.updated = now])

MarkApplying(p, c) ==
    /\ Ready(p)
    /\ MayApply(rows[c])                      \* InvalidStateTransitionError, JournalError
    /\ IF rows[c].state = "RECEIVED"
       THEN \E now \in Instants :
                Write(p, c, Null, Applied(rows[c]),
                      [stamps[c] EXCEPT !.started = now, !.updated = now])
       ELSE ReturnSelected(p, c, Null, "APPLYING")

(* mark_succeeded and mark_failed are the same code with the terminal      *)
(* states exchanged.  A blank code is refused before the transaction.      *)
Complete(p, c, state, raw, payload) ==
    LET result == [code |-> Trim[raw], json |-> payload]
    IN  /\ Ready(p)
        /\ Trim[raw] # Null                   \* CommandValidationError
        /\ MayComplete(rows[c], state, result)
        /\ IF rows[c].state = "APPLYING"
           THEN \E now \in Instants :
                    Write(p, c, Null, Completed(rows[c], state, result),
                          [stamps[c] EXCEPT !.completed = now, !.updated = now])
           ELSE ReturnSelected(p, c, Null, state)

MarkSucceeded(p, c, raw, payload) == Complete(p, c, "SUCCEEDED", raw, payload)
MarkFailed(p, c, raw, payload) == Complete(p, c, "FAILED", raw, payload)

Next ==
    \E p \in Conns :
        \/ ReadVersion(p)
        \/ InitializeSchema(p)
        \/ Close(p)
        \/ ReadBack(p)
        \/ \E c \in Commands :
              \/ \E identity \in Identities : Observe(p, c, identity)
              \/ MarkApplying(p, c)
              \/ \E raw \in RawCodes, payload \in Payloads \cup {Null} :
                    MarkSucceeded(p, c, raw, payload) \/ MarkFailed(p, c, raw, payload)

Spec == Init /\ [][Next]_vars

-----------------------------------------------------------------------------
Stage == [ABSENT |-> 0, RECEIVED |-> 1, APPLYING |-> 2, SUCCEEDED |-> 3, FAILED |-> 3]

(* The nullable columns and updated_at follow the state: an execution has  *)
(* a start exactly when it was started, an end exactly when it ended, and  *)
(* updated_at is the stamp of the last transition (idempotent repetitions  *)
(* leave no trace).                                                        *)
StampsTellTheState ==
    \A c \in Commands :
        LET s == stamps[c]
        IN  /\ (s.first_seen # Null) <=> (Stage[rows[c].state] >= 1)
            /\ (s.started # Null) <=> (Stage[rows[c].state] >= 2)
            /\ (s.completed # Null) <=> (Stage[rows[c].state] = 3)
            /\ s.updated = CASE Stage[rows[c].state] <= 1 -> s.first_seen
                             [] Stage[rows[c].state] = 2 -> s.started
                             [] Stage[rows[c].state] = 3 -> s.completed

(* The entry an operation returns is of the identity the caller claimed,   *)
(* and shows at least the state its transaction reached, although it is    *)
(* read after the COMMIT, when another connection may have written: the    *)
(* daemon decides from entry.state whether to actuate.                     *)
EntryAnswersTheCall ==
    \A p \in Conns :
        (call[p] # Null /\ call[p].entry # Null) =>
            LET k == call[p]
            IN  /\ k.asked # Null => k.entry.identity = k.asked
                /\ Stage[k.entry.state] >= Stage[k.reached]
                /\ k.reached \in Terminal => k.entry.state = k.reached

(* An open connection works on a database of this release's schema.        *)
OpenMeansCurrentSchema ==
    \A p \in Conns : conn[p] = "open" => version = CurrentVersion /\ table

(* A database of another release keeps its version, schema and rows: it is *)
(* refused before anything but the WAL mode is set (journal.py:137-141).   *)
OtherReleaseUntouched ==
    [][version \notin {0, CurrentVersion} => UNCHANGED <<version, table, rows, stamps>>]_vars

(* What has been recorded stays recorded: an identity and the first stamps *)
(* never change, a terminal row never changes at all, whatever calls come  *)
(* after it and whatever connection opens the file.                        *)
RecordsAreKept ==
    [][\A c \in Commands :
          /\ rows[c].state # "ABSENT" =>
                /\ rows'[c].identity = rows[c].identity
                /\ stamps'[c].first_seen = stamps[c].first_seen
          /\ rows[c].state = "APPLYING" => stamps'[c].started = stamps[c].started
          /\ rows[c].state \in Terminal =>
                rows'[c] = rows[c] /\ stamps'[c] = stamps[c]]_vars

(* The journal implements the life cycle of a command.                     *)
Lifecycle == INSTANCE CommandLifecycle WITH phase <- [c \in Commands |-> rows[c].state]
ImplementsLifecycle == Lifecycle!Spec
=============================================================================
