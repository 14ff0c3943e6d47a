------------------------------ MODULE ConfigFile ------------------------------
(***************************************************************************)
(* materialize_matchzy_config, system call by system call: bridges that    *)
(* put configurations under the names hsc-match-bridge/<match>.json.       *)
(* MatchBridge takes this for one step; here it is taken apart, with the   *)
(* process dying and the power failing between any two calls, and with     *)
(* several bridges at it at the same time.  DetailedBridge puts the two    *)
(* together.                                                               *)
(*                                                                         *)
(* target is what the directories show, disk what a power failure leaves   *)
(* of them.  The code syncs the file but not the directory.                *)
(* A definition marked "mutant" is not part of the model: it is a bug that *)
(* the definition after it must not have (see README.md).                  *)
(***************************************************************************)
CONSTANTS
    Bridges,    \* processes that may write the files
    Paths,      \* the files: of each server, one for each match
    Contents,   \* what serialize_matchzy_config makes of the offered commands
    Null

(* A file of which less than all was written is torn.                      *)
File == [data: Contents, whole: BOOLEAN, synced: BOOLEAN]

ASSUME FileConstants == Null \notin File

VARIABLES
    pc,         \* of each bridge: the next call
    path,       \* of each bridge: the file it is at
    want,       \* of each bridge: the content it is to put there
    temp,       \* of each bridge: its temporary file, or Null
    target,     \* the file under each name, or Null
    disk,       \* the file the directory on disk has for each name, or Null
    raced       \* bridges that were overtaken by another since they began

vars == <<pc, path, want, temp, target, disk, raced>>

Labels == {"idle", "exists", "read", "mkdir", "mkstemp", "write", "fsync", "replace",
           "cleanup", "stored", "failed", "dead"}

TypeOK ==
    /\ pc \in [Bridges -> Labels]
    /\ path \in [Bridges -> Paths]
    /\ want \in [Bridges -> Contents]
    /\ temp \in [Bridges -> File \cup {Null}]
    /\ target \in [Paths -> File \cup {Null}]
    /\ disk \in [Paths -> File \cup {Null}]
    /\ raced \in SUBSET Bridges

Init ==
    /\ pc = [b \in Bridges |-> "idle"]
    /\ path \in [Bridges -> Paths]
    /\ want \in [Bridges -> Contents]
    /\ temp = [b \in Bridges |-> Null]
    /\ target = [n \in Paths |-> Null] /\ disk = target
    /\ raced = {}

Goto(b, label) == pc' = [pc EXCEPT ![b] = label]
At(b, label) == pc[b] = label

AtWork(b) == pc[b] \notin {"idle", "stored", "failed", "dead"}

(* What another bridge changes overtakes all that are on their way there.  *)
Overtaken(b) ==
    IF temp[b] = target[path[b]] THEN {}
    ELSE {a \in Bridges \ {b} : AtWork(a) /\ path[a] = path[b]}

-----------------------------------------------------------------------------
(* A cycle reaches the materializer with some command.  A bridge that died *)
(* has been restarted by then; the name of its temporary file is not used  *)
(* again, nor is the file removed.                                         *)
Begin(b, n, content) ==
    /\ ~AtWork(b)
    /\ path' = [path EXCEPT ![b] = n]
    /\ want' = [want EXCEPT ![b] = content]
    /\ temp' = [temp EXCEPT ![b] = Null]
    /\ raced' = raced \ {b}
    /\ Goto(b, "exists")
    /\ UNCHANGED <<target, disk>>

LookUnchecked(b) ==                                            \* mutant
    /\ At(b, "exists")
    /\ Goto(b, "mkdir")
    /\ UNCHANGED <<path, want, temp, target, disk, raced>>

(* target_file.exists()                                                    *)
Look(b) ==
    /\ At(b, "exists")
    /\ Goto(b, IF target[path[b]] = Null THEN "mkdir" ELSE "read")
    /\ UNCHANGED <<path, want, temp, target, disk, raced>>

Holds(b) == target[path[b]] # Null /\ target[path[b]].data = want[b]

ReadTrusting(b) ==                                             \* mutant
    /\ At(b, "read")
    /\ Goto(b, "stored")
    /\ UNCHANGED <<path, want, temp, target, disk, raced>>

(* read_bytes, and the comparison: the file is reused, or the command      *)
(* fails.  Reading itself may fail, too.                                   *)
Read(b) ==
    /\ At(b, "read")
    /\ \/ Holds(b) /\ target[path[b]].whole /\ Goto(b, "stored")
       \/ Goto(b, "failed")
    /\ UNCHANGED <<path, want, temp, target, disk, raced>>

MakeDirectory(b) ==
    /\ At(b, "mkdir")
    /\ Goto(b, "mkstemp") \/ Goto(b, "failed")
    /\ UNCHANGED <<path, want, temp, target, disk, raced>>

(* An error of mkstemp is not caught: the process exits.                   *)
MakeTemp(b) ==
    /\ At(b, "mkstemp")
    /\ \/ /\ temp' = [temp EXCEPT ![b] = [data |-> want[b], whole |-> FALSE, synced |-> FALSE]]
          /\ Goto(b, "write")
       \/ /\ Goto(b, "dead")
          /\ UNCHANGED temp
    /\ UNCHANGED <<path, want, target, disk, raced>>

WriteUnsynced(b) ==                                            \* mutant
    /\ At(b, "write")
    /\ temp' = [temp EXCEPT ![b].whole = TRUE]
    /\ Goto(b, "replace")
    /\ UNCHANGED <<path, want, target, disk, raced>>

(* write and flush, or an error, for instance a full disk.                 *)
Write(b) ==
    /\ At(b, "write")
    /\ \/ /\ temp' = [temp EXCEPT ![b].whole = TRUE]
          /\ Goto(b, "fsync")
       \/ /\ Goto(b, "cleanup")
          /\ UNCHANGED temp
    /\ UNCHANGED <<path, want, target, disk, raced>>

Sync(b) ==
    /\ At(b, "fsync")
    /\ \/ /\ temp' = [temp EXCEPT ![b].synced = TRUE]
          /\ Goto(b, "replace")
       \/ /\ Goto(b, "cleanup")
          /\ UNCHANGED temp
    /\ UNCHANGED <<path, want, target, disk, raced>>

(* temp_path.replace(target_file), whatever is there by now.               *)
Replace(b) ==
    /\ At(b, "replace")
    /\ target' = [target EXCEPT ![path[b]] = temp[b]]
    /\ temp' = [temp EXCEPT ![b] = Null]
    /\ raced' = raced \cup Overtaken(b)
    /\ Goto(b, "stored")
    /\ UNCHANGED <<path, want, disk>>

ReplaceFails(b) ==
    /\ At(b, "replace")
    /\ Goto(b, "cleanup")
    /\ UNCHANGED <<path, want, temp, target, disk, raced>>

(* unlink, whose own failure is ignored.                                   *)
CleanUp(b) ==
    /\ At(b, "cleanup")
    /\ Goto(b, "failed")
    /\ temp' \in {temp, [temp EXCEPT ![b] = Null]}
    /\ UNCHANGED <<path, want, target, disk, raced>>

-----------------------------------------------------------------------------
(* The process dies; its temporary file stays.                             *)
Die(b) ==
    /\ pc[b] \notin {"idle", "dead"}
    /\ Goto(b, "dead")
    /\ UNCHANGED <<path, want, temp, target, disk, raced>>

(* The kernel writes an entry of the directory back.                       *)
Flush(n) ==
    /\ disk[n] # target[n]
    /\ disk' = [disk EXCEPT ![n] = target[n]]
    /\ UNCHANGED <<pc, path, want, temp, target, raced>>

(* Files that were not synced may come back torn.                          *)
Remains(file) == IF file = Null \/ file.synced THEN {file}
                 ELSE {file, [file EXCEPT !.whole = FALSE]}

PowerFails ==
    /\ target' \in [Paths -> UNION {Remains(disk[n]) : n \in Paths}]
    /\ \A n \in Paths : target'[n] \in Remains(disk[n])
    /\ disk' = target'
    /\ pc' = [b \in Bridges |-> "dead"]
    /\ temp' = [b \in Bridges |-> Null]
    /\ raced' = {}
    /\ UNCHANGED <<path, want>>

-----------------------------------------------------------------------------
Step(b) ==
    \/ \E n \in Paths, content \in Contents : Begin(b, n, content)
    \/ Look(b) \/ Read(b)
    \/ MakeDirectory(b) \/ MakeTemp(b) \/ Write(b) \/ Sync(b)
    \/ Replace(b) \/ ReplaceFails(b) \/ CleanUp(b)
    \/ Die(b)

Next ==
    \/ \E b \in Bridges : Step(b)
    \/ \E n \in Paths : Flush(n)
    \/ PowerFails

Spec == Init /\ [][Next]_vars

-----------------------------------------------------------------------------
(* What a bridge may rely on between two calls: its temporary file is its  *)
(* own, whatever has its name was synced, and what it saw when it looked   *)
(* is still so, unless it was overtaken.                                   *)
Temps ==
    \A b \in Bridges :
        /\ pc[b] \in {"write", "fsync", "replace"} => temp[b] # Null /\ temp[b].data = want[b]
        /\ pc[b] \in {"fsync", "replace"} => temp[b].whole
        /\ pc[b] = "replace" => temp[b].synced

Named ==
    \A n \in Paths : \A file \in {target[n], disk[n]} :
        file # Null => file.whole /\ file.synced

Looks ==
    \A b \in Bridges \ raced :
        /\ pc[b] \in {"mkdir", "mkstemp", "write", "fsync", "replace"} => target[path[b]] = Null
        /\ pc[b] = "read" => target[path[b]] # Null

FileInv == TypeOK /\ Temps /\ Named /\ Looks

(* The game server never finds half a configuration, not even after the    *)
(* power failed (matchzy_actuator.py:79, f.flush and os.fsync before the   *)
(* replace).                                                               *)
TargetIsWhole == \A n \in Paths : target[n] # Null => target[n].whole

(* A bridge that goes on to the load has its content on disk under the     *)
(* name it loads, unless another bridge was at the same file meanwhile.    *)
StoredMeansThere ==
    [][\A b \in Bridges : pc[b] # "stored" /\ pc'[b] = "stored" =>
           \/ Holds(b)'
           \/ b \in raced]_vars

(* A configuration that is there is replaced only by a bridge that found   *)
(* none when it looked and was overtaken since (matchzy_actuator.py:42),   *)
(* or goes back to what was on disk when the power fails.                  *)
OnlyRacersOverwrite ==
    [][\A n \in Paths : target[n] # Null /\ target'[n] # target[n] =>
           \/ \E b \in raced : pc[b] = "replace" /\ path[b] = n
           \/ \A b \in Bridges : pc'[b] = "dead"]_vars
=============================================================================
