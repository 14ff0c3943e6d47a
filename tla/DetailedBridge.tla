---------------------------- MODULE DetailedBridge ----------------------------
(***************************************************************************)
(* MatchBridge and ConfigFile put together: the prepare cycle of one       *)
(* process, with materialize_matchzy_config taken apart into its system    *)
(* calls.  Central and the game servers go on between any two of them, and *)
(* the process may die there.  The power does not fail.                    *)
(*                                                                         *)
(* MatchBridge takes the materializer for one step.  ImplementsBridge says *)
(* that nothing is lost by it where the process is alone: this module      *)
(* implements MatchBridge, the configurations being what the directories   *)
(* show.  DetailedTwo has two such processes.                              *)
(***************************************************************************)
EXTENDS JournalRows, Naturals

CONSTANTS Commands, Assignments, ServerKeys, Matches, Maps, Lineups, Rosters, Roster,
          Offers, Servers, MaxPolls, Faults,
          Processes,  \* the processes that write the directories
          This        \* the one this module is about

VARIABLES
    pc, claim, polls, result,                       \* as in MatchBridge
    journal, lease, reported, wire, loads, game, names, launches, calm,
    calls, path, want, temp, target, disk, raced    \* as in ConfigFile, calls is its pc

(* What the directories show of the configurations.                        *)
files ==
    [s \in Servers |-> [m \in Matches |->
        IF target[<<s, m>>] = Null THEN Null ELSE target[<<s, m>>].data]]

Bridge == INSTANCE MatchBridge

Store == INSTANCE ConfigFile WITH
             Bridges <- Processes, Paths <- Servers \X Matches, Contents <- Bridge!Configs,
             pc <- calls

DetailedConstants ==
    Bridge!BridgeConstants /\ Store!FileConstants /\ This \in Processes

cycle == <<pc, claim, polls, result>>
store == <<calls, path, want, temp, target, disk, raced>>
outside == <<journal, lease, reported, wire, loads, game, names, launches, calm>>
vars == <<cycle, outside, store>>

Init == Store!Init /\ Bridge!Init

-----------------------------------------------------------------------------
(* mark_applying, and the call of the materializer.                        *)
MarkApplying ==
    /\ pc = "received"
    /\ Store!Begin(This, <<claim.server, claim.match>>, Bridge!Config(claim))
    /\ Bridge!MarkApplying

(* The next system call, and what the cycle makes of its outcome.          *)
Call ==
    \/ Store!Look(This) \/ Store!Read(This)
    \/ Store!MakeDirectory(This) \/ Store!MakeTemp(This)
    \/ Store!Write(This) \/ Store!Sync(This)
    \/ Store!Replace(This) \/ Store!ReplaceFails(This) \/ Store!CleanUp(This)
    \/ Store!Die(This)

Goes == calls[This]
Comes == calls'[This]

(* The file is in place: the load is next.                                 *)
Returns == Comes = "stored" /\ Bridge!Goto("load")

(* Divergent content or an OSError: MatchZyActuationError with             *)
(* execution_uncertain=False, after the temporary file was removed.        *)
Raises ==
    /\ Comes \in {"cleanup", "failed"} /\ Goes # "cleanup"
    /\ Bridge!May("disk") \/ (Goes = "read" /\ ~Store!Holds(This))
    /\ Bridge!Goto("fail")

(* An OSError of mkstemp, or the end of the process.                       *)
Exits ==
    /\ Comes = "dead"
    /\ Bridge!May("crash") \/ (Goes = "mkstemp" /\ Bridge!May("mkstemp"))
    /\ Bridge!Leave("down")

GoesOn ==
    /\ \/ Comes \notin {"stored", "failed", "cleanup", "dead"}
       \/ Goes = "cleanup" /\ Comes = "failed"
    /\ UNCHANGED cycle

Materialize ==
    /\ Store!AtWork(This)
    /\ Call
    /\ Returns \/ Raises \/ Exits \/ GoesOn
    /\ UNCHANGED outside

(* Everything else the bridge does, it does when the materializer is done. *)
Elsewhere ==
    /\ ~Store!AtWork(This)
    /\ UNCHANGED store
    /\ \/ Bridge!Restart
       \/ \E o \in Offers : Bridge!Claim(o)
       \/ Bridge!Proceed
       \/ Bridge!Fail
    /\ pc' # "materialize"

Environment == UNCHANGED store /\ Bridge!Environment

Step == MarkApplying \/ Materialize \/ Elsewhere

Next == Step \/ Environment

Spec == Init /\ [][Next]_vars

-----------------------------------------------------------------------------
(* Where the cycle stands while a system call is under way, beside others: *)
(* a file another process wrote meanwhile stays.                           *)
Joint ==
    /\ Store!FileInv
    /\ pc = "materialize" =>
          /\ Goes \in {"exists", "read", "mkdir", "mkstemp", "write", "fsync", "replace"}
          /\ path[This] = <<claim.server, claim.match>>
          /\ want[This] = Bridge!Config(claim)
    /\ Store!AtWork(This) =>
          /\ pc = IF Goes = "cleanup" THEN "fail" ELSE "materialize"
          /\ This \in raced => target[path[This]] # Null
    /\ Processes = {This} => raced = {}

-----------------------------------------------------------------------------
(* Alone, the cycle with every system call of the materializer is one of   *)
(* MatchBridge's: a file that appears was missing when its bytes were      *)
(* complete, one that is reused holds the command's content, an error      *)
(* between two calls leaves the directory as it was                        *)
(* (matchzy_actuator.py:42-101).                                           *)
ImplementsBridge == Bridge!Spec

(* A load is only ever under way to a file that is in place, complete and  *)
(* synced, wherever in the materializer earlier cycles ended               *)
(* (matchzy_actuator.py:79-92).                                            *)
LoadsFindFiles ==
    \A l \in loads :
        LET file == target[<<l.server, l.match>>]
        IN  file # Null /\ file.whole /\ file.synced
=============================================================================
