------------------------------ MODULE TwoBridges ------------------------------
(***************************************************************************)
(* Two daemons with one credential, one journal and one game directory: a  *)
(* manual `hsc-match-bridge run` beside the service.  Nothing in the code  *)
(* keeps the second one from starting.  Each is a MatchBridge of its own;  *)
(* they share the journal, Central, the disk and the game servers.         *)
(* src/README.md:15 says that a process corresponds to a bridgeNodeKey:    *)
(* this module says what is left of the bridge's promises when two do.     *)
(* A definition marked "mutant" is not part of the model: it is a bug that *)
(* the definition after it must not have (see README.md).                  *)
(***************************************************************************)
EXTENDS JournalRows, Naturals

CONSTANTS Commands, Assignments, ServerKeys, Matches, Maps, Lineups, Rosters, Roster,
          Offers, Servers, MaxPolls, Faults

VARIABLES
    pcA, claimA, pollsA, resultA,   \* one process
    pcB, claimB, pollsB, resultB,   \* the other
    journal, lease, reported, wire, files, loads, game, names, launches, calm,
    overtaken   \* processes about to write a file the other has written meanwhile

A == INSTANCE MatchBridge WITH pc <- pcA, claim <- claimA, polls <- pollsA, result <- resultA
B == INSTANCE MatchBridge WITH pc <- pcB, claim <- claimB, polls <- pollsB, result <- resultB

ASSUME TwoConstants == A!BridgeConstants

bridgeA == <<pcA, claimA, pollsA, resultA>>
bridgeB == <<pcB, claimB, pollsB, resultB>>
outside == <<lease, reported, wire, loads, game, names, launches, calm>>
vars == <<bridgeA, bridgeB, journal, files, outside, overtaken>>

Init == A!Init /\ B!Init /\ overtaken = {}

-----------------------------------------------------------------------------
(* Between the look at the file and its replacement the other process may  *)
(* have written it: it is replaced nevertheless (ConfigFile, raced).       *)
SameFile ==
    /\ pcA = "materialize" /\ pcB = "materialize"
    /\ claimA.server = claimB.server /\ claimA.match = claimB.match

OverwriteA ==
    /\ "A" \in overtaken
    /\ files' = [files EXCEPT ![claimA.server][claimA.match] = A!Config(claimA)]
    /\ A!Goto("load")
    /\ UNCHANGED <<journal, outside>>

OverwriteB ==
    /\ "B" \in overtaken
    /\ files' = [files EXCEPT ![claimB.server][claimB.match] = B!Config(claimB)]
    /\ B!Goto("load")
    /\ UNCHANGED <<journal, outside>>

(* mkstemp fails, too, where the other has written the file meanwhile.     *)
DeniedA ==
    /\ "A" \in overtaken
    /\ A!May("mkstemp")
    /\ A!Leave("down")
    /\ UNCHANGED <<journal, files, outside>>

DeniedB ==
    /\ "B" \in overtaken
    /\ B!May("mkstemp")
    /\ B!Leave("down")
    /\ UNCHANGED <<journal, files, outside>>

(* A process leaves "materialize" with its next step.                      *)
Overtakes(this, other) ==
    overtaken' = (overtaken \ {this})
                   \cup {p \in {other} : SameFile /\ files' # files}

StepA ==
    /\ \/ A!Restart
       \/ \E o \in Offers : A!Claim(o)
       \/ A!Proceed
       \/ A!Fail
       \/ OverwriteA \/ DeniedA
    /\ Overtakes("A", "B")
    /\ UNCHANGED bridgeB

StepB ==
    /\ \/ B!Restart
       \/ \E o \in Offers : B!Claim(o)
       \/ B!Proceed
       \/ B!Fail
       \/ OverwriteB \/ DeniedB
    /\ Overtakes("B", "A")
    /\ UNCHANGED bridgeA

(* Central and the game servers do not know how many bridges there are.    *)
Environment ==
    /\ \/ \E c \in Commands : A!LeaseExpires(c)
       \/ \E m \in wire : A!DeliverLate(m)
       \/ \E l \in loads : A!ServerLoads(l) \/ A!ServerDropsLoad(l)
       \/ \E s \in Servers :
             \/ \E map \in Maps : A!ServerChangesMap(s, map)
             \/ A!ServerWritesNames(s)
             \/ A!ServerResets(s)
    /\ UNCHANGED <<bridgeB, overtaken>>

Next == StepA \/ StepB \/ Environment

Spec == Init /\ [][Next]_vars

-----------------------------------------------------------------------------
(* Central never hears two outcomes of a command, although both processes  *)
(* may conclude it, one FAILED and the other PREPARED: the journal lets    *)
(* the first have it, and the other one exits (journal.py:297).            *)
OneTruth == A!OneTruth

(* Neither launches a load before some process recorded the intent, and    *)
(* the record is never taken back (orchestration.py:195).                  *)
IntentBeforeEffect == A!IntentBeforeEffect

(* mark_applying is idempotent, so both may launch the load of one command *)
(* (journal.py:236).  A command is launched twice in all and never again,  *)
(* however often either process is restarted or Central offers it.         *)
TwoLaunchesInAll == \A c \in Commands : launches[c] <= 2

(* A command is PREPARED only if its server was sent a load of its match,  *)
(* by whichever process: the evidence goes back to a load of one of them.  *)
(* That the roster is the one asked for is lost, see README.md.            *)
PreparedMeansLaunched ==
    \A c \in Commands : journal[c].state = "SUCCEEDED" => A!LaunchedFor(journal[c].identity)

(* The one journal still follows the life cycle.                           *)
ImplementsLifecycle == A!ImplementsLifecycle
=============================================================================
