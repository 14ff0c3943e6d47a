------------------------------ MODULE DetailedTwo ------------------------------
(***************************************************************************)
(* TwoBridges and ConfigFile put together: two daemons on one journal and  *)
(* one game directory, each a DetailedBridge, that meet at every system    *)
(* call of their materializers.                                            *)
(*                                                                         *)
(* TwoBridges takes the materializer for one step and says by hand         *)
(* (overtaken) what two of them may do to each other's file.               *)
(* ImplementsTwo says that they can do no more than that.                  *)
(***************************************************************************)
EXTENDS JournalRows, Naturals

CONSTANTS Commands, Assignments, ServerKeys, Matches, Maps, Lineups, Rosters, Roster,
          Offers, Servers, MaxPolls, Faults

VARIABLES
    pcA, claimA, pollsA, resultA, pcB, claimB, pollsB, resultB,
    journal, lease, reported, wire, loads, game, names, launches, calm,
    calls, path, want, temp, target, disk, raced

Processes == {"A", "B"}

A == INSTANCE DetailedBridge WITH
         This <- "A", pc <- pcA, claim <- claimA, polls <- pollsA, result <- resultA
B == INSTANCE DetailedBridge WITH
         This <- "B", pc <- pcB, claim <- claimB, polls <- pollsB, result <- resultB

ASSUME DetailedTwoConstants == A!DetailedConstants

cycleA == <<pcA, claimA, pollsA, resultA>>
cycleB == <<pcB, claimB, pollsB, resultB>>
vars == <<cycleA, cycleB, A!outside, A!store>>

Init == A!Init /\ B!Init

StepA == A!Step /\ UNCHANGED cycleB

StepB == B!Step /\ UNCHANGED cycleA

Environment == A!Environment /\ UNCHANGED <<cycleB, calm>>

Next == StepA \/ StepB \/ Environment

Spec == Init /\ [][Next]_vars

-----------------------------------------------------------------------------
(* What TwoBridges takes for one step is here a row of system calls, with  *)
(* those of the other process in between: a process replaces what the      *)
(* other has written since its look, and otherwise finds the directory as  *)
(* it saw it (matchzy_actuator.py:42-84).                                  *)
files == A!files

overtaken == {p \in raced : (IF p = "A" THEN pcA ELSE pcB) = "materialize"}

Two == INSTANCE TwoBridges
ImplementsTwo == Two!Spec

(* A load is only ever under way to a file that is in place, complete and  *)
(* synced, whichever process sent it, and wherever either of them died or  *)
(* was overtaken (matchzy_actuator.py:79-92).                              *)
LoadsFindFiles == A!LoadsFindFiles
=============================================================================
