-------------------------- MODULE CommandLifecycle --------------------------
(***************************************************************************)
(* What the journal promises of a command, whoever calls it and however    *)
(* often: it is received, its execution starts, it ends once.  No phase is *)
(* skipped and none is left backwards (src/README.md:52-58).               *)
(***************************************************************************)
CONSTANT Commands
VARIABLE phase

Init == phase = [c \in Commands |-> "ABSENT"]

Advance(c, from, to) == phase[c] = from /\ phase' = [phase EXCEPT ![c] = to]

Receive(c) == Advance(c, "ABSENT", "RECEIVED")
Start(c) == Advance(c, "RECEIVED", "APPLYING")
Finish(c) == Advance(c, "APPLYING", "SUCCEEDED") \/ Advance(c, "APPLYING", "FAILED")

Next == \E c \in Commands : Receive(c) \/ Start(c) \/ Finish(c)

Spec == Init /\ [][Next]_phase
=============================================================================
