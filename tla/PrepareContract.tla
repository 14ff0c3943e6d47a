--------------------------- MODULE PrepareContract ---------------------------
(***************************************************************************)
(* What Central relies on when it hands a PREPARE_MATCH command to a node: *)
(* the load is executed at most once; a command gets one outcome, however  *)
(* often it is told; after an outcome nothing is executed any more, and    *)
(* FAILED is only told of a command that was never executed, so that the   *)
(* match may safely be prepared by another command.                        *)
(***************************************************************************)
CONSTANT Commands
VARIABLES executed, told

contract == <<executed, told>>

Init ==
    /\ executed = [c \in Commands |-> FALSE]
    /\ told = [c \in Commands |-> {}]

Execute(c) ==
    /\ ~executed[c]
    /\ told[c] = {}
    /\ executed' = [executed EXCEPT ![c] = TRUE]
    /\ UNCHANGED told

Tell(c, outcome) ==
    /\ told[c] \subseteq {outcome}
    /\ outcome = "FAILED" => ~executed[c]
    /\ told' = [told EXCEPT ![c] = {outcome}]
    /\ UNCHANGED executed

Next == \E c \in Commands :
            Execute(c) \/ \E outcome \in {"SUCCEEDED", "FAILED"} : Tell(c, outcome)

Spec == Init /\ [][Next]_contract
=============================================================================
