---------------------------- MODULE MCOrchestrate ----------------------------
(***************************************************************************)
(* The instances of Orchestrate that TLC checks: three agents in the       *)
(* workflows, called and handed off to.                                    *)
(***************************************************************************)
EXTENDS Orchestrate

Call(kind, n, talk) == [kind |-> kind, n |-> n, entry |-> "call", talk |-> talk]
HandoffTo(kind, n) == [kind |-> kind, n |-> n, entry |-> "handoff", talk |-> TRUE]

MCFlows == {Call("fan", 2, FALSE), Call("race", 3, FALSE), Call("fan_then", 3, TRUE),
            HandoffTo("agent", 1), HandoffTo("race", 2), HandoffTo("sequence", 2)}

=============================================================================
