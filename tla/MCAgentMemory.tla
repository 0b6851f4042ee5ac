---------------------------- MODULE MCAgentMemory ----------------------------
(***************************************************************************)
(* The instance of AgentMemory that TLC checks: an agent without a policy, *)
(* and with each of the policies and some chains, over a memory that can   *)
(* load the last messages and one that cannot.                             *)
(***************************************************************************)
EXTENDS AgentMemory

Window(n) == [kind |-> "window", first |-> 0, last |-> n]
Tokens(n) == [kind |-> "tokens", first |-> 0, last |-> n]
KeepFirstAndLast(m, n) == [kind |-> "ends", first |-> m, last |-> n]
NoHistory == [kind |-> "nothing", first |-> 0, last |-> 0]

Agent(policies, bounded, attempts, turns, atOnce) ==
  [policies |-> policies, bounded |-> bounded, attempts |-> attempts, turns |-> turns, atOnce |-> atOnce]

\* One turn after another, enough of them for the policy to trim.
Trimming(policies) == Agent(policies, TRUE, 1, 3, 1)

MCPinned == {Trimming(<<KeepFirstAndLast(1, 1)>>)}

MCSetups ==
  {Trimming(<<Window(3)>>), Trimming(<<Tokens(3)>>), Trimming(<<Window(3), Window(1)>>),
   Trimming(<<Window(2), NoHistory>>), Trimming(<<KeepFirstAndLast(1, 1)>>),
   Agent(<<>>, FALSE, 2, 3, 1), Agent(<<>>, TRUE, 2, 2, 2), Agent(<<Window(1)>>, TRUE, 2, 2, 1)}

=============================================================================
