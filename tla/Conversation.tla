---------------------------- MODULE Conversation ----------------------------
(***************************************************************************)
(* What a tool loop promises (tools/tools.go): the model is asked only     *)
(* with a conversation in which every tool call has been answered, each    *)
(* assistant turn with calls being followed at once by one turn that       *)
(* answers all of them in their order; and it is asked a bounded number of *)
(* times.  The conversation ends with a turn without calls, with a         *)
(* handoff instead of the answers, or in a failure.                        *)
(* ToolLoop implements this specification.                                 *)
(***************************************************************************)
EXTENDS Integers, Sequences

CONSTANTS Call,       \* the tool calls a model can make
          Rounds      \* how often it may be asked

VARIABLES messages,   \* the turns added to the request's own
          phase,      \* who is to act
          asked       \* how often the model was asked

conversationVars == <<messages, phase, asked>>

Answered(calls) == [by |-> "tool", calls |-> calls]

ConversationInit == messages = <<>> /\ phase = "loop" /\ asked = 0

Ask ==
  /\ phase = "loop" /\ asked < Rounds
  /\ phase' = "model" /\ asked' = asked + 1
  /\ UNCHANGED messages

\* The model's turn: with calls, with text only, or empty.
Reply ==
  /\ phase = "model"
  /\ \/ \E text \in BOOLEAN :
          /\ messages' # messages
          /\ LET calls == messages'[Len(messages')].calls
             IN  /\ calls \in Seq(Call)
                 /\ messages' = Append(messages, [by |-> "assistant", text |-> text, calls |-> calls])
                 /\ phase' = IF calls = <<>> THEN "final" ELSE "tools"
     \/ messages' = messages /\ phase' = "final"
  /\ UNCHANGED asked

Answer ==
  /\ phase = "tools"
  /\ messages' = Append(messages, Answered(messages[Len(messages)].calls))
  /\ phase' = "loop"
  /\ UNCHANGED asked

HandOff == phase = "tools" /\ phase' = "handoff" /\ UNCHANGED <<messages, asked>>

Fail ==
  /\ phase \in {"loop", "model", "tools", "handoff"}
  /\ phase' = "failed"
  /\ UNCHANGED <<messages, asked>>

ConversationNext == Ask \/ Reply \/ Answer \/ HandOff \/ Fail

ConversationSpec == ConversationInit /\ [][ConversationNext]_conversationVars

=============================================================================
