------------------------------ MODULE ToolLoop ------------------------------
(***************************************************************************)
(* tools/tools.go: the loop that runs a model's tool calls and asks it     *)
(* again with the results; tools/tooling.go: the Toolset that executes     *)
(* them.  Three kinds of goroutine: the loop, which reads the model's      *)
(* stream and writes the caller's; in parallel mode one per call, started  *)
(* while the stream is still being read and never waited for when the loop *)
(* gives up; and those that change the Toolset meanwhile.                  *)
(*                                                                         *)
(* The model and its stream are the environment: a stream delivers what    *)
(* was emitted (FrameChannel) and may end early in an error.  The handler  *)
(* of a tool and the approvers are callbacks, which return anything, or    *)
(* never.                                                                  *)
(***************************************************************************)
EXTENDS Integers, Sequences, FiniteSets

CONSTANTS
  Modes,       \* the options the loop is run with
  MaxRounds,   \* ToolStreamOptions.MaxRounds
  OutSize,     \* ToolStreamOptions.StreamBuffer
  MaxCalls,    \* bound: calls in a response
  MaxChanges   \* bound: changes of the Toolset's approver

\* parallel, emitResults and approver (set or not) as in ToolStreamOptions,
\* choice as in the request.
Mode == [parallel : BOOLEAN, emitResults : BOOLEAN, approver : BOOLEAN, choice : {"auto", "required"}]

ASSUME ModeAssumption == Modes \subseteq Mode
ASSUME ToolBounds ==
  /\ MaxRounds \in Nat \ {0} /\ OutSize \in Nat \ {0}
  /\ MaxCalls \in Nat /\ MaxChanges \in Nat

\* A call is named by its round and its place in the response.
Call == (1 .. MaxRounds) \X (1 .. MaxCalls)
NoCall == <<0, 0>>

LoopFrame == [kind : {"text", "call", "usage", "result", "handoff"}, call : Call \cup {NoCall}]
Outcome == {"ok", "error", "handoff"}

VARIABLES
  opts,       \* the loop's options
  pc,         \* where the loop is
  round,      \* rounds that are over
  calls,      \* how many toolCalls this round has
  text,       \* assistantText is not empty
  used,       \* usage of this round's stream
  held,       \* the frame being emitted
  results,    \* results collected
  answered,   \* tool results emitted
  messages,   \* the turns added to the request's
  tool,       \* where the execution of each call of this round is, or its outcome
  setGate,    \* the Toolset has an approver
  changes,    \* changes of it so far
  cancelled,  \* the caller's context is done
  sent,       \* the frames of the caller's stream, in order
  taken,      \* how many of them the caller has received
  closed, err, resp,  \* the end of the caller's stream, its error, its response
  total,      \* history: the usage of all rounds
  asked,      \* history: Generate calls that returned a stream
  consent,    \* history: the approvals each call of this round got
  guarded,    \* history: those before whose handler setGate has always held
  eager       \* history: the model called a tool without being forced to

loop == <<pc, round, calls, text, used, held, results, answered>>
toolset == <<setGate, changes>>
out == <<sent, taken, closed, err, resp>>
gates == <<consent, guarded>>
vars == <<opts, loop, messages, tool, toolset, cancelled, out, total, asked, gates, eager>>

Turn == [by : {"assistant"}, text : BOOLEAN, calls : Seq(Call)] \cup [by : {"tool"}, calls : Seq(Call)]

Places == {"generate", "reading", "emit", "usage", "ended", "collect", "handoff", "handedOff", "answer", "done"}
Running == {"loopGate", "lookup", "setGate", "handler"}

LoopType ==
  /\ opts \in Modes /\ pc \in Places /\ round \in 0 .. MaxRounds
  /\ calls \in 0 .. MaxCalls /\ text \in BOOLEAN /\ used \in Nat
  /\ held \in LoopFrame
  /\ results \in Seq(Outcome) /\ Len(results) <= calls /\ answered \in 0 .. Len(results)

TalkType ==
  /\ messages \in Seq(Turn) /\ asked \in 0 .. MaxRounds /\ total \in Nat /\ eager \in BOOLEAN

ToolType ==
  /\ tool \in [1 .. MaxCalls -> {"idle"} \cup Running \cup Outcome]
  /\ setGate \in BOOLEAN /\ changes \in 0 .. MaxChanges
  /\ consent \in [1 .. MaxCalls -> SUBSET {"loop", "set"}] /\ guarded \subseteq 1 .. MaxCalls

OutType ==
  /\ sent \in Seq(LoopFrame) /\ taken \in 0 .. Len(sent) /\ Len(sent) - taken <= OutSize
  /\ cancelled \in BOOLEAN /\ closed \in BOOLEAN
  /\ err \in {"nil", "ctx", "source", "maxRounds"} /\ resp \in 0 .. MaxRounds

TypeOK == LoopType /\ TalkType /\ ToolType /\ OutType

NoFrame == [kind |-> "text", call |-> NoCall]

\* The c-th call of this round, and all of them.
Name(c) == <<round + 1, c>>
ToolCalls == [c \in 1 .. calls |-> Name(c)]

Init ==
  /\ opts \in Modes
  /\ pc = "generate" /\ round = 0 /\ calls = 0 /\ text = FALSE /\ used = 0
  /\ held = NoFrame /\ results = <<>> /\ answered = 0
  /\ messages = <<>>
  /\ tool = [c \in 1 .. MaxCalls |-> "idle"]
  /\ setGate \in BOOLEAN /\ changes = 0
  /\ cancelled = FALSE
  /\ sent = <<>> /\ taken = 0 /\ closed = FALSE /\ err = "nil" /\ resp = 0
  /\ total = 0 /\ asked = 0
  /\ consent = [c \in 1 .. MaxCalls |-> {}] /\ guarded = {} /\ eager = FALSE

(***************************************************************************)
(* The caller's stream.                                                    *)
(***************************************************************************)
Room == Len(sent) - taken < OutSize

Emit(f) == Room /\ sent' = Append(sent, f)

\* em.Error closes the stream, and so does the deferred em.Close.
Finish(e) ==
  /\ pc' = "done" /\ closed' = TRUE /\ err' = e
  /\ UNCHANGED <<round, calls, text, used, held, results, answered>>

\* Emit returned ctx.Err(), or a select took its ctx.Done() case.
Cut == cancelled /\ Finish("ctx")

Consume ==
  /\ taken < Len(sent)
  /\ taken' = taken + 1
  /\ UNCHANGED <<opts, loop, messages, tool, toolset, cancelled, sent, closed, err, resp, total, asked, gates, eager>>

Cancel ==
  /\ ~cancelled /\ pc # "done"
  /\ cancelled' = TRUE
  /\ UNCHANGED <<opts, loop, messages, tool, toolset, out, total, asked, gates, eager>>

(***************************************************************************)
(* A round: Generate and the loop over the model's stream.                 *)
(***************************************************************************)
\* ToolChoice of this round: a choice that forces a call is relaxed after the
\* first.
Relaxed == "auto"
Choice == IF round > 0 THEN Relaxed ELSE opts.choice

Generate ==
  /\ pc = "generate" /\ round < MaxRounds
  /\ pc' = "reading" /\ asked' = asked + 1
  /\ calls' = 0 /\ text' = FALSE /\ used' = 0 /\ results' = <<>> /\ answered' = 0
  /\ tool' = [c \in 1 .. MaxCalls |-> "idle"]
  /\ consent' = [c \in 1 .. MaxCalls |-> {}] /\ guarded' = {}
  /\ UNCHANGED <<opts, round, held, messages, toolset, cancelled, out, total, eager>>

GenerateFails ==
  /\ pc = "generate" /\ round < MaxRounds
  /\ Finish("source")
  /\ UNCHANGED <<opts, messages, tool, toolset, cancelled, sent, taken, resp, total, asked, gates, eager>>

OutOfRounds ==
  /\ pc = "generate" /\ round = MaxRounds
  /\ Finish("maxRounds")
  /\ UNCHANGED <<opts, messages, tool, toolset, cancelled, sent, taken, resp, total, asked, gates, eager>>

\* Bound: text is one frame, and comes first.
StreamText ==
  /\ pc = "reading" /\ ~text /\ calls = 0
  /\ text' = TRUE
  /\ held' = [kind |-> "text", call |-> NoCall] /\ pc' = "emit"
  /\ UNCHANGED <<opts, round, calls, used, results, answered, messages, tool, toolset, cancelled, out, total, asked, gates, eager>>

\* execOne: the loop's own approver comes first.
Begin(c) ==
  /\ tool' = [tool EXCEPT ![c] = IF opts.approver THEN "loopGate" ELSE "lookup"]
  /\ guarded' = IF setGate THEN guarded \cup {c} ELSE guarded
  /\ UNCHANGED consent

\* In parallel mode the call's goroutine starts at once.
StreamCall ==
  /\ pc = "reading" /\ calls < MaxCalls
  /\ calls' = calls + 1
  /\ held' = [kind |-> "call", call |-> Name(calls')]
  /\ IF opts.parallel THEN Begin(calls') ELSE UNCHANGED <<tool, gates>>
  /\ eager' = (eager \/ Choice = "auto")
  /\ pc' = "emit"
  /\ UNCHANGED <<opts, round, text, used, results, answered, messages, toolset, cancelled, out, total, asked>>

\* A model that is forced to call a tool does.  Next has kept the usage, which is
\* passed on if there is any.
StreamEnds ==
  /\ pc = "reading" /\ (Choice = "required" => calls > 0)
  /\ used' \in {0, 1} /\ total' = total + used'
  /\ pc' = IF used' > 0 THEN "usage" ELSE "ended"
  /\ UNCHANGED <<opts, round, calls, text, held, results, answered, messages, tool, toolset, cancelled, out, asked, gates, eager>>

StreamFails ==
  /\ pc = "reading"
  /\ Finish("source")
  /\ UNCHANGED <<opts, messages, tool, toolset, cancelled, sent, taken, resp, total, asked, gates, eager>>

\* Waiting for a result, with a case <-ctx.Done().  Mutant: without.
ResultWait_Blind == FALSE
ResultWait == pc = "collect" /\ opts.parallel /\ Len(results) < calls

\* The caller's context ends whatever the loop waits for.
LoopCut ==
  /\ \/ pc \in {"reading", "emit", "usage", "handoff"}
     \/ pc = "generate" /\ round < MaxRounds
     \/ ResultWait
     \/ pc = "answer" /\ opts.emitResults /\ answered < Len(results)
  /\ Cut
  /\ UNCHANGED <<opts, messages, tool, toolset, cancelled, sent, taken, resp, total, asked, gates, eager>>

EmitFrame ==
  /\ pc = "emit"
  /\ Emit(held) /\ pc' = "reading"
  /\ UNCHANGED <<opts, round, calls, text, used, held, results, answered, messages, tool, toolset, cancelled,
                 taken, closed, err, resp, total, asked, gates, eager>>

\* The usage that is passed on.  Mutant: that of the last round only.
Reemitted_Final == calls = 0
Reemitted == TRUE

EmitUsage ==
  /\ pc = "usage"
  /\ IF Reemitted THEN Emit([kind |-> "usage", call |-> NoCall]) ELSE UNCHANGED sent
  /\ pc' = "ended"
  /\ UNCHANGED <<opts, round, calls, text, used, held, results, answered, messages, tool, toolset, cancelled,
                 taken, closed, err, resp, total, asked, gates, eager>>

\* The assistant's turn joins the conversation; without calls it is the last.
RoundOver ==
  /\ pc = "ended"
  /\ messages' = IF text \/ calls > 0
                 THEN Append(messages, [by |-> "assistant", text |-> text, calls |-> ToolCalls])
                 ELSE messages
  /\ IF calls = 0
     THEN Finish("nil") /\ resp' \in {0, round + 1}
     ELSE /\ pc' = "collect"
          /\ UNCHANGED <<round, calls, text, used, held, results, answered, closed, err, resp>>
  /\ UNCHANGED <<opts, tool, toolset, cancelled, sent, taken, total, asked, gates, eager>>

(***************************************************************************)
(* Results.                                                                *)
(***************************************************************************)
Missing == Len(results) < calls
Current == Len(results) + 1

\* executeTools: the next call, unless the context is done.
RunSerial ==
  /\ pc = "collect" /\ ~opts.parallel /\ Missing
  /\ tool[Current] = "idle" /\ ~cancelled
  /\ Begin(Current)
  /\ UNCHANGED <<opts, loop, messages, toolset, cancelled, out, total, asked, eager>>

\* It is: the calls that are left all get an error for a result.
SkipSerial ==
  /\ pc = "collect" /\ ~opts.parallel /\ Missing
  /\ tool[Current] = "idle" /\ cancelled
  /\ results' = [i \in 1 .. calls |-> IF i <= Len(results) THEN results[i] ELSE "error"]
  /\ UNCHANGED <<opts, pc, round, calls, text, used, held, answered, messages, tool, toolset, cancelled, out, total, asked, gates, eager>>

Collect ==
  /\ pc = "collect" /\ Missing
  /\ tool[Current] \in Outcome
  /\ results' = Append(results, tool[Current])
  /\ UNCHANGED <<opts, pc, round, calls, text, used, held, answered, messages, tool, toolset, cancelled, out, total, asked, gates, eager>>

\* The first call that asks for a handoff.
HandsOff(i) == results[i] = "handoff" /\ \A j \in 1 .. i - 1 : results[j] # "handoff"

\* Handoff, if a call asks for one, or answers.
Settle ==
  /\ pc = "collect" /\ ~Missing
  /\ \/ \E i \in DOMAIN results :
          HandsOff(i) /\ pc' = "handoff" /\ held' = [kind |-> "handoff", call |-> Name(i)]
     \/ (\A i \in DOMAIN results : ~HandsOff(i)) /\ pc' = "answer" /\ UNCHANGED held
  /\ UNCHANGED <<opts, round, calls, text, used, results, answered, messages, tool, toolset, cancelled, out, total, asked, gates, eager>>

EmitHandoff ==
  /\ pc = "handoff"
  /\ Emit(held) /\ pc' = "handedOff"
  /\ UNCHANGED <<opts, round, calls, text, used, held, results, answered, messages, tool, toolset, cancelled,
                 taken, closed, err, resp, total, asked, gates, eager>>

HandedOff ==
  /\ pc = "handedOff"
  /\ Finish("nil")
  /\ UNCHANGED <<opts, messages, tool, toolset, cancelled, sent, taken, resp, total, asked, gates, eager>>

\* Mutant: results are sent in the order in which the tools finish, here the
\* reverse.
NextAnswer_Reversed == calls - answered
NextAnswer == answered + 1

EmitResult ==
  /\ pc = "answer" /\ opts.emitResults /\ answered < Len(results)
  /\ Emit([kind |-> "result", call |-> Name(NextAnswer)])
  /\ answered' = answered + 1
  /\ UNCHANGED <<opts, pc, round, calls, text, used, held, results, messages, tool, toolset, cancelled,
                 taken, closed, err, resp, total, asked, gates, eager>>

\* The calls a tool turn answers.  Mutant: the results are sent as they come,
\* one turn each, and the last one stands for all.
Grouped_Last == <<Name(calls)>>
Grouped == ToolCalls

RoundAnswered ==
  /\ pc = "answer" /\ (opts.emitResults => answered = Len(results))
  /\ messages' = Append(messages, [by |-> "tool", calls |-> Grouped])
  /\ round' = round + 1 /\ pc' = "generate"
  /\ UNCHANGED <<opts, calls, text, used, held, results, answered, tool, toolset, cancelled, out, total, asked, gates, eager>>

(***************************************************************************)
(* The execution of a call: execOne, and Toolset.ExecuteCall below it.     *)
(***************************************************************************)
OnlyTool == UNCHANGED <<opts, loop, messages, toolset, cancelled, out, total, asked, eager>>

Becomes(c, state) == tool' = [tool EXCEPT ![c] = state] /\ UNCHANGED gates

Approves(c, gate, next) ==
  /\ tool' = [tool EXCEPT ![c] = next]
  /\ consent' = [consent EXCEPT ![c] = @ \cup {gate}]
  /\ UNCHANGED guarded

\* The result is there; the history of the call is forgotten.
Returns(c, outcome) ==
  /\ tool' = [tool EXCEPT ![c] = outcome]
  /\ consent' = [consent EXCEPT ![c] = {}]
  /\ guarded' = guarded \ {c}

\* ToolStreamOptions.Approver: a denial or an error is the result.
LoopGate(c) ==
  /\ tool[c] = "loopGate"
  /\ Approves(c, "loop", "lookup") \/ Returns(c, "error")
  /\ OnlyTool

\* The approver ts.approver.Load() finds.  Mutant: approvals are not asked for
\* twice.
Loaded_Once == IF setGate /\ ~opts.approver THEN "setGate" ELSE "handler"
Loaded == IF setGate THEN "setGate" ELSE "handler"

\* ts.get may not find the tool, which others register and remove, and its
\* arguments may be invalid.
Lookup(c) ==
  /\ tool[c] = "lookup"
  /\ Becomes(c, Loaded) \/ Returns(c, "error")
  /\ OnlyTool

\* The Toolset's approver.
SetGate(c) ==
  /\ tool[c] = "setGate"
  /\ Approves(c, "set", "handler") \/ Returns(c, "error")
  /\ OnlyTool

\* The handler returns a value, an error or a HandoffSignal.
Handler(c) ==
  /\ tool[c] = "handler"
  /\ \E o \in Outcome : Returns(c, o)
  /\ OnlyTool

\* WithApprover, with an approver or with nil.
WithApprover ==
  /\ changes < MaxChanges /\ pc # "done"
  /\ setGate' = ~setGate /\ changes' = changes + 1
  /\ guarded' = IF setGate THEN {c \in guarded : tool[c] = "handler"} ELSE guarded
  /\ UNCHANGED <<opts, loop, messages, tool, cancelled, out, total, asked, consent, eager>>

(***************************************************************************)
(* The specification.                                                      *)
(***************************************************************************)
\* The loop's goroutine, with what it does when its context ends.
Loop ==
  \/ OutOfRounds \/ LoopCut \/ EmitFrame \/ EmitUsage \/ RoundOver
  \/ RunSerial \/ SkipSerial \/ Collect \/ Settle
  \/ EmitHandoff \/ HandedOff \/ EmitResult \/ RoundAnswered

\* The model answers.
Model == Generate \/ StreamText \/ StreamCall \/ StreamEnds

Execution(c) == LoopGate(c) \/ Lookup(c) \/ SetGate(c) \/ Handler(c)

Next ==
  \/ Loop \/ Model \/ GenerateFails \/ StreamFails
  \/ \E c \in 1 .. MaxCalls : Execution(c)
  \/ Consume \/ Cancel \/ WithApprover

Spec == Init /\ [][Next]_vars

\* The loop's goroutine is scheduled.  The model, the tools, the approvers and the
\* caller owe nothing.
FairSpec == Spec /\ WF_vars(Loop)

(***************************************************************************)
(* Properties.                                                             *)
(***************************************************************************)
Earlier(a, b) == a[1] < b[1] \/ (a[1] = b[1] /\ a[2] < b[2])

Matched ==
  \A i \in DOMAIN sent :
    /\ sent[i].kind = "result" =>
         /\ \E j \in 1 .. i - 1 : sent[j].kind = "call" /\ sent[j].call = sent[i].call
         /\ \A j \in 1 .. i - 1 : sent[j].kind = "result" => Earlier(sent[j].call, sent[i].call)
    /\ sent[i].kind = "handoff" =>
         /\ i = Len(sent)
         /\ \A j \in DOMAIN sent : sent[j].kind = "result" => sent[j].call[1] # sent[i].call[1]

\* The caller sees at most one result for a call, after the call and in the order
\* of the calls, though the tools finish in any order; and nothing follows a
\* handoff, whose round has no results (run).
ResultsMatchCalls == TypeOK /\ Matched

\* "every tool call is passed to Approver.Approve before execution", "The approver
\* is consulted before every tool handler execution": no handler starts without
\* the consent of the loop's approver, and of the Toolset's when it was there from
\* the start of the call on, while others change the Toolset.
GateRespected ==
  \A c \in 1 .. calls : tool[c] = "handler" =>
    /\ opts.approver => "loop" \in consent[c]
    /\ c \in guarded => "set" \in consent[c]

\* A choice that forces calls does not make the loop run out of rounds: when it
\* does, the model called tools of its own accord (run's relaxed ToolChoice).
ForcedOnce == err = "maxRounds" /\ MaxRounds > 1 => eager

Usages == {i \in DOMAIN sent : sent[i].kind = "usage"}

\* The caller's stream carries the usage of every round that is over, also when
\* the loop runs out of rounds or hands off (run's re-emission).
TotalsOfAllRounds ==
  pc = "done" /\ err \in {"nil", "maxRounds"} =>
    Cardinality(Usages) = total

\* Rounds are counted right: both of these.
RoundsCounted == ForcedOnce /\ TotalsOfAllRounds

Phase ==
  CASE pc = "done" -> IF err # "nil" THEN "failed" ELSE IF calls = 0 THEN "final" ELSE "handoff"
    [] pc = "generate" -> "loop"
    [] pc \in {"reading", "emit", "usage", "ended"} -> "model"
    [] pc \in {"collect", "handoff", "handedOff", "answer"} -> "tools"

Talk == INSTANCE Conversation WITH phase <- Phase, Rounds <- MaxRounds

\* The loop implements the conversation: whatever tools, cancellation and errors
\* do, the model is asked only when every call is answered, in one turn.
ImplementsConversation == Talk!ConversationSpec

\* "lets us abort immediately if the caller hangs up ... without waiting for tools"
\* (run): in parallel mode the caller's stream is closed after a cancellation, even
\* if the model, the tools and the caller do nothing any more.
CancelAborts == cancelled /\ opts.parallel ~> closed

\* With a model that answers, tools that return and a caller that reads, the
\* caller's stream comes to its end, in either mode.
RunEnds ==
  (WF_vars(Model) /\ WF_vars(Consume) /\ \A c \in 1 .. MaxCalls : WF_vars(Execution(c))) => <>closed

\* Both of these.
LoopEnds == CancelAborts /\ RunEnds

=============================================================================
