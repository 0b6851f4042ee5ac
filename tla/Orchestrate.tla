----------------------------- MODULE Orchestrate -----------------------------
(***************************************************************************)
(* orchestrate and plugin/dsl: the ways to run several agents.  Fan merges *)
(* their streams, Race takes the first answer, Sequence feeds each answer  *)
(* to the next agent, FanThen has one agent sum up the others; a Runner    *)
(* runs them as a workflow, called directly or as the target of a handoff, *)
(* for which resolveHandoff splices the target's stream into the one the   *)
(* caller is reading.                                                      *)
(*                                                                         *)
(* An agent's own stream (its model, its tools) is the environment: it has *)
(* some text, it may fail, and it may stall for ever.  One whose context   *)
(* has ended may be closed without an error.                               *)
(***************************************************************************)
EXTENDS Integers, Sequences

CONSTANTS
  MaxAgents,  \* bound: agents of a workflow
  Flows,      \* workflows
  OutSize,    \* niro.DefaultStreamBuffer
  MaxText     \* bound: text frames of an agent

\* entry: the workflow is called, or an agent hands off to it; talk: the caller's
\* RunContext holds messages, which is always so after a handoff.
Flow == [kind : {"fan", "race", "sequence", "fan_then", "agent"}, n : 1 .. MaxAgents,
         entry : {"call", "handoff"}, talk : BOOLEAN]

ASSUME OrchestrateBounds ==
  /\ MaxAgents \in Nat \ {0} /\ OutSize \in Nat \ {0} /\ MaxText \in Nat \ {0}
  /\ Flows \subseteq {f \in Flow : f.entry = "handoff" => f.talk}

VARIABLES
  flow,       \* the workflow
  main,       \* the call of the workflow
  run,        \* the agents' goroutines; that of the classifier is resolveHandoff
  asked,      \* history: the messages an agent was asked with
  coll,       \* the collector of Race and FanCollect
  fan,        \* Fan's first error, and, for history, all of them in their order
  str,        \* the workflow's stream, and the one resolveHandoff writes
  front,      \* what resolveHandoff does with a handoff
  got,        \* the caller: the frames read, and the end
  ctx         \* the caller's context has ended

vars == <<flow, main, run, asked, coll, fan, str, front, got, ctx>>

N == flow.n        \* agents are called 1 .. N; N is the synthesizer of FanThen
Agents == 1 .. N
Classifier == 0
User == MaxAgents + 1      \* as the author of a message: the user
Nobody == MaxAgents + 2    \* of an empty message

Error == {"nil", "ctx", "call", "source", "target"}

\* A text with its author, and the frame that announces a handoff.  A handoff
\* without a target is passed on as a text is.
Frame == [kind : {"text", "handoff_start"}, by : 0 .. MaxAgents, n : 0 .. MaxText]

Text(a, n) == [kind |-> "text", by |-> a, n |-> n]
Announced == [kind |-> "handoff_start", by |-> Classifier, n |-> 0]

Stream == [frames : Seq(Frame), closed : BOOLEAN, err : Error, resp : -1 .. MaxAgents]

Run == [pc : {"idle", "call", "read", "emit", "done"}, n : 0 .. MaxText, cut : BOOLEAN, err : Error]

TypeOK ==
  /\ flow \in Flows
  /\ main \in {"idle", "start", "wait", "stream", "text", "failed"}
  /\ run \in [0 .. MaxAgents -> Run]
  /\ asked \in [Agents -> Seq(0 .. Nobody)]
  /\ coll \in [results : Seq([by : Agents, err : Error]), taken : 0 .. N, texts : [Agents -> 0 .. N], win : 0 .. N]
  /\ Len(coll.results) + coll.taken <= N
  /\ fan \in [first : Error, errors : Seq(Error)]
  /\ str \in [{"out", "top"} -> Stream] /\ \A s \in {"out", "top"} : Len(str[s].frames) <= OutSize
  /\ front \in [pc : {"idle", "start", "join", "forward", "emit"}, held : Frame, handed : BOOLEAN]
  /\ got \in [frames : Seq(Frame), ended : BOOLEAN, err : Error]
  /\ ctx \in BOOLEAN

NewStream == [frames |-> <<>>, closed |-> FALSE, err |-> "nil", resp |-> -1]

Init ==
  /\ flow \in Flows
  /\ main = IF flow.entry = "call" THEN "start" ELSE "idle"
  /\ run = [a \in 0 .. MaxAgents |-> [pc |-> IF a = Classifier /\ flow.entry = "handoff" THEN "read" ELSE "idle",
                                 n |-> 0, cut |-> FALSE, err |-> "nil"]]
  /\ asked = [a \in Agents |-> <<>>]
  /\ coll = [results |-> <<>>, taken |-> 0, texts |-> [a \in Agents |-> 0], win |-> 0]
  /\ fan = [first |-> "nil", errors |-> <<>>]
  /\ str = [s \in {"out", "top"} |-> NewStream]
  /\ front = [pc |-> "idle", held |-> Announced, handed |-> FALSE]
  /\ got = [frames |-> <<>>, ended |-> FALSE, err |-> "nil"]
  /\ ctx = FALSE

(***************************************************************************)
(* Who runs, and where to.                                                 *)
(***************************************************************************)
Merged == flow.kind = "fan"

\* Agents that are started together.
Parallel ==
  CASE flow.kind \in {"fan", "race"} -> Agents
    [] flow.kind = "fan_then" -> Agents \ {N}
    [] OTHER -> {}

\* The agent whose stream is the result of the workflow.
Sole(a) == a = N /\ flow.kind \in {"sequence", "fan_then", "agent"}

Streams(a) == a = Classifier \/ Merged \/ Sole(a)

To(a) == IF a = Classifier THEN "top" ELSE "out"

Stopped(a) == ctx \/ (flow.kind = "race" /\ a # Classifier /\ main \in {"text", "failed"})

Room(s) == Len(str[s].frames) < OutSize
Put(s, f) == str' = [str EXCEPT ![s].frames = Append(@, f)]
Finish(s, e) == str' = [str EXCEPT ![s].closed = TRUE, ![s].err = e]

\* messagesFromRunContext: the messages, or else the event.
Messages(event) == IF flow.talk THEN <<User>> ELSE <<event>>

\* What a handoff to an agent adds to them.
Handed == IF flow.entry = "handoff" THEN Append(Messages(User), Classifier) ELSE Messages(User)

Asks(a, messages) ==
  /\ run' = [run EXCEPT ![a].pc = "call"]
  /\ asked' = [asked EXCEPT ![a] = messages]

Outside == UNCHANGED <<flow, got, ctx>>

(***************************************************************************)
(* The call of a workflow.                                                 *)
(***************************************************************************)
Calling == UNCHANGED <<fan, str, front>> /\ Outside

StartParallel ==
  /\ main = "start" /\ flow.kind \in {"fan", "race", "fan_then"}
  /\ run' = [a \in 0 .. MaxAgents |-> IF a \in Parallel THEN [run[a] EXCEPT !.pc = "call"] ELSE run[a]]
  /\ asked' = [a \in Agents |-> IF a \in Parallel THEN Messages(User) ELSE <<>>]
  /\ main' = IF Merged THEN "stream" ELSE "wait"
  /\ UNCHANGED coll /\ Calling

\* Runner.Sequence gives an agent its input as the event; that of the first is empty.
StartFirst ==
  /\ main = "start" /\ flow.kind \in {"sequence", "agent"}
  /\ IF flow.kind = "agent" THEN Asks(N, Handed) ELSE Asks(1, Messages(Nobody))
  /\ main' = "wait"
  /\ UNCHANGED coll /\ Calling

Taken(c) == [c EXCEPT !.results = Tail(@), !.taken = @ + 1]

Arrived(kind) == main = "wait" /\ flow.kind = kind /\ coll.results # <<>>

\* Race: the first that succeeded, or the last error.  Mutant: the last result decides.
Decided_Last(r) ==
  CASE coll.taken + 1 < N -> "wait"
    [] r.err = "nil" -> "text"
    [] OTHER -> "failed"
Decided(r) ==
  CASE r.err = "nil" -> "text"
    [] r.err # "nil" /\ coll.taken + 1 < N -> "wait"
    [] OTHER -> "failed"

TakeRace ==
  /\ Arrived("race")
  /\ LET r == Head(coll.results)
     IN  coll' = [Taken(coll) EXCEPT !.win = IF r.err = "nil" THEN r.by ELSE @] /\ main' = Decided(r)
  /\ UNCHANGED <<run, asked>> /\ Calling

\* FanCollect.  Mutant: the texts in the order in which they come.
Place_Arrival(by) == [coll.texts EXCEPT ![coll.taken + 1] = by]
Place(by) == [coll.texts EXCEPT ![by] = by]

TakeText ==
  /\ Arrived("fan_then") /\ Head(coll.results).err = "nil"
  /\ coll' = [Taken(coll) EXCEPT !.texts = Place(Head(coll.results).by)]
  /\ UNCHANGED <<main, run, asked>> /\ Calling

TakeError ==
  /\ Arrived("fan_then") /\ Head(coll.results).err # "nil"
  /\ coll' = Taken(coll) /\ main' = "failed"
  /\ UNCHANGED <<run, asked>> /\ Calling

\* FanThen asks the synthesizer.
Synthesize ==
  /\ main = "wait" /\ flow.kind = "fan_then" /\ run[N].pc = "idle" /\ coll.taken = N - 1
  /\ Asks(N, Messages(User) \o SubSeq(coll.texts, 1, N - 1))
  /\ UNCHANGED <<main, coll>> /\ Calling

\* Fan: the goroutines are done.
CloseFan ==
  /\ Merged /\ main = "stream" /\ ~str["out"].closed
  /\ \A a \in Agents : run[a].pc = "done"
  /\ Finish("out", fan.first)
  /\ UNCHANGED <<main, run, asked, coll, fan, front>> /\ Outside

(***************************************************************************)
(* The end of an agent's part: what becomes of it depends on who reads its *)
(* stream.                                                                 *)
(***************************************************************************)
Over(a, e, c) == run' = [run EXCEPT ![a].pc = "done", ![a].err = e, ![a].cut = c]

\* Mutant: an error takes the place of an earlier one.
Recorded_Latest(e) == IF e = "nil" THEN fan.first ELSE e
Recorded(e) == IF fan.first = "nil" THEN e ELSE fan.first

FanOver(a, e, c) ==
  /\ Merged /\ a \in Agents /\ Over(a, e, c)
  /\ fan' = [first |-> Recorded(e), errors |-> IF e = "nil" THEN fan.errors ELSE Append(fan.errors, e)]
  /\ UNCHANGED <<main, asked, coll, str>>

\* The channel has room for all.
SendsResult(a, e, c) ==
  /\ ~Merged /\ a \in Parallel /\ Over(a, e, c)
  /\ coll' = [coll EXCEPT !.results = Append(@, [by |-> a, err |-> e])]
  /\ UNCHANGED <<main, asked, str, fan>>

\* A stage of Sequence that is not the last.
StageOver(a, e, c) ==
  /\ flow.kind = "sequence" /\ a \in Agents \ {N}
  /\ IF e = "nil"
     THEN /\ run' = [run EXCEPT ![a].pc = "done", ![a].cut = c, ![a + 1].pc = "call"]
          /\ asked' = [asked EXCEPT ![a + 1] = Messages(a)]
          /\ UNCHANGED main
     ELSE Over(a, e, c) /\ main' = "failed" /\ UNCHANGED asked
  /\ UNCHANGED <<coll, str, fan>>

\* The stream of the sole agent is closed; for resolveHandoff's, the ResponseMeta is
\* the classifier's only if it did not hand off.
Answers(a) == IF a = Classifier /\ front.handed THEN str["top"].resp ELSE a

Closes(a, e, c) ==
  /\ a = Classifier \/ Sole(a)
  /\ Over(a, e, c)
  /\ str' = [str EXCEPT ![To(a)].closed = TRUE, ![To(a)].err = e,
                        ![To(a)].resp = IF e = "nil" /\ ~c THEN Answers(a) ELSE @]
  /\ UNCHANGED <<main, asked, coll, fan>>

LoopOver(a, e, c) ==
  /\ FanOver(a, e, c) \/ SendsResult(a, e, c) \/ StageOver(a, e, c) \/ Closes(a, e, c)
  /\ UNCHANGED front /\ Outside

(***************************************************************************)
(* An agent: Runner.Stream is called, and its stream is read.              *)
(***************************************************************************)
Called(a) ==
  /\ run[a].pc = "call"
  /\ run' = [run EXCEPT ![a].pc = "read"]
  /\ main' = IF Sole(a) THEN "stream" ELSE main
  /\ UNCHANGED <<asked, coll>> /\ Calling

CallFails(a) ==
  /\ run[a].pc = "call"
  /\ IF Sole(a)
     THEN Over(a, "call", FALSE) /\ main' = "failed" /\ UNCHANGED <<asked, coll>> /\ Calling
     ELSE LoopOver(a, "call", FALSE)

InLoop(a) == run[a].pc = "read" /\ (a = Classifier => front.pc = "idle")

\* Text that is collected, or passed on.
ReadText(a) ==
  /\ InLoop(a) /\ run[a].n < MaxText
  /\ run' = [run EXCEPT ![a].n = @ + 1, ![a].pc = IF Streams(a) THEN "emit" ELSE @]
  /\ UNCHANGED <<main, asked, coll>> /\ Calling

\* The agent has finished, or its stream looks so because its context has ended.
ReadEnd(a) == InLoop(a) /\ \E c \in {FALSE, Stopped(a)} : LoopOver(a, "nil", c)

ReadFails(a) == InLoop(a) /\ LoopOver(a, "source", FALSE)

Notices(a) == Stopped(a)

ReadCancelled(a) == InLoop(a) /\ Notices(a) /\ LoopOver(a, "ctx", TRUE)

Emit(a) ==
  /\ run[a].pc = "emit" /\ Room(To(a))
  /\ Put(To(a), Text(a, run[a].n))
  /\ run' = [run EXCEPT ![a].pc = "read"]
  /\ UNCHANGED <<main, asked, coll, fan, front>> /\ Outside

\* The goroutine returns, without an error.
EmitFails(a) == run[a].pc = "emit" /\ ctx /\ LoopOver(a, "nil", TRUE)

(***************************************************************************)
(* resolveHandoff, once the classifier has handed off (a tool loop ends    *)
(* with its first handoff).                                                *)
(***************************************************************************)
Splicing == UNCHANGED <<asked, coll, fan>> /\ Outside

Handoff ==
  /\ InLoop(Classifier) /\ ~front.handed
  /\ front' = [front EXCEPT !.pc = "start"]
  /\ UNCHANGED <<main, run, str>> /\ Splicing

\* An error of this Emit is not looked at.
HandoffStart ==
  /\ front.pc = "start"
  /\ \/ Room("top") /\ Put("top", Announced)
     \/ ctx /\ UNCHANGED str
  /\ front' = [front EXCEPT !.pc = "join"]
  /\ main' = "start"
  /\ UNCHANGED run /\ Splicing

\* streamHandoff's error is that of the caller's stream.
HandoffFails(e) ==
  /\ run' = [run EXCEPT ![Classifier].pc = "done", ![Classifier].err = e]
  /\ Finish("top", e)
  /\ front' = [front EXCEPT !.pc = "idle"]

HandoffUnknown ==
  /\ front.pc = "join" /\ main = "start"
  /\ HandoffFails("target") /\ main' = "idle"
  /\ Splicing

\* A stream is forwarded; Race has none, and its text is dropped.
HandoffJoins ==
  /\ front.pc = "join"
  /\ \/ main = "stream" /\ front' = [front EXCEPT !.pc = "forward"] /\ UNCHANGED <<run, str>>
     \/ main = "text" /\ front' = [front EXCEPT !.pc = "idle", !.handed = TRUE] /\ UNCHANGED <<run, str>>
     \/ main = "failed" /\ HandoffFails("call")
  /\ UNCHANGED main /\ Splicing

ForwardNext ==
  /\ front.pc = "forward" /\ str["out"].frames # <<>>
  /\ front' = [front EXCEPT !.pc = "emit", !.held = Head(str["out"].frames)]
  /\ str' = [str EXCEPT !["out"].frames = Tail(@)]
  /\ UNCHANGED <<main, run>> /\ Splicing

ForwardEmit ==
  /\ front.pc = "emit" /\ Room("top")
  /\ Put("top", front.held)
  /\ front' = [front EXCEPT !.pc = "forward"]
  /\ UNCHANGED <<main, run>> /\ Splicing

ForwardCancelled ==
  /\ front.pc \in {"forward", "emit"} /\ ctx
  /\ HandoffFails("ctx")
  /\ UNCHANGED main /\ Splicing

ForwardEnds(e) ==
  IF e # "nil" THEN HandoffFails(e)
  ELSE /\ front' = [front EXCEPT !.pc = "idle", !.handed = TRUE]
       /\ str' = [str EXCEPT !["top"].resp = str["out"].resp]
       /\ UNCHANGED run

Forwarded ==
  /\ front.pc = "forward" /\ str["out"].frames = <<>> /\ str["out"].closed
  /\ ForwardEnds(str["out"].err)
  /\ UNCHANGED main /\ Splicing

(***************************************************************************)
(* The caller.                                                             *)
(***************************************************************************)
Read == IF flow.entry = "handoff" THEN "top" ELSE "out"

Receive ==
  /\ str[Read].frames # <<>>
  /\ got' = [got EXCEPT !.frames = Append(@, Head(str[Read].frames))]
  /\ str' = [str EXCEPT ![Read].frames = Tail(@)]
  /\ UNCHANGED <<flow, main, run, asked, coll, fan, front, ctx>>

ReceiveEnd ==
  /\ str[Read].frames = <<>> /\ str[Read].closed /\ ~got.ended
  /\ got' = [got EXCEPT !.ended = TRUE, !.err = str[Read].err]
  /\ UNCHANGED <<flow, main, run, asked, coll, fan, str, front, ctx>>

Cancel ==
  /\ ~ctx /\ ctx' = TRUE
  /\ UNCHANGED <<flow, main, run, asked, coll, fan, str, front, got>>

(***************************************************************************)
(* The specification.                                                      *)
(***************************************************************************)
Coordinating ==
  \/ StartParallel \/ StartFirst
  \/ TakeRace \/ TakeText \/ TakeError \/ Synthesize \/ CloseFan

Handing ==
  \/ HandoffStart \/ HandoffUnknown \/ HandoffJoins
  \/ ForwardNext \/ ForwardEmit \/ ForwardCancelled \/ Forwarded

\* What an agent's model and tools do.
Answering(a) == Called(a) \/ CallFails(a) \/ ReadText(a) \/ ReadEnd(a) \/ ReadFails(a)

\* What its goroutine does without them.
Relaying(a) == ReadCancelled(a) \/ Emit(a) \/ EmitFails(a) \/ (Stopped(a) /\ CallFails(a))

Next ==
  \/ Coordinating \/ Handoff \/ Handing
  \/ \E a \in 0 .. N : Answering(a) \/ Relaying(a)
  \/ Receive \/ ReceiveEnd \/ Cancel

Spec == Init /\ [][Next]_vars

Fairness ==
  /\ WF_vars(Coordinating) /\ WF_vars(Handing)
  /\ \A a \in 0 .. MaxAgents : WF_vars(Relaying(a))

FairSpec == Spec /\ Fairness

(***************************************************************************)
(* Properties.                                                             *)
(***************************************************************************)
\* All that is on its way to the caller or has reached it, in the order of its way: a
\* workflow's stream is on it until resolveHandoff has let go of it.
Behind ==
  IF flow.entry = "handoff" /\ run[Classifier].pc = "done" THEN <<>>
  ELSE (IF front.pc = "emit" THEN <<front.held>> ELSE <<>>) \o str["out"].frames
Way == got.frames \o str["top"].frames \o Behind

Sent(a) == run[a].n - (IF run[a].pc = "emit" THEN 1 ELSE 0)

\* Of an agent's texts a sequence has the first ones, each once and in their order.
From(f, a) == f.kind = "text" /\ f.by = a
InRow(s, a) ==
  \A i \in DOMAIN s : From(s[i], a) =>
    /\ \A j \in 1 .. i - 1 : From(s[j], a) => s[j].n < s[i].n
    /\ \A m \in 1 .. s[i].n - 1 : \E j \in 1 .. i - 1 : s[j] = Text(a, m)
HasAll(s, a, k) == \A m \in 1 .. k : \E i \in DOMAIN s : s[i] = Text(a, m)

\* Streams that are merged or spliced keep their own order, without a gap and without a
\* frame in front of the announcement of the handoff that it follows (Fan's shared
\* emitter, resolveHandoff); only a cancellation loses frames, and it loses the last.
InOrder ==
  /\ TypeOK
  /\ \A a \in 0 .. N : Streams(a) =>
       /\ InRow(Way, a) /\ \A i \in DOMAIN Way : From(Way[i], a) => Way[i].n \in 1 .. Sent(a)
       /\ ~ctx => HasAll(Way, a, Sent(a))
  /\ flow.entry = "handoff" /\ ~ctx =>
       \A i \in DOMAIN Way : Way[i].by # Classifier => \E j \in 1 .. i : Way[j] = Announced

\* A stream that ends without an error has all of every agent that wrote it, all of
\* which succeeded, unless the caller has cancelled; it carries the ResponseMeta of
\* the agent that answered last; a Fan ends with the error that came first.
EndIsTrue ==
  /\ InOrder
  /\ got.ended /\ ~ctx =>
    /\ got.err = "nil" => \A a \in 0 .. N : Streams(a) /\ run[a].pc # "idle" =>
         /\ run[a].pc = "done" /\ run[a].err = "nil" /\ ~run[a].cut
         /\ HasAll(got.frames, a, run[a].n)
    /\ got.err = "nil" /\ ~Merged /\ flow.kind # "race" =>
         str[Read].resp = IF run[N].pc = "idle" THEN Classifier ELSE N
    /\ Merged /\ str["out"].closed => str["out"].err = (IF fan.errors = <<>> THEN "nil" ELSE fan.errors[1])

\* What is returned or passed on for an answer is one: the winner of a Race has
\* succeeded, and if there is none all have failed; the synthesizer is asked with the
\* texts of all the others, in the order of the call, whatever the order in which they
\* came, after the conversation.
AnswersAreWhole ==
  /\ flow.kind = "race" =>
       /\ main = "text" => run[coll.win].err = "nil" /\ run[coll.win].pc = "done"
       /\ main = "text" /\ ~ctx => ~run[coll.win].cut
       /\ main = "failed" => \A a \in Agents : run[a].pc = "done" /\ run[a].err # "nil"
  /\ flow.kind = "fan_then" /\ asked[N] # <<>> =>
       /\ asked[N] = <<User>> \o [i \in 1 .. N - 1 |-> i]
       /\ \A a \in Parallel : run[a].pc = "done" /\ run[a].err = "nil" /\ (~ctx => ~run[a].cut)

Still ==
  /\ \A a \in 0 .. N : run[a].pc \in {"idle", "done"}
  /\ front.pc = "idle" /\ main \notin {"start", "wait"}

\* When the caller cancels, every goroutine ends, whatever the agents do and though
\* nobody reads.
CancelStopsAll == ctx ~> Still

\* One answer is enough for a Race, though the others stall for ever: it returns,
\* and those that lost end.
RaceReturns ==
  (flow.kind = "race" /\ \E a \in Agents : run[a].pc = "done" /\ run[a].err = "nil")
    ~> (main = "text" /\ \A a \in Agents : run[a].pc = "done")

\* Both of these.
Returns == CancelStopsAll /\ RaceReturns

=============================================================================
