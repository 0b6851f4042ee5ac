------------------------------ MODULE Adapters ------------------------------
(***************************************************************************)
(* The adapters of text models (provider/openai, compat, vllmomni,         *)
(* anthropic, google, bedrock): what of a request reaches the service      *)
(* (Generate, buildParams, convertMessage), and the goroutine consume,     *)
(* which makes frames of the chunks that come back.  The services differ   *)
(* in how they spell a tool call out, in when its end can be told, and in  *)
(* what a reply that stops half-way looks like.  The decoders of the SDKs  *)
(* are external.                                                           *)
(***************************************************************************)
EXTENDS Integers, Sequences, SequencesExt, FiniteSets, FiniteSetsExt

CONSTANT Setups     \* the adapters, requests and replies that are checked

Adapter == {"openai", "compat", "omni", "anthropic", "google", "bedrock"}
OverSSE == {"compat", "omni"}                 \* decoded by this repository
Blocks == {"anthropic", "bedrock"}            \* events of content blocks
Call == 1 .. 2

(***************************************************************************)
(* Requests.                                                               *)
(***************************************************************************)
\* The kinds of parts that convertMessage has a form for, by role.
Media == {"image", "image_url", "audio", "video"}
Only(role, r, k) == IF role = r THEN {k} ELSE {}
OpenAIForms(role) ==
  CASE role = "user" -> {"text", "image", "image_url"} [] role = "assistant" -> {"text", "call"}
    [] role = "tool" -> {"result"} [] role = "system" -> {"text"}
CompatForms(role) == {"text", "image", "image_url", "audio"} \cup Only(role, "assistant", "call") \cup Only(role, "tool", "result")
OmniForms(role) == {"text"} \cup Media \cup Only(role, "assistant", "call") \cup Only(role, "tool", "result")
AnthropicForms(role) ==
  CASE role = "user" -> {"text", "image"} [] role = "assistant" -> {"text", "call"}
    [] role = "tool" -> {"result"} [] role = "system" -> {"text"}
GoogleForms(role) == IF role = "system" THEN {} ELSE {"text", "call", "result"} \cup Media
BedrockForms(role) == IF role = "system" THEN {"text"} ELSE {"text", "image", "call", "result"}
Forms(a, role) ==
  CASE a = "openai" -> OpenAIForms(role) [] a = "compat" -> CompatForms(role) [] a = "omni" -> OmniForms(role)
    [] a = "anthropic" -> AnthropicForms(role) [] a = "google" -> GoogleForms(role) [] a = "bedrock" -> BedrockForms(role)

\* A part that is passed over: all texts but the first, all of a message but
\* its first result.  Mutant: so for every adapter.
Skipped_Results(a, msg, i) == msg.parts[i].k = "result" /\ i # 1
Skipped(a, msg, i) ==
  \/ a = "openai" /\ msg.role \in {"system", "assistant"} /\ msg.parts[i].k = "text" /\ \E j \in 1 .. i - 1 : msg.parts[j].k = "text"
  \/ a \in OverSSE /\ msg.role = "tool" /\ i # 1 /\ (msg.parts[1].k = "result" \/ msg.parts[i].k = "result")

\* The parts of a message that are sent.
Sent(a, msg) == {i \in DOMAIN msg.parts : msg.parts[i].k \in Forms(a, msg.role) /\ ~Skipped(a, msg, i)}

\* How a service is told what to do with the tools.  Only some have a word for
\* each choice; compat and vllmomni have none.
Choice(req, none, auto, unset) ==
  CASE req.choice = "none" -> none [] req.choice = "required" -> "any" [] req.choice = "func" -> "named"
    [] req.choice = "auto" -> auto [] req.choice = "" -> unset
OpenAIMode(req) == Choice(req, "none", "auto", "unset")
AnthropicMode(req) == Choice(req, "none", "auto", "auto")
GoogleMode(req) == Choice(req, "none", "unset", "unset")
BedrockMode(req) == Choice(req, "absent", "auto", "auto")
ToolMode(a, req) ==
  CASE a = "openai" -> OpenAIMode(req) [] a # "openai" /\ ~req.tools -> "absent"
    [] a = "anthropic" /\ req.tools -> AnthropicMode(req)
    [] a = "google" /\ req.tools -> GoogleMode(req) [] a = "bedrock" /\ req.tools -> BedrockMode(req)
    [] a \in OverSSE /\ req.tools -> "unset"

\* Lives of cache entries, in minutes.
validateRequireTTL(ttl) == ttl \in {0, 5, 60}
mapTTL(ttl) == IF ttl >= 60 THEN 60 ELSE IF ttl >= 5 THEN 5 ELSE 0

\* The requests that Generate refuses.
AnthropicRefuses(req) == req.reasoning \/ (req.require /\ ~validateRequireTTL(req.ttl))
GoogleRefuses(req) == req.reasoning \/ \A m \in ToSet(req.msgs) : m.role = "system"
BedrockRefuses(req) == req.msgs = <<>> \/ req.reasoning
OpenAIRefuses(req) == req.reasoning
CompatRefuses(req) == req.reasoning
Refuses(a, req) ==
  CASE a = "anthropic" -> AnthropicRefuses(req) [] a = "google" -> GoogleRefuses(req) [] a = "bedrock" -> BedrockRefuses(req)
    [] a = "openai" -> OpenAIRefuses(req) [] a = "compat" -> CompatRefuses(req) [] a = "omni" -> FALSE

(***************************************************************************)
(* The state.                                                              *)
(***************************************************************************)
VARIABLES
  setup,    \* adapter, req, and what its service will reply
  said,     \* how far the service is
  acc,      \* the calls that are being put together
  frames,   \* what was emitted
  meta,     \* SetResponse
  over      \* how consume has ended

vars == <<setup, said, acc, frames, meta, over>>

Frame == [k : {"text", "thinking", "audio", "call", "usage"}, i : 0 .. 2, args : Seq(1 .. 2)]
Fr(k, i, args) == [k |-> k, i |-> i, args |-> args]

\* A call: whether it has an identity, its arguments, and the array in which
\* its strings.Builder was first written to (0: not yet).
NoCall == [id |-> FALSE, args |-> <<>>, home |-> 0]

TypeOK ==
  /\ setup.adapter \in Adapter
  /\ acc.calls \in Seq([id : BOOLEAN, args : Seq(1 .. 2), home : Nat]) /\ acc.array \in Nat /\ acc.open \in {0} \cup Call
  /\ frames \in Seq(Frame)
  /\ meta \in [set : BOOLEAN, finish : BOOLEAN]
  /\ over \in {"no", "refused", "clean", "error", "gone", "panic"}

Init ==
  /\ setup \in Setups
  /\ said = [texts |-> 0, thought |-> FALSE, audio |-> FALSE, args |-> [i \in Call |-> 0], stopped |-> {}, finish |-> FALSE,
             usage |-> FALSE, mixed |-> FALSE, broken |-> FALSE]
  /\ acc = [calls |-> <<>>, array |-> 0, open |-> 0]
  /\ frames = <<>> /\ meta = [set |-> FALSE, finish |-> FALSE]
  /\ over = IF Refuses(setup.adapter, setup.req) THEN "refused" ELSE "no"

(***************************************************************************)
(* The service (external): a chunk has text, thinking or audio, pieces of  *)
(* calls, and may finish the reply or report its tokens.                   *)
(***************************************************************************)
Adp == setup.adapter
Begun(i) == said.args[i] > 0
Whole(i) == said.args[i] = 2
Calls == 1 .. setup.calls
\* The block of a call stays open until it is stopped.
Standing == {i \in Calls : Begun(i) /\ i \notin said.stopped}
InBlock == Adp \in Blocks /\ Standing # {}

\* The calls that a chunk may go on with.
Pieces ==
  {S \in SUBSET {i \in Calls : ~Whole(i)} :
     /\ \A i \in S : i = 1 \/ Begun(i - 1) \/ i - 1 \in S
     /\ setup.serial \/ Adp \notin OverSSE => Cardinality(S) <= 1 /\ \A i \in S : i = 1 \/ Whole(i - 1)
     /\ InBlock => S \subseteq Standing}

AllSaid(c) ==
  /\ said.texts + (IF c.text THEN 1 ELSE 0) = setup.texts
  /\ \A i \in Calls : Whole(i) \/ (i \in c.calls /\ (said.args[i] = 1 \/ Adp = "google"))
  /\ Adp \in Blocks => Standing = {}

\* What there is still to say, in this kind of chunk.
If(possible) == IF possible THEN BOOLEAN ELSE {FALSE}
Chunk ==
  IF said.finish THEN {[text |-> FALSE, thought |-> FALSE, audio |-> FALSE, calls |-> {}, stop |-> FALSE, finish |-> FALSE, usage |-> TRUE]}
  ELSE [text : If(said.texts < setup.texts /\ ~InBlock /\ (Adp = "openai" => \A i \in Calls : Begun(i) => Whole(i))),
        thought : If(setup.thought /\ ~said.thought /\ Adp \in Blocks \cup {"google"} /\ ~InBlock),
        audio : If(setup.audio /\ ~said.audio /\ Adp = "omni"), calls : Pieces,
        stop : If(Adp \in Blocks /\ \E i \in Standing : Whole(i)), finish : BOOLEAN, usage : If(setup.usage)]
Alone(c) ==
  Cardinality({f \in {"text", "thought", "audio", "stop", "finish", "usage"} : c[f]}) + Cardinality(c.calls) = 1

Sayable(c) ==
  /\ c.text \/ c.thought \/ c.audio \/ c.calls # {} \/ c.stop \/ c.finish \/ c.usage
  /\ c.finish => AllSaid(c)
  /\ c.usage => setup.usage /\ ~said.usage /\ (said.finish \/ c.finish)
  /\ Adp = "openai" => Cardinality({f \in {"text", "finish"} : c[f]}) + Cardinality(c.calls) <= 1
  /\ Adp \in Blocks => Alone(c)

Says(c) ==
  said' = [said EXCEPT
    !.texts = @ + (IF c.text THEN 1 ELSE 0), !.thought = @ \/ c.thought, !.audio = @ \/ c.audio,
    !.args = [i \in Call |-> IF i \in c.calls THEN (IF Adp = "google" THEN 2 ELSE @[i] + 1) ELSE @[i]],
    !.stopped = IF c.stop THEN @ \cup Standing ELSE @,
    !.finish = @ \/ c.finish, !.usage = @ \/ c.usage,
    !.mixed = @ \/ (\E i \in c.calls : Begun(i) /\ \E j \in Calls : j > i /\ Begun(j))]

(***************************************************************************)
(* consume.                                                                *)
(***************************************************************************)
\* What the adapter has gathered once it has seen a piece of call i.  Growing
\* the slice of toolAccum moves it, and a strings.Builder that was written to
\* panics when it is written to at another place.
Capacity(n) == IF n <= 2 THEN n ELSE 4
Write(a, i) ==
  LET array == IF i <= a.array THEN a.array ELSE Capacity(i)
      grown == a.calls \o [j \in 1 .. i - Len(a.calls) |-> NoCall]
      call == grown[i]
      piece == IF Adp = "google" THEN <<1, 2>> ELSE <<said.args[i] + 1>>
  IN [calls |-> [grown EXCEPT ![i] = [id |-> TRUE, args |-> call.args \o piece, home |-> IF call.home = 0 THEN array ELSE call.home]],
      array |-> array, open |-> IF Adp = "bedrock" THEN i ELSE a.open,
      panics |-> a.panics \/ (Adp \in OverSSE /\ call.home \notin {0, array})]
Gathered(c) == FoldLeft(Write, [calls |-> acc.calls, array |-> acc.array, open |-> acc.open, panics |-> FALSE], SetToSortSeq(c.calls, <))

\* JustFinishedToolCall of the SDK (external): a chunk with choices that does
\* not go on with the call of the last one.
Goes(c) == IF c.text \/ c.calls = {} THEN 0 ELSE CHOOSE i \in c.calls : TRUE
JustFinished(c) == Adp = "openai" /\ (c.text \/ c.calls # {} \/ c.finish) /\ acc.open # 0 /\ Goes(c) # acc.open

\* compat and vllmomni give the calls out when the reply ends in them.  Mutant:
\* with every chunk.
Flushes_Always(c) == Adp \in OverSSE
Flushes(c) == Adp \in OverSSE /\ c.finish /\ setup.finish = "tool_calls"

Some(condition, k, i) == IF condition THEN <<Fr(k, i, <<>>)>> ELSE <<>>
CallFrames(a, s) == [j \in DOMAIN s |-> Fr("call", s[j], a.calls[s[j]].args)]
AllCalls(a) == CallFrames(a, [i \in DOMAIN a.calls |-> i])
Text(c) == Some(c.text, "text", said.texts + 1)
Thought(c) == Some(c.thought, "thinking", 0)

\* The frames that a chunk makes.
OpenAIFrames(c, a) ==
  Text(c) \o (IF JustFinished(c) THEN CallFrames(a, <<acc.open>>) ELSE <<>>) \o Some(c.usage, "usage", 0)
CompatFrames(c, a) == Text(c) \o (IF Flushes(c) THEN AllCalls(a) ELSE <<>>) \o Some(c.usage, "usage", 0)
OmniFrames(c, a) == Text(c) \o Some(c.audio, "audio", 0) \o (IF Flushes(c) THEN AllCalls(a) ELSE <<>>) \o Some(c.usage, "usage", 0)
AnthropicFrames(c) == Thought(c) \o Text(c)
GoogleFrames(c, a) == Thought(c) \o Text(c) \o CallFrames(a, SetToSortSeq(c.calls, <))
BedrockFrames(c, a) ==
  Thought(c) \o Text(c) \o (IF c.stop /\ a.open # 0 THEN CallFrames(a, <<a.open>>) ELSE <<>>) \o Some(c.usage, "usage", 0)
Emitted(c, a) ==
  CASE Adp = "openai" -> OpenAIFrames(c, a) [] Adp = "compat" -> CompatFrames(c, a) [] Adp = "omni" -> OmniFrames(c, a)
    [] Adp = "anthropic" -> AnthropicFrames(c) [] Adp = "google" -> GoogleFrames(c, a) [] Adp = "bedrock" -> BedrockFrames(c, a)

\* The cache had to be used and was not.
Unmet == setup.req.require /\ ~setup.hit

After(c, a) ==
  [calls |-> IF Flushes(c) THEN <<>> ELSE a.calls, array |-> a.array,
   open |-> CASE Adp = "openai" /\ (c.text \/ c.calls # {} \/ c.finish) -> Goes(c)
              [] Adp = "bedrock" /\ c.stop -> 0 [] OTHER -> a.open]

Consume(c) ==
  LET a == Gathered(c) out == Emitted(c, a)
  IN /\ Says(c)
     /\ IF a.panics THEN over' = "panic" /\ UNCHANGED <<frames, acc, meta>>
        ELSE IF c.usage /\ Adp \in {"openai", "bedrock"} /\ Unmet
        THEN over' = "error" /\ frames' = frames \o Front(out) /\ UNCHANGED <<acc, meta>>
        ELSE /\ frames' = frames \o out /\ acc' = After(c, a) /\ UNCHANGED over
             /\ meta' = IF Adp \in OverSSE /\ c.finish THEN [set |-> TRUE, finish |-> TRUE] ELSE meta
     /\ UNCHANGED setup

\* Emit fails at one of the frames of a chunk: the caller's context is done.
Gone(c) ==
  LET a == Gathered(c) out == Emitted(c, a)
  IN /\ Says(c) /\ ~a.panics
     /\ \E n \in DOMAIN out : out[n].k \in {"text", "audio", "call"} /\ frames' = frames \o SubSeq(out, 1, n - 1)
     /\ over' = "gone"
     /\ UNCHANGED <<setup, acc, meta>>

\* The connection breaks, a chunk cannot be decoded, or it has a call whose
\* index is out of range.
Breaks ==
  /\ over = "no" /\ setup.ends = "error"
  /\ over' = "error" /\ said' = [said EXCEPT !.broken = TRUE]
  /\ UNCHANGED <<setup, acc, frames, meta>>

\* The service has said all it has to say, or hangs up before.  What is left to
\* do then: the frames, whether a cache that had to be used makes it an error,
\* and whether the response has a reason to have finished.
Ending(out, fails, finish) ==
  /\ frames' = frames \o out \o Some(Adp \in {"anthropic", "google"} /\ ~fails, "usage", 0)
  /\ over' = IF fails THEN "error" ELSE "clean"
  /\ meta' = IF Adp \in OverSSE \/ fails THEN meta ELSE [set |-> TRUE, finish |-> finish]
OpenAIEnds == Ending(<<>>, Unmet /\ said.usage, said.finish)
AnthropicEnds == Ending(AllCalls(acc), Unmet, said.finish)
GoogleEnds == Ending(<<>>, Unmet /\ said.usage, TRUE)
BedrockEnds == Ending(<<>>, FALSE, TRUE)
ReplyEnds == setup.ends = "cut" \/ (said.finish /\ (setup.usage => said.usage))
EndOfReply ==
  /\ over = "no" /\ ReplyEnds
  /\ CASE Adp = "openai" -> OpenAIEnds [] Adp = "anthropic" -> AnthropicEnds [] Adp = "google" -> GoogleEnds
       [] Adp = "bedrock" -> BedrockEnds [] OTHER -> Ending(<<>>, FALSE, FALSE)
  /\ UNCHANGED <<setup, said, acc>>

\* Or the caller is gone when anthropic comes to give out the calls.
EndsGone ==
  /\ over = "no" /\ Adp = "anthropic" /\ ReplyEnds
  /\ \E n \in DOMAIN acc.calls : frames' = frames \o SubSeq(AllCalls(acc), 1, n - 1)
  /\ over' = "gone"
  /\ UNCHANGED <<setup, said, acc, meta>>

Done == over # "no" /\ UNCHANGED vars

Next ==
  \/ over = "no" /\ \E c \in Chunk : Sayable(c) /\ (Consume(c) \/ Gone(c))
  \/ Breaks \/ EndOfReply \/ EndsGone \/ Done

Spec == Init /\ [][Next]_vars

(***************************************************************************)
(* Properties.                                                             *)
(***************************************************************************)
Told(k) == SelectSeq(frames, LAMBDA f : f.k = k)
InOrder(s, whole) == \A j \in DOMAIN s : s[j].i = j /\ (whole => s[j].args = <<1, 2>>)

\* What was emitted is what the service said: the text in order, every call
\* once, in order and with the whole of its arguments, however the calls were
\* spelled out; a reply that ends cleanly after the service has finished it
\* lacks nothing; an error is told for a broken reply and for a cache that had
\* to be used and was not, and for nothing else; and a reply that the service
\* left half-way does not carry a reason to have finished.  The exceptions are
\* the code's: anthropic gives out a call that was cut off, compat and vllmomni
\* keep calls that the service finished with another reason than "tool_calls"
\* and panic when it comes back to a call after the slice has moved, and google
\* and bedrock call every reply finished.
ReplyTold ==
  /\ TypeOK
  /\ InOrder(Told("text"), FALSE) /\ Len(Told("text")) <= said.texts
  /\ InOrder(Told("call"), ~(Adp = "anthropic" /\ ~said.finish))
  /\ \A k \in {"thinking", "audio", "usage"} : Len(Told(k)) <= 1
  /\ over = "clean" /\ said.finish =>
       /\ Len(Told("text")) = setup.texts
       /\ Adp \notin OverSSE \/ setup.finish = "tool_calls" => Len(Told("call")) = setup.calls
       /\ Told("thinking") # <<>> <=> said.thought
       /\ Told("audio") # <<>> <=> said.audio
       /\ said.usage => Told("usage") # <<>>
       /\ meta.set /\ meta.finish
  /\ over = "error" => said.broken \/ (Unmet /\ Adp \notin OverSSE)
  /\ over = "clean" => ~said.broken /\ ~(Unmet /\ said.usage /\ Adp \notin OverSSE)
  /\ over = "panic" => Adp \in OverSSE /\ said.mixed
  /\ over = "clean" /\ ~said.finish => ~meta.finish \/ Adp \in {"google", "bedrock"}

HasCall(m, k, c) == \E i \in Sent(Adp, m) : m.parts[i].k = k /\ m.parts[i].c = c
Parts(k, c) == {m \in ToSet(setup.req.msgs) : \E i \in DOMAIN m.parts : m.parts[i].k = k /\ m.parts[i].c = c}

\* A conversation in which every call is answered is one for the service too.
Answered == \A c \in Call : Parts("result", c) # {} =>
  (\E m \in Parts("call", c) : HasCall(m, "call", c)) /\ (\E m \in Parts("result", c) : HasCall(m, "result", c))
OneResultEach == \A m \in ToSet(setup.req.msgs) : Cardinality({i \in DOMAIN m.parts : m.parts[i].k = "result"}) <= 1

\* The service is asked what the caller asks: a call with a result has both on
\* the wire (compat and vllmomni: if every message has one result); a caller
\* who forbids tools, or forces one, is obeyed where there is a way to say so;
\* and a cache entry that is required lives as long as was asked.
Asked ==
  over # "refused" =>
    /\ Adp \notin OverSSE \/ OneResultEach => Answered
    /\ setup.req.tools /\ Adp \notin OverSSE =>
         CASE setup.req.choice = "none" -> ToolMode(Adp, setup.req) \in {"none", "absent"}
           [] setup.req.choice = "required" -> ToolMode(Adp, setup.req) = "any"
           [] setup.req.choice = "func" -> ToolMode(Adp, setup.req) = "named"
           [] OTHER -> ToolMode(Adp, setup.req) \in {"auto", "unset"}
    /\ Adp = "anthropic" /\ setup.req.require => mapTTL(setup.req.ttl) = setup.req.ttl

(***************************************************************************)
(* What the documentation says and the code does not do.                   *)
(***************************************************************************)
\* "Emit completed tool calls from accumulated message" (anthropic.go:208): a
\* call that is given out has the whole of its arguments, also when the service
\* hung up in the middle of them.
CallsCompleted == InOrder(Told("call"), TRUE)

\* "FinishReason indicates why generation stopped", with "stop" for a "Normal
\* end or stop sequence" (frame.go:337, 317): a reply that the service has not
\* finished has no such reason.
FinishTold == over = "clean" /\ ~said.finish => ~meta.finish

\* "Never call tools" (frame.go:235): a caller who forbids tools is obeyed.
NoneForbids ==
  over # "refused" /\ setup.req.tools /\ setup.req.choice = "none" => ToolMode(Adp, setup.req) \in {"none", "absent"}

=============================================================================
