---------------------------- MODULE SonicSession ----------------------------
(***************************************************************************)
(* provider/bedrock/sonic.go: a Nova Sonic session.  Senders put audio,    *)
(* text, tool results and ends of turn on one event stream, on which they  *)
(* open prompts and content blocks as they need them; recvLoop turns the   *)
(* server's events into frames and forgets the prompt when the model has   *)
(* completed its answer; Close ends what is open and the session.          *)
(*                                                                         *)
(* The SDK's event stream is the environment: what is written on it may    *)
(* fail, it may end, with an error or without.  The server keeps to one    *)
(* content block at a time.                                                *)
(***************************************************************************)
EXTENDS Integers, Sequences, FiniteSets

CONSTANTS
  Senders,    \* goroutines that call Send
  MaxSends,   \* bound: frames that are sent
  Budgets,    \* bounds: how many frames are sent and of what kinds, how many completions and
              \* other events come, how many writes fail
  RecvSize    \* niro.RealtimeStreamBuffer

Op == {"audio", "text", "result", "eot"}

Budget == [sends : 0 .. MaxSends, ops : SUBSET Op, turns : Nat, events : Nat, failures : Nat]

Nobody == "nobody"

ASSUME SonicBounds ==
  /\ IsFiniteSet(Senders) /\ Nobody \notin Senders /\ RecvSize \in Nat \ {0} /\ MaxSends \in Nat
  /\ Budgets \subseteq Budget

VARIABLES
  budget,     \* what is left of the bounds
  closed,     \* s.closed
  prompt,     \* s.promptID, s.eotSent and s.systemSent, under s.mu
  audio,      \* s.audioContentID, under s.mu
  promptMu,   \* who holds s.promptMu
  ids,        \* the last prompt and the last audio block that were given a name
  sender,     \* the senders: what is to be written, and what for
  closer,     \* Close
  es,         \* the event stream: whether it is open, and what the server was sent
  loop,       \* recvLoop
  server,     \* the content block the server is in
  recv,       \* the Recv stream
  got,        \* the frames that were read from it
  fate        \* history: what became of prompts that are not ended

vars == <<budget, closed, prompt, audio, promptMu, ids, sender, closer, es, loop, server, recv, got, fate>>

None == 0

\* Every prompt and audio block that may get a name: no Send opens more than one.
Names == 1 .. MaxSends

Event == [ev : {"prompt_start", "system_start", "system_text", "system_end", "start", "audio", "end", "content",
                "prompt_end", "session_end"}, p : Names \cup {None}, b : Names \cup {None}]

Ev(e, p, b) == [ev |-> e, p |-> p, b |-> b]

Sender == [pc : {"idle", "wait", "recheck", "open", "body", "claim", "raw", "rest"}, op : Op, todo : Seq(Event),
           checked : BOOLEAN, sys : BOOLEAN, p : Names \cup {None}, b : Names \cup {None}]
Idle == [pc |-> "idle", op |-> "eot", todo |-> <<>>, checked |-> FALSE, sys |-> FALSE, p |-> None, b |-> None]

Frame == {"text", "flush", "audio", "call", "eot", "usage"}

SendType ==
  /\ budget \in Budget
  /\ prompt \in [id : Names \cup {None}, eot : BOOLEAN, system : BOOLEAN]
  /\ audio \in Names \cup {None}
  /\ promptMu \in Senders \cup {Nobody}
  /\ ids \in [p : Names \cup {None}, b : Names \cup {None}]
  /\ sender \in [Senders -> Sender]
CloseType ==
  /\ closed \in BOOLEAN
  /\ closer \in [pc : {"idle", "block", "prompt", "session", "hang_up", "done"}, todo : Seq(Event)]
EventType ==
  /\ es \in [open : BOOLEAN, started : SUBSET Names, ends : [Names -> Nat], blockEnds : [Names -> Nat],
             system : Nat, sessionEnds : Nat, failed : BOOLEAN]
  /\ fate \in [abandoned : SUBSET Names, completed : SUBSET Names, missed : SUBSET Names]
LoopType ==
  /\ loop \in [pc : {"read", "emit", "reset", "done"}, inTool : BOOLEAN, tool : BOOLEAN,
               speculative : BOOLEAN, frame : Frame, said : Seq(Frame)]
  /\ server \in {"between", "speculative", "final", "audio", "tool", "tool_used"}
  /\ recv \in [frames : Seq(Frame), closed : BOOLEAN, err : BOOLEAN] /\ Len(recv.frames) <= RecvSize
  /\ got \in Seq(Frame)

TypeOK == SendType /\ CloseType /\ EventType /\ LoopType

\* Session: the stream is open and sessionStart was sent.
Init ==
  /\ budget \in Budgets
  /\ closed = FALSE
  /\ prompt = [id |-> None, eot |-> FALSE, system |-> FALSE] /\ audio = None /\ promptMu = Nobody
  /\ ids = [p |-> None, b |-> None]
  /\ sender = [t \in Senders |-> Idle]
  /\ closer = [pc |-> "idle", todo |-> <<>>]
  /\ es = [open |-> TRUE, started |-> {}, ends |-> [n \in Names |-> 0], blockEnds |-> [n \in Names |-> 0],
           system |-> 0, sessionEnds |-> 0, failed |-> FALSE]
  /\ loop = [pc |-> "read", inTool |-> FALSE, tool |-> FALSE, speculative |-> FALSE, frame |-> "eot", said |-> <<>>]
  /\ server = "between"
  /\ recv = [frames |-> <<>>, closed |-> FALSE, err |-> FALSE]
  /\ got = <<>>
  /\ fate = [abandoned |-> {}, completed |-> {}, missed |-> {}]

(***************************************************************************)
(* The event stream.                                                       *)
(***************************************************************************)
\* What the server makes of an event.
Told(e) ==
  CASE e.ev = "prompt_start" -> [es EXCEPT !.started = @ \cup {e.p}]
    [] e.ev = "system_text" -> [es EXCEPT !.system = @ + 1]
    [] e.ev = "end" -> [es EXCEPT !.blockEnds[e.b] = @ + 1]
    [] e.ev = "prompt_end" -> [es EXCEPT !.ends[e.p] = @ + 1]
    [] e.ev = "session_end" -> [es EXCEPT !.sessionEnds = @ + 1]
    [] OTHER -> es

Writes(e) == es.open /\ es' = Told(e) /\ UNCHANGED budget

\* A write fails once the stream is closed, and may fail before.
WriteFails ==
  \/ ~es.open /\ UNCHANGED <<es, budget>>
  \/ es.open /\ budget.failures > 0 /\ budget' = [budget EXCEPT !.failures = @ - 1] /\ es' = [es EXCEPT !.failed = TRUE]

(***************************************************************************)
(* Send.                                                                   *)
(***************************************************************************)
Receiving == UNCHANGED <<loop, server, recv, got>>
Sending == Receiving /\ UNCHANGED <<closed, closer>>

Becomes(t, s) == sender' = [sender EXCEPT ![t] = s]
Next_(t, pc) == [sender[t] EXCEPT !.pc = pc, !.todo = <<>>, !.checked = FALSE]
Writing(t, pc, todo) == [sender[t] EXCEPT !.pc = pc, !.todo = todo, !.checked = FALSE]

\* A tool result needs a prompt; audio and text open one.
Begin(t) ==
  /\ sender[t].pc = "idle" /\ budget.sends > 0
  /\ budget' = [budget EXCEPT !.sends = @ - 1]
  /\ \E op \in budget.ops \ {"eot"} :
       /\ op = "result" => prompt.id # None
       /\ Becomes(t, [Idle EXCEPT !.op = op, !.pc = IF prompt.id # None THEN "body" ELSE "wait"])
  /\ UNCHANGED <<prompt, audio, promptMu, ids, es, fate>> /\ Sending

\* ensurePromptOpen: one at a time, and the second look.
Lock(t) ==
  /\ sender[t].pc = "wait" /\ promptMu = Nobody
  /\ promptMu' = t /\ Becomes(t, Next_(t, "recheck"))
  /\ UNCHANGED <<budget, prompt, audio, ids, es, fate>> /\ Sending

\* Mutant: without the second look.
Recheck_Blind == FALSE
Recheck == prompt.id # None

AlreadyOpen(t) ==
  /\ sender[t].pc = "recheck" /\ Recheck
  /\ promptMu' = Nobody /\ Becomes(t, Next_(t, "body"))
  /\ UNCHANGED <<budget, prompt, audio, ids, es, fate>> /\ Sending

System(p) == <<Ev("system_start", p, None), Ev("system_text", p, None), Ev("system_end", p, None)>>

Open(t) ==
  /\ sender[t].pc = "recheck" /\ ~Recheck
  /\ ids' = [ids EXCEPT !.p = @ + 1]
  /\ prompt' = [prompt EXCEPT !.system = TRUE]
  /\ Becomes(t, [Writing(t, "open", <<Ev("prompt_start", ids'.p, None)>> \o (IF prompt.system THEN <<>> ELSE System(ids'.p)))
                 EXCEPT !.p = ids'.p, !.sys = ~prompt.system])
  /\ UNCHANGED <<budget, audio, promptMu, es, fate>> /\ Sending

Opened(t) ==
  /\ sender[t].pc = "open" /\ sender[t].todo = <<>>
  /\ prompt' = [prompt EXCEPT !.id = sender[t].p, !.eot = FALSE]
  /\ promptMu' = Nobody /\ Becomes(t, Next_(t, "body"))
  /\ UNCHANGED <<budget, audio, ids, es, fate>> /\ Sending

\* sendAudio: the block is claimed under the lock, and started after it.
Claim(t) ==
  /\ sender[t].pc = "body" /\ sender[t].op = "audio" /\ audio = None
  /\ ids' = [ids EXCEPT !.b = @ + 1] /\ audio' = ids'.b
  /\ Becomes(t, [Writing(t, "claim", <<Ev("start", prompt.id, ids'.b)>>) EXCEPT !.p = prompt.id, !.b = ids'.b])
  /\ UNCHANGED <<budget, prompt, promptMu, es, fate>> /\ Sending

Raw(t, p, b) == [Writing(t, "raw", <<Ev("audio", p, b)>>) EXCEPT !.p = p, !.b = b]

Join(t) ==
  /\ sender[t].pc = "body" /\ sender[t].op = "audio" /\ audio # None
  /\ Becomes(t, Raw(t, prompt.id, audio))
  /\ UNCHANGED <<budget, prompt, audio, promptMu, ids, es, fate>> /\ Sending

Claimed(t) ==
  /\ sender[t].pc = "claim" /\ sender[t].todo = <<>>
  /\ Becomes(t, Raw(t, sender[t].p, sender[t].b))
  /\ UNCHANGED <<budget, prompt, audio, promptMu, ids, es, fate>> /\ Sending

\* sendText, sendToolResult: a block of its own (its content stands for its end too).
Content(t) ==
  /\ sender[t].pc = "body" /\ sender[t].op \in {"text", "result"}
  /\ Becomes(t, Writing(t, "rest", <<Ev("start", prompt.id, None), Ev("content", prompt.id, None)>>))
  /\ UNCHANGED <<budget, prompt, audio, promptMu, ids, es, fate>> /\ Sending

\* sendEOT and sendAbort.
EndOfTurn(t) ==
  /\ sender[t].pc = "idle" /\ budget.sends > 0 /\ "eot" \in budget.ops
  /\ prompt.id # None /\ ~prompt.eot
  /\ budget' = [budget EXCEPT !.sends = @ - 1]
  /\ prompt' = [prompt EXCEPT !.eot = TRUE] /\ audio' = None
  /\ Becomes(t, [Writing(t, "rest", (IF audio = None THEN <<>> ELSE <<Ev("end", prompt.id, audio)>>) \o <<Ev("prompt_end", prompt.id, None)>>)
                 EXCEPT !.op = "eot", !.p = prompt.id])
  /\ UNCHANGED <<promptMu, ids, es, fate>> /\ Sending

\* sendEvent looks at closed, then writes; the audio itself is written without a look.
SendCheck(t) ==
  /\ sender[t].pc \in {"open", "claim", "rest"} /\ sender[t].todo # <<>> /\ ~sender[t].checked /\ ~closed
  /\ Becomes(t, [sender[t] EXCEPT !.checked = TRUE])
  /\ UNCHANGED <<budget, prompt, audio, promptMu, ids, es, fate>> /\ Sending

AtWrite(t) == sender[t].todo # <<>> /\ (sender[t].checked \/ sender[t].pc = "raw")

Write(t) ==
  /\ AtWrite(t) /\ Writes(Head(sender[t].todo))
  /\ LET rest == Tail(sender[t].todo)
     IN  Becomes(t, IF rest = <<>> /\ sender[t].pc \in {"raw", "rest"} THEN Idle
                    ELSE [sender[t] EXCEPT !.todo = rest, !.checked = FALSE])
  /\ UNCHANGED <<prompt, audio, promptMu, ids, fate>> /\ Sending

\* Mutant: promptMu is not given back after an error.
Unlocks_Not(t) == promptMu
Unlocks(t) == IF sender[t].pc = "open" THEN Nobody ELSE promptMu

\* An error: the claim of a block is taken back, and that of the system prompt, but
\* only when the prompt was not started.
Aborts(t) ==
  LET s == sender[t]
      first == s.pc = "open" /\ Head(s.todo).ev = "prompt_start"
  IN  /\ Becomes(t, Idle)
      /\ audio' = IF s.pc = "claim" /\ audio = s.b THEN None ELSE audio
      /\ prompt' = IF first /\ s.sys THEN [prompt EXCEPT !.system = FALSE] ELSE prompt
      /\ promptMu' = Unlocks(t)
      /\ fate' = IF s.pc = "open" \/ s.op = "eot" THEN [fate EXCEPT !.abandoned = @ \cup {s.p}] ELSE fate
      /\ UNCHANGED ids /\ Sending

SendRefused(t) ==
  /\ sender[t].pc \in {"open", "claim", "rest"} /\ sender[t].todo # <<>> /\ ~sender[t].checked /\ closed
  /\ Aborts(t) /\ UNCHANGED <<budget, es>>

SendFails(t) == AtWrite(t) /\ WriteFails /\ Aborts(t)

(***************************************************************************)
(* Close.                                                                  *)
(***************************************************************************)
Closing == Receiving /\ UNCHANGED <<promptMu, ids, sender>>

Close ==
  /\ closer.pc = "idle"
  /\ closed' = TRUE /\ closer' = [closer EXCEPT !.pc = "block"]
  /\ UNCHANGED <<budget, prompt, audio, es, fate>> /\ Closing

CloseBlock ==
  /\ closer.pc = "block" /\ closer.todo = <<>>
  /\ audio' = None
  /\ closer' = [pc |-> "prompt", todo |-> IF audio = None THEN <<>> ELSE <<Ev("end", prompt.id, audio)>>]
  /\ UNCHANGED <<budget, closed, prompt, es, fate>> /\ Closing

PromptLeft == prompt.id # None /\ ~prompt.eot

\* Of prompts that are being opened or ended by a sender, Close does not know.
ClosePrompt ==
  /\ closer.pc = "prompt" /\ closer.todo = <<>>
  /\ prompt' = [prompt EXCEPT !.id = None]
  /\ closer' = [pc |-> "session", todo |-> IF PromptLeft THEN <<Ev("prompt_end", prompt.id, None)>> ELSE <<>>]
  /\ fate' = [fate EXCEPT !.missed = {sender[t].p : t \in {u \in Senders : sender[u].pc = "open" \/ (sender[u].pc = "rest" /\ sender[u].op = "eot")}}]
  /\ UNCHANGED <<budget, closed, audio, es>> /\ Closing

CloseSession ==
  /\ closer.pc = "session" /\ closer.todo = <<>>
  /\ closer' = [pc |-> "hang_up", todo |-> <<Ev("session_end", None, None)>>]
  /\ UNCHANGED <<budget, closed, prompt, audio, es, fate>> /\ Closing

\* sendForce: whether it fails makes no difference to what follows.
CloseWrite ==
  /\ closer.todo # <<>>
  /\ Writes(Head(closer.todo)) \/ WriteFails
  /\ closer' = [closer EXCEPT !.todo = <<>>]
  /\ UNCHANGED <<closed, prompt, audio, fate>> /\ Closing

HangUp ==
  /\ closer.pc = "hang_up" /\ closer.todo = <<>>
  /\ es' = [es EXCEPT !.open = FALSE] /\ closer' = [closer EXCEPT !.pc = "done"]
  /\ UNCHANGED <<budget, closed, prompt, audio, fate>> /\ Closing

(***************************************************************************)
(* recvLoop.                                                               *)
(***************************************************************************)
Looping == UNCHANGED <<closed, promptMu, ids, sender, closer, got>>

\* What the server may do, what block it is in afterwards, and what it has said, which
\* is a call only when the block of the tool is over.
Step(k, next, said) == [k |-> k, next |-> next, said |-> said]
ServerSteps ==
  CASE server = "between" ->
         {Step("start_speculative", "speculative", <<>>), Step("start_final", "final", <<>>), Step("start_audio", "audio", <<>>),
          Step("start_tool", "tool", <<>>), Step("completion", "between", <<"eot">>), Step("usage", "between", <<"usage">>)}
    [] server = "speculative" -> {Step("text", server, <<>>), Step("end", "between", <<>>)}
    [] server = "final" -> {Step("text", server, <<"text">>), Step("interrupted", server, <<"flush">>), Step("end", "between", <<>>)}
    [] server = "audio" -> {Step("audio", server, <<"audio">>), Step("end", "between", <<>>)}
    [] server = "tool" -> {Step("tool_use", "tool_used", <<>>), Step("end_tool", "between", <<>>)}
    [] server = "tool_used" -> {Step("end_tool", "between", <<"call">>)}

Holds(l, f) == [l EXCEPT !.pc = "emit", !.frame = f]

\* Mutant: the buffer of an earlier call is kept.
StartsTool_Keeps(l) == [l EXCEPT !.inTool = TRUE]
StartsTool(l) == [l EXCEPT !.inTool = TRUE, !.tool = FALSE]

\* What recvLoop makes of an event: text of a speculative block is left out, a tool
\* call is complete with its block.
Handled(l, k) ==
  CASE k = "start_speculative" -> [l EXCEPT !.speculative = TRUE]
    [] k = "start_tool" -> StartsTool([l EXCEPT !.speculative = FALSE])
    [] k \in {"start_final", "start_audio"} -> [l EXCEPT !.speculative = FALSE]
    [] k = "text" -> IF l.speculative THEN l ELSE Holds(l, "text")
    [] k = "interrupted" -> IF l.speculative THEN l ELSE Holds(l, "flush")
    [] k = "audio" -> Holds(l, "audio")
    [] k = "tool_use" -> [l EXCEPT !.tool = TRUE]
    [] k = "end_tool" -> IF l.inTool /\ l.tool THEN Holds([l EXCEPT !.inTool = FALSE], "call") ELSE l
    [] k = "completion" -> Holds(l, "eot")
    [] k = "usage" -> Holds(l, "usage")
    [] OTHER -> l

ReadEvent ==
  /\ loop.pc = "read" /\ es.open
  /\ \E e \in ServerSteps :
       /\ budget' = IF e.k = "completion" THEN [budget EXCEPT !.turns = @ - 1] ELSE [budget EXCEPT !.events = @ - 1]
       /\ budget' \in Budget
       /\ loop' = Handled([loop EXCEPT !.said = @ \o e.said], e.k)
       /\ server' = e.next
  /\ UNCHANGED <<prompt, audio, es, recv, fate>> /\ Looping

\* Emit has no context that ends: it waits for the reader.
Emit ==
  /\ loop.pc = "emit" /\ Len(recv.frames) < RecvSize
  /\ recv' = [recv EXCEPT !.frames = Append(@, loop.frame)]
  /\ loop' = [loop EXCEPT !.pc = IF loop.frame = "eot" THEN "reset" ELSE "read"]
  /\ UNCHANGED <<budget, prompt, audio, es, server, fate>> /\ Looping

\* completionEnd, after its frame.
Reset ==
  /\ loop.pc = "reset"
  /\ prompt' = [prompt EXCEPT !.id = None, !.eot = FALSE] /\ audio' = None
  /\ loop' = [loop EXCEPT !.pc = "read"]
  /\ fate' = [fate EXCEPT !.completed = @ \cup ({prompt.id} \ {None})]
  /\ UNCHANGED <<budget, es, server, recv>> /\ Looping

Ends(err) ==
  /\ loop' = [loop EXCEPT !.pc = "done"]
  /\ recv' = [recv EXCEPT !.closed = TRUE, !.err = err]
  /\ UNCHANGED <<budget, prompt, audio, es, server, fate>> /\ Looping

LoopStops == loop.pc = "read" /\ closed /\ Ends(FALSE)

\* The event stream has ended, by Close or by the server.
StreamEnds == loop.pc = "read" /\ \E err \in BOOLEAN : (closer.pc = "done" => ~err) /\ Ends(err)

Receive ==
  /\ recv.frames # <<>>
  /\ got' = Append(got, Head(recv.frames)) /\ recv' = [recv EXCEPT !.frames = Tail(@)]
  /\ UNCHANGED <<budget, closed, prompt, audio, promptMu, ids, sender, closer, es, loop, server, fate>>

(***************************************************************************)
(* The specification.                                                      *)
(***************************************************************************)
SendStep(t) ==
  \/ Lock(t) \/ AlreadyOpen(t) \/ Open(t) \/ Opened(t) \/ Claim(t) \/ Join(t) \/ Claimed(t) \/ Content(t)
  \/ SendCheck(t) \/ Write(t) \/ SendRefused(t) \/ SendFails(t)

CloseStep == CloseBlock \/ ClosePrompt \/ CloseSession \/ CloseWrite \/ HangUp

LoopStep == Emit \/ Reset \/ LoopStops

Next ==
  \/ \E t \in Senders : Begin(t) \/ EndOfTurn(t) \/ SendStep(t)
  \/ Close \/ CloseStep
  \/ ReadEvent \/ LoopStep \/ StreamEnds \/ Receive

Spec == Init /\ [][Next]_vars

\* The caller reads; goroutines that can go on do.
FairSpec ==
  /\ Spec /\ WF_vars(CloseStep) /\ WF_vars(LoopStep) /\ WF_vars(Receive)
  /\ \A t \in Senders : WF_vars(SendStep(t))

(***************************************************************************)
(* Properties.                                                             *)
(***************************************************************************)
Unfinished == {p \in es.started : es.ends[p] = 0} \ (fate.abandoned \cup fate.completed)

\* A prompt is started only when the one before it is over: two senders that find none
\* do not both open one, whatever recvLoop and Close do meanwhile (ensurePromptOpen).
OnePrompt == Cardinality(Unfinished) <= 1

\* No prompt, audio block or session is ended twice, and the system prompt is not sent
\* twice, though senders, aborts, completions and Close all look for things to end.
EndedOnce ==
  /\ \A n \in Names : es.ends[n] <= 1 /\ es.blockEnds[n] <= 1
  /\ es.system <= 1 /\ es.sessionEnds <= 1

\* When Close has returned and nothing failed, every prompt it could know of is ended.
FlushedOnClose == closer.pc = "done" /\ ~es.failed => Unfinished \subseteq fate.missed

\* The event protocol, on a well-typed session.
Bracketed == TypeOK /\ OnePrompt /\ EndedOnce /\ FlushedOnClose

\* The caller is given what the server said, once and in order: no speculative text, a
\* call for each complete tool block, and none from what an earlier one has left.
FramesMatch == got \o recv.frames \o (IF loop.pc = "emit" THEN <<loop.frame>> ELSE <<>>) = loop.said

\* A session that is closed comes to its end: Close, the senders and recvLoop return and
\* the stream that the caller reads is closed.
CloseEnds == closed ~> (closer.pc = "done" /\ recv.closed /\ \A t \in Senders : sender[t].pc = "idle")

=============================================================================
