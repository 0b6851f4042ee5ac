----------------------------- MODULE MCAdapters -----------------------------
(***************************************************************************)
(* The replies and requests of Adapters that TLC checks: every adapter     *)
(* with every reply of up to two texts and two calls of two pieces each,   *)
(* and every adapter with conversations in which one round made two calls. *)
(***************************************************************************)
EXTENDS Adapters

P(k, c) == [k |-> k, c |-> c]
M(role, parts) == [role |-> role, parts |-> parts]
Question == M("user", <<P("text", 1)>>)

Req == [choice |-> "", tools |-> TRUE, reasoning |-> FALSE, require |-> FALSE, ttl |-> 0, msgs |-> <<Question>>]
Reply == [adapter |-> "openai", req |-> Req, texts |-> 0, calls |-> 0, thought |-> FALSE, audio |-> FALSE, usage |-> FALSE,
          finish |-> "stop", ends |-> "done", serial |-> TRUE, hit |-> FALSE]

Replies ==
  {[Reply EXCEPT !.adapter = a, !.texts = t, !.calls = n, !.thought = x, !.audio = x, !.usage = u, !.finish = f, !.ends = e,
                 !.serial = s] :
     a \in Adapter, t \in {0, 2}, n \in 0 .. 2, x \in BOOLEAN, u \in BOOLEAN, f \in {"stop", "tool_calls"},
     e \in {"done", "cut", "error"}, s \in BOOLEAN}
Cached ==
  {[Reply EXCEPT !.adapter = a, !.texts = 1, !.calls = 1, !.usage = u, !.hit = h, !.finish = "tool_calls", !.req.require = TRUE,
                 !.req.ttl = ttl] : a \in Adapter, u \in BOOLEAN, h \in BOOLEAN, ttl \in {0, 5, 30, 60, 90}}

Rounds ==
  {<<M("system", <<P("text", 1), P("text", 2)>>)>>, <<>>,
   <<Question, M("assistant", <<P("text", 1), P("call", 1), P("call", 2)>>), M("tool", <<P("result", 1), P("result", 2)>>)>>,
   <<Question, M("assistant", <<P("call", 1), P("call", 2)>>), M("tool", <<P("result", 1)>>), M("tool", <<P("result", 2)>>)>>,
   <<M("user", <<P("text", 1), P("image", 1), P("image_url", 1), P("audio", 1), P("video", 1)>>),
     M("assistant", <<P("call", 1)>>), M("tool", <<P("result", 1)>>), M("assistant", <<P("text", 1)>>), Question>>}
Requests ==
  {[Reply EXCEPT !.adapter = a, !.req.choice = c, !.req.tools = t, !.req.reasoning = r, !.req.msgs = ms] :
     a \in Adapter, c \in {"", "auto", "none", "required", "func"}, t \in BOOLEAN, r \in BOOLEAN, ms \in Rounds}

MCSetups == Replies \cup Cached \cup Requests

=============================================================================
