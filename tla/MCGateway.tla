----------------------------- MODULE MCGateway -----------------------------
(* Small stacks: one adapter called directly, and agents with some of the *)
(* components in several orders. *)
EXTENDS Gateway

Text(t) == [kind |-> "text", text |-> t, mime |-> "", url |-> "", data |-> <<>>, tool |-> <<>>, result |-> <<>>]
Called(args) == [Text(<<>>) EXCEPT !.kind = "call", !.tool = <<[id |-> "c", name |-> "f", args |-> args]>>]
Result(t) == [Text(<<>>) EXCEPT !.kind = "result", !.result = <<[call |-> "c", content |-> t, failed |-> FALSE]>>]
Picture(data, mime) == [Text(<<>>) EXCEPT !.kind = "image", !.data = data, !.mime = mime]
Msg(role, part) == [role |-> role, parts |-> <<part>>]
NoCache == [mode |-> "none", scope |-> "prefix", ttl |-> 0, key |-> <<>>]
Base == [client |-> <<"a">>, ctx |-> <<>>, model |-> <<"m">>, system |-> <<>>, msgs |-> <<Msg("user", Text(<<"x">>))>>,
         tools |-> FALSE, choice |-> "", options |-> "", format |-> "", schema |-> FALSE, cache |-> NoCache]
Cached(mode, key) == [NoCache EXCEPT !.mode = mode, !.key = key]
With(mode, key) == [Base EXCEPT !.cache = Cached(mode, key)]

\* What the callers of the direct stack ask, in pairs: either may be the first.
Prompts ==
  <<With("prefer", <<>>), [With("prefer", <<>>) EXCEPT !.client = <<"b">>], [With("auto", <<>>) EXCEPT !.client = <<" ", "a", "\n">>],
   With("prefer", <<"k">>), [With("auto", <<"k", " ">>) EXCEPT !.msgs = <<Msg("user", Text(<<"y">>))>>], 
   With("prefer", <<"k", ":", "z">>), [With("prefer", <<"z">>) EXCEPT !.client = <<"a", ":", "k">>],
   With("require", <<>>), With("bypass", <<>>), [With("prefer", <<>>) EXCEPT !.client = <<>>], [With("require", <<>>) EXCEPT !.cache.ttl = 1],
   [With("prefer", <<>>) EXCEPT !.system = <<"x">>, !.msgs = <<>>],
   [With("prefer", <<>>) EXCEPT !.msgs = <<Msg("system", Text(<<"x">>))>>],
   [With("prefer", <<>>) EXCEPT !.msgs = <<Msg("user", Text(<<"x", "\r", "\n", "y">>))>>],
   [With("prefer", <<>>) EXCEPT !.msgs = <<Msg("user", Text(<<"x", "\n", "y", "\r">>))>>],
   [With("prefer", <<>>) EXCEPT !.msgs = <<Msg("assistant", Called("{a:1,b:2}"))>>],
   [With("prefer", <<>>) EXCEPT !.msgs = <<Msg("assistant", Called("{b:2,a:1}"))>>],
   [With("prefer", <<>>) EXCEPT !.msgs = <<Msg("assistant", Called("{"))>>],
   [With("prefer", <<>>) EXCEPT !.msgs = <<Msg("tool", Result(<<"r", "\r">>))>>],
   [With("prefer", <<>>) EXCEPT !.msgs = <<Msg("user", Picture(<<"p">>, "png"))>>],
   [With("prefer", <<>>) EXCEPT !.msgs = <<Msg("user", Picture(<<"p">>, ""))>>],
   [With("auto", <<>>) EXCEPT !.model = <<>>], [Base EXCEPT !.format = "json_schema"]>>

Stack == [stack |-> "direct", adapter |-> "google", normalizer |-> "default", reqs |-> <<>>, registry |-> [x \in {<<"a">>} |-> "compat"],
          changes |-> 0, faults |-> {}, clears |-> FALSE, clock |-> FALSE, cancels |-> FALSE, selector |-> <<>>, default |-> <<>>, mutates |-> {},
          components |-> <<>>, lives |-> FALSE]

CONSTANTS p1, p2
Two(a, b) == (p1 :> a) @@ (p2 :> b)
Direct ==
  UNION {{[Stack EXCEPT !.reqs = Two(<<Prompts[x]>>, <<Prompts[y]>>)] : y \in x .. Len(Prompts)} : x \in DOMAIN Prompts}
    \cup {[Stack EXCEPT !.reqs = Two(<<With("require", <<>>)>>, <<With("prefer", <<>>)>>), !.adapter = a, !.normalizer = n, !.faults = {"deadline", "slow", "cut"}] :
            a \in {"google", "bedrock", "compat", "openai"}, n \in {"default", "func", "empty", "failing"}}

Component(kind) == [name |-> kind, kind |-> kind, applies |-> TRUE]
Named(kinds) == [i \in DOMAIN kinds |-> Component(kinds[i])]
Whole == [Stack EXCEPT !.stack = "agent", !.components = Named(<<"tenant", "retry", "cache">>)]

Elsewhere == [Base EXCEPT !.client = <<"b">>, !.system = <<"s">>]
Ask(n) == [Base EXCEPT !.msgs = <<Msg("user", Text(<<n>>))>>]
Routed ==
  {[Whole EXCEPT !.reqs = Two(<<Ask("x"), Ask("y"), Ask("z")>>, <<Ask("z"), Ask("x")>>), !.clears = c, !.clock = ~c] : c \in BOOLEAN}
    \cup {[Whole EXCEPT !.reqs = Two(<<Ask("x")>>, r[1]), !.faults = f, !.cancels = TRUE, !.registry = r[2]] :
            f \in {{"throttled", "denied"}, {"down", "cancelled"}, {"broken", "slow"}, {"missing", "deadline"}, {"refused", "quota", "cut"}},
            r \in {<<<<[Base EXCEPT !.options = "hot"], Elsewhere>>, [x \in {<<"a">>, <<"b">>} |-> "bedrock"]>>,
                   <<<<Elsewhere>>, (<<"a">> :> "google") @@ (<<"b">> :> "compat")>>}}
    \cup {[Whole EXCEPT !.reqs = Two(<<[Base EXCEPT !.client = <<>>, !.ctx = c]>>, <<[Base EXCEPT !.client = <<>>, !.tools = TRUE, !.choice = "none"]>>),
             !.changes = 2, !.selector = s, !.default = d, !.mutates = Pointers] :
            c \in {<<>>, <<"b">>}, s \in {<<>>, <<"a">>, <<"error">>}, d \in {<<>>, <<"b">>}}
\* Tool calls of a model whose arguments are not JSON.
Malformed ==
  {[Whole EXCEPT !.reqs = Two(<<[Base EXCEPT !.msgs = <<Msg("assistant", Called("{"))>>]>>,
                              <<[Base EXCEPT !.msgs = <<Msg("user", Text(<<"x">>)), Msg("assistant", Called("{"))>>]>>)]}
\* The components in other orders, and without the router; one name twice, a
\* component that cannot be applied.
Orders == {<<"tenant", "cache", "retry">>, <<"retry", "tenant", "other", "cache">>, <<"cache", "retry">>, <<"other", "retry">>, <<"other">>}
Arranged ==
  {[Whole EXCEPT !.components = Named(o), !.adapter = "compat", !.reqs = Two(<<Ask("x"), Ask("x")>>, <<Ask("x")>>),
     !.faults = {"slow", "denied"}, !.cancels = TRUE] : o \in Orders}
Hosted ==
  {[Whole EXCEPT !.components = c, !.reqs = Two(<<>>, <<>>), !.lives = TRUE] :
     c \in {Named(<<"tenant", "retry", "cache">>), Named(<<"other", "other">>), <<[Component("retry") EXCEPT !.applies = FALSE]>>,
            <<[Component("other") EXCEPT !.name = "tracer"], Component("other")>>, <<[Component("cache") EXCEPT !.name = ""]>>}}
\* Nobody calls.
Quiet == [Whole EXCEPT !.reqs = Two(<<>>, <<>>)]
AllSetups == Direct \cup Routed \cup Malformed \cup Arranged \cup Hosted \cup {Quiet}
=============================================================================
