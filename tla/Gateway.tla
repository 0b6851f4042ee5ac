------------------------------ MODULE Gateway ------------------------------
(***************************************************************************)
(* Calls of several goroutines through what stands between a caller and a  *)
(* provider.  Runtime.Generate validates the request, normalizes its cache *)
(* hint and calls an adapter, which may use the prefix cache of its        *)
(* service.  An agent calls, with what it is given, what its components    *)
(* have made of the provider: the response cache (middleware.Cache),       *)
(* RetryProvider and MultiTenantProvider, which routes to a provider of    *)
(* the Registry, in any order; and the components are started and closed   *)
(* by their Host.  A response is named by the request that it answers; its *)
(* frames are in Relay.                                                    *)
(***************************************************************************)
EXTENDS PrefixKey, FiniteSets, FiniteSetsExt

CONSTANTS
  Caller,       \* goroutines that make calls, one after the other
  Setups,       \* the stacks, requests and faults that are checked
  MaxAttempts,  \* RetryConfig.MaxAttempts
  MaxEntries,   \* CacheOptions.MaxEntries
  TTL,          \* CacheOptions.TTL; 0: entries do not expire
  MaxTime       \* bound of the clock

\* What the options of a request point to.
Pointers == {"temperature", "topP", "topK", "penalties", "budget", "cache"}

ASSUME GatewayAssumption == MaxAttempts \in Nat \ {0} /\ MaxEntries \in Nat \ {0} /\ TTL \in Nat /\ MaxTime \in Nat
ASSUME SetupsAssumption ==
  \A s \in Setups :
    /\ s.reqs \in [Caller -> Seq(Request)] /\ s.changes \in Nat
    /\ s.adapter \in STRING /\ s.normalizer \in {"default", "func", "empty", "failing"}
    /\ s.selector \in Chars /\ s.default \in Chars /\ s.mutates \subseteq Pointers
    /\ s.registry \in [DOMAIN s.registry -> STRING] /\ DOMAIN s.registry \subseteq Chars

(***************************************************************************)
(* Validation of a request.                                                *)
(***************************************************************************)
ValidatePart(p) ==
  CASE p.kind = "text" -> TRUE
    [] p.kind \in {"audio", "image", "video"} -> (p.data # <<>> \/ p.url # "") /\ (p.data # <<>> => p.mime # "")
    [] p.kind = "call" -> p.tool # <<>> /\ p.tool[1].id # "" /\ p.tool[1].name # "" /\ (p.tool[1].args # "" => JSONValid(p.tool[1].args))
    [] p.kind = "result" -> p.result # <<>> /\ p.result[1].call # ""
    [] OTHER -> FALSE
ValidateMessage(m) == m.parts # <<>> /\ \A p \in ToSet(m.parts) : ValidatePart(p)
validateResponseFormat(req) ==
  req.format \in {"", "json", "json_schema", "text"} /\ (req.format = "json_schema" => req.schema)
ValidateToolChoice(req) == req.tools => req.choice \in {"", "auto", "required", "none", "func"}
Validate(req) ==
  /\ req.system # <<>> \/ req.msgs # <<>>
  /\ \A m \in ToSet(req.msgs) : ValidateMessage(m)
  /\ validateResponseFormat(req) /\ ValidateToolChoice(req)
  /\ req.cache.mode # "none" => validateCacheOptions(req.cache)

(***************************************************************************)
(* Errors.  An adapter makes one of these codes of what its service says.  *)
(***************************************************************************)
isRetryable(code) == code \in {"limited", "unavailable", "timeout", "stream"}

ConvertHTTPStatusToCode(status) ==
  CASE status = 401 -> "auth" [] status = 404 -> "missing" [] status = 429 -> "limited"
    [] status = 503 -> "unavailable" [] status = 504 -> "timeout"
    [] status >= 400 /\ status < 500 /\ status \notin {401, 404, 429} -> "invalid"
    [] status >= 500 /\ status \notin {503, 504} -> "provider"
    [] OTHER -> "internal"

\* What can go wrong with a call (external), and how the services say it.
Causes == {"throttled", "quota", "denied", "missing", "refused", "slow", "down", "broken", "deadline", "cancelled", "cut"}
StatusOf(cause) ==
  CASE cause \in {"throttled", "quota"} -> 429 [] cause = "denied" -> 401 [] cause = "missing" -> 404
    [] cause = "refused" -> 400 [] cause = "slow" -> 504 [] cause = "down" -> 503 [] cause = "broken" -> 500 [] OTHER -> 0
BedrockClass(cause) ==
  CASE cause \in {"deadline", "slow"} -> "timeout" [] cause = "cancelled" -> "cancelled"
    [] cause \in {"throttled", "quota"} -> "limited" [] cause = "denied" -> "auth" [] cause = "missing" -> "missing"
    [] cause = "refused" -> "invalid" [] cause = "down" -> "unavailable" [] cause = "cut" -> "stream" [] OTHER -> "provider"
GoogleClass(cause) ==
  CASE StatusOf(cause) # 0 -> ConvertHTTPStatusToCode(StatusOf(cause)) [] cause = "deadline" -> "timeout"
    [] cause = "cancelled" -> "cancelled" [] OTHER -> "stream"
CompatClass(cause) == IF StatusOf(cause) # 0 THEN ConvertHTTPStatusToCode(StatusOf(cause)) ELSE "provider"
Class(adapter, cause) ==
  CASE adapter = "bedrock" -> BedrockClass(cause) [] adapter = "google" -> GoogleClass(cause) [] OTHER -> CompatClass(cause)

\* The SDKs of three services ask when the stream is read: what fails then, and
\* what breaks later, is an error of the stream, and not of the call.
Lazy(adapter) == adapter \in {"google", "openai", "anthropic"}
InStream(adapter, cause) ==
  CASE adapter = "bedrock" -> BedrockClass(cause) [] adapter = "google" -> GoogleClass(cause) [] OTHER -> "stream"

\* What an adapter says it can do with a cache hint.
NoCaps == [prefix |-> FALSE, keys |-> FALSE, ttl |-> FALSE]
CacheCaps(adapter) ==
  IF adapter \in {"openai", "anthropic", "bedrock", "google"}
  THEN [prefix |-> TRUE, keys |-> adapter = "google", ttl |-> adapter # "openai"] ELSE NoCaps

(***************************************************************************)
(* The state.                                                              *)
(***************************************************************************)
VARIABLES
  setup,      \* the stack, its configuration, the requests of the callers
  calls,      \* the call of every caller, Idle between two
  given,      \* the options of each caller that someone else has written
  cancelled,  \* the callers whose context is done
  entries,    \* the map of a shard of the response cache
  list,       \* its keys, the one that was used last first
  registry,   \* the providers of the Registry, by name
  changes,    \* Register and Remove still to come
  engine,     \* prefixes that the CacheEngine knows
  host,       \* what StartAll and CloseAll of the components' Host do
  now,
  used        \* history: when each key was last put or hit, in uses

vars == <<setup, calls, given, cancelled, entries, list, registry, changes, engine, host, now, used>>

(***************************************************************************)
(* The components of an agent.                                             *)
(***************************************************************************)
\* agent.New: every component is registered with the Host, under a name of its own,
\* and wraps the provider; the router takes its place.  Timeouts, tools and
\* middleware of the caller's (kind "other") are in Relay and ToolLoop.
Register(rt, c) == c.name # "" /\ c.name \notin rt.names
Apply(rt, c) ==
  LET known == [rt EXCEPT !.names = @ \cup {c.name}]
  IN CASE rt.failed -> rt
       [] ~rt.failed /\ ~Register(rt, c) -> [rt EXCEPT !.failed = TRUE]
       [] ~rt.failed /\ Register(rt, c) /\ ~c.applies -> [known EXCEPT !.failed = TRUE]
       [] OTHER -> [known EXCEPT !.layers = IF c.kind = "tenant" THEN <<c.kind>> ELSE <<c.kind>> \o @]
Made(components) == FoldLeft(Apply, [layers |-> <<>>, names |-> {}, failed |-> FALSE], components)
Agent == Made(setup.components)

\* The layers of the provider that a call goes through, the outermost first.
Through(layers) == SelectSeq(layers, LAMBDA k : k # "other")
Layers == Through(Agent.layers)
Has(k) == k \in ToSet(Layers)
Entry(i) ==
  IF i > Len(Layers) THEN "call"
  ELSE CASE Layers[i] = "cache" -> "lookup" [] Layers[i] = "retry" -> "attempt" [] OTHER -> "route"
Below(k) == Entry(1 + CHOOSE i \in DOMAIN Layers : Layers[i] = k)

(***************************************************************************)
(* Calls.                                                                  *)
(***************************************************************************)
None == [k |-> "none", code |-> "", req |-> <<>>, by |-> "", at |-> 0, hit |-> FALSE, content |-> <<>>]
Idle == [pc |-> "idle", n |-> 0, hint |-> Refused, attempt |-> 0, client |-> <<>>, by |-> "", codes |-> <<>>, content |-> <<>>, out |-> None]
Pcs == {"idle", "lookup", "attempt", "route", "pick", "get", "call", "wait", "stream", "put", "prefix", "create", "store", "generate"}

TypeOK ==
  /\ \A p \in Caller : calls[p].pc \in Pcs /\ calls[p].n \in 0 .. Len(setup.reqs[p]) /\ calls[p].attempt \in 0 .. MaxAttempts - 1
  /\ cancelled \subseteq Caller /\ given \in [Caller -> SUBSET Pointers] /\ now \in 0 .. MaxTime /\ changes \in Nat
  /\ host.up \subseteq Agent.names /\ host.toStart \subseteq Agent.names /\ host.toClose \subseteq Agent.names

Init ==
  /\ setup \in Setups /\ ~Agent.failed   \* New returns no agent then
  /\ calls = [p \in Caller |-> Idle]
  /\ given = [p \in Caller |-> {}]
  /\ cancelled = {} /\ entries = <<>> /\ list = <<>> /\ registry = setup.registry /\ changes = setup.changes
  /\ engine = <<>> /\ now = 0 /\ used = <<>>
  /\ host = [start |-> "idle", close |-> "idle", toStart |-> {}, toClose |-> {}, up |-> {}, late |-> FALSE]

Put(f, k, v) == [x \in DOMAIN f \cup {k} |-> IF x = k THEN v ELSE f[x]]
Without(f, k) == [x \in DOMAIN f \ {k} |-> f[x]]
Req(p) == setup.reqs[p][calls[p].n]
At(p, pc) == calls[p].pc = pc
Goes(p, c) == calls' = [calls EXCEPT ![p] = c]
To(p, pc) == [calls[p] EXCEPT !.pc = pc]
Fail(p, code) == [calls[p] EXCEPT !.pc = "idle", !.out = [None EXCEPT !.k = "error", !.code = code]]
Answer(p, req, at, hit) ==
  [calls[p] EXCEPT !.pc = "idle",
     !.out = [k |-> "ok", code |-> "", req |-> req, by |-> calls[p].by, at |-> at, hit |-> hit, content |-> calls[p].content]]
shared == <<entries, list, used>>
outside == <<registry, changes, engine, host, cancelled, given, now>>

(***************************************************************************)
(* The Host of the components.                                             *)
(***************************************************************************)
\* Host.StartAll and CloseAll, each of a snapshot of the components in any order.
\* The first Start that fails ends StartAll; CloseAll goes on after an error.
Begins ==
  \/ host.start = "idle" /\ host' = [host EXCEPT !.start = "running", !.toStart = Agent.names]
  \/ host.close = "idle" /\ host' = [host EXCEPT !.close = "running", !.toClose = Agent.names,
                                        !.late = host.start \in {"ok", "failed"}]
\* Mutant: the first component whose Close fails ends CloseAll too.
Remaining_First(c) == {}
Remaining(c) == host.toClose \ {c}
StartsOne ==
  /\ host.start = "running"
  /\ \/ \E c \in host.toStart : host' = [host EXCEPT !.toStart = @ \ {c}, !.up = @ \cup {c}]
     \/ host.toStart # {} /\ host' = [host EXCEPT !.start = "failed", !.toStart = {}]
     \/ host.toStart = {} /\ host' = [host EXCEPT !.start = "ok"]
ClosesOne ==
  /\ host.close = "running"
  /\ \/ \E c \in host.toClose : host' = [host EXCEPT !.toClose = Remaining(c), !.up = @ \ {c}]
     \/ host.toClose = {} /\ host' = [host EXCEPT !.close = "done"]
Lifecycle ==
  /\ setup.lives /\ (Begins \/ StartsOne \/ ClosesOne)
  /\ UNCHANGED <<setup, calls, shared, registry, changes, engine, cancelled, given, now>>

(***************************************************************************)
(* Runtime.Generate, or the call of an agent, which checks nothing.        *)
(***************************************************************************)
Caps == IF setup.stack = "direct" THEN CacheCaps(setup.adapter) ELSE NoCaps   \* no wrapper has CacheCaps
Generate(p) ==
  /\ At(p, "idle") /\ calls[p].n < Len(setup.reqs[p])
  /\ LET n == calls[p].n + 1 r == setup.reqs[p][n] direct == setup.stack = "direct"
         hint == IF direct /\ r.cache.mode # "none" THEN NormalizeCacheOptions(r, setup.normalizer) ELSE Hint("bypass", 0, NoKey)
         refuses == direct /\ (~Validate(r) \/ ~hint.ok \/ (hint.mode = "require" /\ ~SupportsHint(Caps, hint)))
         attached == hint.mode # "bypass" /\ Caps.prefix
         next == IF ~direct THEN Entry(1)
                 ELSE IF setup.adapter = "google" /\ attached /\ hint.key # NoKey THEN "prefix" ELSE "generate"
     IN Goes(p, IF refuses THEN [Idle EXCEPT !.n = n, !.out = [None EXCEPT !.k = "error", !.code = "invalid"]]
                ELSE [Idle EXCEPT !.n = n, !.pc = next, !.hint = hint, !.by = setup.adapter])
  /\ UNCHANGED <<setup, shared, outside>>

(***************************************************************************)
(* The direct stack: Generate of the google adapter with a prefix cache.   *)
(***************************************************************************)
Requires(p) == calls[p].hint.mode = "require"
LookupPrefix(p) ==
  /\ At(p, "prefix")
  /\ LET key == calls[p].hint.key
     IN \/ key \in DOMAIN engine /\ Goes(p, [To(p, "generate") EXCEPT !.content = <<engine[key]>>])
        \/ key \notin DOMAIN engine /\ Goes(p, To(p, "create"))
        \/ setup.faults # {} /\ Goes(p, IF Requires(p) THEN Fail(p, "provider") ELSE To(p, "create"))
  /\ UNCHANGED <<setup, shared, outside>>
CreateCachedContent(p) ==
  /\ At(p, "create")
  /\ \/ Goes(p, [To(p, "store") EXCEPT !.content = <<Req(p)>>])
     \/ setup.faults # {} /\ Goes(p, IF Requires(p) THEN Fail(p, "provider") ELSE To(p, "generate"))
  /\ UNCHANGED <<setup, shared, outside>>
StorePrefix(p) ==
  /\ At(p, "store")
  /\ Goes(p, To(p, "generate"))
  /\ engine' = Put(engine, calls[p].hint.key, calls[p].content[1]) \/ UNCHANGED engine
  /\ UNCHANGED <<setup, shared, registry, changes, host, cancelled, given, now>>
Replies(p) ==
  /\ At(p, "generate")
  /\ \/ Goes(p, Answer(p, Req(p), now, FALSE))
     \/ \E cause \in setup.faults :
          \/ ~Lazy(setup.adapter) /\ Goes(p, Fail(p, Class(setup.adapter, cause)))
          \/ Goes(p, Fail(p, InStream(setup.adapter, cause)))
  /\ UNCHANGED <<setup, shared, outside>>

(***************************************************************************)
(* The response cache.                                                     *)
(***************************************************************************)
cacheShards == 64
ShardMax == IF MaxEntries \div cacheShards = 0 THEN 1 ELSE MaxEntries \div cacheShards

\* The hash of what of the request is marshalled.  The error of json.Marshal is
\* dropped: of a request with a tool call whose arguments are not JSON, as the
\* caller or a model may give them, nothing is hashed.
Marshals(req) == \A m \in ToSet(req.msgs) : \A q \in ToSet(m.parts) : \A t \in ToSet(q.tool) : t.args # "" => JSONValid(t.args)
defaultCacheKey(req) == IF Marshals(req) THEN <<req.model, req.msgs, req.tools, req.format>> ELSE <<>>
remove(s, k) == IF k \in ToSet(s) THEN RemoveAt(s, CHOOSE i \in DOMAIN s : s[i] = k) ELSE s
moveToFront(s, k) == <<k>> \o remove(s, k)

\* Mutant: a hit leaves the entry where it is.
get_InPlace(k) == UNCHANGED list
get(k) == list' = moveToFront(list, k)
expired(k) == TTL > 0 /\ now > entries[k].expires
Stamp(k) == used' = Put(used, k, 1 + Max({0} \cup {used[x] : x \in DOMAIN used}))

Hit(p) ==
  /\ At(p, "lookup")
  /\ LET k == defaultCacheKey(Req(p))
     IN /\ k \in DOMAIN entries /\ ~expired(k)
        /\ get(k) /\ Stamp(k) /\ UNCHANGED entries
        /\ Goes(p, Answer(p, entries[k].req, entries[k].at, TRUE))
  /\ UNCHANGED <<setup, outside>>
Miss(p) ==
  /\ At(p, "lookup")
  /\ LET k == defaultCacheKey(Req(p))
     IN \/ k \notin DOMAIN entries /\ UNCHANGED <<entries, list>>
        \/ k \in DOMAIN entries /\ expired(k) /\ entries' = Without(entries, k) /\ list' = remove(list, k)
  /\ Goes(p, To(p, Below("cache")))
  /\ UNCHANGED <<setup, used, outside>>

\* A response that came whole is stored; the one used longest ago makes room.
put(p) ==
  /\ At(p, "put")
  /\ LET k == defaultCacheKey(Req(p))
         order == moveToFront(list, k)
         kept == SubSeq(order, 1, IF Len(order) > ShardMax THEN ShardMax ELSE Len(order))
         stored == Put(entries, k, [req |-> Req(p), at |-> now, expires |-> now + TTL])
     IN list' = kept /\ entries' = [x \in ToSet(kept) |-> stored[x]] /\ Stamp(k)
  /\ Goes(p, Answer(p, Req(p), now, FALSE))
  /\ UNCHANGED <<setup, outside>>
Clear ==
  /\ setup.clears /\ entries # <<>> /\ entries' = <<>> /\ list' = <<>> /\ used' = <<>>
  /\ UNCHANGED <<setup, calls, outside>>

(***************************************************************************)
(* RetryProvider and MultiTenantProvider.                                  *)
(***************************************************************************)
\* The client that the selector, the request, the context or the default names.
resolveClient(req) ==
  IF setup.selector # <<>> THEN setup.selector ELSE IF req.client # <<>> THEN req.client
  ELSE IF req.ctx # <<>> THEN req.ctx ELSE setup.default

Attempt(p) ==
  /\ At(p, "attempt")
  /\ Goes(p, IF p \in cancelled THEN Fail(p, "cancelled") ELSE To(p, Below("retry")))
  /\ UNCHANGED <<setup, shared, outside>>

\* A router that cannot route returns an error that is not retried.
Route(p) ==
  /\ At(p, "route")
  /\ LET client == resolveClient(Req(p))
     IN Goes(p, IF setup.selector = <<"error">> THEN Fail(p, "select")
                ELSE IF client # <<>> THEN [To(p, "get") EXCEPT !.client = client]
                ELSE IF Cardinality(DOMAIN registry) = 1 THEN To(p, "pick") ELSE Fail(p, "select"))
  /\ UNCHANGED <<setup, shared, outside>>

\* The snapshot of the registry may not be the one whose length was read.
Pick(p) ==
  /\ At(p, "pick")
  /\ \/ DOMAIN registry = {} /\ Goes(p, Fail(p, "select"))
     \/ \E name \in DOMAIN registry : Goes(p, [To(p, "get") EXCEPT !.client = name])
  /\ UNCHANGED <<setup, shared, outside>>

\* The request is cloned for the mutator of the client.  What a pointer of the
\* options points to is cloned too, but for ThinkingBudget and Cache.
cloneRequest == Pointers \ {"budget", "cache"}
Get(p) ==
  /\ At(p, "get")
  /\ LET client == calls[p].client known == client \in DOMAIN registry
     IN /\ Goes(p, IF known THEN [To(p, "call") EXCEPT !.by = registry[client]] ELSE Fail(p, "select"))
        /\ given' = [given EXCEPT ![p] = @ \cup IF known THEN setup.mutates \ cloneRequest ELSE {}]
  /\ UNCHANGED <<setup, shared, registry, changes, engine, host, cancelled, now>>

Call(p) ==
  /\ At(p, "call")
  /\ \/ Goes(p, To(p, "stream"))
     \/ ~Lazy(calls[p].by) /\ \E cause \in setup.faults :
          LET code == Class(calls[p].by, cause) failed == [calls[p] EXCEPT !.codes = Append(@, code)]
          IN Goes(p, CASE ~Has("retry") -> Fail(p, code)
                       [] Has("retry") /\ ~isRetryable(code) -> [Fail(p, code) EXCEPT !.codes = failed.codes]
                       [] Has("retry") /\ isRetryable(code) /\ calls[p].attempt = MaxAttempts - 1 -> [Fail(p, "provider") EXCEPT !.codes = failed.codes]
                       [] OTHER -> [failed EXCEPT !.pc = "wait"])
  /\ UNCHANGED <<setup, shared, outside>>
Wait(p) ==
  /\ At(p, "wait")
  /\ \/ Goes(p, [To(p, "attempt") EXCEPT !.attempt = @ + 1])
     \/ p \in cancelled /\ Goes(p, Fail(p, "cancelled"))
  /\ UNCHANGED <<setup, shared, outside>>

\* The goroutine of the cache, or the caller, reads the stream to its end; one
\* that breaks is handed on and neither stored nor retried.
Collected(p) ==
  /\ At(p, "stream")
  /\ \/ Goes(p, IF Has("cache") THEN To(p, "put") ELSE Answer(p, Req(p), now, FALSE))
     \/ \E cause \in setup.faults : Goes(p, Fail(p, InStream(calls[p].by, cause)))
     \/ p \in cancelled /\ Goes(p, Fail(p, "cancelled"))
  /\ UNCHANGED <<setup, shared, outside>>

(***************************************************************************)
(* The rest of the program.                                                *)
(***************************************************************************)
SetProvider(name, by) == registry' = Put(registry, name, by)
Unregister(name) == name \in DOMAIN registry /\ registry' = Without(registry, name)
Changes ==
  /\ changes > 0 /\ changes' = changes - 1
  /\ \E name \in {<<"a">>, <<"b">>} : SetProvider(name, "compat") \/ SetProvider(name, "bedrock") \/ Unregister(name)
  /\ UNCHANGED <<setup, calls, given, cancelled, shared, engine, host, now>>
Cancel(p) ==
  /\ setup.cancels /\ p \notin cancelled /\ ~At(p, "idle") /\ cancelled' = cancelled \cup {p}
  /\ UNCHANGED <<setup, calls, given, shared, registry, changes, engine, host, now>>
Forgets ==
  /\ \E k \in DOMAIN engine : engine' = Without(engine, k)
  /\ UNCHANGED <<setup, calls, given, cancelled, shared, registry, changes, host, now>>
Tick ==
  /\ TTL > 0 /\ now < MaxTime /\ setup.clock /\ now' = now + 1
  /\ UNCHANGED <<setup, calls, given, cancelled, shared, registry, changes, engine, host>>
AllDone ==
  /\ \A p \in Caller : At(p, "idle") /\ calls[p].n = Len(setup.reqs[p])
  /\ setup.lives => host.start \in {"ok", "failed"} /\ host.close = "done"
Done == AllDone /\ UNCHANGED vars

Step(p) ==
  \/ Generate(p) \/ LookupPrefix(p) \/ CreateCachedContent(p) \/ StorePrefix(p) \/ Replies(p)
  \/ Hit(p) \/ Miss(p) \/ put(p)
  \/ Attempt(p) \/ Route(p) \/ Pick(p) \/ Get(p) \/ Call(p) \/ Wait(p) \/ Collected(p) \/ Cancel(p)
Next == (\E p \in Caller : Step(p)) \/ Clear \/ Changes \/ Forgets \/ Tick \/ Lifecycle \/ Done

Spec == Init /\ [][Next]_vars

(***************************************************************************)
(* Properties.                                                             *)
(***************************************************************************)
\* What is left of a text when white space is taken out.
Letters(text) == FlattenSeq([i \in DOMAIN text |-> IF text[i] \in Blank THEN <<>> ELSE <<text[i]>>])
SamePart(p, q) ==
  /\ p.kind = q.kind /\ Letters(p.text) = Letters(q.text)
  /\ p.mime = q.mime /\ p.url = q.url /\ p.data = q.data
  /\ {<<t.id, t.name>> : t \in ToSet(p.tool)} = {<<t.id, t.name>> : t \in ToSet(q.tool)}
  /\ {<<r.call, Letters(r.content), r.failed>> : r \in ToSet(p.result)} = {<<r.call, Letters(r.content), r.failed>> : r \in ToSet(q.result)}
SameParts(a, b) == Len(a) = Len(b) /\ \A i \in DOMAIN a : SamePart(a[i], b[i])
SamePrefix(a, b) ==
  LET x == EffectiveMessages(a) y == EffectiveMessages(b)
  IN a.model = b.model /\ Len(x) = Len(y) /\ \A i \in DOMAIN x : x[i].role = y[i].role /\ SameParts(x[i].parts, y[i].parts)
\* One tenant may have for a what it has for b.  Names count without the white
\* space around them.
MayShare(a, b) ==
  /\ TrimSpace(a.client) = TrimSpace(b.client)
  /\ TrimSpace(a.cache.key) = TrimSpace(b.cache.key)
  /\ TrimSpace(a.cache.key) = <<>> => SamePrefix(a, b)

\* Two calls of the program have one cache key only if tenant and caller's key
\* are the same, or tenant, model and the text of the prefix.
KeysApart ==
  \A p, q \in Caller :
    calls[p].hint.key = calls[q].hint.key /\ calls[p].hint.key # NoKey => MayShare(Req(p), Req(q))
\* A prefix that the service keeps is used for the tenant it was made for.
PrefixOfTenant == \A p \in Caller : \A r \in ToSet(calls[p].content) : MayShare(r, Req(p))
\* Map and list of a shard name the same entries, no more than there is room
\* for, the one used last first.
ShardSound ==
  /\ ToSet(list) = DOMAIN entries /\ Len(list) = Cardinality(DOMAIN entries) /\ Len(list) <= ShardMax
  /\ \A i, j \in DOMAIN list : i < j => used[list[i]] > used[list[j]]
\* A Close that follows Start leaves no component running, also if Start gave up
\* half-way.  One that overlaps Start may close a component that is started after.
HostCloses ==
  /\ host.close = "done" /\ host.late => host.up = {}
  /\ host.start = "ok" /\ host.close = "idle" => host.up = Agent.names

\* The keys of the prefix cache (DefaultCacheKeyBuilder, WritePrefixHash) keep
\* tenants and prefixes apart, and so does what is stored under them.
PrefixesApart == KeysApart /\ PrefixOfTenant
\* The response cache and the Host are sound.
Sound == TypeOK /\ ShardSound /\ HostCloses

\* An entry of the response cache goes when the cache is cleared, when it is
\* found to be older than its TTL, or when it is the one that was used longest
\* ago in a full shard; and a hit is not older than the TTL.
Evicts ==
  /\ \A k \in DOMAIN entries \ DOMAIN entries' :
       \/ entries' = <<>> /\ calls' = calls
       \/ TTL > 0 /\ now > entries[k].at + TTL
       \/ Cardinality(DOMAIN entries) = ShardMax /\ \A x \in DOMAIN entries : used[k] <= used[x]
  /\ \A p \in Caller : calls'[p].out # calls[p].out /\ calls'[p].out.hit /\ TTL > 0 => now <= calls'[p].out.at + TTL
LeastRecent == [][Evicts]_vars

(***************************************************************************)
(* What comments in the code say, and the code does not do.                *)
(***************************************************************************)
\* "Identical requests (same messages, model, options) are served from the
\* cache": the stored answer is one to a request with the same system prompt,
\* messages, model and options (CacheComponent).
HitIsIdentical ==
  \A p \in Caller : calls[p].out.hit =>
    LET r == calls[p].out.req
    IN r.model = Req(p).model /\ r.system = Req(p).system /\ r.msgs = Req(p).msgs /\ r.options = Req(p).options
\* The key is a hash of "model + messages + tools + response_format": where one
\* of these differs there is no hit (CacheOptions.KeyFn).
KeyOfRequest ==
  \A p \in Caller : calls[p].out.hit =>
    LET r == calls[p].out.req
    IN r.model = Req(p).model /\ r.msgs = Req(p).msgs /\ r.tools = Req(p).tools /\ r.format = Req(p).format
\* Mutators write nothing of the caller's request (MultiTenantProvider).
OptionsKept == \A p \in Caller : given[p] = {}
\* A rate limit comes through RetryComponent only when every attempt met one.
LimitsRetried ==
  \A p \in Caller :
    Has("retry") /\ calls[p].out.k = "error" /\ calls[p].out.code = "limited" => Len(calls[p].codes) = MaxAttempts

=============================================================================
