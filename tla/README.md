# Verification of niro-stream

TLA+ models of niro-stream, a Go library that streams language-model responses
through composable wrappers, agents and realtime sessions; TLC configurations
that check them on small instances; and proofs, checked by TLAPS, for every
value of the constants.

Paths are relative to the repository (`src/`). `PROJECT.json` lists for every
definition the source lines it models, for every run the properties it checks,
for every property a mutated definition that breaks it, and every hazard of the
code with the properties aimed at it.

## 1. The system

Everything is built on one data path. A provider starts a goroutine that emits
`Frame`s into a `Stream`; wrappers read one stream and write another, each in a
goroutine of its own; the caller iterates `Next` and then looks at `Err()`,
`Usage()` and `Response()`. Around that path are the tool loop, the
orchestration primitives, agents with memory, and two bidirectional sessions.

### Inventory

| Component | State | Operations | What is hard | What makes it correct |
|---|---|---|---|---|
| **stream** (`stream.go`) | `pipe`: channel, done channel, closed flag, once, error, response; reader's `cur`, `err`, `usage` | `Emit`, `Error`, `Close`, `Next`, `StreamFromSlice`, `Forward`, `Collect` | concurrent senders and closers, selects with several ready cases, backpressure, cancelled contexts | every accepted frame delivered once and in order; end of stream is final; errors reported; a blocked Emit comes back; no panic beside a Close |
| **frame** (`frame.go`) | none | constructors, `Usage.Add` | usage frames are consumed by `Next`, not returned | totals are added once |
| **timeout** (`timeout.go`, `middleware/timeout.go`) | a derived context per generation | `Generate` | the deadline races with emission and with the end of the stream | frames in order; totals re-emitted; teardown on cancel |
| **hook** (`hook/hook.go`) | none | `WrapStream`, `Compose` | callback fails in mid-stream; usage is consumed on the way | `OnGenerateEnd` at most once, with the right totals; failures reach the caller |
| **output** (`output/output.go`) | none | `Route`, `RouteAgent`, `dispatch` | callbacks fail at the start, on a frame, at the end | failures reach the caller; totals pass |
| **response cache** (`middleware/cache.go`) | 64 shards: map, LRU list, TTL | `Wrap`, `get`, `put`, `Clear` | storing after a cut, concurrent misses, eviction, expiry, what the key leaves out | entries are whole; the one used longest ago goes; a hit replays what was stored |
| **pipe** (`pipe/`) | streams between processors, shared context | `Run`, processors | error cascade: each failure makes its neighbours fail | everything stops after one failure; the caller sees an error |
| **runtime** (`runtime/runtime.go`) | configuration | `Generate` | what is refused before the provider is asked; order of hook and pipeline | only valid requests and hints that can be met go on |
| **orchestrate** (`orchestrate/orchestrate.go`) | wait groups, result channel | `Fan`, `Race`, `Sequence` | first error wins, losers are cancelled while they answer | one close; no frame after it; all goroutines return |
| **dsl** (`plugin/dsl/`) | agent definitions, context variables | `Runner.Run`, `Stream`, `Fan`, `FanThen`, `Race`, `Sequence`, handoff | partial streams before a handoff; results in any order | streams keep their order; a clean end means that all succeeded |
| **tools** (`tools/`) | definitions, validators, approver; per-generation history | `ToolLoop.GenerateWithTools`, `Toolset.ExecuteCall`, `InputStream` | tools run while the response streams; parallel results; approval; round limit; handoff among results | each call answered once, results follow their calls; bounded rounds |
| **agent** (`plugin/agent/`) | history per session in `Memory` | `Run`, `RunStream`, `CallPeer`, history policies, components | two turns of one session; retry of a save; trimming; save before delivery | a turn is asked with what the policy makes of all that was said; stored once or reported |
| **realtime** (`provider/realtime/`) | connection, send queue, audio and video buffers, ack numbers, tool calls being spelled out | `Send`, `SendEOT`, `Close`, resume, reader and writer goroutines | reconnect against close, commit against append, full queue, partial failure, three protocols | events and messages once and in order; audio committed once; close is final |
| **Nova Sonic** (`provider/bedrock/sonic.go`) | session, prompt and content-block state | `Send`, `Close`, event reader | prompts and blocks opened and closed by different goroutines | event protocol is well nested |
| **speech** (`provider/googlespeech/`, `provider/elevenlabs/`) | a worker and a sender goroutine per call | `Synthesize`, `Transcribe`, streamed or at once | two goroutines that fail, stop and are cancelled; the fall-back from streaming to one request | the reply, whole where it ends cleanly; goroutines end |
| **provider adapters** (`provider/*`) | the calls being put together, the prefix cache | `Generate` and its consume goroutine | calls spelled out in pieces, replies that break or stop half-way; what a service cannot be told | what is told is the reply; what is asked is the request |
| **retry, tracing** (`middleware/`) | attempt counter | `Generate`, backoff | what counts as passing; cancellation while waiting | only what may pass is tried again, boundedly |
| **registry, tenancy** (`registry/`) | maps under a mutex | `Register`, `Remove`, `Get`, `All`; `MultiTenantProvider.Generate` | stale reads between two calls of the registry; what a mutator shares with the caller | a call goes to the client that was resolved |
| **Host** (`component/`, `plugin/agent/components.go`) | components by name | `Register`, `StartAll`, `CloseAll`; `Apply` | failure in the middle, Close against Start, the order of the layers | Close leaves none running |
| **memory** (`memory/`) | records by scope, frames of an album | `Put`, `Recall`, `Forget`, `Commit`, `Build`, `Plan.Run`, `Save` | store and album change while targets read them; limits; a race of targets | scopes are kept apart; newest kept; each target's request is whole |
| **platform** (`platform/`) | plan and state of a turn | `Run` | a tool fails in the middle | turn is atomic or reported |
| **cache hints** (`cache_semantics.go`) | none | `NormalizeCacheOptions`, prefix hash | separators, white space, empty parts, capabilities | required caching never silently dropped; no two tenants share a key |
| **sse, energy** (`internal/sse`, `provider/energy`) | line buffer; speaking state | `Next`; `Process` | boundaries | - |
| pools, transport, JSON, logger, errors, validation, messages | configuration | - | - | - |

### How the components interact

* **Calls.** `Generate` calls nest: a wrapper calls the wrapped provider first,
  then starts its goroutine and returns the new stream. The innermost goroutine
  is the provider's, the outermost reader is the caller.
* **Streams** are the only channels between those goroutines. Each is bounded
  (16 or 32 frames), so that a slow reader blocks everything below it.
* **Contexts** flow the other way: a wrapper derives a context for what it
  calls, so that a context covers a wrapper and everything below it.
* **Callbacks** (`Hook`, `Sink`, tool handlers, `Processor`s) run in the
  wrapper's goroutine and may return errors at any point.
* **Shared state**: the cache's shards, the toolset's maps, the agent's memory,
  the sessions' connection and queues.

## 2. Plan

| # | Module | Models | Abstract specification / composition | State |
|---|---|---|---|---|
| 1 | `FrameChannel` | what a stream promises | a closable FIFO queue | done |
| 2 | `NiroStream` | `stream.go` at the grain of the memory model | implements `FrameChannel` | done, proved |
| 3 | `Relay` | timeout, cache, hook, sink and pipeline wrappers around a provider, over streams | composes wrappers in any order; its streams are what `FrameChannel` allows to one writer | done, proved |
| 4 | `Conversation`, `ToolLoop` | what a tool loop promises; `tools/tools.go`, `tools/tooling.go` | `ToolLoop` implements `Conversation` | done, proved |
| 5 | `AgentMemory` | agent turns, history policies, retries | its history variable `log` is the abstract memory: everything that was said | done, proved |
| 6 | `RealtimeSession` | realtime reader, writer, resume, close, audio commit | its `Recv` is what `FrameChannel` allows, plus the panic of an Emit that meets Close | done, proved |
| 7 | `RealtimeEvents` | what is said over that session: events, tool calls, camera frames, configuration | composes with 6: the session delivers events once and in order, or again after a resume | done, model-checked |
| 8 | `Orchestrate` | Fan, Race, Sequence, FanThen, dsl handoffs | agents' streams are the environment | done, proved |
| 9 | `SonicSession` | Nova Sonic senders, prompts, receive loop, Close | the nested event protocol, as history of the event stream | done, proved |
| 10 | `Speech` | Google's and ElevenLabs' synthesis and transcription | the reply of the service | done, model-checked |
| 11 | `Adapters` | six text adapters: what is asked and what is told | the reply of the service and the request of the caller | done, model-checked |
| 12 | `PrefixKey`, `Gateway` | validation, cache hints and prefix cache; response cache, retries, tenants and registry; components and their Host | composes the layers in the order in which the components of an agent make them | done, proved |
| 13 | `Shelf`, `MemoryPlan` | records, album, pipes, plans and their targets | every scope of the store implements `Shelf` | done, model-checked |
| 14 | `RealtimeSession_proofs`, `ToolLoop_proofs` | - | every safety property of the two runs; `ImplementsConversation` for any number of rounds | done |
| 15 | `Relay_proofs` | - | every safety property of the run, for any chain of wrappers | done |
| 16 | `SonicSession_proofs` | - | `FramesMatch` and `Bracketed`, for any number of senders | done |
| 17 | `Gateway_proofs` | - | `PrefixesApart`, `Sound` and `LeastRecent`, for any requests, stacks and sizes | done |
| 18 | `Orchestrate_proofs` | - | `EndIsTrue` and `AnswersAreWhole`, for any number of agents | done |
| 19 | `AgentMemory_proofs` | - | `TurnAtomic` and `ContextExact`, for any chain of policies | done |

There are eight passing runs, at the bounds of section 4, and four that show the
promises of the documentation whose breach matters most; the other promises that
the code does not keep are stated in the modules and listed there. Modules
without recursive operators can be proved about: that is all of them.

## 3. The models

### `FrameChannel`

The promise: `accepted` and `received` frames, `open`, `ended`. A step accepts
at most one frame and delivers at most one; after the close nothing is accepted;
the reader is told the end only when it has had everything.

### `NiroStream`

`stream.go` with any number of goroutines that hold the `Emitter` and one that
reads.

| Model | Code |
|---|---|
| `buf`, `size`, `ahead`, `wpc = "parked"`, `rpc = "parked"` | `pipe.ch` as the Go runtime keeps it: buffer, queue of parked senders, parked receiver |
| `closed`, `done`, `chClosed`, `once`, `perr` | the fields of `pipe` |
| `serr`, `usage` | the fields of `Stream` |
| `EmitRefused`, `EmitLoad`, then `EmitGivesUp` / `EmitBuffers` / `EmitHandsOver` / `EmitPanics` / `EmitParks` | `Emit`: the load of `closed`, then the select, whose ready cases are alternatives |
| `Error`, `Close`, `CloseFlag`, `CloseDone`, `CloseChan`, `CloseAgain` | `err.Store` and the three steps inside `once.Do`; a closer that loses the race waits for the winner |
| `NextCall`, `NextGivesUp`, `NextFromBuffer`, `NextRefills`, `NextFromSender`, `NextSeesClose`, `NextParks`, `NextEnds` | `Next`: the select, the usage frames it consumes, the load of the error |
| `Cancel` | a context ends and wakes what is parked on it |
| `StreamFromSlice` (an initial state) | a stream that is filled and closed before it is returned |

`accepted`, `received`, `winner`, `ended`, `apart` are history variables: no
guard of a modelled step reads them.

A panic is a state in which nothing happens any more. It is reachable, because
nothing keeps writers from calling Emit while another closes; `apart` records
that none has.

### `Relay`

A generation on its way from the provider to the caller through a chain of
wrappers, `Chains`, innermost first.

| Model | Code |
|---|---|
| `gen`, `Source` | a provider's goroutine: reads a piece of the response, emits it, stops silently when `Emit` fails, `Error` when the response breaks, `SetResponse` (or not) at the end |
| `str[i]` | the stream that wrapper `i` writes; capacity, frames, closed, error, response |
| `pc[i]`, `held[i]`, `usage[i]`, `serr[i]` | the goroutine of wrapper `i` and what `Next` keeps for it; index `Consumer` is the caller |
| `NextUsage`, `NextFrame`, `NextEnds`, `Emits`, `EmitFails` | the loop every wrapper has |
| `AgentStarts`, `CallbackFails`, `Completes` | the points at which a callback or a processor fails |
| `EndsInError`, `EndsClean`, `EmitsUsage`, `Completes` | what comes after the loop, per kind of wrapper |
| `stored`, `entry`, `Replay`, `CallAgain`, `hit` | the cache: a miss collects and stores, a later call is answered from the entry |
| `expired`, `Covers`, `CtxDone`, `Expire` | generation timeouts and the caller's context; `defer cancel()` of a timeout that is done; a pipeline's shared context |

Emit and Close are single steps here: each stream has one writer, which keeps
does not emit beside or after its Close, and for such writers `NiroStream` is proved to behave so
(`ApartNeverPanics`, `PipeImplementsChannel`). A wrapper whose context has
expired may still take another ready case of its select, as in Go.

Frames carry a number; a usage frame carries an amount, one per generation.
A cache replay gets a buffer that holds the whole replay, as in the code.

A cache has nothing but timeouts below it (`ChainAssumption`): it is a middleware
of the provider, and hooks, sinks and pipelines are put around what it returns.
`entry.of` and `entry.calm` are history: what had been generated when the entry
was stored (`Made`), and that no context of the cache's goroutine had ended.

### `Conversation` and `ToolLoop`

`Conversation` is the promise: the model is asked a bounded number of times, and
only with a conversation in which each assistant turn with calls is followed at
once by one turn that answers all of them, in their order.

`ToolLoop` is `run`, `execOne` and `executeTools`, and the `Toolset` below them.

| Model | Code |
|---|---|
| `opts` | `ToolStreamOptions`: `Parallel`, `EmitToolResults`, `Approver`; the request's tool choice |
| `pc`, `round`, `calls`, `text`, `used`, `held`, `results`, `answered` | where `run` is, and its variables for this round |
| `messages` | the turns added to the request's messages |
| `tool[c]` | the goroutine (parallel) or the call (serial) that executes the c-th call, and its outcome |
| `setGate`, `WithApprover` | `Toolset.approver`, an atomic pointer others may change |
| `sent`, `taken`, `closed`, `err`, `resp`, `Emit`, `Finish` | the caller's stream |
| `Generate`, `StreamText`, `StreamCall`, `StreamEnds`, `StreamFails`, `EmitFrame`, `EmitUsage` | a round up to the end of the model's stream; a call of a parallel loop starts before its frame is passed on |
| `LoopCut` | `ctx.Done()` wherever the loop waits: in `Generate`, in `Next`, in `Emit`, for a result |
| `RoundOver`, `RunSerial`, `SkipSerial`, `Collect`, `Settle`, `EmitHandoff`, `HandedOff`, `EmitResult`, `RoundAnswered`, `OutOfRounds` | the end of a round, in the order of the code |
| `LoopGate`, `Lookup`, `SetGate`, `Handler` | `execOne` and `Toolset.ExecuteCall`: the loop's approver, the lookup and validation, the Toolset's approver, the handler |

The model and its stream are the environment: they deliver, fail or stall.
Approvers and handlers return anything, or never. After the loop has given up,
the goroutines of parallel calls go on: the loop does not wait for them.
`total`, `asked`, `consent`, `guarded` and `eager` are history variables.

### `RealtimeSession`

`provider/realtime`: the goroutines of a session and what they share.

| Model | Code |
|---|---|
| `conn`, `gen`, `Woken` | `connMu`, `connCond`, `conn`, `connGen`; websockets are numbered as they are dialed, so that the generation is the number of the last one published |
| `open`, `up` | which websockets the client has not closed; which ones work |
| `close`, `Close`, `HangUp`, `CloseRecv` | the steps inside the once of `Close` |
| `rpc`: `ReadEvent`, `ReadReplay`, `ReadEnd`, `ReadFails`, `GiveUp`, `ReaderCloses`, `ReaderExits` | `readLoop` and `handleMessage`; `lastSeq`, `lastAck`, `MaybeAck` |
| `Retire`, `Dial`, `Resume`, `PublishConn` and their failures | the steps of `tryResume` |
| `EmitChecks`, `EmitSends`, `EmitParks`, `EmitClosed`, `EmitPanics` | `Emit` into `Recv`, which `Close` may close at the same time |
| `wpc`: `Dequeue`, `Heartbeat`, `TakeConn`, `Write`, `WriteFails`, `WaitResumed`, `WriterExits` | `writeLoop` and `writeAll`; `noConn` and `sameConn` are its two waits on `connCond` |
| `accepted`, `dequeued` | `sendCh`: what was queued, and how much of it is taken |
| `spc`, `pending`: `SendAudio`, `Mark`, `SendEOT`, `Enqueue`, `SendRefused`, `SendCancelled` | `sendAudio`, `sendEOT`, `enqueue`, `audioPending` |

The server is the environment: after a resume it goes on at the event after the
one the client names, or at an earlier one. A write that returned without an
error may still be lost with its connection; `written` is what the client did.
`written`, `mine`, `heard`, `due`, `lostCommit` and `trouble` are history
variables.

### `AgentMemory`

`plugin/agent`: the turns of one session over one memory.

| Model | Code |
|---|---|
| `setup` | the options of the agent: a policy, a `Chain` or none; the memory's `LoadLast`; the attempts of `WithMemoryRetry` |
| `memory` | what the store holds for the session |
| `turn[t]` | a call of `Run` or `RunStream`: where it is, its `messages`, its attempts, the text so far, the room of the caller's stream |
| `Trimmed`, `TrimForRequest`, `MaxMessages`, `Bound`, `TrimForSave` | the policies of `history.go`; `SlidingWindowTokens` with a counter that counts messages |
| `LoadMessages`, `LoadFails`, `Backoff` | `loadMessages` and `loadWithRetry` |
| `Generate`, `ReadText`, `ReadEnd`, `ReadFails`, `ReadCancelled`, `Emit`, `EmitFails`, `EmitUsage` | the model's stream, collected by `Run`, passed on by `RunStream` |
| `Save`, `SaveFails`, `Backoff` | `saveWithRetry`; a Save that fails may have taken effect |

The provider and the store are the environment. A provider whose context ended
may close its stream without an error, as the adapters of this repository do
when their Emit fails: `ReadEnd` then takes a part of the response for the whole
(`cut`). A user message is told from a response, and a whole response from a
part; messages have no other content. `log`, `saved` and `alone` are history
variables.

### `RealtimeEvents`

What is said over a session that `RealtimeSession` keeps alive.

| Model | Code |
|---|---|
| `setup`, `sessionUpdate`, `sessionURL`, `turnDetection` | the caller's `SessionConfig` and what each of the three protocols makes of it (`wire.go`, `realtime.go`) |
| `vllmAudioFormat`, `rateFromMIME`, `pcmMIME`, `durationMs` | audio formats on the wire, with integer division as in the code |
| `ReadOfCall`, `ReadOther`, `Handle`, `FramesOf` | `handleMessage` and its handlers in `handle.go` |
| `func`, `ArgumentsDelta`, `EmitToolCall`, `OutputItem` | `funcArgs`, `funcNames`, `funcSent` and the events that name, spell out and finish a call |
| `Replayed`, `Known` | a server that says again what it has said; the sequence number decides |
| `SendVideo`, `Buffers`, `SendAudio`, `SendResult`, `Capture`, `SendAbort`, `Enqueue`, `Refused` | `Send` for each kind of frame, and `pendingFrames` between callers |

`film` is history: the camera frames in the order in which they came, those that
newer ones displaced, and those of a message that was refused.

### `Orchestrate`

| Model | Code |
|---|---|
| `flow` | which of `Fan`, `Race`, `Sequence`, `FanThen`, or a single agent runs, called or as the target of a handoff |
| `main`, `StartParallel`, `StartFirst`, `TakeRace`, `TakeText`, `TakeError`, `Synthesize`, `CloseFan` | the call of the workflow: the collector's loop, the goroutine that waits for all |
| `run[a]`, `Called`, `ReadText`, `ReadEnd`, `ReadFails`, `Emit`, ... `LoopOver` | the goroutine of agent `a` and what becomes of its end, by who reads its stream |
| `front`, `Handoff`, `HandoffStart`, `HandoffJoins`, `Forward...` | `resolveHandoff` and `streamHandoff`, which splice the target's stream into the caller's |
| `coll`, `fan`, `str` | the result channel, Fan's first error, the two streams |

An agent has some text, may fail, and may stall for ever; one whose context has
ended may be closed without an error.

### `SonicSession`

| Model | Code |
|---|---|
| `prompt`, `audio`, `promptMu`, `closed`, `ids` | the fields of the session and its two locks |
| `sender[t]`: `Lock`, `AlreadyOpen`, `Open`, `Opened`, `Claim`, `Join`, `Claimed`, `Content`, `EndOfTurn`, `SendCheck`, `Write`, `SendFails`, ... | `Send`: `ensurePromptOpen` with its second look, the claim of a content block, and each event's check of `closed` apart from its write |
| `closer`: `Close`, `CloseBlock`, `ClosePrompt`, `CloseSession`, `HangUp` | `Close`, step by step |
| `loop`: `ReadEvent`, `Handled`, `Emit`, `Reset`, `LoopStops`, `StreamEnds` | `recvLoop`: speculative text, tool blocks, interruptions, the end of a completion |
| `es`, `fate` | history: what the server was sent, and which prompts were left without an end, and why |

### `Speech`

One call of either service. `work` is the goroutine that reads the service,
`send` the one that sends the caller's audio, `wsCtx` the context that the one
cancels for the other. `Look` is the look at the context before a read; the read
itself (`recv`) comes back with data or an error only. A frame goes through
`EmitChecks` and then `Emit`, `EmitWaits`, `EmitFails` or `EmitPanics`, as in
`NiroStream`, since the sender may close the stream meanwhile (`out.Error`). `Piece` lets the service cut its reply anywhere;
`LastPiece`, `ReadFails`, `BatchFails`, `SendFails`, `AudioFails`, `Timeout` and
`Cancel` are where it can go wrong. `Streams`, `Setup` and `Batch` are Google's
streamed synthesis and its fall-back. The formats and encodings are operators,
from the keys of the request's extra to the type on the frames.

### `Adapters`

`setup` names the adapter, the request and the reply of its service. `Forms`,
`Skipped` and `Sent` say which parts of a message have a form on the wire,
`ToolMode` how a tool choice is told (openai's also when there are no tools), `Refuses` what `Generate` refuses. `Consume`
is one turn of the adapter's `consume`: `Gathered` puts calls together,
`Emitted` are the frames of a chunk, `After` what is kept; `Gone` is an `Emit`
that fails, `Breaks`, `EndOfReply` and `EndsGone` the ends. The chunks of the
service and the decoders of the SDKs are external. compat and vllmomni grow a
slice of `strings.Builder`s: `home` is the array in which a builder was first
written to, and a write in another one panics.

### `PrefixKey` and `Gateway`

`PrefixKey` has the pure part of `cache_semantics.go`: what the normalizers
write of a request (`WritePrefixHash`, `NormalizePrefix`, with white space and
JSON arguments), `NormalizeCacheOptions`, and the types of a request's fields. A
hash stands for what is written to it; a text is a sequence of letters.

`Gateway` has goroutines that call `Runtime.Generate` one request after the other.

| Model | Code |
|---|---|
| `Validate` and its parts | `validation.go` |
| `ConvertHTTPStatusToCode`, `BedrockClass`, `GoogleClass`, `CompatClass`, `isRetryable` | what an adapter makes of a failure of its service |
| `Agent`, `Made`, `Apply`, `Register`, `Layers`, `Below` | `agent.New`: each component is registered with the Host and wraps the provider; the layers that a call goes through, outermost first |
| `Generate`, `Caps` | `Runtime.Generate`: what is refused, what is attached to the context |
| `LookupPrefix`, `CreateCachedContent`, `StorePrefix`, `Replies` | google's adapter and its prefix cache |
| `Hit`, `Miss`, `put`, `Clear`, `get`, `remove`, `moveToFront` | a shard of the response cache: map, LRU list, TTL |
| `defaultCacheKey`, `Marshals` | the key: what of the request is hashed, and nothing if it cannot be marshalled |
| `Attempt`, `Call`, `Wait` | `RetryProvider` |
| `Lazy`, `InStream`, `Collected` | adapters whose SDK asks when the stream is read: what fails then is an error of the stream |
| `Route`, `Pick`, `Get`, `cloneRequest` | `MultiTenantProvider`: the client is resolved, the registry read, the request cloned for the mutator |
| `Begins`, `StartsOne`, `ClosesOne` | `Host.StartAll` and `CloseAll`, over a snapshot in any order |
| `Changes`, `Forgets`, `Tick`, `Cancel` | other users of the registry and of the service, time, the caller |

### `Shelf` and `MemoryPlan`

`Shelf` is the promise of one scope of a store: records in the order in which
they were put, one by ID, the oldest gone when there is no room.

| Model | Code |
|---|---|
| `recs`, `seq`, `MemPut`, `Recall`, `Forget` | `Mem`, whose operations hold its mutex |
| `order`, `shot`, `ReelPut` | `Reel` |
| `ingest`, `Commit`, `CommitPut`, `FrameOrForget` | `Pipe.Commit` with `Filter` and `Map`, record by record; other users of store and album |
| `tgt[i]`: `Start`, `Build`, `See`, `Open`, `Request`, `Collect`, `Deliver` | `Plan.one`: a section is recalled at a time, and the frames are opened after the recall |
| `All`, `Race`, `Save`, `Cancel` | `Plan.Run`, together and in a race, and `Plan.Save` |

## 4. What is checked

| Run | Instance | Shows |
|---|---|---|
| `stream` | 2 writers (2 and 1 Emits), buffers of 0 and 1, slices of up to 2 frames, 1 context that may be cancelled | `Delivery`, `BlockedEmitSurvives`, `ErrorReported`, `CloseComesThrough`, and that the pipe implements `FrameChannel` |
| `relay` | chains timeout-sink, hook-sink, timeout-cache, cache-timeout, processor-processor-hook; buffers of 1, up to 2 frames and a usage frame, 2 calls | `CleanEndIsWhole`, `TotalsReported`, `FailureReported`, `CachedWhole`, `GoroutinesEnd` |
| `tool_loop` | parallel with every option on, serial with every option off; 2 rounds of up to 2 calls, a caller's buffer of 1, 1 change of the Toolset's approver | `ResultsMatchCalls`, `GateRespected`, `RoundsCounted`, `LoopEnds`, and that the loop implements `Conversation` |
| `agent` | no policy, with retries, for three turns and for two that overlap; a window with retries; a window, a token window, both ends, and two chains for three turns | `ContextExact`, `TurnAtomic`, `CancelledTurnEnds` |
| `workflows`, workflow | Fan of 2, Race of 3, FanThen of 3; an agent, a Race and a Sequence of 2 as targets of a handoff; 2 texts each, streams of 1 | `EndIsTrue`, `AnswersAreWhole`, `Returns` |
| `workflows`, speech | 3 bytes in chunks of 2, 4 transcripts of which one is interim and one blank, callers that read and that do not, every format | `ReplyWhole`, `WorkersEnd` |
| `realtime` | four sessions: 2 websockets and 4 events; 3 websockets, 1 event and 1 Send; heartbeats, 2 websockets and 1 Send; 2 callers with 3 Sends. Queues of 1, 1 resume in a row, 2 attempts to write | `EventsOnce`, `WritesInOrder`, `CleanClose`, `EOTCommitsOnce`, `CloseEnds` |
| `sonic` | 2 senders: 2 Sends during a completion, 3 Sends, 2 Sends of any kind with 1 failing write; a server with 5 events and a completion | `Bracketed`, `FramesMatch`, `CloseEnds` |
| `requests`, gateway | 2 callers: every pair of 23 prompts of two tenants with prefix caches; three requests over a cache of 2 entries a shard with a TTL or with Clear; every kind of failure with 3 attempts; a registry that changes twice; components in 6 orders; the Host | `PrefixesApart`, `Sound`, `LeastRecent` |
| `requests`, adapters | 6 adapters; up to 2 texts and 2 calls of 2 pieces, thinking, audio, usage, replies that are cut or break; required caches; 5 conversations with every tool choice | `ReplyTold`, `Asked` |
| `requests`, events | two calls of tools spelled out in four ways, with replay; every other event, under three protocols; 4 Sends of camera frames and audio by 2 callers with room for 2 frames; every combination of options and turn detection | `Session`, `VideoOnce` |
| `requests`, memory | 2 scopes of 2 records, an album of 1 frame, 3 ways to ingest, 4 pairs of targets, together and in a race | `Remembered`, and that each scope implements `Shelf` |

`requests` (`MCRequests`) and `workflows` (`MCWorkflows`) each check several
modules that share no state. Their variable `part` is chosen at the start and
says which module runs; the others rest in one fixed state (`GatewayRests`,
`AdaptersRest`, ...), so that the state graph is the disjoint union of those of
the parts. In `workflows` one fairness condition stands for an action of each
part, which is the same as two, since that of the part that rests is never
enabled.

These runs find what they look for: a promise that is quoted under the run's
finding in `PROJECT.json`, as a property, and a behaviour of the code against it.

| Run | Promise | Broken by |
|---|---|---|
| `emit_beside_close` | `EmitSurvivesClose`: Emit is safe beside Close | a Close between Emit's check and its select |
| `agent_cancelled` | `PartialDiscarded`: the part that came before a cancellation is not saved | a provider that ends cleanly when it is cancelled, before the agent looks at its context |
| `speech_cut` | `TranscriptsKept`: all transcripts are emitted | the end of the caller's audio before the last of them |
| `gateway_identical` | `HitIsIdentical`: identical messages, model and options | the default key |

The modules state more promises that the code breaks. They are not in a run of
their own; TLC refutes each when it is given as the property of the module and
instance in the second column (constants as in the module's `MC` file and in the
configuration that has its run).

| Promise, and where it is made | Checked with | Broken by |
|---|---|---|
| `CutIsReported`: a cancelled context is an error at the end (`ARCHITECTURE.md`, Error handling) | `MCRelay`, `Chains <- MCTimeout` | a generation timeout during an Emit: `timeout.go` returns, and the deferred Close is a clean end |
| `HitIsWhole`: a cache is transparent (`ARCHITECTURE.md`) | `MCRelay`, `Chains <- MCCache` | a provider whose Emit fails on the ended context closes without an error, and the cache sees the close before it sees its own context: the truncated response is stored |
| `FirstAreKept`: `KeepFirstAndLast` keeps the first messages (`plugin/agent/history.go`) | `MCAgentMemory`, `Setups <- MCPinned` | its `MaxMessages` makes a bounded load bring the last messages only |
| `EOTCommits`: an end-of-turn commits audio (`provider/realtime/realtime.go`) | `MCRealtimeSession` | `sendEOT` clears `audioPending` before it queues the commit; when that is refused the flag stays cleared, and the retry commits nothing |
| `CloseReleases`: Close releases all resources (`realtime.go`) | `MCRealtimeSession` | a Close between `tryResume`'s look at the closed flag and its `publishConn` finds no connection; the reader then leaves the new one open |
| `FramesWait`: camera frames wait for the next append (`provider/realtime/realtime.go`) | `MCRealtimeEvents`, `Setups <- MCCaptured`, one caller | an append that was refused has taken them |
| `CancelledCallEnds`: a cancellation ends the goroutines (`ARCHITECTURE.md`) | `MCSpeech`, under `FairSpec` | elevenlabs' reader is in `ReadMessage`, which no context reaches, and the service says nothing more |
| `TranscribeSurvives`: Emit is safe beside Close (`stream.go`) | `MCSpeech` | `sttWriteLoop`'s `out.Error` between the check and the select of `sttReadLoop`'s Emit |
| `MimeOfAudio`: a frame's type is that of its data (`frame.go`) | `MCSpeech` | elevenlabs has one type for PCM at all rates |
| `DecodedAsSaid`: the service is told the format (`speech.go`) | `MCSpeech` | `audio/pcmu` contains `pcm`, which is looked for first |
| `CallsCompleted`: completed calls are emitted (`provider/anthropic/anthropic.go`) | `MCAdapters` | a stream of anthropic's that ends inside a call |
| `FinishTold`: "stop" is a normal end (`frame.go`) | `MCAdapters` | a google or bedrock stream that ends without a reason |
| `NoneForbids`: no tool is called (`frame.go`) | `MCAdapters` | compat and vllmomni pass the tools on and have no word for the choice |
| `KeyOfRequest`: the key is of model, messages, tools and format (`middleware/cache.go`) | `MCGateway` | the error of `json.Marshal` is dropped: what cannot be marshalled has one key |
| `OptionsKept`: mutators do not touch the caller's options (`registry/multitenancy.go`) | `MCGateway` | `ThinkingBudget` and `Cache` are copied as pointers |
| `LimitsRetried`: rate limits are recovered from (`plugin/agent/components.go`) | `MCGateway` | SDKs that send the request when the stream is read: a refusal comes after `Generate` has returned |
| `IDsApart`: one record for an ID (`memory/store.go`) | `MCMemoryPlan` | an ID that the store gives, and that a caller has used |

### The bounds and why they are enough

* Two writers are enough for a sender that is overtaken, a parked sender that a
  receive lets in, and a Close that meets an Emit at each of its steps. The
  second Emit of the first writer finds the buffer full.
* Buffers of 0 and 1 are the two kinds of channel; larger ones only delay the
  point at which a sender parks. The proofs cover every size.
* A chain of two or three wrappers has every pair that interacts: a timeout
  below and above the cache, usage that crosses two wrappers, an error that
  comes from below, from the middle and from the same place. With buffers of 1
  and 2 frames the goroutine below a stopped one is blocked in `Emit`.
* Two calls: one that fills the cache and one that is answered from it.
  A third would be like the second: a hit does not change the entry.
* Two rounds of two calls: results that overtake each other, a handoff among
  results, a second round with a relaxed tool choice, and the limit on rounds.
  One change of the approver falls on every step of an execution.
* A session that is resumed once sees its events, replays and a full queue for an
  acknowledgement; a second resume exhausts the attempts to write and to resume;
  three Sends are audio and two end-of-turns of different callers. The parts that
  do not meet (events, writes and the order of Sends) are kept in sessions of
  their own, which keeps the product of their interleavings small.
* Two calls of a tool are spelled out at once, and one more camera frame comes
  than there is room for.
* Three turns, each of two messages, overflow a window of three messages; the
  third is asked with a history that has been trimmed, saved and loaded. Two turns
  that overlap, each with two attempts to load and to save, order their Saves in
  every way; a third would be like the second. Two text frames fill a caller's
  stream of one that nobody reads.
* Three agents: a Race has a winner, one that loses after it and one that fails;
  FanThen has two texts that overtake each other and a synthesizer.
* Two Sonic senders meet in `ensurePromptOpen`, in the claim of a block and at
  each step of Close; a completion takes the prompt away under them.
* A cache shard of two entries and three requests: a hit changes what is evicted.
  Three attempts have one that is neither the first nor the last.
* Two scopes of two records: a third record evicts, one of another scope does not.
  Two targets finish in either order, and one more frame comes than the album keeps.
* The bounds of a `Setup` (`turns`, `atOnce`), `MaxText`, and of a `Kind` (`dials`,
  `events`, `sends`), of a `Budget`, of a flow, a job or a reply, `MaxEmits`,
  `MaxSlice`, `MaxFrames`, `MaxStages`, `MaxCalls`, `MaxChanges`, `MaxAgents`,
  `MaxTime`, and that a response of `Relay` has one text frame, which comes first,
  are the only bounds on behaviour. `MaxRounds`, `MaxAttempts`, `MaxEntries`,
  `TTL`, `maxVideoFrames` and the capacity `Cap` are options of the code.

Deadlock is checked in `stream` (a cancelled or drained stream can always be
read again) and in `requests`, where, but for a session whose server and caller
say nothing more, only what has come to its end may stand still. In the other
runs it is not: a generation, a loop, a
session or a workflow comes to an end, and a caller that stops reading and never
cancels leaves it standing; there the liveness properties say what must not
stand still.

### Fairness

* `NiroStream`: weak fairness of a call in progress (the Go scheduler does not
  starve a runnable goroutine) and of the reader's loop. Writers are never
  forced to emit or to close, contexts are never forced to expire.
* `Relay`: weak fairness of the provider's goroutine and of every wrapper's.
  For the provider this includes that a response comes to an end, which the
  bound on frames makes true. Failures of callbacks are not part of the fair
  actions: a goroutine that is blocked in `Emit` is not to be excused by a
  failure that would free it. The caller reads only where a part of
  `GoroutinesEnd` says so (`EndReached`), and neither cancels nor is timed out
  unless it wants to.
* `ToolLoop`: weak fairness of the loop's goroutine only, which is what
  first part of `LoopEnds` rests on (`CancelAborts`). The second (`RunEnds`) names
  what else it needs: a model that answers, tools that return, a caller that reads.
* `RealtimeSession`: weak fairness of the closer, the reader (except for the
  arrival of events), the writer and a Send in progress. Dials, handshakes and
  writes have timeouts, so that each comes back with one result or the other.
  Strong fairness of the writer's exit: its select would otherwise be free to
  prefer heartbeats to the closed channel for ever, which a random choice is not.
* `AgentMemory`: weak fairness of the goroutine of a turn: stores and models
  answer, one way or another. The caller need not read.
* `Orchestrate`: weak fairness of every goroutine of the library, and of an
  agent's noticing that its context has ended; agents may stall otherwise.
* `SonicSession`: weak fairness of senders, of Close, of the receive loop and of
  a caller who reads: the receive loop emits without a context, and does not
  return when nobody reads.
* `Speech`: weak fairness of the two goroutines, of Google's deadline and of a
  caller that reads. The service is never forced to answer, nor the caller's audio
  to end: where `WorkersEnd` needs them it says so, and `CancelledCallEnds` shows
  that it needs the service even after a cancellation.
* The other modules state no liveness: their calls return with what they call.

### The properties, in words

For the stream, `Delivery` is types, accepted frames in their order, none lost and
none twice (`InOrder`), and an end that is final (`EndIsFinal`: all that was
accepted is received, and usage adds up). `CloseComesThrough` is
`BlockedEmitReturns` and `CloseReachesReader`.

`CleanEndIsWhole` is the central one for the wrappers: a nil `Err()` after the
loop means that the provider finished and the caller has all of its frames,
unless a context expired. `TotalsReported` follows usage through wrappers that
consume and re-emit it, also to the hook's `OnGenerateEnd`. `GoroutinesEnd` says
that goroutines return after a cancellation and after the failure of a processor
even if nobody reads, and in any case for a caller who does.

For the tool loop, `ImplementsConversation` says that no order of tool results,
cancellations and failures lets the model be asked with an unanswered call.
`GateRespected` relates a handler that runs to the approvals it got, while
another goroutine changes the approver. `RoundsCounted` has the limit on rounds
and the usage of all of them. `LoopEnds` holds the documented reason for running
tools in goroutines: a hung tool does not hold up the caller.

For a session, `EventsOnce` and `WritesInOrder` say that resuming is invisible in
both directions, up to what the network lost. `CloseEnds` rests on the broadcast
of `Close` and on where the waits look at the closed channel. `EOTCommitsOnce`
is what concurrent callers can rely on, as long as no end-of-turn failed before.
`Session` says the same of content: each call of a tool reaches the caller once
and whole, in whichever way the server spells it, and what the caller configures
reaches the server. `VideoOnce` says that each camera frame is in one place, that
batches go out in the order in which the frames came and without a gap but for
those that newer ones have displaced, of which there are enough. For a Sonic
session, `Bracketed` is the protocol that its comments state, `FramesMatch` what
its caller may rely on.

For an agent, `ContextExact` compares what the model is asked with what the
policy would make of everything that was said, although the code stores what an
earlier policy has trimmed and loads a bounded part of that. It is stated for
turns that do not overlap: overlapping turns lose updates, since nothing keeps
them apart. `TurnAtomic` holds for cancelled turns too: one that failed or was given
up leaves no trace, one that reports success is stored, and only a turn whose
context ended can leave a part of a response. That it can is `PartialDiscarded`.

`EndIsTrue` is `CleanEndIsWhole` for merged and spliced streams; `AnswersAreWhole`
is about what is collected. `ReplyTold` and `ReplyWhole` compare what the caller
gets with what the service said, `Asked` what the service is asked with the
request. `PrefixesApart` is about the prefix cache: two calls have one key only if
they may share what is kept under it, and what is kept is used for the tenant it was
made for. `Sound` has the types, a shard whose map and list agree, and a Close that
stops all components. What else the layers promise, they do not keep (`HitIsIdentical`, `KeyOfRequest`,
`OptionsKept`, `LimitsRetried`).
`LeastRecent` relates every entry that goes to the history of uses. `Remembered` has the parts of `MemoryPlan`, of which
`NoneUnseen` says that a frame that is gone fails its target and is never left out
unseen.

### What the code does otherwise

The promises of the last two tables of properties above show, each with a behaviour,
where the code and what is said of it part. What follows are the causes, and what is contained in the
models besides.

* `Emit` checks and then selects (`EmitSurvivesClose`, `TranscribeSurvives`); the Emit of a
  realtime reader meets `Session.Close` in the same way.
* A goroutine that is cancelled in Emit, or in Next, returns and closes its stream,
  and a closed stream is a clean end (`CutIsReported`, `HitIsWhole`,
  `PartialDiscarded`). A context ends in more ways than by expiring: the return of a
  timeout above the cache cancels what it covers. `CachedWhole` is about entries
  made while the cache's own context had not ended (`calm`).
* Usage does not cross a hook; a Fan and a handoff to a Race report none, and the
  handoff drops the Race's text.
* State is taken before what it is taken for has happened, and not given back:
  `audioPending` (`EOTCommits`), `pendingFrames` (`FramesWait`); or is
  looked at before it is used: the closed flag of a resume (`CloseReleases`).
* elevenlabs' write loop cancels the context of the read loop when the audio ends,
  and nothing but the service wakes a blocked read (`TranscriptsKept`, `CancelledCallEnds`).
* compat and vllmomni panic when a service comes back to an earlier call after
  the slice of calls has moved, and send only the first of several results in one
  message.
* Googlespeech says again, after a stream that broke, what it had said, unless
  nothing was.
* The key of the response cache has neither system prompt, options, tool choice
  nor client. `MaxEntries` is divided among 64 shards, and each has room for one.
* Required caching is always refused by openai, anthropic and bedrock, and behind
  every wrapper, none of which tells the capabilities of what it wraps.
* The tenant component takes the place of the provider, with the layers made before.
  `StartAll` leaves what it has started; a Close that overlaps it may miss some.
* A frame that leaves the album between recall and opening fails its target.
* Sonic: an end of turn cut off by Close leaves its prompt without an end, and a
  sender may write audio of a block another sender has claimed and not started.

## 5. What is proved

Each theorem holds for every value of the constants that meets the named
assumptions of its module; the runs show the same on one instance, and check
besides what the prover cannot (end of this section). A proof has three facts:
the invariant holds at the start, each step keeps it, and it implies the
property. Below is which invariant, and why the property alone would not do.

### `NiroStream_proofs`

For any set of writers and contexts, any buffer sizes and any bounds, from
the assumptions named in `NiroStream`: the nil error, the context error and the
absent frame are different from the writers and frames, and bounds are natural.

| Theorem | Statement |
|---|---|
| `TypeCorrect` | `Spec => []TypeOK` |
| `DeliveryCorrect` | `Spec => []Delivery`, from `TypeCorrect`, `InOrderAlways` and `EndIsComplete` |
| `EndIsComplete` | `Spec => []EndIsFinal` |
| `BlockedEmitSafe` | `Spec => BlockedEmitSurvives` |
| `ApartNeverPanics` | `Spec => []ApartIsSafe`: Emits that no Close overlaps and that follow none do not panic |
| `ErrorIsReported` | `Spec => ErrorReported` |
| `PipeImplementsChannel` | `Spec => ImplementsChannel` |

1. **Types** need `FrameHeld`: a writer inside `Emit` has a frame, which is what
   enters the channel.
2. **Order of the close** (`CloseOrder`): the channel is closed only after
   `done`, and once `done` is closed nobody is parked or parks again. So
   `close(ch)` finds no parked sender: `BlockedEmitSafe`.
3. **Apart** (`ApartInv`): with the history variable `apart`, while it is true no
   writer is inside its select once the close is under way, and none comes to it.
   This is `ApartNeverPanics`, what is left of the promise that
   `emit_beside_close` refutes.
4. **Order of delivery** (`InOrder`) is inductive with the types and the queue's shape: a sender is
   parked only behind a full buffer, and the reader only at an empty one, so
   that a hand-over or a refill cannot overtake.
5. **End**: `ended` implies a closed channel and an empty buffer, which stay so;
   the usage counts the usage frames received.
6. **Refinement**: with `open <- ~chClosed` every step is a step of
   `FrameChannel` or a stutter, by one lemma per kind of step.

### `Relay_proofs`

For chains of any length, in any order that `ChainAssumption` allows, buffers of
any size of at least one, any number of frames and calls.

| Theorem | Statement |
|---|---|
| `TypeCorrect` | `Spec => []TypeOK` |
| `CleanEndIsWholeAlways` | `Spec => []CleanEndIsWhole` |
| `FailureReportedAlways` | `Spec => []FailureReported` |
| `CachedWholeAlways` | `Spec => []CachedWhole` |
| `TotalsReportedAlways` | `Spec => []TotalsReported` |

The properties speak of the two ends of the chain; the invariant has to speak of
each goroutine and stream between them.

1. **Types**, with `Posts`: where a goroutine can be depends on the kind of its
   wrapper, and it replays only on a hit (`Entered`: there is an entry then).
2. **Shape**: a stream is closed when and only when its writer has returned, a
   wrapper that broke has closed its stream with an error, and on a hit nothing
   below the cache has run at all.
3. **Ends**: a reader that is past its loop with a nil error found its stream
   closed, empty and without an error. A context that ended does not look so.
4. **Numbered** and **Flow(w)**: frames are numbered without gaps wherever they
   are. There are numbers `w[i]`, how many data frames have been put into stream
   `i`, such that each buffer holds exactly the frames between what its reader
   has taken and `w[i - 1]`. The step that needs the most is the one that closes
   a stream: `WholeAt` says that a stream closed without an error, with no context
   ended, has carried the whole finished response, and that everything below
   has returned unbroken. It goes up the chain one wrapper at a time, because
   the wrapper that closes its stream cleanly has found the one below closed
   cleanly (Ends). `Uncut` is in it since a timeout that returns cancels what
   is below.
5. **Tallies**: a stream bears a total `u` if its reader has
   read it or the one usage frame with it is in the buffer (`Bears`). A wrapper's
   stream bears none until it has emitted its usage, and then what it had read; a
   stream closed cleanly bears the provider's total, and hooks below were told it.
   Entries keep frames (from Flow), usage and metadata (from Tallies).

The proof is why `calm` looks at the cache's own context and not only at those
that have expired: for a cache below a processor below a timeout, the processor
may fail, the timeout return and so cancel the provider, which ends without an
error. The cache would keep the part and call it made in peace. No chain of the
run has these three in a row.

### `ToolLoop_proofs`

For any number of rounds, calls and texts, any set of modes and any buffer, from
`ToolBounds` and `ModeAssumption`.

| Theorem | Statement |
|---|---|
| `TypeCorrect` | `Spec => []TypeOK` |
| `ResultsMatchCallsAlways` | `Spec => []ResultsMatchCalls` |
| `GateRespectedAlways` | `Spec => []GateRespected` |
| `RoundsCountedAlways` | `Spec => []RoundsCounted` |
| `LoopImplementsConversation` | `Spec => ImplementsConversation` |

1. **Types** need `Counted`: the model was asked once for each round so far, and
   at each point of the loop how many calls and results there are.
2. **Results**: `Shown` says that every call of the round is in the caller's stream
   or in hand, `Answers` which results can be there by now; results are sent in the
   order of their calls, and only when all are in.
3. **Gate**: `Untouched` (no call above the ones that were read has begun) and
   `Consented`, which follows the two approvers along each execution: what consent
   a call must have at each of its steps, and that the Toolset's gate stays set
   for a call that began under it.
4. **Rounds**: `Eagerness` relates the forced tool choice to the rounds left, `Told`
   counts the usage frames sent against the rounds that are over.
5. **Refinement** needs `LastTurn`: when results are added, the last turn is the
   assistant's with exactly these calls. `Generate` asks, `RoundOver` has the reply,
   `RoundAnswered` and `HandedOff` answer or leave, the failures fail; all that the
   goroutines, approvers and buffers do in between is a stutter of `Conversation`.

### `RealtimeSession_proofs`

For any set of kinds of session, and with it any number of websockets, events,
callers and Sends, any sizes of queues and any limits of retries, from
`KindAssumption` and `SessionBounds`.

| Theorem | Statement |
|---|---|
| `TypeCorrect` | `Spec => []TypeOK` |
| `EventsOnceAlways` | `Spec => []EventsOnce` |
| `WritesInOrderAlways` | `Spec => []WritesInOrder` |
| `CleanCloseAlways` | `Spec => []CleanClose` |
| `EOTCommitsOnceAlways` | `Spec => []EOTCommitsOnce` |

1. **Types** need `Numbered` (the event the server is at is no later than the one
   after `lastSeq`: a resume may go back, but leaves none out) and `Handled`.
2. **Events**: all events up to `lastSeq` have been sent to `Recv`, but for the one
   that is being emitted (`AllEmitted`), so that a replayed event is known by its
   number and a new one is the next.
3. **Writes**: `Published` (the connection is none or the last one published, and
   the writer's is not newer) and `AllWritten`: everything dequeued has been
   written, but for the message in the writer's hands. A retry on a new websocket
   therefore neither repeats nor overtakes.
4. **Close**: `Blameless`: as long as nothing has gone wrong the first websocket is
   the only one and works, and the reader is not about to give up.
5. **End of turn**: `Committing` says, for each caller and each step of its Send,
   where the commit is that covers the audio heard so far: queued, or in the hands
   of the caller that took `audioPending`. It is a disjunction with `lostCommit`:
   once a commit could not be queued the property has its exception.

### `SonicSession_proofs`

For any number of senders and Sends, any completions, events and failing writes, and
any buffer of at least one, from `SonicBounds`.

| Theorem | Statement |
|---|---|
| `TypeCorrect` | `Spec => []TypeOK` |
| `FramesMatchAlways` | `Spec => []FramesMatch` |
| `BracketedAlways` | `Spec => []Bracketed` |

1. **Types** (`TypeInv`) need `Shape`: what each sender still has to write, at each
   of its steps; that of Close likewise. A Send takes at most one name for a prompt
   and one for a block, so that `Names`, of which there are as many as Sends, are
   enough: `Counted`.
2. **The receive loop** is proved apart from the senders (`LoopInv`): `Follows`
   relates `generationStage`, the tool block that is being gathered and what has been
   read so far to what the server said.
3. **Once** (`OnceInv`): a sender with `prompt_end` left to write, Close with its own,
   and the field `prompt` of the session each stand for the right to end a prompt.
   The invariant is that at most one of them has it for a given prompt, and that it
   has not been ended then. Blocks (the claim of `audioContentID`, its abort, an end of
   turn and Close), the system prompt and the end of the session are treated alike.
4. **One prompt** (`OneInv`): a sender that will yet start a prompt holds `promptMu`
   and has looked again, and while Close has not taken the last prompt there is no
   unfinished one (`NoneBefore`). That needs to know where an unfinished prompt can
   be: it is the session's or is being opened (`Known`), and one that the session has
   marked as over is in the hands of a sender (`Ended`). From there on `Flushed` says
   that Close has the prompt or had to miss it.

### `Orchestrate_proofs`

For any number of agents and texts, any flows and any streams of at least one.

| Theorem | Statement |
|---|---|
| `TypeCorrect` | `Spec => []TypeOK` |
| `AnswersAreWholeAlways` | `Spec => []AnswersAreWhole` |
| `EndIsTrueAlways` | `Spec => []EndIsTrue` |

1. **Types** need `Collected`: what the collector has taken and what waits for it
   are together as many results as agents are done.
2. **Who is where** (`PhaseInv`): which agents can have been called yet, by kind of
   flow and by the step of `main` and `front`; that an agent has an error, or was
   cut, only at its end; which streams are closed, and with what error (`Errors`);
   that a caller who saw the end saw an empty, closed stream (`Got`).
3. **Answers**: `Results` relates each result to the end of its agent, one for each;
   `Raced` says that every result that a Race has passed over was a failure, and
   `Summed` that FanThen has put each text where its agent stands in the call.
4. **Order** (`OrderInv`): `Ordered` is `InOrder` of all that is on its way to the
   caller (`Way`). A sequence keeps it when a text goes to its end that comes after
   all of its agent that went before, and when frames are lost at its end after a
   cancellation. `AnnouncedFirst` is about the frames behind a handoff. `Left` is
   what makes the cancellation harmless: once `resolveHandoff` has let go of the
   workflow's stream, nobody writes to that stream unless the caller has cancelled.

With two texts an agent (`MaxText`) the runs showed that the order had been stated
wrongly: after a cancellation a frame may be lost of the one agent and not of the
other, so that `Way` is no initial part of what was sent, agent by agent, but still
in the order and without a gap in it.

### `AgentMemory_proofs`

For any agents, with any chain of policies, any number of turns and attempts, and
turns that overlap in any way, from `SetupAssumption` and `AgentBounds`.

| Theorem | Statement |
|---|---|
| `TypeCorrect` | `Spec => []TypeOK` |
| `TurnAtomicAlways` | `Spec => []TurnAtomic` |
| `ContextExactAlways` | `Spec => []ContextExact` |

1. **Recursion.** `TrimForRequest` applies one policy after the other. That its
   function has the value its definition gives it, and what holds of it for a chain
   of any length, is proved by induction over the length (`Induction`), which is
   had from the least element of a set of naturals (`Least`).
2. **Policies.** `TrimPart`: what is left consists of messages of the history, so
   that what holds for each message still does. `TrimKeeps`: without a policy that
   keeps the first messages, what is left is the last `k` of them, or all (`Keep`),
   and `k` is no more than any of the policies allows, so that a bounded load is
   enough (`LoadKeeps`). Limits compose (`KeepTwice`); so a history may be trimmed
   before a turn is added to it or after (`TurnMore`).
3. **Whole** (`Wholes`): every message in the memory and in the hands of a turn is
   whole or belongs to a turn that was cancelled.
4. **Stored**: a turn that has not come to its Save is not in the memory. A Save
   that failed may have been made; the turn does not know.
5. **Alone**: `Single`, at most one turn is active. Then the policies make the same
   of the memory as of all that was said (`Told`), the turn holds that and its own
   message (`Prompts`), and if a failed Save of its own has been made, the memory
   is what the next attempt will store (`Again`). The last is why a retry of a Save
   is harmless, though the store has no notion of it.

### `Gateway_proofs`

For any requests with texts of any length, any stacks of layers, registries, faults
and callers, any number of attempts, capacity, TTL and time, from `SetupsAssumption`
(a setup's fields have the types that Go gives them) and `GatewayAssumption`.

| Theorem | Statement |
|---|---|
| `TypeCorrect` | `Spec => []TypeOK` |
| `PrefixesApartAlways` | `Spec => []PrefixesApart` |
| `SoundAlways` | `Spec => []Sound` |
| `LeastRecentAlways` | `Spec => LeastRecent` |

1. **Keys** (`KeyTells`) is about `PrefixKey` alone, with no state: if two requests
   have one key, tenant and caller's key are the same when trimmed, or tenant,
   model, and role and text of every message. What is written has to be
   read back: `LastSeparator` finds where the tenant ends, though a tenant may hold
   any letter, since the text behind the last separator has none;
   `HashTells` takes what both normalizers write apart, message by message and part
   by part; and that trimming and newlines leave the letters alone is proved for
   texts of any length (`Induction`, from `Least`, as in `AgentMemory_proofs`).
2. **Calls** (`CallOK`, of one call and the setup only): `Begun`, `Keyed` (the key of
   the call, and of every prefix it holds, is that of the request it was asked with),
   `Counted` (how many failures there have been at each step of `RetryProvider`, and
   that all but the last may pass). One lemma for each action
   says that the call goes on to one that is such (`Advances`), and that an answer
   out of the cache is not older than the TTL (`Fresh`).
3. **What is shared**: `EngineOK` (under a key is a request that has it), `EntriesOK`
   (an entry is stamped when it was stored) and `RegistryOK`. With `Keyed` this gives `PrefixOfTenant`, by `KeyTells`.
4. **The shard** (`ShardOK`): the list is strictly ordered by last use and has just
   the keys of the map. That there are no repetitions follows from the order
   (`DecreasingNoTwice`), and with it that map and list are of one size (`CountList`).
   Removal, moving to the front and cutting the list off keep the order; what is cut
   off is the entry used longest ago.
5. **The host** (`HostOK`): while Start runs, what is up and what has still to be
   started are all components; if Close began after Start had ended, all that is up
   is among what Close has still to do. `HostCloses` alone does not say that.

`MayShare` is up to white space because the code is: tenant and key are trimmed
and texts normalized before they are written.

### Only model-checked

* Liveness (`CloseComesThrough`, `GoroutinesEnd`, `LoopEnds`, `CloseEnds`,
  `CancelledTurnEnds`, `Returns`, `WorkersEnd`): the prover has no rule for it
  under fairness, and none for `ENABLED`.
* The safety of `Adapters`, `MemoryPlan`, `RealtimeEvents` and `Speech`, and that
  every scope of the store implements `Shelf`. The records of a scope are picked out
  of the store's by `SelectSeq`, of which the provers know nothing. The properties of
  `Adapters`, `Speech` and `RealtimeEvents` compare a reply with a fold of
  the library over its pieces. The library's induction theorems take an operator as
  a parameter, which no prover here can instantiate; the way around it, a set of
  naturals for each fact (`AgentMemory_proofs`), is open to a recursive function of
  the model, and was not taken for these.

## 6. What is not modelled, and why

* `platform` (a deterministic loop over the tasks of one turn) and `structured`
  (a fold over a stream, then JSON): sequential, with nothing kept between calls.
  `tooltype_http`, the compiler of `dsl`, its expressions and templates: data.
* Contents of frames, SDK and HTTP calls, JSON, logging, pools, transport: data
  transformation or I/O, without effect on the control that the properties are
  about. The server-sent events reader is a line splitter and the energy detector
  a fold over samples with two counters.
* `Filter`, `Map` and `Accumulate` processors change the data; `Relay` has
  processors that forward what they read, which is what makes `InOrder` and
  `CleanEndIsWhole` meaningful, and that may fail at any time.
* Of realtime sessions: custom control frames, the ring buffer of `capture.go`
  and the JSON scanner; `audiomodel`.
* Of agents: peers and the orchestrator's table of agents; an agent without a
  memory, or a call without a session, which only skips the steps of the memory.
* Chained handoffs: the target of a handoff is one workflow, and the recursion of
  `Runner.Stream` repeats what one handoff does.
* Data races on configuration (`Toolset.validator`, `inputRate`, the first client
  of Google's transcription), which are read without a lock.
* `Stream.Chan`, which hands out the raw channel.
* Panics inside callbacks: the library does not recover from them.
