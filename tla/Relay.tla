------------------------------- MODULE Relay -------------------------------
(***************************************************************************)
(* A generation on its way from the provider's goroutine to the consumer   *)
(* through the wrappers that sit between them.  Each wrapper is one        *)
(* goroutine that reads the stream below it and writes the one above:      *)
(*   "timeout"    TimeoutProvider.Generate          timeout.go             *)
(*   "hook"       WrapStream                        hook/hook.go           *)
(*   "sink"       RouteAgent                        output/output.go       *)
(*   "cache"      Cache.Wrap, miss and replay       middleware/cache.go    *)
(*   "processor"  a Processor in Pipeline.Run       pipe/pipeline.go       *)
(* They differ in what they do when Emit fails, when the source ends in an *)
(* error and when it ends cleanly, and that is what is modelled: which     *)
(* error the stream above is closed with, and whether response metadata    *)
(* and usage cross the wrapper.                                            *)
(*                                                                         *)
(* Every stream here has one writer, so Emit and Close are single steps    *)
(* (ApartNeverPanics in NiroStream_proofs); a select whose context has     *)
(* expired may still take another ready case.                              *)
(***************************************************************************)
EXTENDS Integers, Sequences, SequencesExt

CONSTANTS
  Chains,     \* the chains of wrappers, innermost first
  BufSize,    \* capacity of every stream but a cache replay's
  MaxFrames,  \* bound: data frames of a generation
  MaxStages,  \* bound: wrappers in a chain
  MaxCalls    \* bound: Generate calls, one after the other

Kind == {"timeout", "hook", "sink", "cache", "processor"}

\* A cache wraps a provider, or the timeout around one, as the middleware and the
\* components of an agent are put together.
ASSUME ChainAssumption ==
  /\ Chains \subseteq Seq(Kind)
  /\ \A c \in Chains :
       /\ Len(c) \in 1 .. MaxStages
       /\ \A i \in 1 .. Len(c) : c[i] = "cache" => \A j \in 1 .. i - 1 : c[j] = "timeout"
ASSUME RelayBounds == BufSize \in Nat \ {0} /\ MaxFrames \in Nat /\ MaxStages \in Nat /\ MaxCalls \in Nat

\* nil, the error of an expired context, the provider's, a callback's or
\* processor's own.
Err == {"nil", "ctx", "source", "stage"}

\* n numbers a data frame and is the amount of a usage frame.
RelayFrame == [kind : {"data", "usage"}, n : Nat]

VARIABLES
  chain,    \* the wrappers around the provider
  calls,    \* Generate calls so far
  hit,      \* this call was answered by the cache
  gen,      \* what the provider's goroutine has produced
  str,      \* str[i]: the stream that wrapper i writes; 0 is the provider's
  pc,       \* where the reader of stream i - 1 is
  held,     \* the frame it has read and not yet emitted
  usage,    \* Stream.usage of the stream it reads
  serr,     \* Stream.err of the stream it reads
  expired,  \* contexts that are done: i is the one wrapper i made, the
            \* consumer's number is the caller's own
  stored,   \* the cache's frames: collected while missing, left to replay
  entry,    \* the cache's entry for this request; of and calm are history: what
            \* it was made from, and that no context had ended
  received, \* the frames the consumer got
  told,     \* history: the OnGenerateEnd calls of each hook
  broken    \* history: a callback or a processor of the wrapper returned an error

vars == <<chain, calls, hit, gen, str, pc, held, usage, serr, expired, stored, entry, received, told, broken>>

N == Len(chain)
Stages == 1 .. N
Consumer == N + 1

Generation == [frames : Seq(RelayFrame), usage : Nat, resp : BOOLEAN,
               state : {"running", "emitting", "complete", "failed", "cut"}]
NoEntry == [present |-> FALSE]
Entry == [present : {TRUE}, frames : Seq(RelayFrame), usage : Nat, resp : BOOLEAN,
          of : Generation, calm : BOOLEAN]

Pipe == [buf : Seq(RelayFrame), cap : Nat, closed : BOOLEAN, err : Err, resp : BOOLEAN]

CallType ==
  /\ chain \in Chains /\ calls \in 1 .. MaxCalls + 1 /\ hit \in BOOLEAN
  /\ gen \in Generation /\ expired \subseteq 1 .. Consumer
StreamType == str \in [0 .. N -> Pipe] /\ \A i \in 0 .. N : Len(str[i].buf) <= str[i].cap
ReaderType ==
  /\ pc \in [1 .. Consumer -> {"starting", "reading", "held", "ended", "usage", "last", "replay", "done"}]
  /\ held \in [0 .. N -> RelayFrame]
  /\ usage \in [1 .. Consumer -> Nat] /\ serr \in [1 .. Consumer -> Err]
CacheType == (entry = NoEntry \/ entry \in Entry) /\ stored \in Seq(RelayFrame)
ToldType ==
  /\ received \in Seq(RelayFrame)
  /\ told \in [Stages -> Seq([usage : Nat, err : Err])] /\ broken \in [Stages -> BOOLEAN]

TypeOK == CallType /\ StreamType /\ ReaderType /\ CacheType /\ ToldType

(***************************************************************************)
(* Generate: the wrappers start their goroutines and hand back the         *)
(* outermost stream.  On a hit the cache replays and nothing below it runs.*)
(***************************************************************************)
Fresh == [frames |-> <<>>, usage |-> 0, resp |-> FALSE, state |-> "running"]
NoFrame == [kind |-> "data", n |-> 0]

Stream(size) == [buf |-> <<>>, cap |-> size, closed |-> FALSE, err |-> "nil", resp |-> FALSE]

IsCache(i) == i \in Stages /\ chain[i] = "cache"

\* Where the goroutine that reads stream i - 1 starts.
Start(i, answered) ==
  CASE answered /\ (\E j \in Stages : IsCache(j) /\ i < j) -> "done"
    [] answered /\ IsCache(i) -> "replay"
    [] i \in Stages /\ chain[i] = "sink" -> "starting"
    [] OTHER -> "reading"

Init ==
  /\ chain \in Chains
  /\ calls = 1 /\ hit = FALSE /\ entry = NoEntry
  /\ gen = Fresh
  /\ str = [i \in 0 .. N |-> Stream(BufSize)]
  /\ pc = [i \in 1 .. Consumer |-> Start(i, FALSE)]
  /\ held = [i \in 0 .. N |-> NoFrame]
  /\ usage = [i \in 1 .. Consumer |-> 0]
  /\ serr = [i \in 1 .. Consumer |-> "nil"]
  /\ expired = {}
  /\ stored = <<>> /\ received = <<>>
  /\ told = [i \in Stages |-> <<>>]
  /\ broken = [i \in Stages |-> FALSE]

SourceDone == gen.state \in {"complete", "failed", "cut"}
AllDone == SourceDone /\ \A i \in Stages : pc[i] = "done"

\* A replay's buffer takes every frame, so that its Emit does not block.
ReplaySize == Len(entry.frames) + 2

\* The next call for the same request, once this one is over and has left an
\* entry.  A call that misses again is the first call once more, and put then
\* replaces the whole entry.
CallAgain ==
  /\ calls < MaxCalls /\ AllDone /\ pc[Consumer] = "done"
  /\ entry.present
  /\ calls' = calls + 1 /\ hit' = TRUE
  /\ gen' = entry.of
  /\ str' = [i \in 0 .. N |-> Stream(IF IsCache(i) THEN ReplaySize ELSE BufSize)]
  /\ pc' = [i \in 1 .. Consumer |-> Start(i, TRUE)]
  /\ held' = [i \in 0 .. N |-> NoFrame]
  /\ usage' = [i \in 1 .. Consumer |-> IF IsCache(i) THEN entry.usage ELSE 0]
  /\ serr' = [i \in 1 .. Consumer |-> "nil"]
  /\ expired' = {}
  /\ stored' = entry.frames /\ received' = <<>>
  /\ told' = [i \in Stages |-> <<>>]
  /\ broken' = [i \in Stages |-> FALSE]
  /\ UNCHANGED <<chain, entry>>

(***************************************************************************)
(* Contexts.                                                               *)
(***************************************************************************)
\* A wrapper's context covers it and everything below it: it is derived from
\* the one above.  Mutant: only the goroutine that made it.
Covers_Alone(j, i) == j = i
Covers(j, i) == j >= i

\* Pipeline.Run: a processor's error cancels the pipeline's context.
PipelineCancelled ==
  \E j \in Stages : chain[j] = "processor" /\ pc[j] = "done" /\ str[j].err # "nil"

\* ctx.Done() for wrapper i, for the provider (0) and for the consumer.
CtxDone(i) ==
  \/ \E j \in expired : Covers(j, i)
  \/ \E j \in Stages : j >= i /\ chain[j] = "timeout" /\ pc[j] = "done"   \* defer cancel()
  \/ i \in Stages /\ chain[i] = "processor" /\ PipelineCancelled

\* A generation timeout fires, or the caller cancels.
Expire(j) ==
  /\ j \notin expired /\ pc[j] # "done"
  /\ j = Consumer \/ (j \in Stages /\ chain[j] = "timeout")
  /\ expired' = expired \cup {j}
  /\ UNCHANGED <<chain, calls, hit, gen, str, pc, held, usage, serr, stored, entry, received, told, broken>>

(***************************************************************************)
(* Streams, as NiroStream shows them from outside.                         *)
(***************************************************************************)
Room(i) == Len(str[i].buf) < str[i].cap

Emit(i, f) == Room(i) /\ str' = [str EXCEPT ![i].buf = Append(@, f)]

\* What a receive leaves in the buffer.
Rest(i) == Tail(str[i].buf)

Frames(i) == str[i - 1].buf # <<>>
Drained(i) == str[i - 1].closed /\ str[i - 1].buf = <<>>

Go(i, where) == pc' = [pc EXCEPT ![i] = where]

\* emitter.Error(err), or Close when err is nil; the goroutine returns.
Finish(i, err, resp) ==
  /\ str' = [str EXCEPT ![i].closed = TRUE, ![i].err = err, ![i].resp = resp]
  /\ Go(i, "done")

(***************************************************************************)
(* The provider's goroutine, as the consume functions of the providers     *)
(* write it: it stops without an error when Emit fails.                    *)
(***************************************************************************)
SourceRuns == gen.state = "running"

\* The next piece of the response: a frame, or once the usage.
SourceReads ==
  /\ SourceRuns
  /\ \/ /\ Len(gen.frames) < MaxFrames
        /\ LET f == [kind |-> "data", n |-> Len(gen.frames) + 1]
           IN  /\ gen' = [gen EXCEPT !.frames = Append(@, f), !.state = "emitting"]
               /\ held' = [held EXCEPT ![0] = f]
     \/ /\ gen.usage = 0
        /\ gen' = [gen EXCEPT !.usage = 1, !.state = "emitting"]
        /\ held' = [held EXCEPT ![0] = [kind |-> "usage", n |-> 1]]
  /\ UNCHANGED <<chain, calls, hit, str, pc, usage, serr, expired, stored, entry, received, told, broken>>

SourceEmits ==
  /\ gen.state = "emitting"
  /\ Emit(0, held[0])
  /\ gen' = [gen EXCEPT !.state = "running"]
  /\ held' = [held EXCEPT ![0] = NoFrame]
  /\ UNCHANGED <<chain, calls, hit, pc, usage, serr, expired, stored, entry, received, told, broken>>

SourceStops(state, err, resp) ==
  /\ gen' = [gen EXCEPT !.state = state, !.resp = resp]
  /\ str' = [str EXCEPT ![0].closed = TRUE, ![0].err = err, ![0].resp = resp]
  /\ UNCHANGED <<chain, calls, hit, pc, held, usage, serr, expired, stored, entry, received, told, broken>>

\* The end of the response, with or without SetResponse.
SourceEnds == SourceRuns /\ \E resp \in BOOLEAN : SourceStops("complete", "nil", resp)

SourceFails == SourceRuns /\ SourceStops("failed", "source", FALSE)

\* Emit returned ctx.Err(): return, with out.Close() deferred.
SourceCut == gen.state = "emitting" /\ CtxDone(0) /\ SourceStops("cut", "nil", FALSE)

(***************************************************************************)
(* Stream.Next in wrapper i, and in the consumer.                          *)
(***************************************************************************)
Receive(i) == str' = [str EXCEPT ![i - 1].buf = Rest(i - 1)]

Reading(i) == pc[i] = "reading"

NextUsage(i) ==
  /\ Reading(i) /\ Frames(i)
  /\ LET f == Head(str[i - 1].buf)
     IN  f.kind = "usage" /\ usage' = [usage EXCEPT ![i] = @ + f.n]
  /\ Receive(i)
  /\ UNCHANGED <<chain, calls, hit, gen, pc, held, serr, expired, stored, entry, received, told, broken>>

\* The wrapper has a frame to look at and to emit; the cache collects it.
NextFrame(i) ==
  /\ Reading(i) /\ i # Consumer /\ Frames(i)
  /\ LET f == Head(str[i - 1].buf)
     IN  /\ f.kind = "data"
         /\ held' = [held EXCEPT ![i] = f]
         /\ stored' = IF chain[i] = "cache" THEN Append(stored, f) ELSE stored
  /\ Receive(i)
  /\ Go(i, "held")
  /\ UNCHANGED <<chain, calls, hit, gen, usage, serr, expired, entry, received, told, broken>>

ConsumerNext ==
  /\ Reading(Consumer) /\ Frames(Consumer)
  /\ LET f == Head(str[N].buf)
     IN  f.kind = "data" /\ received' = Append(received, f)
  /\ Receive(Consumer)
  /\ UNCHANGED <<chain, calls, hit, gen, pc, held, usage, serr, expired, stored, entry, told, broken>>

\* Next returns false: the stream is over, or the context is.
NextEnds(i) ==
  /\ Reading(i)
  /\ \/ Drained(i) /\ serr' = [serr EXCEPT ![i] = str[i - 1].err]
     \/ CtxDone(i) /\ serr' = [serr EXCEPT ![i] = "ctx"]
  /\ Go(i, IF i = Consumer THEN "done" ELSE "ended")
  /\ UNCHANGED <<chain, calls, hit, gen, str, held, usage, expired, stored, entry, received, told, broken>>

(***************************************************************************)
(* A wrapper's goroutine.                                                  *)
(***************************************************************************)
\* What a callback's or a processor's error becomes.  Mutant: it is dropped.
OwnError_Dropped == "nil"
OwnError == "stage"

Breaks(i, resp) ==
  /\ Finish(i, OwnError, resp)
  /\ broken' = [broken EXCEPT ![i] = TRUE]

\* RouteAgent: Sink.OnAgentStart.
AgentStarts(i) ==
  /\ pc[i] = "starting"
  /\ \/ Go(i, "reading") /\ UNCHANGED <<str, broken>>
     \/ Breaks(i, FALSE)
  /\ UNCHANGED <<chain, calls, hit, gen, held, usage, serr, expired, stored, entry, received, told>>

\* Hook.OnFrame or a Sink callback returns an error; Process may do so at any
\* time.
CallbackFails(i) ==
  /\ \/ pc[i] = "held" /\ chain[i] \in {"hook", "sink", "processor"}
     \/ pc[i] = "reading" /\ chain[i] = "processor"
  /\ Breaks(i, FALSE)
  /\ UNCHANGED <<chain, calls, hit, gen, held, usage, serr, expired, stored, entry, received, told>>

Emits(i) ==
  /\ pc[i] = "held"
  /\ Emit(i, held[i])
  /\ held' = [held EXCEPT ![i] = NoFrame]
  /\ Go(i, "reading")
  /\ UNCHANGED <<chain, calls, hit, gen, usage, serr, expired, stored, entry, received, told, broken>>

\* Emit fails: a processor returns the error, every other wrapper just returns.
EmitFails(i) ==
  /\ pc[i] = "held" /\ CtxDone(i)
  /\ Finish(i, IF chain[i] = "processor" THEN "ctx" ELSE "nil", FALSE)
  /\ UNCHANGED <<chain, calls, hit, gen, held, usage, serr, expired, stored, entry, received, told, broken>>

\* src.Err() after the loop.  Mutant: it is not looked at.
SourceErr_Ignored(i) == "nil"
SourceErr(i) == serr[i]

\* The usage WrapStream tells the hook: ResponseMeta's repeats the stream's and
\* is merged into it.
HookUsage(i) == usage[i]

Tells(i) ==
  told' = IF chain[i] = "hook"
          THEN [told EXCEPT ![i] = Append(@, [usage |-> HookUsage(i), err |-> SourceErr(i)])]
          ELSE told

EndsInError(i) ==
  /\ pc[i] = "ended" /\ SourceErr(i) # "nil"
  /\ Finish(i, SourceErr(i), FALSE)
  /\ Tells(i)
  /\ UNCHANGED <<chain, calls, hit, gen, held, usage, serr, expired, stored, entry, received, broken>>

\* Wrappers that emit the usage they consumed.  Mutant: TimeoutProvider is not
\* one of them.
Reemits_NotTimeout == {"sink", "cache"}
Reemits == {"timeout", "sink", "cache"}

\* SetResponse, where the wrapper calls it, and on to the usage.
EndsClean(i) ==
  /\ pc[i] = "ended" /\ SourceErr(i) = "nil"
  /\ LET resp == chain[i] # "processor" /\ str[i - 1].resp
     IN  IF chain[i] \in {"timeout", "sink", "cache"}
         THEN /\ str' = [str EXCEPT ![i].resp = resp]
              /\ Go(i, IF chain[i] \in Reemits /\ usage[i] > 0 THEN "usage" ELSE "last")
         ELSE Finish(i, "nil", resp)
  /\ Tells(i)
  /\ UNCHANGED <<chain, calls, hit, gen, held, usage, serr, expired, stored, entry, received, broken>>

\* The usage frame; that Emit may fail is ignored.
EmitsUsage(i) ==
  /\ pc[i] = "usage"
  /\ Emit(i, [kind |-> "usage", n |-> usage[i]]) \/ (CtxDone(i) /\ UNCHANGED str)
  /\ Go(i, "last")
  /\ UNCHANGED <<chain, calls, hit, gen, held, usage, serr, expired, stored, entry, received, told, broken>>

\* The usage a cache entry keeps.  Mutant: the entry has no usage, since usage
\* frames are not among those collected.
StoredUsage_None(i) == 0
StoredUsage(i) == usage[i]

\* What has been generated by now, which is cut off if it is not all.
Made == IF SourceDone THEN gen ELSE [gen EXCEPT !.state = "cut"]

\* Sink.OnEnd, Cache.put; the stream is closed.
Completes(i) ==
  /\ pc[i] = "last"
  /\ \/ Finish(i, "nil", str[i].resp) /\ UNCHANGED broken
     \/ chain[i] = "sink" /\ Breaks(i, str[i].resp)
  /\ entry' = IF chain[i] = "cache" /\ ~hit
              THEN [present |-> TRUE, frames |-> stored, usage |-> StoredUsage(i),
                    resp |-> str[i].resp, of |-> Made,
                    calm |-> expired = {} /\ ~CtxDone(i)]
              ELSE entry
  /\ UNCHANGED <<chain, calls, hit, gen, held, usage, serr, expired, stored, received, told>>

\* Cache.Wrap on a hit: the stored frames, metadata and usage, in that order.
Replay(i) ==
  /\ pc[i] = "replay"
  /\ \/ /\ stored # <<>>
        /\ Emit(i, Head(stored))
        /\ stored' = Tail(stored) /\ UNCHANGED pc
     \/ /\ stored # <<>> /\ CtxDone(i)
        /\ Finish(i, "nil", FALSE) /\ UNCHANGED stored
     \/ /\ stored = <<>>
        /\ str' = [str EXCEPT ![i].resp = entry.resp]
        /\ Go(i, IF usage[i] > 0 THEN "usage" ELSE "last")
        /\ UNCHANGED stored
  /\ UNCHANGED <<chain, calls, hit, gen, held, usage, serr, expired, entry, received, told, broken>>

(***************************************************************************)
(* The specification.                                                      *)
(***************************************************************************)
Source == SourceReads \/ SourceEmits \/ SourceEnds \/ SourceFails \/ SourceCut

\* What a wrapper's goroutine does if its callbacks succeed.
Runs(i) ==
  \/ NextUsage(i) \/ NextFrame(i) \/ NextEnds(i)
  \/ AgentStarts(i) \/ Emits(i) \/ EmitFails(i)
  \/ EndsInError(i) \/ EndsClean(i) \/ EmitsUsage(i) \/ Completes(i) \/ Replay(i)

Wrapper(i) == Runs(i) \/ CallbackFails(i)

ConsumerStep == NextUsage(Consumer) \/ ConsumerNext \/ NextEnds(Consumer)

Next ==
  \/ Source
  \/ \E i \in Stages : Wrapper(i)
  \/ ConsumerStep
  \/ \E j \in 1 .. Consumer : Expire(j)
  \/ CallAgain

Spec == Init /\ [][Next]_vars

\* Goroutines are scheduled, and a response comes to its end.  Nothing makes the
\* consumer read, the caller cancel, a timeout fire or a callback fail.
FairSpec ==
  /\ Spec
  /\ WF_vars(Source)
  /\ \A k \in 1 .. MaxStages : WF_vars(k \in Stages /\ Runs(k))

(***************************************************************************)
(* Properties.                                                             *)
(***************************************************************************)
\* The consumer's loop is over, and Err() is nil.
EndedClean == pc[Consumer] = "done" /\ serr[Consumer] = "nil"

\* The consumer sees the provider's frames in order, none twice and none left
\* out, however many goroutines and buffers they cross and wherever the chain is
\* cut (all wrappers' loops).
InOrder == TypeOK /\ IsPrefix(received, gen.frames)

\* No context has expired, and none had ended for the cache when it was filled.
Undisturbed == expired = {} /\ (hit => entry.calm)

\* "Returns nil on clean end-of-stream" (Stream.Err): unless a context expired,
\* a nil error after the loop means that the provider finished its response and
\* that the consumer has all of it, whatever wrappers, callbacks and processors
\* could go wrong in between.
CleanEndIsWhole ==
  /\ InOrder
  /\ EndedClean /\ Undisturbed => gen.state = "complete" /\ received = gen.frames

\* Usage crosses these wrappers.
PassesTotals(i) == chain[i] \in {"timeout", "sink", "cache"}

\* Hook.OnGenerateEnd comes before the consumer sees the end, at most once, and
\* gets the usage of the generation when it ended cleanly (WrapStream).
HookInformed ==
  \A i \in Stages : chain[i] = "hook" =>
    /\ Len(told[i]) <= 1
    /\ EndedClean /\ Undisturbed /\ (\A j \in 1 .. i - 1 : PassesTotals(j)) =>
         told[i] = <<[usage |-> gen.usage, err |-> "nil"]>>

\* Usage and response metadata cross the wrappers that pass them on, once: "After
\* the stream is exhausted, stream.Usage() returns the totals" (ARCHITECTURE.md).
TotalsReported ==
  /\ HookInformed
  /\ EndedClean /\ Undisturbed /\ (\A i \in Stages : PassesTotals(i)) =>
       usage[Consumer] = gen.usage /\ str[N].resp = gen.resp

\* "Errors flow downstream through streams" (ARCHITECTURE.md): when the provider,
\* a callback or a processor failed and no context expired, the consumer's loop
\* does not end with a nil error.
Failed(i) == IF i = 0 THEN gen.state = "failed" ELSE broken[i]

FailureReported ==
  pc[Consumer] = "done" /\ Undisturbed /\ (\E i \in 0 .. N : Failed(i)) =>
    serr[Consumer] # "nil"

\* Every entry of the cache is a whole response with its usage and metadata, unless
\* a context ended under the call that stored it (Cache.Wrap, put).
CachedWhole ==
  entry.present /\ entry.calm =>
    /\ entry.of.state = "complete"
    /\ entry.frames = entry.of.frames
    /\ entry.usage = entry.of.usage /\ entry.resp = entry.of.resp

\* "No goroutine leaks: context cancellation + channel close guarantees
\* termination" (ARCHITECTURE.md): once the caller cancels, the provider's
\* goroutine and every wrapper's return, even if nobody reads any more.
CancelTearsDown == (Consumer \in expired) ~> AllDone

\* "The pipeline self-destructs when ... any processor returns an error": all of
\* its processors return, whether or not the consumer reads.
PipelineStops ==
  (\E i \in Stages : chain[i] = "processor" /\ broken[i])
    ~> (\A i \in Stages : chain[i] = "processor" => pc[i] = "done")

\* A consumer that goes on reading comes to the end of the stream.
EndReached ==
  WF_vars(ConsumerStep) => (pc[Consumer] = "reading" ~> pc[Consumer] = "done")

\* All three.
GoroutinesEnd == CancelTearsDown /\ PipelineStops /\ EndReached

(***************************************************************************)
(* What the documentation says and the code does not do.                   *)
(***************************************************************************)
\* "Context cancel -> all operations return ctx.Err()", and "the user always
\* checks stream.Err() after iteration" (ARCHITECTURE.md:479, 483): a consumer
\* whose own context lives and whose loop ends with a nil error has the whole
\* response.  TimeoutProvider's goroutine ends its stream cleanly when its
\* timeout meets it in Emit.
CutIsReported ==
  EndedClean /\ Consumer \notin expired => gen.state = "complete" /\ received = gen.frames

\* "Cache wraps any Provider transparently" (ARCHITECTURE.md): what the cache
\* gives out again is a response that the provider finished.  A response that
\* an expired context cut short can end cleanly, and is stored.
HitIsWhole == entry.present => entry.of.state = "complete" /\ entry.frames = entry.of.frames


=============================================================================
