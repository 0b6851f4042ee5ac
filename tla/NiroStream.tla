----------------------------- MODULE NiroStream -----------------------------
(***************************************************************************)
(* stream.go: the pipe that joins an Emitter, which any number of          *)
(* goroutines may hold, to a Stream, which one goroutine reads.            *)
(*                                                                         *)
(* The grain is that of the Go memory model: Emit loads the closed flag in *)
(* one step and enters its select in another; Close stores the flag,       *)
(* closes done and closes ch in three steps inside sync.Once; Error stores *)
(* the error and then calls Close; the reader that finds the channel       *)
(* closed loads the error in a step of its own.  The channel is the        *)
(* runtime's: a buffer, a queue of parked senders, at most one parked      *)
(* receiver.  A select takes any ready case, and a goroutine that is       *)
(* parked is woken, and its select decided, by the step that makes a case  *)
(* ready.                                                                  *)
(***************************************************************************)
EXTENDS Integers, Sequences, FiniteSets

CONSTANTS
  Writers,      \* goroutines that hold the Emitter
  Ctxs,         \* contexts that may be cancelled
  Background,   \* the context that never is
  BufSizes,     \* the bufSize arguments NewStream is called with
  MaxEmits,     \* bound: Emit calls of each writer
  MaxSlice,     \* bound: frames given to StreamFromSlice
  NoErr,        \* the nil error
  CtxErr,       \* ctx.Err() of a cancelled context
  NoFrame       \* no frame

ASSUME ContextAssumption == Background \notin Ctxs
ASSUME BoundAssumption ==
  /\ BufSizes \subseteq Nat
  /\ MaxEmits \in [Writers -> Nat]
  /\ MaxSlice \in Nat
ASSUME NilAssumption ==
  /\ NoErr \notin Writers \cup {CtxErr}
  /\ CtxErr \notin Writers

Kinds == {"data", "usage"}

\* A frame is named by its writer and its place among that writer's frames.
\* A KindUsage frame whose Usage is nil reaches the caller: it is "data".
Frame == [from : Writers, n : Nat \ {0}, kind : Kinds]

ASSUME FrameAssumption == NoFrame \notin Frame

VARIABLES
  size,      \* capacity of pipe.ch
  buf,       \* the frames pipe.ch holds
  closed,    \* pipe.closed
  done,      \* pipe.done is closed
  chClosed,  \* pipe.ch is closed
  once,      \* pipe.once: "new", "running", "spent"
  perr,      \* pipe.err: NoErr or the writer whose error it is
  wpc,       \* where each writer is
  wframe,    \* the frame it is emitting
  wctx,      \* the context of its Emit
  ahead,     \* the writers that were parked in Emit's select when it parked
  emits,     \* how many times it has called Emit
  rpc,       \* where the reader is
  rctx,      \* the context of its Next
  serr,      \* Stream.err
  usage,     \* Stream.usage: usage frames added up
  cancelled, \* contexts that are cancelled
  accepted,  \* history: frames that entered the channel, in order
  received,  \* history: frames the reader took out, in order
  winner,    \* history: how the Close that won pipe.once was called
  ended,     \* history: Next has returned false for end of stream
  apart      \* history: no Emit has run beside a Close or come after one

chan == <<size, buf>>
flags == <<closed, done, chClosed, once, perr>>
call == <<wpc, wframe, wctx, ahead>>
reader == <<rpc, rctx, serr, usage>>
log == <<accepted, received>>
verdict == <<winner, ended, apart>>
vars == <<chan, flags, call, emits, reader, cancelled, log, verdict>>

Closing == {"storedErr", "atOnce", "flagged", "doneClosed"}
Emitting == {"loaded", "parked"}

PipeType ==
  /\ size \in Nat /\ buf \in Seq(Frame)
  /\ closed \in BOOLEAN /\ done \in BOOLEAN /\ chClosed \in BOOLEAN
  /\ once \in {"new", "running", "spent"}
  /\ perr \in Writers \cup {NoErr}

WriterType ==
  /\ wpc \in [Writers -> {"idle", "panicked", "finished"} \cup Closing \cup Emitting]
  /\ wframe \in [Writers -> Frame \cup {NoFrame}]
  /\ wctx \in [Writers -> Ctxs \cup {Background}]
  /\ ahead \in [Writers -> SUBSET Writers]
  /\ emits \in [Writers -> Nat]

ReaderType ==
  /\ rpc \in {"idle", "select", "parked", "sawClose"}
  /\ rctx \in Ctxs \cup {Background} /\ cancelled \subseteq Ctxs
  /\ serr \in Writers \cup {NoErr, CtxErr}
  /\ usage \in Nat

HistoryType ==
  /\ accepted \in Seq(Frame) /\ received \in Seq(Frame)
  /\ winner \in {"none", "close", "error"}
  /\ ended \in BOOLEAN /\ apart \in BOOLEAN

TypeOK == PipeType /\ WriterType /\ ReaderType /\ HistoryType

(***************************************************************************)
(* Constructors.                                                           *)
(***************************************************************************)
NewStream ==
  /\ size \in BufSizes /\ buf = <<>>
  /\ closed = FALSE /\ done = FALSE /\ chClosed = FALSE /\ once = "new"
  /\ wpc = [w \in Writers |-> "idle"]
  /\ winner = "none"

\* The frames are buffered and the emitter, which nobody else holds, is closed
\* before the stream is returned.
StreamFromSlice ==
  /\ \E w \in Writers, n \in 0 .. MaxSlice : \E kinds \in [1 .. n -> Kinds] :
       /\ size = n
       /\ buf = [i \in 1 .. n |-> [from |-> w, n |-> i, kind |-> kinds[i]]]
  /\ closed = TRUE /\ done = TRUE /\ chClosed = TRUE /\ once = "spent"
  /\ wpc = [w \in Writers |-> "finished"]
  /\ winner = "close"

Init ==
  /\ NewStream \/ StreamFromSlice
  /\ perr = NoErr
  /\ wframe = [w \in Writers |-> NoFrame]
  /\ wctx = [w \in Writers |-> Background]
  /\ ahead = [w \in Writers |-> {}]
  /\ emits = [w \in Writers |-> 0]
  /\ rpc = "idle" /\ rctx = Background /\ serr = NoErr /\ usage = 0
  /\ cancelled = {}
  /\ accepted = buf /\ received = <<>> /\ ended = FALSE /\ apart = TRUE

(***************************************************************************)
(* Helpers, and mutants of some.                                           *)
(***************************************************************************)
\* A panic that nobody recovers ends the process.
Crashed == \E w \in Writers : wpc[w] = "panicked"

ClosingStarted == \E w \in Writers : wpc[w] \in Closing \cup {"finished"}
EmitRunning == \E w \in Writers : wpc[w] \in Emitting

Expired(c) == c \in cancelled

Parked == {w \in Writers : wpc[w] = "parked"}

\* The runtime serves parked senders in the order in which they parked.
FirstParked(w) == w \in Parked /\ ahead[w] = {}

Go(w, pc) == wpc' = [wpc EXCEPT ![w] = pc]

\* The writers in S leave Emit.
Return(S) ==
  /\ wpc' = [w \in Writers |-> IF w \in S THEN "idle" ELSE wpc[w]]
  /\ wframe' = [w \in Writers |-> IF w \in S THEN NoFrame ELSE wframe[w]]
  /\ wctx' = [w \in Writers |-> IF w \in S THEN Background ELSE wctx[w]]
  /\ ahead' = [w \in Writers |-> IF w \in S THEN {} ELSE ahead[w] \ S]

\* The frame enters the channel.
Accepts(f) == accepted' = Append(accepted, f)

\* The reader takes f: usage is added up and the loop selects again, any other
\* frame is returned.
Take(f) ==
  /\ received' = Append(received, f)
  /\ IF f.kind = "usage"
     THEN usage' = usage + 1 /\ rpc' = "select" /\ UNCHANGED rctx
     ELSE rpc' = "idle" /\ rctx' = Background /\ UNCHANGED usage
  /\ UNCHANGED serr

\* Next returns false.
Stop(err) == rpc' = "idle" /\ rctx' = Background /\ serr' = err /\ UNCHANGED usage

\* Emit's case <-e.p.done.  Mutant: the select has no such case.
DoneReady_NoCase == FALSE
DoneReady == done

\* What Error stores.
StoredError(w) == w

\* Parked senders that close(done) wakes.  Mutant: done is not closed.
WokenByDone_None == {}
WokenByDone == Parked

\* close(ch).
ChanClose == TRUE

\* What a Next whose context has expired leaves in the channel: everything.
\* Mutant: a frame is received and dropped.
LeftOnCancel_Drops == IF buf = <<>> THEN buf ELSE Tail(buf)
LeftOnCancel == buf

\* !ok: the channel is closed and empty.  Mutant: the closed flag is enough.
NotOk_OnFlag == closed
NotOk == chClosed /\ buf = <<>>

\* The error at the end of the stream.  Mutant: pipe.err is not looked at.
EndError_Ignored == serr
EndError == IF perr # NoErr THEN perr ELSE serr

(***************************************************************************)
(* Emitter.Emit.                                                           *)
(***************************************************************************)
\* The caller is not held to Emitter's contract; apart records what it did.
EmitCall(w) ==
  /\ wpc[w] = "idle" /\ emits[w] < MaxEmits[w]
  /\ emits' = [emits EXCEPT ![w] = @ + 1]
  /\ apart' = (apart /\ ~ClosingStarted)

\* e.p.closed.Load() is true: ErrClosed.
EmitRefused(w) ==
  /\ EmitCall(w)
  /\ closed
  /\ UNCHANGED <<chan, flags, call, reader, cancelled, log, winner, ended>>

\* It is false: on to the select, with this frame and this context.
EmitLoad(w, kind, c) ==
  /\ EmitCall(w)
  /\ ~closed
  /\ Go(w, "loaded")
  /\ wframe' = [wframe EXCEPT ![w] = [from |-> w, n |-> emits[w] + 1, kind |-> kind]]
  /\ wctx' = [wctx EXCEPT ![w] = c]
  /\ UNCHANGED <<ahead, chan, flags, reader, cancelled, log, winner, ended>>

\* case <-ctx.Done(), case <-e.p.done
EmitGivesUp(w) ==
  /\ wpc[w] = "loaded"
  /\ Expired(wctx[w]) \/ DoneReady
  /\ Return({w})
  /\ UNCHANGED <<chan, flags, emits, reader, cancelled, log, verdict>>

\* case e.p.ch <- f, with room in the buffer
EmitBuffers(w) ==
  /\ wpc[w] = "loaded"
  /\ ~chClosed /\ rpc # "parked" /\ Len(buf) < size
  /\ buf' = Append(buf, wframe[w])
  /\ Accepts(wframe[w])
  /\ Return({w})
  /\ UNCHANGED <<size, flags, emits, reader, cancelled, received, verdict>>

\* case e.p.ch <- f, with the reader parked on the channel
EmitHandsOver(w) ==
  /\ wpc[w] = "loaded"
  /\ ~chClosed /\ rpc = "parked"
  /\ Accepts(wframe[w])
  /\ Take(wframe[w])
  /\ Return({w})
  /\ UNCHANGED <<chan, flags, emits, cancelled, verdict>>

\* case e.p.ch <- f, on a closed channel
EmitPanics(w) ==
  /\ wpc[w] = "loaded"
  /\ chClosed
  /\ Go(w, "panicked")
  /\ UNCHANGED <<chan, flags, wframe, wctx, ahead, emits, reader, cancelled, log, verdict>>

\* No case is ready.
EmitParks(w) ==
  /\ wpc[w] = "loaded"
  /\ ~Expired(wctx[w]) /\ ~DoneReady /\ ~chClosed
  /\ rpc # "parked" /\ Len(buf) >= size
  /\ Go(w, "parked")
  /\ ahead' = [ahead EXCEPT ![w] = Parked]
  /\ UNCHANGED <<chan, flags, wframe, wctx, emits, reader, cancelled, log, verdict>>

(***************************************************************************)
(* Emitter.Error and Emitter.Close.                                        *)
(***************************************************************************)
\* A Close that begins while an Emit is running is legal: apart records it.
CloseCall(w) == wpc[w] = "idle" /\ apart' = (apart /\ ~EmitRunning)

\* err.Store; Close follows.
Error(w) ==
  /\ CloseCall(w)
  /\ perr' = StoredError(w)
  /\ Go(w, "storedErr")
  /\ UNCHANGED <<chan, closed, done, chClosed, once, wframe, wctx, ahead, emits, reader, cancelled, log, winner, ended>>

Close(w) ==
  /\ CloseCall(w)
  /\ Go(w, "atOnce")
  /\ UNCHANGED <<chan, flags, wframe, wctx, ahead, emits, reader, cancelled, log, winner, ended>>

\* The first caller of once.Do runs it: closed.Store(true).
CloseFlag(w) ==
  /\ wpc[w] \in {"storedErr", "atOnce"} /\ once = "new"
  /\ once' = "running" /\ closed' = TRUE
  /\ winner' = IF wpc[w] = "storedErr" THEN "error" ELSE "close"
  /\ Go(w, "flagged")
  /\ UNCHANGED <<chan, done, chClosed, perr, wframe, wctx, ahead, emits, reader, cancelled, log, ended, apart>>

\* close(e.p.done) wakes the senders that are parked.
CloseDone(w) ==
  /\ wpc[w] = "flagged"
  /\ done' = TRUE
  /\ wpc' = [v \in Writers |-> IF v = w THEN "doneClosed"
                               ELSE IF v \in WokenByDone THEN "idle" ELSE wpc[v]]
  /\ wframe' = [v \in Writers |-> IF v \in WokenByDone THEN NoFrame ELSE wframe[v]]
  /\ wctx' = [v \in Writers |-> IF v \in WokenByDone THEN Background ELSE wctx[v]]
  /\ ahead' = [v \in Writers |-> ahead[v] \ WokenByDone]
  /\ UNCHANGED <<chan, closed, chClosed, once, perr, emits, reader, cancelled, log, verdict>>

\* close(e.p.ch) panics a sender that is still parked, and wakes the reader.
CloseChan(w) ==
  /\ wpc[w] = "doneClosed"
  /\ chClosed' = ChanClose
  /\ once' = "spent"
  /\ wpc' = [v \in Writers |-> IF v = w THEN "finished"
                               ELSE IF ChanClose /\ wpc[v] = "parked" THEN "panicked"
                               ELSE wpc[v]]
  /\ rpc' = IF ChanClose /\ rpc = "parked" THEN "sawClose" ELSE rpc
  /\ UNCHANGED <<chan, closed, done, perr, wframe, wctx, ahead, emits, rctx, serr, usage, cancelled, log, verdict>>

\* Any other caller of once.Do waits until the first is through.
CloseAgain(w) ==
  /\ wpc[w] \in {"storedErr", "atOnce"} /\ once = "spent"
  /\ Go(w, "finished")
  /\ UNCHANGED <<chan, flags, wframe, wctx, ahead, emits, reader, cancelled, log, verdict>>

(***************************************************************************)
(* Stream.Next.                                                            *)
(***************************************************************************)
NextCall(c) ==
  /\ rpc = "idle"
  /\ rpc' = "select" /\ rctx' = c
  /\ UNCHANGED <<chan, flags, call, emits, serr, usage, cancelled, log, verdict>>

\* case <-ctx.Done()
NextGivesUp ==
  /\ rpc = "select" /\ Expired(rctx)
  /\ Stop(CtxErr)
  /\ buf' = LeftOnCancel
  /\ UNCHANGED <<size, flags, call, emits, cancelled, log, verdict>>

\* case f, ok := <-s.p.ch, from the buffer.
NextFromBuffer ==
  /\ rpc = "select" /\ buf # <<>> /\ Parked = {}
  /\ Take(Head(buf))
  /\ buf' = Tail(buf)
  /\ UNCHANGED <<size, flags, call, emits, cancelled, accepted, verdict>>

\* The same, and the first parked sender fills the place that falls free.
NextRefills(w) ==
  /\ rpc = "select" /\ buf # <<>> /\ FirstParked(w)
  /\ Take(Head(buf))
  /\ buf' = Append(Tail(buf), wframe[w])
  /\ Accepts(wframe[w])
  /\ Return({w})
  /\ UNCHANGED <<size, flags, emits, cancelled, verdict>>

\* The same from the first parked sender, when the channel has no buffer.
NextFromSender(w) ==
  /\ rpc = "select" /\ buf = <<>> /\ FirstParked(w)
  /\ Take(wframe[w])
  /\ Accepts(wframe[w])
  /\ Return({w})
  /\ UNCHANGED <<chan, flags, emits, cancelled, verdict>>

NextSeesClose ==
  /\ rpc = "select" /\ NotOk
  /\ rpc' = "sawClose"
  /\ UNCHANGED <<chan, flags, call, emits, rctx, serr, usage, cancelled, log, verdict>>

\* No case is ready.
NextParks ==
  /\ rpc = "select" /\ ~Expired(rctx)
  /\ ~chClosed /\ buf = <<>> /\ Parked = {}
  /\ rpc' = "parked"
  /\ UNCHANGED <<chan, flags, call, emits, rctx, serr, usage, cancelled, log, verdict>>

\* s.p.err.Load(), and Next returns false.
NextEnds ==
  /\ rpc = "sawClose"
  /\ Stop(EndError)
  /\ ended' = TRUE
  /\ UNCHANGED <<chan, flags, call, emits, cancelled, log, winner, apart>>

\* A context is cancelled: whoever is parked on it is woken.
Cancel(c) ==
  /\ c \notin cancelled
  /\ cancelled' = cancelled \cup {c}
  /\ Return({w \in Parked : wctx[w] = c})
  /\ IF rpc = "parked" /\ rctx = c THEN Stop(CtxErr) ELSE UNCHANGED reader
  /\ UNCHANGED <<chan, flags, emits, log, verdict>>

(***************************************************************************)
(* The specification.                                                      *)
(***************************************************************************)
EmitSelect(w) ==
  EmitGivesUp(w) \/ EmitBuffers(w) \/ EmitHandsOver(w) \/ EmitPanics(w) \/ EmitParks(w)

CloseStep(w) == CloseFlag(w) \/ CloseDone(w) \/ CloseChan(w) \/ CloseAgain(w)

NextSelect ==
  \/ NextGivesUp \/ NextFromBuffer \/ NextSeesClose \/ NextParks \/ NextEnds
  \/ \E w \in Writers : NextRefills(w) \/ NextFromSender(w)

Writer(w) ==
  \/ EmitRefused(w)
  \/ \E kind \in Kinds, c \in Ctxs \cup {Background} : EmitLoad(w, kind, c)
  \/ EmitSelect(w)
  \/ Error(w) \/ Close(w) \/ CloseStep(w)

Reader == NextSelect \/ \E c \in Ctxs \cup {Background} : NextCall(c)

Running == (\E w \in Writers : Writer(w)) \/ Reader \/ (\E c \in Ctxs : Cancel(c))

Next == (~Crashed /\ Running) \/ (Crashed /\ UNCHANGED vars)

Spec == Init /\ [][Next]_vars

\* A call that can go on does go on: the scheduler starves no goroutine.
InCallFairness ==
  /\ \A w \in Writers : WF_vars(~Crashed /\ (EmitSelect(w) \/ CloseStep(w)))
  /\ WF_vars(~Crashed /\ NextSelect)

\* The consumer calls Next in a loop, as every consumer in the repository does.
ConsumerFairness == WF_vars(~Crashed /\ \E c \in Ctxs \cup {Background} : NextCall(c))

FairSpec == Spec /\ InCallFairness /\ ConsumerFairness

(***************************************************************************)
(* Properties.                                                             *)
(***************************************************************************)
\* Whatever the interleaving of senders that buffer, hand over and park, of
\* receives, cancellations and closes, the reader gets the accepted frames in
\* the order of acceptance, none lost and none twice (pipe.ch, Emit, Next).
InOrder == accepted = received \o buf

UsageFrames(s) == {i \in DOMAIN s : s[i].kind = "usage"}

\* "Fully populated after the stream is exhausted" (Stream.Usage): once Next has
\* reported the end of the stream no frame is outstanding, none is accepted
\* later, and every accepted usage frame has been added up.
EndIsFinal ==
  ended => /\ received = accepted
           /\ usage = Cardinality(UsageFrames(accepted))

\* "unblock any Emit calls waiting in select" (Close): an Emit that is parked
\* returns when the stream is closed under it; it never panics.
BlockedEmitSurvives ==
  [][\A w \in Writers : wpc[w] = "parked" => wpc'[w] # "panicked"]_vars

\* What is accepted is delivered, in its order, and the end comes after all of it:
\* see each part.
Delivery == TypeOK /\ InOrder /\ EndIsFinal

\* "Emit is safe to call concurrently with Close - a concurrent close returns
\* ErrClosed instead of panicking" (Emit).  The code breaks this: see the run.
EmitSurvivesClose == winner = "close" => ~Crashed

\* What does hold: Emits that no Close or Error overlaps, and that follow none,
\* do not panic (Emit, Close).
ApartIsSafe == apart => ~Crashed

\* "The error is visible to the reader via Stream.Err()" (Emitter.Error): when
\* the Close that took effect was Error's, the reader that is told the stream is
\* over finds an error of Error's, not nil and not an older ctx.Err().
ErrorReported ==
  [][rpc = "sawClose" /\ rpc' # "sawClose" /\ winner = "error" => serr' \in Writers]_vars

\* An Emit that backpressure blocks comes back with ErrClosed once a Close has
\* begun, whether or not anybody reads (Emit's done case).
BlockedEmitReturns ==
  \A w \in Writers : (wpc[w] = "parked" /\ closed) ~> wpc[w] = "idle"

\* A Close reaches the reader, however full the buffer and however many senders
\* are parked, unless the reader's context is cancelled.
CloseReachesReader ==
  closed ~> (ended \/ cancelled # {} \/ Crashed)

\* A Close comes through to both sides.
CloseComesThrough == BlockedEmitReturns /\ CloseReachesReader

Channel == INSTANCE FrameChannel WITH open <- ~chClosed

\* The pipe implements the closable queue, whatever the writers do.
ImplementsChannel == Channel!ChannelSpec

=============================================================================
