------------------------------- MODULE Speech -------------------------------
(***************************************************************************)
(* The speech adapters: provider/googlespeech/googlespeech.go and          *)
(* provider/elevenlabs/elevenlabs.go.  One call is modelled, by its task:  *)
(*   "say"        googlespeech Synthesize, streamed with a fall-back       *)
(*   "hear"       googlespeech Transcribe of a stream of audio             *)
(*   "hear_once"  googlespeech Transcribe of one recording                 *)
(*   "read"       elevenlabs Synthesize                                    *)
(*   "listen"     elevenlabs Transcribe over a websocket                   *)
(*   "listen_once"  elevenlabs Transcribe of one recording                 *)
(* A worker goroutine turns what the service says into frames; where the   *)
(* audio is a stream, a second goroutine sends it.  The service says its   *)
(* reply in pieces, may end at any time and may fail at any time.          *)
(***************************************************************************)
EXTENDS Integers, Sequences, SequencesExt, FiniteSets

CONSTANTS
  Jobs,       \* the calls that are checked
  OutSize     \* niro.DefaultStreamBuffer

Task == {"say", "hear", "hear_once", "read", "listen", "listen_once"}
Google == {"say", "hear", "hear_once"}
Bytes == {"say", "read"}       \* synthesis: the reply is audio, cut anywhere

\* A piece of a reply: a byte of audio, or a transcript (0: blank).
Result == [n : 0 .. 4, final : BOOLEAN]

Encoding == {"MP3", "OGG_OPUS", "LINEAR16", "PCM", "MULAW", "ALAW"}

(***************************************************************************)
(* The formats.                                                            *)
(***************************************************************************)
AudioPCM == {"audio/pcm;rate=8000", "audio/pcm;rate=16000", "audio/pcm;rate=24000", "audio/pcm;rate=44100",
             "audio/pcm;rate=48000"}
AudioOGGOpus == "audio/ogg;codecs=opus"

MimesOf == [MP3 |-> {"audio/mpeg"}, OGG_OPUS |-> {"audio/ogg", AudioOGGOpus}, LINEAR16 |-> {"audio/wav"},
            PCM |-> {"audio/pcm"} \cup AudioPCM,
            MULAW |-> {"audio/pcmu;rate=8000", "audio/mulaw", "audio/g711-ulaw", "audio/ulaw"},
            ALAW |-> {"audio/pcma;rate=8000", "audio/alaw", "audio/g711-alaw"}]

None == "none"

parseEncodingFromMIME(mime) ==
  IF \E e \in Encoding : mime \in MimesOf[e] THEN CHOOSE e \in Encoding : mime \in MimesOf[e] ELSE None

parseEncoding(name) ==
  CASE name = "mp3" -> "MP3"
    [] name \in {"ogg_opus", "ogg", "opus"} -> "OGG_OPUS"
    [] name = "pcm" -> "PCM"
    [] name \in {"linear16", "wav"} -> "LINEAR16"
    [] name = "mulaw" -> "MULAW"
    [] name = "alaw" -> "ALAW"
    [] OTHER -> None

\* The rates that have a constant of their own; any other is spelled out.
PCMOf == [r \in {8000, 16000, 24000, 44100, 48000} |->
            CASE r = 8000 -> "audio/pcm;rate=8000" [] r = 16000 -> "audio/pcm;rate=16000"
              [] r = 24000 -> "audio/pcm;rate=24000" [] r = 44100 -> "audio/pcm;rate=44100"
              [] r = 48000 -> "audio/pcm;rate=48000"]
encodingMIME(enc, rate) ==
  CASE enc = "MP3" -> "audio/mpeg"
    [] enc = "LINEAR16" -> "audio/wav"
    [] enc = "PCM" /\ rate \in DOMAIN PCMOf -> PCMOf[rate]
    [] enc = "PCM" /\ rate \notin DOMAIN PCMOf /\ rate > 0 -> "audio/pcm at another rate"
    [] enc = "PCM" /\ rate = 0 -> PCMOf[16000]
    [] enc = "MULAW" -> "audio/pcmu;rate=8000"
    [] enc = "ALAW" -> "audio/pcma;rate=8000"
    [] OTHER -> AudioOGGOpus

\* getPayload*: the keys at the top, in their order, and then those of "tts".
\* A value that is not of the type, or blank, is passed over.
Given(payload, keys) == SelectSeq(keys, LAMBDA k : k \in DOMAIN payload /\ payload[k] \notin {"", "not a string"})
getPayloadString(extra, keys) ==
  LET top == Given(extra.top, keys) nested == Given(extra.tts, keys)
  IN IF top # <<>> THEN extra.top[top[1]] ELSE IF nested # <<>> THEN extra.tts[nested[1]] ELSE ""

fallbackString(value, fallback) == IF value # "" THEN value ELSE fallback

\* What the request asks for: its extra, its own fields, the provider's defaults.
resolveParams(job) ==
  LET named == parseEncoding(getPayloadString(job.extra, <<"tts_encoding", "output_encoding", "encoding">>))
      mime == parseEncodingFromMIME(job.format)
  IN [enc |-> IF named # None THEN named ELSE IF mime # None THEN mime ELSE job.default,
      voice |-> fallbackString(getPayloadString(job.extra, <<"voice">>), job.voice),
      rate |-> job.rate]

streamingVoiceSupported(voice) == voice = "chirp3-hd"

\* elevenlabs: the names of its formats.
outputFormatFromMIME(mime) ==
  CASE mime = AudioOGGOpus -> "ogg_opus"
    [] mime = "audio/mpeg" -> "mp3_44100_128"
    [] mime = "audio/aac" -> "aac_44100"
    [] mime = "audio/pcm;rate=16000" -> "pcm_16000"
    [] mime = "audio/pcm;rate=24000" -> "pcm_24000"
    [] mime = "audio/pcm;rate=44100" -> "pcm_44100"
    [] mime = "audio/flac" -> "flac"
    [] mime = "audio/wav" -> "wav"
    [] OTHER -> ""
mimeFromFormat(f) ==
  CASE f = "ogg_opus" -> AudioOGGOpus
    [] f = "mp3_44100_128" -> "audio/mpeg"
    [] f \in {"pcm_16000", "pcm_24000", "pcm_44100"} -> "audio/pcm;rate=24000"
    [] f = "ulaw_8000" -> "audio/basic"
    [] OTHER -> AudioOGGOpus
ElevenFormat(job) == fallbackString(outputFormatFromMIME(job.format), "ogg_opus")

\* The MIME type that the frames of a synthesis carry.
MimeOf(job) ==
  IF job.task = "read" THEN mimeFromFormat(ElevenFormat(job))
  ELSE encodingMIME(resolveParams(job).enc, resolveParams(job).rate)

\* parseSTTEncoding looks for words in the MIME type, in this order.
Words == [pcm |-> "LINEAR16", wav |-> "LINEAR16", flac |-> "FLAC", mpeg |-> "MP3", pcmu |-> "MULAW", ulaw |-> "MULAW",
          pcma |-> "LINEAR16", ogg |-> "OGG_OPUS", webm |-> "WEBM_OPUS"]
WordsOf(mime) ==
  CASE mime \in AudioPCM -> {"pcm"}
    [] mime = "audio/wav" -> {"wav"} [] mime = "audio/flac" -> {"flac"} [] mime = "audio/mpeg" -> {"mpeg"}
    [] mime = "audio/pcmu;rate=8000" -> {"pcm", "pcmu"} [] mime = "audio/mulaw" -> {"ulaw"}
    [] mime = "audio/pcma;rate=8000" -> {"pcm", "pcma"}
    [] mime = AudioOGGOpus -> {"ogg"} [] mime = "audio/webm" -> {"webm"}
    [] OTHER -> {}
parseSTTEncoding(mime) ==
  LET found == SelectSeq(<<"pcm", "wav", "flac", "mpeg", "pcmu", "ulaw", "pcma", "ogg", "webm">>,
                         LAMBDA w : w \in WordsOf(mime))
  IN IF found = <<>> THEN "LINEAR16" ELSE Words[found[1]]

\* A name in the extra goes before what the MIME type says, if it is known.
NamedSTTEncoding(name) ==
  CASE name \in {"linear16", "pcm", "wav", "alaw"} -> "LINEAR16"
    [] name = "flac" -> "FLAC" [] name = "mp3" -> "MP3" [] name = "mulaw" -> "MULAW"
    [] name \in {"ogg_opus", "ogg", "opus"} -> "OGG_OPUS" [] name \in {"webm_opus", "webm"} -> "WEBM_OPUS"
    [] OTHER -> None
resolveSTTConfig(j) ==
  LET named == NamedSTTEncoding(getPayloadString(j.extra, <<"encoding", "stt_encoding">>))
  IN [encoding |-> IF named # None THEN named ELSE parseSTTEncoding(j.format)]

(***************************************************************************)
(* The state.                                                              *)
(***************************************************************************)
VARIABLES
  job,        \* the call: its task, its parameters, the reply it will get
  ctx,        \* the context of the call is done: the deadline, or the caller
  wsCtx,      \* elevenlabs: the context that the write loop cancels
  svc,        \* the service: what it has yet to say, and whether it is there
  src,        \* the audio of the caller
  work,       \* the goroutine that reads the service
  send,       \* the goroutine that sends the audio, and googlespeech's sendErr
  out,        \* the stream of the call
  got         \* what the caller read from it

vars == <<job, ctx, wsCtx, svc, src, work, send, out, got>>

TwoWay == {"hear", "listen"}

TypeOK ==
  /\ job.task \in Task
  /\ ctx \in BOOLEAN /\ wsCtx \in BOOLEAN
  /\ svc.left \in Seq(Result) /\ svc.state \in {"open", "ended", "failed"} /\ svc.tries \in 0 .. 1
  /\ src.left \in 0 .. 2 /\ src.end \in {"open", "ok", "err"}
  /\ work.pc \in {"setup", "look", "recv", "batch", "close", "join", "done", "crashed"}
  /\ work.held \in Seq(Seq(Result)) /\ work.emit \in {"check", "select", "parked"}
  /\ send.pc \in {"none", "next", "write", "hang_up", "done"} /\ send.err \in BOOLEAN
  /\ out.frames \in Seq(Seq(Result)) /\ Len(out.frames) <= OutSize /\ out.closed \in BOOLEAN /\ out.err \in BOOLEAN
  /\ got.frames \in Seq(Seq(Result)) /\ got.end \in {"open", "clean", "error", "left"}

Init ==
  /\ job \in Jobs
  /\ ctx = FALSE /\ wsCtx = FALSE
  /\ svc = [left |-> job.reply, state |-> "open", tries |-> 0]
  /\ src = [left |-> IF job.task \in TwoWay THEN 2 ELSE 0, end |-> "open"]
  /\ work = [pc |-> CASE job.task = "say" -> "setup" [] job.task \in {"hear_once", "listen_once"} -> "batch"
                  [] job.task = "listen" -> "look" [] OTHER -> "recv",
             held |-> <<>>, emit |-> "check"]
  /\ send = [pc |-> IF job.task \in TwoWay THEN "next" ELSE "none", err |-> FALSE]
  /\ out = [frames |-> <<>>, closed |-> FALSE, err |-> FALSE]
  /\ got = [frames |-> <<>>, end |-> "open"]

(***************************************************************************)
(* The stream of the call.                                                 *)
(***************************************************************************)
\* The context that the worker emits with.
Expired == ctx \/ wsCtx

Closed(err) == [out EXCEPT !.closed = TRUE, !.err = @ \/ err]

\* The worker returns; what it deferred closes the stream and the connection.
Returns(err) == work' = [pc |-> "done", held |-> <<>>, emit |-> "check"] /\ out' = Closed(err)

Emitting(step) == work.held # <<>> /\ work.emit \in step
Accepted == work' = [work EXCEPT !.held = Tail(@), !.emit = "check"]

\* Emit reads the closed flag before its select; elevenlabs' write loop may
\* close the stream between the two.
EmitChecks ==
  /\ Emitting({"check"})
  /\ IF out.closed THEN Returns(FALSE) ELSE work' = [work EXCEPT !.emit = "select"] /\ UNCHANGED out
  /\ UNCHANGED <<job, ctx, wsCtx, svc, src, send, got>>

Emit ==
  /\ Emitting({"select"}) /\ ~out.closed /\ Len(out.frames) < OutSize
  /\ out' = [out EXCEPT !.frames = Append(@, work.held[1])]
  /\ Accepted
  /\ UNCHANGED <<job, ctx, wsCtx, svc, src, send, got>>

EmitWaits ==
  /\ Emitting({"select"}) /\ ~out.closed /\ ~Expired /\ Len(out.frames) = OutSize
  /\ work' = [work EXCEPT !.emit = "parked"]
  /\ UNCHANGED <<job, ctx, wsCtx, svc, src, send, out, got>>

\* Mutant: Emit with the context of the background.
EmitFails_Background ==
  /\ Emitting({"select", "parked"}) /\ out.closed
  /\ Returns(FALSE)
  /\ UNCHANGED <<job, ctx, wsCtx, svc, src, send, got>>

\* Emit fails, and the worker ends as if all had been said.
EmitFails ==
  /\ Emitting({"select", "parked"}) /\ (out.closed \/ Expired)
  /\ Returns(FALSE)
  /\ UNCHANGED <<job, ctx, wsCtx, svc, src, send, got>>

\* The select meets the closed channel first: a send on it panics.
EmitPanics ==
  /\ Emitting({"select"}) /\ out.closed
  /\ work' = [work EXCEPT !.pc = "crashed"]
  /\ UNCHANGED <<job, ctx, wsCtx, svc, src, send, out, got>>

Alive == work.pc # "crashed"

Ready(pc) == work.pc = pc /\ work.held = <<>>

(***************************************************************************)
(* What the service says.  A transcript that is blank, or not final when   *)
(* only final ones are wanted, makes no frame.                             *)
(***************************************************************************)
Wanted(r) == r.n # 0 /\ (job.task = "listen" => r.final \/ job.interim)

FramesOf(piece) ==
  IF job.task \in Bytes THEN IF piece = <<>> THEN <<>> ELSE <<piece>>
  ELSE IF job.task = "listen_once" THEN IF \A i \in DOMAIN piece : piece[i].n = 0 THEN <<>> ELSE <<SelectSeq(piece, Wanted)>>
  ELSE [i \in 1 .. Len(SelectSeq(piece, Wanted)) |-> <<SelectSeq(piece, Wanted)[i]>>]

\* How much of what is left comes in one piece: a websocket message is one
\* transcript, a response of Google's has any number of results.
Pieces == IF job.task = "listen" THEN {1} ELSE 0 .. Len(svc.left)

Piece ==
  /\ Ready("recv") /\ svc.state = "open" /\ svc.left # <<>>
  /\ \E k \in Pieces :
       /\ svc' = [svc EXCEPT !.left = SubSeq(@, k + 1, Len(@))]
       /\ work' = [work EXCEPT !.pc = IF job.task = "listen" THEN "look" ELSE "recv",
                              !.held = FramesOf(SubSeq(svc.left, 1, k))]
  /\ UNCHANGED <<job, ctx, wsCtx, src, send, out, got>>

\* The end of the reply: io.EOF, or the server's close message.
EndOfReply ==
  /\ Ready("recv") /\ svc.state = "open" /\ svc.left = <<>>
  /\ svc' = [svc EXCEPT !.state = "ended"]
  /\ IF job.task = "hear" THEN work' = [work EXCEPT !.pc = "join"] /\ UNCHANGED out ELSE Returns(FALSE)
  /\ UNCHANGED <<job, ctx, wsCtx, src, send, got>>

\* Mutant: the sender's error is not asked for.
Join_Blind ==
  /\ Ready("join")
  /\ Returns(FALSE)
  /\ UNCHANGED <<job, ctx, wsCtx, svc, src, send, got>>

\* transcribeStreaming waits for the sender and returns its error.
Join ==
  /\ Ready("join") /\ send.pc = "done"
  /\ Returns(send.err)
  /\ UNCHANGED <<job, ctx, wsCtx, svc, src, send, got>>

\* The last read of elevenlabs' body may bring bytes and the error at once.
LastPiece ==
  /\ job.task = "read" /\ Ready("recv") /\ svc.state = "open" /\ svc.left # <<>>
  /\ \E fails \in {FALSE, job.flaky} :
       /\ svc' = [svc EXCEPT !.state = IF fails THEN "failed" ELSE "ended",
                             !.left = IF fails THEN Tail(@) ELSE <<>>]
       /\ work' = [work EXCEPT !.pc = "close", !.held = <<IF fails THEN <<Head(svc.left)>> ELSE svc.left>>]
  /\ UNCHANGED <<job, ctx, wsCtx, src, send, out, got>>

\* A read fails: the service broke off, or the context is done.  The reader of
\* a websocket is silent about an error that follows the end of its context.
ReadFails ==
  /\ Ready("recv") /\ (svc.state = "failed" \/ (ctx /\ job.task # "listen"))
  /\ IF job.task = "say" THEN work' = [work EXCEPT !.pc = "batch"] /\ UNCHANGED out
     ELSE Returns(~(job.task = "listen" /\ Expired))
  /\ UNCHANGED <<job, ctx, wsCtx, svc, src, send, got>>

\* sttReadLoop looks at its context before each read; the read itself does
\* not heed it, and only the service brings it to an end.
Look ==
  /\ Ready("look")
  /\ IF Expired THEN Returns(FALSE) ELSE work' = [work EXCEPT !.pc = "recv"] /\ UNCHANGED out
  /\ UNCHANGED <<job, ctx, wsCtx, svc, src, send, got>>

(***************************************************************************)
(* googlespeech Synthesize and the unary calls.                            *)
(***************************************************************************)
Streams == job.streaming /\ streamingVoiceSupported(resolveParams(job).voice) /\ resolveParams(job).enc = "OGG_OPUS"

\* streamSynthesize up to its first Recv.
Setup ==
  /\ Ready("setup")
  /\ \/ Streams /\ ~ctx /\ svc.state = "open" /\ work' = [work EXCEPT !.pc = "recv"]
     \/ (~Streams \/ ctx \/ svc.state = "failed") /\ work' = [work EXCEPT !.pc = "batch"]
  /\ UNCHANGED <<job, ctx, wsCtx, svc, src, send, out, got>>

Size(rest) == IF Len(rest) < job.chunkSize THEN Len(rest) ELSE job.chunkSize
Chunks(audio) ==
  LET n == (Len(audio) + job.chunkSize - 1) \div job.chunkSize
      From(i) == (i - 1) * job.chunkSize
  IN [i \in 1 .. n |-> SubSeq(audio, From(i) + 1, From(i) + Size(SubSeq(audio, From(i) + 1, Len(audio))))]

\* batchSynthesize and transcribeBatch: one call brings the whole reply, to
\* elevenlabs as one text, which its caller waits for.
Batch ==
  /\ Ready("batch") /\ ~ctx /\ svc.state = "open"
  /\ work' = [work EXCEPT !.pc = "close", !.held = IF job.task = "say" THEN Chunks(job.reply) ELSE FramesOf(job.reply)]
  /\ svc' = [svc EXCEPT !.left = <<>>]
  /\ UNCHANGED <<job, ctx, wsCtx, src, send, out, got>>

BatchFails ==
  /\ Ready("batch") /\ (ctx \/ svc.state = "failed")
  /\ Returns(TRUE)
  /\ UNCHANGED <<job, ctx, wsCtx, svc, src, send, got>>

\* All of a reply that came at once is emitted.
Done ==
  /\ Ready("close")
  /\ Returns(svc.state = "failed" /\ job.task = "read")
  /\ UNCHANGED <<job, ctx, wsCtx, svc, src, send, got>>

(***************************************************************************)
(* The audio of the caller on its way to the service.                      *)
(***************************************************************************)
\* The sender's context: googlespeech's worker cancels it when it returns.
SendExpired == Expired \/ (job.task = "hear" /\ work.pc = "done")

Takes ==
  /\ send.pc = "next" /\ src.left > 0
  /\ src' = [src EXCEPT !.left = @ - 1]
  /\ send' = [send EXCEPT !.pc = "write"]
  /\ UNCHANGED <<job, ctx, wsCtx, svc, work, out, got>>

\* The connection takes no more once either end has left it; that the other
\* end broke off may pass unnoticed.
Broken == svc.state # "open" \/ work.pc = "done"

Sends ==
  /\ send.pc = "write" /\ (~Broken \/ (svc.state = "failed" /\ work.pc # "done"))
  /\ send' = [send EXCEPT !.pc = "next"]
  /\ UNCHANGED <<job, ctx, wsCtx, svc, src, work, out, got>>

\* A write fails.  googlespeech leaves the error for its worker, elevenlabs
\* puts it on the stream unless the context is done.
SendFails ==
  /\ send.pc = "write" /\ (Broken \/ (SendExpired /\ job.task = "hear"))
  /\ send' = [pc |-> "done", err |-> TRUE]
  /\ IF job.task = "listen"
     THEN wsCtx' = TRUE /\ out' = (IF Expired THEN out ELSE Closed(TRUE))
     ELSE UNCHANGED <<wsCtx, out>>
  /\ UNCHANGED <<job, ctx, svc, src, work, got>>

\* The audio breaks off, or the wait for it is cancelled.
AudioFails ==
  /\ send.pc = "next" /\ ((src.left = 0 /\ src.end = "err") \/ SendExpired)
  /\ send' = [pc |-> "done", err |-> TRUE]
  /\ IF job.task = "listen" THEN wsCtx' = TRUE /\ out' = Closed(TRUE) ELSE UNCHANGED <<wsCtx, out>>
  /\ UNCHANGED <<job, ctx, svc, src, work, got>>

AudioEnds ==
  /\ send.pc = "next" /\ src.left = 0 /\ src.end = "ok"
  /\ send' = [send EXCEPT !.pc = "hang_up"]
  /\ UNCHANGED <<job, ctx, wsCtx, svc, src, work, out, got>>

\* CloseSend, or a close message; elevenlabs' loop then cancels its context.
HangUp ==
  /\ send.pc = "hang_up"
  /\ send' = [send EXCEPT !.pc = "done"]
  /\ IF job.task = "listen"
     THEN wsCtx' = TRUE /\ out' = (IF Broken /\ ~Expired THEN Closed(TRUE) ELSE out)
     ELSE UNCHANGED <<wsCtx, out>>
  /\ UNCHANGED <<job, ctx, svc, src, work, got>>

(***************************************************************************)
(* The caller, the clock and the service.                                  *)
(***************************************************************************)
\* A sender that is parked has its frame taken in at once.
Receive ==
  /\ got.end = "open" /\ job.reads
  /\ \/ /\ out.frames # <<>>
        /\ got' = [got EXCEPT !.frames = Append(@, out.frames[1])]
        /\ IF Emitting({"parked"}) /\ ~out.closed
           THEN out' = [out EXCEPT !.frames = Append(Tail(@), work.held[1])] /\ Accepted
           ELSE out' = [out EXCEPT !.frames = Tail(@)] /\ UNCHANGED work
     \/ /\ out.frames = <<>> /\ out.closed
        /\ got' = [got EXCEPT !.end = IF out.err THEN "error" ELSE "clean"]
        /\ UNCHANGED <<work, out>>
  /\ UNCHANGED <<job, ctx, wsCtx, svc, src, send>>

\* The caller cancels the call, and reads no more.
Cancel ==
  /\ ~ctx /\ got.end = "open"
  /\ ctx' = TRUE /\ got' = [got EXCEPT !.end = "left"]
  /\ UNCHANGED <<job, wsCtx, svc, src, work, send, out>>

\* googlespeech's requestTimeout.
Timeout ==
  /\ job.task \in Google /\ ~ctx /\ work.pc # "done"
  /\ ctx' = TRUE
  /\ UNCHANGED <<job, wsCtx, svc, src, work, send, out, got>>

\* The service breaks off; a unary call that follows may find it again.
ServiceFails ==
  /\ svc.state = "open" /\ job.flaky /\ work.pc # "done" /\ svc' = [svc EXCEPT !.state = "failed"]
  /\ UNCHANGED <<job, ctx, wsCtx, src, work, send, out, got>>
ServiceReturns ==
  /\ svc.state = "failed" /\ job.task = "say" /\ svc.tries = 0 /\ work.pc = "batch"
  /\ svc' = [svc EXCEPT !.state = "open", !.tries = 1]
  /\ UNCHANGED <<job, ctx, wsCtx, src, work, send, out, got>>

SourceEnds ==
  /\ job.task \in TwoWay /\ src.end = "open"
  /\ \E e \in {"ok", "err"} : src' = [src EXCEPT !.end = e]
  /\ UNCHANGED <<job, ctx, wsCtx, svc, work, send, out, got>>

Over == work.pc = "done" /\ send.pc \in {"none", "done"}

\* What the goroutines do of themselves, and what waits for the service.  A
\* panic takes the program down.
Work ==
  /\ Alive
  /\ \/ EmitChecks \/ Emit \/ EmitWaits \/ EmitFails \/ EmitPanics
     \/ Join \/ ReadFails \/ Look \/ Setup \/ BatchFails \/ Done
Sending == Alive /\ (Takes \/ Sends \/ SendFails \/ AudioFails \/ AudioEnds \/ HangUp)
Service == Alive /\ (Piece \/ EndOfReply \/ LastPiece \/ Batch \/ ServiceFails \/ ServiceReturns)

Next == Work \/ Sending \/ Service \/ (Alive /\ (Receive \/ Cancel \/ Timeout \/ SourceEnds))

Spec == Init /\ [][Next]_vars

\* The scheduler runs the goroutines, the deadline comes, and a caller that
\* reads goes on reading.  The service need not answer, and the audio of the
\* caller need not end.
Fairness == WF_vars(Work) /\ WF_vars(Sending) /\ WF_vars(Alive /\ Timeout) /\ WF_vars(Alive /\ Receive)

FairSpec == Spec /\ Fairness

(***************************************************************************)
(* Properties.                                                             *)
(***************************************************************************)
All == FlattenSeq(got.frames \o out.frames)

Reply == IF job.task \in Bytes THEN job.reply ELSE SelectSeq(job.reply, Wanted)

\* Nothing is said that the service did not say, and nothing out of its order;
\* only a synthesis that broke off while it was streamed starts again, from
\* the beginning.  Emit failing, a piece that comes with an error, chunks at
\* the end of the audio and blank or interim results all bear on it.
InOrderOfReply ==
  \/ IsPrefix(All, Reply)
  \/ /\ Streams
     /\ \E k \in 0 .. Len(Reply) : LET again == SubSeq(All, k + 1, Len(All))
                                   IN IsPrefix(SubSeq(All, 1, k), Reply) /\ IsPrefix(again, Reply)

\* A call that ends without an error has brought the whole reply, unless its
\* caller cancelled it or its deadline passed: errors of the service and of
\* the caller's audio are not lost on the way from the goroutine that meets
\* them.  elevenlabs' transcription keeps this only until its write loop has
\* said what it had to: see TranscriptsKept.
CleanEndHasAll ==
  got.end = "clean" /\ ~ctx /\ ~wsCtx =>
    /\ IsSuffix(Reply, All)
    /\ job.task = "hear" => ~send.err /\ src.end = "ok"

\* The type on the frames of a synthesis by Google is that of the encoding it
\* is asked for, wherever in the request that was said, but for PCM at a rate
\* of its own.
FormatTold ==
  job.task = "say" =>
    LET p == resolveParams(job)
    IN parseEncodingFromMIME(MimeOf(job)) = p.enc \/ (p.enc = "PCM" /\ p.rate \notin DOMAIN PCMOf /\ p.rate > 0)

\* What the caller gets is what the service said, all of it where the stream
\* ends cleanly, under a type that says what it is.
ReplyWhole == TypeOK /\ InOrderOfReply /\ CleanEndHasAll /\ FormatTold

\* The service has said all, or broken off.
Answered == svc.state # "open" \/ work.pc = "close"

\* The goroutines of a call end.  Those of Google do even if neither the
\* service answers nor the caller reads, for their deadline reaches the
\* sender, a full stream and the wait for the other goroutine alike; those of
\* elevenlabs do once the caller cancels, or once the service has ended and the
\* caller reads on and its audio has an end.  A cancelled transcription of
\* elevenlabs needs the service as well: see CancelledCallEnds.
WorkersEnd ==
  (\/ job.task \in Google
   \/ ctx /\ (job.task = "listen" => Answered)
   \/ Answered /\ job.reads /\ (job.task = "listen" => src.end # "open"))
    ~> (Over \/ ~Alive)

(***************************************************************************)
(* What the documentation says and the code does not do.                   *)
(***************************************************************************)
\* "No goroutine leaks: context cancellation + channel close guarantees
\* termination" (ARCHITECTURE.md:508).  sttReadLoop looks at its context
\* before conn.ReadMessage and nothing closes the connection under it.
CancelledCallEnds == (job.task = "listen" /\ ctx) ~> (Over \/ ~Alive)

\* "The returned Stream emits [KindText] frames for transcript segments"
\* (speech.go:60): a transcription that the caller let run and that ends
\* without an error has brought all of them.
TranscriptsKept == job.task = "listen" /\ got.end = "clean" /\ ~ctx => IsSuffix(Reply, All)

\* "Emit is safe to call concurrently with Close - a concurrent close returns
\* ErrClosed instead of panicking" (stream.go:107-108).  The read loop emits
\* while the write loop reports an error on the same stream.
TranscribeSurvives == Alive

\* "MIME type for Data" (frame.go:59): frames of audio that was asked for in a
\* format that elevenlabs has a name for say that format.
MimeOfAudio == job.task = "read" /\ outputFormatFromMIME(job.format) # "" => MimeOf(job) = job.format

\* "Required so the provider knows how to decode" (speech.go:89): audio that
\* the request says is mu-law is recognised as mu-law.
DecodedAsSaid ==
  job.task \in {"hear", "hear_once"} /\ job.format \in MimesOf["MULAW"] /\ Given(job.extra.top, <<"encoding">>) = <<>> =>
    resolveSTTConfig(job).encoding = "MULAW"

=============================================================================
