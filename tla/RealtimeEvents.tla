--------------------------- MODULE RealtimeEvents ---------------------------
(***************************************************************************)
(* provider/realtime: what is said over a session that RealtimeSession     *)
(* keeps alive.  The server's events become frames (handle.go), calls of   *)
(* tools being put together from events that name, spell out and finish    *)
(* them in whichever way the server does it; the caller's audio, video and *)
(* tool results become messages (realtime.go, wire.go).  The reader and    *)
(* the callers of Send share the camera frames that wait for audio and     *)
(* what the server said of the session.                                    *)
(***************************************************************************)
EXTENDS Integers, Sequences, SequencesExt, FiniteSets

CONSTANTS
  Setups,          \* the sessions that are checked
  Callers,         \* goroutines that call Send
  maxVideoFrames

Dialect == {"ga", "beta", "vllm"}
Call == {"c1", "c2"}
Bytes == Seq(1 .. 2)          \* the arguments of a call are <<1, 2>>

\* What a server says of a call, or of anything else.
Event == [k : STRING, c : Call \cup {"none"}, named : BOOLEAN, args : Bytes]
Ev(k) == [k |-> k, c |-> "none", named |-> FALSE, args |-> <<>>]
Of(k, c, named, args) == [k |-> k, c |-> c, named |-> named, args |-> args]

Frame == [k : STRING, c : Call \cup {"none"}, named : BOOLEAN, args : Bytes]
F(k) == Ev(k)

(***************************************************************************)
(* The configuration that a session starts with.                           *)
(***************************************************************************)
\* The options of the caller, by what they are called on the wire.
Common == {"instructions", "tools", "tool_choice", "temperature", "input", "output", "voice", "max_tokens", "modalities"}
OfVLLM == {"ref_audio", "overlap", "playback", "idle", "force_listen", "extra_body"}
OfGA == {"transcription", "noise"}

\* Which options session.update spells out.
sessionUpdate(s) ==
  LET given == s.options
  IN CASE s.dialect = "vllm" ->
            (given \cap (Common \cup OfVLLM \cup {"model", "speed", "auto_response"})) \cup {"modalities"}
              \cup (IF s.native THEN {"auto_response"} ELSE {})
       [] s.dialect = "beta" -> given \cap Common
       [] s.dialect = "ga" -> given \cap (Common \cup OfGA \cup {"model", "speed"})

\* sessionURL names the model whatever the dialect.
sessionURL(s) == s.options \cap {"model"}

\* The field turn_detection: left out, null, or a mode and whether the server
\* starts the answer of its own.
Omitted == [mode |-> "omitted", create |-> FALSE]
Null == [mode |-> "null", create |-> FALSE]
turnDetection(s) ==
  LET mode == IF s.vad # "none" /\ s.vad # "" THEN s.vad ELSE s.turn
      plain == mode = "" \/ (s.dialect = "vllm" /\ mode = "semantic_vad")
  IN CASE s.turn = "omit" -> Omitted
       [] s.turn = "manual" \/ (s.turn = "" /\ s.vad = "none") -> Null
       [] OTHER -> [mode |-> IF plain THEN "server_vad" ELSE mode, create |-> s.dialect # "vllm" /\ (s.vad = "none" \/ s.create)]

(***************************************************************************)
(* Formats and lengths of audio on the wire.                               *)
(***************************************************************************)
vllmAudioFormat(mime) ==
  CASE mime = "audio/pcmu;rate=8000" -> "g711_ulaw" [] mime = "audio/pcma;rate=8000" -> "g711_alaw"
    [] mime = "audio/f32" -> "pcm_f32le" [] OTHER -> "pcm16"
Rates == [m \in {"audio/pcmu;rate=8000", "audio/pcma;rate=8000", "audio/pcm;rate=16000", "audio/pcm;rate=24000"} |->
            CASE m = "audio/pcm;rate=16000" -> 16000 [] m = "audio/pcm;rate=24000" -> 24000 [] OTHER -> 8000]
rateFromMIME(mime, fallback) == IF mime \in DOMAIN Rates THEN Rates[mime] ELSE fallback

BytesPerSample(format) ==
  CASE format = "pcm_f32le" -> 4 [] format \in {"g711_ulaw", "g711_alaw"} -> 1 [] OTHER -> 2
durationMs(bytes, format, rate) ==
  IF rate <= 0 \/ bytes < BytesPerSample(format) THEN 0 ELSE ((bytes \div BytesPerSample(format)) * 1000) \div rate

pcmMIME(rate, format) ==
  CASE format = "g711_ulaw" -> "audio/pcmu;rate=8000" [] format = "g711_alaw" -> "audio/pcma;rate=8000"
    [] rate = 16000 -> "audio/pcm;rate=16000" [] rate = 24000 -> "audio/pcm;rate=24000"
    [] rate <= 0 -> "audio/pcm;bits=16;channels=1" [] OTHER -> "audio/pcm;rate=8000"

(***************************************************************************)
(* The state.                                                              *)
(***************************************************************************)
VARIABLES
  setup,      \* the session
  server,     \* what the server has said, and how far it is with each call
  lastSeq,    \* the number of the last event
  func,       \* funcArgs, funcNames and funcSent
  frames,     \* what was emitted to the caller
  over,       \* the reader has given the session up, and with which error
  session,    \* what is known of it: modelNative, inputRate
  pending,    \* pendingFrames
  shot,       \* the camera frames there have been
  sends,      \* how many calls of Send there were
  sender,     \* the callers of Send
  wire,       \* what entered sendCh
  film        \* history: the camera frames that bufferVideo took in, in order,
              \* those that newer ones displaced, and those of a refused message

vars == <<setup, server, lastSeq, func, frames, over, session, pending, shot, sends, sender, wire, film>>

Acc == [there : BOOLEAN, named : BOOLEAN, args : Bytes]
NoAcc == [there |-> FALSE, named |-> FALSE, args |-> <<>>]

Sender == [pc : {"idle", "append", "item", "capture", "attach", "create", "cancel", "clear"}, video : Seq(Nat),
           call : Call, rate : Nat]
Idle == [pc |-> "idle", video |-> <<>>, call |-> "c1", rate |-> 0]

TypeOK ==
  /\ setup.dialect \in Dialect
  /\ server.said \in Seq(Event) /\ server.left \in [Call -> Seq(Event)] /\ server.rest \in Seq(Event)
  /\ lastSeq \in 0 .. Len(server.said)
  /\ func \in [acc : [Call -> Acc], names : SUBSET Call, sent : SUBSET Call]
  /\ frames \in Seq(Frame) /\ over \in {"no", "clean", "error"}
  /\ session.native \in BOOLEAN /\ session.inputRate \in Nat
  /\ sends \in 0 .. setup.sends /\ shot \in Nat /\ pending \in Seq(1 .. shot) /\ Len(pending) <= maxVideoFrames
  /\ sender \in [Callers -> Sender]
  /\ ToSet(film.all) \subseteq 1 .. shot /\ film.dropped \subseteq ToSet(film.all)
  /\ \A r \in film.refused : r.video \in Seq(1 .. shot) /\ r.at \in 0 .. Len(wire)

Init ==
  /\ setup \in Setups
  /\ server = [said |-> <<>>, left |-> setup.calls, rest |-> setup.rest]
  /\ lastSeq = 0
  /\ func = [acc |-> [c \in Call |-> NoAcc], names |-> {}, sent |-> {}]
  /\ frames = <<>> /\ over = "no"
  /\ session = [native |-> setup.native /\ ~setup.explicit, inputRate |-> rateFromMIME(setup.mime, 0)]
  /\ pending = <<>> /\ shot = 0 /\ film = [all |-> <<>>, dropped |-> {}, refused |-> {}]
  /\ sends = 0 /\ sender = [t \in Callers |-> Idle]
  /\ wire = <<>>

(***************************************************************************)
(* The server's events: handleMessage.                                     *)
(***************************************************************************)
\* The name and the arguments that a call has when it is finished: those of
\* the event, or what was gathered.
Finished(e) ==
  LET acc == func.acc[e.c]
  IN [k |-> "tool_call", c |-> e.c, named |-> e.named \/ acc.named \/ e.c \in func.names,
      args |-> IF e.args = <<>> THEN acc.args ELSE e.args]

\* A call that was emitted before.  Mutant: forgotten once it is emitted.
Sent_Forgotten(c) == FALSE
Sent(c) == c \in func.sent

\* emitToolCall
EmitToolCall(e) ==
  /\ func' = [acc |-> [func.acc EXCEPT ![e.c] = NoAcc], sent |-> func.sent \cup {e.c},
              names |-> IF e.named \/ func.acc[e.c].named THEN func.names ELSE func.names \ {e.c}]
  /\ frames' = IF Sent(e.c) THEN frames ELSE Append(frames, Finished(e))

ArgumentsDelta(e) ==
  /\ func' = [func EXCEPT !.acc[e.c] = [there |-> TRUE, named |-> @.named \/ e.named, args |-> @.args \o e.args]]
  /\ UNCHANGED frames

\* noteOutputItem; an item that is done with its arguments is a call that is
\* finished.
Noted(e) == [func EXCEPT !.names = IF e.named THEN @ \cup {e.c} ELSE @,
                         !.acc[e.c].named = @ \/ (e.named /\ func.acc[e.c].there)]
OutputItem(e) ==
  IF e.k = "item_done" /\ e.args # <<>>
  THEN /\ func' = [acc |-> [func.acc EXCEPT ![e.c] = NoAcc], sent |-> func.sent \cup {e.c},
                   names |-> IF e.named \/ func.acc[e.c].named THEN Noted(e).names ELSE Noted(e).names \ {e.c}]
       /\ frames' = IF Sent(e.c) THEN frames ELSE Append(frames, Finished(e))
  ELSE func' = Noted(e) /\ UNCHANGED frames

\* What an event without a call is to the caller.
FramesOf(e) ==
  CASE e.k = "audio" -> <<F("audio")>> [] e.k = "text" -> <<F("text")>>
    [] e.k = "speech_started" -> <<F("flush")>>
    [] e.k \in {"transcript", "speak", "listen", "overlap", "acked"} -> <<F(e.k)>>
    [] e.k = "session.created" -> <<F("session")>>
    [] e.k = "done" -> <<F("usage"), F("eot")>>
    [] e.k = "done_failed" -> <<F("usage"), F("failed"), F("eot")>>
    [] e.k = "done_bare" -> <<F("eot")>>
    [] OTHER -> <<>>

Ends(e) == e.k \in {"error", "session.closed", "session.expired"}

\* absorbSession
Absorbs(e) ==
  IF e.k \notin {"session.created", "session.updated"} THEN session
  ELSE [native |-> ~setup.explicit /\ (session.native \/ setup.duplex),
        inputRate |-> IF setup.serverRate > 0 THEN setup.serverRate ELSE session.inputRate]

Handle(e) ==
  /\ CASE e.k = "args_delta" -> ArgumentsDelta(e)
       [] e.k = "args_done" -> EmitToolCall(e)
       [] e.k \in {"item_added", "item_done"} -> OutputItem(e)
       [] OTHER -> frames' = frames \o FramesOf(e) /\ UNCHANGED func
  /\ session' = Absorbs(e)
  /\ over' = CASE e.k = "session.closed" -> "clean" [] Ends(e) /\ e.k # "session.closed" -> "error" [] OTHER -> over

Sending == UNCHANGED <<pending, shot, sends, sender, wire, film>>

Read(e) ==
  /\ over = "no"
  /\ lastSeq' = IF setup.numbered THEN Len(server.said) + 1 ELSE 0
  /\ Handle(e)
  /\ UNCHANGED setup /\ Sending

\* The server says the next thing of a call, or anything else.
ReadOfCall(c) ==
  /\ server.left[c] # <<>> /\ Read(Head(server.left[c]))
  /\ server' = [server EXCEPT !.left[c] = Tail(@), !.said = Append(@, Head(server.left[c]))]

ReadOther ==
  /\ server.rest # <<>> /\ Read(Head(server.rest))
  /\ server' = [server EXCEPT !.rest = Tail(@), !.said = Append(@, Head(server.rest))]

\* After a resume the server may say again what it has said.
Known(i) == i <= lastSeq
Replayed ==
  /\ setup.numbered /\ over = "no"
  /\ \E i \in DOMAIN server.said :
       IF Known(i) THEN UNCHANGED <<func, frames, session, over>> ELSE Handle(server.said[i])
  /\ UNCHANGED <<setup, server, lastSeq>> /\ Sending

(***************************************************************************)
(* Send.                                                                   *)
(***************************************************************************)
Reading == UNCHANGED <<setup, server, lastSeq, func, frames, over, session>>

Begins(t, op) == op \in setup.ops /\ sender[t].pc = "idle" /\ sends < setup.sends /\ sends' = sends + 1

\* bufferVideo: the newest frames are kept.
Buffers(v) ==
  IF setup.dialect # "vllm" THEN UNCHANGED <<pending, film>>
  ELSE /\ pending' = Append(IF Len(pending) < maxVideoFrames THEN pending ELSE Tail(pending), v)
       /\ film' = [film EXCEPT !.all = Append(@, v), !.dropped = @ \cup (ToSet(pending) \ ToSet(pending'))]

SendVideo(t) ==
  /\ Begins(t, "video") /\ shot' = shot + 1 /\ Buffers(shot')
  /\ UNCHANGED <<sender, wire>> /\ Reading

\* sendAudio takes the frames that wait.  Mutant: and leaves them there.
Left_There == pending
Left == IF setup.dialect = "vllm" THEN <<>> ELSE pending

SendAudio(t) ==
  /\ Begins(t, "audio")
  /\ sender' = [sender EXCEPT ![t] = [Idle EXCEPT !.pc = "append", !.rate = rateFromMIME(setup.mime, session.inputRate),
                                                  !.video = IF setup.dialect = "vllm" THEN pending ELSE <<>>]]
  /\ pending' = Left
  /\ UNCHANGED <<shot, wire, film>> /\ Reading

\* sendToolResult, with a frame that a video tool captured or without.
SendResult(t) ==
  /\ Begins(t, "result")
  /\ \E i \in DOMAIN frames, n \in 0 .. 1 :
       /\ frames[i].k = "tool_call"
       /\ shot' = shot + n
       /\ sender' = [sender EXCEPT ![t] = [Idle EXCEPT !.pc = "item", !.call = frames[i].c,
                                                       !.video = IF n = 1 THEN <<shot'>> ELSE <<>>]]
  /\ UNCHANGED <<pending, wire, film>> /\ Reading

SendAbort(t) ==
  /\ Begins(t, "abort")
  /\ sender' = [sender EXCEPT ![t] = [Idle EXCEPT !.pc = "cancel"]]
  /\ UNCHANGED <<pending, shot, wire, film>> /\ Reading

Message(t) ==
  [k |-> sender[t].pc, call |-> sender[t].call, video |-> IF sender[t].pc = "item" THEN <<>> ELSE sender[t].video,
   rate |-> sender[t].rate]

\* What a call of Send does after a message: attachCapture keeps the captured
\* frame for the next audio as well, and a native model answers by itself.
After(t) ==
  CASE sender[t].pc = "item" /\ sender[t].video # <<>> -> "capture"
    [] sender[t].pc \in {"item", "attach"} /\ ~(sender[t].pc = "item" /\ sender[t].video # <<>>) ->
         IF session.native THEN "idle" ELSE "create"
    [] sender[t].pc = "cancel" /\ setup.dialect = "vllm" -> "clear"
    [] OTHER -> "idle"

Enqueue(t) ==
  /\ sender[t].pc \notin {"idle", "capture"}
  /\ wire' = Append(wire, Message(t))
  /\ sender' = [sender EXCEPT ![t] = IF After(t) = "idle" THEN Idle ELSE [@ EXCEPT !.pc = After(t)]]
  /\ UNCHANGED <<pending, shot, film, sends>> /\ Reading

Capture(t) ==
  /\ sender[t].pc = "capture"
  /\ Buffers(sender[t].video[1])
  /\ sender' = [sender EXCEPT ![t].pc = "attach"]
  /\ UNCHANGED <<shot, wire, sends>> /\ Reading

\* The session is closed, or the context of the call is done: the frames that
\* sendAudio has taken for the message are not put back.
Refused(t) ==
  /\ sender[t].pc \notin {"idle", "capture"} /\ setup.refuses
  /\ film' = IF sender[t].pc # "append" THEN film
             ELSE [film EXCEPT !.refused = @ \cup {[video |-> sender[t].video, at |-> Len(wire)]}]
  /\ sender' = [sender EXCEPT ![t] = Idle]
  /\ UNCHANGED <<pending, shot, wire, sends>> /\ Reading

Next ==
  \/ \E c \in Call : ReadOfCall(c)
  \/ ReadOther \/ Replayed
  \/ \E t \in Callers : SendVideo(t) \/ SendAudio(t) \/ SendResult(t) \/ SendAbort(t) \/ Enqueue(t) \/ Capture(t) \/ Refused(t)

Spec == Init /\ [][Next]_vars

(***************************************************************************)
(* Properties.                                                             *)
(***************************************************************************)
\* The i-th thing the server said finishes a call that was not finished before.
Finishes(i) ==
  LET e == server.said[i]
      Done(j) == /\ server.said[j].c = e.c
                 /\ \/ server.said[j].k = "args_done"
                    \/ server.said[j].k = "item_done" /\ server.said[j].args # <<>>
  IN e.c # "none" /\ Done(i) /\ \A j \in 1 .. i - 1 : ~Done(j)

Told(i) ==
  LET e == server.said[i]
  IN IF ~Finishes(i) THEN FramesOf(e)
     ELSE <<[k |-> "tool_call", c |-> e.c, args |-> <<1, 2>>,
             named |-> \E j \in 1 .. i : server.said[j].c = e.c /\ server.said[j].named]>>

\* The caller is told what the server said, in its order and once, whatever it
\* says again after a resume; and every call of a tool is one frame, with its
\* name and the whole of its arguments, when the server has finished it in
\* whichever of the ways there are, while other calls are being spelled out.
EventsTold == frames = FlattenSeq([i \in DOMAIN server.said |-> Told(i)])

\* Audio comes back under the type it would be sent under, and 20 ms of it are
\* said to be 20 ms.
FormatsAgree ==
  \A mime \in DOMAIN Rates :
    LET format == vllmAudioFormat(mime) rate == rateFromMIME(mime, 0)
    IN /\ pcmMIME(rate, format) = mime
       /\ durationMs((rate \div 50) * BytesPerSample(format), format, rate) = 20

\* What the caller configures reaches the server, in session.update or in the
\* URL, but for what its protocol does not have; and audio is sent under the rate
\* of its type.
NotIn(dialect) ==
  CASE dialect = "vllm" -> OfGA [] dialect = "ga" -> OfVLLM \cup {"auto_response"}
    [] dialect = "beta" -> OfVLLM \cup OfGA \cup {"speed", "auto_response"}
ConfigReaches ==
  /\ setup.options \ NotIn(setup.dialect) \subseteq sessionUpdate(setup) \cup sessionURL(setup)
  /\ turnDetection(setup).mode \notin {"omitted", "null"} <=>
       setup.turn \notin {"omit", "manual"} /\ (setup.turn # "" \/ setup.vad # "none")
  /\ setup.dialect = "vllm" => turnDetection(setup).mode # "semantic_vad"
  /\ FormatsAgree
  /\ \A i \in DOMAIN wire : wire[i].k = "append" /\ setup.mime # "" => wire[i].rate = Rates[setup.mime]

\* What went, or was to go, with one message of audio.
Appends == SelectSeq(wire, LAMBDA m : m.k = "append")
Holding == {t \in Callers : sender[t].pc = "append"}
Batches == ({Appends[i].video : i \in DOMAIN Appends} \cup {sender[t].video : t \in Holding}
              \cup {r.video : r \in film.refused} \cup {pending}) \ {<<>>}

PlacesOf(v) ==
  Cardinality({i \in DOMAIN Appends : v \in ToSet(Appends[i].video)}) + Cardinality({t \in Holding : v \in ToSet(sender[t].video)})
    + Cardinality({r \in film.refused : v \in ToSet(r.video)}) + Cardinality({i \in DOMAIN pending : pending[i] = v})
    + Cardinality({v} \cap film.dropped)

\* Whatever the camera, a tool and two callers that send audio do at once, a
\* camera frame is in one place: it waits, one Send has it, one message of audio
\* brought it, it was to go with a message that was refused, or newer ones have
\* displaced it.  The frames of a message follow one another as they were taken
\* in, with none between them passed over; and a frame is displaced only by as
\* many newer ones as may wait, so that the message after a gap is full.
VideoOnce ==
  setup.dialect = "vllm" =>
    /\ \A v \in ToSet(film.all) : PlacesOf(v) = 1
    /\ IsSuffix(pending, film.all)
    /\ \A b \in Batches : \E p \in DOMAIN film.all :
         /\ b = SubSeq(film.all, p, p + Len(b) - 1)
         /\ p > 1 /\ film.all[p - 1] \in film.dropped => Len(b) = maxVideoFrames
    /\ \A p \in DOMAIN film.all : film.all[p] \in film.dropped => Len(film.all) >= p + maxVideoFrames

\* "Image frames also wait on the next vLLM audio append as video_frames"
\* (realtime.go:710): the frames of a video tool that were to go with an append
\* that was refused go with the next one.  sendAudio has cleared them by then.
FramesWait ==
  \A r \in film.refused, i \in DOMAIN wire : i > r.at /\ wire[i].k = "append" => ToSet(r.video) \subseteq ToSet(wire[i].video)

\* What both sides know of each other: the caller was told what the server said,
\* and the server what the caller configured.
Session == TypeOK /\ EventsTold /\ ConfigReaches

=============================================================================
