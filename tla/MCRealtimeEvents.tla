-------------------------- MODULE MCRealtimeEvents --------------------------
(***************************************************************************)
(* The sessions of RealtimeEvents that TLC checks: two calls of tools,     *)
(* spelled out in the ways the servers have; everything else a server may  *)
(* say; camera frames, audio and tool results of two callers; and          *)
(* configurations of all three protocols.                                  *)
(***************************************************************************)
EXTENDS RealtimeEvents

Full(c) == <<Of("item_added", c, TRUE, <<>>), Of("args_delta", c, FALSE, <<1>>), Of("args_delta", c, FALSE, <<2>>),
             Of("args_done", c, FALSE, <<1, 2>>), Of("item_done", c, TRUE, <<1, 2>>)>>
Bare(c) == <<Of("args_delta", c, TRUE, <<1>>), Of("args_delta", c, FALSE, <<2>>), Of("args_done", c, FALSE, <<>>)>>
Late(c) == <<Of("args_delta", c, FALSE, <<1>>), Of("item_added", c, TRUE, <<>>), Of("item_done", c, TRUE, <<1, 2>>),
             Of("args_done", c, TRUE, <<1, 2>>)>>
Once(c) == <<Of("args_done", c, TRUE, <<1, 2>>)>>

Calls(f, g) == [c \in Call |-> IF c = "c1" THEN f ELSE g]

Plain == [dialect |-> "vllm", numbered |-> FALSE, native |-> FALSE, explicit |-> FALSE, duplex |-> FALSE,
          options |-> {}, turn |-> "", vad |-> "none", create |-> TRUE, mime |-> "audio/pcm;rate=16000", serverRate |-> 24000,
          calls |-> Calls(<<>>, <<>>), rest |-> <<>>, sends |-> 0, ops |-> {}, refuses |-> FALSE]

Forms(c) == {Full(c), Bare(c), Late(c)}
Spelled == {[Plain EXCEPT !.calls = Calls(f, g), !.numbered = n, !.rest = <<Ev("text")>>] :
              f \in Forms("c1"), g \in Forms("c2") , n \in BOOLEAN}
Others == {[Plain EXCEPT !.dialect = d, !.numbered = (d = "vllm"), !.calls = Calls(Once("c1"), <<>>),
                         !.rest = <<Ev("session.created"), Ev("speech_started"), Ev("audio"), Ev("transcript"), Ev("speak"),
                                    Ev("overlap"), Ev("acked"), Ev("done"), Ev(k), Ev("done_bare"), Ev(e)>>] :
              d \in Dialect, k \in {"done_failed", "session.updated"}, e \in {"error", "session.closed", "session.expired"}}
Seen == [Plain EXCEPT !.ops = {"video", "audio"}, !.sends = 4, !.refuses = TRUE]
Spoken == {[Plain EXCEPT !.dialect = d, !.calls = Calls(Once("c1"), <<>>), !.rest = <<Ev("session.updated")>>, !.mime = m,
                         !.ops = {"result", "abort", "audio"}, !.duplex = (m = ""),
                         !.sends = IF d = "vllm" THEN 3 ELSE 2, !.refuses = (d = "vllm")] :
             d \in {"vllm", "ga"}, m \in {"", "audio/pcmu;rate=8000"}}

AllOptions == Common \cup OfVLLM \cup OfGA \cup {"model", "speed", "auto_response"}
Configured == {[Plain EXCEPT !.dialect = d, !.options = o, !.turn = t, !.vad = v, !.create = c, !.native = n] :
                 d \in Dialect, o \in {{}, AllOptions, {"model", "voice"}},
                 t \in {"", "omit", "manual", "server_vad", "semantic_vad"},
                 v \in {"none", "", "server_vad", "semantic_vad"}, c \in BOOLEAN, n \in BOOLEAN}

\* Frames come of a video tool alone, and one caller sends.
MCCaptured == {s \in Spoken : s.dialect = "vllm"}

MCSetups == Spelled \cup Others \cup Spoken \cup {Seen} \cup Configured

=============================================================================
