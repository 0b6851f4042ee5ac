------------------------------ MODULE MCSpeech ------------------------------
(***************************************************************************)
(* The calls of Speech that TLC checks: three bytes of audio in chunks of  *)
(* two, in every format that is told apart, and three transcripts of which *)
(* one is interim and one is blank.                                        *)
(***************************************************************************)
EXTENDS Speech

NoExtra == [top |-> <<>>, tts |-> <<>>]
Extras1 == [top |-> [encoding |-> "ogg"], tts |-> [encoding |-> "mp3"]]
Extras == {NoExtra, Extras1,
           [top |-> [encoding |-> "not a string"], tts |-> [output_encoding |-> "alaw", voice |-> "chirp3-hd"]]}

Audio == <<[n |-> 1, final |-> TRUE], [n |-> 2, final |-> TRUE], [n |-> 3, final |-> TRUE]>>
Transcripts == <<[n |-> 1, final |-> FALSE], [n |-> 0, final |-> TRUE], [n |-> 2, final |-> TRUE], [n |-> 3, final |-> TRUE]>>

Call == [task |-> "say", streaming |-> FALSE, voice |-> "chirp3-hd", format |-> AudioOGGOpus, extra |-> NoExtra,
         default |-> "OGG_OPUS", rate |-> 0, chunkSize |-> 2, interim |-> FALSE, reply |-> Audio, flaky |-> TRUE,
         reads |-> TRUE]

Spoken == {[Call EXCEPT !.streaming = s, !.reads = r, !.voice = v] : s \in BOOLEAN, r \in BOOLEAN, v \in {"", "chirp3-hd"}}
Formats == {[Call EXCEPT !.task = t, !.format = f, !.extra = x, !.default = d, !.rate = r, !.reply = <<>>] :
              t \in {"say", "read"}, f \in UNION {MimesOf[e] : e \in Encoding} \cup {"", "audio/aac"}, x \in Extras,
              d \in {"OGG_OPUS", "PCM"}, r \in {0, 8000, 22050}}
Heard == {[Call EXCEPT !.task = t, !.format = f, !.interim = i, !.reply = Transcripts, !.reads = r] :
            t \in {"hear", "listen"}, f \in {"audio/pcm;rate=16000"}, i \in BOOLEAN, r \in BOOLEAN}
Once == {[Call EXCEPT !.task = t, !.format = f, !.extra = x, !.reply = Transcripts] :
           t \in {"hear_once", "listen_once"}, x \in {NoExtra, Extras1},
           f \in AudioPCM \cup {"audio/wav", "audio/flac", "audio/mpeg", "audio/mulaw", "audio/pcma;rate=8000", "audio/pcmu;rate=8000", AudioOGGOpus, ""}}
Read == {[Call EXCEPT !.task = "read", !.chunkSize = 0, !.reads = r] : r \in BOOLEAN}

MCJobs == Spoken \cup Formats \cup Heard \cup Once \cup Read

=============================================================================
