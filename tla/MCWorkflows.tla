---------------------------- MODULE MCWorkflows -----------------------------
(***************************************************************************)
(* Workflows and calls of speech services, in one run.  They share         *)
(* nothing: part says which one runs, while the other has ended.           *)
(***************************************************************************)
EXTENDS MCOrchestrate

CONSTANT Jobs
VARIABLES part, job, wsCtx, deadline, svc, src, work, send, out, heard
speech == <<job, wsCtx, deadline, svc, src, work, send, out, heard>>

Speech == INSTANCE Speech WITH ctx <- deadline, got <- heard

\* The calls of MCSpeech.
Calls == INSTANCE MCSpeech WITH Jobs <- {}, ctx <- deadline, got <- heard
SpeechJobs == Calls!MCJobs

\* An agent that handed nothing off, and a call whose reply was empty.
WorkflowRests ==
  /\ flow = HandoffTo("agent", 1) /\ main = "idle"
  /\ run = [a \in 0 .. MaxAgents |-> [pc |-> IF a = Classifier THEN "done" ELSE "idle", n |-> 0, cut |-> FALSE, err |-> "nil"]]
  /\ asked = [a \in Agents |-> <<>>]
  /\ coll = [results |-> <<>>, taken |-> 0, texts |-> [a \in Agents |-> 0], win |-> 0]
  /\ fan = [first |-> "nil", errors |-> <<>>]
  /\ str = [out |-> NewStream, top |-> [NewStream EXCEPT !.closed = TRUE, !.resp = 0]]
  /\ front = [pc |-> "idle", held |-> Announced, handed |-> FALSE]
  /\ got = [frames |-> <<>>, ended |-> TRUE, err |-> "nil"] /\ ctx = TRUE
SpeechRests ==
  /\ job = [Calls!Call EXCEPT !.task = "read", !.reply = <<>>]
  /\ deadline = FALSE /\ wsCtx = FALSE /\ svc = [left |-> <<>>, state |-> "ended", tries |-> 0]
  /\ src = [left |-> 0, end |-> "open"] /\ work = [pc |-> "done", held |-> <<>>, emit |-> "check"]
  /\ send = [pc |-> "none", err |-> FALSE] /\ out = [frames |-> <<>>, closed |-> TRUE, err |-> FALSE]
  /\ heard = [frames |-> <<>>, end |-> "clean"]

EachInit ==
  \/ part = "workflow" /\ Init /\ SpeechRests
  \/ part = "speech" /\ WorkflowRests /\ Speech!Init
EachNext ==
  /\ UNCHANGED part
  /\ \/ part = "workflow" /\ Next /\ UNCHANGED speech
     \/ part = "speech" /\ Speech!Next /\ UNCHANGED vars

\* The fairness of both.  What rests can take no step, so that one condition
\* serves a step of the one and a step of the other.
OfWorkflow(A) == part = "workflow" /\ A /\ UNCHANGED speech
OfSpeech(A) == part = "speech" /\ A /\ UNCHANGED vars
EachFairness ==
  /\ WF_<<vars, speech>>(OfWorkflow(Coordinating) \/ OfSpeech(Speech!Work))
  /\ WF_<<vars, speech>>(OfWorkflow(Handing) \/ OfSpeech(Speech!Sending))
  /\ WF_<<vars, speech>>(OfWorkflow(Relaying(0)) \/ OfSpeech(Speech!Alive /\ Speech!Timeout))
  /\ WF_<<vars, speech>>(OfWorkflow(Relaying(1)) \/ OfSpeech(Speech!Alive /\ Speech!Receive))
  /\ \A a \in 2 .. MaxAgents : WF_<<vars, speech>>(OfWorkflow(Relaying(a)))

EachSpec == EachInit /\ [][EachNext]_<<part, vars, speech>> /\ EachFairness

(***************************************************************************)
(* The properties of Speech, stated and explained there.                   *)
(***************************************************************************)
\* What the caller of a speech service gets is what the service said.
ReplyWhole == part = "speech" => Speech!ReplyWhole
\* The goroutines of a call end when what they wait for comes.
WorkersEnd == Speech!WorkersEnd

=============================================================================
