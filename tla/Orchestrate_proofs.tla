------------------------- MODULE Orchestrate_proofs -------------------------
(***************************************************************************)
(* Proofs about Orchestrate, for any number of agents and texts, any       *)
(* workflows, called and handed off to, and any size of the streams.       *)
(***************************************************************************)
EXTENDS Orchestrate, FiniteSetTheorems, SequenceTheorems, TLAPS

(***************************************************************************)
(* Types.  What the collector has taken and has yet to take is what the    *)
(* agents that it waits for have sent it.                                  *)
(***************************************************************************)
Over1 == {a \in Parallel : run[a].pc = "done"}
Collected ==
  /\ Merged => coll.results = <<>>
  /\ ~Merged => Len(coll.results) + coll.taken = Cardinality(Over1)

TypeInv == TypeOK /\ Collected

(***************************************************************************)
(* Who is where: the workflow, its agents, and resolveHandoff.             *)
(***************************************************************************)
Unstarted == main \in {"idle", "start"}
NewCollector == [results |-> <<>>, taken |-> 0, texts |-> [a \in Agents |-> 0], win |-> 0]

\* An agent has something to say for itself only from its call to its end.
Agent(a) ==
  /\ run[a].pc = "idle" => run[a].n = 0
  /\ run[a].pc = "emit" => Streams(a)
  /\ run[a].err # "nil" \/ run[a].cut => run[a].pc = "done"
  /\ run[a].cut => ctx \/ (flow.kind = "race" /\ a # Classifier /\ main \in {"text", "failed"})
AgentsOK == \A a \in 0 .. N : Agent(a)

\* Nothing has happened yet.
Fresh == Unstarted =>
  /\ \A a \in Agents : run[a].pc = "idle" /\ asked[a] = <<>>
  /\ str["out"] = NewStream /\ coll = NewCollector /\ fan = [first |-> "nil", errors |-> <<>>]

Called0 == flow.entry = "call" =>
  front.pc = "idle" /\ ~front.handed /\ run[Classifier].pc = "idle" /\ str["top"] = NewStream /\ main # "idle"

\* resolveHandoff waits for the workflow, forwards its stream, or is done with it.
Front == flow.entry = "handoff" =>
  /\ run[Classifier].pc \in {"read", "emit", "done"}
  /\ front.pc # "idle" => run[Classifier].pc = "read" /\ ~front.handed
  /\ front.pc \in {"idle", "start"} /\ ~front.handed /\ (run[Classifier].pc = "done" => run[Classifier].err = "nil") => main = "idle"
  /\ front.pc = "join" => main # "idle"
  /\ front.pc \in {"forward", "emit"} => main = "stream"
  /\ front.handed => main = "text" \/ (main = "stream" /\ str["out"].closed /\ str["out"].frames = <<>> /\ str["out"].err = "nil")

Kinds ==
  /\ flow.kind = "race" => main # "stream"
  /\ main = "text" => flow.kind = "race"
  /\ Merged /\ ~Unstarted => main = "stream" /\ \A a \in Agents : run[a].pc # "idle"
  /\ flow.kind = "sequence" => \A a \in 1 .. N - 1 : run[a].pc \in {"call", "read", "emit"} => main = "wait" /\ \A b \in a + 1 .. N : run[b].pc = "idle"
  /\ flow.kind \in {"sequence", "fan_then", "agent"} =>
       /\ run[N].pc = "call" => main = "wait"
       /\ run[N].pc \in {"read", "emit"} => main = "stream"
       /\ main = "stream" => run[N].pc \in {"read", "emit", "done"}
  /\ flow.kind = "fan_then" /\ run[N].pc # "idle" => coll.taken = N - 1

Out ==
  /\ ~Merged => /\ str["out"].frames # <<>> => main = "stream"
                /\ str["out"].closed <=> main = "stream" /\ run[N].pc = "done"
                /\ str["out"].closed => str["out"].err = run[N].err /\ (run[N].err = "nil" /\ ~run[N].cut => str["out"].resp = N)
  /\ Merged /\ str["out"].closed => str["out"].err = fan.first /\ \A a \in Agents : run[a].pc = "done"
Errors ==
  /\ \A i \in DOMAIN fan.errors : fan.errors[i] # "nil"
  /\ fan.first = (IF fan.errors = <<>> THEN "nil" ELSE fan.errors[1])
  /\ Merged /\ fan.first = "nil" => \A a \in Agents : run[a].err = "nil"
Top == flow.entry = "handoff" =>
  /\ str["top"].closed <=> run[Classifier].pc = "done"
  /\ str["top"].closed => str["top"].err = run[Classifier].err
  /\ front.handed /\ flow.kind \notin {"fan", "race"} /\ ~run[N].cut => str["top"].resp = N
  /\ ~front.handed /\ run[Classifier].pc = "done" /\ run[Classifier].err = "nil" /\ ~run[Classifier].cut => str["top"].resp = Classifier
Got == got.ended => str[Read].closed /\ str[Read].frames = <<>> /\ got.err = str[Read].err

PhaseInv == TypeInv /\ AgentsOK /\ Fresh /\ Called0 /\ Front /\ Kinds /\ Out /\ Errors /\ Top /\ Got

(***************************************************************************)
(* Answers.                                                                *)
(***************************************************************************)
Awaited == {coll.results[i].by : i \in DOMAIN coll.results}
Results ==
  /\ \A i \in DOMAIN coll.results :
       coll.results[i].by \in Over1 /\ coll.results[i].err = run[coll.results[i].by].err
  /\ \A i, j \in DOMAIN coll.results : coll.results[i].by = coll.results[j].by => i = j
Raced == flow.kind = "race" =>
  /\ main = "wait" => \A a \in Over1 \ Awaited : run[a].err # "nil"
  /\ main = "text" => coll.win \in Agents /\ run[coll.win].pc = "done" /\ run[coll.win].err = "nil" /\ (~ctx => ~run[coll.win].cut)
  /\ main = "failed" => \A a \in Agents : run[a].pc = "done" /\ run[a].err # "nil"
Summed == flow.kind = "fan_then" =>
  /\ main = "wait" => \A a \in Over1 \ Awaited : run[a].err = "nil" /\ coll.texts[a] = a
  /\ asked[N] # <<>> => AnswersAreWhole
AnswerInv == PhaseInv /\ Results /\ Raced /\ Summed

(***************************************************************************)
(* Order.                                                                  *)
(***************************************************************************)
Apart == flow.entry = "handoff" /\ run[Classifier].pc = "done"
Ordered == \A a \in 0 .. N : Streams(a) =>
  /\ Sent(a) \in Nat
  /\ InRow(Way, a) /\ \A i \in DOMAIN Way : From(Way[i], a) => Way[i].n \in 1 .. Sent(a)
  /\ HasAll(Way, a, Sent(a)) \/ (ctx /\ (run[a].pc = "done" \/ (a # Classifier /\ Apart)))
AnnouncedFirst == flow.entry = "handoff" /\ ~ctx =>
  /\ main # "idle" => \E j \in DOMAIN Way : Way[j] = Announced
  /\ \A i \in DOMAIN Way : Way[i].by # Classifier => \E j \in 1 .. i : Way[j] = Announced
\* Once resolveHandoff has let go of it nobody writes the workflow's stream, unless
\* the caller has cancelled.
Left == Apart => ctx \/ main \in {"idle", "text", "failed"} \/ str["out"].closed
OrderInv == PhaseInv /\ Ordered /\ AnnouncedFirst /\ Left
(***************************************************************************)
(* The steps.                                                              *)
(***************************************************************************)
\* An agent's part is over: LoopOver, with what its callers ask of it.
Finishes(a, e, c) ==
  /\ run[a].pc \in {"call", "read", "emit"}
  /\ c => Stopped(a)
  /\ e = "ctx" => c
  /\ run[a].pc = "emit" => e = "nil" /\ c /\ ctx
  /\ run[a].pc = "read" => (a = Classifier => front.pc = "idle")
  /\ run[a].pc = "call" => e = "call" /\ ~c /\ ~Sole(a)
  /\ LoopOver(a, e, c)

\* The sole agent of a workflow cannot be called.
NotCalled(a) ==
  /\ run[a].pc = "call" /\ Sole(a)
  /\ Over(a, "call", FALSE) /\ main' = "failed" /\ UNCHANGED <<asked, coll>> /\ Calling

Step(a) ==
  \/ Called(a) \/ NotCalled(a) \/ ReadText(a) \/ Emit(a)
  \/ \E e \in Error, c \in BOOLEAN : Finishes(a, e, c)

LEMMA AgentSteps ==
  ASSUME NEW a \in 0 .. N, Answering(a) \/ Relaying(a)
  PROVE  Step(a)
<1> USE DEF Error
<1>1. CASE Called(a) \/ ReadText(a) \/ Emit(a)
  BY <1>1 DEF Step
<1>2. CASE CallFails(a)
  <2>1. CASE Sole(a)
    BY <1>2, <2>1 DEF CallFails, NotCalled, Step
  <2>2. CASE ~Sole(a)
    <3>1. Finishes(a, "call", FALSE)
      BY <1>2, <2>2 DEF CallFails, Finishes
    <3> QED
      BY <3>1 DEF Step
  <2> QED
    BY <2>1, <2>2
<1>3. CASE ReadEnd(a)
  <2>1. PICK c \in {FALSE, Stopped(a)} : LoopOver(a, "nil", c)
    BY <1>3 DEF ReadEnd
  <2>2. c \in BOOLEAN /\ (c => Stopped(a))
    BY <2>1 DEF Stopped
  <2>3. Finishes(a, "nil", c)
    BY <1>3, <2>1, <2>2 DEF ReadEnd, InLoop, Finishes
  <2> QED
    BY <2>2, <2>3 DEF Step
<1>4. CASE ReadFails(a)
  <2>1. Finishes(a, "source", FALSE)
    BY <1>4 DEF ReadFails, InLoop, Finishes
  <2> QED
    BY <2>1 DEF Step
<1>5. CASE ReadCancelled(a)
  <2>1. Finishes(a, "ctx", TRUE)
    BY <1>5 DEF ReadCancelled, Notices, InLoop, Finishes
  <2> QED
    BY <2>1 DEF Step
<1>6. CASE EmitFails(a)
  <2>1. Finishes(a, "nil", TRUE)
    BY <1>6 DEF EmitFails, Stopped, Finishes
  <2> QED
    BY <2>1 DEF Step
<1> QED
  BY <1>1, <1>2, <1>3, <1>4, <1>5, <1>6 DEF Answering, Relaying

Main ==
  \/ StartParallel \/ StartFirst \/ TakeRace \/ TakeText \/ TakeError \/ Synthesize \/ CloseFan
  \/ Handoff \/ HandoffStart \/ HandoffUnknown \/ HandoffJoins
  \/ ForwardNext \/ ForwardEmit \/ ForwardCancelled \/ Forwarded
  \/ Receive \/ ReceiveEnd \/ Cancel

LEMMA Steps ==
  ASSUME [Next]_vars
  PROVE  Main \/ (\E a \in 0 .. N : Step(a)) \/ UNCHANGED vars
BY AgentSteps DEF Next, Coordinating, Handing, Main

LEMMA SameFlow ==
  ASSUME [Next]_vars
  PROVE  flow' = flow
<1>1. CASE Main
  <2>1. CASE StartParallel \/ StartFirst \/ TakeRace \/ TakeText \/ TakeError \/ Synthesize
    BY <2>1 DEF StartParallel, StartFirst, TakeRace, TakeText, TakeError, Synthesize, Calling, Outside
  <2>2. CASE CloseFan \/ Receive \/ ReceiveEnd \/ Cancel
    BY <2>2 DEF CloseFan, Receive, ReceiveEnd, Cancel, Outside
  <2>3. CASE Handoff \/ HandoffStart \/ HandoffUnknown \/ HandoffJoins \/ ForwardNext \/ ForwardEmit \/ ForwardCancelled \/ Forwarded
    BY <2>3 DEF Handoff, HandoffStart, HandoffUnknown, HandoffJoins, ForwardNext, ForwardEmit, ForwardCancelled, Forwarded, Splicing, Outside
  <2> QED
    BY <1>1, <2>1, <2>2, <2>3 DEF Main
<1>2. ASSUME NEW a \in 0 .. N, Step(a) PROVE flow' = flow
  BY <1>2 DEF Step, Called, NotCalled, ReadText, Emit, Finishes, LoopOver, Calling, Outside
<1> QED
  BY <1>1, <1>2, Steps DEF vars

LEMMA FlowFacts ==
  ASSUME flow \in Flows
  PROVE  /\ N \in 1 .. MaxAgents /\ Agents = 1 .. N /\ N \in Agents /\ Agents \subseteq 0 .. MaxAgents /\ Classifier \notin Agents
         /\ MaxAgents \in Nat /\ OutSize \in Nat /\ OutSize >= 1 /\ MaxText \in Nat
         /\ Parallel \subseteq Agents /\ (\A a : Sole(a) => a \in Agents \ Parallel)
         /\ flow.kind \in {"fan", "race", "sequence", "fan_then", "agent"} /\ flow.entry \in {"call", "handoff"}
         /\ IsFiniteSet(Parallel) /\ Cardinality(Parallel) <= N
<1>1. flow \in Flow /\ MaxAgents \in Nat \ {0} /\ OutSize \in Nat \ {0} /\ MaxText \in Nat \ {0}
  BY OrchestrateBounds
<1>2. N \in 1 .. MaxAgents /\ flow.kind \in {"fan", "race", "sequence", "fan_then", "agent"} /\ flow.entry \in {"call", "handoff"}
  BY <1>1 DEF N, Flow
<1>3. Parallel \subseteq 1 .. N /\ \A a : Sole(a) => a \in Agents \ Parallel
  BY <1>2 DEF Parallel, Agents, Sole
<1>4. IsFiniteSet(1 .. N) /\ Cardinality(1 .. N) = N
  BY <1>1, <1>2, FS_Interval
<1>5. IsFiniteSet(Parallel) /\ Cardinality(Parallel) <= N
  BY <1>3, <1>4, FS_Subset
<1> QED
  BY <1>1, <1>2, <1>3, <1>5 DEF Agents, Classifier

\* The parts of TypeOK.
TypeStr == str \in [{"out", "top"} -> Stream] /\ \A s \in {"out", "top"} : Len(str[s].frames) <= OutSize
TypeColl ==
  /\ coll \in [results : Seq([by : Agents, err : Error]), taken : 0 .. N, texts : [Agents -> 0 .. N], win : 0 .. N]
  /\ Len(coll.results) + coll.taken <= N
TypeRest ==
  /\ fan \in [first : Error, errors : Seq(Error)]
  /\ front \in [pc : {"idle", "start", "join", "forward", "emit"}, held : Frame, handed : BOOLEAN]
  /\ main \in {"idle", "start", "wait", "stream", "text", "failed"}
  /\ ctx \in BOOLEAN

LEMMA Types ==
  TypeOK <=> /\ flow \in Flows /\ run \in [0 .. MaxAgents -> Run] /\ asked \in [Agents -> Seq(0 .. Nobody)]
             /\ TypeColl /\ TypeStr /\ TypeRest
             /\ got \in [frames : Seq(Frame), ended : BOOLEAN, err : Error]
BY DEF TypeOK, TypeColl, TypeStr, TypeRest

LEMMA StepTypeRun ==
  ASSUME TypeOK, [Next]_vars
  PROVE  run' \in [0 .. MaxAgents -> Run]
<1> /\ run \in [0 .. MaxAgents -> Run] /\ flow \in Flows
  BY DEF TypeOK
<1>0. N \in 1 .. MaxAgents /\ MaxAgents \in Nat /\ MaxText \in Nat /\ N \in 0 .. MaxAgents /\ 0 .. N \subseteq 0 .. MaxAgents /\ 1 \in 0 .. MaxAgents
  BY FlowFacts
<1>1. ASSUME NEW a \in 0 .. MaxAgents, NEW p \in {"idle", "call", "read", "emit", "done"}
      PROVE [run EXCEPT ![a].pc = p] \in [0 .. MaxAgents -> Run]
  BY DEF Run
<1>2. ASSUME NEW a \in 0 .. MaxAgents, NEW e \in Error, NEW c \in BOOLEAN
      PROVE [run EXCEPT ![a].pc = "done", ![a].err = e, ![a].cut = c] \in [0 .. MaxAgents -> Run]
  BY DEF Run
<1>3. CASE Main
  <2>1. CASE StartParallel
    BY <2>1 DEF StartParallel, Run
  <2>2. CASE StartFirst
    BY <2>2, <1>0, <1>1 DEF StartFirst, Asks
  <2>3. CASE Synthesize
    BY <2>3, <1>0, <1>1 DEF Synthesize, Asks
  <2>4. CASE TakeRace \/ TakeText \/ TakeError \/ CloseFan \/ Handoff \/ HandoffStart \/ Receive \/ ReceiveEnd \/ Cancel
    BY <2>4 DEF TakeRace, TakeText, TakeError, CloseFan, Handoff, HandoffStart, Receive, ReceiveEnd, Cancel
  <2>5. CASE ForwardNext \/ ForwardEmit
    BY <2>5 DEF ForwardNext, ForwardEmit
  <2>6. ASSUME NEW e \in Error, HandoffFails(e) PROVE run' \in [0 .. MaxAgents -> Run]
    BY <1>0, <2>6 DEF HandoffFails, Run, Classifier
  <2>7. CASE HandoffUnknown
    BY <2>7, <2>6 DEF HandoffUnknown, Error
  <2>8. CASE HandoffJoins
    BY <2>8, <2>6 DEF HandoffJoins, Error
  <2>9. CASE ForwardCancelled
    BY <2>9, <2>6 DEF ForwardCancelled, Error
  <2>10. CASE Forwarded
    <3>1. str["out"].err \in Error
      BY DEF TypeOK, Stream
    <3> QED
      BY <2>10, <2>6, <3>1 DEF Forwarded, ForwardEnds
  <2> QED
    BY <1>3, <2>1, <2>2, <2>3, <2>4, <2>5, <2>7, <2>8, <2>9, <2>10 DEF Main
<1>4. ASSUME NEW a \in 0 .. N, Step(a) PROVE run' \in [0 .. MaxAgents -> Run]
  <2>0. a \in 0 .. MaxAgents
    BY <1>0
  <2>1. CASE Called(a) \/ Emit(a)
    BY <2>0, <2>1, <1>1 DEF Called, Emit
  <2>2. CASE NotCalled(a)
    BY <2>0, <2>2, <1>2 DEF NotCalled, Over, Error
  <2>3. CASE ReadText(a)
    <3>1. run[a].n \in 0 .. MaxText /\ run[a].n < MaxText /\ run[a] \in Run
      BY <2>0, <2>3 DEF ReadText, Run
    <3> DEFINE p == IF Streams(a) THEN "emit" ELSE run[a].pc
    <3>2. run' = [run EXCEPT ![a] = [run[a] EXCEPT !.n = run[a].n + 1, !.pc = p]]
      BY <2>0, <2>3, <3>1 DEF ReadText, Run
    <3>3. p \in {"idle", "call", "read", "emit", "done"} /\ run[a].n + 1 \in 0 .. MaxText
      BY <1>0, <3>1 DEF Run
    <3> HIDE DEF p
    <3>4. [run[a] EXCEPT !.n = run[a].n + 1, !.pc = p] \in Run
      BY <3>1, <3>3 DEF Run
    <3> QED
      BY <2>0, <3>2, <3>4
  <2>4. ASSUME NEW e \in Error, NEW c \in BOOLEAN, Finishes(a, e, c) PROVE run' \in [0 .. MaxAgents -> Run]
    <3>1. CASE Over(a, e, c)
      BY <2>0, <3>1, <1>2 DEF Over
    <3>2. CASE ~Over(a, e, c)
      <4>1. a + 1 \in 0 .. MaxAgents /\ a # a + 1 /\ run' = [run EXCEPT ![a].pc = "done", ![a].cut = c, ![a + 1].pc = "call"]
        <5>1. StageOver(a, e, c)
        BY <2>4, <3>2 DEF Finishes, LoopOver, FanOver, SendsResult, Closes
      <5>2. a \in 1 .. N /\ a # N
        BY <5>1 DEF StageOver, Agents
      <5>3. run' = [run EXCEPT ![a].pc = "done", ![a].cut = c, ![a + 1].pc = "call"]
        BY <3>2, <5>1 DEF StageOver
      <5> QED
        BY <1>0, <5>2, <5>3
      <4> QED
        BY <2>0, <4>1 DEF Run
    <3> QED
      BY <3>1, <3>2
  <2> QED
    BY <1>4, <2>1, <2>2, <2>3, <2>4 DEF Step
<1> QED
  BY <1>3, <1>4, Steps DEF vars

LEMMA StepTypeStr ==
  ASSUME TypeOK, [Next]_vars
  PROVE  TypeStr'
<1> /\ str \in [{"out", "top"} -> Stream] /\ flow \in Flows
  BY DEF TypeOK
<1>0. /\ \A s \in {"out", "top"} : str[s].frames \in Seq(Frame) /\ Len(str[s].frames) <= OutSize /\ str[s].err \in Error /\ str[s].resp \in -1 .. MaxAgents
      /\ fan.first \in Error /\ front.held \in Frame /\ run \in [0 .. MaxAgents -> Run]
  BY DEF TypeOK, Stream
<1>1. N \in 1 .. MaxAgents /\ MaxAgents \in Nat /\ MaxText \in Nat /\ OutSize \in Nat /\ 0 .. N \subseteq 0 .. MaxAgents
  BY FlowFacts
<1>2. ASSUME UNCHANGED str PROVE TypeStr'
  BY <1>2 DEF TypeOK, TypeStr
<1>3. ASSUME NEW s \in {"out", "top"}, NEW f \in Frame, Room(s), Put(s, f) PROVE TypeStr'
  <2>1. Append(str[s].frames, f) \in Seq(Frame) /\ Len(Append(str[s].frames, f)) <= OutSize
    BY <1>0, <1>1, <1>3 DEF Room
  <2>2. str' = [str EXCEPT ![s].frames = Append(str[s].frames, f)]
    BY <1>3 DEF Put
  <2> QED
    BY <1>0, <2>1, <2>2 DEF TypeStr, Stream
<1>4. ASSUME NEW s \in {"out", "top"}, str[s].frames # <<>>, str' = [str EXCEPT ![s].frames = Tail(@)] PROVE TypeStr'
  <2>1. Tail(str[s].frames) \in Seq(Frame) /\ Len(Tail(str[s].frames)) <= OutSize
    BY <1>0, <1>1, <1>4
  <2> QED
    BY <1>0, <1>4, <2>1 DEF TypeStr, Stream
<1>5. ASSUME NEW s \in {"out", "top"}, NEW e \in Error, Finish(s, e) PROVE TypeStr'
  BY <1>0, <1>5 DEF TypeStr, Stream, Finish
<1>6. CASE Main
  <2>1. CASE StartParallel \/ StartFirst \/ TakeRace \/ TakeText \/ TakeError \/ Synthesize
    BY <1>2, <2>1 DEF StartParallel, StartFirst, TakeRace, TakeText, TakeError, Synthesize, Calling
  <2>2. CASE CloseFan
    BY <1>0, <1>5, <2>2 DEF CloseFan
  <2>3. CASE Handoff \/ ReceiveEnd \/ Cancel
    BY <1>2, <2>3 DEF Handoff, ReceiveEnd, Cancel
  <2>4. CASE HandoffStart
    <3>1. Announced \in Frame
      BY <1>1 DEF Announced, Frame, Classifier
    <3> QED
      BY <1>2, <1>3, <2>4, <3>1 DEF HandoffStart
  <2>5. CASE HandoffUnknown \/ HandoffJoins \/ ForwardCancelled
    BY <1>2, <1>5, <2>5 DEF HandoffUnknown, HandoffJoins, ForwardCancelled, HandoffFails, Error
  <2>6. CASE ForwardNext
    BY <1>4, <2>6 DEF ForwardNext
  <2>7. CASE ForwardEmit
    BY <1>0, <1>3, <2>7 DEF ForwardEmit
  <2>8. CASE Forwarded
    <3>1. CASE str["out"].err # "nil"
      BY <1>0, <1>5, <2>8, <3>1 DEF Forwarded, ForwardEnds, HandoffFails
    <3>2. CASE str["out"].err = "nil"
      BY <1>0, <2>8, <3>2 DEF Forwarded, ForwardEnds, TypeStr, Stream
    <3> QED
      BY <3>1, <3>2
  <2>9. CASE Receive
    <3>1. Read \in {"out", "top"}
      BY DEF Read
    <3> QED
      BY <1>4, <2>9, <3>1 DEF Receive
  <2> QED
    BY <1>6, <2>1, <2>2, <2>3, <2>4, <2>5, <2>6, <2>7, <2>8, <2>9 DEF Main
<1>7. ASSUME NEW a \in 0 .. N, Step(a) PROVE TypeStr'
  <2>0. To(a) \in {"out", "top"}
    BY DEF To
  <2>1. CASE Called(a) \/ NotCalled(a) \/ ReadText(a)
    BY <1>2, <2>1 DEF Called, NotCalled, ReadText, Calling
  <2>2. CASE Emit(a)
    <3>1. Text(a, run[a].n) \in Frame
      BY <1>0, <1>1 DEF Text, Frame, Run
    <3> QED
      BY <1>3, <2>0, <2>2, <3>1 DEF Emit
  <2>3. ASSUME NEW e \in Error, NEW c \in BOOLEAN, Finishes(a, e, c) PROVE TypeStr'
    <3>1. CASE Closes(a, e, c)
      <4>1. Answers(a) \in -1 .. MaxAgents
        BY <1>0, <1>1 DEF Answers
      <4> DEFINE z == IF e = "nil" /\ ~c THEN Answers(a) ELSE str[To(a)].resp
      <4>2. z \in -1 .. MaxAgents
        BY <1>0, <2>0, <4>1
      <4>3. str' = [str EXCEPT ![To(a)].closed = TRUE, ![To(a)].err = e, ![To(a)].resp = z]
        BY <2>0, <3>1 DEF Closes
      <4> HIDE DEF z
      <4> QED
        BY <1>0, <2>0, <4>2, <4>3 DEF TypeStr, Stream
    <3>2. CASE ~Closes(a, e, c)
      BY <1>2, <2>3, <3>2 DEF Finishes, LoopOver, FanOver, SendsResult, StageOver
    <3> QED
      BY <3>1, <3>2
  <2> QED
    BY <1>7, <2>1, <2>2, <2>3 DEF Step
<1> QED
  BY <1>2, <1>6, <1>7, Steps DEF vars

LEMMA StepTypeRest ==
  ASSUME TypeOK, [Next]_vars
  PROVE  TypeRest'
<1>0. /\ str["out"].frames \in Seq(Frame) /\ str["out"].err \in Error /\ fan.first \in Error /\ fan.errors \in Seq(Error)
      /\ front \in [pc : {"idle", "start", "join", "forward", "emit"}, held : Frame, handed : BOOLEAN]
      /\ fan \in [first : Error, errors : Seq(Error)]
      /\ main \in {"idle", "start", "wait", "stream", "text", "failed"} /\ ctx \in BOOLEAN
  BY DEF TypeOK, Stream
<1>1. CASE Main
  <2>1. CASE StartParallel \/ StartFirst \/ TakeText \/ TakeError \/ Synthesize
    BY <1>0, <2>1 DEF StartParallel, StartFirst, TakeText, TakeError, Synthesize, Calling, Outside, TypeRest
  <2>2. CASE TakeRace
    BY <1>0, <2>2 DEF TakeRace, Decided, Calling, Outside, TypeRest
  <2>3. CASE CloseFan \/ Receive \/ ReceiveEnd \/ Cancel
    BY <1>0, <2>3 DEF CloseFan, Receive, ReceiveEnd, Cancel, Outside, TypeRest
  <2>4. CASE Handoff
    BY <1>0, <2>4 DEF Handoff, Splicing, Outside, TypeRest
  <2>5. CASE HandoffStart
    BY <1>0, <2>5 DEF HandoffStart, Splicing, Outside, TypeRest
  <2>6. CASE HandoffUnknown
    BY <1>0, <2>6 DEF HandoffUnknown, HandoffFails, Splicing, Outside, TypeRest
  <2>7. CASE HandoffJoins
    BY <1>0, <2>7 DEF HandoffJoins, HandoffFails, Splicing, Outside, TypeRest
  <2>8. CASE ForwardNext
    <3>1. Head(str["out"].frames) \in Frame
      BY <1>0, <2>8 DEF ForwardNext
    <3> QED
      BY <1>0, <2>8, <3>1 DEF ForwardNext, Splicing, Outside, TypeRest
  <2>9. CASE ForwardEmit
    BY <1>0, <2>9 DEF ForwardEmit, Splicing, Outside, TypeRest
  <2>10. CASE ForwardCancelled
    BY <1>0, <2>10 DEF ForwardCancelled, HandoffFails, Splicing, Outside, TypeRest
  <2>11. CASE Forwarded
    BY <1>0, <2>11 DEF Forwarded, ForwardEnds, HandoffFails, Splicing, Outside, TypeRest
  <2> QED
    BY <1>1, <2>1, <2>2, <2>3, <2>4, <2>5, <2>6, <2>7, <2>8, <2>9, <2>10, <2>11 DEF Main
<1>2. ASSUME NEW a \in 0 .. N, Step(a) PROVE TypeRest'
  <2>1. CASE Called(a)
    BY <1>0, <2>1 DEF Called, Calling, Outside, TypeRest
  <2>2. CASE NotCalled(a) \/ ReadText(a) \/ Emit(a)
    BY <1>0, <2>2 DEF NotCalled, ReadText, Emit, Calling, Outside, TypeRest
  <2>3. ASSUME NEW e \in Error, NEW c \in BOOLEAN, Finishes(a, e, c) PROVE TypeRest'
    <3>1. CASE FanOver(a, e, c)
      <4>1. fan' = [first |-> Recorded(e), errors |-> IF e = "nil" THEN fan.errors ELSE Append(fan.errors, e)] /\ Recorded(e) \in Error
        BY <1>0, <3>1 DEF FanOver, Recorded
      <4>2. fan' \in [first : Error, errors : Seq(Error)]
        BY <1>0, <4>1
      <4> QED
        BY <1>0, <2>3, <3>1, <4>2 DEF Finishes, LoopOver, FanOver, Outside, TypeRest
    <3>2. CASE SendsResult(a, e, c) \/ StageOver(a, e, c) \/ Closes(a, e, c)
      BY <1>0, <2>3, <3>2 DEF Finishes, LoopOver, SendsResult, StageOver, Closes, Outside, TypeRest
    <3> QED
      BY <2>3, <3>1, <3>2 DEF Finishes, LoopOver
  <2> QED
    BY <1>2, <2>1, <2>2, <2>3 DEF Step
<1>3. CASE UNCHANGED vars
  BY <1>0, <1>3 DEF vars, TypeRest
<1> QED
  BY <1>1, <1>2, <1>3, Steps

LEMMA StepTypeGot ==
  ASSUME TypeOK, [Next]_vars
  PROVE  got' \in [frames : Seq(Frame), ended : BOOLEAN, err : Error]
<1> got \in [frames : Seq(Frame), ended : BOOLEAN, err : Error]
  BY DEF TypeOK
<1>1. ASSUME NEW a \in 0 .. N, Step(a) PROVE UNCHANGED got
  BY <1>1 DEF Step, Called, NotCalled, ReadText, Emit, Finishes, LoopOver, Calling, Outside
<1>2. CASE Main
  <2>0. str[Read].frames \in Seq(Frame) /\ str[Read].err \in Error
    BY DEF TypeOK, Stream, Read
  <2>1. CASE Receive
    <3>1. Head(str[Read].frames) \in Frame
      BY <2>0, <2>1 DEF Receive
    <3>2. Append(got.frames, Head(str[Read].frames)) \in Seq(Frame)
      BY <3>1
    <3> QED
      BY <2>1, <3>2 DEF Receive
  <2>2. CASE ReceiveEnd
    BY <2>0, <2>2 DEF ReceiveEnd
  <2>3. CASE StartParallel \/ StartFirst \/ TakeRace \/ TakeText \/ TakeError \/ Synthesize
    BY <2>3 DEF StartParallel, StartFirst, TakeRace, TakeText, TakeError, Synthesize, Calling, Outside
  <2>4. CASE CloseFan \/ Cancel
    BY <2>4 DEF CloseFan, Cancel, Outside
  <2>5. CASE Handoff \/ HandoffStart \/ HandoffUnknown \/ HandoffJoins \/ ForwardNext \/ ForwardEmit \/ ForwardCancelled \/ Forwarded
    BY <2>5 DEF Handoff, HandoffStart, HandoffUnknown, HandoffJoins, ForwardNext, ForwardEmit, ForwardCancelled, Forwarded, Splicing, Outside
  <2> QED
    BY <1>2, <2>1, <2>2, <2>3, <2>4, <2>5 DEF Main
<1> QED
  BY <1>1, <1>2, Steps DEF vars

LEMMA StepTypeAsked ==
  ASSUME TypeOK, TypeColl, [Next]_vars
  PROVE  asked' \in [Agents' -> Seq(0 .. Nobody)]
<1> asked \in [Agents -> Seq(0 .. Nobody)] /\ flow \in Flows
  BY DEF TypeOK
<1>0. /\ flow' = flow /\ N \in 1 .. MaxAgents /\ MaxAgents \in Nat /\ Agents = 1 .. N
      /\ flow.kind \in {"fan", "race", "sequence", "fan_then", "agent"}
  BY SameFlow, FlowFacts
<1>1. Agents' = Agents
  BY <1>0 DEF Agents, N
<1> SUFFICES asked' \in [Agents -> Seq(0 .. Nobody)]
  BY <1>1
<1>2. Nobody \in Nat /\ User \in 0 .. Nobody /\ Nobody \in 0 .. Nobody /\ Classifier \in 0 .. Nobody /\ \A a \in Agents : a \in 0 .. Nobody
  BY <1>0 DEF User, Nobody, Classifier
<1>3. \A m \in 0 .. Nobody : Messages(m) \in Seq(0 .. Nobody)
  <2>1. \A m \in 0 .. Nobody : <<m>> \in Seq(0 .. Nobody)
    OBVIOUS
  <2> QED
    BY <1>2, <2>1 DEF Messages
<1>4. ASSUME UNCHANGED asked PROVE asked' \in [Agents -> Seq(0 .. Nobody)]
  BY <1>4
<1>5. ASSUME NEW a \in Agents, NEW m \in Seq(0 .. Nobody), asked' = [asked EXCEPT ![a] = m] PROVE asked' \in [Agents -> Seq(0 .. Nobody)]
  BY <1>5
<1>6. CASE Main
  <2>1. CASE StartParallel
    <3>1. Messages(User) \in Seq(0 .. Nobody) /\ <<>> \in Seq(0 .. Nobody)
      BY <1>2, <1>3
    <3>2. asked' = [a \in Agents |-> IF a \in Parallel THEN Messages(User) ELSE <<>>]
      BY <2>1 DEF StartParallel
    <3> QED
      BY <3>1, <3>2
  <2>2. CASE StartFirst
    <3>1. Handed \in Seq(0 .. Nobody)
      <4>1. Messages(User) \in Seq(0 .. Nobody)
        BY <1>2, <1>3
      <4>2. Append(Messages(User), Classifier) \in Seq(0 .. Nobody)
        BY <1>2, <4>1, AppendProperties
      <4> QED
        BY <4>1, <4>2 DEF Handed
    <3> QED
      BY <1>0, <1>2, <1>3, <1>5, <2>2, <3>1 DEF StartFirst, Asks
  <2>3. CASE Synthesize
    <3>1. N - 1 \in Int /\ 1 \in Int /\ \A i \in 1 .. N - 1 : coll.texts[i] \in 0 .. Nobody
      <4>1. coll.texts \in [1 .. N -> 0 .. N] /\ 0 .. N \subseteq 0 .. Nobody
        BY <1>0, <1>2 DEF TypeColl, Nobody
      <4>2. ASSUME NEW i \in 1 .. N - 1 PROVE coll.texts[i] \in 0 .. Nobody
        <5>1. i \in 1 .. N
          BY <1>0
        <5>2. coll.texts[i] \in 0 .. N
          BY <4>1, <5>1
        <5> QED
          BY <4>1, <5>2
      <4> QED
        BY <1>0, <4>2
    <3>2. SubSeq(coll.texts, 1, N - 1) \in Seq(0 .. Nobody)
      BY <3>1, SubSeqProperties
    <3>3. Messages(User) \o SubSeq(coll.texts, 1, N - 1) \in Seq(0 .. Nobody)
      BY <1>2, <1>3, <3>2
    <3> QED
      BY <1>0, <1>5, <2>3, <3>3 DEF Synthesize, Asks
  <2>4. CASE TakeRace \/ TakeText \/ TakeError \/ CloseFan \/ Receive \/ ReceiveEnd \/ Cancel
    BY <2>4 DEF TakeRace, TakeText, TakeError, CloseFan, Receive, ReceiveEnd, Cancel
  <2>5. CASE Handoff \/ HandoffStart \/ HandoffUnknown \/ HandoffJoins \/ ForwardNext \/ ForwardEmit \/ ForwardCancelled \/ Forwarded
    BY <2>5 DEF Handoff, HandoffStart, HandoffUnknown, HandoffJoins, ForwardNext, ForwardEmit, ForwardCancelled, Forwarded, Splicing
  <2> QED
    BY <1>6, <2>1, <2>2, <2>3, <2>4, <2>5 DEF Main
<1>7. ASSUME NEW a \in 0 .. N, Step(a) PROVE asked' \in [Agents -> Seq(0 .. Nobody)]
  <2>1. CASE Called(a) \/ NotCalled(a) \/ ReadText(a) \/ Emit(a)
    BY <2>1 DEF Called, NotCalled, ReadText, Emit
  <2>2. ASSUME NEW e \in Error, NEW c \in BOOLEAN, Finishes(a, e, c) PROVE asked' \in [Agents -> Seq(0 .. Nobody)]
    <3>1. CASE StageOver(a, e, c)
      <4>1. a \in Agents /\ a + 1 \in Agents
        BY <1>0, <3>1 DEF StageOver
      <4> QED
        BY <1>2, <1>3, <1>5, <3>1, <4>1 DEF StageOver
    <3>2. CASE ~StageOver(a, e, c)
      BY <2>2, <3>2 DEF Finishes, LoopOver, FanOver, SendsResult, Closes
    <3> QED
      BY <3>1, <3>2
  <2> QED
    BY <1>7, <2>1, <2>2 DEF Step
<1> QED
  BY <1>1, <1>4, <1>6, <1>7, Steps DEF vars

\* An agent that is waited for has sent its result when it is done.
LEMMA SendsOne ==
  ASSUME TypeInv, NEW a, NEW e \in Error, NEW c, SendsResult(a, e, c), run[a].pc # "done", UNCHANGED flow
  PROVE  TypeColl' /\ Collected'
<1> /\ run \in [0 .. MaxAgents -> Run] /\ flow \in Flows
    /\ coll \in [results : Seq([by : Agents, err : Error]), taken : 0 .. N, texts : [Agents -> 0 .. N], win : 0 .. N]
    /\ ~Merged => Len(coll.results) + coll.taken = Cardinality(Over1)
  BY DEF TypeInv, TypeOK, Collected
<1>0. /\ N \in 1 .. MaxAgents /\ MaxAgents \in Nat /\ Parallel \subseteq Agents /\ Agents \subseteq 0 .. MaxAgents
      /\ IsFiniteSet(Parallel) /\ Cardinality(Parallel) <= N
  BY FlowFacts
<1>1. ~Merged /\ a \in Parallel /\ a \in Agents /\ a \in 0 .. MaxAgents
  BY <1>0 DEF SendsResult
<1>2. N' = N /\ Agents' = Agents /\ Parallel' = Parallel /\ (Merged' <=> Merged)
  BY DEF N, Agents, Parallel, Merged
<1>3. Over1' = Over1 \cup {a} /\ a \notin Over1
  <2>1. \A b \in Parallel : run'[b].pc = IF b = a THEN "done" ELSE run[b].pc
    BY <1>0, <1>1 DEF SendsResult, Over
  <2> QED
    BY <1>1, <1>2, <2>1 DEF Over1
<1>4. IsFiniteSet(Over1) /\ IsFiniteSet(Over1') /\ Cardinality(Over1') <= N /\ Cardinality(Over1') = Cardinality(Over1) + 1
  <2>1. Over1 \subseteq Parallel /\ Over1' \subseteq Parallel
    BY <1>2 DEF Over1
  <2>2. /\ IsFiniteSet(Over1) /\ IsFiniteSet(Over1') /\ Cardinality(Over1') <= Cardinality(Parallel)
        /\ Cardinality(Parallel) \in Nat /\ Cardinality(Over1') \in Nat
    BY <1>0, <2>1, FS_Subset, FS_CardinalityType
  <2>3. Cardinality(Over1 \cup {a}) = Cardinality(Over1) + 1
    BY <1>3, <2>2, FS_AddElement
  <2> QED
    BY <1>0, <1>3, <2>2, <2>3
<1>5. [by |-> a, err |-> e] \in [by : Agents, err : Error]
  BY <1>1
<1> DEFINE r == Append(coll.results, [by |-> a, err |-> e])
<1>6. r \in Seq([by : Agents, err : Error]) /\ Len(r) = Len(coll.results) + 1
  BY <1>5
<1>7. coll' = [coll EXCEPT !.results = r]
  BY DEF SendsResult
<1> HIDE DEF r
<1>8. coll' \in [results : Seq([by : Agents, err : Error]), taken : 0 .. N, texts : [Agents -> 0 .. N], win : 0 .. N] /\ coll'.results = r /\ coll'.taken = coll.taken
  BY <1>6, <1>7
<1>9. Len(coll.results) \in Nat /\ coll.taken \in Nat /\ Cardinality(Over1) \in Nat
  BY <1>0, <1>4, FS_CardinalityType
<1> QED
  BY <1>1, <1>2, <1>4, <1>6, <1>8, <1>9 DEF TypeColl, Collected

\* What the collector takes it no longer has to take.
LEMMA TakesOne ==
  ASSUME TypeInv, UNCHANGED <<flow, run>>, coll.results # <<>>, NEW c,
         c = coll.texts \/ c \in [Agents -> 0 .. N], NEW w, w = coll.win \/ w \in Agents,
         coll' = [Taken(coll) EXCEPT !.texts = c, !.win = w]
  PROVE  TypeColl' /\ Collected'
<1> /\ flow \in Flows
    /\ coll \in [results : Seq([by : Agents, err : Error]), taken : 0 .. N, texts : [Agents -> 0 .. N], win : 0 .. N]
    /\ Len(coll.results) + coll.taken <= N /\ Collected
  BY DEF TypeInv, TypeOK
<1>0. N \in 1 .. MaxAgents /\ MaxAgents \in Nat /\ Agents = 1 .. N
  BY FlowFacts
<1>1. N' = N /\ Agents' = Agents /\ Over1' = Over1 /\ (Merged' <=> Merged)
  BY DEF N, Agents, Parallel, Merged, Over1
<1>2. Tail(coll.results) \in Seq([by : Agents, err : Error]) /\ Len(Tail(coll.results)) = Len(coll.results) - 1 /\ Len(coll.results) \in Nat
  OBVIOUS
<1>3. coll.taken + 1 \in 0 .. N
  <2>1. Len(coll.results) > 0
    OBVIOUS
  <2> QED
    BY <1>0, <1>2, <2>1
<1> DEFINE t == Tail(coll.results)
           k == coll.taken + 1
<1>4. coll' = [results |-> t, taken |-> k, texts |-> c, win |-> w]
  BY DEF Taken
<1>a. t \in Seq([by : Agents, err : Error]) /\ Len(t) = Len(coll.results) - 1 /\ k \in 0 .. N /\ k = coll.taken + 1 /\ coll.taken \in Nat
  BY <1>0, <1>2, <1>3
<1> HIDE DEF t, k
<1>5. coll' \in [results : Seq([by : Agents, err : Error]), taken : 0 .. N, texts : [Agents -> 0 .. N], win : 0 .. N]
  <2>1. c \in [Agents -> 0 .. N]
    OBVIOUS
  <2>2. w \in 0 .. N
    BY <1>0
  <2> QED
    BY <1>4, <1>a, <2>1, <2>2
<1>6. ~Merged
  BY DEF Collected
<1>7. Len(coll'.results) + coll'.taken = Len(coll.results) + coll.taken
  <2>1. coll'.results = t /\ coll'.taken = k
    BY ONLY <1>4
  <2>2. Len(coll.results) \in Nat
    BY <1>2
  <2> QED
    BY ONLY <1>a, <2>1, <2>2
<1> QED
  BY <1>1, <1>5, <1>6, <1>7 DEF TypeColl, Collected

LEMMA StepTypeColl ==
  ASSUME TypeInv, Fresh, [Next]_vars
  PROVE  TypeColl' /\ Collected'
<1> /\ run \in [0 .. MaxAgents -> Run] /\ flow \in Flows /\ TypeOK /\ Collected
    /\ coll \in [results : Seq([by : Agents, err : Error]), taken : 0 .. N, texts : [Agents -> 0 .. N], win : 0 .. N]
    /\ Len(coll.results) + coll.taken <= N
  BY DEF TypeInv, TypeOK
<1>0. /\ flow' = flow /\ N \in 1 .. MaxAgents /\ MaxAgents \in Nat /\ Parallel \subseteq Agents /\ Agents = 1 .. N /\ 0 .. N \subseteq 0 .. MaxAgents
      /\ \A b : Sole(b) => b \in Agents \ Parallel
      /\ N \in 0 .. MaxAgents /\ 1 \in 0 .. MaxAgents
  BY SameFlow, FlowFacts
<1>1. N' = N /\ Agents' = Agents /\ Parallel' = Parallel /\ (Merged' <=> Merged)
  BY <1>0 DEF N, Agents, Parallel, Merged
<1>2. ASSUME UNCHANGED coll, \A b \in Parallel : ~Merged => (run'[b].pc = "done" <=> run[b].pc = "done") PROVE TypeColl' /\ Collected'
  <2>1. TypeColl'
    BY <1>1, <1>2 DEF TypeColl
  <2>2. ~Merged => Over1' = Over1
    BY <1>1, <1>2 DEF Over1
  <2> QED
    BY <1>1, <1>2, <2>1, <2>2 DEF Collected
<1>3. ASSUME UNCHANGED <<coll, run>> PROVE TypeColl' /\ Collected'
  BY <1>2, <1>3
<1>4. ASSUME NEW a \in 0 .. MaxAgents, NEW p \in {"call", "read", "emit"}, UNCHANGED coll, run[a].pc # "done" \/ a \notin Parallel,
             \A b \in Parallel \ {a} : run'[b] = run[b], run'[a].pc = p PROVE TypeColl' /\ Collected'
  <2>1. \A b \in Parallel : run'[b].pc = "done" <=> run[b].pc = "done"
    BY <1>4
  <2> QED
    BY <1>2, <1>4, <2>1
<1>5. CASE Main
  <2>1. CASE StartParallel
    <3>1. ASSUME NEW b \in Parallel PROVE run'[b].pc # "done" /\ run[b].pc # "done"
      <4>1. b \in 0 .. MaxAgents /\ run[b].pc = "idle"
        BY <1>0, <2>1 DEF StartParallel, Fresh, Unstarted
      <4>2. run'[b] = [run[b] EXCEPT !.pc = "call"] /\ run[b] \in Run
        BY <2>1, <3>1, <4>1 DEF StartParallel
      <4> QED
        BY <4>1, <4>2 DEF Run
    <3> QED
      BY <1>2, <2>1, <3>1 DEF StartParallel
  <2>2. CASE StartFirst
    <3>1. Parallel = {}
      BY <2>2 DEF StartFirst, Parallel
    <3> QED
      BY <1>2, <2>2, <3>1 DEF StartFirst
  <2>3. CASE TakeRace
    <3>0. coll.results # <<>> /\ coll.results \in Seq([by : Agents, err : Error])
      BY <2>3 DEF TakeRace, Arrived
    <3>1. coll.results # <<>> /\ Head(coll.results) \in [by : Agents, err : Error]
      BY <3>0, HeadTailProperties
    <3> DEFINE w == IF Head(coll.results).err = "nil" THEN Head(coll.results).by ELSE coll.win
    <3>2. w = coll.win \/ w \in Agents
      BY <3>1
    <3>3. coll' = [Taken(coll) EXCEPT !.win = w] /\ Taken(coll).win = coll.win /\ Taken(coll).texts = coll.texts
      BY <2>3 DEF TakeRace, Taken
    <3> HIDE DEF w
    <3>4. coll' = [Taken(coll) EXCEPT !.texts = coll.texts, !.win = w]
      BY <3>3 DEF Taken
    <3> QED
      BY <1>0, <2>3, <3>1, <3>2, <3>4, TakesOne DEF TakeRace, Calling, Outside
  <2>4. CASE TakeText
    <3>0. coll.results # <<>> /\ coll.results \in Seq([by : Agents, err : Error])
      BY <2>4 DEF TakeText, Arrived
    <3>1. coll.results # <<>> /\ Head(coll.results) \in [by : Agents, err : Error]
      BY <3>0, HeadTailProperties
    <3> DEFINE c == Place(Head(coll.results).by)
    <3>2. c \in [Agents -> 0 .. N]
      BY <1>0, <3>1 DEF Place
    <3>3. coll' = [Taken(coll) EXCEPT !.texts = c]
      BY <2>4 DEF TakeText, Taken
    <3> HIDE DEF c
    <3>4. coll' = [Taken(coll) EXCEPT !.texts = c, !.win = coll.win]
      BY <3>3 DEF Taken
    <3> QED
      BY <1>0, <2>4, <3>1, <3>2, <3>4, TakesOne DEF TakeText, Calling, Outside
  <2>5. CASE TakeError
    <3>1. coll.results # <<>> /\ coll' = Taken(coll) /\ UNCHANGED run
      BY <2>5 DEF TakeError, Arrived
    <3>2. coll' = [Taken(coll) EXCEPT !.texts = coll.texts, !.win = coll.win]
      BY <3>1 DEF Taken
    <3> QED
      BY <1>0, <3>1, <3>2, TakesOne
  <2>6. CASE Synthesize
    <3>1. N \notin Parallel
      BY <2>6 DEF Synthesize, Parallel
    <3> QED
      BY <1>0, <1>2, <2>6, <3>1 DEF Synthesize, Asks
  <2>7. CASE CloseFan \/ Receive \/ ReceiveEnd \/ Cancel
    BY <1>3, <2>7 DEF CloseFan, Receive, ReceiveEnd, Cancel
  <2>8. CASE Handoff \/ HandoffStart \/ ForwardNext \/ ForwardEmit
    BY <1>3, <2>8 DEF Handoff, HandoffStart, ForwardNext, ForwardEmit, Splicing
  <2>9. CASE HandoffUnknown \/ HandoffJoins \/ ForwardCancelled \/ Forwarded
    <3>1. UNCHANGED coll
      BY <2>9 DEF HandoffUnknown, HandoffJoins, ForwardCancelled, Forwarded, Splicing
    <3>2. ASSUME NEW e, HandoffFails(e), NEW b \in Parallel PROVE run'[b] = run[b]
      BY <1>0, <3>2 DEF HandoffFails, Classifier
    <3>3. \A b \in Parallel : run'[b] = run[b]
      BY <2>9, <3>2 DEF HandoffUnknown, HandoffJoins, ForwardCancelled, Forwarded, ForwardEnds
    <3> QED
      BY <1>2, <3>1, <3>3
  <2> QED
    BY <1>5, <2>1, <2>2, <2>3, <2>4, <2>5, <2>6, <2>7, <2>8, <2>9 DEF Main
<1>6. ASSUME NEW a \in 0 .. N, Step(a) PROVE TypeColl' /\ Collected'
  <2>0. a \in 0 .. MaxAgents
    BY <1>0
  <2>1. CASE Called(a)
    BY <1>4, <2>0, <2>1 DEF Called
  <2>2. CASE NotCalled(a)
    <3>1. \A b \in Parallel : run'[b] = run[b]
      BY <1>0, <2>2 DEF NotCalled, Over
    <3> QED
      BY <1>2, <2>2, <3>1 DEF NotCalled
  <2>3. CASE ReadText(a)
    <3>1. run[a].pc = "read" /\ run'[a].pc \in {"read", "emit"} /\ \A b \in Parallel \ {a} : run'[b] = run[b]
      BY <1>0, <2>0, <2>3 DEF ReadText, InLoop, Run
    <3> QED
      BY <1>4, <2>0, <2>3, <3>1 DEF ReadText
  <2>4. CASE Emit(a)
    BY <1>4, <2>0, <2>4 DEF Emit
  <2>5. ASSUME NEW e \in Error, NEW c \in BOOLEAN, Finishes(a, e, c) PROVE TypeColl' /\ Collected'
    <3>0. run[a].pc # "done"
      BY <2>5 DEF Finishes
    <3>1. CASE SendsResult(a, e, c)
      BY <1>0, <3>0, <3>1, SendsOne
    <3>2. CASE FanOver(a, e, c) \/ StageOver(a, e, c)
      <4>1. UNCHANGED coll /\ (Merged \/ Parallel = {})
        BY <3>2 DEF FanOver, StageOver, Parallel
      <4> QED
        BY <1>2, <4>1
    <3>3. CASE Closes(a, e, c)
      <4>1. a \notin Parallel /\ UNCHANGED coll
        BY <1>0, <3>3 DEF Closes, Classifier
      <4>2. \A b \in Parallel : run'[b] = run[b]
        BY <1>0, <3>3, <4>1 DEF Closes, Over
      <4> QED
        BY <1>2, <4>1, <4>2
    <3> QED
      BY <2>5, <3>1, <3>2, <3>3 DEF Finishes, LoopOver
  <2> QED
    BY <1>6, <2>1, <2>2, <2>3, <2>4, <2>5 DEF Step
<1> QED
  BY <1>3, <1>5, <1>6, Steps DEF vars

LEMMA StepTypeInv ==
  ASSUME TypeInv, Fresh, [Next]_vars
  PROVE  TypeInv'
<1>1. TypeOK /\ flow \in Flows /\ TypeColl
  BY Types DEF TypeInv
<1>2. flow' \in Flows
  BY <1>1, SameFlow
<1>3. run' \in [0 .. MaxAgents -> Run] /\ asked' \in [Agents' -> Seq(0 .. Nobody)]
  BY <1>1, StepTypeRun, StepTypeAsked
<1>4. TypeColl' /\ Collected' /\ TypeStr' /\ TypeRest' /\ got' \in [frames : Seq(Frame), ended : BOOLEAN, err : Error]
  BY <1>1, StepTypeColl, StepTypeStr, StepTypeRest, StepTypeGot
<1>5. TypeOK'
  BY <1>2, <1>3, <1>4 DEF TypeOK, TypeColl, TypeStr, TypeRest, Nobody
<1> QED
  BY <1>4, <1>5 DEF TypeInv

(***************************************************************************)
(* Who is where.                                                           *)
(***************************************************************************)
LEMMA Fixed ==
  ASSUME TypeOK, [Next]_vars
  PROVE  /\ flow' = flow /\ N' = N /\ Agents' = Agents /\ Parallel' = Parallel /\ (Merged' <=> Merged) /\ Read' = Read
         /\ \A a : (Sole(a)' <=> Sole(a)) /\ (Streams(a)' <=> Streams(a))
         /\ flow \in Flows
<1>1. flow' = flow /\ flow \in Flows
  BY SameFlow DEF TypeOK
<1> QED
  BY <1>1 DEF N, Agents, Parallel, Merged, Read, Sole, Streams

RunSame == \A b \in 0 .. N : run'[b] = run[b]
RunBut(a) == \A b \in 0 .. N : b # a => run'[b] = run[b]

\* What a step does to the goroutines.
LEMMA MainRuns ==
  ASSUME TypeOK, Main
  PROVE  \/ RunSame
         \/ (StartParallel /\ \A b \in 0 .. N : run'[b] = IF b \in Parallel THEN [run[b] EXCEPT !.pc = "call"] ELSE run[b])
         \/ (StartFirst /\ \E b \in {1, N} : b \in Agents /\ run'[b] = [run[b] EXCEPT !.pc = "call"] /\ RunBut(b)
                            /\ b = (IF flow.kind = "agent" THEN N ELSE 1))
         \/ (Synthesize /\ run'[N] = [run[N] EXCEPT !.pc = "call"] /\ RunBut(N))
         \/ ((HandoffUnknown \/ HandoffJoins \/ ForwardCancelled \/ Forwarded) /\ RunBut(Classifier)
              /\ \E e \in Error \ {"nil"} : HandoffFails(e) /\ run'[Classifier] = [run[Classifier] EXCEPT !.pc = "done", !.err = e])
<1> /\ run \in [0 .. MaxAgents -> Run] /\ flow \in Flows
  BY DEF TypeOK
<1>0. /\ N \in 1 .. MaxAgents /\ MaxAgents \in Nat /\ Parallel \subseteq Agents /\ Agents = 1 .. N /\ 0 .. N \subseteq 0 .. MaxAgents
      /\ N \in 0 .. MaxAgents /\ 1 \in 0 .. MaxAgents /\ 0 \in 0 .. MaxAgents
  BY FlowFacts
<1>1. CASE StartParallel
  <2>1. \A b \in 0 .. N : run'[b] = IF b \in Parallel THEN [run[b] EXCEPT !.pc = "call"] ELSE run[b]
    BY <1>0, <1>1 DEF StartParallel
  <2> QED
    BY <1>1, <2>1
<1>2. CASE StartFirst
  <2> DEFINE b == IF flow.kind = "agent" THEN N ELSE 1
  <2>1. b \in {1, N} /\ b \in Agents /\ b \in 0 .. MaxAgents
    BY <1>0
  <2>2. run' = [run EXCEPT ![b].pc = "call"]
    BY <1>2 DEF StartFirst, Asks
  <2>4. b = (IF flow.kind = "agent" THEN N ELSE 1)
    OBVIOUS
  <2> HIDE DEF b
  <2>3. run'[b] = [run[b] EXCEPT !.pc = "call"] /\ RunBut(b)
    BY <1>0, <2>1, <2>2 DEF RunBut
  <2> QED
    BY <1>2, <2>1, <2>3, <2>4
<1>3. CASE Synthesize
  BY <1>0, <1>3 DEF Synthesize, Asks, RunBut
<1>4. CASE TakeRace \/ TakeText \/ TakeError \/ CloseFan \/ Handoff \/ HandoffStart \/ Receive \/ ReceiveEnd \/ Cancel
  BY <1>4 DEF TakeRace, TakeText, TakeError, CloseFan, Handoff, HandoffStart, Receive, ReceiveEnd, Cancel, RunSame
<1>5. CASE ForwardNext \/ ForwardEmit
  BY <1>5 DEF ForwardNext, ForwardEmit, RunSame
<1>6. ASSUME NEW e \in Error \ {"nil"}, HandoffFails(e)
      PROVE RunBut(Classifier) /\ \E x \in Error \ {"nil"} : HandoffFails(x) /\ run'[Classifier] = [run[Classifier] EXCEPT !.pc = "done", !.err = x]
  BY <1>0, <1>6 DEF HandoffFails, RunBut, Classifier
<1>7. CASE HandoffUnknown
  BY <1>7, <1>6 DEF HandoffUnknown, Error
<1>8. CASE HandoffJoins
  BY <1>8, <1>6 DEF HandoffJoins, Error, RunSame
<1>9. CASE ForwardCancelled
  BY <1>9, <1>6 DEF ForwardCancelled, Error
<1>10. CASE Forwarded
  <2>1. str["out"].err \in Error
    BY DEF TypeOK, Stream
  <2> QED
    BY <1>10, <1>6, <2>1 DEF Forwarded, ForwardEnds, RunSame
<1> QED
  BY <1>1, <1>2, <1>3, <1>4, <1>5, <1>7, <1>8, <1>9, <1>10 DEF Main

\* A step of an agent touches no other goroutine, but to ask the next agent of a Sequence.
Passes(a, c) ==
  /\ flow.kind = "sequence" /\ a \in 1 .. N - 1 /\ a + 1 \in 0 .. N
  /\ run'[a + 1] = [run[a + 1] EXCEPT !.pc = "call"] /\ \A b \in 0 .. N \ {a, a + 1} : run'[b] = run[b]
  /\ Finishes(a, "nil", c) /\ StageOver(a, "nil", c) /\ run'[a] = [run[a] EXCEPT !.pc = "done", !.cut = c]
Ends(a, e, c) ==
  /\ Finishes(a, e, c) /\ run'[a].pc = "done" /\ run'[a].cut = c /\ run'[a].n = run[a].n
  /\ run'[a].err \in {e, run[a].err} /\ (e # "nil" \/ ~StageOver(a, e, c) => run'[a].err = e)
Goes(a) ==
  \/ Called(a) /\ run[a].pc = "call" /\ run'[a] = [run[a] EXCEPT !.pc = "read"]
  \/ NotCalled(a) /\ run[a].pc = "call" /\ run'[a] = [run[a] EXCEPT !.pc = "done", !.err = "call", !.cut = FALSE]
  \/ ReadText(a) /\ run[a].pc = "read" /\ run'[a] = [run[a] EXCEPT !.n = run[a].n + 1, !.pc = IF Streams(a) THEN "emit" ELSE "read"]
  \/ Emit(a) /\ run[a].pc = "emit" /\ run'[a] = [run[a] EXCEPT !.pc = "read"]
  \/ \E e \in Error, c \in BOOLEAN : Ends(a, e, c)

LEMMA EndRuns ==
  ASSUME TypeOK, NEW a \in 0 .. N, NEW e \in Error, NEW c \in BOOLEAN, Finishes(a, e, c)
  PROVE  /\ run[a].pc \in {"call", "read", "emit"}
         /\ RunBut(a) \/ Passes(a, c)
         /\ Ends(a, e, c)
<1> /\ run \in [0 .. MaxAgents -> Run] /\ flow \in Flows
  BY DEF TypeOK
<1>z. /\ N \in 1 .. MaxAgents /\ MaxAgents \in Nat /\ MaxText \in Nat /\ 0 .. N \subseteq 0 .. MaxAgents /\ a \in 0 .. MaxAgents /\ Agents = 1 .. N
  BY FlowFacts
<1>a. run[a] \in Run
  BY <1>z
<1>0. run[a].pc \in {"call", "read", "emit"}
  BY DEF Finishes
<1>1. CASE Over(a, e, c)
  <2>1. RunBut(a)
    BY <1>z, <1>1 DEF Over, RunBut
  <2>2. run'[a] = [run[a] EXCEPT !.pc = "done", !.err = e, !.cut = c]
    BY <1>z, <1>1 DEF Over
  <2> QED
    BY <1>0, <1>a, <2>1, <2>2 DEF Run, Ends
<1>2. CASE ~Over(a, e, c)
  <2>1. StageOver(a, e, c)
    BY <1>2 DEF Finishes, LoopOver, FanOver, SendsResult, Closes
  <2>2. a \in 1 .. N - 1 /\ flow.kind = "sequence" /\ e = "nil"
    BY <1>z, <1>2, <2>1 DEF StageOver
  <2>3. run' = [run EXCEPT ![a].pc = "done", ![a].cut = c, ![a + 1].pc = "call"]
    BY <1>2, <2>1 DEF StageOver
  <2>4. a + 1 \in 0 .. N /\ a + 1 \in 0 .. MaxAgents /\ a + 1 # a
    BY <1>z, <2>2
  <2>5. run'[a + 1] = [run[a + 1] EXCEPT !.pc = "call"] /\ run'[a] = [run[a] EXCEPT !.pc = "done", !.cut = c]
    BY <1>z, <2>3, <2>4
  <2>6. \A b \in 0 .. N \ {a, a + 1} : run'[b] = run[b]
    BY <1>z, <2>3, <2>4
  <2> QED
    BY <1>0, <1>a, <2>1, <2>2, <2>4, <2>5, <2>6 DEF Run, Ends, Passes
<1> QED
  BY <1>1, <1>2

LEMMA StepRuns ==
  ASSUME TypeOK, NEW a \in 0 .. N, Step(a)
  PROVE  /\ run[a] \in Run /\ run[a].pc \in {"call", "read", "emit"}
         /\ RunBut(a) \/ \E c \in BOOLEAN : Passes(a, c)
         /\ Goes(a)
<1> /\ run \in [0 .. MaxAgents -> Run] /\ flow \in Flows
  BY DEF TypeOK
<1>0. /\ N \in 1 .. MaxAgents /\ MaxAgents \in Nat /\ MaxText \in Nat /\ 0 .. N \subseteq 0 .. MaxAgents /\ a \in 0 .. MaxAgents /\ Agents = 1 .. N
  BY FlowFacts
<1>a. run[a] \in Run
  BY <1>0
<1>1. CASE Called(a)
  BY <1>0, <1>1, <1>a DEF Called, RunBut, Goes
<1>2. CASE NotCalled(a)
  BY <1>0, <1>2, <1>a DEF NotCalled, Over, RunBut, Goes
<1>3. CASE ReadText(a)
  BY <1>0, <1>3, <1>a DEF ReadText, InLoop, RunBut, Run, Goes
<1>4. CASE Emit(a)
  BY <1>0, <1>4, <1>a DEF Emit, RunBut, Goes
<1>6. ASSUME NEW e \in Error, NEW c \in BOOLEAN, Finishes(a, e, c)
      PROVE  run[a].pc \in {"call", "read", "emit"} /\ (RunBut(a) \/ \E x \in BOOLEAN : Passes(a, x)) /\ Goes(a)
  BY <1>6, EndRuns DEF Goes
<1> QED
  BY <1>1, <1>2, <1>3, <1>4, <1>6, <1>a DEF Step

LEMMA CtxKept ==
  ASSUME [Next]_vars
  PROVE  ctx => ctx'
<1>1. CASE Main
  <2>1. CASE StartParallel \/ StartFirst \/ TakeRace \/ TakeText \/ TakeError \/ Synthesize
    BY <2>1 DEF StartParallel, StartFirst, TakeRace, TakeText, TakeError, Synthesize, Calling, Outside
  <2>2. CASE CloseFan \/ Receive \/ ReceiveEnd \/ Cancel
    BY <2>2 DEF CloseFan, Receive, ReceiveEnd, Cancel, Outside
  <2>3. CASE Handoff \/ HandoffStart \/ HandoffUnknown \/ HandoffJoins \/ ForwardNext \/ ForwardEmit \/ ForwardCancelled \/ Forwarded
    BY <2>3 DEF Handoff, HandoffStart, HandoffUnknown, HandoffJoins, ForwardNext, ForwardEmit, ForwardCancelled, Forwarded, Splicing, Outside
  <2> QED
    BY <1>1, <2>1, <2>2, <2>3 DEF Main
<1>2. ASSUME NEW a \in 0 .. N, Step(a) PROVE ctx => ctx'
  BY <1>2 DEF Step, Called, NotCalled, ReadText, Emit, Finishes, LoopOver, Calling, Outside
<1> QED
  BY <1>1, <1>2, Steps DEF vars

\* What a Race has come to it keeps.
LEMMA MainKept ==
  ASSUME TypeInv, Called0, Front, [Next]_vars, flow.kind = "race", main \in {"text", "failed"}
  PROVE  main' = main
<1>0. flow.entry \in {"call", "handoff"}
  BY FlowFacts DEF TypeInv, TypeOK
<1>1. CASE Main
  <2>1. CASE StartParallel \/ StartFirst \/ TakeRace \/ TakeText \/ TakeError \/ Synthesize
    BY <2>1 DEF StartParallel, StartFirst, TakeRace, TakeText, TakeError, Synthesize, Arrived
  <2>2. CASE CloseFan \/ Receive \/ ReceiveEnd \/ Cancel
    BY <2>2 DEF CloseFan, Receive, ReceiveEnd, Cancel
  <2>3. CASE HandoffStart
    <3>1. main = "idle"
      BY <1>0, <2>3 DEF HandoffStart, Front, Called0
    <3> QED
      BY <3>1
  <2>4. CASE Handoff \/ HandoffUnknown \/ HandoffJoins \/ ForwardNext \/ ForwardEmit \/ ForwardCancelled \/ Forwarded
    BY <2>4 DEF Handoff, HandoffUnknown, HandoffJoins, ForwardNext, ForwardEmit, ForwardCancelled, Forwarded
  <2> QED
    BY <1>1, <2>1, <2>2, <2>3, <2>4 DEF Main
<1>2. ASSUME NEW a \in 0 .. N, Step(a) PROVE main' = main
  <2>1. CASE Called(a) \/ NotCalled(a)
    BY <2>1 DEF Called, NotCalled, Sole
  <2>2. CASE ReadText(a) \/ Emit(a)
    BY <2>2 DEF ReadText, Emit
  <2>3. ASSUME NEW e \in Error, NEW c \in BOOLEAN, Finishes(a, e, c) PROVE main' = main
    BY <2>3 DEF Finishes, LoopOver, FanOver, SendsResult, StageOver, Closes
  <2> QED
    BY <1>2, <2>1, <2>2, <2>3 DEF Step
<1> QED
  BY <1>1, <1>2, Steps DEF vars

LEMMA StepAgents ==
  ASSUME TypeInv, AgentsOK, Fresh, Called0, Front, Kinds, [Next]_vars
  PROVE  AgentsOK'
<1>0. /\ TypeOK /\ flow' = flow /\ N' = N /\ flow \in Flows /\ run \in [0 .. MaxAgents -> Run]
      /\ N \in 1 .. MaxAgents /\ MaxAgents \in Nat /\ MaxText \in Nat /\ Parallel \subseteq Agents /\ Agents = 1 .. N /\ 0 .. N \subseteq 0 .. MaxAgents
  BY Fixed, FlowFacts DEF TypeInv, TypeOK
<1>a. \A b \in 0 .. N : run[b] \in Run
  BY <1>0
<1>1. ASSUME NEW b \in 0 .. N, run'[b] = run[b] PROVE Agent(b)'
  <2>0. Agent(b) /\ (ctx => ctx') /\ (flow.kind = "race" /\ main \in {"text", "failed"} => main' = main)
    BY CtxKept, MainKept DEF AgentsOK
  <2> QED
    BY <1>0, <1>1, <2>0, Fixed DEF Agent
<1>2. ASSUME NEW b \in 0 .. N, run'[b] = [run[b] EXCEPT !.pc = "call"], run[b].pc # "done" PROVE Agent(b)'
  <2>1. run'[b].pc = "call" /\ run'[b].err = run[b].err /\ run'[b].cut = run[b].cut
    BY <1>a, <1>2 DEF Run
  <2> QED
    BY <1>2, <2>1 DEF Agent, AgentsOK
<1>3. CASE Main
  <2>0. \A b \in Agents : Unstarted => run[b].pc # "done"
    BY DEF Fresh
  <2>1. CASE RunSame
    BY <1>0, <1>1, <2>1 DEF RunSame, AgentsOK
  <2>2. CASE StartParallel /\ \A b \in 0 .. N : run'[b] = IF b \in Parallel THEN [run[b] EXCEPT !.pc = "call"] ELSE run[b]
    BY <1>0, <1>1, <1>2, <2>0, <2>2 DEF StartParallel, Unstarted, AgentsOK
  <2>3. ASSUME NEW b \in Agents, StartFirst, run'[b] = [run[b] EXCEPT !.pc = "call"], RunBut(b) PROVE AgentsOK'
    BY <1>0, <1>1, <1>2, <2>0, <2>3 DEF StartFirst, Unstarted, RunBut, AgentsOK
  <2>4. CASE Synthesize /\ run'[N] = [run[N] EXCEPT !.pc = "call"] /\ RunBut(N)
    BY <1>0, <1>1, <1>2, <2>4 DEF Synthesize, RunBut, AgentsOK
  <2>5. ASSUME NEW e \in Error \ {"nil"}, run'[Classifier] = [run[Classifier] EXCEPT !.pc = "done", !.err = e],
               HandoffUnknown \/ HandoffJoins \/ ForwardCancelled \/ Forwarded, RunBut(Classifier)
        PROVE AgentsOK'
    <3>1. Classifier \in 0 .. N /\ Agent(Classifier) /\ run[Classifier] \in Run
      BY <1>0, <1>a DEF AgentsOK, Classifier
    <3>2. run'[Classifier].pc = "done" /\ run'[Classifier].cut = run[Classifier].cut
      BY <2>5, <3>1 DEF Run
    <3>3. Agent(Classifier)'
      BY <1>0, <3>1, <3>2, CtxKept DEF Agent, Classifier
    <3> QED
      BY <1>0, <1>1, <2>5, <3>3 DEF RunBut, AgentsOK
  <2> QED
    BY <1>0, <1>3, <2>1, <2>2, <2>3, <2>4, <2>5, MainRuns
<1>4. ASSUME NEW a \in 0 .. N, Step(a) PROVE AgentsOK'
  <2>0. Agent(a) /\ run[a] \in Run /\ run[a].pc \in {"call", "read", "emit"} /\ ~run[a].cut /\ run[a].err = "nil"
    <3>1. Agent(a) /\ run[a] \in Run /\ run[a].pc \in {"call", "read", "emit"}
      BY <1>0, <1>4, StepRuns DEF AgentsOK
    <3> QED
      BY <3>1 DEF Agent
  <2>1. Agent(a)'
    <3>1. CASE run'[a] = [run[a] EXCEPT !.pc = "read"]
      BY <2>0, <3>1 DEF Agent, Run
    <3>2. CASE run'[a] = [run[a] EXCEPT !.pc = "done", !.err = "call", !.cut = FALSE]
      BY <2>0, <3>2 DEF Agent, Run
    <3>3. CASE run'[a] = [run[a] EXCEPT !.n = run[a].n + 1, !.pc = IF Streams(a) THEN "emit" ELSE "read"]
      <4>1. run'[a].pc \in {"read", "emit"} /\ run'[a].err = run[a].err /\ run'[a].cut = run[a].cut
        BY <2>0, <3>3 DEF Run
      <4> QED
        BY <1>0, <2>0, <4>1, <3>3, Fixed DEF Agent, Run
    <3>4. ASSUME NEW e \in Error, NEW c \in BOOLEAN, Ends(a, e, c) PROVE Agent(a)'
      <4>1. (c => Stopped(a)) /\ run'[a].pc = "done" /\ run'[a].cut = c
        BY <3>4 DEF Finishes, Ends
      <4> QED
        BY <1>0, <4>1, CtxKept, MainKept DEF Agent, Stopped
    <3>5. Goes(a)
      BY <1>0, <1>4, StepRuns
    <3> QED
      BY <3>1, <3>2, <3>3, <3>4, <3>5 DEF Goes
  <2>2. CASE RunBut(a)
    BY <1>0, <1>1, <2>1, <2>2 DEF RunBut, AgentsOK
  <2>3. CASE ~RunBut(a)
    <3>0. PICK c \in BOOLEAN : Passes(a, c)
      BY <1>0, <1>4, <2>3, StepRuns
    <3>1. /\ flow.kind = "sequence" /\ a \in 1 .. N - 1 /\ a + 1 \in 0 .. N
          /\ run'[a + 1] = [run[a + 1] EXCEPT !.pc = "call"] /\ \A b \in 0 .. N \ {a, a + 1} : run'[b] = run[b]
      BY <3>0 DEF Passes
    <3>2. run[a + 1].pc # "done"
      <4>1. a + 1 \in a + 1 .. N
        BY <1>0, <3>1
      <4>2. run[a + 1].pc = "idle"
        BY <2>0, <3>1, <4>1 DEF Kinds
      <4> QED
        BY <4>2
    <3>3. Agent(a + 1)'
      BY <1>2, <3>1, <3>2
    <3> QED
      BY <1>0, <1>1, <2>1, <3>1, <3>3 DEF AgentsOK
  <2> QED
    BY <2>2, <2>3
<1> QED
  BY <1>0, <1>3, <1>4, <1>1, Steps DEF vars, AgentsOK

\* resolveHandoff's own loop writes its own stream only.
LEMMA ClassifierSteps ==
  ASSUME TypeInv, Called0, Front, Step(Classifier)
  PROVE  /\ flow.entry = "handoff" /\ front.pc = "idle" /\ RunBut(Classifier)
         /\ UNCHANGED <<flow, main, asked, coll, fan, front, got, ctx>> /\ str'["out"] = str["out"]
         /\ run[Classifier].pc \in {"read", "emit"}
         /\ \/ ReadText(Classifier) \/ Emit(Classifier)
            \/ \E e \in Error, c \in BOOLEAN : Finishes(Classifier, e, c) /\ Closes(Classifier, e, c)
<1>0. /\ TypeOK /\ flow.entry \in {"call", "handoff"} /\ Classifier \in 0 .. N /\ Classifier \notin Agents /\ Classifier \notin Parallel
      /\ N \in 1 .. MaxAgents /\ MaxAgents \in Nat /\ str \in [{"out", "top"} -> Stream]
  BY FlowFacts DEF TypeInv, TypeOK, Classifier
<1>1. run[Classifier].pc \in {"call", "read", "emit"} /\ (RunBut(Classifier) \/ \E c \in BOOLEAN : Passes(Classifier, c))
  BY <1>0, StepRuns
<1>2. flow.entry = "handoff" /\ run[Classifier].pc \in {"read", "emit"}
  BY <1>0, <1>1 DEF Called0, Front
<1>3. RunBut(Classifier)
  BY <1>0, <1>1 DEF Passes, Classifier
<1>4. CASE ReadText(Classifier)
  <2>1. front.pc = "idle" /\ UNCHANGED str
    BY <1>4 DEF ReadText, InLoop, Calling
  <2> QED
    BY <1>2, <1>3, <1>4, <2>1 DEF ReadText, Calling, Outside
<1>5. CASE Emit(Classifier)
  <2>1. front.pc = "idle"
    BY <1>2, <1>5 DEF Emit, Front
  <2>2. str'["out"] = str["out"]
    BY <1>0, <1>5 DEF Emit, Put, To
  <2> QED
    BY <1>2, <1>3, <1>5, <2>1, <2>2 DEF Emit, Outside
<1>6. ASSUME NEW e \in Error, NEW c \in BOOLEAN, Finishes(Classifier, e, c)
      PROVE  /\ front.pc = "idle" /\ UNCHANGED <<flow, main, asked, coll, fan, front, got, ctx>> /\ str'["out"] = str["out"]
             /\ Closes(Classifier, e, c)
  <2>1. front.pc = "idle"
    BY <1>2, <1>6 DEF Finishes, Front
  <2>2. Closes(Classifier, e, c)
    BY <1>0, <1>6 DEF Finishes, LoopOver, FanOver, SendsResult, StageOver
  <2>3. str'["out"] = str["out"]
    BY <1>0, <2>2 DEF Closes, To
  <2> QED
    BY <1>6, <2>1, <2>2, <2>3 DEF Finishes, LoopOver, Closes, Outside
<1>7. ~Called(Classifier) /\ ~NotCalled(Classifier)
  BY <1>2 DEF Called, NotCalled
<1> QED
  BY <1>2, <1>3, <1>4, <1>5, <1>6, <1>7 DEF Step

Untouched == UNCHANGED <<asked, coll, fan>> /\ str'["out"] = str["out"] /\ \A a \in Agents : run'[a] = run[a]

LEMMA StepFresh ==
  ASSUME TypeInv, Fresh, Called0, Front, [Next]_vars
  PROVE  Fresh'
<1>0. /\ TypeOK /\ flow.entry \in {"call", "handoff"} /\ Agents = 1 .. N /\ Classifier \notin Agents /\ str \in [{"out", "top"} -> Stream]
      /\ N \in 1 .. MaxAgents /\ MaxAgents \in Nat /\ flow' = flow /\ Agents' = Agents /\ flow.kind \in {"fan", "race", "sequence", "fan_then", "agent"}
  BY FlowFacts, Fixed DEF TypeInv, TypeOK
<1>a. run \in [0 .. MaxAgents -> Run] /\ Agents \subseteq 0 .. N
  BY <1>0 DEF TypeInv, TypeOK
<1>1. SUFFICES ASSUME Unstarted' PROVE Unstarted /\ Untouched
  BY <1>0 DEF Fresh, Untouched, Unstarted, NewCollector
<1>2. CASE Main
  <2>1. CASE StartParallel \/ StartFirst \/ TakeRace \/ TakeText \/ TakeError \/ Synthesize
    BY <1>0, <1>1, <2>1 DEF StartParallel, StartFirst, TakeRace, TakeText, TakeError, Synthesize, Arrived, Decided, Unstarted
  <2>2. CASE CloseFan
    BY <1>1, <2>2 DEF CloseFan, Unstarted
  <2>3. CASE Receive
    <3>1. Unstarted
      BY <1>1, <2>3 DEF Receive, Unstarted
    <3>2. str["out"].frames = <<>>
      BY <3>1 DEF Fresh, NewStream
    <3>3. Read = "top"
      BY <2>3, <3>2 DEF Receive, Read
    <3> QED
      BY <1>0, <2>3, <3>1, <3>3 DEF Receive, Untouched
  <2>4. CASE ReceiveEnd \/ Cancel \/ Handoff
    BY <1>1, <2>4 DEF ReceiveEnd, Cancel, Handoff, Splicing, Untouched, Unstarted
  <2>5. CASE HandoffStart
    <3>1. Unstarted
      BY <1>0, <2>5 DEF HandoffStart, Front, Called0, Unstarted
    <3>2. str'["out"] = str["out"]
      BY <1>0, <2>5 DEF HandoffStart, Put
    <3> QED
      BY <2>5, <3>1, <3>2 DEF HandoffStart, Splicing, Untouched
  <2>6. CASE HandoffUnknown
    <3>1. Unstarted
      BY <2>6 DEF HandoffUnknown, Unstarted
    <3>2. str'["out"] = str["out"] /\ \A a \in Agents : run'[a] = run[a]
      BY <1>0, <1>a, <2>6 DEF HandoffUnknown, HandoffFails, Finish
    <3> QED
      BY <2>6, <3>1, <3>2 DEF HandoffUnknown, Splicing, Untouched
  <2>7. CASE HandoffJoins
    BY <1>1, <2>7 DEF HandoffJoins, Unstarted, Splicing, Untouched
  <2>8. CASE ForwardNext \/ ForwardEmit \/ ForwardCancelled \/ Forwarded
    <3>1. main' = main /\ front.pc \in {"forward", "emit"}
      BY <2>8 DEF ForwardNext, ForwardEmit, ForwardCancelled, Forwarded
    <3> QED
      BY <1>0, <1>1, <3>1 DEF Front, Called0, Unstarted
  <2> QED
    BY <1>2, <2>1, <2>2, <2>3, <2>4, <2>5, <2>6, <2>7, <2>8 DEF Main
<1>3. ASSUME NEW a \in 0 .. N, Step(a) PROVE Unstarted /\ Untouched
  <2>1. CASE a = Classifier
    <3>1. Unstarted /\ UNCHANGED <<asked, coll, fan>> /\ str'["out"] = str["out"] /\ RunBut(Classifier)
      BY <1>1, <1>3, <2>1, ClassifierSteps DEF Unstarted
    <3> QED
      BY <1>0, <1>a, <3>1 DEF Untouched, RunBut
  <2>2. CASE a # Classifier
    <3>1. a \in Agents /\ run[a].pc \in {"call", "read", "emit"}
      BY <1>0, <1>3, <2>2, StepRuns DEF Classifier
    <3>2. ~Unstarted
      BY <3>1 DEF Fresh
    <3>3. main' = main \/ main' \in {"stream", "failed"}
      <4>1. CASE Called(a) \/ NotCalled(a) \/ ReadText(a) \/ Emit(a)
        BY <4>1 DEF Called, NotCalled, ReadText, Emit
      <4>2. ASSUME NEW e \in Error, NEW c \in BOOLEAN, Finishes(a, e, c) PROVE main' = main \/ main' \in {"stream", "failed"}
        BY <4>2 DEF Finishes, LoopOver, FanOver, SendsResult, StageOver, Closes
      <4> QED
        BY <1>3, <4>1, <4>2 DEF Step
    <3> QED
      BY <1>1, <3>2, <3>3 DEF Unstarted
  <2> QED
    BY <2>1, <2>2
<1>4. CASE UNCHANGED vars
  BY <1>1, <1>4 DEF vars, Unstarted, Untouched
<1> QED
  BY <1>2, <1>3, <1>4, Steps

LEMMA StepCalled0 ==
  ASSUME TypeInv, Fresh, Called0, Front, [Next]_vars
  PROVE  Called0'
<1>0. /\ TypeOK /\ flow.entry \in {"call", "handoff"} /\ Agents = 1 .. N /\ Classifier \notin Agents /\ Classifier \in 0 .. N /\ str \in [{"out", "top"} -> Stream]
      /\ N \in 1 .. MaxAgents /\ MaxAgents \in Nat /\ flow' = flow /\ Parallel \subseteq Agents
      /\ \A a \in 0 .. N : a = Classifier \/ a \in Agents
  BY FlowFacts, Fixed DEF TypeInv, TypeOK, Classifier
<1>1. SUFFICES ASSUME flow.entry = "call", front.pc = "idle", ~front.handed, run[Classifier].pc = "idle", str["top"] = NewStream, main # "idle"
               PROVE  front' = front /\ run'[Classifier] = run[Classifier] /\ str'["top"] = str["top"] /\ main' # "idle"
  BY <1>0 DEF Called0, NewStream
<1>2. CASE Main
  <2>1. run'[Classifier] = run[Classifier]
    <3>1. (\A b \in Agents : b # Classifier) /\ N # Classifier /\ Classifier \notin Parallel
      BY <1>0 DEF Classifier
    <3>2. ~(HandoffUnknown \/ HandoffJoins \/ ForwardCancelled \/ Forwarded)
      BY <1>1 DEF HandoffUnknown, HandoffJoins, ForwardCancelled, Forwarded
    <3>3. \/ RunSame
          \/ \A b \in 0 .. N : run'[b] = IF b \in Parallel THEN [run[b] EXCEPT !.pc = "call"] ELSE run[b]
          \/ \E b \in Agents : RunBut(b)
          \/ RunBut(N)
      BY <1>0, <1>2, <3>2, MainRuns
    <3> QED
      BY <1>0, <3>1, <3>3 DEF RunSame, RunBut
  <2>2. CASE StartParallel \/ StartFirst \/ TakeRace \/ TakeText \/ TakeError \/ Synthesize
    BY <1>0, <1>1, <2>1, <2>2 DEF StartParallel, StartFirst, TakeRace, TakeText, TakeError, Synthesize, Decided, Calling
  <2>3. CASE CloseFan
    BY <1>0, <1>1, <2>1, <2>3 DEF CloseFan, Finish
  <2>4. CASE Receive
    BY <1>0, <1>1, <2>1, <2>4 DEF Receive, Read
  <2>5. CASE ReceiveEnd \/ Cancel
    BY <1>1, <2>1, <2>5 DEF ReceiveEnd, Cancel
  <2>6. CASE Handoff
    BY <1>1, <2>6 DEF Handoff, InLoop
  <2>7. CASE HandoffStart \/ HandoffUnknown \/ HandoffJoins \/ ForwardNext \/ ForwardEmit \/ ForwardCancelled \/ Forwarded
    BY <1>1, <2>7 DEF HandoffStart, HandoffUnknown, HandoffJoins, ForwardNext, ForwardEmit, ForwardCancelled, Forwarded
  <2> QED
    BY <1>2, <2>2, <2>3, <2>4, <2>5, <2>6, <2>7 DEF Main
<1>3. ASSUME NEW a \in 0 .. N, Step(a) PROVE front' = front /\ run'[Classifier] = run[Classifier] /\ str'["top"] = str["top"] /\ main' # "idle"
  <2>1. a \in Agents /\ a # Classifier
    BY <1>0, <1>1, <1>3, ClassifierSteps
  <2>2. run'[Classifier] = run[Classifier]
    <3>1. RunBut(a) \/ \E c \in BOOLEAN : Passes(a, c)
      BY <1>0, <1>3, StepRuns
    <3>2. Classifier \in 0 .. N \ {a, a + 1}
      BY <1>0, <2>1 DEF Classifier
    <3> QED
      BY <2>1, <1>0, <3>1, <3>2 DEF RunBut, Passes
  <2>3. CASE Called(a) \/ NotCalled(a) \/ ReadText(a)
    BY <1>1, <2>2, <2>3 DEF Called, NotCalled, ReadText, Calling
  <2>4. CASE Emit(a)
    BY <1>0, <1>1, <2>1, <2>2, <2>4 DEF Emit, Put, To
  <2>5. ASSUME NEW e \in Error, NEW c \in BOOLEAN, Finishes(a, e, c) PROVE front' = front /\ str'["top"] = str["top"] /\ main' # "idle"
    <3>1. CASE FanOver(a, e, c) \/ SendsResult(a, e, c) \/ StageOver(a, e, c)
      BY <1>1, <2>5, <3>1 DEF Finishes, LoopOver, FanOver, SendsResult, StageOver
    <3>2. CASE Closes(a, e, c)
      BY <1>0, <1>1, <2>1, <2>5, <3>2 DEF Finishes, LoopOver, Closes, To
    <3> QED
      BY <2>5, <3>1, <3>2 DEF Finishes, LoopOver
  <2> QED
    BY <1>3, <2>2, <2>3, <2>4, <2>5 DEF Step
<1> QED
  BY <1>1, <1>2, <1>3, Steps DEF vars

\* A stream that is closed stays as it is, but for what is read.
LEMMA OutStays ==
  ASSUME PhaseInv, [Next]_vars, str["out"].closed
  PROVE  /\ str'["out"].closed /\ str'["out"].err = str["out"].err /\ str'["out"].resp = str["out"].resp
         /\ str["out"].frames = <<>> => str'["out"].frames = <<>>
<1>0. /\ TypeOK /\ str \in [{"out", "top"} -> Stream] /\ Agents = 1 .. N /\ Classifier \notin Agents /\ N \in Agents
      /\ N \in 1 .. MaxAgents /\ MaxAgents \in Nat /\ AgentsOK /\ Out /\ \A a : Sole(a) => a = N
      /\ \A a \in 0 .. N : a = Classifier \/ a \in Agents
      /\ TypeInv /\ Called0 /\ Front
  BY FlowFacts DEF PhaseInv, TypeInv, TypeOK, Classifier, Sole
<1>1. ASSUME NEW a \in Agents, run[a].pc \in {"call", "read", "emit"} PROVE ~Streams(a) /\ ~Sole(a)
  <2>1. ~Merged
    BY <1>0, <1>1 DEF Out
  <2>2. a # N
    BY <1>0, <1>1, <2>1 DEF Out
  <2> QED
    BY <1>0, <2>1, <2>2 DEF Streams
<1>2. CASE UNCHANGED str
  BY <1>2
<1>3. CASE Main
  <2>1. CASE StartParallel \/ StartFirst \/ TakeRace \/ TakeText \/ TakeError \/ Synthesize
    BY <2>1 DEF StartParallel, StartFirst, TakeRace, TakeText, TakeError, Synthesize, Calling
  <2>2. CASE CloseFan \/ ReceiveEnd \/ Cancel \/ Handoff
    BY <2>2 DEF CloseFan, ReceiveEnd, Cancel, Handoff
  <2>3. CASE Receive
    BY <1>0, <2>3 DEF Receive, Read, Stream
  <2>4. CASE HandoffStart
    BY <1>0, <2>4 DEF HandoffStart, Put
  <2>5. ASSUME NEW e, HandoffFails(e) PROVE str'["out"] = str["out"]
    BY <1>0, <2>5 DEF HandoffFails, Finish
  <2>6. CASE HandoffUnknown \/ HandoffJoins \/ ForwardCancelled
    BY <2>5, <2>6 DEF HandoffUnknown, HandoffJoins, ForwardCancelled
  <2>7. CASE ForwardNext
    BY <1>0, <2>7 DEF ForwardNext, Stream
  <2>8. CASE ForwardEmit
    BY <1>0, <2>8 DEF ForwardEmit, Put
  <2>9. CASE Forwarded
    BY <1>0, <2>5, <2>9 DEF Forwarded, ForwardEnds
  <2> QED
    BY <1>3, <2>1, <2>2, <2>3, <2>4, <2>6, <2>7, <2>8, <2>9 DEF Main
<1>4. ASSUME NEW a \in 0 .. N, Step(a) PROVE str'["out"] = str["out"]
  <2>1. CASE a = Classifier
    BY <1>0, <1>4, <2>1, ClassifierSteps
  <2>2. CASE a # Classifier
    <3>0. a \in Agents /\ run[a].pc \in {"call", "read", "emit"} /\ Agent(a)
      BY <1>0, <1>4, <2>2, StepRuns DEF AgentsOK
    <3>1. ~Streams(a) /\ ~Sole(a)
      BY <1>1, <3>0
    <3>2. run[a].pc # "emit" /\ ~Merged
      BY <3>0, <3>1 DEF Agent, Streams
    <3>3. CASE Called(a) \/ NotCalled(a) \/ ReadText(a) \/ Emit(a)
      BY <3>2, <3>3 DEF Called, NotCalled, ReadText, Emit, Calling
    <3>4. ASSUME NEW e \in Error, NEW c \in BOOLEAN, Finishes(a, e, c) PROVE str'["out"] = str["out"]
      BY <2>2, <3>1, <3>2, <3>4 DEF Finishes, LoopOver, FanOver, SendsResult, StageOver, Closes
    <3> QED
      BY <1>4, <3>3, <3>4 DEF Step
  <2> QED
    BY <2>1, <2>2
<1> QED
  BY <1>2, <1>3, <1>4, Steps DEF vars

LEMMA FrontSame ==
  ASSUME PhaseInv, [Next]_vars, front' = front, run'[Classifier] = run[Classifier],
         main' = main \/ (main' # "idle" /\ main \notin {"idle", "text", "stream"})
  PROVE  Front'
<1>1. Front /\ flow' = flow
  BY SameFlow DEF PhaseInv
<1>2. front.handed /\ flow.entry = "handoff" => main' = "text" \/ (main' = "stream" /\ str'["out"].closed /\ str'["out"].frames = <<>> /\ str'["out"].err = "nil")
  BY <1>1, OutStays DEF Front
<1> QED
  BY <1>1, <1>2 DEF Front

LEMMA ClassifierKept ==
  ASSUME PhaseInv, NEW a \in Agents, Step(a)
  PROVE  run'[Classifier] = run[Classifier] /\ front' = front
<1>0. TypeOK /\ Agents = 1 .. N /\ N \in 1 .. MaxAgents /\ MaxAgents \in Nat
  BY FlowFacts DEF PhaseInv, TypeInv, TypeOK
<1>1. RunBut(a) \/ \E c \in BOOLEAN : Passes(a, c)
  BY <1>0, StepRuns
<1>2. Classifier \in 0 .. N \ {a, a + 1}
  BY <1>0 DEF Classifier
<1>3. run'[Classifier] = run[Classifier]
  BY <1>1, <1>2 DEF RunBut, Passes
<1> QED
  BY <1>3 DEF Step, Called, NotCalled, ReadText, Emit, Finishes, LoopOver, Calling

LEMMA StepFront ==
  ASSUME PhaseInv, [Next]_vars
  PROVE  Front'
<1>0. /\ TypeOK /\ flow.entry \in {"call", "handoff"} /\ Agents = 1 .. N /\ Classifier \notin Agents /\ Classifier \in 0 .. N /\ str \in [{"out", "top"} -> Stream]
      /\ N \in 1 .. MaxAgents /\ MaxAgents \in Nat /\ flow' = flow /\ Parallel \subseteq Agents /\ Front /\ Kinds /\ Called0
      /\ TypeInv /\ N # Classifier /\ run \in [0 .. MaxAgents -> Run] /\ Classifier \in 0 .. MaxAgents
      /\ \A a \in 0 .. N : a = Classifier \/ a \in Agents
  <2>1. TypeOK /\ TypeInv /\ Front /\ Kinds /\ Called0 /\ flow \in Flows
    BY DEF PhaseInv, TypeInv, TypeOK
  <2>2. str \in [{"out", "top"} -> Stream] /\ run \in [0 .. MaxAgents -> Run]
    BY <2>1 DEF TypeOK
  <2> QED
    BY <2>1, <2>2, FlowFacts, SameFlow DEF Classifier
<1>a. SUFFICES ASSUME flow.entry = "handoff" PROVE Front'
  BY <1>0 DEF Front
<1>b. run[Classifier] \in Run
  BY <1>0
<1>1. CASE Main
  <2>1. CASE StartParallel \/ StartFirst
    <3>1. front' = front /\ main' # "idle" /\ main = "start"
      BY <2>1 DEF StartParallel, StartFirst, Calling
    <3>2. run'[Classifier] = run[Classifier]
      <4>1. CASE StartParallel
        BY <1>0, <4>1 DEF StartParallel
      <4>2. CASE StartFirst
        BY <1>0, <4>2 DEF StartFirst, Asks, Classifier
      <4> QED
        BY <2>1, <4>1, <4>2
    <3> QED
      BY <3>1, <3>2, FrontSame
  <2>2. CASE TakeRace \/ TakeText \/ TakeError \/ Synthesize
    <3>1. front' = front /\ main' # "idle" /\ main = "wait"
      BY <2>2 DEF TakeRace, TakeText, TakeError, Synthesize, Decided, Arrived, Calling
    <3>2. run'[Classifier] = run[Classifier]
      <4>1. CASE Synthesize
        BY <1>0, <4>1 DEF Synthesize, Asks
      <4> QED
        BY <2>2, <4>1 DEF TakeRace, TakeText, TakeError
    <3> QED
      BY <3>1, <3>2, FrontSame
  <2>3. CASE CloseFan \/ Receive \/ ReceiveEnd \/ Cancel
    BY <2>3, FrontSame DEF CloseFan, Receive, ReceiveEnd, Cancel
  <2>4. CASE Handoff
    BY <1>0, <1>a, <2>4 DEF Handoff, InLoop, Front
  <2>5. CASE HandoffStart
    BY <1>0, <1>a, <2>5 DEF HandoffStart, Front
  <2>6. ASSUME NEW e \in Error \ {"nil"}, HandoffFails(e), front.pc # "idle", main' = main \/ main' = "idle" PROVE Front'
    <3>1. run'[Classifier] = [run[Classifier] EXCEPT !.pc = "done", !.err = e]
      BY <1>0, <2>6 DEF HandoffFails
    <3>2. run'[Classifier].pc = "done" /\ run'[Classifier].err = e /\ e # "nil"
      BY <1>b, <3>1 DEF Run
    <3>3. front'.pc = "idle" /\ front'.handed = front.handed /\ ~front.handed
      <4>1. front \in [pc : {"idle", "start", "join", "forward", "emit"}, held : Frame, handed : BOOLEAN]
        BY <1>0 DEF TypeOK
      <4> QED
        BY <1>0, <1>a, <2>6, <4>1 DEF HandoffFails, Front
    <3> QED
      BY <1>0, <3>2, <3>3 DEF Front
  <2>7. CASE HandoffUnknown
    BY <2>6, <2>7 DEF HandoffUnknown, Error
  <2>8. CASE HandoffJoins
    <3>0. front \in [pc : {"idle", "start", "join", "forward", "emit"}, held : Frame, handed : BOOLEAN]
      BY <1>0 DEF TypeOK
    <3>1. CASE main = "failed"
      BY <2>6, <2>8, <3>1 DEF HandoffJoins, Error
    <3>2. CASE main = "stream"
      BY <1>0, <1>a, <2>8, <3>0, <3>2 DEF HandoffJoins, Front
    <3>3. CASE main = "text"
      BY <1>0, <1>a, <2>8, <3>0, <3>3 DEF HandoffJoins, Front
    <3> QED
      BY <2>8, <3>1, <3>2, <3>3 DEF HandoffJoins
  <2>9. CASE ForwardCancelled
    BY <2>6, <2>9 DEF ForwardCancelled, Error
  <2>10. CASE ForwardNext \/ ForwardEmit
    <3>1. main = "stream" /\ ~front.handed /\ run[Classifier].pc = "read"
      BY <1>0, <1>a, <2>10 DEF ForwardNext, ForwardEmit, Front
    <3>2. UNCHANGED <<main, run>> /\ front'.pc \in {"forward", "emit"} /\ front'.handed = front.handed
      BY <2>10, <1>0 DEF ForwardNext, ForwardEmit, TypeOK
    <3> QED
      BY <3>1, <3>2 DEF Front
  <2>11. CASE Forwarded
    <3>0. str["out"].err \in Error
      BY <1>0 DEF Stream
    <3>1. CASE str["out"].err # "nil"
      BY <2>6, <2>11, <3>0, <3>1 DEF Forwarded, ForwardEnds
    <3>2. CASE str["out"].err = "nil"
      <4>1. main = "stream" /\ run[Classifier].pc = "read"
        BY <1>0, <1>a, <2>11 DEF Forwarded, Front
      <4>2. UNCHANGED <<main, run>> /\ front'.pc = "idle" /\ front'.handed = TRUE
        BY <2>11, <3>2, <1>0 DEF Forwarded, ForwardEnds, TypeOK
      <4>3. str'["out"].closed /\ str'["out"].frames = <<>> /\ str'["out"].err = "nil"
        BY <2>11, <3>2, OutStays DEF Forwarded
      <4> QED
        BY <4>1, <4>2, <4>3 DEF Front
    <3> QED
      BY <3>1, <3>2
  <2> QED
    BY <1>1, <2>1, <2>2, <2>3, <2>4, <2>5, <2>7, <2>8, <2>9, <2>10, <2>11 DEF Main
<1>2. ASSUME NEW a \in 0 .. N, Step(a) PROVE Front'
  <2>1. CASE a = Classifier
    <3>1. /\ front.pc = "idle" /\ front' = front /\ main' = main /\ run[Classifier].pc \in {"read", "emit"}
          /\ str'["out"] = str["out"]
      BY <1>0, <1>2, <2>1, ClassifierSteps
    <3>2. run'[Classifier].pc \in {"read", "emit", "done"}
      <4>1. Goes(Classifier)
        BY <1>0, <1>2, <2>1, StepRuns
      <4> QED
        BY <1>b, <4>1 DEF Goes, Ends, Run
    <3> QED
      BY <1>0, <1>a, <3>1, <3>2 DEF Front
  <2>2. CASE a # Classifier
    <3>1. a \in Agents /\ run'[Classifier] = run[Classifier] /\ front' = front
      BY <1>0, <1>2, <2>2, ClassifierKept
    <3>2. main' = main \/ (main' # "idle" /\ main = "wait")
      <4>1. CASE Called(a) \/ NotCalled(a)
        BY <1>0, <4>1 DEF Called, NotCalled, Sole, Kinds
      <4>2. CASE ReadText(a) \/ Emit(a)
        BY <4>2 DEF ReadText, Emit
      <4>3. ASSUME NEW e \in Error, NEW c \in BOOLEAN, Finishes(a, e, c) PROVE main' = main \/ (main' # "idle" /\ main = "wait")
        <5>1. CASE StageOver(a, e, c)
          <6>1. flow.kind = "sequence" /\ a \in 1 .. N - 1 /\ run[a].pc \in {"call", "read", "emit"}
            BY <1>0, <4>3, <5>1 DEF StageOver, Finishes
          <6>2. main = "wait"
            BY <1>0, <6>1 DEF Kinds
          <6> QED
            BY <5>1, <6>2 DEF StageOver
        <5>2. CASE ~StageOver(a, e, c)
          BY <4>3, <5>2 DEF Finishes, LoopOver, FanOver, SendsResult, Closes
        <5> QED
          BY <5>1, <5>2
      <4> QED
        BY <1>2, <4>1, <4>2, <4>3 DEF Step
    <3> QED
      BY <3>1, <3>2, FrontSame
  <2> QED
    BY <2>1, <2>2
<1> QED
  BY <1>1, <1>2, Steps, FrontSame DEF vars

Active(a) == run[a].pc \in {"call", "read", "emit"}

\* No more than one stage of a Sequence is active.
LEMMA OneStage ==
  ASSUME PhaseInv, flow.kind = "sequence", NEW a \in Agents, Active(a)
  PROVE  /\ \A b \in 1 .. N - 1 : b # a => ~Active(b)
         /\ a # N => main = "wait" /\ \A b \in a + 1 .. N : run[b].pc = "idle"
<1>0. Agents = 1 .. N /\ N \in Nat /\ N >= 1 /\ Kinds
  BY FlowFacts DEF PhaseInv, TypeInv, TypeOK
<1>1. ASSUME NEW b \in 1 .. N - 1, b # a, Active(b) PROVE FALSE
  <2>1. b < a \/ a < b
    BY <1>0, <1>1
  <2>2. CASE b < a
    <3>1. a \in b + 1 .. N
      BY <1>0, <2>2
    <3>2. run[a].pc = "idle"
      BY <1>0, <1>1, <3>1 DEF Kinds, Active
    <3> QED
      BY <3>2 DEF Active
  <2>3. CASE a < b
    <3>1. b \in a + 1 .. N /\ a \in 1 .. N - 1
      BY <1>0, <2>3
    <3>2. run[b].pc = "idle"
      BY <1>0, <3>1 DEF Kinds, Active
    <3> QED
      BY <1>1, <3>2 DEF Active
  <2> QED
    BY <2>1, <2>2, <2>3
<1>2. ASSUME a # N PROVE main = "wait" /\ \A b \in a + 1 .. N : run[b].pc = "idle"
  <2>1. a \in 1 .. N - 1
    BY <1>0, <1>2
  <2> QED
    BY <1>0, <2>1 DEF Kinds, Active
<1> QED
  BY <1>1, <1>2

\* When the synthesizer of FanThen has been asked nothing is left to collect.
LEMMA SynthesizerLast ==
  ASSUME PhaseInv, flow.kind = "fan_then", coll.results # <<>>
  PROVE  run[N].pc = "idle" /\ coll.taken < N - 1
<1>0. /\ Kinds /\ Collected /\ flow \in Flows /\ coll.results \in Seq([by : Agents, err : Error]) /\ coll.taken \in 0 .. N
  BY DEF PhaseInv, TypeInv, TypeOK
<1>1. N \in Nat /\ N >= 1 /\ Agents = 1 .. N
  BY <1>0, FlowFacts
<1>2. Len(coll.results) >= 1 /\ Len(coll.results) \in Nat
  BY <1>0
<1>3. ~Merged /\ Over1 \subseteq 1 .. N - 1
  BY <1>1 DEF Merged, Over1, Parallel
<1>4. Cardinality(Over1) <= N - 1 /\ Cardinality(Over1) \in Nat
  <2>1. IsFiniteSet(1 .. N - 1) /\ Cardinality(1 .. N - 1) = N - 1
    BY <1>1, FS_Interval
  <2> QED
    BY <1>3, <2>1, FS_Subset, FS_CardinalityType
<1>5. coll.taken < N - 1
  BY <1>0, <1>1, <1>2, <1>3, <1>4 DEF Collected
<1> QED
  BY <1>0, <1>5, <1>1 DEF Kinds

\* What an agent's step does to the call of the workflow.
MainGoes(a) ==
  \/ main' = main /\ (Sole(a) => run[a].pc \in {"read", "emit"} /\ run'[a].pc \in {"read", "emit", "done"})
  \/ Sole(a) /\ run[a].pc = "call" /\ main' = "stream" /\ run'[a].pc = "read"
  \/ Sole(a) /\ run[a].pc = "call" /\ main' = "failed" /\ run'[a].pc = "done"
  \/ flow.kind = "sequence" /\ ~Sole(a) /\ main' = "failed" /\ run'[a].pc = "done"

LEMMA AgentMain ==
  ASSUME TypeOK, NEW a \in Agents, Step(a)
  PROVE  MainGoes(a)
<1>0. run[a] \in Run /\ a \in 0 .. N
  BY FlowFacts DEF TypeOK
<1>1. CASE Called(a)
  <2>1. run[a].pc = "call" /\ run'[a].pc = "read"
    BY <1>0, <1>1, FlowFacts DEF Called, TypeOK
  <2> QED
    BY <1>1, <2>1 DEF Called, MainGoes
<1>2. CASE NotCalled(a)
  <2>1. run'[a].pc = "done"
    BY <1>0, <1>2, FlowFacts DEF NotCalled, Over, TypeOK, Run
  <2> QED
    BY <1>2, <2>1 DEF NotCalled, MainGoes
<1>3. CASE ReadText(a)
  <2>1. run[a].pc = "read" /\ run'[a].pc \in {"read", "emit"}
    BY <1>0, <1>3, FlowFacts DEF ReadText, InLoop, TypeOK, Run
  <2> QED
    BY <1>3, <2>1 DEF ReadText, MainGoes
<1>4. CASE Emit(a)
  <2>1. run[a].pc = "emit" /\ run'[a].pc = "read"
    BY <1>0, <1>4, FlowFacts DEF Emit, TypeOK, Run
  <2> QED
    BY <1>4, <2>1 DEF Emit, MainGoes
<1>5. ASSUME NEW e \in Error, NEW c \in BOOLEAN, Finishes(a, e, c) PROVE MainGoes(a)
  <2>1. run'[a].pc = "done"
    BY <1>0, <1>5, EndRuns DEF Ends
  <2>2. Sole(a) => run[a].pc \in {"read", "emit"}
    BY <1>5 DEF Finishes
  <2>3. CASE StageOver(a, e, c)
    BY <2>1, <2>2, <2>3 DEF StageOver, MainGoes, Sole
  <2>4. CASE ~StageOver(a, e, c)
    <3>1. main' = main
      BY <1>5, <2>4 DEF Finishes, LoopOver, FanOver, SendsResult, Closes
    <3> QED
      BY <2>1, <2>2, <3>1 DEF MainGoes
  <2> QED
    BY <2>3, <2>4
<1> QED
  BY <1>1, <1>2, <1>3, <1>4, <1>5 DEF Step

LEMMA AgentTaken ==
  ASSUME TypeOK, NEW a \in Agents, Step(a)
  PROVE  coll'.taken = coll.taken /\ coll'.texts = coll.texts /\ coll'.win = coll.win
<1>1. CASE Called(a) \/ NotCalled(a) \/ ReadText(a) \/ Emit(a)
  BY <1>1 DEF Called, NotCalled, ReadText, Emit
<1>2. ASSUME NEW e \in Error, NEW c \in BOOLEAN, Finishes(a, e, c) PROVE coll'.taken = coll.taken /\ coll'.texts = coll.texts /\ coll'.win = coll.win
  <2>1. CASE SendsResult(a, e, c)
    <3>1. coll \in [results : Seq([by : Agents, err : Error]), taken : 0 .. N, texts : [Agents -> 0 .. N], win : 0 .. N]
      BY DEF TypeOK
    <3>2. coll' = [coll EXCEPT !.results = Append(coll.results, [by |-> a, err |-> e])]
      BY <2>1 DEF SendsResult
    <3> QED
      BY ONLY <3>1, <3>2
  <2>2. CASE ~SendsResult(a, e, c)
    BY <1>2, <2>2 DEF Finishes, LoopOver, FanOver, StageOver, Closes
  <2> QED
    BY <2>1, <2>2
<1> QED
  BY <1>1, <1>2 DEF Step

LEMMA StepKinds ==
  ASSUME PhaseInv, [Next]_vars
  PROVE  Kinds'
<1>0. /\ flow.kind \in {"fan", "race", "sequence", "fan_then", "agent"} /\ flow.entry \in {"call", "handoff"}
      /\ Agents = 1 .. N /\ N \in Agents /\ N \in 1 .. MaxAgents /\ MaxAgents \in Nat /\ Parallel \subseteq Agents
      /\ N # Classifier /\ Classifier \in 0 .. N /\ (\A a \in 0 .. N : a = Classifier \/ a \in Agents) /\ Agents \subseteq 0 .. N
      /\ TypeOK /\ Kinds /\ Fresh /\ Front /\ Called0
  <2>1. TypeOK /\ flow \in Flows /\ Kinds /\ Fresh /\ Front /\ Called0
    BY DEF PhaseInv, TypeInv, TypeOK
  <2> QED
    BY <2>1, FlowFacts DEF Classifier
<1>a. flow' = flow /\ N' = N /\ Agents' = Agents /\ (Merged' <=> Merged)
  BY <1>0, Fixed
<1>b. \A a \in 0 .. N : run[a] \in Run
  BY <1>0 DEF TypeOK
<1>c. run \in [0 .. MaxAgents -> Run] /\ Agents \subseteq 0 .. MaxAgents
  BY <1>0 DEF TypeOK
<1>1. ASSUME \A a \in Agents : run'[a] = run[a], coll'.taken = coll.taken, main' = main PROVE Kinds'
  BY <1>0, <1>a, <1>1 DEF Kinds, Unstarted
<1>2. ASSUME \A a \in Agents : run'[a] = run[a], coll'.taken = coll.taken, Unstarted, Unstarted' PROVE Kinds'
  BY <1>0, <1>a, <1>2 DEF Kinds, Fresh, Unstarted
<1>3. CASE Main
  <2>1. CASE StartParallel
    <3>0. main' = IF Merged THEN "stream" ELSE "wait"
      BY <2>1 DEF StartParallel
    <3>1. \A a \in Agents : run[a].pc = "idle" /\ run[a] \in Run
      BY <1>0, <1>b, <2>1 DEF StartParallel, Fresh, Unstarted
    <3>2. \A a \in Agents : run'[a].pc = IF a \in Parallel THEN "call" ELSE "idle"
      <4>1. \A a \in Agents : run'[a] = IF a \in Parallel THEN [run[a] EXCEPT !.pc = "call"] ELSE run[a]
        BY <1>0, <2>1 DEF StartParallel
      <4> QED
        BY <3>1, <4>1 DEF Run
    <3>3. CASE Merged
      BY <1>0, <1>a, <3>0, <3>2, <3>3, <2>1 DEF Kinds, StartParallel, Merged, Parallel
    <3>4. CASE ~Merged
      <4>1. flow.kind \in {"race", "fan_then"} /\ (flow.kind = "fan_then" => N \notin Parallel)
        BY <2>1, <3>4 DEF StartParallel, Merged, Parallel
      <4> QED
        BY <1>0, <1>a, <3>0, <3>2, <3>4, <4>1 DEF Kinds
    <3> QED
      BY <3>3, <3>4
  <2>2. CASE StartFirst
    <3>1. \A a \in Agents : run[a].pc = "idle" /\ run[a] \in Run
      BY <1>0, <1>b, <2>2 DEF StartFirst, Fresh, Unstarted
    <3> DEFINE b == IF flow.kind = "agent" THEN N ELSE 1
    <3>2. b \in Agents /\ (flow.kind = "sequence" => b = 1) /\ (flow.kind = "agent" => b = N)
      BY <1>0
    <3>3. run' = [run EXCEPT ![b].pc = "call"] /\ main' = "wait" /\ flow.kind \in {"sequence", "agent"}
      BY <2>2 DEF StartFirst, Asks
    <3> HIDE DEF b
    <3>4. \A a \in Agents : run'[a].pc = IF a = b THEN "call" ELSE "idle"
      <4>1. run'[b].pc = "call"
        BY <1>c, <3>2, <3>3
      <4>2. \A a \in Agents : a # b => run'[a] = run[a]
        BY <1>c, <3>2, <3>3
      <4> QED
        BY <3>1, <4>1, <4>2
    <3>5. ~Merged
      BY <3>3 DEF Merged
    <3> QED
      BY <1>0, <1>a, <3>2, <3>3, <3>4, <3>5 DEF Kinds
  <2>3. CASE TakeRace
    BY <1>0, <1>a, <2>3 DEF TakeRace, Arrived, Decided, Kinds, Merged
  <2>4. CASE TakeText \/ TakeError
    <3>1. run[N].pc = "idle" /\ flow.kind = "fan_then" /\ run' = run /\ main' \in {"wait", "failed"} /\ main = "wait"
      BY <2>4, SynthesizerLast DEF TakeText, TakeError, Arrived
    <3> QED
      BY <1>0, <1>a, <3>1 DEF Kinds, Merged
  <2>5. CASE Synthesize
    <3>1. run'[N].pc = "call" /\ flow.kind = "fan_then" /\ main' = "wait" /\ coll'.taken = N - 1
      BY <1>0, <1>b, <2>5 DEF Synthesize, Asks, TypeOK, Run
    <3> QED
      BY <1>0, <1>a, <3>1 DEF Kinds, Merged
  <2>6. CASE CloseFan \/ Receive \/ ReceiveEnd \/ Cancel
    BY <1>1, <2>6 DEF CloseFan, Receive, ReceiveEnd, Cancel
  <2>7. CASE Handoff \/ ForwardNext \/ ForwardEmit
    BY <1>1, <2>7 DEF Handoff, ForwardNext, ForwardEmit, Splicing
  <2>8. CASE HandoffStart
    <3>1. Unstarted /\ Unstarted'
      BY <1>0, <2>8 DEF HandoffStart, Front, Called0, Unstarted
    <3> QED
      BY <1>2, <2>8, <3>1 DEF HandoffStart, Splicing
  <2>9. CASE HandoffUnknown \/ HandoffJoins \/ ForwardCancelled \/ Forwarded
    <3>1. \A a \in Agents : run'[a] = run[a]
      <4>1. ASSUME NEW e, HandoffFails(e), NEW a \in Agents PROVE run'[a] = run[a]
        BY <1>0, <1>c, <4>1 DEF HandoffFails
      <4> QED
        BY <2>9, <4>1 DEF HandoffUnknown, HandoffJoins, ForwardCancelled, Forwarded, ForwardEnds
    <3>2. coll' = coll
      BY <2>9 DEF HandoffUnknown, HandoffJoins, ForwardCancelled, Forwarded, Splicing
    <3>3. main' = main \/ (Unstarted /\ Unstarted')
      BY <2>9 DEF HandoffUnknown, HandoffJoins, ForwardCancelled, Forwarded, Unstarted
    <3> QED
      BY <1>1, <1>2, <3>1, <3>2, <3>3
  <2> QED
    BY <1>3, <2>1, <2>2, <2>3, <2>4, <2>5, <2>6, <2>7, <2>8, <2>9 DEF Main
<1>4. ASSUME NEW a \in 0 .. N, Step(a) PROVE Kinds'
  <2>1. CASE a = Classifier
    <3>1. main' = main /\ coll' = coll /\ RunBut(Classifier)
      BY <1>0, <1>4, <2>1, ClassifierSteps DEF PhaseInv
    <3> QED
      BY <1>0, <1>1, <3>1 DEF RunBut, Classifier
  <2>2. CASE a \in Agents
    <3>0. Active(a) /\ (RunBut(a) \/ \E c \in BOOLEAN : Passes(a, c)) /\ Goes(a) /\ run[a] \in Run
      BY <1>0, <1>4, StepRuns DEF Active
    <3>1. coll'.taken = coll.taken /\ MainGoes(a)
      BY <1>0, <1>4, <2>2, AgentMain, AgentTaken
    <3>2. run'[a].pc # "idle" /\ run[a].pc # "idle"
      BY <3>0 DEF Goes, Ends, Run, Active
    <3>3. CASE flow.kind \in {"fan", "race", "fan_then", "agent"} /\ ~Sole(a)
      <4>1. RunBut(a) /\ main' = main
        BY <3>0, <3>1, <3>3 DEF Passes, MainGoes
      <4> QED
        BY <1>0, <1>a, <3>1, <3>2, <3>3, <4>1 DEF Kinds, RunBut, Unstarted, Merged, Sole
    <3>4. CASE Sole(a)
      <4>1. a = N /\ flow.kind \in {"sequence", "fan_then", "agent"} /\ RunBut(a) /\ ~Merged /\ flow.kind # "race"
        <5>1. a = N /\ flow.kind \in {"sequence", "fan_then", "agent"}
          BY <3>4 DEF Sole
        <5>2. a \notin 1 .. N - 1
          BY <1>0, <5>1
        <5>3. RunBut(a)
          BY <3>0, <5>2 DEF Passes
        <5> QED
          BY <5>1, <5>3 DEF Merged
      <4>2. flow.kind = "sequence" => \A b \in 1 .. N - 1 : ~(run'[b].pc \in {"call", "read", "emit"})
        <5>1. ASSUME flow.kind = "sequence", NEW b \in 1 .. N - 1 PROVE run'[b] = run[b] /\ ~Active(b)
          BY <1>0, <3>0, <4>1, <5>1, OneStage DEF RunBut
        <5> QED
          BY <5>1 DEF Active
      <4>3. main' # "text"
        BY <1>0, <3>1, <4>1 DEF MainGoes, Kinds
      <4>4. CASE main' = "stream" /\ run'[a].pc \in {"read", "emit", "done"}
        BY <1>0, <1>a, <3>1, <3>2, <4>1, <4>2, <4>4 DEF Kinds
      <4>5. CASE run'[a].pc = "done" /\ main' = "failed"
        BY <1>0, <1>a, <3>1, <3>2, <4>1, <4>2, <4>5 DEF Kinds
      <4> QED
        BY <1>0, <3>1, <3>4, <4>1, <4>4, <4>5 DEF MainGoes, Kinds
    <3>5. CASE flow.kind = "sequence" /\ ~Sole(a)
      <4>1. a # N /\ a \in 1 .. N - 1 /\ N \in Nat
        BY <1>0, <2>2, <3>5 DEF Sole
      <4>2. main = "wait" /\ (\A b \in a + 1 .. N : run[b].pc = "idle") /\ \A b \in 1 .. N - 1 : b # a => ~(run[b].pc \in {"call", "read", "emit"})
        BY <1>0, <3>0, <3>5, <4>1, OneStage DEF Active
      <4>3. ~Merged /\ main' \in {"wait", "failed"}
        BY <3>1, <3>5, <4>2 DEF Merged, MainGoes
      <4>4. CASE RunBut(a)
        <5>1. run'[N].pc = "idle" /\ \A b \in 1 .. N : b # a => run'[b] = run[b]
          BY <1>0, <4>1, <4>2, <4>4 DEF RunBut
        <5>2. \A b \in 1 .. N - 1 : run'[b].pc \in {"call", "read", "emit"} => b = a
          BY <4>1, <4>2, <5>1
        <5>3. run'[a].pc \in {"call", "read", "emit"} => main' = "wait"
          BY <3>1, <3>5, <4>2 DEF MainGoes
        <5>4. \A b \in a + 1 .. N : run'[b].pc = "idle"
          BY <4>1, <4>2, <5>1
        <5> QED
          BY <1>0, <1>a, <3>5, <4>3, <5>1, <5>2, <5>3, <5>4 DEF Kinds
      <4>5. ASSUME NEW c \in BOOLEAN, Passes(a, c) PROVE Kinds'
        <5>1. run'[a].pc = "done" /\ run'[a + 1].pc = "call" /\ \A b \in 0 .. N \ {a, a + 1} : run'[b] = run[b]
          BY <1>b, <3>0, <4>5 DEF Passes, Run
        <5>2. main' = "wait"
          BY <4>2, <4>5 DEF Passes, StageOver
        <5>3. \A b \in 1 .. N - 1 : run'[b].pc \in {"call", "read", "emit"} => b = a + 1
          BY <4>1, <4>2, <5>1
        <5>4. \A b \in a + 2 .. N : run'[b].pc = "idle"
          BY <4>1, <4>2, <5>1
        <5>5. run'[N].pc \in {"idle", "call"}
          BY <4>1, <4>2, <5>1
        <5>6. \A b \in 1 .. N - 1 : run'[b].pc \in {"call", "read", "emit"} => main' = "wait" /\ \A d \in b + 1 .. N : run'[d].pc = "idle"
          BY <4>1, <5>2, <5>3, <5>4
        <5> QED
          BY <1>0, <1>a, <3>5, <4>3, <5>2, <5>5, <5>6 DEF Kinds
      <4> QED
        BY <3>0, <4>4, <4>5
    <3> QED
      BY <1>0, <3>3, <3>4, <3>5
  <2> QED
    BY <1>0, <2>1, <2>2
<1> QED
  BY <1>1, <1>3, <1>4, Steps DEF vars


(***************************************************************************)
(* The stream of the workflow.                                             *)
(***************************************************************************)
\* The facts that the proofs about a step start from.
LEMMA Phase ==
  ASSUME PhaseInv, [Next]_vars
  PROVE  /\ TypeOK /\ TypeInv /\ AgentsOK /\ Fresh /\ Called0 /\ Front /\ Kinds /\ Out /\ Errors /\ Top /\ Got
         /\ flow.kind \in {"fan", "race", "sequence", "fan_then", "agent"} /\ flow.entry \in {"call", "handoff"}
         /\ Agents = 1 .. N /\ N \in Agents /\ N \in 1 .. MaxAgents /\ MaxAgents \in Nat /\ Parallel \subseteq Agents
         /\ N # Classifier /\ Classifier \in 0 .. N /\ (\A a \in 0 .. N : a = Classifier \/ a \in Agents) /\ Agents \subseteq 0 .. N
         /\ 0 .. N \subseteq 0 .. MaxAgents /\ Classifier \notin Agents
         /\ str \in [{"out", "top"} -> Stream] /\ run \in [0 .. MaxAgents -> Run]
         /\ flow' = flow /\ N' = N /\ Agents' = Agents /\ (Merged' <=> Merged) /\ Read' = Read
         /\ (Merged <=> flow.kind = "fan")
<1>1. TypeOK /\ TypeInv /\ AgentsOK /\ Fresh /\ Called0 /\ Front /\ Kinds /\ Out /\ Errors /\ Top /\ Got
  BY DEF PhaseInv, TypeInv
<1>2. flow \in Flows /\ str \in [{"out", "top"} -> Stream] /\ run \in [0 .. MaxAgents -> Run]
  BY <1>1 DEF TypeOK
<1>3. flow' = flow /\ N' = N /\ Agents' = Agents /\ (Merged' <=> Merged) /\ Read' = Read
  BY <1>1, Fixed
<1> QED
  BY <1>1, <1>2, <1>3, FlowFacts DEF Classifier, Merged

\* resolveHandoff's failures write its own stream only.
LEMMA FailsAside ==
  ASSUME TypeOK, NEW e, HandoffFails(e)
  PROVE  /\ str'["out"] = str["out"] /\ \A a \in Agents : run'[a] = run[a]
         /\ str'["top"] = [str["top"] EXCEPT !.closed = TRUE, !.err = e]
         /\ run'[Classifier] = [run[Classifier] EXCEPT !.pc = "done", !.err = e]
<1>1. str \in [{"out", "top"} -> Stream] /\ run \in [0 .. MaxAgents -> Run] /\ Agents \subseteq 0 .. MaxAgents /\ Classifier \notin Agents /\ Classifier \in 0 .. MaxAgents
  BY FlowFacts DEF TypeOK, Classifier
<1>2. run' = [run EXCEPT ![Classifier].pc = "done", ![Classifier].err = e] /\ Finish("top", e)
  BY DEF HandoffFails
<1> QED
  BY <1>1, <1>2 DEF Finish

\* An agent's own stream does not reach the workflow's, unless the workflow passes it on.
LEMMA CollectedAside ==
  ASSUME TypeOK, AgentsOK, NEW a \in Agents, Step(a), ~Streams(a)
  PROVE  str' = str
<1>1. a \in 0 .. N /\ run[a].pc # "emit" /\ a # Classifier
  BY FlowFacts DEF TypeOK, AgentsOK, Agent, Classifier
<1>2. CASE Called(a) \/ NotCalled(a) \/ ReadText(a) \/ Emit(a)
  BY <1>1, <1>2 DEF Called, NotCalled, ReadText, Emit, Calling
<1>3. ASSUME NEW e \in Error, NEW c \in BOOLEAN, Finishes(a, e, c) PROVE str' = str
  BY <1>1, <1>3 DEF Finishes, LoopOver, FanOver, SendsResult, StageOver, Closes, Streams
<1> QED
  BY <1>2, <1>3 DEF Step

\* The sole agent writes the workflow's stream, and closes it.
SoleEmits(a) ==
  /\ run'[a].pc = "read" /\ Room("out")
  /\ str' = [str EXCEPT !["out"].frames = Append(str["out"].frames, Text(a, run[a].n))]
SoleCloses(a, e, c) ==
  /\ run'[a].pc = "done" /\ run'[a].err = e /\ run'[a].cut = c /\ (c => Stopped(a))
  /\ str' = [str EXCEPT !["out"].closed = TRUE, !["out"].err = e, !["out"].resp = IF e = "nil" /\ ~c THEN a ELSE str["out"].resp]

LEMMA SoleWrites ==
  ASSUME PhaseInv, [Next]_vars, NEW a \in Agents, Step(a), Sole(a)
  PROVE  \/ str' = str /\ run'[a].pc # "done"
         \/ NotCalled(a) /\ str' = str
         \/ Emit(a) /\ SoleEmits(a)
         \/ \E e \in Error, c \in BOOLEAN : Closes(a, e, c) /\ SoleCloses(a, e, c)
<1>0. /\ TypeOK /\ a \in 0 .. N /\ a # Classifier /\ str \in [{"out", "top"} -> Stream] /\ run[a] \in Run /\ To(a) = "out" /\ run \in [0 .. MaxAgents -> Run]
      /\ a \in 0 .. MaxAgents
  BY Phase DEF To
<1>1. CASE Called(a)
  BY <1>0, <1>1 DEF Called, Calling
<1>2. CASE NotCalled(a)
  BY <1>2 DEF NotCalled, Calling
<1>3. CASE ReadText(a)
  <2>1. run'[a].pc # "done"
    BY <1>0, <1>3 DEF ReadText, InLoop, Run
  <2> QED
    BY <1>3, <2>1 DEF ReadText, Calling
<1>4. CASE Emit(a)
  BY <1>0, <1>4 DEF Emit, Put, SoleEmits
<1>5. ASSUME NEW e \in Error, NEW c \in BOOLEAN, Finishes(a, e, c)
      PROVE  Closes(a, e, c) /\ SoleCloses(a, e, c)
  <2>1. Closes(a, e, c) /\ (c => Stopped(a))
    BY <1>0, <1>5, FlowFacts DEF Finishes, LoopOver, FanOver, SendsResult, StageOver, Merged, Sole, TypeOK
  <2>2. run'[a].pc = "done" /\ run'[a].err = e /\ run'[a].cut = c
    BY <1>0, <2>1 DEF Closes, Over, Run
  <2>3. Answers(a) = a
    BY <1>0 DEF Answers
  <2> QED
    BY <1>0, <2>1, <2>2, <2>3 DEF Closes, SoleCloses
<1> QED
  BY <1>1, <1>2, <1>3, <1>4, <1>5 DEF Step

LEMMA StepOut ==
  ASSUME PhaseInv, [Next]_vars
  PROVE  Out'
<1> DEFINE o == str["out"]
<1>0. flow' = flow /\ N' = N /\ Agents' = Agents /\ (Merged' <=> Merged) /\ Out /\ TypeOK
  BY Phase
<1>t. o \in Stream /\ TypeInv /\ Called0 /\ Front
  BY Phase
<1>1. ASSUME str'["out"] = o, main # "stream", main' # "stream", ~Merged PROVE Out'
  BY <1>0, <1>1 DEF Out
<1>2. ASSUME Merged, ~str'["out"].closed PROVE Out'
  BY <1>0, <1>2 DEF Out
<1>3. ASSUME main' = main, Merged => (\A a \in Agents : run'[a] = run[a]), run'[N] = run[N], fan' = fan,
             str'["out"].closed = o.closed, str'["out"].err = o.err, str'["out"].resp = o.resp,
             str'["out"].frames # <<>> => o.frames # <<>>
      PROVE Out'
  BY <1>0, <1>3 DEF Out
<1>4. ASSUME Unstarted, Unstarted', str'["out"] = o PROVE Out'
  <2>1. ~o.closed
    BY <1>4, Phase DEF Fresh, NewStream
  <2> QED
    BY <1>1, <1>2, <1>4, <2>1 DEF Unstarted
<1>5. CASE Main
  <2>1. CASE StartParallel \/ StartFirst
    <3>1. Unstarted /\ str' = str /\ (~Merged => main' # "stream")
      BY <2>1 DEF StartParallel, StartFirst, Unstarted, Calling
    <3>2. ~o.closed
      BY <3>1, Phase DEF Fresh, NewStream
    <3> QED
      BY <1>1, <1>2, <3>1, <3>2 DEF Unstarted
  <2>2. CASE TakeRace \/ TakeText \/ TakeError \/ Synthesize
    <3>1. main = "wait" /\ ~Merged /\ str' = str /\ main' # "stream"
      BY <2>2 DEF TakeRace, TakeText, TakeError, Synthesize, Arrived, Decided, Calling, Merged
    <3> QED
      BY <1>1, <3>1
  <2>3. CASE CloseFan
    <3>1. str'["out"] = [o EXCEPT !.closed = TRUE, !.err = fan.first]
      BY <2>3, Phase DEF CloseFan, Finish
    <3>2. str'["out"].err = fan.first
      BY <1>t, <3>1 DEF Stream
    <3> QED
      BY <1>0, <2>3, <3>2 DEF CloseFan, Out
  <2>4. CASE Receive
    <3>1. \/ str'["out"] = o
          \/ str'["out"] = [o EXCEPT !.frames = Tail(o.frames)] /\ o.frames # <<>>
      BY <2>4, Phase DEF Receive, Read
    <3> QED
      BY <1>t, <1>3, <2>4, <3>1 DEF Receive, Stream
  <2>5. CASE ReceiveEnd \/ Cancel \/ Handoff
    BY <1>3, <2>5 DEF ReceiveEnd, Cancel, Handoff, Splicing
  <2>6. CASE HandoffStart
    <3>1. Unstarted /\ Unstarted' /\ str'["out"] = o
      BY <2>6, Phase DEF HandoffStart, Front, Called0, Unstarted, Put
    <3> QED
      BY <1>4, <3>1
  <2>7. CASE HandoffUnknown
    <3>1. Unstarted /\ Unstarted' /\ str'["out"] = o
      BY <1>0, <2>7, FailsAside DEF HandoffUnknown, Unstarted
    <3> QED
      BY <1>4, <3>1
  <2>8. ASSUME NEW e, HandoffFails(e), main' = main, fan' = fan PROVE Out'
    BY <1>0, <1>3, <2>8, FailsAside, Phase
  <2>9. CASE HandoffJoins
    <3>1. main' = main /\ fan' = fan /\ (HandoffFails("call") \/ UNCHANGED <<run, str>>)
      BY <2>9 DEF HandoffJoins, Splicing
    <3> QED
      BY <1>3, <2>8, <3>1
  <2>10. CASE ForwardCancelled
    BY <2>8, <2>10 DEF ForwardCancelled, Splicing
  <2>11. CASE ForwardNext
    <3>1. str'["out"] = [o EXCEPT !.frames = Tail(o.frames)] /\ o.frames # <<>>
      BY <2>11, Phase DEF ForwardNext
    <3> QED
      BY <1>t, <1>3, <2>11, <3>1 DEF ForwardNext, Splicing, Stream
  <2>12. CASE ForwardEmit
    <3>1. str'["out"] = o
      BY <2>12, Phase DEF ForwardEmit, Put
    <3> QED
      BY <1>3, <2>12, <3>1 DEF ForwardEmit, Splicing
  <2>13. CASE Forwarded
    <3>1. CASE o.err # "nil"
      BY <2>8, <2>13, <3>1 DEF Forwarded, ForwardEnds, Splicing
    <3>2. CASE o.err = "nil"
      <4>1. str'["out"] = o
        BY <2>13, <3>2, Phase DEF Forwarded, ForwardEnds
      <4> QED
        BY <1>3, <2>13, <3>2, <4>1 DEF Forwarded, ForwardEnds, Splicing
    <3> QED
      BY <3>1, <3>2
  <2> QED
    BY <1>5, <2>1, <2>2, <2>3, <2>4, <2>5, <2>6, <2>7, <2>9, <2>10, <2>11, <2>12, <2>13 DEF Main
<1>6. ASSUME NEW a \in 0 .. N, Step(a) PROVE Out'
  <2>1. CASE a = Classifier
    <3>1. main' = main /\ fan' = fan /\ str'["out"] = o /\ \A b \in Agents : run'[b] = run[b]
      BY <1>t, <1>6, <2>1, ClassifierSteps, Phase DEF RunBut
    <3> QED
      BY <1>3, <3>1, Phase
  <2>2. CASE a \in Agents /\ Merged
    <3>1. ~o.closed
      BY <1>0, <1>6, <2>2, StepRuns DEF Out
    <3>2. str'["out"].closed = o.closed
      <4>1. CASE Emit(a)
        BY <1>t, <2>2, <4>1, Phase DEF Emit, Put, To, Stream
      <4>2. CASE Called(a) \/ NotCalled(a) \/ ReadText(a)
        BY <4>2 DEF Called, NotCalled, ReadText, Calling
      <4>3. ASSUME NEW e \in Error, NEW c \in BOOLEAN, Finishes(a, e, c) PROVE str' = str
        BY <2>2, <4>3, Phase DEF Finishes, LoopOver, FanOver, SendsResult, StageOver, Closes, Sole, Merged
      <4> QED
        BY <1>6, <4>1, <4>2, <4>3 DEF Step
    <3> QED
      BY <1>2, <2>2, <3>1, <3>2
  <2>3. CASE a \in Agents /\ ~Merged /\ ~Sole(a)
    <3>1. str' = str
      BY <1>0, <1>6, <2>3, CollectedAside, Phase DEF Streams, Classifier
    <3>2. Active(a) /\ MainGoes(a) /\ (RunBut(a) \/ \E c \in BOOLEAN : Passes(a, c))
      BY <1>0, <1>6, <2>3, StepRuns, AgentMain DEF Active
    <3>3. CASE flow.kind = "sequence"
      <4>1. main = "wait"
        BY <2>3, <3>2, <3>3, OneStage DEF Sole
      <4> QED
        BY <1>1, <2>3, <3>1, <3>2, <4>1 DEF MainGoes
    <3>4. CASE flow.kind = "race"
      BY <1>1, <2>3, <3>1, <3>2, <3>4, Phase DEF MainGoes, Kinds
    <3>5. CASE flow.kind \in {"fan_then", "agent"}
      <4>1. a # N /\ main' = main
        BY <2>3, <3>2, <3>5 DEF Sole, MainGoes
      <4>2. run'[N] = run[N]
        BY <3>2, <3>5, <4>1, Phase DEF RunBut, Passes
      <4> QED
        BY <1>0, <2>3, <3>1, <4>1, <4>2 DEF Out
    <3> QED
      BY <2>3, <3>3, <3>4, <3>5, Phase DEF Merged
  <2>4. CASE a \in Agents /\ ~Merged /\ Sole(a)
    <3>1. a = N /\ ~o.closed /\ Active(a) /\ MainGoes(a) /\ Kinds
      BY <1>0, <1>6, <2>4, StepRuns, AgentMain, Phase DEF Active, Out, Sole
    <3>2. flow.kind \in {"sequence", "fan_then", "agent"}
      BY <2>4 DEF Sole
    <3>3. CASE NotCalled(a) /\ str' = str
      <4>1. main = "wait" /\ main' = "failed"
        BY <3>1, <3>2, <3>3 DEF NotCalled, Kinds
      <4> QED
        BY <1>1, <2>4, <3>3, <4>1
    <3>4. CASE ~NotCalled(a)
      <4>1. main' = "stream" /\ run'[a].pc \in {"read", "emit", "done"}
        <5>1. main' # "failed" \/ main' = main
          BY <1>6, <3>4, <2>4 DEF Step, Called, ReadText, Emit, Finishes, LoopOver, FanOver, SendsResult, StageOver, Closes, Sole
        <5>2. main = "stream" \/ run[N].pc = "call"
          BY <3>1, <3>2 DEF Kinds, Active
        <5>3. run[N].pc = "call" => main = "wait"
          BY <3>1, <3>2 DEF Kinds
        <5> QED
          BY <2>4, <3>1, <5>1, <5>2, <5>3 DEF MainGoes
      <4>2. CASE str' = str /\ run'[a].pc # "done"
        BY <1>0, <2>4, <3>1, <4>1, <4>2 DEF Out
      <4>3. CASE SoleEmits(a)
        <5>1. str'["out"].closed = o.closed
          BY <1>t, <4>3, Phase DEF Stream, SoleEmits
        <5> QED
          BY <1>0, <2>4, <3>1, <4>1, <4>3, <5>1 DEF Out, SoleEmits
      <4>4. ASSUME NEW e \in Error, NEW c \in BOOLEAN, SoleCloses(a, e, c)
            PROVE Out'
        <5>1. str'["out"].closed /\ str'["out"].err = e /\ (e = "nil" /\ ~c => str'["out"].resp = a)
          <6>1. str'["out"] = [o EXCEPT !.closed = TRUE, !.err = e, !.resp = IF e = "nil" /\ ~c THEN a ELSE o.resp]
            BY <4>4, Phase DEF SoleCloses
          <6> QED
            BY <1>t, <6>1 DEF Stream
        <5> QED
          BY <1>0, <2>4, <3>1, <4>1, <4>4, <5>1 DEF Out, SoleCloses
      <4> QED
        BY <1>6, <2>4, <3>4, <4>2, <4>3, <4>4, SoleWrites
    <3> QED
      BY <1>6, <2>4, <3>3, <3>4, SoleWrites DEF NotCalled, Calling
  <2> QED
    BY <2>1, <2>2, <2>3, <2>4, Phase
<1> QED
  BY <1>3, <1>5, <1>6, Steps DEF vars

(***************************************************************************)
(* Fan's errors, and the stream resolveHandoff writes.                     *)
(***************************************************************************)
LEMMA StepErrors ==
  ASSUME PhaseInv, [Next]_vars
  PROVE  Errors'
<1>0. /\ Errors /\ TypeOK /\ N' = N /\ Agents' = Agents /\ (Merged' <=> Merged) /\ Agents = 1 .. N
      /\ fan.errors \in Seq(Error) /\ fan \in [first : Error, errors : Seq(Error)]
  BY Phase DEF TypeOK
<1>1. ASSUME fan' = fan, Merged => \A a \in Agents : run'[a].err = run[a].err PROVE Errors'
  BY <1>0, <1>1 DEF Errors
<1>2. CASE Main
  <2>1. fan' = fan
    <3>1. CASE StartParallel \/ StartFirst \/ TakeRace \/ TakeText \/ TakeError \/ Synthesize
      BY <3>1 DEF StartParallel, StartFirst, TakeRace, TakeText, TakeError, Synthesize, Calling
    <3>2. CASE CloseFan \/ Receive \/ ReceiveEnd \/ Cancel
      BY <3>2 DEF CloseFan, Receive, ReceiveEnd, Cancel
    <3>3. CASE Handoff \/ HandoffStart \/ HandoffUnknown \/ HandoffJoins \/ ForwardNext \/ ForwardEmit \/ ForwardCancelled \/ Forwarded
      BY <3>3 DEF Handoff, HandoffStart, HandoffUnknown, HandoffJoins, ForwardNext, ForwardEmit, ForwardCancelled, Forwarded, Splicing
    <3> QED
      BY <1>2, <3>1, <3>2, <3>3 DEF Main
  <2>2. ASSUME NEW a \in Agents PROVE run'[a].err = run[a].err
    <3>0. a \in 0 .. N /\ run[a] \in Run /\ a # Classifier
      BY Phase
    <3>1. \/ run'[a] = run[a]
          \/ run'[a] = [run[a] EXCEPT !.pc = "call"]
      BY <1>0, <1>2, <3>0, MainRuns DEF RunSame, RunBut
    <3> QED
      BY <3>0, <3>1 DEF Run
  <2> QED
    BY <1>1, <2>1, <2>2
<1>3. ASSUME NEW a \in 0 .. N, Step(a) PROVE Errors'
  <2>1. CASE a = Classifier
    <3>1. fan' = fan /\ RunBut(Classifier)
      BY <1>3, <2>1, ClassifierSteps, Phase
    <3> QED
      BY <1>1, <3>1, Phase DEF RunBut
  <2>2. CASE a \in Agents
    <3>0. run[a] \in Run /\ run[a].err = "nil" /\ (Merged => RunBut(a))
      <4>1. run[a] \in Run /\ Active(a) /\ (RunBut(a) \/ \E c \in BOOLEAN : Passes(a, c)) /\ Agent(a)
        BY <1>0, <1>3, StepRuns, Phase DEF Active, AgentsOK
      <4> QED
        BY <4>1 DEF Active, Agent, Passes, Merged
    <3>1. CASE Called(a) \/ ReadText(a) \/ Emit(a)
      <4>1. fan' = fan
        BY <3>1 DEF Called, ReadText, Emit, Calling
      <4>2. run'[a].err = run[a].err
        <5>1. CASE Called(a)
          BY <1>0, <3>0, <5>1, Phase DEF Called, Run
        <5>2. CASE ReadText(a)
          BY <1>0, <3>0, <5>2, Phase DEF ReadText, Run
        <5>3. CASE Emit(a)
          BY <1>0, <3>0, <5>3, Phase DEF Emit, Run
        <5> QED
          BY <3>1, <5>1, <5>2, <5>3
      <4> QED
        BY <1>1, <3>0, <4>1, <4>2, Phase DEF RunBut
    <3>2. CASE NotCalled(a)
      BY <1>1, <3>2 DEF NotCalled, Calling, Sole, Merged
    <3>3. ASSUME NEW e \in Error, NEW c \in BOOLEAN, Finishes(a, e, c) PROVE Errors'
      <4>1. CASE ~Merged
        BY <1>1, <3>3, <4>1 DEF Finishes, LoopOver, FanOver, SendsResult, StageOver, Closes
      <4>2. CASE Merged
        <5>1. FanOver(a, e, c)
          BY <1>0, <2>2, <3>3, <4>2, Phase DEF Finishes, LoopOver, SendsResult, StageOver, Closes, Sole, Merged
        <5>2. run'[a].err = e /\ \A b \in Agents : b # a => run'[b] = run[b]
          BY <3>0, <4>2, <5>1, Phase DEF FanOver, Over, RunBut
        <5>3. fan' = [first |-> Recorded(e), errors |-> IF e = "nil" THEN fan.errors ELSE Append(fan.errors, e)]
          BY <5>1 DEF FanOver
        <5>4. CASE e = "nil"
          <6>1. fan' = fan
            BY <1>0, <5>3, <5>4 DEF Recorded
          <6> QED
            BY <1>1, <3>0, <5>2, <5>4, <6>1
        <5>5. CASE e # "nil"
          <6> DEFINE s == Append(fan.errors, e)
          <6>1. /\ fan'.errors = s /\ fan'.first = Recorded(e) /\ DOMAIN s = 1 .. Len(fan.errors) + 1 /\ s[Len(fan.errors) + 1] = e
                /\ (\A i \in 1 .. Len(fan.errors) : s[i] = fan.errors[i]) /\ s # <<>> /\ Len(fan.errors) \in Nat /\ DOMAIN fan.errors = 1 .. Len(fan.errors)
            BY <1>0, <5>3, <5>5
          <6> HIDE DEF s
          <6>2. \A i \in DOMAIN s : s[i] # "nil"
            BY <1>0, <5>5, <6>1 DEF Errors
          <6>3. fan'.first = s[1]
            <7>1. CASE fan.errors = <<>>
              BY <1>0, <6>1, <7>1 DEF Recorded, Errors
            <7>2. CASE fan.errors # <<>>
              <8>1. 1 \in 1 .. Len(fan.errors)
                BY <1>0, <7>2
              <8> QED
                BY <1>0, <6>1, <7>2, <8>1 DEF Recorded, Errors
            <7> QED
              BY <7>1, <7>2
          <6>4. 1 \in DOMAIN s
            BY <6>1
          <6> QED
            BY <1>0, <6>1, <6>2, <6>3, <6>4 DEF Errors
        <5> QED
          BY <5>4, <5>5
      <4> QED
        BY <4>1, <4>2
    <3> QED
      BY <1>3, <3>1, <3>2, <3>3 DEF Step
  <2> QED
    BY <2>1, <2>2, Phase
<1> QED
  BY <1>1, <1>2, <1>3, Steps DEF vars

\* When the workflow's part of the stream has been handed over, its last agent is done.
LEMMA HandedDone ==
  ASSUME PhaseInv, [Next]_vars, flow.entry = "handoff", front.handed, flow.kind \notin {"fan", "race"}
  PROVE  run'[N] = run[N]
<1>1. main = "stream" /\ str["out"].closed /\ run[N].pc = "done" /\ run[N] \in Run
  BY Phase DEF Front, Kinds, Out
<1>2. CASE Main
  <2>1. ~StartParallel /\ ~StartFirst /\ ~Synthesize
    BY <1>1 DEF StartParallel, StartFirst, Synthesize
  <2> QED
    BY <1>2, <2>1, MainRuns, Phase DEF RunSame, RunBut
<1>3. ASSUME NEW a \in 0 .. N, Step(a) PROVE run'[N] = run[N]
  <2>1. Active(a) /\ (RunBut(a) \/ \E c \in BOOLEAN : Passes(a, c))
    BY <1>3, StepRuns, Phase DEF Active
  <2>2. a # N
    BY <1>1, <2>1 DEF Active
  <2>3. RunBut(a)
    <3>1. ASSUME NEW c \in BOOLEAN, Passes(a, c) PROVE FALSE
      <4>1. a \in Agents /\ flow.kind = "sequence"
        BY <3>1, Phase DEF Passes
      <4>2. main = "wait"
        BY <2>1, <2>2, <4>1, OneStage
      <4> QED
        BY <1>1, <4>2
    <3> QED
      BY <2>1, <3>1
  <2> QED
    BY <2>2, <2>3, Phase DEF RunBut
<1> QED
  BY <1>2, <1>3, Steps DEF vars

LEMMA StepTop ==
  ASSUME PhaseInv, [Next]_vars
  PROVE  Top'
<1> DEFINE t == str["top"]
<1>0. flow' = flow /\ N' = N /\ Top /\ Front /\ TypeOK /\ t \in Stream /\ run[Classifier] \in Run
  BY Phase
<1>f. front \in [pc : {"idle", "start", "join", "forward", "emit"}, held : Frame, handed : BOOLEAN]
  BY <1>0 DEF TypeOK
<1>a. SUFFICES ASSUME flow.entry = "handoff" PROVE Top'
  BY <1>0 DEF Top
<1>1. ASSUME str'["top"].closed = t.closed, str'["top"].err = t.err, str'["top"].resp = t.resp,
             run'[Classifier] = run[Classifier], front'.handed = front.handed PROVE Top'
  BY <1>0, <1>a, <1>1, HandedDone DEF Top
<1>2. CASE Main
  <2>1. ASSUME NEW e \in Error \ {"nil"}, HandoffFails(e), front.pc # "idle" PROVE Top'
    <3>0. /\ run'[Classifier] = [run[Classifier] EXCEPT !.pc = "done", !.err = e]
          /\ str'["top"] = [t EXCEPT !.closed = TRUE, !.err = e]
      BY <1>0, <2>1, FailsAside
    <3>1. run'[Classifier].pc = "done" /\ run'[Classifier].err = e
      BY <1>0, <3>0 DEF Run
    <3>2. str'["top"].closed /\ str'["top"].err = e
      BY <1>0, <3>0 DEF Stream
    <3>3. front'.handed = front.handed /\ ~front.handed
      BY <1>0, <1>a, <1>f, <2>1 DEF HandoffFails, Front
    <3> QED
      BY <1>0, <3>1, <3>2, <3>3 DEF Top
  <2>2. CASE HandoffUnknown
    BY <2>1, <2>2 DEF HandoffUnknown, Error
  <2>3. CASE HandoffJoins
    <3>1. CASE main = "failed"
      BY <2>1, <2>3, <3>1 DEF HandoffJoins, Error
    <3>2. CASE main = "stream"
      BY <1>1, <1>f, <2>3, <3>2 DEF HandoffJoins
    <3>3. CASE main = "text"
      <4>1. front'.handed /\ str' = str /\ run' = run
        BY <1>f, <2>3, <3>3 DEF HandoffJoins
      <4>2. flow.kind = "race"
        BY <3>3, Phase DEF Kinds
      <4> QED
        BY <1>0, <1>a, <4>1, <4>2 DEF Top
    <3> QED
      BY <2>3, <3>1, <3>2, <3>3 DEF HandoffJoins
  <2>4. CASE ForwardCancelled
    BY <2>1, <2>4 DEF ForwardCancelled, Error
  <2>5. CASE Forwarded
    <3>0. str["out"].err \in Error /\ str["out"] \in Stream
      BY Phase DEF Stream
    <3>1. CASE str["out"].err # "nil"
      BY <2>1, <2>5, <3>0, <3>1 DEF Forwarded, ForwardEnds
    <3>2. CASE str["out"].err = "nil"
      <4>1. front'.handed /\ run' = run
        BY <1>f, <2>5, <3>2 DEF Forwarded, ForwardEnds
      <4>2. str'["top"] = [t EXCEPT !.resp = str["out"].resp]
        BY <2>5, <3>2, Phase DEF Forwarded, ForwardEnds
      <4>3. str'["top"].closed = t.closed /\ str'["top"].err = t.err /\ str'["top"].resp = str["out"].resp
        BY <1>0, <4>2 DEF Stream
      <4>4. flow.kind # "fan" /\ ~run[N].cut => str["out"].resp = N
        BY <2>5, <3>2, Phase DEF Forwarded, Out
      <4> QED
        BY <1>0, <1>a, <4>1, <4>3, <4>4 DEF Top
    <3> QED
      BY <3>1, <3>2
  <2>6. CASE ForwardNext
    <3>1. str'["top"] = t /\ run' = run /\ front'.handed = front.handed
      BY <1>f, <2>6, Phase DEF ForwardNext
    <3> QED
      BY <1>1, <3>1
  <2>7. CASE ForwardEmit
    <3>1. str'["top"] = [t EXCEPT !.frames = Append(@, front.held)] /\ run' = run /\ front'.handed = front.handed
      BY <1>f, <2>7, Phase DEF ForwardEmit, Put
    <3> QED
      BY <1>0, <1>1, <3>1 DEF Stream
  <2>8. CASE HandoffStart
    <3>1. (str'["top"] = [t EXCEPT !.frames = Append(@, Announced)] \/ str' = str) /\ run' = run /\ front'.handed = front.handed
      BY <1>f, <2>8, Phase DEF HandoffStart, Put
    <3> QED
      BY <1>0, <1>1, <3>1 DEF Stream
  <2>9. CASE Handoff
    BY <1>1, <1>f, <2>9 DEF Handoff
  <2>10. CASE Receive
    <3>1. str'["top"] = [t EXCEPT !.frames = Tail(@)] /\ run' = run /\ front' = front
      BY <1>a, <2>10, Phase DEF Receive, Read
    <3> QED
      BY <1>0, <1>1, <3>1 DEF Stream
  <2>11. CASE ReceiveEnd \/ Cancel
    BY <1>1, <2>11 DEF ReceiveEnd, Cancel
  <2>12. CASE CloseFan
    <3>1. str'["top"] = t /\ run' = run /\ front' = front
      BY <2>12, Phase DEF CloseFan, Finish
    <3> QED
      BY <1>1, <3>1
  <2>13. CASE StartParallel \/ StartFirst \/ TakeRace \/ TakeText \/ TakeError \/ Synthesize
    <3>1. str' = str /\ front' = front
      BY <2>13 DEF StartParallel, StartFirst, TakeRace, TakeText, TakeError, Synthesize, Calling
    <3>2. run'[Classifier] = run[Classifier]
      <4>1. CASE StartParallel
        BY <4>1, Phase DEF StartParallel
      <4>2. CASE StartFirst
        BY <4>2, Phase DEF StartFirst, Asks, Classifier
      <4>3. CASE Synthesize
        BY <4>3, Phase DEF Synthesize, Asks
      <4> QED
        BY <2>13, <4>1, <4>2, <4>3 DEF TakeRace, TakeText, TakeError
    <3> QED
      BY <1>1, <3>1, <3>2
  <2> QED
    BY <1>2, <2>2, <2>3, <2>4, <2>5, <2>6, <2>7, <2>8, <2>9, <2>10, <2>11, <2>12, <2>13 DEF Main
<1>3. ASSUME NEW a \in 0 .. N, Step(a) PROVE Top'
  <2>1. CASE a = Classifier
    <3>0. front.pc = "idle" /\ front' = front /\ run[Classifier].pc \in {"read", "emit"} /\ To(Classifier) = "top" /\ Classifier \in 0 .. MaxAgents
      BY <1>3, <2>1, ClassifierSteps, Phase DEF To
    <3>1. ~t.closed
      BY <1>0, <1>a, <3>0 DEF Top
    <3>2. CASE ReadText(Classifier)
      <4>1. run'[Classifier].pc # "done"
        BY <1>0, <3>0, <3>2, Phase DEF ReadText, InLoop, Run
      <4>2. str' = str /\ RunBut(Classifier)
        BY <1>3, <2>1, <3>2, ClassifierSteps, Phase DEF ReadText, Calling
      <4> QED
        BY <1>0, <1>a, <3>0, <3>1, <4>1, <4>2, HandedDone DEF Top
    <3>3. CASE Emit(Classifier)
      <4>1. run'[Classifier].pc # "done"
        BY <1>0, <3>0, <3>3, Phase DEF Emit
      <4>2. str'["top"] = [t EXCEPT !.frames = Append(@, Text(Classifier, run[Classifier].n))]
        BY <3>0, <3>3, Phase DEF Emit, Put
      <4>3. str'["top"].closed = t.closed /\ str'["top"].resp = t.resp
        BY <1>0, <4>2 DEF Stream
      <4> QED
        BY <1>0, <1>a, <3>0, <3>1, <4>1, <4>3, HandedDone DEF Top
    <3>4. ASSUME NEW e \in Error, NEW c \in BOOLEAN, Finishes(Classifier, e, c), Closes(Classifier, e, c) PROVE Top'
      <4>1. run'[Classifier].pc = "done" /\ run'[Classifier].err = e /\ run'[Classifier].cut = c
        BY <1>0, <3>0, <3>4, Phase DEF Closes, Over, Run
      <4> DEFINE r == IF e = "nil" /\ ~c THEN Answers(Classifier) ELSE t.resp
      <4>2. str'["top"] = [t EXCEPT !.closed = TRUE, !.err = e, !.resp = r]
        BY <3>0, <3>4, Phase DEF Closes
      <4>3. str'["top"].closed /\ str'["top"].err = e /\ str'["top"].resp = r
        BY <1>0, <4>2 DEF Stream
      <4>4. (front.handed => r = t.resp) /\ (~front.handed /\ e = "nil" /\ ~c => r = Classifier)
        BY DEF Answers
      <4> HIDE DEF r
      <4> QED
        BY <1>0, <1>a, <3>0, <4>1, <4>3, <4>4, HandedDone DEF Top
    <3> QED
      BY <1>3, <2>1, <3>2, <3>3, <3>4, ClassifierSteps, Phase
  <2>2. CASE a \in Agents
    <3>1. run'[Classifier] = run[Classifier] /\ front' = front
      BY <1>3, <2>2, ClassifierKept
    <3>2. str'["top"] = t
      <4>0. To(a) = "out"
        BY <2>2, Phase DEF To
      <4>1. CASE Called(a) \/ NotCalled(a) \/ ReadText(a)
        BY <4>1 DEF Called, NotCalled, ReadText, Calling
      <4>2. CASE Emit(a)
        BY <4>0, <4>2, Phase DEF Emit, Put
      <4>3. ASSUME NEW e \in Error, NEW c \in BOOLEAN, Finishes(a, e, c) PROVE str'["top"] = t
        <5>1. CASE Closes(a, e, c)
          BY <4>0, <5>1, Phase DEF Closes
        <5> QED
          BY <4>3, <5>1 DEF Finishes, LoopOver, FanOver, SendsResult, StageOver
      <4> QED
        BY <1>3, <4>1, <4>2, <4>3 DEF Step
    <3> QED
      BY <1>1, <3>1, <3>2
  <2> QED
    BY <2>1, <2>2, Phase
<1> QED
  BY <1>1, <1>2, <1>3, Steps DEF vars

(***************************************************************************)
(* What the caller has been told.                                          *)
(***************************************************************************)
\* A stream that resolveHandoff has closed stays as it is, but for what is read.
LEMMA TopStays ==
  ASSUME PhaseInv, [Next]_vars, flow.entry = "handoff", str["top"].closed
  PROVE  /\ str'["top"].closed /\ str'["top"].err = str["top"].err /\ (str["top"].frames = <<>> => str'["top"].frames = <<>>)
         /\ front.pc = "idle" /\ front' = front /\ run'[Classifier] = run[Classifier] /\ run[Classifier].pc = "done"
         /\ ctx' \in {ctx, TRUE}
<1>0. run[Classifier].pc = "done" /\ front.pc = "idle" /\ str["top"] \in Stream
  BY Phase DEF Top, Front
<1>c. ctx \in BOOLEAN /\ ctx' \in {ctx, TRUE}
  <2>1. ctx \in BOOLEAN /\ ctx' \in BOOLEAN
    BY StepTypeRest, Phase DEF TypeOK, TypeRest
  <2> QED
    BY <2>1, CtxKept
<1>1. CASE Main
  <2>1. CASE StartParallel \/ StartFirst \/ TakeRace \/ TakeText \/ TakeError \/ Synthesize
    <3>1. str' = str /\ front' = front
      BY <2>1 DEF StartParallel, StartFirst, TakeRace, TakeText, TakeError, Synthesize, Calling
    <3>2. run'[Classifier] = run[Classifier]
      <4>1. CASE StartParallel
        BY <4>1, Phase DEF StartParallel
      <4>2. CASE StartFirst
        BY <4>2, Phase DEF StartFirst, Asks, Classifier
      <4>3. CASE Synthesize
        BY <4>3, Phase DEF Synthesize, Asks
      <4> QED
        BY <2>1, <4>1, <4>2, <4>3 DEF TakeRace, TakeText, TakeError
    <3> QED
      BY <1>0, <1>c, <3>1, <3>2
  <2>2. CASE CloseFan
    <3>1. str'["top"] = str["top"] /\ run' = run /\ front' = front
      BY <2>2, Phase DEF CloseFan, Finish
    <3> QED
      BY <1>0, <1>c, <3>1
  <2>3. CASE Receive
    <3>1. str'["top"] = [str["top"] EXCEPT !.frames = Tail(@)] /\ str["top"].frames # <<>> /\ run' = run /\ front' = front
      BY <2>3, Phase DEF Receive, Read
    <3>2. str'["top"].closed = str["top"].closed /\ str'["top"].err = str["top"].err
      BY <1>0, <3>1 DEF Stream
    <3> QED
      BY <1>0, <1>c, <3>1, <3>2
  <2>4. CASE ReceiveEnd \/ Cancel
    BY <1>0, <1>c, <2>4 DEF ReceiveEnd, Cancel
  <2>5. CASE Handoff \/ HandoffStart \/ HandoffUnknown \/ HandoffJoins \/ ForwardNext \/ ForwardEmit \/ ForwardCancelled \/ Forwarded
    BY <1>0, <2>5 DEF Handoff, InLoop, HandoffStart, HandoffUnknown, HandoffJoins, ForwardNext, ForwardEmit, ForwardCancelled, Forwarded
  <2> QED
    BY <1>1, <2>1, <2>2, <2>3, <2>4, <2>5 DEF Main
<1>2. ASSUME NEW a \in 0 .. N, Step(a)
      PROVE  str'["top"] = str["top"] /\ front' = front /\ run'[Classifier] = run[Classifier]
  <2>1. a \in Agents
    BY <1>0, <1>2, StepRuns, Phase
  <2>2. run'[Classifier] = run[Classifier] /\ front' = front
    BY <1>2, <2>1, ClassifierKept
  <2>3. str'["top"] = str["top"]
    <3>0. To(a) = "out"
      BY <2>1, Phase DEF To
    <3>1. CASE Called(a) \/ NotCalled(a) \/ ReadText(a)
      BY <3>1 DEF Called, NotCalled, ReadText, Calling
    <3>2. CASE Emit(a)
      BY <3>0, <3>2, Phase DEF Emit, Put
    <3>3. ASSUME NEW e \in Error, NEW c \in BOOLEAN, Finishes(a, e, c) PROVE str'["top"] = str["top"]
      <4>1. CASE Closes(a, e, c)
        BY <3>0, <4>1, Phase DEF Closes
      <4> QED
        BY <3>3, <4>1 DEF Finishes, LoopOver, FanOver, SendsResult, StageOver
    <3> QED
      BY <1>2, <3>1, <3>2, <3>3 DEF Step
  <2> QED
    BY <2>2, <2>3
<1> QED
  BY <1>0, <1>c, <1>1, <1>2, Steps DEF vars

LEMMA GotKept ==
  ASSUME PhaseInv, [Next]_vars
  PROVE  got' = got \/ Receive \/ ReceiveEnd
<1>1. ASSUME NEW a \in 0 .. N, Step(a) PROVE got' = got
  BY <1>1 DEF Step, Called, NotCalled, ReadText, Emit, Finishes, LoopOver, Calling, Outside
<1>2. CASE Main
  <2>1. CASE StartParallel \/ StartFirst \/ TakeRace \/ TakeText \/ TakeError \/ Synthesize
    BY <2>1 DEF StartParallel, StartFirst, TakeRace, TakeText, TakeError, Synthesize, Calling, Outside
  <2>2. CASE CloseFan \/ Cancel
    BY <2>2 DEF CloseFan, Cancel, Outside
  <2>3. CASE Handoff \/ HandoffStart \/ HandoffUnknown \/ HandoffJoins \/ ForwardNext \/ ForwardEmit \/ ForwardCancelled \/ Forwarded
    BY <2>3 DEF Handoff, HandoffStart, HandoffUnknown, HandoffJoins, ForwardNext, ForwardEmit, ForwardCancelled, Forwarded, Splicing, Outside
  <2> QED
    BY <1>2, <2>1, <2>2, <2>3 DEF Main
<1> QED
  BY <1>1, <1>2, Steps DEF vars

LEMMA StepGot ==
  ASSUME PhaseInv, [Next]_vars
  PROVE  Got'
<1>0. Read' = Read /\ Got /\ got \in [frames : Seq(Frame), ended : BOOLEAN, err : Error]
  BY Phase DEF TypeOK
<1>1. ASSUME str[Read].closed
      PROVE  str'[Read].closed /\ str'[Read].err = str[Read].err /\ (str[Read].frames = <<>> => str'[Read].frames = <<>>)
  <2>1. CASE flow.entry = "handoff"
    <3>1. Read = "top"
      BY <2>1 DEF Read
    <3> QED
      BY <1>1, <2>1, <3>1, TopStays
  <2>2. CASE flow.entry # "handoff"
    <3>1. Read = "out"
      BY <2>2 DEF Read
    <3> QED
      BY <1>1, <3>1, OutStays
  <2> QED
    BY <2>1, <2>2
<1>2. CASE got' = got
  BY <1>0, <1>1, <1>2 DEF Got
<1>3. CASE Receive
  <2>1. ~got.ended
    BY <1>0, <1>3 DEF Receive, Got
  <2>2. got'.ended = got.ended
    BY <1>0, <1>3 DEF Receive
  <2> QED
    BY <2>1, <2>2 DEF Got
<1>4. CASE ReceiveEnd
  <2>1. str' = str /\ got'.err = str[Read].err /\ str[Read].closed /\ str[Read].frames = <<>>
    BY <1>0, <1>4 DEF ReceiveEnd
  <2> QED
    BY <1>0, <2>1 DEF Got
<1> QED
  BY <1>2, <1>3, <1>4, GotKept

LEMMA PhaseStep ==
  ASSUME PhaseInv, [Next]_vars
  PROVE  PhaseInv'
<1>1. TypeInv /\ AgentsOK /\ Fresh /\ Called0 /\ Front /\ Kinds
  BY DEF PhaseInv
<1>2. TypeInv' /\ AgentsOK' /\ Fresh' /\ Called0'
  BY <1>1, StepTypeInv, StepAgents, StepFresh, StepCalled0
<1>3. Front' /\ Kinds' /\ Out' /\ Errors' /\ Top' /\ Got'
  BY StepFront, StepKinds, StepOut, StepErrors, StepTop, StepGot
<1> QED
  BY <1>2, <1>3 DEF PhaseInv

LEMMA PhaseInit ==
  ASSUME Init
  PROVE  PhaseInv
<1>0. /\ flow \in Flows /\ Agents = 1 .. N /\ N \in Agents /\ N \in 1 .. MaxAgents /\ MaxAgents \in Nat /\ MaxText \in Nat /\ OutSize \in Nat
      /\ flow.kind \in {"fan", "race", "sequence", "fan_then", "agent"} /\ flow.entry \in {"call", "handoff"}
      /\ Agents \subseteq 0 .. MaxAgents /\ Parallel \subseteq Agents
  BY FlowFacts DEF Init
<1>1. \A a \in 0 .. MaxAgents : run[a] = [pc |-> IF a = Classifier /\ flow.entry = "handoff" THEN "read" ELSE "idle", n |-> 0, cut |-> FALSE, err |-> "nil"]
  BY DEF Init
<1>r. ASSUME NEW a \in 0 .. MaxAgents
      PROVE  run[a].pc = (IF a = Classifier /\ flow.entry = "handoff" THEN "read" ELSE "idle") /\ run[a].n = 0 /\ run[a].cut = FALSE /\ run[a].err = "nil"
  <2> DEFINE p == IF a = Classifier /\ flow.entry = "handoff" THEN "read" ELSE "idle"
  <2>1. run[a] = [pc |-> p, n |-> 0, cut |-> FALSE, err |-> "nil"]
    BY <1>1
  <2> HIDE DEF p
  <2>2. run[a].pc = p /\ run[a].n = 0 /\ run[a].cut = FALSE /\ run[a].err = "nil"
    BY <2>1
  <2> QED
    BY <2>2 DEF p
<1>2. \A a \in Agents : a # Classifier /\ run[a].pc = "idle" /\ run[a].err = "nil"
  <2>1. ASSUME NEW a \in Agents PROVE a # Classifier /\ a \in 0 .. MaxAgents
    BY <1>0 DEF Classifier
  <2> QED
    BY <1>r, <2>1
<1>m. main \in {"idle", "start"} /\ coll = NewCollector /\ fan = [first |-> "nil", errors |-> <<>>] /\ \A a \in Agents : asked[a] = <<>>
  BY DEF Init, NewCollector
<1>s. str["out"] = NewStream /\ str["top"] = NewStream
  BY DEF Init
<1>3. TypeOK
  <2>1. run \in [0 .. MaxAgents -> Run]
    BY <1>0 DEF Init, Run, Error
  <2>2. asked \in [Agents -> Seq(0 .. Nobody)]
    BY DEF Init
  <2>3. coll \in [results : Seq([by : Agents, err : Error]), taken : 0 .. N, texts : [Agents -> 0 .. N], win : 0 .. N] /\ Len(coll.results) + coll.taken <= N
    BY <1>0 DEF Init
  <2>4. fan \in [first : Error, errors : Seq(Error)] /\ ctx \in BOOLEAN /\ got \in [frames : Seq(Frame), ended : BOOLEAN, err : Error]
    <3>1. "nil" \in Error /\ <<>> \in Seq(Error) /\ <<>> \in Seq(Frame)
      BY DEF Error
    <3>2. fan \in [first : Error, errors : Seq(Error)]
      BY <1>m, <3>1
    <3>3. got = [frames |-> <<>>, ended |-> FALSE, err |-> "nil"] /\ ctx = FALSE
      BY DEF Init
    <3> QED
      BY <3>1, <3>2, <3>3
  <2>5. str \in [{"out", "top"} -> Stream] /\ \A s \in {"out", "top"} : Len(str[s].frames) <= OutSize
    <3>1. NewStream \in Stream /\ Len(NewStream.frames) = 0
      BY <1>0 DEF NewStream, Stream, Error
    <3> QED
      BY <1>0, <3>1 DEF Init
  <2>6. front \in [pc : {"idle", "start", "join", "forward", "emit"}, held : Frame, handed : BOOLEAN]
    BY <1>0 DEF Init, Announced, Frame, Classifier
  <2>7. main \in {"idle", "start", "wait", "stream", "text", "failed"}
    BY DEF Init
  <2> QED
    BY <1>0, <2>1, <2>2, <2>3, <2>4, <2>5, <2>6, <2>7 DEF TypeOK
<1>4. Collected
  <2>1. Over1 = {}
    BY <1>0, <1>2 DEF Over1
  <2> QED
    BY <2>1, FS_EmptySet DEF Collected, Init
<1>5. AgentsOK
  <2>1. ASSUME NEW a \in 0 .. N PROVE Agent(a)
    <3>1. run[a].n = 0 /\ run[a].pc # "emit" /\ ~run[a].cut /\ run[a].err = "nil"
      <4>1. a \in 0 .. MaxAgents
        BY <1>0
      <4> QED
        BY <1>r, <4>1
    <3> QED
      BY <3>1 DEF Agent
  <2> QED
    BY <2>1 DEF AgentsOK
<1>6. Fresh /\ Called0 /\ Front
  <2>1. Fresh
    BY <1>2, <1>m, <1>s DEF Fresh
  <2>2. Called0
    BY <1>0, <1>1, <1>s DEF Init, Called0, Classifier
  <2>3. Front
    BY <1>0, <1>1 DEF Init, Front, Classifier
  <2> QED
    BY <2>1, <2>2, <2>3
<1>7. Kinds
  <2>1. Unstarted /\ main \in {"idle", "start"} /\ \A a \in Agents : run[a].pc = "idle"
    BY <1>2, <1>m DEF Unstarted
  <2> QED
    BY <1>0, <2>1 DEF Kinds
<1>8. Out /\ Errors /\ Top /\ Got
  <2>1. main # "stream" /\ \A a \in Agents : run[a].err = "nil"
    BY <1>2, <1>m
  <2>2. Out /\ Errors
    BY <1>m, <1>s, <2>1 DEF Out, Errors, NewStream
  <2>3. Top
    BY <1>0, <1>1, <1>s DEF Top, NewStream, Init, Classifier
  <2> QED
    BY <2>2, <2>3 DEF Got, Init
<1> QED
  BY <1>3, <1>4, <1>5, <1>6, <1>7, <1>8 DEF PhaseInv, TypeInv

\* Every variable of the workflows has its type: no stream holds more than it has room
\* for, and no collector more than the agents it waits for can send.
THEOREM TypeCorrect == Spec => []TypeOK
<1>1. Init => PhaseInv
  BY PhaseInit
<1>2. PhaseInv /\ [Next]_vars => PhaseInv'
  BY PhaseStep
<1>3. PhaseInv => TypeOK
  BY DEF PhaseInv, TypeInv
<1> QED
  BY <1>1, <1>2, <1>3, PTL DEF Spec

(***************************************************************************)
(* Answers.                                                                *)
(***************************************************************************)
\* An agent that is done stays as it is.
LEMMA DoneKept ==
  ASSUME PhaseInv, [Next]_vars, NEW b \in Agents, run[b].pc = "done"
  PROVE  run'[b] = run[b]
<1>0. b \in 0 .. N /\ b # Classifier
  BY Phase
<1>1. CASE Main
  <2>1. ~StartParallel /\ ~StartFirst
    BY Phase DEF StartParallel, StartFirst, Fresh, Unstarted
  <2>2. Synthesize => b # N
    BY DEF Synthesize
  <2> QED
    BY <1>0, <1>1, <2>1, <2>2, MainRuns, Phase DEF RunSame, RunBut
<1>2. ASSUME NEW a \in 0 .. N, Step(a) PROVE run'[b] = run[b]
  <2>1. Active(a) /\ a # b /\ (RunBut(a) \/ \E c \in BOOLEAN : Passes(a, c))
    BY <1>2, StepRuns, Phase DEF Active
  <2>2. CASE RunBut(a)
    BY <1>0, <2>1, <2>2 DEF RunBut
  <2>3. ASSUME NEW c \in BOOLEAN, Passes(a, c) PROVE run'[b] = run[b]
    <3>1. a \in Agents /\ a # N /\ flow.kind = "sequence" /\ a + 1 \in a + 1 .. N
      BY <2>3, Phase DEF Passes
    <3>2. run[a + 1].pc = "idle"
      BY <2>1, <3>1, OneStage
    <3>3. b \in 0 .. N \ {a, a + 1}
      BY <1>0, <2>1, <3>2
    <3> QED
      BY <2>3, <3>3 DEF Passes
  <2> QED
    BY <2>1, <2>2, <2>3
<1> QED
  BY <1>1, <1>2, Steps DEF vars

\* An agent that is waited for sends its result, and is done.
Sends(a, e, c) ==
  /\ a \in Parallel /\ e \in Error /\ c \in BOOLEAN /\ Active(a) /\ SendsResult(a, e, c)
  /\ run'[a].pc = "done" /\ run'[a].err = e /\ run'[a].cut = c /\ RunBut(a) /\ main' = main

LEMMA CollSteps ==
  ASSUME PhaseInv, [Next]_vars, ~Merged
  PROVE  \/ coll' = coll /\ Over1' = Over1 /\ ~TakeRace /\ ~TakeText /\ ~TakeError
         \/ TakeRace \/ TakeText \/ TakeError
         \/ \E a, e, c : Sends(a, e, c)
<1>0. Parallel' = Parallel /\ Parallel \subseteq Agents
  BY Phase, Fixed
<1>k. ASSUME coll' = coll, coll \in [results : Seq([by : Agents, err : Error]), taken : 0 .. N, texts : [Agents -> 0 .. N], win : 0 .. N]
      PROVE  ~TakeRace /\ ~TakeText /\ ~TakeError
  <2>1. ~(coll'.taken = coll.taken + 1)
    BY <1>k, Phase
  <2>2. TakeText \/ TakeError => coll'.taken = coll.taken + 1
    BY <1>k DEF TakeText, TakeError, Taken
  <2>3. TakeRace => coll'.taken = coll.taken + 1
    BY <1>k DEF TakeRace, Taken
  <2> QED
    BY <2>1, <2>2, <2>3
<1>c. coll \in [results : Seq([by : Agents, err : Error]), taken : 0 .. N, texts : [Agents -> 0 .. N], win : 0 .. N]
  BY Phase DEF TypeOK
<1>1. ASSUME coll' = coll, \A b \in Parallel : run'[b].pc = "done" <=> run[b].pc = "done"
      PROVE  coll' = coll /\ Over1' = Over1 /\ ~TakeRace /\ ~TakeText /\ ~TakeError
  BY <1>0, <1>1, <1>c, <1>k DEF Over1
<1>2. CASE Main
  <2>1. CASE TakeRace \/ TakeText \/ TakeError
    BY <2>1
  <2>2. CASE ~(TakeRace \/ TakeText \/ TakeError)
    <3>1. coll' = coll
      <4>1. CASE StartParallel \/ StartFirst \/ Synthesize \/ CloseFan \/ Receive \/ ReceiveEnd \/ Cancel
        BY <4>1 DEF StartParallel, StartFirst, Synthesize, CloseFan, Receive, ReceiveEnd, Cancel
      <4>2. CASE Handoff \/ HandoffStart \/ HandoffUnknown \/ HandoffJoins \/ ForwardNext \/ ForwardEmit \/ ForwardCancelled \/ Forwarded
        BY <4>2 DEF Handoff, HandoffStart, HandoffUnknown, HandoffJoins, ForwardNext, ForwardEmit, ForwardCancelled, Forwarded, Splicing
      <4> QED
        BY <1>2, <2>2, <4>1, <4>2 DEF Main
    <3>2. ASSUME NEW b \in Parallel PROVE run'[b].pc = "done" <=> run[b].pc = "done"
      <4>0. b \in Agents /\ b \in 0 .. N /\ b # Classifier /\ run[b] \in Run
        BY <1>0, Phase
      <4>1. run'[b] = run[b] \/ run'[b] = [run[b] EXCEPT !.pc = "call"]
        BY <1>2, <4>0, MainRuns, Phase DEF RunSame, RunBut
      <4>2. CASE run[b].pc = "done"
        BY <4>0, <4>2, DoneKept
      <4>3. CASE run[b].pc # "done"
        BY <4>0, <4>1, <4>3 DEF Run
      <4> QED
        BY <4>2, <4>3
    <3> QED
      BY <1>1, <3>1, <3>2
  <2> QED
    BY <2>1, <2>2
<1>3. ASSUME NEW a \in 0 .. N, Step(a) PROVE (coll' = coll /\ \A b \in Parallel : run'[b].pc = "done" <=> run[b].pc = "done") \/ \E b, e, c : Sends(b, e, c)
  <2>0. Active(a) /\ (RunBut(a) \/ \E c \in BOOLEAN : Passes(a, c)) /\ run[a] \in Run /\ (\A b \in Parallel : b \in 0 .. N)
    BY <1>0, <1>3, StepRuns, Phase DEF Active
  <2>p. (\E c \in BOOLEAN : Passes(a, c)) => Parallel = {}
    BY DEF Passes, Parallel
  <2>1. CASE Called(a) \/ ReadText(a) \/ Emit(a)
    <3>1. coll' = coll
      BY <2>1 DEF Called, ReadText, Emit
    <3>2. run'[a].pc # "done"
      <4>1. CASE Called(a)
        BY <2>0, <4>1, Phase DEF Called
      <4>2. CASE ReadText(a)
        BY <2>0, <4>2, Phase DEF ReadText, InLoop, Run
      <4>3. CASE Emit(a)
        BY <2>0, <4>3, Phase DEF Emit
      <4> QED
        BY <2>1, <4>1, <4>2, <4>3
    <3> QED
      BY <2>0, <2>p, <3>1, <3>2 DEF RunBut, Active
  <2>2. CASE NotCalled(a)
    <3>1. a \notin Parallel /\ coll' = coll
      BY <2>2, FlowFacts, Phase DEF NotCalled, TypeOK
    <3> QED
      BY <2>0, <2>p, <3>1 DEF RunBut
  <2>3. ASSUME NEW e \in Error, NEW c \in BOOLEAN, Finishes(a, e, c)
        PROVE  (coll' = coll /\ \A b \in Parallel : run'[b].pc = "done" <=> run[b].pc = "done") \/ \E b, x, y : Sends(b, x, y)
    <3>1. CASE SendsResult(a, e, c)
      <4>1. run'[a].pc = "done" /\ run'[a].err = e /\ run'[a].cut = c
        BY <2>0, <3>1, Phase DEF SendsResult, Over, Run
      <4>2. a \in Parallel /\ main' = main /\ RunBut(a)
        BY <2>0, <2>p, <3>1 DEF SendsResult
      <4>3. Sends(a, e, c)
        BY <2>0, <3>1, <4>1, <4>2 DEF Sends
      <4> QED
        BY <4>3
    <3>2. CASE FanOver(a, e, c)
      BY <3>2 DEF FanOver
    <3>3. CASE StageOver(a, e, c)
      BY <3>3 DEF StageOver, Parallel
    <3>4. CASE Closes(a, e, c)
      <4>1. a \notin Parallel /\ coll' = coll
        BY <3>4, FlowFacts, Phase DEF Closes, TypeOK
      <4> QED
        BY <2>0, <2>p, <4>1 DEF RunBut
    <3> QED
      BY <2>3, <3>1, <3>2, <3>3, <3>4 DEF Finishes, LoopOver
  <2> QED
    BY <1>3, <2>1, <2>2, <2>3 DEF Step
<1>4. CASE UNCHANGED vars
  BY <1>1, <1>4 DEF vars
<1> QED
  BY <1>1, <1>2, <1>3, <1>4, Steps

\* A result that is sent is awaited; one that is taken is not any more.
Result == [by : Agents, err : Error]

LEMMA SentAwaited ==
  ASSUME PhaseInv, [Next]_vars, NEW a, NEW e, NEW c, Sends(a, e, c)
  PROVE  /\ coll'.results = Append(coll.results, [by |-> a, err |-> e]) /\ coll.results \in Seq(Result) /\ [by |-> a, err |-> e] \in Result
         /\ Over1' = Over1 \cup {a} /\ a \notin Over1 /\ a \in Agents
         /\ Awaited' = Awaited \cup {a}
<1>0. /\ coll \in [results : Seq(Result), taken : 0 .. N, texts : [Agents -> 0 .. N], win : 0 .. N]
      /\ Parallel' = Parallel /\ Parallel \subseteq Agents /\ a \in Parallel /\ e \in Error
  BY Phase, Fixed DEF TypeOK, Result, Sends
<1>1. coll' = [coll EXCEPT !.results = Append(coll.results, [by |-> a, err |-> e])]
  BY DEF Sends, SendsResult
<1> DEFINE r == [by |-> a, err |-> e]
           s == Append(coll.results, r)
<1>2. coll'.results = s /\ coll.results \in Seq(Result) /\ r \in Result /\ r.by = a
  BY <1>0, <1>1 DEF Result
<1>3. Over1' = Over1 \cup {a} /\ a \notin Over1
  <2>1. \A b \in Parallel : run'[b].pc = "done" <=> (b = a \/ run[b].pc = "done")
    BY <1>0, Phase DEF Sends, RunBut
  <2>2. run[a].pc # "done"
    BY DEF Sends, Active
  <2> QED
    BY <1>0, <2>1, <2>2 DEF Over1
<1>4. Awaited' = Awaited \cup {a}
  <2>a. Awaited' = {s[i].by : i \in DOMAIN s}
    BY <1>2 DEF Awaited
  <2>1. /\ DOMAIN s = 1 .. Len(coll.results) + 1 /\ s[Len(coll.results) + 1] = r /\ Len(coll.results) \in Nat
        /\ (\A i \in 1 .. Len(coll.results) : s[i] = coll.results[i]) /\ DOMAIN coll.results = 1 .. Len(coll.results)
    BY <1>2
  <2> HIDE DEF r, s
  <2>2. \A i \in DOMAIN s : i \in DOMAIN coll.results \/ i = Len(coll.results) + 1
    BY <2>1
  <2>3. ASSUME NEW b \in Awaited' PROVE b \in Awaited \cup {a}
    <3>1. PICK i \in DOMAIN s : b = s[i].by
      BY <2>a, <2>3
    <3> QED
      BY <1>2, <2>1, <2>2, <3>1 DEF Awaited
  <2>4. ASSUME NEW b \in Awaited \cup {a} PROVE b \in Awaited'
    <3>1. CASE b = a
      <4>1. Len(coll.results) + 1 \in DOMAIN s
        BY <2>1
      <4> QED
        BY <1>2, <2>1, <2>a, <3>1, <4>1
    <3>2. CASE b \in Awaited
      <4>1. PICK i \in DOMAIN coll.results : b = coll.results[i].by
        BY <3>2 DEF Awaited
      <4>2. i \in DOMAIN s /\ s[i] = coll.results[i]
        BY <2>1
      <4> QED
        BY <2>a, <4>1, <4>2
    <3> QED
      BY <2>4, <3>1, <3>2
  <2> QED
    BY <2>3, <2>4
<1> QED
  BY <1>0, <1>2, <1>3, <1>4

Takes == TakeRace \/ TakeText \/ TakeError

LEMMA TakenAwaited ==
  ASSUME PhaseInv, [Next]_vars, Takes
  PROVE  /\ coll'.results = Tail(coll.results) /\ coll'.taken = coll.taken + 1 /\ coll.results \in Seq(Result) /\ coll.results # <<>> /\ Head(coll.results) \in Result
         /\ Over1' = Over1 /\ run' = run /\ main = "wait" /\ asked' = asked /\ ctx' = ctx
         /\ coll'.texts = (IF TakeText THEN Place(Head(coll.results).by) ELSE coll.texts)
         /\ coll'.win = (IF TakeRace /\ Head(coll.results).err = "nil" THEN Head(coll.results).by ELSE coll.win)
         /\ Head(coll.results).by \in Awaited
         /\ Awaited \subseteq Awaited' \cup {Head(coll.results).by}
<1>0. /\ coll \in [results : Seq(Result), taken : 0 .. N, texts : [Agents -> 0 .. N], win : 0 .. N]
      /\ Parallel' = Parallel
  BY Phase, Fixed DEF TypeOK, Result
<1>1. coll.results # <<>> /\ main = "wait" /\ run' = run /\ asked' = asked /\ ctx' = ctx
  BY DEF Takes, TakeRace, TakeText, TakeError, Arrived, Calling, Outside
<1>2. coll.results \in Seq(Result) /\ Head(coll.results) \in Result
  BY <1>0, <1>1, HeadTailProperties
<1>3. Over1' = Over1
  BY <1>0, <1>1 DEF Over1
<1>k. TakeRace => ~TakeText
  BY DEF TakeRace, TakeText, Arrived
<1> DEFINE h == Head(coll.results)
           t == Tail(coll.results)
<1>4. coll'.results = t /\ coll'.taken = coll.taken + 1
  <2>1. CASE TakeRace
    BY <1>0, <2>1 DEF TakeRace, Taken
  <2>2. CASE TakeText
    BY <1>0, <2>2 DEF TakeText, Taken
  <2>3. CASE TakeError
    BY <1>0, <2>3 DEF TakeError, Taken
  <2> QED
    BY <2>1, <2>2, <2>3 DEF Takes
<1>5. coll'.texts = (IF TakeText THEN Place(h.by) ELSE coll.texts)
  <2>1. CASE TakeRace
    BY <1>0, <1>k, <2>1 DEF TakeRace, Taken
  <2>2. CASE TakeText
    BY <1>0, <2>2 DEF TakeText, Taken
  <2>3. CASE TakeError
    <3>1. ~TakeText
      BY <2>3 DEF TakeError, TakeText
    <3> QED
      BY <1>0, <2>3, <3>1 DEF TakeError, Taken
  <2> QED
    BY <2>1, <2>2, <2>3 DEF Takes
<1>6. coll'.win = (IF TakeRace /\ h.err = "nil" THEN h.by ELSE coll.win)
  <2>1. CASE TakeRace
    BY <1>0, <2>1 DEF TakeRace, Taken
  <2>2. CASE TakeText
    BY <1>0, <1>k, <2>2 DEF TakeText, Taken
  <2>3. CASE TakeError
    <3>1. ~TakeRace
      BY <2>3 DEF TakeError, TakeRace, Arrived
    <3> QED
      BY <1>0, <2>3, <3>1 DEF TakeError, Taken
  <2> QED
    BY <2>1, <2>2, <2>3 DEF Takes
<1>7. /\ h = coll.results[1] /\ 1 \in DOMAIN coll.results /\ DOMAIN coll.results = 1 .. Len(coll.results) /\ Len(coll.results) \in Nat
      /\ DOMAIN t = 1 .. Len(coll.results) - 1 /\ \A i \in 1 .. Len(coll.results) - 1 : t[i] = coll.results[i + 1]
  <2>1. /\ coll.results \in Seq(Result) /\ Len(coll.results) \in Nat /\ Len(coll.results) >= 1
    BY <1>1, <1>2
  <2> QED
    BY <1>1, <2>1, HeadTailProperties
<1>a. Awaited' = {t[i].by : i \in DOMAIN t}
  BY <1>4 DEF Awaited
<1> HIDE DEF h, t
<1>8. h.by \in Awaited
  BY <1>7 DEF Awaited
<1>9. ASSUME NEW b \in Awaited PROVE b \in Awaited' \cup {h.by}
  <2>1. PICK i \in DOMAIN coll.results : b = coll.results[i].by
    BY DEF Awaited
  <2>2. CASE i = 1
    BY <1>7, <2>1, <2>2
  <2>3. CASE i # 1
    <3>1. i - 1 \in DOMAIN t /\ t[i - 1] = coll.results[i]
      BY <1>7, <2>3
    <3> QED
      BY <1>a, <2>1, <3>1
  <2> QED
    BY <2>2, <2>3
<1> QED
  BY <1>1, <1>2, <1>3, <1>4, <1>5, <1>6, <1>8, <1>9 DEF h, t

LEMMA StepResults ==
  ASSUME PhaseInv, Results, [Next]_vars
  PROVE  Results'
<1>0. Parallel \subseteq Agents /\ Over1 \subseteq Agents /\ coll.results \in Seq(Result) /\ DOMAIN coll.results = 1 .. Len(coll.results) /\ Len(coll.results) \in Nat
  BY Phase DEF Over1, TypeOK, Result
<1>1. CASE Merged
  <2>1. coll'.results = <<>>
    BY <1>1, Phase, PhaseStep DEF PhaseInv, TypeInv, Collected
  <2> QED
    BY <2>1 DEF Results
<1>2. \A b \in Over1 : run'[b] = run[b]
  BY <1>0, DoneKept DEF Over1
<1>3. ASSUME coll' = coll, Over1' = Over1 PROVE Results'
  BY <1>2, <1>3 DEF Results
<1>4. CASE Takes
  <2> DEFINE t == Tail(coll.results)
  <2>1. coll'.results = t /\ Over1' = Over1 /\ coll.results # <<>>
    BY <1>4, TakenAwaited
  <2>2. DOMAIN t = 1 .. Len(coll.results) - 1 /\ \A i \in 1 .. Len(coll.results) - 1 : t[i] = coll.results[i + 1]
    BY <1>0, <2>1, HeadTailProperties
  <2> HIDE DEF t
  <2>3. \A i \in DOMAIN t : i + 1 \in DOMAIN coll.results /\ t[i] = coll.results[i + 1]
    BY <1>0, <2>2
  <2>4. ASSUME NEW i \in DOMAIN t PROVE t[i].by \in Over1' /\ t[i].err = run'[t[i].by].err
    BY <1>2, <2>1, <2>3 DEF Results
  <2>5. ASSUME NEW i \in DOMAIN t, NEW j \in DOMAIN t, t[i].by = t[j].by PROVE i = j
    <3>1. i + 1 = j + 1
      BY <2>3, <2>5 DEF Results
    <3> QED
      BY <2>2, <3>1
  <2> QED
    BY <2>1, <2>4, <2>5 DEF Results
<1>5. ASSUME NEW a, NEW e, NEW c, Sends(a, e, c) PROVE Results'
  <2> DEFINE r == [by |-> a, err |-> e]
             s == Append(coll.results, r)
  <2>1. coll'.results = s /\ r \in Result /\ Over1' = Over1 \cup {a} /\ a \notin Over1 /\ run'[a].err = e
    BY <1>5, SentAwaited DEF Sends
  <2>2. /\ DOMAIN s = 1 .. Len(coll.results) + 1 /\ s[Len(coll.results) + 1] = r /\ r.by = a /\ r.err = e
        /\ \A i \in DOMAIN coll.results : s[i] = coll.results[i]
    BY <1>0, <2>1
  <2> HIDE DEF r, s
  <2>3. \A i \in DOMAIN s : i \in DOMAIN coll.results \/ i = Len(coll.results) + 1
    BY <1>0, <2>2
  <2>4. ASSUME NEW i \in DOMAIN s PROVE s[i].by \in Over1' /\ s[i].err = run'[s[i].by].err
    <3>1. CASE i \in DOMAIN coll.results
      BY <1>2, <2>1, <2>2, <3>1 DEF Results
    <3>2. CASE i = Len(coll.results) + 1
      BY <2>1, <2>2, <3>2
    <3> QED
      BY <2>3, <3>1, <3>2
  <2>5. ASSUME NEW i \in DOMAIN s, NEW j \in DOMAIN s, s[i].by = s[j].by PROVE i = j
    <3>1. \A k \in DOMAIN coll.results : s[k].by \in Over1
      BY <2>2 DEF Results
    <3>2. CASE i \in DOMAIN coll.results /\ j \in DOMAIN coll.results
      BY <2>2, <2>5, <3>2 DEF Results
    <3> QED
      BY <2>1, <2>2, <2>3, <2>5, <3>1, <3>2
  <2> QED
    BY <2>1, <2>4, <2>5 DEF Results
<1> QED
  BY <1>1, <1>3, <1>4, <1>5, CollSteps DEF Takes

\* A collector waits from the start of its agents on.
LEMMA WaitFrom ==
  ASSUME PhaseInv, [Next]_vars, main' = "wait"
  PROVE  main = "wait" \/ (Unstarted /\ (StartParallel \/ StartFirst))
<1>1. CASE Main
  BY <1>1 DEF Main, StartParallel, StartFirst, TakeRace, TakeText, TakeError, Synthesize, CloseFan, Receive, ReceiveEnd, Cancel,
              Handoff, HandoffStart, HandoffUnknown, HandoffJoins, ForwardNext, ForwardEmit, ForwardCancelled, Forwarded, Unstarted, Arrived
<1>2. ASSUME NEW a \in 0 .. N, Step(a) PROVE main = "wait"
  <2>1. CASE a = Classifier
    BY <1>2, <2>1, ClassifierSteps, Phase
  <2>2. CASE a \in Agents
    BY <1>2, <2>2, AgentMain, Phase DEF MainGoes
  <2> QED
    BY <2>1, <2>2, Phase
<1> QED
  BY <1>1, <1>2, Steps DEF vars

\* The last of n results is taken when they all have come.
LEMMA LastTaken ==
  ASSUME NEW l \in Nat, NEW k \in Nat, NEW c \in Nat, NEW n \in Nat, l + k = c, l >= 1, c <= n, ~(k + 1 < n)
  PROVE  c = n /\ l = 1
OBVIOUS

LEMMA StepRaced ==
  ASSUME PhaseInv, Results, Raced, [Next]_vars
  PROVE  Raced'
<1>0. flow' = flow /\ Agents' = Agents /\ Results' /\ PhaseInv' /\ Over1 \subseteq Agents /\ \A b \in Over1 : run'[b] = run[b]
  <2>1. Over1 \subseteq Agents
    BY Phase DEF Over1
  <2> QED
    BY <2>1, StepResults, PhaseStep, Phase, DoneKept DEF Over1
<1>a. SUFFICES ASSUME flow.kind = "race" PROVE Raced'
  BY <1>0 DEF Raced
<1>b. ~Merged /\ Parallel = Agents /\ Over1 = {b \in Agents : run[b].pc = "done"}
  BY <1>a DEF Merged, Parallel, Over1
<1>c. ctx => ctx'
  BY CtxKept
\* While the collector waits.
<1>1. ASSUME main' = "wait" PROVE \A b \in Over1' \ Awaited' : run'[b].err # "nil"
  <2>1. CASE main # "wait"
    <3>1. Over1 = {}
      BY <1>1, <1>b, <2>1, WaitFrom, Phase DEF Fresh
    <3>2. ~Takes
      BY <2>1, TakenAwaited
    <3>3. ASSUME NEW a, NEW e, NEW c, Sends(a, e, c) PROVE FALSE
      BY <1>1, <2>1, <3>3 DEF Sends
    <3>4. Over1' = {}
      BY <1>b, <3>1, <3>2, <3>3, CollSteps DEF Takes
    <3> QED
      BY <3>4
  <2>2. CASE main = "wait"
    <3>1. CASE coll' = coll /\ Over1' = Over1
      BY <1>0, <1>a, <2>2, <3>1 DEF Raced, Awaited
    <3>2. ASSUME NEW a, NEW e, NEW c, Sends(a, e, c) PROVE \A b \in Over1' \ Awaited' : run'[b].err # "nil"
      BY <1>0, <1>a, <2>2, <3>2, SentAwaited DEF Raced
    <3>3. CASE Takes
      <4>1. TakeRace
        BY <1>a, <3>3 DEF Takes, TakeText, TakeError, Arrived
      <4>2. Head(coll.results).err # "nil"
        BY <1>1, <4>1 DEF TakeRace, Decided
      <4>3. Head(coll.results).err = run[Head(coll.results).by].err
        <5>1. coll.results \in Seq(Result) /\ coll.results # <<>>
          BY <3>3, TakenAwaited
        <5>2. 1 \in DOMAIN coll.results /\ Head(coll.results) = coll.results[1]
          BY <5>1, HeadTailProperties
        <5> QED
          BY <5>2 DEF Results
      <4>4. \A b \in Over1 \ Awaited : run[b].err # "nil"
        BY <1>a, <2>2 DEF Raced
      <4>5. Over1' = Over1 /\ run' = run /\ Awaited \subseteq Awaited' \cup {Head(coll.results).by}
        BY <3>3, TakenAwaited
      <4> QED
        BY <4>2, <4>3, <4>4, <4>5
    <3> QED
      BY <1>b, <3>1, <3>2, <3>3, CollSteps DEF Takes
  <2> QED
    BY <2>1, <2>2
\* What it has come to stays so.
<1>2. CASE main \in {"text", "failed"}
  <2>1. main' = main
    BY <1>2, <1>a, MainKept, Phase
  <2>2. coll'.win = coll.win
    <3>1. ~Takes
      BY <1>2, TakenAwaited
    <3>2. ASSUME NEW a, NEW e, NEW c, Sends(a, e, c) PROVE coll'.win = coll.win
      BY <3>2, Phase DEF Sends, SendsResult, TypeOK
    <3> QED
      BY <1>b, <3>1, <3>2, CollSteps DEF Takes
  <2> QED
    BY <1>0, <1>2, <1>a, <1>b, <1>c, <2>1, <2>2 DEF Raced
\* What it comes to.
<1>3. CASE TakeRace
  <2> DEFINE h == Head(coll.results)
  <2>0. Takes /\ coll.results \in Seq(Result) /\ coll.results # <<>> /\ h \in Result /\ run' = run /\ main = "wait" /\ ctx' = ctx /\ Over1' = Over1
    BY <1>3, TakenAwaited DEF Takes
  <2>1. 1 \in DOMAIN coll.results /\ h = coll.results[1]
    BY <2>0, HeadTailProperties
  <2>2. h.by \in Over1 /\ h.err = run[h.by].err /\ h.by \in Agents
    BY <1>0, <2>1 DEF Results
  <2>3. main' = Decided(h) /\ coll'.win = (IF h.err = "nil" THEN h.by ELSE coll.win)
    BY <1>3, <2>0, TakenAwaited DEF TakeRace
  <2>4. CASE h.err = "nil"
    <3>1. main' = "text" /\ coll'.win = h.by
      BY <2>3, <2>4 DEF Decided
    <3>2. run[h.by].cut => ctx
      BY <1>b, <2>0, <2>2, Phase DEF AgentsOK, Agent
    <3> QED
      BY <1>0, <1>b, <2>0, <2>2, <2>4, <3>1, <3>2 DEF Raced
  <2>5. CASE h.err # "nil" /\ coll.taken + 1 < N
    <3>1. main' = "wait"
      BY <2>3, <2>5 DEF Decided
    <3> QED
      BY <1>1, <3>1 DEF Raced
  <2>6. CASE h.err # "nil" /\ ~(coll.taken + 1 < N)
    <3>1. main' = "failed"
      BY <2>3, <2>6 DEF Decided
    <3>2. Len(coll.results) + coll.taken = Cardinality(Over1) /\ Len(coll.results) \in Nat /\ Len(coll.results) >= 1 /\ coll.taken \in Nat
      <4>1. coll.taken \in 0 .. N /\ N \in Nat
        BY Phase DEF TypeOK
      <4> QED
        BY <1>b, <2>0, <4>1, Phase DEF TypeInv, Collected
    <3>3. IsFiniteSet(Agents) /\ Cardinality(Agents) = N /\ N \in Nat /\ Cardinality(Over1) \in Nat /\ Cardinality(Over1) <= N
      <4>1. IsFiniteSet(1 .. N) /\ Cardinality(1 .. N) = N /\ N \in Nat
        BY Phase, FS_Interval
      <4> QED
        BY <1>0, <4>1, Phase, FS_Subset, FS_CardinalityType
    <3>4. Cardinality(Over1) = N /\ Len(coll.results) = 1
      <4>1. ~(coll.taken + 1 < N)
        BY <2>6
      <4> QED
        BY <3>2, <3>3, <4>1, LastTaken
    <3>5. Over1 = Agents
      BY <1>0, <3>3, <3>4, FS_Subset
    <3>6. Awaited = {h.by}
      <4>1. DOMAIN coll.results = {1}
        BY <2>0, <3>4
      <4> QED
        BY <2>1, <4>1 DEF Awaited
    <3>7. \A b \in Agents : run[b].pc = "done" /\ run[b].err # "nil"
      BY <1>a, <1>b, <2>0, <2>2, <2>6, <3>5, <3>6 DEF Raced
    <3> QED
      BY <1>0, <2>0, <3>1, <3>7 DEF Raced
  <2> QED
    BY <2>4, <2>5, <2>6
<1>4. CASE main \notin {"text", "failed"} /\ ~TakeRace
  <2>1. main' \notin {"text", "failed"}
    <3>1. CASE Main
      <4>1. main # "text" /\ ~TakeText /\ ~TakeError
        BY <1>4, <1>a DEF TakeText, TakeError, Arrived
      <4> QED
        BY <1>4, <3>1, <4>1 DEF Main, StartParallel, StartFirst, Synthesize, CloseFan, Receive, ReceiveEnd, Cancel,
              Handoff, HandoffStart, HandoffUnknown, HandoffJoins, ForwardNext, ForwardEmit, ForwardCancelled, Forwarded
    <3>2. ASSUME NEW a \in 0 .. N, Step(a) PROVE main' = main
      <4>1. CASE a = Classifier
        BY <3>2, <4>1, ClassifierSteps, Phase
      <4>2. CASE a \in Agents
        BY <1>a, <3>2, <4>2, AgentMain, Phase DEF MainGoes, Sole
      <4> QED
        BY <4>1, <4>2, Phase
    <3> QED
      BY <1>4, <3>1, <3>2, Steps DEF vars
  <2> QED
    BY <1>1, <2>1 DEF Raced
<1> QED
  BY <1>2, <1>3, <1>4

\* The synthesizer is asked once.
LEMMA AskedOnce ==
  ASSUME PhaseInv, [Next]_vars, flow.kind = "fan_then"
  PROVE  asked'[N] = asked[N] \/ Synthesize
<1>0. asked \in [Agents -> Seq(0 .. Nobody)] /\ N \in Agents /\ N \notin Parallel
  BY Phase DEF TypeOK, Parallel
<1>1. CASE Main
  <2>1. CASE StartParallel
    BY <1>0, <2>1, Phase DEF StartParallel, Fresh, Unstarted
  <2>2. CASE StartFirst
    BY <2>2 DEF StartFirst
  <2>3. CASE TakeRace \/ TakeText \/ TakeError \/ CloseFan \/ Receive \/ ReceiveEnd \/ Cancel
    BY <2>3 DEF TakeRace, TakeText, TakeError, CloseFan, Receive, ReceiveEnd, Cancel
  <2>4. CASE Handoff \/ HandoffStart \/ HandoffUnknown \/ HandoffJoins \/ ForwardNext \/ ForwardEmit \/ ForwardCancelled \/ Forwarded
    BY <2>4 DEF Handoff, HandoffStart, HandoffUnknown, HandoffJoins, ForwardNext, ForwardEmit, ForwardCancelled, Forwarded, Splicing
  <2> QED
    BY <1>1, <2>1, <2>2, <2>3, <2>4 DEF Main
<1>2. ASSUME NEW a \in 0 .. N, Step(a) PROVE asked' = asked
  <2>1. CASE Called(a) \/ NotCalled(a) \/ ReadText(a) \/ Emit(a)
    BY <2>1 DEF Called, NotCalled, ReadText, Emit
  <2>2. ASSUME NEW e \in Error, NEW c \in BOOLEAN, Finishes(a, e, c) PROVE asked' = asked
    BY <2>2 DEF Finishes, LoopOver, FanOver, SendsResult, StageOver, Closes
  <2> QED
    BY <1>2, <2>1, <2>2 DEF Step
<1> QED
  BY <1>1, <1>2, Steps DEF vars

LEMMA StepSummed ==
  ASSUME PhaseInv, Results, Summed, [Next]_vars
  PROVE  Summed'
<1>0. flow' = flow /\ Agents' = Agents /\ N' = N /\ Parallel' = Parallel /\ Over1 \subseteq Parallel /\ Parallel \subseteq Agents /\ \A b \in Over1 : run'[b] = run[b]
  <2>1. Over1 \subseteq Parallel /\ Parallel \subseteq Agents
    BY Phase DEF Over1
  <2> QED
    BY <2>1, Phase, Fixed, DoneKept DEF Over1
<1>a. SUFFICES ASSUME flow.kind = "fan_then" PROVE Summed'
  BY <1>0 DEF Summed
<1>b. ~Merged /\ Parallel = Agents \ {N} /\ Over1 = {b \in Parallel : run[b].pc = "done"}
  BY <1>a DEF Merged, Parallel, Over1
<1>c. (ctx => ctx') /\ coll.texts \in [Agents -> 0 .. N]
  BY CtxKept, Phase DEF TypeOK
<1>1. ASSUME main' = "wait" PROVE \A b \in Over1' \ Awaited' : run'[b].err = "nil" /\ coll'.texts[b] = b
  <2>1. CASE main # "wait"
    <3>1. Over1 = {}
      BY <1>0, <1>1, <1>b, <2>1, WaitFrom, Phase DEF Fresh
    <3>2. ~Takes
      BY <2>1, TakenAwaited
    <3>3. ASSUME NEW a, NEW e, NEW c, Sends(a, e, c) PROVE FALSE
      BY <1>1, <2>1, <3>3 DEF Sends
    <3>4. Over1' = {}
      BY <1>b, <3>1, <3>2, <3>3, CollSteps DEF Takes
    <3> QED
      BY <3>4
  <2>2. CASE main = "wait"
    <3>1. CASE coll' = coll /\ Over1' = Over1
      BY <1>0, <1>a, <2>2, <3>1 DEF Summed, Awaited
    <3>2. ASSUME NEW a, NEW e, NEW c, Sends(a, e, c) PROVE \A b \in Over1' \ Awaited' : run'[b].err = "nil" /\ coll'.texts[b] = b
      <4>1. coll'.texts = coll.texts
        BY <3>2, Phase DEF Sends, SendsResult, TypeOK
      <4> QED
        BY <1>0, <1>a, <2>2, <3>2, <4>1, SentAwaited DEF Summed
    <3>3. CASE Takes
      <4> DEFINE h == Head(coll.results)
      <4>1. TakeText
        BY <1>1, <1>a, <3>3 DEF Takes, TakeRace, TakeError, Arrived
      <4>2. h.err = "nil" /\ coll'.texts = [coll.texts EXCEPT ![h.by] = h.by]
        BY <3>3, <4>1, TakenAwaited DEF TakeText, Place
      <4>3. h.err = run[h.by].err /\ h.by \in Over1
        <5>1. coll.results \in Seq(Result) /\ coll.results # <<>>
          BY <3>3, TakenAwaited
        <5>2. 1 \in DOMAIN coll.results /\ h = coll.results[1]
          BY <5>1, HeadTailProperties
        <5> QED
          BY <5>2 DEF Results
      <4>4. \A b \in Over1 \ Awaited : run[b].err = "nil" /\ coll.texts[b] = b
        BY <1>a, <2>2 DEF Summed
      <4>5. Over1' = Over1 /\ run' = run /\ Awaited \subseteq Awaited' \cup {h.by}
        BY <3>3, TakenAwaited
      <4> HIDE DEF h
      <4>6. \A b \in Over1 \ Awaited' : b = h.by \/ b \in Over1 \ Awaited
        BY <4>5
      <4>7. coll'.texts[h.by] = h.by /\ \A b \in Agents : b # h.by => coll'.texts[b] = coll.texts[b]
        BY <1>0, <1>c, <4>2, <4>3
      <4> QED
        BY <1>0, <4>2, <4>3, <4>4, <4>5, <4>6, <4>7
    <3> QED
      BY <1>b, <3>1, <3>2, <3>3, CollSteps DEF Takes
  <2> QED
    BY <2>1, <2>2
<1>2. ASSUME asked'[N] = asked[N], asked[N] # <<>> PROVE AnswersAreWhole'
  <2>1. /\ asked[N] = <<User>> \o [i \in 1 .. N - 1 |-> i]
        /\ \A b \in Parallel : run[b].pc = "done" /\ run[b].err = "nil" /\ (~ctx => ~run[b].cut)
    BY <1>2, <1>a DEF Summed, AnswersAreWhole
  <2>2. \A b \in Parallel : run'[b] = run[b]
    BY <1>0, <2>1, <1>b
  <2>3. User' = User
    BY DEF User
  <2> QED
    BY <1>0, <1>2, <1>a, <1>c, <2>1, <2>2, <2>3 DEF AnswersAreWhole
<1>3. CASE Synthesize
  <2>1. coll.taken = N - 1 /\ main = "wait" /\ ctx' = ctx
    BY <1>3 DEF Synthesize, Calling, Outside
  <2>2. N \in Nat /\ N >= 1 /\ Agents = 1 .. N /\ Len(coll.results) \in Nat /\ Len(coll.results) + coll.taken = Cardinality(Over1) /\ coll.results \in Seq(Result)
    BY <1>b, Phase DEF TypeInv, Collected, TypeOK, Result
  <2>3. IsFiniteSet(1 .. N - 1) /\ Cardinality(1 .. N - 1) = N - 1 /\ Parallel = 1 .. N - 1
    <3>1. Parallel = 1 .. N - 1
      BY <1>b, <2>2
    <3>2. IsFiniteSet(1 .. N - 1) /\ Cardinality(1 .. N - 1) = N - 1
      <4>1. N \in Nat /\ N >= 1
        BY <2>2
      <4> QED
        BY ONLY <4>1, FS_Interval
    <3> QED
      BY <3>1, <3>2
  <2>4. Cardinality(Over1) <= N - 1 /\ Cardinality(Over1) \in Nat
    BY <1>0, <2>3, FS_Subset, FS_CardinalityType
  <2>5. Len(coll.results) = 0 /\ Cardinality(Over1) = N - 1
    BY <2>1, <2>2, <2>4
  <2>6. Over1 = Parallel /\ Awaited = {}
    <3>1. Over1 = Parallel
      BY <1>0, <2>3, <2>5, FS_Subset
    <3>2. DOMAIN coll.results = {}
      BY <2>2, <2>5
    <3> QED
      BY <3>1, <3>2 DEF Awaited
  <2>7. \A b \in 1 .. N - 1 : run[b].pc = "done" /\ run[b].err = "nil" /\ coll.texts[b] = b /\ (~ctx => ~run[b].cut)
    <3>1. ASSUME NEW b \in 1 .. N - 1 PROVE run[b].pc = "done" /\ run[b].err = "nil" /\ coll.texts[b] = b
      BY <1>a, <1>b, <2>1, <2>3, <2>6, <3>1 DEF Summed
    <3>2. ASSUME NEW b \in 1 .. N - 1 PROVE ~ctx => ~run[b].cut
      <4>1. b \in 0 .. N
        BY <2>2
      <4> QED
        BY <1>a, <4>1, Phase DEF AgentsOK, Agent
    <3> QED
      BY <3>1, <3>2
  <2>8. SubSeq(coll.texts, 1, N - 1) = [i \in 1 .. N - 1 |-> i]
    <3>1. SubSeq(coll.texts, 1, N - 1) = [i \in 1 .. N - 1 |-> coll.texts[i]]
      BY <2>2
    <3> QED
      BY <2>7, <3>1
  <2>9. Messages(User) = <<User>>
    BY DEF Messages
  <2>10. asked'[N] = <<User>> \o [i \in 1 .. N - 1 |-> i]
    <3>1. asked \in [Agents -> Seq(0 .. Nobody)] /\ N \in Agents
      BY Phase DEF TypeOK
    <3>2. asked' = [asked EXCEPT ![N] = Messages(User) \o SubSeq(coll.texts, 1, N - 1)]
      BY <1>3 DEF Synthesize, Asks
    <3> QED
      BY <2>8, <2>9, <3>1, <3>2
  <2>11. \A b \in Parallel : run'[b] = run[b]
    BY <1>0, <2>6
  <2>12. AnswersAreWhole'
    <3>1. User' = User
      BY DEF User
    <3> QED
      BY <1>0, <1>a, <2>1, <2>3, <2>7, <2>10, <2>11, <3>1 DEF AnswersAreWhole
  <2> QED
    BY <1>1, <2>12 DEF Summed
<1>4. CASE asked'[N] = asked[N]
  BY <1>0, <1>1, <1>2, <1>4 DEF Summed
<1> QED
  BY <1>3, <1>4, <1>a, AskedOnce

\* The answers are whole: the winner of a Race has succeeded, or all have failed; the
\* synthesizer has the texts of all the others, each of which has succeeded.
THEOREM AnswersAreWholeAlways == Spec => []AnswersAreWhole
<1>1. Init => AnswerInv
  <2> SUFFICES ASSUME Init PROVE AnswerInv
    OBVIOUS
  <2>1. PhaseInv
    BY PhaseInit
  <2>2. Unstarted /\ main \in {"idle", "start"} /\ coll.results = <<>> /\ N \in Agents /\ \A a \in Agents : asked[a] = <<>>
    BY <2>1, FlowFacts DEF Init, Unstarted
  <2> QED
    BY <2>1, <2>2 DEF AnswerInv, Results, Raced, Summed
<1>2. AnswerInv /\ [Next]_vars => AnswerInv'
  BY PhaseStep, StepResults, StepRaced, StepSummed DEF AnswerInv
<1>3. AnswerInv => AnswersAreWhole
  BY DEF AnswerInv, Raced, Summed, AnswersAreWhole
<1> QED
  BY <1>1, <1>2, <1>3, PTL DEF Spec

(***************************************************************************)
(* Sequences of frames.                                                    *)
(***************************************************************************)
LEMMA ConcatAppend ==
  ASSUME NEW S, NEW s \in Seq(S), NEW t \in Seq(S), NEW e \in S
  PROVE  s \o Append(t, e) = Append(s \o t, e)
<1>1. Append(t, e) = t \o <<e>> /\ <<e>> \in Seq(S) /\ s \o t \in Seq(S)
  BY AppendIsConcat, ConcatProperties
<1>2. Append(s \o t, e) = (s \o t) \o <<e>>
  BY <1>1, AppendIsConcat
<1> QED
  BY <1>1, <1>2, ConcatAssociative

LEMMA MoveHead ==
  ASSUME NEW S, NEW s \in Seq(S), NEW e \in S, NEW t \in Seq(S)
  PROVE  Append(s, e) \o t = s \o (<<e>> \o t)
<1>1. Append(s, e) = s \o <<e>> /\ <<e>> \in Seq(S)
  BY AppendIsConcat
<1> QED
  BY <1>1, ConcatAssociative

LEMMA HeadTailConcat ==
  ASSUME NEW S, NEW t \in Seq(S), t # <<>>
  PROVE  <<Head(t)>> \o Tail(t) = t
<1>1. Head(t) \in S /\ Tail(t) \in Seq(S) /\ Len(Tail(t)) = Len(t) - 1 /\ (\A i \in 1 .. Len(Tail(t)) : Tail(t)[i] = t[i + 1]) /\ Head(t) = t[1]
  BY HeadTailProperties
<1> DEFINE h == Head(t)
           u == Tail(t)
<1>2. <<h>> \in Seq(S) /\ Len(<<h>>) = 1 /\ <<h>>[1] = h
  BY <1>1
<1> HIDE DEF h, u
<1>3. <<h>> \o u \in Seq(S) /\ Len(<<h>> \o u) = 1 + Len(u) /\ \A i \in 1 .. 1 + Len(u) : (<<h>> \o u)[i] = IF i <= 1 THEN <<h>>[i] ELSE u[i - 1]
  BY <1>1, <1>2, ConcatProperties DEF h, u
<1>4. Len(<<h>> \o u) = Len(t) /\ Len(t) \in Nat
  BY <1>1, <1>3 DEF u
<1>5. ASSUME NEW i \in 1 .. Len(t) PROVE (<<h>> \o u)[i] = t[i]
  <2>1. CASE i = 1
    BY <1>1, <1>2, <1>3, <1>4, <2>1 DEF h
  <2>2. CASE i # 1
    <3>1. i - 1 \in 1 .. Len(u) /\ u[i - 1] = t[i]
      BY <1>1, <1>4, <2>2 DEF u
    <3> QED
      BY <1>3, <1>4, <2>2, <3>1
  <2> QED
    BY <2>1, <2>2
<1> QED
  BY <1>3, <1>4, <1>5, SeqEqual DEF h, u

LEMMA RowMore ==
  ASSUME NEW s \in Seq(Frame), NEW f \in Frame, NEW a, NEW k \in Nat,
         InRow(s, a), \A i \in DOMAIN s : From(s[i], a) => s[i].n \in 1 .. k,
         From(f, a) => f = Text(a, k + 1) /\ HasAll(s, a, k)
  PROVE  /\ InRow(Append(s, f), a)
         /\ \A i \in DOMAIN Append(s, f) : From(Append(s, f)[i], a) => Append(s, f)[i].n \in 1 .. (IF From(f, a) THEN k + 1 ELSE k)
         /\ HasAll(s, a, k) => HasAll(Append(s, f), a, IF From(f, a) THEN k + 1 ELSE k)
<1> DEFINE t == Append(s, f)
           l == Len(s)
<1>1. /\ l \in Nat /\ DOMAIN t = 1 .. l + 1 /\ DOMAIN s = 1 .. l /\ t[l + 1] = f /\ \A i \in 1 .. l : t[i] = s[i]
  BY AppendProperties
<1> HIDE DEF t, l
<1>2. \A i \in DOMAIN t : i \in 1 .. l \/ i = l + 1
  BY <1>1
<1>3. From(f, a) => f.n = k + 1
  BY DEF Text
<1>4. ASSUME NEW i \in DOMAIN t, From(t[i], a)
      PROVE  /\ \A j \in 1 .. i - 1 : From(t[j], a) => t[j].n < t[i].n
             /\ \A m \in 1 .. t[i].n - 1 : \E j \in 1 .. i - 1 : t[j] = Text(a, m)
  <2>1. CASE i \in 1 .. l
    <3>1. t[i] = s[i] /\ \A j \in 1 .. i - 1 : j \in 1 .. l /\ t[j] = s[j]
      BY <1>1, <2>1
    <3>2. /\ \A j \in 1 .. i - 1 : From(s[j], a) => s[j].n < s[i].n
          /\ \A m \in 1 .. s[i].n - 1 : \E j \in 1 .. i - 1 : s[j] = Text(a, m)
      BY <1>1, <1>4, <2>1, <3>1 DEF InRow
    <3> QED
      BY <3>1, <3>2
  <2>2. CASE i = l + 1
    <3>1. From(f, a) /\ t[i] = f /\ t[i].n = k + 1 /\ i - 1 = l /\ k + 1 - 1 = k
      BY <1>1, <1>3, <1>4, <2>2
    <3>2. ASSUME NEW j \in 1 .. l, From(t[j], a) PROVE t[j].n < k + 1
      <4>1. s[j].n \in 1 .. k
        BY <1>1, <3>2
      <4> QED
        BY <1>1, <4>1
    <3>3. ASSUME NEW m \in 1 .. k PROVE \E j \in 1 .. l : t[j] = Text(a, m)
      BY <1>1, <3>1 DEF HasAll
    <3> QED
      BY <3>1, <3>2, <3>3
  <2> QED
    BY <1>2, <2>1, <2>2
<1>5. ASSUME NEW i \in DOMAIN t, From(t[i], a) PROVE t[i].n \in 1 .. (IF From(f, a) THEN k + 1 ELSE k)
  <2>1. CASE i \in 1 .. l
    <3>1. t[i].n \in 1 .. k
      BY <1>1, <1>5, <2>1
    <3> QED
      BY <3>1
  <2>2. CASE i = l + 1
    <3>1. From(f, a) /\ t[i].n = k + 1
      BY <1>1, <1>3, <1>5, <2>2
    <3> QED
      BY <3>1
  <2> QED
    BY <1>2, <2>1, <2>2
<1>6. ASSUME HasAll(s, a, k) PROVE HasAll(t, a, IF From(f, a) THEN k + 1 ELSE k)
  <2>1. ASSUME NEW m \in 1 .. k PROVE \E i \in DOMAIN t : t[i] = Text(a, m)
    <3>1. PICK i \in DOMAIN s : s[i] = Text(a, m)
      BY <1>6 DEF HasAll
    <3> QED
      BY <1>1, <3>1
  <2>2. From(f, a) => \E i \in DOMAIN t : t[i] = Text(a, k + 1)
    <3>1. l + 1 \in DOMAIN t
      BY <1>1
    <3> QED
      BY <1>1, <3>1
  <2>3. \A m \in 1 .. k + 1 : m \in 1 .. k \/ m = k + 1
    OBVIOUS
  <2> QED
    BY <2>1, <2>2, <2>3 DEF HasAll
<1>7. InRow(t, a)
  BY <1>4 DEF InRow
<1> QED
  BY <1>5, <1>6, <1>7 DEF t

LEMMA RowLess ==
  ASSUME NEW s \in Seq(Frame), NEW u \in Seq(Frame), NEW a, InRow(s \o u, a)
  PROVE  InRow(s, a)
<1> DEFINE t == s \o u
<1>1. DOMAIN s = 1 .. Len(s) /\ Len(s) \in Nat /\ DOMAIN t = 1 .. Len(s) + Len(u) /\ Len(u) \in Nat /\ \A i \in 1 .. Len(s) : t[i] = s[i]
  BY ConcatProperties
<1>2. InRow(t, a)
  OBVIOUS
<1> HIDE DEF t
<1>3. ASSUME NEW i \in DOMAIN s, From(s[i], a)
      PROVE  /\ \A j \in 1 .. i - 1 : From(s[j], a) => s[j].n < s[i].n
             /\ \A m \in 1 .. s[i].n - 1 : \E j \in 1 .. i - 1 : s[j] = Text(a, m)
  <2>1. i \in DOMAIN t /\ t[i] = s[i] /\ \A j \in 1 .. i - 1 : t[j] = s[j]
    BY <1>1
  <2> QED
    BY <1>2, <1>3, <2>1 DEF InRow
<1> QED
  BY <1>3 DEF InRow

(***************************************************************************)
(* The way to the caller: what a step adds to it, or takes from it.        *)
(***************************************************************************)
Queue == str["out"].frames
TopQueue == str["top"].frames
Held == IF front.pc = "emit" THEN <<front.held>> ELSE <<>>

LEMMA WayTyped ==
  ASSUME PhaseInv
  PROVE  /\ Queue \in Seq(Frame) /\ TopQueue \in Seq(Frame) /\ Held \in Seq(Frame) /\ got.frames \in Seq(Frame) /\ front.held \in Frame
         /\ Behind \in Seq(Frame) /\ got.frames \o TopQueue \in Seq(Frame) /\ Way \in Seq(Frame)
         /\ Behind = (IF Apart THEN <<>> ELSE Held \o Queue) /\ Way = (got.frames \o TopQueue) \o Behind
<1>1. Queue \in Seq(Frame) /\ TopQueue \in Seq(Frame) /\ got.frames \in Seq(Frame) /\ front.held \in Frame
  BY DEF PhaseInv, TypeInv, TypeOK, Stream, Queue, TopQueue
<1>2. Held \in Seq(Frame)
  BY <1>1 DEF Held
<1>3. Behind = (IF Apart THEN <<>> ELSE Held \o Queue) /\ Way = (got.frames \o TopQueue) \o Behind
  BY DEF Behind, Way, Apart, Held, Queue, TopQueue
<1>4. Behind \in Seq(Frame)
  BY <1>1, <1>2, <1>3, ConcatProperties
<1>5. got.frames \o TopQueue \in Seq(Frame)
  BY <1>1, ConcatProperties
<1>6. Way \in Seq(Frame)
  BY <1>3, <1>4, <1>5, ConcatProperties
<1> QED
  BY <1>1, <1>2, <1>3, <1>4, <1>5, <1>6

LEMMA WayThen ==
  ASSUME PhaseInv, [Next]_vars
  PROVE  /\ Behind' = (IF Apart' THEN <<>> ELSE Held' \o Queue') /\ Way' = (got'.frames \o TopQueue') \o Behind'
         /\ Way' \in Seq(Frame)
<1>1. TypeOK'
  BY PhaseStep DEF PhaseInv, TypeInv
<1>2. Queue' \in Seq(Frame) /\ TopQueue' \in Seq(Frame) /\ got'.frames \in Seq(Frame) /\ front'.held \in Frame
  BY <1>1 DEF TypeOK, Stream, Queue, TopQueue
<1>3. Held' \in Seq(Frame)
  BY <1>2 DEF Held
<1>4. Behind' = (IF Apart' THEN <<>> ELSE Held' \o Queue') /\ Way' = (got'.frames \o TopQueue') \o Behind'
  BY DEF Behind, Way, Apart, Held, Queue, TopQueue
<1>5. Behind' \in Seq(Frame) /\ got'.frames \o TopQueue' \in Seq(Frame)
  BY <1>2, <1>3, <1>4, ConcatProperties
<1> QED
  BY <1>4, <1>5, ConcatProperties

LEMMA TopMore ==
  ASSUME PhaseInv, NEW f \in Frame
  PROVE  /\ got.frames \o Append(TopQueue, f) = Append(got.frames \o TopQueue, f)
         /\ (got.frames \o TopQueue) \o Append(Behind, f) = Append(Way, f)
         /\ Append(got.frames \o TopQueue, f) \o Queue = (got.frames \o TopQueue) \o (<<f>> \o Queue)
<1> DEFINE g == got.frames
           t == TopQueue
           q == Queue
           b == Behind
<1>1. g \in Seq(Frame) /\ t \in Seq(Frame) /\ q \in Seq(Frame) /\ b \in Seq(Frame) /\ g \o t \in Seq(Frame) /\ Way = (g \o t) \o b
  BY WayTyped
<1> HIDE DEF g, t, q, b
<1>2. g \o Append(t, f) = Append(g \o t, f)
  BY <1>1, ConcatAppend
<1>3. (g \o t) \o Append(b, f) = Append((g \o t) \o b, f)
  BY <1>1, ConcatAppend
<1>4. Append(g \o t, f) \o q = (g \o t) \o (<<f>> \o q)
  <2> DEFINE s == g \o t
  <2>1. s \in Seq(Frame)
    BY <1>1
  <2> HIDE DEF s
  <2>2. Append(s, f) \o q = s \o (<<f>> \o q)
    BY ONLY <1>1, <2>1, MoveHead, f \in Frame
  <2> QED
    BY <2>2 DEF s
<1> QED
  BY <1>1, <1>2, <1>3, <1>4 DEF g, t, q, b

LEMMA TopTaken ==
  ASSUME PhaseInv, TopQueue # <<>>
  PROVE  Append(got.frames, Head(TopQueue)) \o Tail(TopQueue) = got.frames \o TopQueue
<1> DEFINE g == got.frames
           t == TopQueue
<1>1. g \in Seq(Frame) /\ t \in Seq(Frame) /\ t # <<>>
  BY WayTyped
<1> HIDE DEF g, t
<1>2. Head(t) \in Frame /\ Tail(t) \in Seq(Frame) /\ <<Head(t)>> \o Tail(t) = t
  BY <1>1, HeadTailProperties, HeadTailConcat
<1>3. Append(g, Head(t)) \o Tail(t) = g \o t
  BY <1>1, <1>2, MoveHead
<1> QED
  BY <1>3 DEF g, t

\* A step that leaves the streams and what resolveHandoff holds as they are.
LEMMA WaySame ==
  ASSUME PhaseInv, [Next]_vars, got'.frames = got.frames, TopQueue' = TopQueue, Queue' = Queue, Held' = Held,
         Apart' <=> Apart
  PROVE  Way' = Way
BY WayTyped, WayThen

\* Before its workflow has begun, and when it has been handed over, nothing is behind.
LEMMA NothingBehind ==
  ASSUME PhaseInv, front.pc # "emit", Unstarted \/ main \in {"text", "failed", "wait"} \/ Queue = <<>>
  PROVE  Held = <<>> /\ Queue = <<>> /\ Behind = <<>>
<1>1. Queue = <<>>
  <2>1. Fresh /\ Out /\ Kinds
    BY DEF PhaseInv
  <2>2. Unstarted => Queue = <<>>
    BY <2>1 DEF Fresh, NewStream, Queue
  <2>3. ~Merged /\ main # "stream" => Queue = <<>>
    BY <2>1 DEF Out, Queue
  <2>4. Merged /\ ~Unstarted => main = "stream"
    BY <2>1 DEF Kinds
  <2> QED
    BY <2>2, <2>3, <2>4 DEF Unstarted
<1>2. Held = <<>>
  BY DEF Held
<1> QED
  BY <1>1, <1>2, WayTyped

\* What resolveHandoff lets go of when it fails.
LEMMA FailsWay ==
  ASSUME PhaseInv, [Next]_vars, NEW e, HandoffFails(e), UNCHANGED got, front.pc # "idle"
  PROVE  Way = Way' \o Behind /\ Behind \in Seq(Frame) /\ Way' \in Seq(Frame) /\ Apart' /\ (Behind = <<>> => Way' = Way)
<1>0. flow' = flow /\ flow.entry = "handoff" /\ TypeOK /\ run[Classifier] \in Run
  BY Phase DEF Called0
<1>1. Apart'
  BY <1>0, FailsAside DEF Apart, Run
<1>2. TopQueue' = TopQueue
  <2>1. str'["top"] = [str["top"] EXCEPT !.closed = TRUE, !.err = e] /\ str["top"] \in Stream
    BY <1>0, FailsAside, Phase
  <2> QED
    BY <2>1 DEF TopQueue, Stream
<1>3. Behind' = <<>> /\ Way' = (got.frames \o TopQueue) \o <<>> /\ Way' \in Seq(Frame)
  BY <1>1, <1>2, WayTyped, WayThen
<1>4. Way' = got.frames \o TopQueue
  BY <1>3, WayTyped, ConcatEmptySeq
<1>5. Way = Way' \o Behind
  BY <1>4, WayTyped
<1>6. Behind = <<>> => Way' = Way
  BY <1>3, <1>5, ConcatEmptySeq
<1> QED
  BY <1>1, <1>3, <1>5, <1>6, WayTyped

Loses == ForwardCancelled /\ Apart' /\ Way' \in Seq(Frame) /\ \E u \in Seq(Frame) : Way = Way' \o u
Announces == HandoffStart /\ Way' = Append(Way, Announced)

\* The announcement is the first that its workflow puts on the way.
LEMMA StartWay ==
  ASSUME PhaseInv, [Next]_vars, HandoffStart, Put("top", Announced)
  PROVE  Announces
<1>0. flow' = flow /\ TypeOK /\ str["out"] \in Stream /\ str["top"] \in Stream
  BY Phase
<1>1. Unstarted /\ front.pc = "start" /\ ~Apart /\ front'.pc = "join" /\ got' = got /\ run' = run
  <2>1. front.pc = "start" /\ front'.pc = "join" /\ got' = got /\ run' = run
    BY <1>0 DEF HandoffStart, Splicing, Outside, TypeOK
  <2> QED
    BY <2>1, Phase DEF Front, Called0, Unstarted, Apart
<1>2. Behind = <<>> /\ Held = <<>> /\ Queue = <<>>
  BY <1>1, NothingBehind
<1>3. str'["top"] = [str["top"] EXCEPT !.frames = Append(@, Announced)] /\ str'["out"] = str["out"]
  BY Phase DEF Put
<1>4. TopQueue' = Append(TopQueue, Announced) /\ Queue' = <<>> /\ Held' = <<>>
  BY <1>0, <1>1, <1>2, <1>3 DEF TopQueue, Queue, Held, Stream
<1>5. Behind' = <<>> /\ Way' = (got.frames \o Append(TopQueue, Announced)) \o <<>>
  <2>1. ~Apart'
    BY <1>0, <1>1 DEF Apart
  <2>2. Behind' = <<>> \o <<>>
    BY <1>4, <2>1, WayThen
  <2>3. <<>> \o <<>> = <<>>
    BY ConcatEmptySeq, EmptySeq
  <2>4. Behind' = <<>>
    BY <2>2, <2>3
  <2> QED
    BY <1>1, <1>4, <2>4, WayThen
<1>6. Announced \in Frame
  BY Phase, FlowFacts DEF Announced, Frame, Classifier, TypeOK
<1>7. got.frames \o Append(TopQueue, Announced) = Append(got.frames \o TopQueue, Announced)
  BY <1>6, TopMore
<1>8. Way = got.frames \o TopQueue
  BY <1>2, WayTyped, ConcatEmptySeq
<1>9. Append(got.frames \o TopQueue, Announced) \in Seq(Frame)
  BY <1>6, WayTyped, AppendProperties
<1>10. Way' = Append(Way, Announced)
  BY <1>5, <1>7, <1>8, <1>9, ConcatEmptySeq
<1> QED
  BY <1>10 DEF Announces

LEMMA MainWay ==
  ASSUME PhaseInv, [Next]_vars, Main
  PROVE  Way' = Way \/ Announces \/ Loses
<1>0. flow' = flow /\ TypeOK /\ str["out"] \in Stream /\ str["top"] \in Stream /\ run[Classifier] \in Run
  BY Phase
<1>f. front \in [pc : {"idle", "start", "join", "forward", "emit"}, held : Frame, handed : BOOLEAN] /\ got \in [frames : Seq(Frame), ended : BOOLEAN, err : Error]
  BY <1>0 DEF TypeOK
<1>1. CASE StartParallel \/ StartFirst \/ TakeRace \/ TakeText \/ TakeError \/ Synthesize
  <2>1. str' = str /\ front' = front /\ got' = got
    BY <1>1 DEF StartParallel, StartFirst, TakeRace, TakeText, TakeError, Synthesize, Calling, Outside
  <2>2. run'[Classifier] = run[Classifier]
    <3>1. CASE StartParallel
      BY <3>1, Phase DEF StartParallel
    <3>2. CASE StartFirst
      BY <3>2, Phase DEF StartFirst, Asks, Classifier
    <3>3. CASE Synthesize
      BY <3>3, Phase DEF Synthesize, Asks
    <3> QED
      BY <1>1, <3>1, <3>2, <3>3 DEF TakeRace, TakeText, TakeError
  <2> QED
    BY <1>0, <2>1, <2>2, WaySame DEF TopQueue, Queue, Held, Apart
<1>2. CASE CloseFan
  <2>1. str'["out"] = [str["out"] EXCEPT !.closed = TRUE, !.err = fan.first] /\ str'["top"] = str["top"]
    BY <1>2, Phase DEF CloseFan, Finish
  <2>2. Queue' = Queue /\ TopQueue' = TopQueue
    BY <1>0, <2>1 DEF Queue, TopQueue, Stream
  <2> QED
    BY <1>0, <1>2, <2>2, WaySame DEF CloseFan, Outside, Held, Apart
<1>3. CASE ReceiveEnd
  <2>1. got'.frames = got.frames
    BY <1>3, <1>f DEF ReceiveEnd
  <2> QED
    BY <1>0, <1>3, <2>1, WaySame DEF ReceiveEnd, Queue, TopQueue, Held, Apart
<1>4. CASE Cancel
  BY <1>0, <1>4, WaySame DEF Cancel, Queue, TopQueue, Held, Apart
<1>5. CASE Handoff
  <2>1. Held' = Held
    BY <1>5, <1>f DEF Handoff, InLoop, Held
  <2> QED
    BY <1>0, <1>5, <2>1, WaySame DEF Handoff, Splicing, Outside, Queue, TopQueue, Apart
<1>6. CASE HandoffStart
  <2>1. Unstarted /\ front.pc = "start" /\ ~Apart /\ front'.pc = "join" /\ got' = got /\ run' = run
    <3>1. front.pc = "start" /\ front'.pc = "join" /\ got' = got /\ run' = run
      BY <1>6, <1>f DEF HandoffStart, Splicing, Outside
    <3> QED
      BY <3>1, Phase DEF Front, Called0, Unstarted, Apart
  <2>2. Behind = <<>> /\ Held = <<>> /\ Queue = <<>>
    BY <2>1, NothingBehind
  <2>3. CASE str' = str
    <3>1. Held' = Held
      BY <2>1, <2>2 DEF Held
    <3> QED
      BY <1>0, <2>1, <2>3, <3>1, WaySame DEF Queue, TopQueue, Apart
  <2>4. CASE Put("top", Announced)
    BY <1>6, <2>4, StartWay
  <2> QED
    BY <1>6, <2>3, <2>4 DEF HandoffStart
<1>7. CASE HandoffUnknown
  <2>1. HandoffFails("target") /\ front.pc = "join" /\ main = "start" /\ got' = got
    BY <1>7 DEF HandoffUnknown, Splicing, Outside
  <2>2. Behind = <<>>
    BY <2>1, NothingBehind DEF Unstarted
  <2> QED
    BY <2>1, <2>2, FailsWay
<1>8. CASE HandoffJoins
  <2>1. CASE main = "failed" /\ HandoffFails("call")
    <3>1. front.pc = "join" /\ got' = got
      BY <1>8 DEF HandoffJoins, Splicing, Outside
    <3>2. Behind = <<>>
      BY <2>1, <3>1, NothingBehind
    <3> QED
      BY <2>1, <3>1, <3>2, FailsWay
  <2>2. CASE run' = run /\ str' = str /\ front.pc = "join" /\ front'.pc # "emit"
    BY <1>0, <1>8, <2>2, WaySame DEF HandoffJoins, Splicing, Outside, Queue, TopQueue, Held, Apart
  <2> QED
    BY <1>8, <1>f, <2>1, <2>2 DEF HandoffJoins
<1>9. CASE ForwardNext
  <2>1. /\ str'["out"] = [str["out"] EXCEPT !.frames = Tail(@)] /\ str'["top"] = str["top"] /\ Queue # <<>>
        /\ front.pc = "forward" /\ front'.pc = "emit" /\ front'.held = Head(Queue) /\ run' = run /\ got' = got
    BY <1>9, <1>f, Phase DEF ForwardNext, Splicing, Outside, Queue
  <2>2. ~Apart /\ ~Apart'
    <3>1. ~Apart
      BY <2>1, Phase DEF Front, Apart
    <3> QED
      BY <1>0, <2>1, <3>1 DEF Apart
  <2>3. Queue' = Tail(Queue) /\ TopQueue' = TopQueue /\ Held = <<>> /\ Held' = <<Head(Queue)>>
    BY <1>0, <2>1 DEF Queue, TopQueue, Held, Stream
  <2>4. Behind = <<>> \o Queue /\ Behind' = <<Head(Queue)>> \o Tail(Queue)
    BY <2>2, <2>3, WayTyped, WayThen
  <2>5. Behind' = Behind
    BY <2>1, <2>4, WayTyped, ConcatEmptySeq, HeadTailConcat
  <2>6. Way' = (got.frames \o TopQueue) \o Behind'
    BY <2>1, <2>3, WayTyped, WayThen
  <2> QED
    BY <2>5, <2>6, WayTyped
<1>10. CASE ForwardEmit
  <2>1. /\ str'["top"] = [str["top"] EXCEPT !.frames = Append(@, front.held)] /\ str'["out"] = str["out"]
        /\ front.pc = "emit" /\ front'.pc = "forward" /\ run' = run /\ got' = got
    BY <1>10, <1>f, Phase DEF ForwardEmit, Put, Splicing, Outside
  <2>2. ~Apart /\ ~Apart'
    <3>1. ~Apart
      BY <2>1, Phase DEF Front, Apart
    <3> QED
      BY <1>0, <2>1, <3>1 DEF Apart
  <2> DEFINE h == front.held
  <2>3. Queue' = Queue /\ TopQueue' = Append(TopQueue, h) /\ Held = <<h>> /\ Held' = <<>>
    BY <1>0, <2>1 DEF Queue, TopQueue, Held, Stream
  <2>4. Behind = <<h>> \o Queue /\ Behind' = <<>> \o Queue
    BY <2>2, <2>3, WayTyped, WayThen
  <2>5. Way' = (got.frames \o Append(TopQueue, h)) \o Queue
    BY <2>1, <2>3, <2>4, WayTyped, WayThen, ConcatEmptySeq
  <2>6. h \in Frame
    BY WayTyped
  <2> HIDE DEF h
  <2>7. got.frames \o Append(TopQueue, h) = Append(got.frames \o TopQueue, h)
    BY <2>6, TopMore
  <2>8. Append(got.frames \o TopQueue, h) \o Queue = (got.frames \o TopQueue) \o (<<h>> \o Queue)
    BY <2>6, TopMore
  <2> QED
    BY <2>4, <2>5, <2>7, <2>8, WayTyped
<1>11. CASE ForwardCancelled
  <2>1. HandoffFails("ctx") /\ front.pc # "idle" /\ got' = got
    BY <1>11 DEF ForwardCancelled, Splicing, Outside
  <2> QED
    BY <1>11, <2>1, FailsWay DEF Loses
<1>12. CASE Forwarded
  <2>0. front.pc = "forward" /\ Queue = <<>> /\ got' = got
    BY <1>12 DEF Forwarded, Splicing, Outside, Queue
  <2>1. CASE str["out"].err # "nil"
    <3>1. HandoffFails(str["out"].err)
      BY <1>12, <2>1 DEF Forwarded, ForwardEnds
    <3>2. Behind = <<>>
      BY <2>0, NothingBehind
    <3> QED
      BY <2>0, <3>1, <3>2, FailsWay
  <2>2. CASE str["out"].err = "nil"
    <3>1. str'["top"] = [str["top"] EXCEPT !.resp = str["out"].resp] /\ str'["out"] = str["out"] /\ front'.pc = "idle" /\ run' = run
      BY <1>12, <1>f, <2>2, Phase DEF Forwarded, ForwardEnds
    <3>2. TopQueue' = TopQueue /\ Queue' = Queue /\ Held' = Held
      BY <1>0, <2>0, <3>1 DEF TopQueue, Queue, Held, Stream
    <3> QED
      BY <1>0, <2>0, <3>1, <3>2, WaySame DEF Apart
  <2> QED
    BY <2>1, <2>2
<1>13. CASE Receive
  <2>0. got'.frames = Append(got.frames, Head(str[Read].frames)) /\ str[Read].frames # <<>> /\ run' = run /\ front' = front /\ str' = [str EXCEPT ![Read].frames = Tail(@)]
    BY <1>13, <1>f DEF Receive
  <2>a. Apart' = Apart /\ Held' = Held
    BY <1>0, <2>0 DEF Apart, Held
  <2> DEFINE g == got.frames
  <2>1. CASE flow.entry = "handoff"
    <3>1. Read = "top"
      BY <2>1 DEF Read
    <3>2. Queue' = Queue /\ TopQueue' = Tail(TopQueue) /\ TopQueue # <<>> /\ got'.frames = Append(g, Head(TopQueue))
      BY <1>0, <2>0, <3>1, Phase DEF Queue, TopQueue, Stream
    <3>3. Behind' = Behind
      BY <2>a, <3>2, WayTyped, WayThen
    <3>4. Way' = (Append(g, Head(TopQueue)) \o Tail(TopQueue)) \o Behind
      BY <3>2, <3>3, WayTyped, WayThen
    <3>6. Append(g, Head(TopQueue)) \o Tail(TopQueue) = g \o TopQueue
      BY <3>2, TopTaken
    <3> QED
      BY <3>4, <3>6, WayTyped
  <2>2. CASE flow.entry # "handoff"
    <3>1. Read = "out" /\ flow.entry = "call"
      BY <2>2, Phase DEF Read
    <3>2. Queue' = Tail(Queue) /\ Queue # <<>> /\ TopQueue' = TopQueue /\ got'.frames = Append(g, Head(Queue))
      BY <1>0, <2>0, <3>1, Phase DEF Queue, TopQueue, Stream
    <3>3. TopQueue = <<>> /\ Held = <<>> /\ ~Apart
      BY <3>1, Phase DEF Called0, NewStream, TopQueue, Held, Apart
    <3>4. Way = (g \o <<>>) \o (<<>> \o Queue) /\ Way' = (Append(g, Head(Queue)) \o <<>>) \o (<<>> \o Tail(Queue))
      BY <2>a, <3>2, <3>3, WayTyped, WayThen
    <3>5. Head(Queue) \in Frame /\ Tail(Queue) \in Seq(Frame) /\ <<Head(Queue)>> \o Tail(Queue) = Queue
      BY <3>2, WayTyped, HeadTailProperties, HeadTailConcat
    <3>6. Append(g, Head(Queue)) \in Seq(Frame) /\ g \in Seq(Frame) /\ Queue \in Seq(Frame)
      BY <3>5, WayTyped, AppendProperties
    <3>7. Way = g \o Queue /\ Way' = Append(g, Head(Queue)) \o Tail(Queue)
      BY <3>4, <3>5, <3>6, ConcatEmptySeq
    <3>8. Append(g, Head(Queue)) \o Tail(Queue) = g \o (<<Head(Queue)>> \o Tail(Queue))
      BY <3>5, <3>6, MoveHead
    <3> QED
      BY <3>5, <3>7, <3>8
  <2> QED
    BY <2>1, <2>2
<1> QED
  BY <1>1, <1>2, <1>3, <1>4, <1>5, <1>6, <1>7, <1>8, <1>9, <1>10, <1>11, <1>12, <1>13 DEF Main

LEMMA AgentWay ==
  ASSUME PhaseInv, [Next]_vars, NEW a \in 0 .. N, Step(a)
  PROVE  \/ Emit(a) /\ (a = Classifier \/ ~Apart) /\ Way' = Append(Way, Text(a, run[a].n)) /\ Text(a, run[a].n) \in Frame
         \/ Way' = Way /\ (Emit(a) => a # Classifier /\ Apart)
<1>0. flow' = flow /\ TypeOK /\ str["out"] \in Stream /\ str["top"] \in Stream /\ run[a] \in Run /\ str \in [{"out", "top"} -> Stream]
  BY Phase
<1>g. got' = got
  BY DEF Step, Called, NotCalled, ReadText, Emit, Finishes, LoopOver, Calling, Outside
<1>x. Text(a, run[a].n) \in Frame
  BY <1>0, Phase, FlowFacts DEF Text, Frame, Run, TypeOK
<1>1. CASE a = Classifier
  <2>1. flow.entry = "handoff" /\ front.pc = "idle" /\ front' = front /\ Queue' = Queue /\ run[Classifier].pc \in {"read", "emit"}
    BY <1>1, ClassifierSteps, Phase DEF Queue
  <2>2. Held = <<>> /\ Held' = <<>> /\ ~Apart
    BY <2>1 DEF Held, Apart
  <2>3. Behind = <<>> /\ Behind' = <<>>
    <3>1. Unstarted \/ main = "text" \/ Queue = <<>>
      BY <2>1, Phase DEF Front, Unstarted, Queue
    <3>2. Behind = <<>> /\ Queue = <<>>
      BY <2>1, <3>1, NothingBehind
    <3> QED
      BY <2>1, <2>2, <3>2, WayTyped, WayThen, ConcatEmptySeq
  <2>4. CASE Emit(Classifier)
    <3>1. str'["top"] = [str["top"] EXCEPT !.frames = Append(@, Text(a, run[a].n))]
      BY <1>0, <1>1, <2>4 DEF Emit, Put, To
    <3>2. TopQueue' = Append(TopQueue, Text(a, run[a].n))
      BY <1>0, <3>1 DEF TopQueue, Stream
    <3> DEFINE f == Text(a, run[a].n)
    <3>3. Way = (got.frames \o TopQueue) \o <<>> /\ Way' = (got.frames \o Append(TopQueue, f)) \o <<>> /\ f \in Frame
      BY <1>g, <1>x, <2>3, <3>2, WayTyped, WayThen
    <3> HIDE DEF f
    <3>4. got.frames \o Append(TopQueue, f) = Append(got.frames \o TopQueue, f)
      BY <3>3, TopMore
    <3>5. Append(got.frames \o TopQueue, f) \in Seq(Frame)
      BY <3>3, WayTyped, AppendProperties
    <3>6. Way' = Append(Way, f)
      BY <3>3, <3>4, <3>5, WayTyped, ConcatEmptySeq
    <3> QED
      BY <1>1, <1>x, <2>4, <3>6 DEF f
  <2>5. CASE ~Emit(Classifier)
    <3>1. TopQueue' = TopQueue
      <4>1. CASE ReadText(Classifier)
        BY <4>1 DEF ReadText, Calling, TopQueue
      <4>2. ASSUME NEW e \in Error, NEW c \in BOOLEAN, Closes(Classifier, e, c) PROVE TopQueue' = TopQueue
        <5>1. str'["top"] = [str["top"] EXCEPT !.closed = TRUE, !.err = e, !.resp = IF e = "nil" /\ ~c THEN Answers(Classifier) ELSE @]
          BY <1>0, <4>2 DEF Closes, To
        <5> QED
          BY <1>0, <5>1 DEF TopQueue, Stream
      <4> QED
        BY <1>1, <2>5, <4>1, <4>2, ClassifierSteps, Phase
    <3>2. Way' = Way
      BY <1>g, <2>3, <3>1, WayTyped, WayThen
    <3> QED
      BY <1>1, <2>5, <3>2
  <2> QED
    BY <2>4, <2>5
<1>2. CASE a \in Agents
  <2>1. run'[Classifier] = run[Classifier] /\ front' = front /\ a # Classifier /\ To(a) = "out"
    BY <1>2, ClassifierKept, Phase DEF To
  <2>2. Held' = Held /\ (Apart' <=> Apart)
    BY <1>0, <2>1 DEF Held, Apart
  <2>3. CASE Emit(a)
    <3> DEFINE f == Text(a, run[a].n)
    <3>1. str'["out"] = [str["out"] EXCEPT !.frames = Append(@, f)] /\ str'["top"] = str["top"]
      BY <1>0, <2>1, <2>3 DEF Emit, Put
    <3>2. Queue' = Append(Queue, f) /\ TopQueue' = TopQueue /\ f \in Frame
      BY <1>0, <1>x, <3>1 DEF Queue, TopQueue, Stream
    <3> HIDE DEF f
    <3>3. CASE Apart
      <4>1. Behind = <<>> /\ Behind' = <<>>
        BY <2>2, <3>3, WayTyped, WayThen
      <4>2. Way' = Way
        BY <1>g, <3>2, <4>1, WayTyped, WayThen
      <4> QED
        BY <2>1, <3>3, <4>2
    <3>4. CASE ~Apart
      <4>1. Behind = Held \o Queue /\ Behind' = Held \o Append(Queue, f)
        BY <2>2, <3>2, <3>4, WayTyped, WayThen
      <4>2. Behind' = Append(Behind, f)
        BY <3>2, <4>1, WayTyped, ConcatAppend
      <4>3. Way' = (got.frames \o TopQueue) \o Append(Behind, f)
        BY <1>g, <3>2, <4>2, WayTyped, WayThen
      <4>4. Way' = Append(Way, f)
        BY <3>2, <4>3, TopMore
      <4> QED
        BY <1>x, <2>3, <3>4, <4>4 DEF f
    <3> QED
      BY <3>3, <3>4
  <2>4. CASE ~Emit(a)
    <3>1. Queue' = Queue /\ TopQueue' = TopQueue
      <4>1. CASE Called(a) \/ NotCalled(a) \/ ReadText(a)
        BY <4>1 DEF Called, NotCalled, ReadText, Calling, Queue, TopQueue
      <4>2. ASSUME NEW e \in Error, NEW c \in BOOLEAN, Finishes(a, e, c) PROVE Queue' = Queue /\ TopQueue' = TopQueue
        <5>1. CASE Closes(a, e, c)
          <6>1. str'["top"] = str["top"] /\ str'["out"] = [str["out"] EXCEPT !.closed = TRUE, !.err = e, !.resp = IF e = "nil" /\ ~c THEN Answers(a) ELSE @]
            BY <1>0, <2>1, <5>1 DEF Closes
          <6> QED
            BY <1>0, <6>1 DEF Queue, TopQueue, Stream
        <5>2. CASE ~Closes(a, e, c)
          BY <4>2, <5>2 DEF Finishes, LoopOver, FanOver, SendsResult, StageOver, Queue, TopQueue
        <5> QED
          BY <5>1, <5>2
      <4> QED
        BY <2>4, <4>1, <4>2 DEF Step
    <3>2. Way' = Way
      BY <1>g, <2>2, <3>1, WaySame
    <3> QED
      BY <2>4, <3>2
  <2> QED
    BY <2>3, <2>4
<1> QED
  BY <1>1, <1>2, Phase
(***************************************************************************)
(* What a workflow comes to once resolveHandoff has let go of it.          *)
(***************************************************************************)

\* What its call has returned is not taken back.
LEMMA MainStays ==
  ASSUME PhaseInv, [Next]_vars, front.pc = "idle", main \in {"idle", "text", "failed"}
  PROVE  main' = main
<1>1. CASE Main
  BY <1>1 DEF Main, StartParallel, StartFirst, Arrived, TakeRace, TakeText, TakeError, Synthesize, CloseFan, Handoff, HandoffStart,
       HandoffUnknown, HandoffJoins, ForwardNext, ForwardEmit, ForwardCancelled, Forwarded, Receive, ReceiveEnd, Cancel
<1>2. ASSUME NEW a \in 0 .. N, Step(a) PROVE main' = main
  <2>1. CASE a = Classifier
    BY <1>2, <2>1, ClassifierSteps, Phase
  <2>2. CASE a \in Agents
    <3>1. MainGoes(a) /\ Active(a)
      BY <1>2, <2>2, AgentMain, StepRuns, Phase DEF Active
    <3>2. main # "idle"
      BY <2>2, <3>1, Phase DEF Fresh, Unstarted, Active
    <3>3. Sole(a) /\ run[a].pc = "call" => main = "wait"
      BY Phase DEF Kinds, Sole
    <3>4. flow.kind = "sequence" /\ ~Sole(a) => main = "wait"
      BY <2>2, <3>1, OneStage DEF Sole
    <3> QED
      BY <3>1, <3>2, <3>3, <3>4 DEF MainGoes
  <2> QED
    BY <2>1, <2>2, Phase
<1>3. CASE UNCHANGED vars
  BY <1>3 DEF vars
<1> QED
  BY <1>1, <1>2, <1>3, Steps

LEMMA ApartIdle ==
  ASSUME PhaseInv, [Next]_vars, Apart
  PROVE  front.pc = "idle" /\ str["top"].closed /\ flow.entry = "handoff" /\ run'[Classifier] = run[Classifier] /\ Apart'
<1>1. front.pc = "idle" /\ str["top"].closed /\ flow.entry = "handoff"
  BY Phase DEF Apart, Front, Top
<1> QED
  BY <1>1, TopStays, Phase DEF Apart

LEMMA StepLeft ==
  ASSUME PhaseInv, Left, [Next]_vars
  PROVE  Left'
<1>1. CASE Apart
  <2>1. ctx => ctx'
    BY CtxKept
  <2>2. main \in {"idle", "text", "failed"} => main' = main
    BY <1>1, ApartIdle, MainStays
  <2>3. str["out"].closed => str'["out"].closed
    BY OutStays
  <2> QED
    BY <1>1, <2>1, <2>2, <2>3 DEF Left
<1>2. ASSUME ~Apart, Apart'
      PROVE  ctx' \/ main' \in {"idle", "text", "failed"} \/ str'["out"].closed
  <2>1. flow.entry = "handoff" /\ run[Classifier].pc # "done" /\ run'[Classifier].pc = "done" /\ TypeOK
    BY <1>2, Phase DEF Apart
  <2>2. CASE Main
    <3>1. HandoffUnknown \/ HandoffJoins \/ ForwardCancelled \/ Forwarded
      <4>1. run'[Classifier] # run[Classifier]
        BY <2>1
      <4>2. ~RunSame
        BY <4>1, Phase DEF RunSame
      <4>3. ~StartParallel \/ ~(\A b \in 0 .. N : run'[b] = IF b \in Parallel THEN [run[b] EXCEPT !.pc = "call"] ELSE run[b])
        BY <4>1, Phase
      <4>4. \A b \in Agents : ~RunBut(b)
        BY <4>1, Phase DEF RunBut
      <4> QED
        BY <2>1, <2>2, <4>2, <4>3, <4>4, MainRuns, Phase
    <3>2. CASE HandoffUnknown
      BY <3>2 DEF HandoffUnknown
    <3>3. CASE HandoffJoins
      BY <2>1, <3>3 DEF HandoffJoins
    <3>4. CASE ForwardCancelled
      BY <3>4 DEF ForwardCancelled, Splicing, Outside
    <3>5. CASE Forwarded
      <4>1. str["out"].closed
        BY <3>5 DEF Forwarded
      <4> QED
        BY <4>1, OutStays
    <3> QED
      BY <3>1, <3>2, <3>3, <3>4, <3>5
  <2>3. ASSUME NEW a \in 0 .. N, Step(a)
        PROVE  ctx' \/ main' \in {"idle", "text", "failed"} \/ str'["out"].closed
    <3>1. a = Classifier
      BY <2>1, <2>3, ClassifierKept, Phase
    <3>2. main' = main /\ str'["out"] = str["out"] /\ front.pc = "idle"
      BY <2>3, <3>1, ClassifierSteps, Phase
    <3>3. main = "idle" \/ main = "text" \/ str["out"].closed
      BY <2>1, <3>2, Phase DEF Front
    <3> QED
      BY <3>2, <3>3
  <2>4. ~(UNCHANGED vars)
    BY <2>1 DEF vars
  <2> QED
    BY <2>2, <2>3, <2>4, Steps
<1> QED
  BY <1>1, <1>2 DEF Left

(***************************************************************************)
(* The announcement comes first.                                           *)
(***************************************************************************)
Led(s) == \A i \in DOMAIN s : s[i].by # Classifier => \E j \in 1 .. i : s[j] = Announced
Leads(s) == \E j \in DOMAIN s : s[j] = Announced

LEMMA LedMore ==
  ASSUME NEW s \in Seq(Frame), NEW f \in Frame, Led(s), f.by # Classifier => Leads(s)
  PROVE  Led(Append(s, f)) /\ (Leads(s) \/ f = Announced => Leads(Append(s, f)))
<1> DEFINE t == Append(s, f)
           l == Len(s)
<1>1. /\ l \in Nat /\ DOMAIN t = 1 .. l + 1 /\ DOMAIN s = 1 .. l /\ t[l + 1] = f /\ \A i \in 1 .. l : t[i] = s[i]
  BY AppendProperties
<1> HIDE DEF t, l
<1>2. ASSUME NEW i \in DOMAIN t, t[i].by # Classifier PROVE \E j \in 1 .. i : t[j] = Announced
  <2>1. CASE i \in 1 .. l
    <3>1. PICK j \in 1 .. i : s[j] = Announced
      BY <1>1, <1>2, <2>1 DEF Led
    <3> QED
      BY <1>1, <2>1, <3>1
  <2>2. CASE i = l + 1
    <3>1. PICK j \in 1 .. l : s[j] = Announced
      BY <1>1, <1>2, <2>2 DEF Leads
    <3> QED
      BY <1>1, <2>2, <3>1
  <2> QED
    BY <1>1, <2>1, <2>2
<1>3. Leads(s) => Leads(t)
  BY <1>1 DEF Leads
<1>4. f = Announced => Leads(t)
  <2>1. l + 1 \in DOMAIN t
    BY <1>1
  <2> QED
    BY <1>1, <2>1 DEF Leads
<1> QED
  BY <1>2, <1>3, <1>4 DEF Led, t

LEMMA StepAnnounced ==
  ASSUME PhaseInv, AnnouncedFirst, [Next]_vars
  PROVE  AnnouncedFirst'
<1> SUFFICES ASSUME flow.entry = "handoff", ~ctx'
             PROVE  (main' # "idle" => Leads(Way')) /\ Led(Way')
  BY Phase DEF AnnouncedFirst, Leads, Led
<1>1. ~ctx /\ (main # "idle" => Leads(Way)) /\ Led(Way) /\ Way \in Seq(Frame)
  BY CtxKept, WayTyped DEF AnnouncedFirst, Leads, Led
<1>2. CASE Main
  <2>1. CASE HandoffStart
    <3>1. Announces
      BY <1>1, <2>1, StartWay DEF HandoffStart
    <3>2. Announced \in Frame /\ Announced.by = Classifier
      BY Phase, FlowFacts DEF Announced, Frame, Classifier, TypeOK
    <3> QED
      BY <1>1, <3>1, <3>2, LedMore DEF Announces
  <2>2. CASE ~HandoffStart
    <3>1. Way' = Way
      BY <1>1, <1>2, <2>2, MainWay DEF Announces, Loses, ForwardCancelled
    <3>2. main = "idle" => main' = "idle"
      BY <1>2, <2>2 DEF Main, StartParallel, StartFirst, Arrived, TakeRace, TakeText, TakeError, Synthesize, CloseFan, Handoff,
           HandoffUnknown, HandoffJoins, ForwardNext, ForwardEmit, ForwardCancelled, Forwarded, Receive, ReceiveEnd, Cancel
    <3> QED
      BY <1>1, <3>1, <3>2
  <2> QED
    BY <2>1, <2>2
<1>3. ASSUME NEW a \in 0 .. N, Step(a)
      PROVE  (main' # "idle" => Leads(Way')) /\ Led(Way')
  <2>1. a \in Agents => main # "idle"
    <3>1. Active(a)
      BY <1>3, StepRuns, Phase DEF Active
    <3> QED
      BY <3>1, Phase DEF Fresh, Unstarted, Active
  <2>2. a = Classifier => main' = main
    BY <1>3, ClassifierSteps, Phase
  <2>3. main' # "idle" => Leads(Way)
    BY <1>1, <2>1, <2>2, Phase
  <2>4. CASE Way' = Way
    BY <1>1, <2>3, <2>4
  <2> DEFINE f == Text(a, run[a].n)
  <2>5. CASE Way' = Append(Way, f) /\ f \in Frame
    <3>1. f.by = a
      BY DEF Text
    <3>2. f.by # Classifier => Leads(Way)
      BY <1>1, <2>1, <3>1, Phase
    <3> HIDE DEF f
    <3> QED
      BY <1>1, <2>3, <2>5, <3>2, LedMore
  <2> QED
    BY <1>3, <2>4, <2>5, AgentWay
<1>4. CASE UNCHANGED vars
  <2>1. Way' = Way
    BY <1>4 DEF vars, Way, Behind
  <2> QED
    BY <1>1, <1>4, <2>1 DEF vars
<1> QED
  BY <1>2, <1>3, <1>4, Steps
(***************************************************************************)
(* How many of its texts an agent has sent.                                *)
(***************************************************************************)
LEMMA SentTyped ==
  ASSUME PhaseInv, [Next]_vars, NEW a \in 0 .. N
  PROVE  /\ run[a] \in Run /\ run'[a] \in Run /\ run[a].n \in Nat /\ run'[a].n \in Nat
         /\ Sent(a) = (IF run[a].pc = "emit" THEN run[a].n - 1 ELSE run[a].n)
         /\ Sent(a)' = (IF run'[a].pc = "emit" THEN run'[a].n - 1 ELSE run'[a].n)
<1>1. run \in [0 .. MaxAgents -> Run] /\ run' \in [0 .. MaxAgents -> Run] /\ a \in 0 .. MaxAgents
  BY Phase, StepTypeRun
<1>2. run[a] \in Run /\ run'[a] \in Run
  BY <1>1
<1>3. run[a].n \in Nat /\ run'[a].n \in Nat
  <2>1. MaxText \in Nat
    BY OrchestrateBounds
  <2>2. run[a].n \in 0 .. MaxText /\ run'[a].n \in 0 .. MaxText
    BY <1>2 DEF Run
  <2> QED
    BY <2>1, <2>2
<1> QED
  BY <1>2, <1>3 DEF Sent

\* Only the agent itself sends.
SentSame(a) == Sent(a)' = Sent(a)

LEMMA SentKept ==
  ASSUME PhaseInv, [Next]_vars, NEW b \in 0 .. N,
         run'[b] = run[b] \/ (run[b].pc # "emit" /\ run'[b].pc # "emit" /\ run'[b].n = run[b].n)
  PROVE  SentSame(b)
BY SentTyped DEF SentSame

LEMMA MainSent ==
  ASSUME PhaseInv, [Next]_vars, Main, NEW b \in 0 .. N
  PROVE  SentSame(b)
<1>0. TypeOK /\ run[b] \in Run /\ \A e \in 0 .. N : run[e] \in Run
  BY SentTyped, Phase
<1>1. CASE RunSame
  BY <1>1, SentKept DEF RunSame
<1>2. CASE StartParallel /\ \A e \in 0 .. N : run'[e] = IF e \in Parallel THEN [run[e] EXCEPT !.pc = "call"] ELSE run[e]
  <2>1. b \in Parallel => run[b].pc = "idle" /\ run'[b] = [run[b] EXCEPT !.pc = "call"]
    BY <1>2, Phase DEF StartParallel, Fresh, Unstarted
  <2>2. b \notin Parallel => run'[b] = run[b]
    BY <1>2
  <2> QED
    BY <1>0, <2>1, <2>2, SentKept DEF Run
<1>3. ASSUME NEW e \in {1, N}, StartFirst, e \in Agents, run'[e] = [run[e] EXCEPT !.pc = "call"], RunBut(e)
      PROVE  SentSame(b)
  <2>1. run[e].pc = "idle"
    BY <1>3, Phase DEF StartFirst, Fresh, Unstarted
  <2>2. b # e => run'[b] = run[b]
    BY <1>3 DEF RunBut
  <2> QED
    BY <1>0, <1>3, <2>1, <2>2, SentKept DEF Run
<1>4. CASE Synthesize /\ run'[N] = [run[N] EXCEPT !.pc = "call"] /\ RunBut(N)
  <2>1. run[N].pc = "idle"
    BY <1>4 DEF Synthesize
  <2>2. b # N => run'[b] = run[b]
    BY <1>4 DEF RunBut
  <2> QED
    BY <1>0, <1>4, <2>1, <2>2, SentKept DEF Run
<1>5. ASSUME NEW e \in Error, HandoffUnknown \/ HandoffJoins \/ ForwardCancelled \/ Forwarded, RunBut(Classifier),
             run'[Classifier] = [run[Classifier] EXCEPT !.pc = "done", !.err = e]
      PROVE  SentSame(b)
  <2>1. front.pc # "idle"
    BY <1>5 DEF HandoffUnknown, HandoffJoins, ForwardCancelled, Forwarded
  <2>2. run[Classifier].pc = "read"
    BY <2>1, Phase DEF Front, Called0
  <2>3. b # Classifier => run'[b] = run[b]
    BY <1>5 DEF RunBut
  <2> QED
    BY <1>0, <1>5, <2>2, <2>3, SentKept DEF Run
<1> QED
  BY <1>0, <1>1, <1>2, <1>3, <1>4, <1>5, MainRuns

LEMMA OthersSent ==
  ASSUME PhaseInv, [Next]_vars, NEW a \in 0 .. N, Step(a), NEW b \in 0 .. N, b # a
  PROVE  SentSame(b)
<1>0. TypeOK /\ run[b] \in Run
  BY SentTyped, Phase
<1>1. CASE RunBut(a)
  BY <1>1, SentKept DEF RunBut
<1>2. ASSUME NEW c \in BOOLEAN, Passes(a, c) PROVE SentSame(b)
  <2>1. CASE b # a + 1
    BY <1>2, <2>1, SentKept DEF Passes
  <2>2. CASE b = a + 1
    <3>1. flow.kind = "sequence" /\ a \in Agents /\ a # N /\ b \in a + 1 .. N
      BY <1>2, <2>2, Phase DEF Passes
    <3>2. Active(a)
      BY StepRuns, Phase DEF Active
    <3>3. run[b].pc = "idle"
      BY <3>1, <3>2, OneStage
    <3>4. run'[b] = [run[b] EXCEPT !.pc = "call"]
      BY <1>2, <2>2 DEF Passes
    <3> QED
      BY <1>0, <3>3, <3>4, SentKept DEF Run
  <2> QED
    BY <2>1, <2>2
<1> QED
  BY <1>0, <1>1, <1>2, StepRuns

\* An agent's text is sent, or it is lost when its context has ended.
SendsText(a) == Sent(a)' = Sent(a) + 1 /\ Sent(a) \in Nat /\ run[a].n = Sent(a) + 1
Drops(a) == Sent(a)' = Sent(a) + 1 /\ Sent(a) \in Nat /\ ctx /\ ctx' /\ run'[a].pc = "done"

LEMMA OwnSent ==
  ASSUME PhaseInv, [Next]_vars, NEW a \in 0 .. N, Step(a), Streams(a), Sent(a) \in Nat
  PROVE  IF Emit(a) THEN SendsText(a) ELSE SentSame(a) \/ Drops(a)
<1>0. /\ TypeOK /\ run[a] \in Run /\ run'[a] \in Run /\ run[a].n \in Nat /\ run'[a].n \in Nat
      /\ Sent(a) = (IF run[a].pc = "emit" THEN run[a].n - 1 ELSE run[a].n)
      /\ Sent(a)' = (IF run'[a].pc = "emit" THEN run'[a].n - 1 ELSE run'[a].n)
  BY SentTyped, Phase
<1>1. CASE Emit(a)
  <2>1. run[a].pc = "emit" /\ run'[a] = [run[a] EXCEPT !.pc = "read"]
    BY <1>1, Phase DEF Emit
  <2>2. run'[a].pc = "read" /\ run'[a].n = run[a].n
    BY <1>0, <2>1 DEF Run
  <2> QED
    BY <1>0, <1>1, <2>1, <2>2 DEF SendsText
<1>2. CASE ~Emit(a)
  <2>1. CASE Called(a) /\ run[a].pc = "call" /\ run'[a] = [run[a] EXCEPT !.pc = "read"]
    <3>1. run'[a].pc = "read" /\ run'[a].n = run[a].n
      BY <1>0, <2>1 DEF Run
    <3> QED
      BY <1>0, <1>2, <2>1, <3>1 DEF SentSame
  <2>2. CASE NotCalled(a) /\ run[a].pc = "call" /\ run'[a] = [run[a] EXCEPT !.pc = "done", !.err = "call", !.cut = FALSE]
    <3>1. run'[a].pc = "done" /\ run'[a].n = run[a].n
      BY <1>0, <2>2 DEF Run
    <3> QED
      BY <1>0, <1>2, <2>2, <3>1 DEF SentSame
  <2>3. CASE ReadText(a) /\ run[a].pc = "read" /\ run'[a] = [run[a] EXCEPT !.n = run[a].n + 1, !.pc = IF Streams(a) THEN "emit" ELSE "read"]
    <3>1. run'[a].pc = "emit" /\ run'[a].n = run[a].n + 1
      BY <1>0, <2>3 DEF Run
    <3>2. Sent(a)' = run[a].n + 1 - 1 /\ Sent(a) = run[a].n
      BY <1>0, <2>3, <3>1
    <3> QED
      BY <1>0, <1>2, <3>1, <3>2 DEF SentSame
  <2>4. ASSUME NEW e \in Error, NEW c \in BOOLEAN, Ends(a, e, c) PROVE SentSame(a) \/ Drops(a)
    <3>1. run'[a].pc = "done" /\ run'[a].n = run[a].n /\ (run[a].pc = "emit" => ctx)
      BY <2>4 DEF Ends, Finishes
    <3>2. ctx => ctx'
      BY CtxKept
    <3> QED
      BY <1>0, <3>1, <3>2 DEF SentSame, Drops
  <2> QED
    BY <1>0, <1>2, <2>1, <2>2, <2>3, <2>4, StepRuns DEF Goes
<1> QED
  BY <1>1, <1>2

(***************************************************************************)
(* Every stream keeps its order on the way to the caller.                  *)
(***************************************************************************)
Lost(a) == ctx /\ (run[a].pc = "done" \/ (a # Classifier /\ Apart))
Within(s, a, k) == \A i \in DOMAIN s : From(s[i], a) => s[i].n \in 1 .. k
Row(s, a, k) == k \in Nat /\ InRow(s, a) /\ Within(s, a, k)

LEMMA OrderedIs ==
  /\ Ordered <=> \A a \in 0 .. N : Streams(a) => Row(Way, a, Sent(a)) /\ (HasAll(Way, a, Sent(a)) \/ Lost(a))
  /\ Ordered' <=> \A a \in 0 .. N' : Streams(a)' => Row(Way', a, Sent(a)') /\ (HasAll(Way', a, Sent(a)') \/ Lost(a)')
<1>1. Ordered <=> \A a \in 0 .. N : Streams(a) => Row(Way, a, Sent(a)) /\ (HasAll(Way, a, Sent(a)) \/ Lost(a))
  BY DEF Ordered, Row, Within, Lost
<1>2. Ordered' <=> \A a \in 0 .. N' : Streams(a)' => Row(Way', a, Sent(a)') /\ (HasAll(Way', a, Sent(a)') \/ Lost(a)')
  BY DEF Ordered, Row, Within, Lost, InRow, HasAll
<1> QED
  BY <1>1, <1>2

LEMMA LostKept ==
  ASSUME PhaseInv, [Next]_vars, NEW a \in 0 .. N, Lost(a)
  PROVE  Lost(a)'
<1>1. ctx'
  BY CtxKept DEF Lost
<1>2. run[a].pc = "done" => run'[a].pc = "done"
  <2>1. CASE a \in Agents
    BY <2>1, DoneKept
  <2>2. CASE a = Classifier /\ run[a].pc = "done"
    <3>1. Apart
      BY <2>2, Phase DEF Apart, Called0
    <3> QED
      BY <2>2, <3>1, ApartIdle
  <2> QED
    BY <2>1, <2>2, Phase
<1>3. Apart => Apart'
  BY ApartIdle
<1> QED
  BY <1>1, <1>2, <1>3 DEF Lost

\* Nobody writes a stream that resolveHandoff has let go of.
LEMMA EmitsApart ==
  ASSUME PhaseInv, Left, [Next]_vars, NEW a \in Agents, Streams(a), Emit(a), Apart
  PROVE  ctx
<1>1. run[a].pc = "emit" /\ a # Classifier
  BY Phase DEF Emit
<1>2. ctx \/ main \in {"idle", "text", "failed"} \/ str["out"].closed
  BY DEF Left
<1>3. main # "idle"
  BY <1>1, Phase DEF Fresh, Unstarted
<1>4. CASE Merged
  <2>1. main = "stream" /\ ~str["out"].closed
    BY <1>1, <1>3, <1>4, Phase DEF Fresh, Unstarted, Kinds, Out
  <2> QED
    BY <1>2, <2>1
<1>5. CASE Sole(a) /\ ~Merged
  <2>1. a = N /\ main = "stream"
    BY <1>1, <1>5, Phase DEF Kinds, Sole
  <2>2. ~str["out"].closed
    BY <1>1, <1>5, <2>1, Phase DEF Out
  <2> QED
    BY <1>2, <2>1, <2>2
<1> QED
  BY <1>1, <1>4, <1>5 DEF Streams

LEMMA MoreWithin ==
  ASSUME NEW k \in Nat
  PROVE  k + 1 \in Nat /\ 1 .. k \subseteq 1 .. k + 1
OBVIOUS

LEMMA StepOrdered ==
  ASSUME PhaseInv, Ordered, Left, [Next]_vars
  PROVE  Ordered'
<1> SUFFICES ASSUME NEW b \in 0 .. N, Streams(b)
             PROVE  Row(Way', b, Sent(b)') /\ (HasAll(Way', b, Sent(b)') \/ Lost(b)')
  BY OrderedIs, Fixed, Phase
<1>1. Row(Way, b, Sent(b)) /\ (HasAll(Way, b, Sent(b)) \/ Lost(b)) /\ Way \in Seq(Frame) /\ Sent(b) \in Nat
  BY OrderedIs, WayTyped DEF Row
<1>2. Lost(b) => Lost(b)'
  BY LostKept
<1>3. CASE Way' = Way /\ SentSame(b)
  BY <1>1, <1>2, <1>3 DEF SentSame
\* A frame of another is put on the way.
<1>4. ASSUME NEW f \in Frame, ~From(f, b), Way' = Append(Way, f), SentSame(b)
      PROVE  Row(Way', b, Sent(b)') /\ (HasAll(Way', b, Sent(b)') \/ Lost(b)')
  <2> DEFINE k == Sent(b)
             w == Way
  <2>1. w \in Seq(Frame) /\ k \in Nat /\ InRow(w, b) /\ (\A i \in DOMAIN w : From(w[i], b) => w[i].n \in 1 .. k)
    BY <1>1 DEF Row, Within
  <2> HIDE DEF k, w
  <2>2. /\ InRow(Append(w, f), b)
        /\ \A i \in DOMAIN Append(w, f) : From(Append(w, f)[i], b) => Append(w, f)[i].n \in 1 .. k
        /\ HasAll(w, b, k) => HasAll(Append(w, f), b, k)
    BY <1>4, <2>1, RowMore
  <2>3. Row(Append(w, f), b, k) /\ (HasAll(w, b, k) => HasAll(Append(w, f), b, k))
    BY <2>1, <2>2 DEF Row, Within
  <2> QED
    BY <1>1, <1>2, <1>4, <2>3 DEF k, w, SentSame
<1>5. CASE Main
  <2>0. SentSame(b)
    BY <1>5, MainSent
  <2>1. CASE Announces
    <3>1. Announced \in Frame /\ ~From(Announced, b)
      BY Phase, FlowFacts DEF Announced, Frame, Classifier, TypeOK, From
    <3> QED
      BY <1>4, <2>0, <2>1, <3>1 DEF Announces
  <2>2. CASE Loses
    <3>1. PICK u \in Seq(Frame) : Way = Way' \o u
      BY <2>2 DEF Loses
    <3>2. Way' \in Seq(Frame) /\ ctx' /\ ctx /\ Apart'
      BY <2>2, CtxKept DEF Loses, ForwardCancelled
    <3> DEFINE v == Way'
               k == Sent(b)
    <3>3. Way = v \o u /\ v \in Seq(Frame) /\ InRow(v \o u, b) /\ Within(v \o u, b, k) /\ k \in Nat
      BY <1>1, <3>1, <3>2 DEF Row
    <3> HIDE DEF v, k
    <3>4. InRow(v, b)
      BY <3>3, RowLess
    <3>5. Within(v, b, k)
      <4>1. DOMAIN v = 1 .. Len(v) /\ Len(v) \in Nat /\ DOMAIN (v \o u) = 1 .. Len(v) + Len(u) /\ Len(u) \in Nat /\ \A i \in 1 .. Len(v) : (v \o u)[i] = v[i]
        BY <3>3, ConcatProperties
      <4>2. \A i \in DOMAIN v : i \in DOMAIN (v \o u) /\ (v \o u)[i] = v[i]
        BY <4>1
      <4> QED
        BY <3>3, <4>2 DEF Within
    <3>6. Row(Way', b, Sent(b)')
      BY <2>0, <3>3, <3>4, <3>5 DEF Row, SentSame, v, k
    <3>7. Lost(b)'
      BY <3>2 DEF Lost, Apart
    <3> QED
      BY <3>6, <3>7
  <2> QED
    BY <1>3, <1>5, <2>0, <2>1, <2>2, MainWay
<1>6. ASSUME NEW a \in 0 .. N, Step(a)
      PROVE  Row(Way', b, Sent(b)') /\ (HasAll(Way', b, Sent(b)') \/ Lost(b)')
  <2>1. CASE a # b
    <3>1. SentSame(b)
      BY <1>6, <2>1, OthersSent
    <3>2. ~From(Text(a, run[a].n), b)
      BY <2>1 DEF From, Text
    <3>3. Way' = Way \/ (Way' = Append(Way, Text(a, run[a].n)) /\ Text(a, run[a].n) \in Frame)
      BY <1>6, AgentWay
    <3> QED
      BY <1>3, <1>4, <3>1, <3>2, <3>3
  <2>2. CASE a = b /\ Way' = Way /\ (Emit(b) => b # Classifier /\ Apart)
    <3>1. Step(b)
      BY <1>6, <2>2
    <3>2. IF Emit(b) THEN SendsText(b) ELSE SentSame(b) \/ Drops(b)
      BY <1>1, <3>1, OwnSent
    <3>3. Emit(b) => ctx /\ Lost(b)'
      <4>1. Emit(b) => ctx
        BY <2>2, EmitsApart, Phase
      <4> QED
        BY <2>2, <4>1, CtxKept, ApartIdle DEF Lost
    <3>4. Drops(b) => Lost(b)'
      BY DEF Drops, Lost
    <3>5. CASE Sent(b)' = Sent(b) + 1 /\ Lost(b)'
      <4>1. Within(Way, b, Sent(b)) /\ InRow(Way, b)
        BY <1>1 DEF Row
      <4>2. Sent(b) + 1 \in Nat /\ 1 .. Sent(b) \subseteq 1 .. Sent(b) + 1
        BY <1>1, MoreWithin
      <4>3. Within(Way, b, Sent(b) + 1)
        BY <4>1, <4>2 DEF Within
      <4> QED
        BY <2>2, <3>5, <4>1, <4>2, <4>3 DEF Row
    <3> QED
      BY <1>3, <2>2, <3>2, <3>3, <3>4, <3>5 DEF SendsText, Drops
  <2>3. CASE a = b /\ Emit(b) /\ (b = Classifier \/ ~Apart) /\ Way' = Append(Way, Text(b, run[b].n)) /\ Text(b, run[b].n) \in Frame
    <3>1. SendsText(b)
      BY <1>1, <1>6, <2>3, OwnSent
    <3>2. ~Lost(b)
      BY <2>3 DEF Lost, Emit
    <3> DEFINE k == Sent(b)
               w == Way
               f == Text(b, run[b].n)
    <3>3. f = Text(b, k + 1) /\ From(f, b) /\ f \in Frame /\ Sent(b)' = k + 1 /\ Way' = Append(w, f)
      BY <2>3, <3>1 DEF SendsText, From, Text
    <3>4. w \in Seq(Frame) /\ k \in Nat /\ InRow(w, b) /\ (\A i \in DOMAIN w : From(w[i], b) => w[i].n \in 1 .. k) /\ HasAll(w, b, k)
      BY <1>1, <3>2 DEF Row, Within
    <3> HIDE DEF k, w, f
    <3>5. /\ InRow(Append(w, f), b)
          /\ \A i \in DOMAIN Append(w, f) : From(Append(w, f)[i], b) => Append(w, f)[i].n \in 1 .. k + 1
          /\ HasAll(Append(w, f), b, k + 1)
      BY <3>3, <3>4, RowMore
    <3>6. Row(Append(w, f), b, k + 1)
      BY <3>4, <3>5, MoreWithin DEF Row, Within
    <3> QED
      BY <3>3, <3>5, <3>6
  <2> QED
    BY <1>6, <2>1, <2>2, <2>3, AgentWay
<1>7. CASE UNCHANGED vars
  <2>1. Way' = Way /\ SentSame(b)
    BY <1>7 DEF vars, Way, Behind, Sent, SentSame
  <2> QED
    BY <1>3, <2>1
<1> QED
  BY <1>5, <1>6, <1>7, Steps

(***************************************************************************)
(* A stream that ends without an error is whole.                           *)
(***************************************************************************)

\* What has reached the caller is all there was, once its stream has ended.
LEMMA AllRead ==
  ASSUME OrderInv, got.ended
  PROVE  Way = got.frames
<1>1. PhaseInv /\ Got /\ Called0 /\ Front /\ Top
  BY DEF OrderInv, PhaseInv
<1>2. got.frames \in Seq(Frame) /\ Way = (got.frames \o TopQueue) \o Behind /\ Behind = (IF Apart THEN <<>> ELSE Held \o Queue)
  BY <1>1, WayTyped
<1>3. TopQueue = <<>> /\ Behind = <<>>
  <2>1. CASE flow.entry = "handoff"
    <3>1. TopQueue = <<>> /\ str["top"].closed
      BY <1>1, <2>1 DEF Got, Read, TopQueue
    <3>2. Apart
      BY <1>1, <2>1, <3>1 DEF Top, Apart
    <3> QED
      BY <1>2, <3>1, <3>2
  <2>2. CASE flow.entry # "handoff"
    <3>1. flow.entry = "call"
      BY <1>1, <2>2, FlowFacts DEF PhaseInv, TypeInv, TypeOK
    <3>2. Queue = <<>> /\ TopQueue = <<>> /\ Held = <<>> /\ ~Apart
      BY <1>1, <2>2, <3>1 DEF Got, Read, Called0, NewStream, Queue, TopQueue, Held, Apart
    <3>3. Behind = <<>> \o <<>>
      BY <1>2, <3>2
    <3>4. <<>> \o <<>> = <<>>
      BY ConcatEmptySeq, EmptySeq
    <3> QED
      BY <3>2, <3>3, <3>4
  <2> QED
    BY <2>1, <2>2
<1>4. got.frames \o <<>> = got.frames
  BY <1>2, ConcatEmptySeq
<1> QED
  BY <1>2, <1>3, <1>4

Succeeded(a) == run[a].pc = "done" /\ run[a].err = "nil" /\ ~run[a].cut

\* The workflow's stream closes without an error only when its writers have succeeded.
LEMMA OutSucceeded ==
  ASSUME PhaseInv, str["out"].closed, str["out"].err = "nil", ~ctx, NEW a \in Agents, Merged \/ Sole(a)
  PROVE  Succeeded(a)
<1>1. Out /\ Errors /\ AgentsOK /\ a \in 0 .. N /\ flow.kind # "race"
  BY FlowFacts DEF PhaseInv, TypeInv, TypeOK, Merged, Sole, Agents
<1>2. run[a].pc = "done" /\ run[a].err = "nil"
  BY <1>1 DEF Out, Errors, Sole
<1>3. ~run[a].cut
  BY <1>1 DEF AgentsOK, Agent
<1> QED
  BY <1>2, <1>3 DEF Succeeded

\* What resolveHandoff's stream says of its workflow, when it ends without an error.
LEMMA TopSucceeded ==
  ASSUME PhaseInv, flow.entry = "handoff", str["top"].closed, str["top"].err = "nil", ~ctx
  PROVE  /\ Succeeded(Classifier)
         /\ ~front.handed => \A a \in Agents : run[a].pc = "idle"
         /\ front.handed => flow.kind = "race" \/ (main = "stream" /\ str["out"].closed /\ str["out"].err = "nil")
<1>1. Top /\ Front /\ Fresh /\ Kinds /\ AgentsOK /\ Classifier \in 0 .. N
  BY FlowFacts DEF PhaseInv, TypeInv, TypeOK, Classifier
<1>2. run[Classifier].pc = "done" /\ run[Classifier].err = "nil"
  BY <1>1 DEF Top
<1>3. ~run[Classifier].cut
  BY <1>1 DEF AgentsOK, Agent
<1>4. front.pc = "idle"
  BY <1>1, <1>2 DEF Front
<1>5. ~front.handed => main = "idle"
  BY <1>1, <1>2, <1>4 DEF Front
<1>6. front.handed => main = "text" \/ (main = "stream" /\ str["out"].closed /\ str["out"].err = "nil")
  BY <1>1 DEF Front
<1> QED
  BY <1>1, <1>2, <1>3, <1>5, <1>6 DEF Succeeded, Fresh, Unstarted, Kinds

LEMMA OrderedInOrder ==
  ASSUME OrderInv
  PROVE  InOrder
<1>1. TypeOK /\ Ordered /\ AnnouncedFirst
  BY DEF OrderInv, PhaseInv, TypeInv
<1>2. ASSUME NEW a \in 0 .. N, Streams(a)
      PROVE  /\ InRow(Way, a) /\ \A i \in DOMAIN Way : From(Way[i], a) => Way[i].n \in 1 .. Sent(a)
             /\ ~ctx => HasAll(Way, a, Sent(a))
  BY <1>1, <1>2 DEF Ordered
<1>3. flow.entry = "handoff" /\ ~ctx => \A i \in DOMAIN Way : Way[i].by # Classifier => \E j \in 1 .. i : Way[j] = Announced
  BY <1>1 DEF AnnouncedFirst
<1> QED
  BY <1>1, <1>2, <1>3 DEF InOrder

LEMMA OrderedEndIsTrue ==
  ASSUME OrderInv
  PROVE  EndIsTrue
<1>1. InOrder /\ PhaseInv /\ Got /\ Called0 /\ Out /\ Errors /\ Top /\ Kinds
  BY OrderedInOrder DEF OrderInv, PhaseInv
<1>f. /\ \A a \in 0 .. N : a = Classifier \/ a \in Agents
      /\ N \in Agents /\ flow.entry \in {"call", "handoff"} /\ flow.kind \in {"fan", "race", "sequence", "fan_then", "agent"}
  BY <1>1, FlowFacts DEF PhaseInv, TypeInv, TypeOK, Classifier, Agents
<1>2. ASSUME got.ended, ~ctx, got.err = "nil"
      PROVE  str[Read].closed /\ str[Read].err = "nil"
  BY <1>1, <1>2 DEF Got
<1>3. ASSUME got.ended, ~ctx, got.err = "nil", NEW a \in 0 .. N, Streams(a), run[a].pc # "idle"
      PROVE  Succeeded(a) /\ HasAll(got.frames, a, run[a].n)
  <2>1. Succeeded(a)
    <3>1. CASE flow.entry = "call"
      <4>1. a \in Agents /\ (Merged \/ Sole(a))
        BY <1>1, <1>3, <1>f, <3>1 DEF Called0, Streams
      <4>2. str["out"].closed /\ str["out"].err = "nil"
        BY <1>2, <1>3, <3>1 DEF Read
      <4> QED
        BY <1>1, <1>3, <4>1, <4>2, OutSucceeded
    <3>2. CASE flow.entry = "handoff"
      <4>1. str["top"].closed /\ str["top"].err = "nil"
        BY <1>2, <1>3, <3>2 DEF Read
      <4>2. CASE a = Classifier
        BY <1>1, <1>3, <3>2, <4>1, <4>2, TopSucceeded
      <4>3. CASE a \in Agents /\ a # Classifier
        <5>1. Merged \/ Sole(a)
          BY <1>3, <4>3 DEF Streams
        <5>2. flow.kind # "race"
          BY <5>1 DEF Merged, Sole
        <5>3. str["out"].closed /\ str["out"].err = "nil"
          BY <1>1, <1>3, <3>2, <4>1, <4>3, <5>2, TopSucceeded
        <5> QED
          BY <1>1, <1>3, <4>3, <5>1, <5>3, OutSucceeded
      <4> QED
        BY <1>f, <4>2, <4>3
    <3> QED
      BY <1>f, <3>1, <3>2
  <2>2. HasAll(Way, a, Sent(a))
    BY <1>1, <1>3 DEF InOrder
  <2>3. Sent(a) = run[a].n
    <3>1. run[a].n \in Int
      <4>1. run[a] \in Run /\ MaxText \in Nat
        BY <1>1, FlowFacts, OrchestrateBounds DEF PhaseInv, TypeInv, TypeOK
      <4> QED
        BY <4>1 DEF Run
    <3> QED
      BY <2>1, <3>1 DEF Succeeded, Sent
  <2> QED
    BY <1>3, <2>1, <2>2, <2>3, AllRead
<1>4. ASSUME got.ended, ~ctx, got.err = "nil", ~Merged, flow.kind # "race"
      PROVE  str[Read].resp = IF run[N].pc = "idle" THEN Classifier ELSE N
  <2>0. Sole(N)
    BY <1>4, <1>f DEF Merged, Sole
  <2>1. CASE flow.entry = "call"
    <3>1. str["out"].closed /\ str["out"].err = "nil" /\ Read = "out"
      BY <1>2, <1>4, <2>1 DEF Read
    <3>2. Succeeded(N)
      BY <1>1, <1>4, <1>f, <2>0, <3>1, OutSucceeded
    <3> QED
      BY <1>1, <1>4, <3>1, <3>2 DEF Succeeded, Out
  <2>2. CASE flow.entry = "handoff"
    <3>1. str["top"].closed /\ str["top"].err = "nil" /\ Read = "top"
      BY <1>2, <1>4, <2>2 DEF Read
    <3>2. Succeeded(Classifier) /\ (~front.handed => run[N].pc = "idle")
      BY <1>1, <1>4, <1>f, <2>2, <3>1, TopSucceeded
    <3>3. CASE ~front.handed
      BY <1>1, <2>2, <3>1, <3>2, <3>3 DEF Top, Succeeded
    <3>4. CASE front.handed
      <4>1. str["out"].closed /\ str["out"].err = "nil"
        BY <1>1, <1>4, <2>2, <3>1, <3>4, TopSucceeded
      <4>2. Succeeded(N)
        BY <1>1, <1>4, <1>f, <2>0, <4>1, OutSucceeded
      <4>3. str["top"].resp = N
        BY <1>1, <1>4, <1>f, <2>2, <3>4, <4>2 DEF Top, Succeeded, Merged
      <4> QED
        BY <3>1, <4>2, <4>3 DEF Succeeded
    <3> QED
      BY <3>3, <3>4
  <2> QED
    BY <1>f, <2>1, <2>2
<1>5. Merged /\ str["out"].closed => str["out"].err = (IF fan.errors = <<>> THEN "nil" ELSE fan.errors[1])
  BY <1>1 DEF Out, Errors
<1> QED
  BY <1>1, <1>3, <1>4, <1>5 DEF EndIsTrue, Succeeded

LEMMA OrderInit ==
  ASSUME Init
  PROVE  OrderInv
<1>1. PhaseInv
  BY PhaseInit
<1>2. Way = <<>> /\ ~Apart
  <2>1. got.frames = <<>> /\ TopQueue = <<>> /\ Queue = <<>> /\ Held = <<>> /\ ~Apart
    <3>1. str["out"] = NewStream /\ str["top"] = NewStream /\ got.frames = <<>> /\ front.pc = "idle"
      BY DEF Init
    <3>2. flow.entry = "handoff" => run[Classifier].pc = "read"
      BY <1>1, FlowFacts DEF Init, PhaseInv, TypeInv, TypeOK, Classifier
    <3> QED
      BY <3>1, <3>2 DEF NewStream, TopQueue, Queue, Held, Apart
  <2>2. <<>> \o <<>> = <<>>
    BY ConcatEmptySeq, EmptySeq
  <2>3. Behind = <<>> \o <<>> /\ Way = (<<>> \o <<>>) \o Behind
    BY <1>1, <2>1, WayTyped
  <2> QED
    BY <2>1, <2>2, <2>3
<1>3. DOMAIN Way = {}
  BY <1>2
<1>4. ASSUME NEW a \in 0 .. N PROVE Sent(a) = 0
  <2>1. a \in 0 .. MaxAgents
    BY <1>1, FlowFacts DEF PhaseInv, TypeInv, TypeOK
  <2>2. run[a].n = 0 /\ run[a].pc # "emit"
    BY <2>1 DEF Init
  <2>3. (IF run[a].pc = "emit" THEN 1 ELSE 0) = 0
    BY <2>2
  <2>4. Sent(a) = run[a].n - (IF run[a].pc = "emit" THEN 1 ELSE 0)
    BY DEF Sent
  <2>5. Sent(a) = 0 - 0
    BY <2>2, <2>3, <2>4
  <2> QED
    BY <2>5
<1>5. Ordered
  <2>1. ASSUME NEW a \in 0 .. N
        PROVE  Sent(a) \in Nat /\ InRow(Way, a) /\ HasAll(Way, a, Sent(a)) /\ \A i \in DOMAIN Way : From(Way[i], a) => Way[i].n \in 1 .. Sent(a)
    BY <1>3, <1>4 DEF InRow, HasAll
  <2> QED
    BY <2>1 DEF Ordered
<1>6. AnnouncedFirst
  <2>1. flow.entry = "handoff" => main = "idle"
    BY DEF Init
  <2> QED
    BY <1>3, <2>1 DEF AnnouncedFirst
<1>7. Left
  BY <1>2 DEF Left
<1> QED
  BY <1>1, <1>5, <1>6, <1>7 DEF OrderInv

\* EndIsTrue, for any workflow and any size of the streams: a stream that ends without
\* an error has all the texts of every agent that wrote it, in their order and behind
\* the announcement of the handoff, and every one of them has succeeded; it carries the
\* ResponseMeta of the last, and a Fan's has the error that came first.
THEOREM EndIsTrueAlways == Spec => []EndIsTrue
<1>1. Init => OrderInv
  BY OrderInit
<1>2. OrderInv /\ [Next]_vars => OrderInv'
  BY PhaseStep, StepOrdered, StepAnnounced, StepLeft DEF OrderInv
<1>3. OrderInv => EndIsTrue
  BY OrderedEndIsTrue
<1> QED
  BY <1>1, <1>2, <1>3, PTL DEF Spec

=============================================================================
