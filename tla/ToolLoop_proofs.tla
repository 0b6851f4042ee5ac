---------------------------- MODULE ToolLoop_proofs ----------------------------
(***************************************************************************)
(* Proofs about ToolLoop, for any options, any number of rounds and of     *)
(* calls in a round, and any size of the caller's stream: the types, the   *)
(* order of results, the consent that precedes a handler, the counts of    *)
(* rounds and of usage, and that the loop implements Conversation.         *)
(***************************************************************************)
EXTENDS ToolLoop, FiniteSetTheorems, SequenceTheorems, TLAPS

Calling == {"collect", "handoff", "handedOff", "answer"}
InRound == {"reading", "emit", "usage", "ended"} \cup Calling

(***************************************************************************)
(* Types.  They need to know that a round is counted when it is over, and  *)
(* that the model was asked once for it.                                   *)
(***************************************************************************)
Counted ==
  /\ pc = "generate" => asked = round
  /\ pc \in InRound => asked = round + 1 /\ round < MaxRounds
  /\ pc \in Calling => calls > 0
  /\ pc = "answer" => Len(results) = calls
  /\ pc = "emit" => held.kind \in {"text", "call"} /\ (held.kind = "call" => held.call = Name(calls))
  /\ pc = "handoff" => held.kind = "handoff" /\ held.call[1] = round + 1

TypeInv == TypeOK /\ Counted

LEMMA Bounds ==
  /\ MaxRounds \in Nat /\ OutSize \in Nat /\ MaxRounds >= 1 /\ OutSize >= 1
  /\ MaxCalls \in Nat /\ MaxChanges \in Nat
BY ToolBounds

LEMMA ModeFields ==
  ASSUME NEW m \in Modes
  PROVE  /\ m.parallel \in BOOLEAN /\ m.emitResults \in BOOLEAN /\ m.approver \in BOOLEAN
         /\ m.choice \in {"auto", "required"}
BY ModeAssumption DEF Mode

LEMMA NatSum == ASSUME NEW m \in Nat, NEW n \in Nat PROVE m + n \in Nat
OBVIOUS

\* The frames of the loop.
LEMMA CallType ==
  ASSUME NEW r \in Nat, NEW c \in Nat, r < MaxRounds, 0 < c, c <= MaxCalls
  PROVE  <<r + 1, c>> \in Call
BY Bounds DEF Call

LEMMA FrameType ==
  ASSUME NEW k \in {"text", "call", "usage", "result", "handoff"}, NEW c \in Call \cup {NoCall}
  PROVE  [kind |-> k, call |-> c] \in LoopFrame
BY DEF LoopFrame

LEMMA FrameFields ==
  ASSUME NEW f \in LoopFrame
  PROVE  /\ f.kind \in {"text", "call", "usage", "result", "handoff"}
         /\ f.call[1] \in Nat /\ f.call[2] \in Nat
<1>1. f.kind \in {"text", "call", "usage", "result", "handoff"} /\ f.call \in Call \cup {NoCall}
  BY DEF LoopFrame
<1>2. CASE f.call \in Call
  BY <1>1, <1>2, Bounds DEF Call
<1>3. CASE f.call = NoCall
  BY <1>1, <1>3 DEF NoCall
<1> QED
  BY <1>1, <1>2, <1>3

LEMMA CallsType ==
  ASSUME round \in Nat, calls \in Nat, round < MaxRounds, calls <= MaxCalls
  PROVE  /\ ToolCalls \in Seq(Call) /\ Len(ToolCalls) = calls
         /\ calls > 0 => ToolCalls # <<>>
<1>1. ASSUME NEW c \in 1 .. calls PROVE Name(c) \in Call
  <2>1. c \in Nat /\ 0 < c /\ c <= MaxCalls
    BY Bounds
  <2> QED
    BY <2>1, CallType DEF Name
<1>2. ToolCalls \in [1 .. calls -> Call]
  BY <1>1 DEF ToolCalls
<1>3. ToolCalls \in Seq(Call)
  BY <1>2, SeqDef
<1>4. Len(ToolCalls) = calls
  BY <1>2, <1>3, LenProperties
<1> QED
  BY <1>3, <1>4

LEMMA InitType == Init => TypeInv
<1> SUFFICES ASSUME Init PROVE TypeInv
  OBVIOUS
<1>1. NoFrame \in LoopFrame
  BY DEF NoFrame, LoopFrame
<1>2. /\ opts \in Modes /\ pc \in Places /\ results \in Seq(Outcome)
      /\ round = 0 /\ calls = 0 /\ used = 0 /\ answered = 0 /\ Len(results) = 0
  BY DEF Init, Places
<1>8. text \in BOOLEAN
  BY DEF Init
<1>3. LoopType
  BY <1>1, <1>2, <1>8, Bounds DEF Init, LoopType
<1>4. TalkType
  <2>1. messages \in Seq(Turn) /\ asked = 0 /\ total = 0
    BY DEF Init
  <2>2. eager \in BOOLEAN
    BY DEF Init
  <2> QED
    BY <2>1, <2>2, Bounds DEF TalkType
<1>5. ToolType
  <2>1. tool \in [1 .. MaxCalls -> {"idle"} \cup Running \cup Outcome]
    BY DEF Init
  <2>2. consent \in [1 .. MaxCalls -> SUBSET {"loop", "set"}]
    BY DEF Init
  <2>3. setGate \in BOOLEAN /\ changes \in 0 .. MaxChanges /\ guarded \subseteq 1 .. MaxCalls
    BY Bounds DEF Init
  <2> QED
    BY <2>1, <2>2, <2>3 DEF ToolType
<1>6. OutType
  <2>1. sent \in Seq(LoopFrame) /\ taken = 0 /\ Len(sent) = 0
    BY DEF Init
  <2>2. cancelled \in BOOLEAN /\ closed \in BOOLEAN
    BY DEF Init
  <2>3. err \in {"nil", "ctx", "source", "maxRounds"} /\ resp \in 0 .. MaxRounds
    BY Bounds DEF Init
  <2> QED
    BY <2>1, <2>2, <2>3, Bounds DEF OutType
<1>7. Counted
  BY DEF Init, Counted, InRound, Calling
<1> QED
  BY <1>3, <1>4, <1>5, <1>6, <1>7 DEF TypeInv, TypeOK

\* One more result, and the results of calls that are skipped.
LEMMA ResultsGrow ==
  ASSUME LoopType, Missing, NEW o \in Outcome, results' = Append(results, o)
  PROVE  results' \in Seq(Outcome) /\ Len(results') = Len(results) + 1 /\ Len(results') <= calls
<1>1. results' \in Seq(Outcome) /\ Len(results') = Len(results) + 1
  BY AppendProperties DEF LoopType
<1> QED
  BY <1>1, Bounds DEF LoopType, Missing

LEMMA ResultsFill ==
  ASSUME LoopType, Missing,
         results' = [i \in 1 .. calls |-> IF i <= Len(results) THEN results[i] ELSE "error"]
  PROVE  results' \in Seq(Outcome) /\ Len(results') = calls
<1>1. calls \in Nat /\ Len(results) \in Nat /\ \A i \in 1 .. Len(results) : results[i] \in Outcome
  BY ElementOfSeq, LenProperties DEF LoopType
<1>2. results' \in [1 .. calls -> Outcome]
  BY <1>1 DEF Outcome
<1>3. results' \in Seq(Outcome)
  BY <1>1, <1>2, SeqDef
<1> QED
  BY <1>1, <1>2, <1>3, LenProperties

LEMMA StepLoopType == TypeInv /\ [Next]_vars => LoopType'
<1> SUFFICES ASSUME TypeInv, [Next]_vars PROVE LoopType'
  OBVIOUS
<1> USE Bounds DEF TypeInv, TypeOK, LoopType, Counted, Places, InRound, Calling,
      loop
<1>1. CASE OutOfRounds
  BY <1>1 DEF OutOfRounds, Finish
<1>2. CASE LoopCut
  BY <1>2 DEF LoopCut, Cut, Finish
<1>3. CASE EmitFrame
  BY <1>3 DEF EmitFrame
<1>4. CASE EmitUsage
  BY <1>4 DEF EmitUsage, Reemitted
<1>5. CASE RoundOver
  BY <1>5 DEF RoundOver, Finish
<1>6. CASE RunSerial
  BY <1>6 DEF RunSerial
<1>7. CASE SkipSerial
  <2>1. results' \in Seq(Outcome) /\ Len(results') = calls
    BY <1>7, ResultsFill DEF SkipSerial
  <2> QED
    BY <1>7, <2>1 DEF SkipSerial, Missing
<1>8. CASE Collect
  <2>1. results' \in Seq(Outcome) /\ Len(results') = Len(results) + 1 /\ Len(results') <= calls
    BY <1>8, ResultsGrow DEF Collect
  <2> QED
    BY <1>8, <2>1 DEF Collect
<1>9. CASE Settle
  <2>1. UNCHANGED <<opts, round, calls, text, used, results, answered>> /\ pc' \in Places
    BY <1>9 DEF Settle
  <2>2. CASE UNCHANGED held
    BY <2>1, <2>2
  <2>3. ASSUME NEW i \in DOMAIN results, held' = [kind |-> "handoff", call |-> Name(i)]
        PROVE  LoopType'
    <3>1. i \in Nat /\ 0 < i /\ i <= MaxCalls
      BY LenProperties
    <3>2. Name(i) \in Call
      BY <1>9, <3>1, CallType DEF Settle, Name
    <3>3. held' \in LoopFrame
      BY <2>3, <3>2, FrameType
    <3> QED
      BY <2>1, <3>3
  <2> QED
    BY <1>9, <2>2, <2>3 DEF Settle
<1>10. CASE EmitHandoff
  BY <1>10 DEF EmitHandoff
<1>11. CASE HandedOff
  BY <1>11 DEF HandedOff, Finish
<1>12. CASE EmitResult
  BY <1>12 DEF EmitResult, NextAnswer
<1>13. CASE RoundAnswered
  BY <1>13 DEF RoundAnswered, Grouped
<1>14. CASE Generate
  <2>1. results' \in Seq(Outcome) /\ Len(results') = 0
    BY <1>14 DEF Generate
  <2>2. text' \in BOOLEAN
    BY <1>14 DEF Generate
  <2> QED
    BY <1>14, <2>1, <2>2 DEF Generate
<1>15. CASE StreamText
  <2>1. held' \in LoopFrame
    BY <1>15, FrameType DEF StreamText
  <2> QED
    BY <1>15, <2>1 DEF StreamText
<1>16. CASE StreamCall
  <2>1. held' \in LoopFrame
    BY <1>16, FrameType, CallType DEF StreamCall, Name
  <2> QED
    BY <1>16, <2>1 DEF StreamCall
<1>17. CASE StreamEnds
  BY <1>17 DEF StreamEnds
<1>18. CASE GenerateFails
  BY <1>18 DEF GenerateFails, Finish
<1>19. CASE StreamFails
  BY <1>19 DEF StreamFails, Finish
<1>20. ASSUME NEW c \in 1 .. MaxCalls,
              LoopGate(c) \/ Lookup(c) \/ SetGate(c) \/ Handler(c)
      PROVE  LoopType'
  BY <1>20 DEF LoopGate, Lookup, SetGate, Handler, OnlyTool
<1>21. CASE Consume \/ Cancel \/ WithApprover
  BY <1>21 DEF Consume, Cancel, WithApprover
<1>22. CASE UNCHANGED vars
  BY <1>22 DEF vars
<1> QED
  BY <1>1, <1>2, <1>3, <1>4, <1>5, <1>6, <1>7, <1>8, <1>9, <1>10, <1>11,
     <1>12, <1>13, <1>14, <1>15, <1>16, <1>17, <1>18, <1>19, <1>20, <1>21, <1>22
     DEF Next, Loop, Model, Execution

LEMMA StepTalkType == TypeInv /\ [Next]_vars => TalkType'
<1> SUFFICES ASSUME TypeInv, [Next]_vars PROVE TalkType'
  OBVIOUS
<1> USE Bounds DEF TypeInv, TypeOK, TalkType, loop
<1>1. CASE RoundOver
  <2>1. UNCHANGED <<asked, total, eager>>
    BY <1>1 DEF RoundOver
  <2>2. ToolCalls \in Seq(Call)
    BY <1>1, CallsType DEF RoundOver, LoopType, Counted, InRound
  <2>3. [by |-> "assistant", text |-> text, calls |-> ToolCalls] \in Turn
    BY <2>2 DEF Turn, LoopType
  <2>4. messages' \in Seq(Turn)
    BY <1>1, <2>3, AppendProperties DEF RoundOver
  <2> QED
    BY <2>1, <2>4
<1>2. CASE RoundAnswered
  <2>1. UNCHANGED <<asked, total, eager>>
    BY <1>2 DEF RoundAnswered
  <2>2. ToolCalls \in Seq(Call)
    BY <1>2, CallsType DEF RoundAnswered, LoopType, Counted, InRound, Calling
  <2>3. [by |-> "tool", calls |-> ToolCalls] \in Turn
    BY <2>2 DEF Turn
  <2>4. messages' \in Seq(Turn)
    BY <1>2, <2>3, AppendProperties DEF RoundAnswered, Grouped
  <2> QED
    BY <2>1, <2>4
<1>3. CASE \/ OutOfRounds \/ LoopCut \/ EmitFrame \/ EmitUsage \/ RunSerial
           \/ SkipSerial \/ Collect \/ Settle \/ EmitHandoff \/ HandedOff
           \/ EmitResult
  BY <1>3 DEF OutOfRounds, LoopCut, EmitFrame, EmitUsage, RunSerial, SkipSerial,
     Collect, Settle, EmitHandoff, HandedOff, EmitResult, Finish, Cut
<1>4. CASE Generate
  BY <1>4 DEF Generate, Counted, LoopType
<1>5. CASE StreamCall
  <2>1. eager' \in BOOLEAN
    BY <1>5 DEF StreamCall
  <2> QED
    BY <1>5, <2>1 DEF StreamCall
<1>6. CASE StreamEnds
  <2>1. used' \in Nat /\ total' = total + used'
    BY <1>6 DEF StreamEnds
  <2>2. total + used' \in Nat
    <3>1. total \in Nat
      OBVIOUS
    <3> QED
      BY <2>1, <3>1, NatSum
  <2>3. total' \in Nat
    BY <2>1, <2>2, Zenon
  <2> QED
    BY <1>6, <2>3 DEF StreamEnds
<1>7. CASE StreamText \/ GenerateFails \/ StreamFails
  BY <1>7 DEF StreamText, GenerateFails, StreamFails, Finish
<1>8. ASSUME NEW c \in 1 .. MaxCalls,
             LoopGate(c) \/ Lookup(c) \/ SetGate(c) \/ Handler(c)
      PROVE  TalkType'
  BY <1>8 DEF LoopGate, Lookup, SetGate, Handler, OnlyTool
<1>9. CASE Consume \/ Cancel \/ WithApprover
  BY <1>9 DEF Consume, Cancel, WithApprover
<1>10. CASE UNCHANGED vars
  BY <1>10 DEF vars
<1> QED
  BY <1>1, <1>2, <1>3, <1>4, <1>5, <1>6, <1>7, <1>8, <1>9, <1>10
     DEF Next, Loop, Model, Execution

\* What the steps of a call leave of its types.
LEMMA GateKept ==
  ASSUME ToolType, NEW c \in 1 .. MaxCalls, NEW next \in {"idle"} \cup Running \cup Outcome,
         tool' = [tool EXCEPT ![c] = next], NEW gates0 \in SUBSET {"loop", "set"},
         \/ UNCHANGED consent
         \/ consent' = [consent EXCEPT ![c] = gates0]
         \/ consent' = [consent EXCEPT ![c] = @ \cup gates0],
         guarded' \subseteq guarded \cup {c}, UNCHANGED toolset
  PROVE  ToolType'
<1>1. tool' \in [1 .. MaxCalls -> {"idle"} \cup Running \cup Outcome]
  BY DEF ToolType
<1>2. consent' \in [1 .. MaxCalls -> SUBSET {"loop", "set"}]
  BY DEF ToolType
<1>3. guarded' \subseteq 1 .. MaxCalls /\ setGate' \in BOOLEAN /\ changes' \in 0 .. MaxChanges
  BY DEF ToolType, toolset
<1> QED
  BY <1>1, <1>2, <1>3 DEF ToolType

LEMMA ReturnKept ==
  ASSUME ToolType, NEW c \in 1 .. MaxCalls, NEW o \in Outcome, Returns(c, o), UNCHANGED toolset
  PROVE  ToolType'
<1>1. o \in {"idle"} \cup Running \cup Outcome /\ {} \in SUBSET {"loop", "set"}
  OBVIOUS
<1>2. /\ tool' = [tool EXCEPT ![c] = o] /\ consent' = [consent EXCEPT ![c] = {}]
      /\ guarded' \subseteq guarded \cup {c}
  BY DEF Returns
<1> QED
  BY <1>1, <1>2, GateKept

LEMMA StepToolType == TypeInv /\ [Next]_vars => ToolType'
<1> SUFFICES ASSUME TypeInv, [Next]_vars PROVE ToolType'
  OBVIOUS
<1> USE DEF TypeInv, TypeOK
<1>1. CASE RunSerial
  <2>1. Current \in 1 .. MaxCalls /\ UNCHANGED toolset
    BY <1>1, Bounds DEF RunSerial, Current, Missing, LoopType
  <2> QED
    BY <1>1, <2>1, GateKept DEF RunSerial, Begin, Running
<1>2. CASE \/ OutOfRounds \/ LoopCut \/ EmitFrame \/ EmitUsage \/ RoundOver
           \/ SkipSerial \/ Collect \/ Settle \/ EmitHandoff \/ HandedOff
           \/ EmitResult \/ RoundAnswered
  BY <1>2 DEF OutOfRounds, LoopCut, EmitFrame, EmitUsage, RoundOver, SkipSerial,
     Collect, Settle, EmitHandoff, HandedOff, EmitResult, RoundAnswered, Finish,
     Cut, ToolType, toolset, gates
<1>3. CASE Generate
  BY <1>3 DEF Generate, ToolType, toolset
<1>4. CASE StreamCall
  <2>1. calls' \in 1 .. MaxCalls /\ UNCHANGED toolset
    BY <1>4, Bounds DEF StreamCall, LoopType
  <2>2. CASE opts.parallel
    BY <1>4, <2>1, <2>2, GateKept DEF StreamCall, Begin, Running
  <2>3. CASE ~opts.parallel
    BY <1>4, <2>1, <2>3 DEF StreamCall, ToolType, toolset, gates
  <2> QED
    BY <2>2, <2>3
<1>5. CASE StreamText \/ StreamEnds \/ GenerateFails \/ StreamFails
  BY <1>5 DEF StreamText, StreamEnds, GenerateFails, StreamFails, Finish,
     ToolType, toolset, gates
<1>6. ASSUME NEW c \in 1 .. MaxCalls, LoopGate(c) PROVE ToolType'
  <2>1. CASE Approves(c, "loop", "lookup")
    BY <1>6, <2>1, GateKept DEF LoopGate, OnlyTool, Approves, Running
  <2>2. CASE Returns(c, "error")
    BY <1>6, <2>2, ReturnKept DEF LoopGate, OnlyTool, Outcome
  <2> QED
    BY <1>6, <2>1, <2>2 DEF LoopGate
<1>7. ASSUME NEW c \in 1 .. MaxCalls, Lookup(c) PROVE ToolType'
  <2>1. CASE Becomes(c, Loaded)
    <3>1. Loaded \in Running
      BY DEF Loaded, Running
    <3> QED
      BY <1>7, <2>1, <3>1, GateKept DEF Lookup, OnlyTool, Becomes, gates
  <2>2. CASE Returns(c, "error")
    BY <1>7, <2>2, ReturnKept DEF Lookup, OnlyTool, Outcome
  <2> QED
    BY <1>7, <2>1, <2>2 DEF Lookup
<1>8. ASSUME NEW c \in 1 .. MaxCalls, SetGate(c) PROVE ToolType'
  <2>1. CASE Approves(c, "set", "handler")
    BY <1>8, <2>1, GateKept DEF SetGate, OnlyTool, Approves, Running
  <2>2. CASE Returns(c, "error")
    BY <1>8, <2>2, ReturnKept DEF SetGate, OnlyTool, Outcome
  <2> QED
    BY <1>8, <2>1, <2>2 DEF SetGate
<1>9. ASSUME NEW c \in 1 .. MaxCalls, Handler(c) PROVE ToolType'
  BY <1>9, ReturnKept DEF Handler, OnlyTool
<1>10. CASE Consume
  BY <1>10 DEF Consume, ToolType, toolset, gates
<1>11. CASE Cancel
  BY <1>11 DEF Cancel, ToolType, toolset, gates
<1>12. CASE WithApprover
  <2>1. guarded' \subseteq 1 .. MaxCalls
    BY <1>12 DEF WithApprover, ToolType
  <2>2. setGate' \in BOOLEAN
    BY <1>12 DEF WithApprover
  <2>3. changes' \in 0 .. MaxChanges
    BY <1>12, Bounds DEF WithApprover, ToolType
  <2>4. UNCHANGED <<tool, consent>>
    BY <1>12 DEF WithApprover
  <2> QED
    BY <2>1, <2>2, <2>3, <2>4 DEF ToolType
<1>13. CASE UNCHANGED vars
  BY <1>13 DEF vars, ToolType, toolset, gates
<1> QED
  BY <1>1, <1>2, <1>3, <1>4, <1>5, <1>6, <1>7, <1>8, <1>9, <1>10, <1>11,
     <1>12, <1>13
     DEF Next, Loop, Model, Execution

\* A frame in the caller's stream.
LEMMA SentGrows ==
  ASSUME OutType, NEW f \in LoopFrame, Emit(f), UNCHANGED taken
  PROVE  /\ sent' \in Seq(LoopFrame) /\ Len(sent') = Len(sent) + 1 /\ sent'[Len(sent')] = f
         /\ \A i \in 1 .. Len(sent) : sent'[i] = sent[i]
         /\ taken' \in 0 .. Len(sent') /\ Len(sent') - taken' <= OutSize
<1>1. sent' \in Seq(LoopFrame) /\ Len(sent') = Len(sent) + 1 /\ sent'[Len(sent')] = f
  BY AppendProperties DEF OutType, Emit
<1>2. \A i \in 1 .. Len(sent) : sent'[i] = sent[i]
  BY AppendProperties DEF OutType, Emit
<1>3. taken' \in 0 .. Len(sent') /\ Len(sent') - taken' <= OutSize
  BY <1>1, Bounds DEF OutType, Emit, Room
<1> QED
  BY <1>1, <1>2, <1>3

LEMMA StepOutType == TypeInv /\ [Next]_vars => OutType'
<1> SUFFICES ASSUME TypeInv, [Next]_vars PROVE OutType'
  OBVIOUS
<1> USE Bounds DEF TypeInv, TypeOK, OutType, out
<1>1. CASE OutOfRounds
  BY <1>1 DEF OutOfRounds, Finish
<1>2. CASE LoopCut
  BY <1>2 DEF LoopCut, Cut, Finish
<1>3. CASE EmitFrame
  <2>1. held \in LoopFrame
    BY DEF LoopType
  <2>2. Emit(held) /\ UNCHANGED <<taken, cancelled, closed, err, resp>>
    BY <1>3 DEF EmitFrame
  <2> QED
    BY <2>1, <2>2, SentGrows
<1>4. CASE EmitUsage
  <2>1. [kind |-> "usage", call |-> NoCall] \in LoopFrame
    BY FrameType
  <2>2. Emit([kind |-> "usage", call |-> NoCall]) /\ UNCHANGED <<taken, cancelled, closed, err, resp>>
    BY <1>4 DEF EmitUsage, Reemitted
  <2> QED
    BY <2>1, <2>2, SentGrows
<1>5. CASE RoundOver
  <2>1. UNCHANGED <<cancelled, sent, taken>>
    BY <1>5 DEF RoundOver
  <2>2. CASE calls = 0
    <3>1. closed' \in BOOLEAN
      BY <1>5, <2>2 DEF RoundOver, Finish
    <3>2. resp' \in 0 .. MaxRounds /\ err' = "nil"
      BY <1>5, <2>2 DEF RoundOver, Finish, LoopType, Counted, InRound
    <3> QED
      BY <2>1, <3>1, <3>2
  <2>3. CASE calls # 0
    BY <1>5, <2>1, <2>3 DEF RoundOver
  <2> QED
    BY <2>2, <2>3
<1>6. CASE EmitHandoff
  <2>1. held \in LoopFrame
    BY DEF LoopType
  <2>2. Emit(held) /\ UNCHANGED <<taken, cancelled, closed, err, resp>>
    BY <1>6 DEF EmitHandoff
  <2> QED
    BY <2>1, <2>2, SentGrows
<1>7. CASE HandedOff
  BY <1>7 DEF HandedOff, Finish
<1>8. CASE EmitResult
  <2>1. [kind |-> "result", call |-> Name(NextAnswer)] \in LoopFrame
    <3>1. Name(NextAnswer) \in Call
      BY <1>8, CallType DEF EmitResult, Name, NextAnswer, LoopType, Counted, InRound, Calling
    <3> QED
      BY <3>1, FrameType
  <2>2. Emit([kind |-> "result", call |-> Name(NextAnswer)]) /\ UNCHANGED <<taken, cancelled, closed, err, resp>>
    BY <1>8 DEF EmitResult
  <2> QED
    BY <2>1, <2>2, SentGrows
<1>9. CASE RunSerial \/ SkipSerial \/ Collect \/ Settle \/ RoundAnswered
  BY <1>9 DEF RunSerial, SkipSerial, Collect, Settle, RoundAnswered
<1>10. CASE GenerateFails
  BY <1>10 DEF GenerateFails, Finish
<1>11. CASE StreamFails
  BY <1>11 DEF StreamFails, Finish
<1>12. CASE Generate \/ StreamText \/ StreamCall \/ StreamEnds
  BY <1>12 DEF Generate, StreamText, StreamCall, StreamEnds
<1>13. ASSUME NEW c \in 1 .. MaxCalls,
              LoopGate(c) \/ Lookup(c) \/ SetGate(c) \/ Handler(c)
      PROVE  OutType'
  BY <1>13 DEF LoopGate, Lookup, SetGate, Handler, OnlyTool
<1>14. CASE Consume
  BY <1>14 DEF Consume
<1>15. CASE Cancel
  BY <1>15 DEF Cancel
<1>16. CASE WithApprover
  BY <1>16 DEF WithApprover
<1>17. CASE UNCHANGED vars
  BY <1>17 DEF vars
<1> QED
  BY <1>1, <1>2, <1>3, <1>4, <1>5, <1>6, <1>7, <1>8, <1>9, <1>10, <1>11,
     <1>12, <1>13, <1>14, <1>15, <1>16, <1>17
     DEF Next, Loop, Model, Execution

LEMMA StepCounted == TypeInv /\ [Next]_vars => Counted'
<1> SUFFICES ASSUME TypeInv, [Next]_vars PROVE Counted'
  OBVIOUS
<1> USE Bounds DEF TypeInv, TypeOK, Counted, InRound, Calling, Name, loop
<1>1. CASE OutOfRounds
  BY <1>1 DEF OutOfRounds, Finish
<1>2. CASE LoopCut
  BY <1>2 DEF LoopCut, Cut, Finish
<1>3. CASE EmitFrame
  BY <1>3 DEF EmitFrame
<1>4. CASE EmitUsage
  BY <1>4 DEF EmitUsage, Reemitted
<1>5. CASE RoundOver
  <2>1. CASE calls = 0
    BY <1>5, <2>1 DEF RoundOver, Finish
  <2>2. CASE calls # 0
    BY <1>5, <2>2 DEF RoundOver, LoopType
  <2> QED
    BY <2>1, <2>2
<1>6. CASE RunSerial
  BY <1>6 DEF RunSerial, Begin, Missing
<1>7. CASE SkipSerial
  BY <1>7 DEF SkipSerial, Missing
<1>8. CASE Collect
  BY <1>8 DEF Collect, Missing, Current
<1>9. CASE Settle
  <2>1. UNCHANGED <<asked, round, calls, results>> /\ Len(results) = calls /\ calls > 0
    <3>1. Len(results) \in Nat
      BY DEF LoopType
    <3> QED
      BY <1>9, <3>1 DEF Settle, Missing, LoopType
  <2>2. asked = round + 1 /\ round < MaxRounds
    BY <1>9 DEF Settle
  <2>3. CASE pc' = "answer"
    BY <2>1, <2>2, <2>3
  <2>4. ASSUME NEW i \in DOMAIN results, pc' = "handoff",
               held' = [kind |-> "handoff", call |-> Name(i)]
        PROVE  Counted'
    <3>1. held'.kind = "handoff" /\ held'.call[1] = round + 1
      BY <2>4
    <3> QED
      BY <2>1, <2>2, <2>4, <3>1
  <2> QED
    BY <1>9, <2>3, <2>4 DEF Settle
<1>10. CASE EmitHandoff
  BY <1>10 DEF EmitHandoff
<1>11. CASE HandedOff
  BY <1>11 DEF HandedOff, Finish
<1>12. CASE EmitResult
  BY <1>12 DEF EmitResult, NextAnswer
<1>13. CASE RoundAnswered
  BY <1>13 DEF RoundAnswered, Grouped
<1>14. CASE Generate
  BY <1>14 DEF Generate
<1>15. CASE StreamText
  BY <1>15 DEF StreamText
<1>16. CASE StreamCall
  BY <1>16 DEF StreamCall, Begin, Name
<1>17. CASE StreamEnds
  BY <1>17 DEF StreamEnds
<1>18. CASE GenerateFails
  BY <1>18 DEF GenerateFails, Finish
<1>19. CASE StreamFails
  BY <1>19 DEF StreamFails, Finish
<1>20. ASSUME NEW c \in 1 .. MaxCalls,
              LoopGate(c) \/ Lookup(c) \/ SetGate(c) \/ Handler(c)
      PROVE  Counted'
  BY <1>20 DEF LoopGate, Lookup, SetGate, Handler, OnlyTool
<1>21. CASE Consume \/ Cancel \/ WithApprover
  BY <1>21 DEF Consume, Cancel, WithApprover
<1>22. CASE UNCHANGED vars
  BY <1>22 DEF vars
<1> QED
  BY <1>1, <1>2, <1>3, <1>4, <1>5, <1>6, <1>7, <1>8, <1>9, <1>10, <1>11,
     <1>12, <1>13, <1>14, <1>15, <1>16, <1>17, <1>18, <1>19, <1>20, <1>21, <1>22
     DEF Next, Loop, Model, Execution

LEMMA TypeAlways == Spec => []TypeInv
<1>1. TypeInv /\ [Next]_vars => TypeInv'
  BY StepLoopType, StepTalkType, StepToolType, StepOutType, StepCounted DEF TypeInv, TypeOK
<1> QED
  BY <1>1, InitType, PTL DEF Spec

\* Every variable of the tool loop keeps its type (tools/tools.go,
\* tools/tooling.go), whatever the model, the tools and the caller do.
THEOREM TypeCorrect == Spec => []TypeOK
<1>1. TypeInv => TypeOK
  BY DEF TypeInv
<1> QED
  BY <1>1, TypeAlways, PTL

(***************************************************************************)
(* Results.  A call is shown to the caller before the loop does anything   *)
(* else about it; the results of a round that is not over are the first    *)
(* ones; and after a handoff there is only the end.                        *)
(***************************************************************************)
Shows(c) == \E j \in DOMAIN sent : sent[j].kind = "call" /\ sent[j].call = Name(c)

Shown ==
  pc \in InRound =>
    \A c \in 1 .. calls : Shows(c) \/ (pc = "emit" /\ held = [kind |-> "call", call |-> Name(c)])

Answers ==
  \A i \in DOMAIN sent :
    /\ sent[i].kind = "result" =>
         \/ sent[i].call[1] <= round
         \/ /\ sent[i].call[1] = round + 1 /\ sent[i].call[2] <= answered
            /\ pc \in {"answer", "done"}
    /\ sent[i].kind = "handoff" => pc \in {"handedOff", "done"}

AnswerInv == TypeInv /\ Shown /\ Answers /\ Matched

\* The caller's stream before and after a frame.
LEMMA Frames ==
  ASSUME TypeInv
  PROVE  /\ Len(sent) \in Nat /\ DOMAIN sent = 1 .. Len(sent)
         /\ \A i \in DOMAIN sent : /\ sent[i] \in LoopFrame
                                   /\ sent[i].call[1] \in Nat /\ sent[i].call[2] \in Nat
<1>1. sent \in Seq(LoopFrame)
  BY DEF TypeInv, TypeOK, OutType
<1>2. Len(sent) \in Nat /\ DOMAIN sent = 1 .. Len(sent)
  BY <1>1, LenProperties
<1>3. \A i \in DOMAIN sent : sent[i] \in LoopFrame
  BY <1>1, <1>2, ElementOfSeq
<1> QED
  BY <1>2, <1>3, FrameFields

LEMMA FramesGrow ==
  ASSUME TypeInv, NEW f \in LoopFrame, Emit(f), UNCHANGED taken
  PROVE  /\ Len(sent) \in Nat /\ DOMAIN sent = 1 .. Len(sent)
         /\ Len(sent') = Len(sent) + 1 /\ DOMAIN sent' = 1 .. Len(sent) + 1
         /\ sent'[Len(sent) + 1] = f /\ \A i \in 1 .. Len(sent) : sent'[i] = sent[i]
<1>1. /\ sent' \in Seq(LoopFrame) /\ Len(sent') = Len(sent) + 1 /\ sent'[Len(sent')] = f
      /\ \A i \in 1 .. Len(sent) : sent'[i] = sent[i]
  BY SentGrows DEF TypeInv, TypeOK
<1>2. DOMAIN sent' = 1 .. Len(sent')
  BY <1>1, LenProperties
<1> QED
  BY <1>1, <1>2, Frames

\* What was shown stays so.
LEMMA ShowsStay ==
  ASSUME TypeInv, NEW f \in LoopFrame, Emit(f), UNCHANGED <<taken, round>>, NEW c
  PROVE  Shows(c) \/ f = [kind |-> "call", call |-> Name(c)] => Shows(c)'
<1>1. CASE Shows(c)
  BY <1>1, FramesGrow DEF Shows, Name
<1>2. CASE f = [kind |-> "call", call |-> Name(c)]
  <2>1. f.kind = "call" /\ f.call = Name(c) /\ Name(c)' = Name(c)
    BY <1>2 DEF Name
  <2>2. Len(sent) + 1 \in DOMAIN sent' /\ sent'[Len(sent) + 1] = f
    BY FramesGrow
  <2> QED
    BY <2>1, <2>2 DEF Shows
<1> QED
  BY <1>1, <1>2

LEMMA ShownSame ==
  ASSUME Shown, UNCHANGED <<sent, round, calls>>,
         pc' \in InRound => pc \in InRound \ {"emit"} \/ UNCHANGED <<pc, held>>
  PROVE  Shown'
<1>1. \A c : (Shows(c)' <=> Shows(c)) /\ Name(c)' = Name(c)
  BY DEF Shows, Name
<1> QED
  BY <1>1 DEF Shown

LEMMA AnswerFrame ==
  ASSUME TypeInv, pc = "answer", answered < Len(results)
  PROVE  [kind |-> "result", call |-> Name(NextAnswer)] \in LoopFrame
<1>1. round \in Nat /\ round < MaxRounds /\ NextAnswer \in Nat /\ 0 < NextAnswer /\ NextAnswer <= MaxCalls
  BY Bounds DEF TypeInv, TypeOK, LoopType, Counted, InRound, Calling, NextAnswer
<1>2. Name(NextAnswer) \in Call
  BY <1>1, CallType DEF Name
<1> QED
  BY <1>2, FrameType

LEMMA StepShown == AnswerInv /\ [Next]_vars => Shown'
<1> SUFFICES ASSUME AnswerInv, [Next]_vars PROVE Shown'
  OBVIOUS
<1> USE DEF AnswerInv
<1>1. CASE EmitFrame
  <2>1. held \in LoopFrame
    BY DEF TypeInv, TypeOK, LoopType
  <2>2. Emit(held) /\ UNCHANGED <<taken, round, calls, held>> /\ pc \in InRound
    BY <1>1 DEF EmitFrame, InRound, Calling
  <2>3. \A c \in 1 .. calls : Shows(c) \/ held = [kind |-> "call", call |-> Name(c)]
    BY <1>1, <2>2 DEF EmitFrame, Shown
  <2> QED
    BY <2>1, <2>2, <2>3, ShowsStay DEF Shown
<1>2. CASE EmitUsage
  <2>1. [kind |-> "usage", call |-> NoCall] \in LoopFrame
    BY FrameType
  <2>2. Emit([kind |-> "usage", call |-> NoCall]) /\ UNCHANGED <<taken, round, calls, held>> /\ pc \in InRound
    BY <1>2 DEF EmitUsage, Reemitted, InRound, Calling
  <2>3. \A c \in 1 .. calls : Shows(c) \/ [kind |-> "usage", call |-> NoCall] = [kind |-> "call", call |-> Name(c)]
    BY <1>2, <2>2 DEF EmitUsage, Shown
  <2> QED
    BY <2>1, <2>2, <2>3, ShowsStay DEF Shown
<1>3. CASE EmitHandoff
  <2>1. held \in LoopFrame
    BY DEF TypeInv, TypeOK, LoopType
  <2>2. Emit(held) /\ UNCHANGED <<taken, round, calls, held>> /\ pc \in InRound
    BY <1>3 DEF EmitHandoff, InRound, Calling
  <2>3. \A c \in 1 .. calls : Shows(c) \/ held = [kind |-> "call", call |-> Name(c)]
    BY <1>3, <2>2 DEF EmitHandoff, Shown
  <2> QED
    BY <2>1, <2>2, <2>3, ShowsStay DEF Shown
<1>4. CASE EmitResult
  <2>1. [kind |-> "result", call |-> Name(NextAnswer)] \in LoopFrame
    BY <1>4, AnswerFrame DEF EmitResult
  <2>2. Emit([kind |-> "result", call |-> Name(NextAnswer)]) /\ UNCHANGED <<taken, round, calls, held>> /\ pc \in InRound
    BY <1>4 DEF EmitResult, InRound, Calling
  <2>3. \A c \in 1 .. calls : Shows(c) \/ [kind |-> "result", call |-> Name(NextAnswer)] = [kind |-> "call", call |-> Name(c)]
    BY <1>4, <2>2 DEF EmitResult, Shown
  <2> QED
    BY <2>1, <2>2, <2>3, ShowsStay DEF Shown
<1>5. CASE RoundAnswered
  BY <1>5 DEF RoundAnswered, Shown, InRound, Calling
<1>6. CASE \/ OutOfRounds \/ LoopCut \/ RoundOver \/ RunSerial \/ SkipSerial
           \/ Collect \/ Settle \/ HandedOff
  BY <1>6, ShownSame DEF OutOfRounds, LoopCut, RoundOver, RunSerial, SkipSerial,
     Collect, Settle, HandedOff, Finish, Cut, loop, out, InRound, Calling
<1>7. CASE Generate
  <2>1. calls' = 0
    BY <1>7 DEF Generate
  <2> QED
    BY <2>1 DEF Shown
<1>8. CASE StreamText
  <2>1. UNCHANGED <<sent, round, calls>> /\ pc = "reading"
    BY <1>8 DEF StreamText, out
  <2>2. \A c : Shows(c)' <=> Shows(c)
    BY <2>1 DEF Shows, Name
  <2> QED
    BY <2>1, <2>2 DEF Shown, InRound
<1>9. CASE StreamCall
  <2>1. /\ UNCHANGED <<sent, round>> /\ pc = "reading" /\ pc' = "emit" /\ calls' = calls + 1
        /\ held' = [kind |-> "call", call |-> Name(calls')]
    BY <1>9 DEF StreamCall, out
  <2>2. \A c : (Shows(c)' <=> Shows(c)) /\ Name(c)' = Name(c)
    BY <2>1 DEF Shows, Name
  <2>3. held' = [kind |-> "call", call |-> Name(calls)']
    BY <2>1 DEF Name
  <2>4. \A c \in 1 .. calls : Shows(c)
    BY <2>1 DEF Shown, InRound
  <2>5. \A c \in 1 .. calls' : c \in 1 .. calls \/ c = calls'
    BY <2>1 DEF TypeInv, TypeOK, LoopType
  <2> QED
    BY <2>1, <2>2, <2>3, <2>4, <2>5 DEF Shown
<1>10. CASE StreamEnds \/ GenerateFails \/ StreamFails
  BY <1>10, ShownSame DEF StreamEnds, GenerateFails, StreamFails, Finish,
     loop, out, InRound, Calling
<1>11. ASSUME NEW c \in 1 .. MaxCalls,
              LoopGate(c) \/ Lookup(c) \/ SetGate(c) \/ Handler(c)
      PROVE  Shown'
  BY <1>11, ShownSame DEF LoopGate, Lookup, SetGate, Handler, OnlyTool,
     loop, out, InRound, Calling
<1>12. CASE Consume \/ Cancel \/ WithApprover
  BY <1>12, ShownSame DEF Consume, Cancel, WithApprover,
     loop, out, InRound, Calling
<1>13. CASE UNCHANGED vars
  BY <1>13, ShownSame DEF vars, loop, out, InRound, Calling
<1> QED
  BY <1>1, <1>2, <1>3, <1>4, <1>5, <1>6, <1>7, <1>8, <1>9, <1>10, <1>11,
     <1>12, <1>13
     DEF Next, Loop, Model, Execution

\* The frames the loop emits, apart from results and the handoff.
LEMMA AnswersGrow ==
  ASSUME TypeInv, Answers, NEW f \in LoopFrame, Emit(f), UNCHANGED <<taken, round>>,
         f.kind \notin {"result", "handoff"},
         pc \notin {"answer", "done", "handedOff"}
  PROVE  Answers'
BY FramesGrow DEF Answers

LEMMA AnswersSame ==
  ASSUME Answers, UNCHANGED <<sent, round>>,
         pc \in {"answer", "done"} => pc' \in {pc, "done"} /\ UNCHANGED answered,
         pc = "handedOff" => pc' \in {"handedOff", "done"}
  PROVE  Answers'
BY DEF Answers

LEMMA StepAnswers == AnswerInv /\ [Next]_vars => Answers'
<1> SUFFICES ASSUME AnswerInv, [Next]_vars PROVE Answers'
  OBVIOUS
<1> USE DEF AnswerInv
<1>1. CASE EmitFrame
  <2>1. held \in LoopFrame /\ held.kind \notin {"result", "handoff"}
    BY <1>1 DEF EmitFrame, TypeInv, TypeOK, LoopType, Counted
  <2>2. Emit(held) /\ UNCHANGED <<taken, round>> /\ pc \notin {"answer", "done", "handedOff"}
    BY <1>1 DEF EmitFrame
  <2> QED
    BY <2>1, <2>2, AnswersGrow
<1>2. CASE EmitUsage
  <2>1. [kind |-> "usage", call |-> NoCall] \in LoopFrame
    BY FrameType
  <2>2. /\ Emit([kind |-> "usage", call |-> NoCall]) /\ UNCHANGED <<taken, round>>
        /\ pc \notin {"answer", "done", "handedOff"}
    BY <1>2 DEF EmitUsage, Reemitted
  <2> QED
    BY <2>1, <2>2, AnswersGrow
<1>3. CASE EmitHandoff
  <2>1. held \in LoopFrame /\ held.kind = "handoff"
    BY <1>3 DEF EmitHandoff, TypeInv, TypeOK, LoopType, Counted
  <2>2. Emit(held) /\ UNCHANGED <<taken, round>> /\ pc = "handoff" /\ pc' = "handedOff"
    BY <1>3 DEF EmitHandoff
  <2> QED
    BY <2>1, <2>2, FramesGrow DEF Answers
<1>4. CASE EmitResult
  <2> DEFINE f == [kind |-> "result", call |-> Name(NextAnswer)]
  <2>1. f \in LoopFrame
    BY <1>4, AnswerFrame DEF EmitResult
  <2>2. Emit(f) /\ UNCHANGED <<taken, round, pc>> /\ pc = "answer" /\ answered' = answered + 1
    BY <1>4 DEF EmitResult
  <2>3. f.kind = "result" /\ f.call[1] = round + 1 /\ f.call[2] = answered + 1
    BY DEF Name, NextAnswer
  <2>4. round \in Nat /\ answered \in Nat
    BY DEF TypeInv, TypeOK, LoopType
  <2> HIDE DEF f
  <2> QED
    BY <2>1, <2>2, <2>3, <2>4, FramesGrow, Frames DEF Answers
<1>5. CASE RoundAnswered
  <2>1. UNCHANGED sent /\ pc = "answer" /\ round' = round + 1
    BY <1>5 DEF RoundAnswered, out
  <2>2. round \in Nat
    BY DEF TypeInv, TypeOK, LoopType
  <2> QED
    BY <2>1, <2>2, Frames DEF Answers
<1>6. CASE \/ OutOfRounds \/ LoopCut \/ RoundOver \/ RunSerial \/ SkipSerial
           \/ Collect \/ Settle \/ HandedOff
  BY <1>6, AnswersSame DEF OutOfRounds, LoopCut, RoundOver, RunSerial,
     SkipSerial, Collect, Settle, HandedOff, Finish, Cut, loop, out
<1>7. CASE \/ Generate \/ StreamText \/ StreamCall \/ StreamEnds
           \/ GenerateFails \/ StreamFails
  BY <1>7, AnswersSame DEF Generate, StreamText, StreamCall, StreamEnds,
     GenerateFails, StreamFails, Finish, loop, out
<1>8. ASSUME NEW c \in 1 .. MaxCalls,
             LoopGate(c) \/ Lookup(c) \/ SetGate(c) \/ Handler(c)
      PROVE  Answers'
  BY <1>8, AnswersSame DEF LoopGate, Lookup, SetGate, Handler, OnlyTool,
     loop, out
<1>9. CASE Consume \/ Cancel \/ WithApprover
  BY <1>9, AnswersSame DEF Consume, Cancel, WithApprover, loop, out
<1>10. CASE UNCHANGED vars
  BY <1>10, AnswersSame DEF vars, loop, out
<1> QED
  BY <1>1, <1>2, <1>3, <1>4, <1>5, <1>6, <1>7, <1>8, <1>9, <1>10
     DEF Next, Loop, Model, Execution

\* A frame keeps the order if it is no result, or one whose call has been shown and
\* that comes after the others, and if there has been no handoff.
LEMMA MatchedGrows ==
  ASSUME TypeInv, Matched, NEW f \in LoopFrame, Emit(f), UNCHANGED taken,
         \A i \in DOMAIN sent : sent[i].kind # "handoff",
         f.kind = "result" =>
           /\ \E j \in DOMAIN sent : sent[j].kind = "call" /\ sent[j].call = f.call
           /\ \A j \in DOMAIN sent : sent[j].kind = "result" => Earlier(sent[j].call, f.call),
         f.kind = "handoff" =>
           \A j \in DOMAIN sent : sent[j].kind = "result" => sent[j].call[1] # f.call[1]
  PROVE  Matched'
<1> DEFINE n == Len(sent)
<1>1. /\ n \in Nat /\ DOMAIN sent = 1 .. n /\ DOMAIN sent' = 1 .. n + 1 /\ Len(sent') = n + 1
      /\ sent'[n + 1] = f /\ \A i \in 1 .. n : sent'[i] = sent[i]
  BY FramesGrow
<1> HIDE DEF n
<1>2. ASSUME NEW i \in DOMAIN sent', sent'[i].kind = "result"
      PROVE  /\ \E j \in 1 .. i - 1 : sent'[j].kind = "call" /\ sent'[j].call = sent'[i].call
             /\ \A j \in 1 .. i - 1 : sent'[j].kind = "result" => Earlier(sent'[j].call, sent'[i].call)
  <2>1. CASE i = n + 1
    <3>1. 1 .. i - 1 = DOMAIN sent
      BY <1>1, <2>1
    <3> QED
      BY <1>1, <1>2, <2>1, <3>1
  <2>2. CASE i # n + 1
    <3>1. i \in DOMAIN sent /\ sent'[i] = sent[i] /\ \A j \in 1 .. i - 1 : sent'[j] = sent[j]
      BY <1>1, <2>2
    <3> QED
      BY <1>2, <3>1 DEF Matched
  <2> QED
    BY <2>1, <2>2
<1>3. ASSUME NEW i \in DOMAIN sent', sent'[i].kind = "handoff"
      PROVE  /\ i = Len(sent')
             /\ \A j \in DOMAIN sent' : sent'[j].kind = "result" => sent'[j].call[1] # sent'[i].call[1]
  <2>1. i = n + 1
    BY <1>1, <1>3
  <2> QED
    BY <1>1, <1>3, <2>1
<1> QED
  BY <1>2, <1>3 DEF Matched

LEMMA MatchedSame == ASSUME Matched, UNCHANGED sent PROVE Matched'
BY DEF Matched

LEMMA StepMatched == AnswerInv /\ [Next]_vars => Matched'
<1> SUFFICES ASSUME AnswerInv, [Next]_vars PROVE Matched'
  OBVIOUS
<1> USE DEF AnswerInv, out
<1>1. CASE EmitFrame
  <2>1. held \in LoopFrame /\ held.kind \notin {"result", "handoff"}
    BY <1>1 DEF EmitFrame, TypeInv, TypeOK, LoopType, Counted
  <2>2. Emit(held) /\ UNCHANGED taken /\ pc \notin {"done", "handedOff"}
    BY <1>1 DEF EmitFrame
  <2>3. \A i \in DOMAIN sent : sent[i].kind # "handoff"
    BY <2>2 DEF Answers
  <2> QED
    BY <2>1, <2>2, <2>3, MatchedGrows
<1>2. CASE EmitUsage
  <2> DEFINE f == [kind |-> "usage", call |-> NoCall]
  <2>1. f \in LoopFrame /\ f.kind \notin {"result", "handoff"}
    BY FrameType
  <2>2. Emit(f) /\ UNCHANGED taken /\ pc \notin {"done", "handedOff"}
    BY <1>2 DEF EmitUsage, Reemitted
  <2>3. \A i \in DOMAIN sent : sent[i].kind # "handoff"
    BY <2>2 DEF Answers
  <2> HIDE DEF f
  <2> QED
    BY <2>1, <2>2, <2>3, MatchedGrows
<1>3. CASE EmitHandoff
  <2>1. held \in LoopFrame /\ held.kind = "handoff" /\ held.call[1] = round + 1
    BY <1>3 DEF EmitHandoff, TypeInv, TypeOK, LoopType, Counted
  <2>2. Emit(held) /\ UNCHANGED taken /\ pc = "handoff"
    BY <1>3 DEF EmitHandoff
  <2>3. \A i \in DOMAIN sent : sent[i].kind # "handoff"
    BY <2>2 DEF Answers
  <2>4. round \in Nat
    BY DEF TypeInv, TypeOK, LoopType
  <2>5. \A j \in DOMAIN sent : sent[j].kind = "result" => sent[j].call[1] # held.call[1]
    BY <2>1, <2>2, <2>4, Frames DEF Answers
  <2> QED
    BY <2>1, <2>2, <2>3, <2>5, MatchedGrows
<1>4. CASE EmitResult
  <2> DEFINE f == [kind |-> "result", call |-> Name(NextAnswer)]
  <2>1. f \in LoopFrame
    BY <1>4, AnswerFrame DEF EmitResult
  <2>2. Emit(f) /\ UNCHANGED taken /\ pc = "answer"
    BY <1>4 DEF EmitResult
  <2>3. \A i \in DOMAIN sent : sent[i].kind # "handoff"
    BY <2>2 DEF Answers
  <2>4. NextAnswer \in 1 .. calls
    BY <1>4 DEF EmitResult, NextAnswer, TypeInv, TypeOK, LoopType
  <2>5. \E j \in DOMAIN sent : sent[j].kind = "call" /\ sent[j].call = f.call
    BY <2>2, <2>4 DEF Shown, Shows, InRound, Calling
  <2>6. f.kind = "result" /\ f.call[1] = round + 1 /\ f.call[2] = answered + 1
    BY DEF Name, NextAnswer
  <2>7. round \in Nat /\ answered \in Nat
    BY DEF TypeInv, TypeOK, LoopType
  <2> HIDE DEF f
  <2>8. \A j \in DOMAIN sent : sent[j].kind = "result" => Earlier(sent[j].call, f.call)
    BY <2>2, <2>6, <2>7, Frames DEF Answers, Earlier
  <2> QED
    BY <2>1, <2>2, <2>3, <2>5, <2>6, <2>8, MatchedGrows
<1>5. CASE \/ OutOfRounds \/ LoopCut \/ RoundOver \/ RunSerial \/ SkipSerial
           \/ Collect \/ Settle \/ HandedOff \/ RoundAnswered
  BY <1>5, MatchedSame DEF OutOfRounds, LoopCut, RoundOver, RunSerial,
     SkipSerial, Collect, Settle, HandedOff, RoundAnswered, Finish, Cut
<1>6. CASE \/ Generate \/ StreamText \/ StreamCall \/ StreamEnds
           \/ GenerateFails \/ StreamFails
  BY <1>6, MatchedSame DEF Generate, StreamText, StreamCall, StreamEnds,
     GenerateFails, StreamFails, Finish
<1>7. ASSUME NEW c \in 1 .. MaxCalls,
             LoopGate(c) \/ Lookup(c) \/ SetGate(c) \/ Handler(c)
      PROVE  Matched'
  BY <1>7, MatchedSame DEF LoopGate, Lookup, SetGate, Handler, OnlyTool
<1>8. CASE Consume \/ Cancel \/ WithApprover
  BY <1>8, MatchedSame DEF Consume, Cancel, WithApprover
<1>9. CASE UNCHANGED vars
  BY <1>9, MatchedSame DEF vars
<1> QED
  BY <1>1, <1>2, <1>3, <1>4, <1>5, <1>6, <1>7, <1>8, <1>9
     DEF Next, Loop, Model, Execution

\* Results come after their calls, in the order of the calls, once each, and
\* nothing comes after a handoff (ToolLoop.run).
THEOREM ResultsMatchCallsAlways == Spec => []ResultsMatchCalls
<1>1. Init => Shown /\ Answers /\ Matched
  BY DEF Init, Shown, Answers, Matched, InRound, Calling
<1>2. AnswerInv /\ [Next]_vars => Shown' /\ Answers' /\ Matched'
  BY StepShown, StepAnswers, StepMatched
<1>3. TypeInv /\ Matched => ResultsMatchCalls
  BY DEF TypeInv, ResultsMatchCalls
<1> QED
  BY <1>1, <1>2, <1>3, TypeAlways, PTL DEF Spec, AnswerInv

(***************************************************************************)
(* Consent.  A call that has passed the loop's gate has its consent, and a *)
(* call that was begun while the Toolset had an approver either has not    *)
(* looked for it yet, and then the approver is still there, or is on its   *)
(* way through it.                                                         *)
(***************************************************************************)
Untouched == pc \in {"reading", "emit"} => \A c \in calls + 1 .. MaxCalls : tool[c] = "idle"

Consented ==
  \A c \in 1 .. MaxCalls :
    /\ opts.approver /\ tool[c] \in {"lookup", "setGate", "handler"} => "loop" \in consent[c]
    /\ c \in guarded => tool[c] \in Running
    /\ c \in guarded /\ tool[c] \in {"loopGate", "lookup"} => setGate
    /\ c \in guarded /\ tool[c] = "handler" => "set" \in consent[c]

GateInv == TypeInv /\ Untouched /\ Consented

\* A step of one call leaves the others alone.
LEMMA OthersConsented ==
  ASSUME GateInv, NEW c \in 1 .. MaxCalls, UNCHANGED <<opts, toolset>>,
         \A d \in (1 .. MaxCalls) \ {c} :
           tool'[d] = tool[d] /\ consent'[d] = consent[d] /\ (d \in guarded' => d \in guarded),
         opts.approver /\ tool'[c] \in {"lookup", "setGate", "handler"} => "loop" \in consent'[c],
         c \in guarded' => tool'[c] \in Running,
         c \in guarded' /\ tool'[c] \in {"loopGate", "lookup"} => setGate,
         c \in guarded' /\ tool'[c] = "handler" => "set" \in consent'[c]
  PROVE  Consented'
BY DEF GateInv, Consented, toolset

LEMMA BeginsConsented ==
  ASSUME GateInv, NEW c \in 1 .. MaxCalls, tool[c] = "idle", Begin(c), UNCHANGED <<opts, toolset>>
  PROVE  Consented'
<1>1. tool'[c] \in {"loopGate", "lookup"} /\ (opts.approver => tool'[c] = "loopGate")
  BY DEF Begin, GateInv, TypeInv, TypeOK, ToolType
<1>2. c \notin guarded
  BY DEF GateInv, Consented, Running
<1>3. c \in guarded' => setGate
  BY <1>2 DEF Begin
<1>4. \A d \in (1 .. MaxCalls) \ {c} :
        tool'[d] = tool[d] /\ consent'[d] = consent[d] /\ (d \in guarded' => d \in guarded)
  BY DEF Begin, GateInv, TypeInv, TypeOK, ToolType
<1> QED
  BY <1>1, <1>3, <1>4, OthersConsented DEF Running

LEMMA ReturnsConsented ==
  ASSUME GateInv, NEW c \in 1 .. MaxCalls, NEW o \in Outcome, Returns(c, o), UNCHANGED <<opts, toolset>>
  PROVE  Consented'
<1>1. tool'[c] \in Outcome /\ c \notin guarded'
  BY DEF Returns, GateInv, TypeInv, TypeOK, ToolType
<1>2. \A d \in (1 .. MaxCalls) \ {c} :
        tool'[d] = tool[d] /\ consent'[d] = consent[d] /\ (d \in guarded' => d \in guarded)
  BY DEF Returns, GateInv, TypeInv, TypeOK, ToolType
<1> QED
  BY <1>1, <1>2, OthersConsented DEF Outcome

LEMMA ApprovesConsented ==
  ASSUME GateInv, NEW c \in 1 .. MaxCalls, UNCHANGED <<opts, toolset>>,
         \/ tool[c] = "loopGate" /\ Approves(c, "loop", "lookup")
         \/ tool[c] = "setGate" /\ Approves(c, "set", "handler")
  PROVE  Consented'
<1>1. \A d \in (1 .. MaxCalls) \ {c} :
        tool'[d] = tool[d] /\ consent'[d] = consent[d] /\ (d \in guarded' => d \in guarded)
  BY DEF Approves, GateInv, TypeInv, TypeOK, ToolType
<1>2. CASE tool[c] = "loopGate" /\ Approves(c, "loop", "lookup")
  <2>1. tool'[c] = "lookup" /\ "loop" \in consent'[c] /\ (c \in guarded' => c \in guarded)
    BY <1>2 DEF Approves, GateInv, TypeInv, TypeOK, ToolType
  <2>2. c \in guarded => setGate
    BY <1>2 DEF GateInv, Consented
  <2> QED
    BY <1>1, <2>1, <2>2, OthersConsented DEF Running
<1>3. CASE tool[c] = "setGate" /\ Approves(c, "set", "handler")
  <2>1. tool'[c] = "handler" /\ consent'[c] = consent[c] \cup {"set"}
    BY <1>3 DEF Approves, GateInv, TypeInv, TypeOK, ToolType
  <2>2. opts.approver => "loop" \in consent[c]
    BY <1>3 DEF GateInv, Consented
  <2> QED
    BY <1>1, <2>1, <2>2, OthersConsented DEF Running
<1> QED
  BY <1>2, <1>3

LEMMA ConsentedSame ==
  ASSUME Consented, UNCHANGED <<opts, tool, setGate, consent, guarded>>
  PROVE  Consented'
BY DEF Consented

LEMMA UntouchedKept ==
  ASSUME GateInv, NEW c \in 1 .. MaxCalls, tool[c] # "idle", NEW state,
         tool' = [tool EXCEPT ![c] = state], UNCHANGED <<pc, calls>>
  PROVE  Untouched'
<1>1. \A d \in (1 .. MaxCalls) \ {c} : tool'[d] = tool[d]
  BY DEF GateInv, TypeInv, TypeOK, ToolType
<1>2. calls \in Nat
  BY DEF GateInv, TypeInv, TypeOK, LoopType
<1> QED
  BY <1>1, <1>2 DEF GateInv, Untouched

LEMMA StepUntouched == GateInv /\ [Next]_vars => Untouched'
<1> SUFFICES ASSUME GateInv, [Next]_vars PROVE Untouched'
  OBVIOUS
<1> USE DEF GateInv, TypeInv, TypeOK, LoopType, ToolType, Untouched, loop
<1>1. CASE \/ OutOfRounds \/ LoopCut \/ EmitFrame \/ EmitUsage \/ RoundOver
           \/ RunSerial \/ SkipSerial \/ Collect \/ Settle \/ EmitHandoff
           \/ HandedOff \/ EmitResult \/ RoundAnswered
  BY <1>1 DEF OutOfRounds, LoopCut, EmitFrame, EmitUsage, RoundOver, RunSerial,
     SkipSerial, Collect, Settle, EmitHandoff, HandedOff, EmitResult,
     RoundAnswered, Finish, Cut
<1>2. CASE Generate
  BY <1>2 DEF Generate
<1>3. CASE StreamCall
  <2>1. calls' = calls + 1 /\ pc = "reading"
    BY <1>3 DEF StreamCall
  <2>2. \A c \in calls' + 1 .. MaxCalls : c \in calls + 1 .. MaxCalls /\ c # calls'
    BY <2>1
  <2>3. \A c \in 1 .. MaxCalls : c # calls' => tool'[c] = tool[c]
    BY <1>3 DEF StreamCall, Begin
  <2> QED
    BY <2>1, <2>2, <2>3
<1>4. CASE StreamText \/ StreamEnds \/ GenerateFails \/ StreamFails
  BY <1>4 DEF StreamText, StreamEnds, GenerateFails, StreamFails, Finish
<1>5. ASSUME NEW c \in 1 .. MaxCalls, LoopGate(c) PROVE Untouched'
  <2>1. tool[c] # "idle" /\ UNCHANGED <<pc, calls>> /\ \E state : tool' = [tool EXCEPT ![c] = state]
    BY <1>5 DEF LoopGate, OnlyTool, Approves, Returns
  <2> QED
    BY <2>1, UntouchedKept
<1>6. ASSUME NEW c \in 1 .. MaxCalls, Lookup(c) PROVE Untouched'
  <2>1. tool[c] # "idle" /\ UNCHANGED <<pc, calls>> /\ \E state : tool' = [tool EXCEPT ![c] = state]
    BY <1>6 DEF Lookup, OnlyTool, Becomes, Returns
  <2> QED
    BY <2>1, UntouchedKept
<1>7. ASSUME NEW c \in 1 .. MaxCalls, SetGate(c) PROVE Untouched'
  <2>1. tool[c] # "idle" /\ UNCHANGED <<pc, calls>> /\ \E state : tool' = [tool EXCEPT ![c] = state]
    BY <1>7 DEF SetGate, OnlyTool, Approves, Returns
  <2> QED
    BY <2>1, UntouchedKept
<1>8. ASSUME NEW c \in 1 .. MaxCalls, Handler(c) PROVE Untouched'
  <2>1. tool[c] # "idle" /\ UNCHANGED <<pc, calls>> /\ \E state : tool' = [tool EXCEPT ![c] = state]
    BY <1>8 DEF Handler, OnlyTool, Returns
  <2> QED
    BY <2>1, UntouchedKept
<1>9. CASE Consume \/ Cancel \/ WithApprover
  BY <1>9 DEF Consume, Cancel, WithApprover
<1>10. CASE UNCHANGED vars
  BY <1>10 DEF vars
<1> QED
  BY <1>1, <1>2, <1>3, <1>4, <1>5, <1>6, <1>7, <1>8, <1>9, <1>10
     DEF Next, Loop, Model, Execution

LEMMA StepConsented == GateInv /\ [Next]_vars => Consented'
<1> SUFFICES ASSUME GateInv, [Next]_vars PROVE Consented'
  OBVIOUS
<1> USE DEF GateInv
<1>1. CASE RunSerial
  <2>1. Current \in 1 .. MaxCalls /\ tool[Current] = "idle" /\ UNCHANGED <<opts, toolset>>
    BY <1>1, Bounds DEF RunSerial, Current, Missing, TypeInv, TypeOK, LoopType
  <2> QED
    BY <1>1, <2>1, BeginsConsented DEF RunSerial
<1>2. CASE \/ OutOfRounds \/ LoopCut \/ EmitFrame \/ EmitUsage \/ RoundOver
           \/ SkipSerial \/ Collect \/ Settle \/ EmitHandoff \/ HandedOff
           \/ EmitResult \/ RoundAnswered
  BY <1>2, ConsentedSame DEF OutOfRounds, LoopCut, EmitFrame, EmitUsage,
     RoundOver, SkipSerial, Collect, Settle, EmitHandoff, HandedOff, EmitResult,
     RoundAnswered, Finish, Cut, toolset, gates
<1>3. CASE Generate
  <2>1. guarded' = {} /\ \A c \in 1 .. MaxCalls : tool'[c] = "idle"
    BY <1>3 DEF Generate
  <2> QED
    BY <2>1 DEF Consented
<1>4. CASE StreamCall
  <2>1. calls' \in 1 .. MaxCalls /\ tool[calls'] = "idle" /\ UNCHANGED <<opts, toolset>>
    BY <1>4, Bounds DEF StreamCall, TypeInv, TypeOK, LoopType, Untouched
  <2>2. CASE opts.parallel
    BY <1>4, <2>1, <2>2, BeginsConsented DEF StreamCall
  <2>3. CASE ~opts.parallel
    BY <1>4, <2>3, ConsentedSame DEF StreamCall, toolset, gates
  <2> QED
    BY <2>2, <2>3
<1>5. CASE StreamText \/ StreamEnds \/ GenerateFails \/ StreamFails
  BY <1>5, ConsentedSame DEF StreamText, StreamEnds, GenerateFails, StreamFails,
     Finish, toolset, gates
<1>6. ASSUME NEW c \in 1 .. MaxCalls, LoopGate(c) PROVE Consented'
  <2>1. CASE Approves(c, "loop", "lookup")
    BY <1>6, <2>1, ApprovesConsented DEF LoopGate, OnlyTool
  <2>2. CASE Returns(c, "error")
    <3>1. "error" \in Outcome /\ UNCHANGED <<opts, toolset>>
      BY <1>6 DEF LoopGate, OnlyTool, Outcome
    <3> QED
      BY <2>2, <3>1, ReturnsConsented
  <2> QED
    BY <1>6, <2>1, <2>2 DEF LoopGate
<1>7. ASSUME NEW c \in 1 .. MaxCalls, Lookup(c) PROVE Consented'
  <2>1. CASE Becomes(c, Loaded)
    <3>1. UNCHANGED <<opts, toolset>> /\ tool' = [tool EXCEPT ![c] = Loaded] /\ UNCHANGED <<consent, guarded>>
      BY <1>7, <2>1 DEF Lookup, OnlyTool, Becomes, gates
    <3>2. tool'[c] = Loaded /\ \A d \in (1 .. MaxCalls) \ {c} : tool'[d] = tool[d]
      BY <3>1 DEF TypeInv, TypeOK, ToolType
    <3>3. Loaded \in {"setGate", "handler"} /\ (setGate => Loaded = "setGate")
      BY DEF Loaded
    <3>4. (opts.approver => "loop" \in consent[c]) /\ (c \in guarded => setGate)
      BY <1>7 DEF Lookup, Consented
    <3> QED
      BY <3>1, <3>2, <3>3, <3>4, OthersConsented DEF Running
  <2>2. CASE Returns(c, "error")
    <3>1. "error" \in Outcome /\ UNCHANGED <<opts, toolset>>
      BY <1>7 DEF Lookup, OnlyTool, Outcome
    <3> QED
      BY <2>2, <3>1, ReturnsConsented
  <2> QED
    BY <1>7, <2>1, <2>2 DEF Lookup
<1>8. ASSUME NEW c \in 1 .. MaxCalls, SetGate(c) PROVE Consented'
  <2>1. CASE Approves(c, "set", "handler")
    BY <1>8, <2>1, ApprovesConsented DEF SetGate, OnlyTool
  <2>2. CASE Returns(c, "error")
    <3>1. "error" \in Outcome /\ UNCHANGED <<opts, toolset>>
      BY <1>8 DEF SetGate, OnlyTool, Outcome
    <3> QED
      BY <2>2, <3>1, ReturnsConsented
  <2> QED
    BY <1>8, <2>1, <2>2 DEF SetGate
<1>9. ASSUME NEW c \in 1 .. MaxCalls, Handler(c) PROVE Consented'
  <2>1. UNCHANGED <<opts, toolset>>
    BY <1>9 DEF Handler, OnlyTool
  <2> QED
    BY <1>9, <2>1, ReturnsConsented DEF Handler
<1>10. CASE WithApprover
  <2>1. UNCHANGED <<opts, tool, consent>> /\ guarded' \subseteq guarded
    BY <1>10 DEF WithApprover
  <2>2. \A c \in guarded' : tool[c] \in {"loopGate", "lookup"} => ~setGate
    BY <1>10 DEF WithApprover
  <2>3. setGate' <=> ~setGate
    BY <1>10 DEF WithApprover
  <2> QED
    BY <2>1, <2>2, <2>3 DEF Consented
<1>11. CASE Consume \/ Cancel
  BY <1>11, ConsentedSame DEF Consume, Cancel, toolset, gates
<1>12. CASE UNCHANGED vars
  BY <1>12, ConsentedSame DEF vars, toolset, gates
<1> QED
  BY <1>1, <1>2, <1>3, <1>4, <1>5, <1>6, <1>7, <1>8, <1>9, <1>10, <1>11,
     <1>12
     DEF Next, Loop, Model, Execution

\* No handler runs without the consent of the approvers that were there from the
\* start of its call on (ToolLoop.execOne, Toolset.ExecuteCall).
THEOREM GateRespectedAlways == Spec => []GateRespected
<1>1. Init => Untouched /\ Consented
  BY Bounds DEF Init, Untouched, Consented
<1>2. GateInv /\ [Next]_vars => Untouched' /\ Consented'
  BY StepUntouched, StepConsented
<1>3. TypeInv /\ Consented => GateRespected
  BY Bounds DEF TypeInv, TypeOK, LoopType, Consented, GateRespected
<1> QED
  BY <1>1, <1>2, <1>3, TypeAlways, PTL DEF Spec, GateInv

(***************************************************************************)
(* Rounds.  After the first, a round has calls only if the model made them *)
(* of its own accord.  And the caller has been told the usage of every     *)
(* stream that has ended, but for what the loop is about to tell.          *)
(***************************************************************************)
Eagerness ==
  /\ pc # "done" => err = "nil"
  /\ round > 1 => eager
  /\ round > 0 /\ pc \in InRound /\ calls > 0 => eager
  /\ err = "maxRounds" => round = MaxRounds

Told ==
  (pc = "done" => err \in {"nil", "maxRounds"}) =>
    Cardinality(Usages) + (IF pc = "usage" THEN 1 ELSE 0) = total

RoundInv == TypeInv /\ Eagerness /\ Told

LEMMA UsagesNat ==
  ASSUME TypeInv
  PROVE  IsFiniteSet(Usages) /\ Cardinality(Usages) \in Nat
<1>1. Len(sent) \in Nat /\ Usages \subseteq 1 .. Len(sent)
  BY Frames DEF Usages
<1>2. IsFiniteSet(1 .. Len(sent))
  BY <1>1, FS_Interval
<1> QED
  BY <1>1, <1>2, FS_Subset, FS_CardinalityType

LEMMA UsagesGrow ==
  ASSUME TypeInv, NEW f \in LoopFrame, Emit(f), UNCHANGED taken
  PROVE  /\ Cardinality(Usages) \in Nat
         /\ f.kind = "usage" => Cardinality(Usages') = Cardinality(Usages) + 1
         /\ f.kind # "usage" => Cardinality(Usages') = Cardinality(Usages)
<1> DEFINE n == Len(sent)
<1>1. /\ n \in Nat /\ DOMAIN sent = 1 .. n /\ DOMAIN sent' = 1 .. n + 1 /\ sent'[n + 1] = f
      /\ \A i \in 1 .. n : sent'[i] = sent[i]
  BY FramesGrow
<1> HIDE DEF n
<1>2. IsFiniteSet(Usages) /\ Cardinality(Usages) \in Nat
  BY UsagesNat
<1>3. CASE f.kind = "usage"
  <2>1. Usages' = Usages \cup {n + 1} /\ n + 1 \notin Usages
    BY <1>1, <1>3 DEF Usages
  <2> QED
    BY <1>2, <1>3, <2>1, FS_AddElement
<1>4. CASE f.kind # "usage"
  <2>1. Usages' = Usages
    BY <1>1, <1>4 DEF Usages
  <2> QED
    BY <1>2, <1>4, <2>1
<1> QED
  BY <1>3, <1>4

LEMMA ToldSame ==
  ASSUME Told, UNCHANGED <<sent, total>>,
         \/ pc' = "done" /\ err' \notin {"nil", "maxRounds"}
         \/ pc' # "usage" /\ pc \notin {"usage", "done"}
         \/ UNCHANGED <<pc, err>>
  PROVE  Told'
<1>1. Usages' = Usages
  BY DEF Usages
<1> QED
  BY <1>1 DEF Told

LEMMA StepEagerness == RoundInv /\ [Next]_vars => Eagerness'
<1> SUFFICES ASSUME RoundInv, [Next]_vars PROVE Eagerness'
  OBVIOUS
<1> USE DEF RoundInv, TypeInv, TypeOK, LoopType, Counted, Eagerness, InRound,
      Calling, loop, out
<1>1. CASE OutOfRounds
  BY <1>1 DEF OutOfRounds, Finish
<1>2. CASE LoopCut
  BY <1>2 DEF LoopCut, Cut, Finish
<1>3. CASE EmitFrame
  BY <1>3 DEF EmitFrame
<1>4. CASE EmitUsage
  BY <1>4 DEF EmitUsage, Reemitted
<1>5. CASE RoundOver
  BY <1>5 DEF RoundOver, Finish
<1>6. CASE Settle
  BY <1>6 DEF Settle, Missing
<1>7. CASE EmitHandoff
  BY <1>7 DEF EmitHandoff
<1>8. CASE HandedOff
  BY <1>8 DEF HandedOff, Finish
<1>9. CASE EmitResult
  BY <1>9 DEF EmitResult, NextAnswer
<1>10. CASE RoundAnswered
  BY <1>10 DEF RoundAnswered, Grouped
<1>11. CASE RunSerial \/ SkipSerial \/ Collect
  BY <1>11 DEF RunSerial, SkipSerial, Collect
<1>12. CASE Generate
  BY <1>12 DEF Generate
<1>13. CASE StreamText
  BY <1>13 DEF StreamText
<1>14. CASE StreamCall
  <2>1. round > 0 => eager'
    BY <1>14 DEF StreamCall, Choice, Relaxed
  <2>2. eager => eager'
    BY <1>14 DEF StreamCall
  <2>3. UNCHANGED <<round, err>> /\ pc = "reading" /\ pc' = "emit"
    BY <1>14 DEF StreamCall
  <2> QED
    BY <2>1, <2>2, <2>3
<1>15. CASE StreamEnds
  BY <1>15 DEF StreamEnds
<1>16. CASE GenerateFails
  BY <1>16 DEF GenerateFails, Finish
<1>17. CASE StreamFails
  BY <1>17 DEF StreamFails, Finish
<1>18. ASSUME NEW c \in 1 .. MaxCalls,
              LoopGate(c) \/ Lookup(c) \/ SetGate(c) \/ Handler(c)
      PROVE  Eagerness'
  BY <1>18 DEF LoopGate, Lookup, SetGate, Handler, OnlyTool
<1>19. CASE Consume \/ Cancel \/ WithApprover
  BY <1>19 DEF Consume, Cancel, WithApprover
<1>20. CASE UNCHANGED vars
  BY <1>20 DEF vars
<1> QED
  BY <1>1, <1>2, <1>3, <1>4, <1>5, <1>6, <1>7, <1>8, <1>9, <1>10, <1>11,
     <1>12, <1>13, <1>14, <1>15, <1>16, <1>17, <1>18, <1>19, <1>20
     DEF Next, Loop, Model, Execution

LEMMA StepTold == RoundInv /\ [Next]_vars => Told'
<1> SUFFICES ASSUME RoundInv, [Next]_vars PROVE Told'
  OBVIOUS
<1> USE DEF RoundInv
<1>1. CASE EmitFrame
  <2>1. held \in LoopFrame /\ held.kind # "usage"
    BY <1>1 DEF EmitFrame, TypeInv, TypeOK, LoopType, Counted
  <2>2. Emit(held) /\ UNCHANGED <<taken, total>> /\ pc = "emit" /\ pc' = "reading"
    BY <1>1 DEF EmitFrame
  <2> QED
    BY <2>1, <2>2, UsagesGrow DEF Told
<1>2. CASE EmitUsage
  <2> DEFINE f == [kind |-> "usage", call |-> NoCall]
  <2>1. f \in LoopFrame /\ f.kind = "usage"
    BY FrameType
  <2>2. Emit(f) /\ UNCHANGED <<taken, total>> /\ pc = "usage" /\ pc' = "ended"
    BY <1>2 DEF EmitUsage, Reemitted
  <2> HIDE DEF f
  <2> QED
    BY <2>1, <2>2, UsagesGrow DEF Told
<1>3. CASE EmitHandoff
  <2>1. held \in LoopFrame /\ held.kind # "usage"
    BY <1>3 DEF EmitHandoff, TypeInv, TypeOK, LoopType, Counted
  <2>2. Emit(held) /\ UNCHANGED <<taken, total>> /\ pc = "handoff" /\ pc' = "handedOff"
    BY <1>3 DEF EmitHandoff
  <2> QED
    BY <2>1, <2>2, UsagesGrow DEF Told
<1>4. CASE EmitResult
  <2> DEFINE f == [kind |-> "result", call |-> Name(NextAnswer)]
  <2>1. f \in LoopFrame /\ f.kind # "usage"
    BY <1>4, AnswerFrame DEF EmitResult
  <2>2. Emit(f) /\ UNCHANGED <<taken, total, pc>> /\ pc = "answer"
    BY <1>4 DEF EmitResult
  <2> HIDE DEF f
  <2> QED
    BY <2>1, <2>2, UsagesGrow DEF Told
<1>5. CASE \/ OutOfRounds \/ LoopCut \/ RoundOver \/ RunSerial \/ SkipSerial
           \/ Collect \/ Settle \/ HandedOff \/ RoundAnswered
  BY <1>5, ToldSame DEF OutOfRounds, LoopCut, RoundOver, RunSerial, SkipSerial,
     Collect, Settle, HandedOff, RoundAnswered, Finish, Cut, loop, out
<1>6. CASE StreamEnds
  <2>1. UNCHANGED sent /\ pc = "reading" /\ used' \in {0, 1} /\ total' = total + used'
        /\ pc' = IF used' > 0 THEN "usage" ELSE "ended"
    BY <1>6 DEF StreamEnds, out
  <2>2. Usages' = Usages
    BY <2>1 DEF Usages
  <2>3. Cardinality(Usages) + 0 = total
    BY <2>1 DEF Told
  <2>4. CASE used' = 0
    BY <2>1, <2>2, <2>3, <2>4, UsagesNat DEF Told
  <2>5. CASE used' = 1
    BY <2>1, <2>2, <2>3, <2>5, UsagesNat DEF Told
  <2> QED
    BY <2>1, <2>4, <2>5
<1>7. CASE Generate \/ StreamText \/ StreamCall \/ GenerateFails \/ StreamFails
  BY <1>7, ToldSame DEF Generate, StreamText, StreamCall, GenerateFails,
     StreamFails, Finish, loop, out
<1>8. ASSUME NEW c \in 1 .. MaxCalls,
             LoopGate(c) \/ Lookup(c) \/ SetGate(c) \/ Handler(c)
      PROVE  Told'
  BY <1>8, ToldSame DEF LoopGate, Lookup, SetGate, Handler, OnlyTool, loop, out
<1>9. CASE Consume \/ Cancel \/ WithApprover
  BY <1>9, ToldSame DEF Consume, Cancel, WithApprover, loop, out
<1>10. CASE UNCHANGED vars
  BY <1>10, ToldSame DEF vars, loop, out
<1> QED
  BY <1>1, <1>2, <1>3, <1>4, <1>5, <1>6, <1>7, <1>8, <1>9, <1>10
     DEF Next, Loop, Model, Execution

LEMMA RoundsAlways == Spec => []RoundInv
<1>1. Init => Eagerness /\ Told
  <2> SUFFICES ASSUME Init PROVE Eagerness /\ Told
    OBVIOUS
  <2>1. Usages = {}
    BY DEF Init, Usages
  <2>2. Cardinality(Usages) = 0
    BY <2>1, FS_EmptySet
  <2> QED
    BY <2>2 DEF Init, Eagerness, Told
<1>2. RoundInv /\ [Next]_vars => Eagerness' /\ Told'
  BY StepEagerness, StepTold
<1> QED
  BY <1>1, <1>2, TypeAlways, PTL DEF Spec, RoundInv

\* The rounds run out only if the model goes on calling tools of its own accord,
\* and the usage of all of them reaches the caller (ToolLoop.run).
THEOREM RoundsCountedAlways == Spec => []RoundsCounted
<1>1. RoundInv => RoundsCounted
  <2>1. TypeInv /\ Eagerness => ForcedOnce
    BY Bounds DEF Eagerness, ForcedOnce
  <2>2. TypeInv /\ Told => TotalsOfAllRounds
    <3> SUFFICES ASSUME TypeInv, Told, pc = "done", err \in {"nil", "maxRounds"}
                 PROVE  Cardinality(Usages) = total
      BY DEF TotalsOfAllRounds
    <3>1. Cardinality(Usages) + 0 = total
      BY DEF Told
    <3> QED
      BY <3>1, UsagesNat
  <2> QED
    BY <2>1, <2>2 DEF RoundInv, RoundsCounted
<1> QED
  BY <1>1, RoundsAlways, PTL

(***************************************************************************)
(* The conversation.  While the calls of a round are dealt with, the last  *)
(* turn is the one that made them.                                         *)
(***************************************************************************)
LastTurn ==
  pc \in Calling => messages # <<>> /\ messages[Len(messages)].calls = ToolCalls

TalkInv == TypeInv /\ Eagerness /\ LastTurn

LEMMA TurnAdded ==
  ASSUME TypeInv, NEW t \in Turn, messages' = Append(messages, t)
  PROVE  messages' # <<>> /\ messages' # messages /\ messages'[Len(messages')] = t
<1>1. messages \in Seq(Turn)
  BY DEF TypeInv, TypeOK, TalkType
<1>2. /\ messages' \in Seq(Turn) /\ Len(messages') = Len(messages) + 1
      /\ messages'[Len(messages) + 1] = t /\ Len(messages) \in Nat
  BY <1>1, AppendProperties
<1> QED
  BY <1>1, <1>2

LEMMA LastTurnKept ==
  ASSUME LastTurn, UNCHANGED <<messages, round, calls>>, pc' \in Calling => pc \in Calling
  PROVE  LastTurn'
<1>1. ToolCalls' = ToolCalls
  BY DEF ToolCalls, Name
<1> QED
  BY <1>1 DEF LastTurn

LEMMA StepLastTurn == TalkInv /\ [Next]_vars => LastTurn'
<1> SUFFICES ASSUME TalkInv, [Next]_vars PROVE LastTurn'
  OBVIOUS
<1> USE DEF TalkInv
<1>1. CASE RoundOver
  <2>1. ToolCalls' = ToolCalls
    BY <1>1 DEF RoundOver, Finish, ToolCalls, Name
  <2>2. CASE calls = 0
    BY <1>1, <2>2 DEF RoundOver, Finish, LastTurn, Calling
  <2>3. CASE calls # 0
    <3> DEFINE t == [by |-> "assistant", text |-> text, calls |-> ToolCalls]
    <3>1. t \in Turn /\ t.calls = ToolCalls
      BY <1>1, CallsType DEF RoundOver, Turn, TypeInv, TypeOK, LoopType, Counted, InRound
    <3>2. messages' = Append(messages, t)
      BY <1>1, <2>3, Bounds DEF RoundOver, TypeInv, TypeOK, LoopType
    <3> HIDE DEF t
    <3> QED
      BY <2>1, <3>1, <3>2, TurnAdded DEF LastTurn
  <2> QED
    BY <2>2, <2>3
<1>2. CASE RoundAnswered
  BY <1>2 DEF RoundAnswered, LastTurn, Calling
<1>3. CASE \/ OutOfRounds \/ LoopCut \/ EmitFrame \/ EmitUsage \/ RunSerial
           \/ SkipSerial \/ Collect \/ Settle \/ EmitHandoff \/ HandedOff
           \/ EmitResult
  BY <1>3, LastTurnKept DEF OutOfRounds, LoopCut, EmitFrame, EmitUsage,
     RunSerial, SkipSerial, Collect, Settle, EmitHandoff, HandedOff, EmitResult,
     Finish, Cut, loop, Calling
<1>4. CASE Generate
  BY <1>4 DEF Generate, LastTurn, Calling
<1>5. CASE StreamCall
  BY <1>5 DEF StreamCall, LastTurn, Calling
<1>6. CASE StreamText \/ StreamEnds \/ GenerateFails \/ StreamFails
  BY <1>6, LastTurnKept DEF StreamText, StreamEnds, GenerateFails, StreamFails,
     Finish, loop, Calling
<1>7. ASSUME NEW c \in 1 .. MaxCalls,
             LoopGate(c) \/ Lookup(c) \/ SetGate(c) \/ Handler(c)
      PROVE  LastTurn'
  BY <1>7, LastTurnKept DEF LoopGate, Lookup, SetGate, Handler, OnlyTool,
     loop, Calling
<1>8. CASE Consume \/ Cancel \/ WithApprover
  BY <1>8, LastTurnKept DEF Consume, Cancel, WithApprover, loop, Calling
<1>9. CASE UNCHANGED vars
  BY <1>9, LastTurnKept DEF vars, loop, Calling
<1> QED
  BY <1>1, <1>2, <1>3, <1>4, <1>5, <1>6, <1>7, <1>8, <1>9
     DEF Next, Loop, Model, Execution

\* The phases of the conversation do not change with the calls of other goroutines.
LEMMA Stutters ==
  ASSUME UNCHANGED <<messages, asked>>, Phase' = Phase
  PROVE  UNCHANGED Talk!conversationVars
BY DEF Talk!conversationVars

LEMMA StepConversation == TalkInv /\ [Next]_vars => [Talk!ConversationNext]_(Talk!conversationVars)
<1> SUFFICES ASSUME TalkInv, [Next]_vars PROVE [Talk!ConversationNext]_(Talk!conversationVars)
  OBVIOUS
<1> USE DEF TalkInv
<1>1. CASE OutOfRounds
  <2>1. UNCHANGED <<messages, asked>> /\ Phase \in {"loop", "model", "tools"} /\ Phase' = "failed"
    BY <1>1 DEF OutOfRounds, Finish, Phase
  <2> QED
    BY <2>1 DEF Talk!ConversationNext, Talk!Fail
<1>2. CASE LoopCut
  <2>1. UNCHANGED <<messages, asked>> /\ Phase \in {"loop", "model", "tools"} /\ Phase' = "failed"
    BY <1>2 DEF LoopCut, Cut, ResultWait, Finish, Phase
  <2> QED
    BY <2>1 DEF Talk!ConversationNext, Talk!Fail
<1>3. CASE RoundOver
  <2>1. UNCHANGED asked /\ Phase = "model"
    BY <1>3 DEF RoundOver, Phase
  <2>2. ToolCalls \in Seq(Call) /\ (ToolCalls = <<>> <=> calls = 0)
    <3>1. /\ round \in Nat /\ calls \in Nat /\ round < MaxRounds /\ calls <= MaxCalls
      BY <1>3, Bounds DEF RoundOver, TypeInv, TypeOK, LoopType, Counted, InRound
    <3>2. ToolCalls \in Seq(Call) /\ Len(ToolCalls) = calls
      BY <3>1, CallsType
    <3> QED
      BY <3>1, <3>2, EmptySeq
  <2>3. Phase' = IF ToolCalls = <<>> THEN "final" ELSE "tools"
    <3>1. CASE calls = 0
      BY <1>3, <2>2, <3>1 DEF RoundOver, Finish, Phase
    <3>2. CASE calls # 0
      BY <1>3, <2>2, <3>2 DEF RoundOver, Phase
    <3> QED
      BY <3>1, <3>2
  <2>4. CASE text \/ calls > 0
    <3> DEFINE t == [by |-> "assistant", text |-> text, calls |-> ToolCalls]
    <3>1. text \in BOOLEAN
      BY DEF TypeInv, TypeOK, LoopType
    <3>2. t \in Turn /\ t.calls = ToolCalls
      BY <2>2, <3>1 DEF Turn
    <3>3. messages' = Append(messages, t)
      BY <1>3, <2>4 DEF RoundOver
    <3>4. messages' # messages /\ messages'[Len(messages')].calls = ToolCalls
      <4> HIDE DEF t
      <4> QED
        BY <3>2, <3>3, TurnAdded
    <3> QED
      BY <2>1, <2>2, <2>3, <3>1, <3>3, <3>4 DEF Talk!ConversationNext, Talk!Reply
  <2>5. CASE ~(text \/ calls > 0)
    <3>1. UNCHANGED messages
      BY <1>3, <2>5 DEF RoundOver
    <3>2. calls = 0
      BY <2>5 DEF TypeInv, TypeOK, LoopType
    <3> QED
      BY <2>1, <2>2, <2>3, <3>1, <3>2 DEF Talk!ConversationNext, Talk!Reply
  <2> QED
    BY <2>4, <2>5
<1>4. CASE HandedOff
  <2>1. UNCHANGED <<messages, asked>> /\ Phase = "tools" /\ pc' = "done" /\ err' = "nil" /\ UNCHANGED calls
    BY <1>4 DEF HandedOff, Finish, Phase
  <2>2. calls # 0
    BY <1>4 DEF HandedOff, TypeInv, TypeOK, LoopType, Counted, Calling
  <2>3. Phase' = "handoff"
    BY <2>1, <2>2 DEF Phase
  <2> QED
    BY <2>1, <2>3 DEF Talk!ConversationNext, Talk!HandOff
<1>5. CASE RoundAnswered
  <2>1. /\ UNCHANGED asked /\ Phase = "tools" /\ Phase' = "loop"
        /\ messages' = Append(messages, [by |-> "tool", calls |-> ToolCalls])
    BY <1>5 DEF RoundAnswered, Grouped, Phase
  <2>2. messages[Len(messages)].calls = ToolCalls
    BY <1>5 DEF RoundAnswered, LastTurn, Calling
  <2> QED
    BY <2>1, <2>2 DEF Talk!ConversationNext, Talk!Answer, Talk!Answered
<1>6. CASE \/ EmitFrame \/ EmitUsage \/ RunSerial \/ SkipSerial \/ Collect
           \/ Settle \/ EmitHandoff \/ EmitResult
  BY <1>6, Stutters DEF EmitFrame, EmitUsage, RunSerial, SkipSerial, Collect,
     Settle, EmitHandoff, EmitResult, Phase, loop, out
<1>7. CASE Generate
  <2>1. UNCHANGED messages /\ asked' = asked + 1 /\ Phase = "loop" /\ Phase' = "model"
    BY <1>7 DEF Generate, Phase
  <2>2. asked < MaxRounds
    BY <1>7 DEF Generate, TypeInv, Counted
  <2> QED
    BY <2>1, <2>2 DEF Talk!ConversationNext, Talk!Ask
<1>8. CASE GenerateFails
  <2>1. UNCHANGED <<messages, asked>> /\ Phase \in {"loop", "model", "tools"} /\ Phase' = "failed"
    BY <1>8 DEF GenerateFails, Finish, Phase
  <2> QED
    BY <2>1 DEF Talk!ConversationNext, Talk!Fail
<1>9. CASE StreamFails
  <2>1. UNCHANGED <<messages, asked>> /\ Phase \in {"loop", "model", "tools"} /\ Phase' = "failed"
    BY <1>9 DEF StreamFails, Finish, Phase
  <2> QED
    BY <2>1 DEF Talk!ConversationNext, Talk!Fail
<1>10. CASE StreamText \/ StreamCall \/ StreamEnds
  BY <1>10, Stutters DEF StreamText, StreamCall, StreamEnds, Phase, loop, out
<1>11. ASSUME NEW c \in 1 .. MaxCalls,
              LoopGate(c) \/ Lookup(c) \/ SetGate(c) \/ Handler(c)
      PROVE  [Talk!ConversationNext]_(Talk!conversationVars)
  BY <1>11, Stutters DEF LoopGate, Lookup, SetGate, Handler, OnlyTool,
     Phase, loop, out
<1>12. CASE Consume \/ Cancel \/ WithApprover
  BY <1>12, Stutters DEF Consume, Cancel, WithApprover, Phase, loop, out
<1>13. CASE UNCHANGED vars
  BY <1>13, Stutters DEF vars, Phase, loop, out
<1> QED
  BY <1>1, <1>2, <1>3, <1>4, <1>5, <1>6, <1>7, <1>8, <1>9, <1>10, <1>11,
     <1>12, <1>13
     DEF Next, Loop, Model, Execution

\* The tool loop implements Conversation: the model is asked at most MaxRounds
\* times, each time with a conversation in which all calls are answered, in order,
\* in the turn after the one that made them (ToolLoop.run).
THEOREM LoopImplementsConversation == Spec => ImplementsConversation
<1>1. Init => Talk!ConversationInit
  BY DEF Init, Talk!ConversationInit, Phase
<1>2. Init => Eagerness /\ LastTurn
  BY DEF Init, Eagerness, LastTurn, Calling
<1>3. RoundInv /\ LastTurn /\ [Next]_vars => LastTurn'
  BY StepLastTurn DEF RoundInv, TalkInv
<1>4. RoundInv /\ LastTurn /\ [Next]_vars => [Talk!ConversationNext]_(Talk!conversationVars)
  BY StepConversation DEF RoundInv, TalkInv
<1> QED
  BY <1>1, <1>2, <1>3, <1>4, RoundsAlways, PTL DEF Spec, ImplementsConversation, Talk!ConversationSpec

=============================================================================
