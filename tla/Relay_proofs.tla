----------------------------- MODULE Relay_proofs -----------------------------
(***************************************************************************)
(* Proofs about Relay, for every chain of wrappers, however long, and any  *)
(* sizes of buffers: where the frames are that have been generated and not *)
(* yet received, what a stream that was closed without an error says of    *)
(* everything below it, and where the usage of a generation and its        *)
(* metadata are on their way to the consumer, the hooks and the cache.     *)
(***************************************************************************)
EXTENDS Relay, SequenceTheorems, TLAPS

LEMMA ChainFacts ==
  ASSUME CallType
  PROVE  /\ N \in Nat /\ N >= 1 /\ chain \in [1 .. N -> Kind]
         /\ \A i \in Stages : chain[i] \in Kind
         /\ \A i \in Stages : IsCache(i) => \A j \in 1 .. i - 1 : chain[j] = "timeout"
<1>1. chain \in Chains /\ chain \in Seq(Kind) /\ Len(chain) \in 1 .. MaxStages
  BY ChainAssumption DEF CallType
<1>2. Len(chain) \in Nat /\ Len(chain) >= 1 /\ chain \in [1 .. Len(chain) -> Kind]
  BY <1>1, LenProperties
<1>3. \A i \in 1 .. Len(chain) : chain[i] = "cache" => \A j \in 1 .. i - 1 : chain[j] = "timeout"
  BY <1>1, ChainAssumption
<1> QED
  BY <1>2, <1>3 DEF N, Stages, IsCache

(***************************************************************************)
(* Types.                                                                  *)
(***************************************************************************)
\* The cache answers a call only from an entry.
Entered == hit => entry.present

\* Where the goroutine of a wrapper can be says which wrapper it is.
Post(i) ==
  /\ pc[i] = "starting" => chain[i] = "sink"
  /\ pc[i] \in {"usage", "last"} => chain[i] \in {"timeout", "sink", "cache"}
  /\ pc[i] = "replay" => hit /\ IsCache(i)
Posts == pc[Consumer] \in {"reading", "done"} /\ \A i \in Stages : Post(i)

TypeInv == TypeOK /\ Entered /\ Posts

LEMMA EntryFields ==
  ASSUME CacheType, entry.present
  PROVE  entry \in Entry
BY DEF CacheType, NoEntry

\* The chain stays as it is.
LEMMA Fixed ==
  ASSUME [Next]_vars
  PROVE  chain' = chain /\ N' = N /\ Stages' = Stages /\ Consumer' = Consumer
<1>1. SourceReads => chain' = chain
  BY DEF SourceReads
<1>2. SourceEmits => chain' = chain
  BY DEF SourceEmits
<1>3. SourceEnds => chain' = chain
  BY DEF SourceEnds, SourceStops
<1>4. SourceFails => chain' = chain
  BY DEF SourceFails, SourceStops
<1>5. SourceCut => chain' = chain
  BY DEF SourceCut, SourceStops
<1>6. ConsumerNext => chain' = chain
  BY DEF ConsumerNext
<1>7. CallAgain => chain' = chain
  BY DEF CallAgain
<1>8. UNCHANGED vars => chain' = chain
  BY DEF vars
<1>9. \A i : NextUsage(i) => chain' = chain
  BY DEF NextUsage
<1>10. \A i : NextFrame(i) => chain' = chain
  BY DEF NextFrame
<1>11. \A i : NextEnds(i) => chain' = chain
  BY DEF NextEnds
<1>12. \A i : AgentStarts(i) => chain' = chain
  BY DEF AgentStarts
<1>13. \A i : CallbackFails(i) => chain' = chain
  BY DEF CallbackFails
<1>14. \A i : Emits(i) => chain' = chain
  BY DEF Emits
<1>15. \A i : EmitFails(i) => chain' = chain
  BY DEF EmitFails
<1>16. \A i : EndsInError(i) => chain' = chain
  BY DEF EndsInError
<1>17. \A i : EndsClean(i) => chain' = chain
  BY DEF EndsClean
<1>18. \A i : EmitsUsage(i) => chain' = chain
  BY DEF EmitsUsage
<1>19. \A i : Completes(i) => chain' = chain
  BY DEF Completes
<1>20. \A i : Replay(i) => chain' = chain
  BY DEF Replay
<1>21. \A i : Expire(i) => chain' = chain
  BY DEF Expire
<1>22. chain' = chain
  <2>1. Source => chain' = chain
    BY <1>1, <1>2, <1>3, <1>4, <1>5 DEF Source
  <2>2. ConsumerStep => chain' = chain
    BY <1>6, <1>9, <1>11 DEF ConsumerStep
  <2>3. \A i : Wrapper(i) => chain' = chain
    BY <1>9, <1>10, <1>11, <1>12, <1>13, <1>14, <1>15, <1>16, <1>17, <1>18, <1>19, <1>20
       DEF Wrapper, Runs
  <2> QED
    BY <1>7, <1>8, <1>21, <2>1, <2>2, <2>3 DEF Next
<1> QED
  BY <1>22 DEF N, Stages, Consumer

LEMMA GenFields ==
  ASSUME CallType
  PROVE  /\ gen.frames \in Seq(RelayFrame) /\ gen.usage \in Nat /\ gen.resp \in BOOLEAN
         /\ gen.state \in {"running", "emitting", "complete", "failed", "cut"}
BY DEF CallType, Generation

LEMMA Framing ==
  ASSUME NEW s \in Seq(RelayFrame), NEW k \in {"data", "usage"}, NEW n \in Nat
  PROVE  /\ [kind |-> k, n |-> n] \in RelayFrame
         /\ Append(s, [kind |-> k, n |-> n]) \in Seq(RelayFrame)
<1>1. [kind |-> k, n |-> n] \in RelayFrame
  BY DEF RelayFrame
<1> QED
  BY <1>1, AppendProperties

(***************************************************************************)
(* What becomes of a stream.                                               *)
(***************************************************************************)
LEMMA PipeFields ==
  ASSUME NEW p \in Pipe
  PROVE  p.buf \in Seq(RelayFrame) /\ p.cap \in Nat /\ p.closed \in BOOLEAN /\ p.err \in Err /\ p.resp \in BOOLEAN
BY DEF Pipe

LEMMA StreamSet ==
  ASSUME StreamType, N' = N, N \in Nat, NEW k \in 0 .. N, NEW p \in Pipe, Len(p.buf) <= p.cap,
         str' = [str EXCEPT ![k] = p]
  PROVE  StreamType'
BY DEF StreamType

LEMMA StreamEmit ==
  ASSUME StreamType, N' = N, N \in Nat, NEW k \in 0 .. N, NEW f \in RelayFrame, Emit(k, f)
  PROVE  StreamType'
<1>1. str[k] \in Pipe /\ Len(str[k].buf) < str[k].cap
  BY DEF StreamType, Emit, Room
<1>2. /\ Append(str[k].buf, f) \in Seq(RelayFrame) /\ Len(Append(str[k].buf, f)) = Len(str[k].buf) + 1
      /\ Len(str[k].buf) \in Nat /\ str[k].cap \in Nat
  BY <1>1, PipeFields, AppendProperties, LenProperties
<1> DEFINE p == [str[k] EXCEPT !.buf = Append(@, f)]
<1>3. p \in Pipe /\ p.buf = Append(str[k].buf, f) /\ p.cap = str[k].cap
  BY <1>1, <1>2 DEF Pipe
<1>4. Len(p.buf) <= p.cap
  BY <1>1, <1>2, <1>3
<1>5. str' = [str EXCEPT ![k] = p]
  BY DEF Emit
<1> HIDE DEF p
<1> QED
  BY <1>3, <1>4, <1>5, StreamSet

LEMMA StreamReceive ==
  ASSUME StreamType, N' = N, N \in Nat, NEW i \in 1 .. N + 1, Frames(i), Receive(i)
  PROVE  StreamType'
<1> DEFINE k == i - 1
<1>1. k \in 0 .. N /\ str[k] \in Pipe /\ Len(str[k].buf) <= str[k].cap /\ str[k].buf # <<>>
  BY DEF StreamType, Frames
<1>2. /\ Tail(str[k].buf) \in Seq(RelayFrame) /\ Len(Tail(str[k].buf)) = Len(str[k].buf) - 1
      /\ Len(str[k].buf) \in Nat /\ str[k].cap \in Nat
  BY <1>1, PipeFields, HeadTailProperties, LenProperties
<1> DEFINE p == [str[k] EXCEPT !.buf = Tail(str[k].buf)]
<1>3. p \in Pipe /\ p.buf = Tail(str[k].buf) /\ p.cap = str[k].cap
  BY <1>1, <1>2 DEF Pipe
<1>4. Len(p.buf) <= p.cap
  BY <1>1, <1>2, <1>3
<1>5. str' = [str EXCEPT ![k] = p]
  BY DEF Receive, Rest
<1> HIDE DEF p, k
<1> QED
  BY <1>1, <1>3, <1>4, <1>5, StreamSet

LEMMA StreamFinish ==
  ASSUME StreamType, N' = N, N \in Nat, NEW k \in 0 .. N, NEW e \in Err, NEW r \in BOOLEAN,
         str' = [str EXCEPT ![k].closed = TRUE, ![k].err = e, ![k].resp = r]
  PROVE  StreamType'
<1>1. str[k] \in Pipe /\ Len(str[k].buf) <= str[k].cap
  BY DEF StreamType
<1> DEFINE p == [str[k] EXCEPT !.closed = TRUE, !.err = e, !.resp = r]
<1>3. p \in Pipe /\ p.buf = str[k].buf /\ p.cap = str[k].cap
  BY <1>1 DEF Pipe
<1>4. Len(p.buf) <= p.cap
  BY <1>1, <1>3
<1>5. str' = [str EXCEPT ![k] = p]
  BY DEF StreamType
<1> HIDE DEF p
<1> QED
  BY <1>3, <1>4, <1>5, StreamSet

LEMMA StreamResponds ==
  ASSUME StreamType, N' = N, N \in Nat, NEW k \in 0 .. N, NEW r \in BOOLEAN,
         str' = [str EXCEPT ![k].resp = r]
  PROVE  StreamType'
<1>1. str[k] \in Pipe /\ Len(str[k].buf) <= str[k].cap
  BY DEF StreamType
<1> DEFINE p == [str[k] EXCEPT !.resp = r]
<1>3. p \in Pipe /\ p.buf = str[k].buf /\ p.cap = str[k].cap
  BY <1>1 DEF Pipe
<1>4. Len(p.buf) <= p.cap
  BY <1>1, <1>3
<1>5. str' = [str EXCEPT ![k] = p]
  OBVIOUS
<1> HIDE DEF p
<1> QED
  BY <1>3, <1>4, <1>5, StreamSet
LEMMA StrFacts ==
  ASSUME StreamType
  PROVE  \A k \in 0 .. N : /\ str[k].buf \in Seq(RelayFrame) /\ str[k].err \in Err
                           /\ str[k].closed \in BOOLEAN /\ str[k].resp \in BOOLEAN
BY DEF StreamType, Pipe

LEMMA HeadFacts ==
  ASSUME StreamType, N \in Nat, NEW i \in 1 .. N + 1, Frames(i)
  PROVE  /\ Head(str[i - 1].buf) \in RelayFrame
         /\ Head(str[i - 1].buf).kind \in {"data", "usage"} /\ Head(str[i - 1].buf).n \in Nat
<1>1. i - 1 \in 0 .. N
  OBVIOUS
<1>2. str[i - 1].buf \in Seq(RelayFrame) /\ str[i - 1].buf # <<>>
  BY <1>1, StrFacts DEF Frames
<1>3. Head(str[i - 1].buf) \in RelayFrame
  BY <1>2, HeadTailProperties
<1> QED
  BY <1>3 DEF RelayFrame

LEMMA StepCallType == TypeInv /\ [Next]_vars => CallType'
<1> SUFFICES ASSUME TypeInv, [Next]_vars PROVE CallType'
  OBVIOUS
<1>a. chain' = chain /\ N' = N /\ Stages' = Stages /\ Consumer' = Consumer
  BY Fixed
<1>b. CallType /\ CacheType /\ Entered
  BY DEF TypeInv, TypeOK
<1> USE <1>a, <1>b DEF CallType, Generation, Entered
<1>1. CASE SourceReads
  <2>1. gen.frames \in Seq(RelayFrame) /\ Len(gen.frames) + 1 \in Nat
    BY GenFields, LenProperties
  <2>2. Append(gen.frames, [kind |-> "data", n |-> Len(gen.frames) + 1]) \in Seq(RelayFrame)
    BY <2>1, Framing
  <2>3. \/ gen' = [gen EXCEPT !.frames = Append(gen.frames, [kind |-> "data", n |-> Len(gen.frames) + 1]), !.state = "emitting"]
        \/ gen' = [gen EXCEPT !.usage = 1, !.state = "emitting"]
    BY <1>1 DEF SourceReads
  <2>4. UNCHANGED <<chain, calls, hit, expired>>
    BY <1>1 DEF SourceReads
  <2>5. gen \in Generation
    BY <1>b DEF CallType
  <2>6. CASE gen' = [gen EXCEPT !.usage = 1, !.state = "emitting"]
    BY <2>4, <2>5, <2>6, <1>a, <1>b DEF CallType, Generation
  <2>7. CASE gen' = [gen EXCEPT !.frames = Append(gen.frames, [kind |-> "data", n |-> Len(gen.frames) + 1]),
                                !.state = "emitting"]
    <3>1. gen' \in Generation
      BY <2>2, <2>5, <2>7 DEF Generation
    <3> QED
      BY <3>1, <2>4, <1>a, <1>b DEF CallType
  <2> QED
    BY <2>3, <2>6, <2>7
<1>2. CASE SourceEmits
  BY <1>2 DEF SourceEmits, Emit, Room
<1>3. CASE SourceEnds
  <2>1. PICK r \in BOOLEAN : gen' = [gen EXCEPT !.state = "complete", !.resp = r]
    BY <1>3 DEF SourceEnds, SourceStops
  <2>2. gen' \in Generation
    BY <2>1
  <2> QED
    BY <1>3, <2>2 DEF SourceEnds, SourceStops
<1>4. CASE SourceFails
  <2>1. PICK r \in BOOLEAN : gen' = [gen EXCEPT !.state = "failed", !.resp = r]
    BY <1>4 DEF SourceFails, SourceStops
  <2>2. gen' \in Generation
    BY <2>1
  <2> QED
    BY <1>4, <2>2 DEF SourceFails, SourceStops
<1>5. CASE SourceCut
  <2>1. PICK r \in BOOLEAN : gen' = [gen EXCEPT !.state = "cut", !.resp = r]
    BY <1>5 DEF SourceCut, SourceStops
  <2>2. gen' \in Generation
    BY <2>1
  <2> QED
    BY <1>5, <2>2 DEF SourceCut, SourceStops
<1>6. CASE CallAgain
  <2>1. entry \in Entry /\ gen' = entry.of /\ calls < MaxCalls /\ calls' = calls + 1 /\ expired' = {}
        /\ hit' = TRUE
    BY <1>6, EntryFields DEF CallAgain
  <2>2. entry.of \in Generation
    BY <2>1 DEF Entry
  <2>3. calls' \in 1 .. MaxCalls + 1
    BY <2>1, RelayBounds
  <2> QED
    BY <2>1, <2>2, <2>3
<1>7. CASE ConsumerNext
  BY <1>7 DEF ConsumerNext, Receive, Rest
<1>8. ASSUME NEW i \in 1 .. Consumer, NextUsage(i) \/ NextEnds(i) PROVE CallType'
  BY <1>8 DEF NextUsage, NextEnds, Receive, Rest, Go
<1>9. ASSUME NEW i \in Stages,
             \/ NextFrame(i) \/ AgentStarts(i) \/ Emits(i) \/ EmitFails(i)
             \/ EndsInError(i) \/ EndsClean(i) \/ EmitsUsage(i) \/ Completes(i)
             \/ Replay(i) \/ CallbackFails(i)
      PROVE  CallType'
  BY <1>9 DEF NextFrame, AgentStarts, Emits, EmitFails, EndsInError, EndsClean,
     EmitsUsage, Completes, Replay, CallbackFails, Receive, Rest, Go, Breaks,
     Finish, Emit
<1>10. ASSUME NEW j \in 1 .. Consumer, Expire(j) PROVE CallType'
  BY <1>10 DEF Expire
<1>11. CASE UNCHANGED vars
  BY <1>11 DEF vars
<1> QED
  BY <1>1, <1>2, <1>3, <1>4, <1>5, <1>6, <1>7, <1>8, <1>9, <1>10, <1>11
     DEF Next, Source, Wrapper, Runs, ConsumerStep, Stages, Consumer, N

LEMMA StepStreamType == TypeInv /\ [Next]_vars => StreamType'
<1> SUFFICES ASSUME TypeInv, [Next]_vars PROVE StreamType'
  OBVIOUS
<1>a. chain' = chain /\ N' = N /\ Stages' = Stages /\ Consumer' = Consumer
  BY Fixed
<1>b. CallType /\ StreamType /\ ReaderType /\ CacheType /\ Entered /\ Posts
  BY DEF TypeInv, TypeOK
<1>c. /\ N \in Nat /\ N >= 1 /\ chain \in [1 .. N -> Kind]
      /\ \A k \in Stages : chain[k] \in Kind
  BY <1>b, ChainFacts
<1>d. Stages = 1 .. N /\ Consumer = N + 1 /\ (\A k \in Stages : k \in 0 .. N /\ k \in 1 .. Consumer)
  BY <1>c DEF Stages, Consumer
<1>e. \A k \in 0 .. N : /\ str[k].buf \in Seq(RelayFrame) /\ str[k].err \in Err
                        /\ str[k].closed \in BOOLEAN /\ str[k].resp \in BOOLEAN
  BY <1>b, StrFacts
<1>1. CASE SourceEmits
  <2>1. held[0] \in RelayFrame /\ Emit(0, held[0])
    BY <1>1, <1>b, <1>c DEF SourceEmits, ReaderType
  <2> QED
    BY <2>1, <1>a, <1>b, <1>c, StreamEmit
<1>2. CASE SourceEnds
  <2>1. PICK r \in BOOLEAN : str' = [str EXCEPT ![0].closed = TRUE, ![0].err = "nil", ![0].resp = r]
    BY <1>2 DEF SourceEnds, SourceStops
  <2>2. "nil" \in Err /\ "source" \in Err /\ 0 \in 0 .. N
    BY <1>c DEF Err
  <2> QED
    BY <2>1, <2>2, <1>a, <1>b, <1>c, StreamFinish
<1>3. CASE SourceFails
  <2>1. PICK r \in BOOLEAN : str' = [str EXCEPT ![0].closed = TRUE, ![0].err = "source", ![0].resp = r]
    BY <1>3 DEF SourceFails, SourceStops
  <2>2. "nil" \in Err /\ "source" \in Err /\ 0 \in 0 .. N
    BY <1>c DEF Err
  <2> QED
    BY <2>1, <2>2, <1>a, <1>b, <1>c, StreamFinish
<1>4. CASE SourceCut
  <2>1. PICK r \in BOOLEAN : str' = [str EXCEPT ![0].closed = TRUE, ![0].err = "nil", ![0].resp = r]
    BY <1>4 DEF SourceCut, SourceStops
  <2>2. "nil" \in Err /\ "source" \in Err /\ 0 \in 0 .. N
    BY <1>c DEF Err
  <2> QED
    BY <2>1, <2>2, <1>a, <1>b, <1>c, StreamFinish
<1>5. CASE ConsumerNext
  <2>1. Consumer \in 1 .. N + 1 /\ Frames(Consumer) /\ Receive(Consumer)
    BY <1>5, <1>c, <1>d DEF ConsumerNext
  <2> QED
    BY <2>1, <1>a, <1>b, <1>c, StreamReceive
<1>6. CASE CallAgain
  <2>1. str' = [k \in 0 .. N |-> Stream(IF IsCache(k) THEN ReplaySize ELSE BufSize)] /\ entry.present
    BY <1>6 DEF CallAgain
  <2>2. entry.frames \in Seq(RelayFrame) /\ ReplaySize \in Nat /\ BufSize \in Nat
    <3>1. entry.frames \in Seq(RelayFrame)
      BY <2>1, <1>b, EntryFields DEF Entry
    <3> QED
      BY <3>1, LenProperties, RelayBounds DEF ReplaySize
  <2>3. \A k \in 0 .. N : str'[k] \in Pipe /\ Len(str'[k].buf) <= str'[k].cap
    BY <2>1, <2>2 DEF Stream, Pipe, Err
  <2> QED
    BY <2>1, <2>3, <1>a DEF StreamType
<1>7. CASE SourceReads
  BY <1>7, <1>a, <1>b DEF SourceReads, StreamType
<1>8. ASSUME NEW i \in 1 .. Consumer, NextUsage(i) PROVE StreamType'
  <2>1. i \in 1 .. N + 1 /\ Frames(i) /\ Receive(i)
    BY <1>8, <1>d DEF NextUsage
  <2> QED
    BY <2>1, <1>a, <1>b, <1>c, StreamReceive
<1>9. ASSUME NEW i \in 1 .. Consumer, NextEnds(i) PROVE StreamType'
  BY <1>9, <1>a, <1>b DEF NextEnds, Go, StreamType
<1>10. ASSUME NEW i \in Stages, NextFrame(i) PROVE StreamType'
  BY <1>10, <1>a, <1>b, <1>c, <1>d, StreamReceive DEF NextFrame
<1>11. ASSUME NEW i \in Stages, AgentStarts(i) PROVE StreamType'
  <2>1. CASE UNCHANGED str
    BY <2>1, <1>a, <1>b DEF StreamType
  <2>2. CASE Breaks(i, FALSE)
    <3>1. str' = [str EXCEPT ![i].closed = TRUE, ![i].err = "stage", ![i].resp = FALSE]
      BY <2>2 DEF Breaks, Finish, OwnError
    <3> QED
      BY <3>1, <1>a, <1>b, <1>c, <1>d, StreamFinish DEF Err
  <2> QED
    BY <1>11, <2>1, <2>2 DEF AgentStarts
<1>12. ASSUME NEW i \in Stages, Emits(i) PROVE StreamType'
  <2>1. held[i] \in RelayFrame /\ Emit(i, held[i])
    BY <1>12, <1>b, <1>d DEF Emits, ReaderType
  <2> QED
    BY <2>1, <1>a, <1>b, <1>c, <1>d, StreamEmit
<1>13. ASSUME NEW i \in Stages, EmitFails(i) PROVE StreamType'
  <2>1. \E e \in Err, r \in BOOLEAN : str' = [str EXCEPT ![i].closed = TRUE, ![i].err = e, ![i].resp = r]
    BY <1>13, <1>d, <1>e DEF EmitFails, Breaks, Finish, OwnError, Err
  <2> QED
    BY <2>1, <1>a, <1>b, <1>c, <1>d, StreamFinish
<1>14. ASSUME NEW i \in Stages, EndsInError(i) PROVE StreamType'
  <2>1. serr[i] \in Err
    BY <1>b, <1>d DEF ReaderType
  <2>2. str' = [str EXCEPT ![i].closed = TRUE, ![i].err = serr[i], ![i].resp = FALSE]
    BY <1>14 DEF EndsInError, Finish, SourceErr
  <2> QED
    BY <2>1, <2>2, <1>a, <1>b, <1>c, <1>d, StreamFinish
<1>15. ASSUME NEW i \in Stages, EndsClean(i) PROVE StreamType'
  <2> DEFINE r == chain[i] # "processor" /\ str[i - 1].resp
  <2>1. r \in BOOLEAN
    OBVIOUS
  <2>2. \/ str' = [str EXCEPT ![i].resp = r]
        \/ str' = [str EXCEPT ![i].closed = TRUE, ![i].err = "nil", ![i].resp = r]
    BY <1>15 DEF EndsClean, Finish
  <2> HIDE DEF r
  <2> QED
    BY <2>1, <2>2, <1>a, <1>b, <1>c, <1>d, StreamFinish, StreamResponds DEF Err
<1>16. ASSUME NEW i \in Stages, EmitsUsage(i) PROVE StreamType'
  <2>1. [kind |-> "usage", n |-> usage[i]] \in RelayFrame
    BY <1>b, <1>d DEF ReaderType, RelayFrame
  <2>2. CASE Emit(i, [kind |-> "usage", n |-> usage[i]])
    BY <2>1, <2>2, <1>a, <1>b, <1>c, <1>d, StreamEmit
  <2>3. CASE UNCHANGED str
    BY <2>3, <1>a, <1>b DEF StreamType
  <2> QED
    BY <1>16, <2>2, <2>3 DEF EmitsUsage
<1>17. ASSUME NEW i \in Stages, Completes(i) PROVE StreamType'
  <2>1. \/ str' = [str EXCEPT ![i].closed = TRUE, ![i].err = "nil", ![i].resp = str[i].resp]
        \/ str' = [str EXCEPT ![i].closed = TRUE, ![i].err = "stage", ![i].resp = str[i].resp]
    BY <1>17 DEF Completes, Finish, Breaks, OwnError
  <2> QED
    BY <2>1, <1>a, <1>b, <1>c, <1>d, <1>e, StreamFinish DEF Err
<1>18. ASSUME NEW i \in Stages, Replay(i) PROVE StreamType'
  <2>1. CASE stored # <<>> /\ Emit(i, Head(stored))
    <3>1. Head(stored) \in RelayFrame
      BY <2>1, <1>b, HeadTailProperties DEF CacheType
    <3> QED
      BY <2>1, <3>1, <1>a, <1>b, <1>c, <1>d, StreamEmit
  <2>2. CASE Finish(i, "nil", FALSE)
    <3>1. str' = [str EXCEPT ![i].closed = TRUE, ![i].err = "nil", ![i].resp = FALSE]
      BY <2>2 DEF Finish
    <3> QED
      BY <3>1, <1>a, <1>b, <1>c, <1>d, StreamFinish DEF Err
  <2>3. CASE str' = [str EXCEPT ![i].resp = entry.resp] /\ pc[i] = "replay"
    <3>1. entry.resp \in BOOLEAN
      BY <2>3, <1>b, EntryFields DEF Posts, Post, Entered, Entry
    <3> QED
      BY <2>3, <3>1, <1>a, <1>b, <1>c, <1>d, StreamResponds
  <2> QED
    BY <1>18, <2>1, <2>2, <2>3 DEF Replay
<1>19. ASSUME NEW i \in Stages, CallbackFails(i) PROVE StreamType'
  <2>1. \E e \in Err, r \in BOOLEAN : str' = [str EXCEPT ![i].closed = TRUE, ![i].err = e, ![i].resp = r]
    BY <1>19, <1>d, <1>e DEF CallbackFails, Breaks, Finish, OwnError, Err
  <2> QED
    BY <2>1, <1>a, <1>b, <1>c, <1>d, StreamFinish
<1>20. ASSUME NEW j \in 1 .. Consumer, Expire(j) PROVE StreamType'
  BY <1>20, <1>a, <1>b DEF Expire, StreamType
<1>21. CASE UNCHANGED vars
  BY <1>21, <1>a, <1>b DEF vars, StreamType
<1> QED
  BY <1>1, <1>2, <1>3, <1>4, <1>5, <1>6, <1>7, <1>8, <1>9, <1>10, <1>11,
     <1>12, <1>13, <1>14, <1>15, <1>16, <1>17, <1>18, <1>19, <1>20, <1>21
     DEF Next, Source, Wrapper, Runs, ConsumerStep, Stages, Consumer, N

LEMMA StepReaderType == TypeInv /\ [Next]_vars => ReaderType'
<1> SUFFICES ASSUME TypeInv, [Next]_vars PROVE ReaderType'
  OBVIOUS
<1>a. chain' = chain /\ N' = N /\ Stages' = Stages /\ Consumer' = Consumer
  BY Fixed
<1>b. CallType /\ StreamType /\ ReaderType /\ CacheType /\ Entered
  BY DEF TypeInv, TypeOK
<1>c. /\ N \in Nat /\ N >= 1 /\ chain \in [1 .. N -> Kind]
      /\ \A k \in Stages : chain[k] \in Kind
  BY <1>b, ChainFacts
<1>d. Stages = 1 .. N /\ Consumer = N + 1 /\ (\A k \in Stages : k \in 0 .. N /\ k \in 1 .. Consumer)
  BY <1>c DEF Stages, Consumer
<1>e. \A k \in 0 .. N : /\ str[k].buf \in Seq(RelayFrame) /\ str[k].err \in Err
                        /\ str[k].closed \in BOOLEAN /\ str[k].resp \in BOOLEAN
  BY <1>b, StrFacts
<1>1. CASE SourceReads
  <2>1. PICK f \in RelayFrame : held' = [held EXCEPT ![0] = f]
    <3>1. Len(gen.frames) + 1 \in Nat
      BY <1>b, GenFields, LenProperties
    <3> QED
      BY <1>1, <3>1 DEF SourceReads, RelayFrame
  <2>2. UNCHANGED <<pc, usage, serr>>
    BY <1>1 DEF SourceReads
  <2> QED
    BY <2>1, <2>2, <1>a, <1>b DEF ReaderType
<1>2. CASE SourceEmits
  <2>1. NoFrame \in RelayFrame
    BY DEF NoFrame, RelayFrame
  <2>2. held' = [held EXCEPT ![0] = NoFrame] /\ UNCHANGED <<pc, usage, serr>>
    BY <1>2 DEF SourceEmits
  <2> QED
    BY <2>1, <2>2, <1>a, <1>b DEF ReaderType
<1>3. CASE CallAgain
  <2>1. NoFrame \in RelayFrame
    BY DEF NoFrame, RelayFrame
  <2>2. entry.present /\ entry.usage \in Nat
    BY <1>3, <1>b, EntryFields DEF CallAgain, Entry
  <2>3. pc' = [k \in 1 .. Consumer |-> Start(k, TRUE)] /\ held' = [k \in 0 .. N |-> NoFrame]
        /\ usage' = [k \in 1 .. Consumer |-> IF IsCache(k) THEN entry.usage ELSE 0]
        /\ serr' = [k \in 1 .. Consumer |-> "nil"]
    BY <1>3 DEF CallAgain
  <2>4. \A k \in 1 .. Consumer : Start(k, TRUE) \in {"starting", "reading", "replay", "done"}
    BY DEF Start
  <2> QED
    BY <2>1, <2>2, <2>3, <2>4, <1>a DEF ReaderType, Err
<1>4. CASE SourceEnds \/ SourceFails \/ SourceCut \/ ConsumerNext
  BY <1>4, <1>a, <1>b, <1>d DEF SourceEnds, SourceFails, SourceCut,
     ConsumerNext, SourceStops, Receive, Rest, ReaderType
<1>5. ASSUME NEW i \in 1 .. Consumer, NextUsage(i) PROVE ReaderType'
  <2>1. Head(str[i - 1].buf).n \in Nat
    BY <1>5, <1>b, <1>c, <1>d, HeadFacts DEF NextUsage
  <2>2. usage[i] \in Nat /\ usage \in [1 .. Consumer -> Nat]
    BY <1>b DEF ReaderType
  <2> DEFINE u == usage[i] + Head(str[i - 1].buf).n
  <2>3. u \in Nat
    BY <2>1, <2>2
  <2>4. usage' = [usage EXCEPT ![i] = u] /\ UNCHANGED <<pc, held, serr>>
    BY <1>5 DEF NextUsage
  <2> HIDE DEF u
  <2>5. usage' \in [1 .. Consumer -> Nat]
    BY <2>2, <2>3, <2>4
  <2> QED
    BY <2>4, <2>5, <1>a, <1>b DEF ReaderType
<1>6. ASSUME NEW i \in 1 .. Consumer, NextEnds(i) PROVE ReaderType'
  <2>1. i - 1 \in 0 .. N
    BY <1>c, <1>d
  <2>2. PICK e \in Err : serr' = [serr EXCEPT ![i] = e]
    BY <1>6, <2>1, <1>e DEF NextEnds, Err
  <2>3. PICK p \in {"done", "ended"} : pc' = [pc EXCEPT ![i] = p]
    BY <1>6 DEF NextEnds, Go
  <2>4. UNCHANGED <<held, usage>>
    BY <1>6 DEF NextEnds
  <2> QED
    BY <2>2, <2>3, <2>4, <1>a, <1>b DEF ReaderType
<1>7. ASSUME NEW i \in Stages, NextFrame(i) PROVE ReaderType'
  <2>1. Head(str[i - 1].buf) \in RelayFrame
    BY <1>7, <1>b, <1>c, <1>d, HeadFacts DEF NextFrame
  <2>2. held' = [held EXCEPT ![i] = Head(str[i - 1].buf)] /\ pc' = [pc EXCEPT ![i] = "held"]
        /\ UNCHANGED <<usage, serr>>
    BY <1>7 DEF NextFrame, Go
  <2> QED
    BY <2>1, <2>2, <1>a, <1>b, <1>d DEF ReaderType
<1>8. ASSUME NEW i \in Stages, AgentStarts(i) PROVE ReaderType'
  <2>1. PICK p \in {"reading", "done"} : pc' = [pc EXCEPT ![i] = p]
    BY <1>8 DEF AgentStarts, Go, Finish, Breaks
  <2>2. UNCHANGED <<held, usage, serr>>
    BY <1>8 DEF AgentStarts
  <2> QED
    BY <2>1, <2>2, <1>a, <1>b, <1>d DEF ReaderType
<1>9. ASSUME NEW i \in Stages, Emits(i) PROVE ReaderType'
  <2>1. NoFrame \in RelayFrame
    BY DEF NoFrame, RelayFrame
  <2>2. held' = [held EXCEPT ![i] = NoFrame] /\ pc' = [pc EXCEPT ![i] = "reading"] /\ UNCHANGED <<usage, serr>>
    BY <1>9 DEF Emits, Go
  <2> QED
    BY <2>1, <2>2, <1>a, <1>b, <1>d DEF ReaderType
<1>10. ASSUME NEW i \in Stages, EmitFails(i) PROVE ReaderType'
  <2>1. PICK p \in {"done"} : pc' = [pc EXCEPT ![i] = p]
    BY <1>10 DEF EmitFails, Go, Finish
  <2>2. UNCHANGED <<held, usage, serr>>
    BY <1>10 DEF EmitFails
  <2> QED
    BY <2>1, <2>2, <1>a, <1>b, <1>d DEF ReaderType
<1>11. ASSUME NEW i \in Stages, EndsInError(i) PROVE ReaderType'
  <2>1. PICK p \in {"done"} : pc' = [pc EXCEPT ![i] = p]
    BY <1>11 DEF EndsInError, Go, Finish
  <2>2. UNCHANGED <<held, usage, serr>>
    BY <1>11 DEF EndsInError
  <2> QED
    BY <2>1, <2>2, <1>a, <1>b, <1>d DEF ReaderType
<1>12. ASSUME NEW i \in Stages, EndsClean(i) PROVE ReaderType'
  <2>1. PICK p \in {"usage", "last", "done"} : pc' = [pc EXCEPT ![i] = p]
    BY <1>12 DEF EndsClean, Go, Finish
  <2>2. UNCHANGED <<held, usage, serr>>
    BY <1>12 DEF EndsClean
  <2> QED
    BY <2>1, <2>2, <1>a, <1>b, <1>d DEF ReaderType
<1>13. ASSUME NEW i \in Stages, EmitsUsage(i) PROVE ReaderType'
  <2>1. PICK p \in {"last"} : pc' = [pc EXCEPT ![i] = p]
    BY <1>13 DEF EmitsUsage, Go
  <2>2. UNCHANGED <<held, usage, serr>>
    BY <1>13 DEF EmitsUsage
  <2> QED
    BY <2>1, <2>2, <1>a, <1>b, <1>d DEF ReaderType
<1>14. ASSUME NEW i \in Stages, Completes(i) PROVE ReaderType'
  <2>1. PICK p \in {"done"} : pc' = [pc EXCEPT ![i] = p]
    BY <1>14 DEF Completes, Go, Finish, Breaks
  <2>2. UNCHANGED <<held, usage, serr>>
    BY <1>14 DEF Completes
  <2> QED
    BY <2>1, <2>2, <1>a, <1>b, <1>d DEF ReaderType
<1>15. ASSUME NEW i \in Stages, Replay(i) PROVE ReaderType'
  <2>1. PICK p \in {"replay", "done", "usage", "last"} : pc' = [pc EXCEPT ![i] = p] \/ (p = "replay" /\ pc' = pc)
    BY <1>15 DEF Replay, Go, Finish, Breaks
  <2>2. UNCHANGED <<held, usage, serr>>
    BY <1>15 DEF Replay
  <2> QED
    BY <2>1, <2>2, <1>a, <1>b, <1>d DEF ReaderType
<1>16. ASSUME NEW i \in Stages, CallbackFails(i) PROVE ReaderType'
  <2>1. PICK p \in {"done"} : pc' = [pc EXCEPT ![i] = p]
    BY <1>16 DEF CallbackFails, Go, Finish, Breaks
  <2>2. UNCHANGED <<held, usage, serr>>
    BY <1>16 DEF CallbackFails
  <2> QED
    BY <2>1, <2>2, <1>a, <1>b, <1>d DEF ReaderType
<1>17. ASSUME NEW j \in 1 .. Consumer, Expire(j) PROVE ReaderType'
  BY <1>17, <1>a, <1>b, <1>d DEF Expire, ReaderType
<1>18. CASE UNCHANGED vars
  BY <1>18, <1>a, <1>b, <1>d DEF vars, ReaderType
<1> QED
  BY <1>1, <1>2, <1>3, <1>4, <1>5, <1>6, <1>7, <1>8, <1>9, <1>10, <1>11,
     <1>12, <1>13, <1>14, <1>15, <1>16, <1>17, <1>18
     DEF Next, Source, Wrapper, Runs, ConsumerStep, Stages, Consumer, N

LEMMA StepCacheType == TypeInv /\ [Next]_vars => CacheType'
<1> SUFFICES ASSUME TypeInv, [Next]_vars PROVE CacheType'
  OBVIOUS
<1>a. chain' = chain /\ N' = N /\ Stages' = Stages /\ Consumer' = Consumer
  BY Fixed
<1>b. CallType /\ StreamType /\ ReaderType /\ CacheType /\ Entered
  BY DEF TypeInv, TypeOK
<1>c. /\ N \in Nat /\ N >= 1 /\ chain \in [1 .. N -> Kind]
      /\ \A k \in Stages : chain[k] \in Kind
  BY <1>b, ChainFacts
<1>d. Stages = 1 .. N /\ Consumer = N + 1 /\ (\A k \in Stages : k \in 0 .. N /\ k \in 1 .. Consumer)
  BY <1>c DEF Stages, Consumer
<1>e. \A k \in 0 .. N : /\ str[k].buf \in Seq(RelayFrame) /\ str[k].err \in Err
                        /\ str[k].closed \in BOOLEAN /\ str[k].resp \in BOOLEAN
  BY <1>b, StrFacts
<1>1. CASE CallAgain
  <2>1. entry' = entry /\ stored' = entry.frames /\ entry.present
    BY <1>1 DEF CallAgain
  <2> QED
    BY <2>1, <1>b, EntryFields DEF CacheType, Entry
<1>2. CASE \/ SourceReads \/ SourceEmits \/ SourceEnds \/ SourceFails
           \/ SourceCut \/ ConsumerNext
  BY <1>2, <1>a, <1>b DEF SourceReads, SourceEmits, SourceEnds, SourceFails,
     SourceCut, ConsumerNext, Emit, SourceStops, Receive, Rest, CacheType
<1>3. ASSUME NEW i \in 1 .. Consumer, NextUsage(i) \/ NextEnds(i) PROVE CacheType'
  BY <1>3, <1>a, <1>b DEF NextUsage, NextEnds, Receive, Rest, Go, CacheType
<1>4. ASSUME NEW i \in Stages, NextFrame(i) PROVE CacheType'
  <2>1. Head(str[i - 1].buf) \in RelayFrame
    BY <1>4, <1>b, <1>c, <1>d, HeadFacts DEF NextFrame
  <2>2. (stored' = Append(stored, Head(str[i - 1].buf)) \/ stored' = stored) /\ entry' = entry
    BY <1>4 DEF NextFrame
  <2> QED
    BY <2>1, <2>2, <1>b, AppendProperties DEF CacheType
<1>5. ASSUME NEW i \in Stages, Completes(i) PROVE CacheType'
  <2>1. usage[i] \in Nat /\ str[i].resp \in BOOLEAN
    BY <1>b, <1>d, <1>e DEF ReaderType
  <2>2. Made \in Generation
    BY <1>b DEF CallType, Generation, Made
  <2>3. \A c \in BOOLEAN : [present |-> TRUE, frames |-> stored, usage |-> usage[i],
             resp |-> str[i].resp, of |-> Made, calm |-> c] \in Entry
    BY <2>1, <2>2, <1>b DEF Entry, CacheType
  <2>4. \/ entry' = entry
        \/ entry' = [present |-> TRUE, frames |-> stored, usage |-> usage[i], resp |-> str[i].resp,
                     of |-> Made, calm |-> expired = {} /\ ~CtxDone(i)]
    BY <1>5 DEF Completes, StoredUsage
  <2>5. stored' = stored
    BY <1>5 DEF Completes
  <2> QED
    BY <2>3, <2>4, <2>5, <1>b DEF CacheType
<1>6. ASSUME NEW i \in Stages, Replay(i) PROVE CacheType'
  <2>1. (stored # <<>> /\ stored' = Tail(stored)) \/ stored' = stored
    BY <1>6 DEF Replay
  <2>2. entry' = entry
    BY <1>6 DEF Replay
  <2> QED
    BY <2>1, <2>2, <1>b, HeadTailProperties DEF CacheType
<1>7. ASSUME NEW i \in Stages,
             \/ AgentStarts(i) \/ Emits(i) \/ EmitFails(i) \/ EndsInError(i)
             \/ EndsClean(i) \/ EmitsUsage(i) \/ CallbackFails(i)
      PROVE  CacheType'
  BY <1>7, <1>a, <1>b DEF AgentStarts, Emits, EmitFails, EndsInError, EndsClean,
     EmitsUsage, CallbackFails, Go, Breaks, Finish, Emit, CacheType
<1>8. ASSUME NEW j \in 1 .. Consumer, Expire(j) PROVE CacheType'
  BY <1>8, <1>a, <1>b DEF Expire, CacheType
<1>9. CASE UNCHANGED vars
  BY <1>9, <1>a, <1>b DEF vars, CacheType
<1> QED
  BY <1>1, <1>2, <1>3, <1>4, <1>5, <1>6, <1>7, <1>8, <1>9
     DEF Next, Source, Wrapper, Runs, ConsumerStep, Stages, Consumer, N

LEMMA StepToldType == TypeInv /\ [Next]_vars => ToldType'
<1> SUFFICES ASSUME TypeInv, [Next]_vars PROVE ToldType'
  OBVIOUS
<1>a. chain' = chain /\ N' = N /\ Stages' = Stages /\ Consumer' = Consumer
  BY Fixed
<1>b. CallType /\ StreamType /\ ReaderType /\ ToldType /\ CacheType
  BY DEF TypeInv, TypeOK
<1>c. /\ N \in Nat /\ N >= 1 /\ chain \in [1 .. N -> Kind]
      /\ \A k \in Stages : chain[k] \in Kind
  BY <1>b, ChainFacts
<1>d. Stages = 1 .. N /\ Consumer = N + 1 /\ (\A k \in Stages : k \in 0 .. N /\ k \in 1 .. Consumer)
  BY <1>c DEF Stages, Consumer
<1>e. \A k \in 0 .. N : /\ str[k].buf \in Seq(RelayFrame) /\ str[k].err \in Err
                        /\ str[k].closed \in BOOLEAN /\ str[k].resp \in BOOLEAN
  BY <1>b, StrFacts
<1>1. CASE ConsumerNext
  <2>1. Head(str[Consumer - 1].buf) \in RelayFrame
    BY <1>1, <1>b, <1>c, <1>d, HeadFacts DEF ConsumerNext
  <2>2. received' = Append(received, Head(str[Consumer - 1].buf)) /\ UNCHANGED <<told, broken>>
    <3>1. Consumer - 1 = N
      BY <1>c, <1>d
    <3> QED
      BY <1>1, <3>1 DEF ConsumerNext
  <2> QED
    BY <2>1, <2>2, <1>a, <1>b, AppendProperties DEF ToldType
<1>2. CASE CallAgain
  <2>1. received' = <<>> /\ told' = [k \in Stages |-> <<>>] /\ broken' = [k \in Stages |-> FALSE]
    BY <1>2 DEF CallAgain
  <2> QED
    BY <2>1, <1>a DEF ToldType
<1>3. CASE SourceReads \/ SourceEmits \/ SourceEnds \/ SourceFails \/ SourceCut
  BY <1>3, <1>a, <1>b DEF SourceReads, SourceEmits, SourceEnds, SourceFails,
     SourceCut, Emit, SourceStops, ToldType
<1>4. ASSUME NEW i \in 1 .. Consumer, NextUsage(i) \/ NextEnds(i) PROVE ToldType'
  BY <1>4, <1>a, <1>b DEF NextUsage, NextEnds, Receive, Rest, Go, ToldType
<1>5. ASSUME NEW i \in Stages, AgentStarts(i) PROVE ToldType'
  <2>1. (broken' = broken \/ broken' = [broken EXCEPT ![i] = TRUE]) /\ UNCHANGED <<received, told>>
    BY <1>5 DEF AgentStarts, Breaks
  <2> QED
    BY <2>1, <1>a, <1>b DEF ToldType
<1>6. ASSUME NEW i \in Stages, EndsInError(i) PROVE ToldType'
  <2>1. usage[i] \in Nat /\ serr[i] \in Err /\ told[i] \in Seq([usage : Nat, err : Err])
    BY <1>b, <1>d DEF ReaderType, ToldType
  <2>2. Append(told[i], [usage |-> usage[i], err |-> serr[i]]) \in Seq([usage : Nat, err : Err])
    BY <2>1, AppendProperties
  <2>3. \/ told' = told
        \/ told' = [told EXCEPT ![i] = Append(told[i], [usage |-> usage[i], err |-> serr[i]])]
    BY <1>6 DEF EndsInError, Tells, HookUsage, SourceErr
  <2>4. UNCHANGED <<received, broken>>
    BY <1>6 DEF EndsInError
  <2> QED
    BY <2>2, <2>3, <2>4, <1>a, <1>b DEF ToldType
<1>7. ASSUME NEW i \in Stages, EndsClean(i) PROVE ToldType'
  <2>1. usage[i] \in Nat /\ serr[i] \in Err /\ told[i] \in Seq([usage : Nat, err : Err])
    BY <1>b, <1>d DEF ReaderType, ToldType
  <2>2. Append(told[i], [usage |-> usage[i], err |-> serr[i]]) \in Seq([usage : Nat, err : Err])
    BY <2>1, AppendProperties
  <2>3. \/ told' = told
        \/ told' = [told EXCEPT ![i] = Append(told[i], [usage |-> usage[i], err |-> serr[i]])]
    BY <1>7 DEF EndsClean, Tells, HookUsage, SourceErr
  <2>4. UNCHANGED <<received, broken>>
    BY <1>7 DEF EndsClean
  <2> QED
    BY <2>2, <2>3, <2>4, <1>a, <1>b DEF ToldType
<1>8. ASSUME NEW i \in Stages, Completes(i) PROVE ToldType'
  <2>1. (broken' = broken \/ broken' = [broken EXCEPT ![i] = TRUE]) /\ UNCHANGED <<received, told>>
    BY <1>8 DEF Completes, Breaks
  <2> QED
    BY <2>1, <1>a, <1>b DEF ToldType
<1>9. ASSUME NEW i \in Stages, CallbackFails(i) PROVE ToldType'
  <2>1. (broken' = broken \/ broken' = [broken EXCEPT ![i] = TRUE]) /\ UNCHANGED <<received, told>>
    BY <1>9 DEF CallbackFails, Breaks
  <2> QED
    BY <2>1, <1>a, <1>b DEF ToldType
<1>10. ASSUME NEW i \in Stages,
              \/ NextFrame(i) \/ Emits(i) \/ EmitFails(i) \/ EmitsUsage(i)
              \/ Replay(i)
      PROVE  ToldType'
  BY <1>10, <1>a, <1>b DEF NextFrame, Emits, EmitFails, EmitsUsage, Replay,
     Receive, Rest, Go, Emit, Finish, ToldType
<1>11. ASSUME NEW j \in 1 .. Consumer, Expire(j) PROVE ToldType'
  BY <1>11, <1>a, <1>b DEF Expire, ToldType
<1>12. CASE UNCHANGED vars
  BY <1>12, <1>a, <1>b DEF vars, ToldType
<1> QED
  BY <1>1, <1>2, <1>3, <1>4, <1>5, <1>6, <1>7, <1>8, <1>9, <1>10, <1>11,
     <1>12
     DEF Next, Source, Wrapper, Runs, ConsumerStep, Stages, Consumer, N

LEMMA StepEntered == TypeInv /\ [Next]_vars => Entered'
<1> SUFFICES ASSUME TypeInv, [Next]_vars PROVE Entered'
  OBVIOUS
<1>a. chain' = chain /\ N' = N /\ Stages' = Stages /\ Consumer' = Consumer
  BY Fixed
<1>b. CallType /\ CacheType /\ Entered
  BY DEF TypeInv, TypeOK
<1>1. CASE CallAgain
  BY <1>1 DEF CallAgain, Entered
<1>2. CASE \/ SourceReads \/ SourceEmits \/ SourceEnds \/ SourceFails
           \/ SourceCut \/ ConsumerNext
  BY <1>2, <1>a, <1>b DEF SourceReads, SourceEmits, SourceEnds, SourceFails,
     SourceCut, ConsumerNext, Emit, SourceStops, Receive, Rest, Entered
<1>3. ASSUME NEW i \in 1 .. Consumer, NextUsage(i) \/ NextEnds(i) PROVE Entered'
  BY <1>3, <1>a, <1>b DEF NextUsage, NextEnds, Receive, Rest, Go, Entered
<1>4. ASSUME NEW i \in Stages, Completes(i) PROVE Entered'
  BY <1>4, <1>b DEF Completes, Entered
<1>5. ASSUME NEW i \in Stages,
             \/ NextFrame(i) \/ AgentStarts(i) \/ Emits(i) \/ EmitFails(i)
             \/ EndsInError(i) \/ EndsClean(i) \/ EmitsUsage(i) \/ Replay(i)
             \/ CallbackFails(i)
      PROVE  Entered'
  BY <1>5, <1>a, <1>b DEF NextFrame, AgentStarts, Emits, EmitFails, EndsInError,
     EndsClean, EmitsUsage, Replay, CallbackFails, Receive, Rest, Go, Breaks,
     Finish, Emit, Entered
<1>6. ASSUME NEW j \in 1 .. Consumer, Expire(j) PROVE Entered'
  BY <1>6, <1>a, <1>b DEF Expire, Entered
<1>7. CASE UNCHANGED vars
  BY <1>7, <1>a, <1>b DEF vars, Entered
<1> QED
  BY <1>1, <1>2, <1>3, <1>4, <1>5, <1>6, <1>7
     DEF Next, Source, Wrapper, Runs, ConsumerStep, Stages, Consumer, N

(***************************************************************************)
(* What a step does to the streams and to the goroutines, one by one.      *)
(***************************************************************************)
Others(k) == \A j \in 0 .. N : j # k => str'[j] = str[j]
Kept(k) == (str'[k].closed <=> str[k].closed) /\ str'[k].err = str[k].err /\ str'[k].resp = str[k].resp
Puts(k, f) == str'[k].buf = Append(str[k].buf, f) /\ Kept(k) /\ Others(k)
Takes(k) == str'[k].buf = Tail(str[k].buf) /\ Kept(k) /\ Others(k)
Closes(k, e) == str'[k].buf = str[k].buf /\ str'[k].closed /\ str'[k].err = e /\ Others(k)
Goes(i, p) == pc'[i] = p /\ \A j \in 1 .. Consumer : j # i => pc'[j] = pc[j]
Breaking(i) ==
  /\ Closes(i, "stage") /\ Goes(i, "done")
  /\ broken'[i] /\ \A k \in Stages : k # i => broken'[k] = broken[k]

LEMMA Stream1 ==
  ASSUME StreamType, N \in Nat, NEW k \in 0 .. N, NEW f, Emit(k, f)
  PROVE  Puts(k, f)
<1>1. str \in [0 .. N -> Pipe] /\ str[k] \in Pipe
  BY DEF StreamType
<1>2. str' = [str EXCEPT ![k].buf = Append(@, f)]
  BY DEF Emit
<1>3. str'[k] = [str[k] EXCEPT !.buf = Append(@, f)] /\ Others(k)
  BY <1>1, <1>2 DEF Others
<1> QED
  BY <1>1, <1>3 DEF Puts, Kept, Pipe

LEMMA Stream2 ==
  ASSUME StreamType, N \in Nat, NEW i \in 1 .. N + 1, Receive(i)
  PROVE  Takes(i - 1)
<1>1. i - 1 \in 0 .. N /\ str \in [0 .. N -> Pipe] /\ str[i - 1] \in Pipe
  BY DEF StreamType
<1>2. str' = [str EXCEPT ![i - 1].buf = Tail(str[i - 1].buf)]
  BY DEF Receive, Rest
<1>3. str'[i - 1] = [str[i - 1] EXCEPT !.buf = Tail(str[i - 1].buf)] /\ Others(i - 1)
  BY <1>1, <1>2 DEF Others
<1> QED
  BY <1>1, <1>3 DEF Takes, Kept, Pipe

LEMMA Stream3 ==
  ASSUME StreamType, N \in Nat, NEW k \in 0 .. N, NEW e, NEW r,
         str' = [str EXCEPT ![k].closed = TRUE, ![k].err = e, ![k].resp = r]
  PROVE  Closes(k, e) /\ str'[k].resp = r
<1>1. str \in [0 .. N -> Pipe] /\ str[k] \in Pipe
  BY DEF StreamType
<1>3. str'[k] = [str[k] EXCEPT !.closed = TRUE, !.err = e, !.resp = r] /\ Others(k)
  BY <1>1 DEF Others
<1> QED
  BY <1>1, <1>3 DEF Closes, Pipe

LEMMA Stream4 ==
  ASSUME StreamType, N \in Nat, NEW k \in 0 .. N, NEW r, str' = [str EXCEPT ![k].resp = r]
  PROVE  /\ str'[k].buf = str[k].buf /\ str'[k].closed = str[k].closed /\ str'[k].err = str[k].err
         /\ str'[k].resp = r /\ Others(k)
<1>1. str \in [0 .. N -> Pipe] /\ str[k] \in Pipe
  BY DEF StreamType
<1>3. str'[k] = [str[k] EXCEPT !.resp = r] /\ Others(k)
  BY <1>1 DEF Others
<1> QED
  BY <1>1, <1>3 DEF Pipe

LEMMA Reader1 ==
  ASSUME ReaderType, N \in Nat, NEW i \in 1 .. N + 1, NEW p, pc' = [pc EXCEPT ![i] = p]
  PROVE  Goes(i, p)
BY DEF ReaderType, Goes, Consumer

Above(i) == \E j \in Stages : IsCache(j) /\ i < j

Data(n) == [kind |-> "data", n |-> n]
Total(n) == [kind |-> "usage", n |-> n]

LEMMA Places ==
  ASSUME TypeInv
  PROVE  /\ N \in Nat /\ N >= 1 /\ Stages = 1 .. N /\ Consumer = N + 1
         /\ \A k \in Stages : k \in 0 .. N /\ k \in 1 .. Consumer /\ k # Consumer /\ k - 1 \in 0 .. N
         /\ \A k \in 1 .. Consumer : k \in 1 .. N + 1 /\ k - 1 \in 0 .. N
         /\ Consumer \in 1 .. Consumer /\ 0 \in 0 .. N
<1>1. N \in Nat /\ N >= 1
  BY ChainFacts DEF TypeInv, TypeOK
<1> QED
  BY <1>1 DEF Stages, Consumer

LEMMA SourceReadsEffect ==
  ASSUME TypeInv, SourceReads
  PROVE  /\ gen.state = "running" /\ gen'.state = "emitting" /\ gen'.resp = gen.resp
         /\ UNCHANGED <<hit, str, pc, usage, serr, expired, stored, entry, received, told, broken>>
         /\ \A k \in Stages : held'[k] = held[k]
         /\ \/ /\ gen'.frames = Append(gen.frames, Data(Len(gen.frames) + 1)) /\ gen'.usage = gen.usage
               /\ held'[0] = Data(Len(gen.frames) + 1)
            \/ gen.usage = 0 /\ gen'.usage = 1 /\ gen'.frames = gen.frames /\ held'[0] = Total(1)
<1>1. gen \in Generation /\ held \in [0 .. N -> RelayFrame]
  BY DEF TypeInv, TypeOK, CallType, ReaderType
<1>2. \A k \in Stages : k \in 0 .. N /\ k # 0
  BY Places
<1>3. CASE /\ gen' = [gen EXCEPT !.frames = Append(@, Data(Len(gen.frames) + 1)), !.state = "emitting"]
           /\ held' = [held EXCEPT ![0] = Data(Len(gen.frames) + 1)]
  BY <1>1, <1>2, <1>3, Places DEF SourceReads, SourceRuns, Generation
<1>4. CASE /\ gen.usage = 0 /\ gen' = [gen EXCEPT !.usage = 1, !.state = "emitting"]
           /\ held' = [held EXCEPT ![0] = Total(1)]
  BY <1>1, <1>2, <1>4, Places DEF SourceReads, SourceRuns, Generation
<1> QED
  BY <1>3, <1>4 DEF SourceReads, Data, Total

LEMMA SourceEmitsEffect ==
  ASSUME TypeInv, SourceEmits
  PROVE  /\ gen.state = "emitting" /\ gen'.state = "running" /\ gen'.frames = gen.frames
         /\ gen'.usage = gen.usage /\ gen'.resp = gen.resp
         /\ Puts(0, held[0]) /\ held[0] \in RelayFrame /\ \A k \in Stages : held'[k] = held[k]
         /\ UNCHANGED <<hit, pc, usage, serr, expired, stored, entry, received, told, broken>>
<1>1. gen \in Generation /\ held \in [0 .. N -> RelayFrame] /\ StreamType
  BY DEF TypeInv, TypeOK, CallType, ReaderType
<1>2. \A k \in Stages : k \in 0 .. N /\ k # 0
  BY Places
<1>3. Puts(0, held[0]) /\ held[0] \in RelayFrame
  BY <1>1, Places, Stream1 DEF SourceEmits
<1> QED
  BY <1>1, <1>2, <1>3 DEF SourceEmits, Generation

LEMMA SourceStopsEffect ==
  ASSUME TypeInv, SourceEnds \/ SourceFails \/ SourceCut
  PROVE  /\ gen'.frames = gen.frames /\ gen'.usage = gen.usage
         /\ UNCHANGED <<hit, pc, held, usage, serr, expired, stored, entry, received, told, broken>>
         /\ \/ gen.state = "running" /\ gen'.state = "complete" /\ Closes(0, "nil") /\ str'[0].resp = gen'.resp
            \/ gen.state = "running" /\ gen'.state = "failed" /\ Closes(0, "source")
            \/ gen.state = "emitting" /\ gen'.state = "cut" /\ CtxDone(0) /\ Closes(0, "nil")
<1>1. gen \in Generation /\ StreamType
  BY DEF TypeInv, TypeOK, CallType
<1>2. ASSUME NEW s, NEW e, NEW r, SourceStops(s, e, r)
      PROVE  /\ gen'.frames = gen.frames /\ gen'.usage = gen.usage /\ gen'.state = s /\ gen'.resp = r
             /\ Closes(0, e) /\ str'[0].resp = r
             /\ UNCHANGED <<hit, pc, held, usage, serr, expired, stored, entry, received, told, broken>>
  <2>1. Closes(0, e) /\ str'[0].resp = r
    BY <1>1, <1>2, Places, Stream3 DEF SourceStops
  <2> QED
    BY <1>1, <1>2, <2>1 DEF SourceStops, Generation
<1>3. CASE SourceEnds
  <2>1. PICK r \in BOOLEAN : SourceStops("complete", "nil", r) /\ gen.state = "running"
    BY <1>3 DEF SourceEnds, SourceRuns
  <2> QED
    BY <2>1, <1>2
<1>4. CASE SourceFails
  BY <1>4, <1>2 DEF SourceFails, SourceRuns
<1>5. CASE SourceCut
  BY <1>5, <1>2 DEF SourceCut
<1> QED
  BY <1>3, <1>4, <1>5

LEMMA NextUsageEffect ==
  ASSUME TypeInv, NEW i \in 1 .. Consumer, NextUsage(i)
  PROVE  /\ pc[i] = "reading" /\ str[i - 1].buf # <<>> /\ Head(str[i - 1].buf).kind = "usage"
         /\ Takes(i - 1)
         /\ usage'[i] = usage[i] + Head(str[i - 1].buf).n
         /\ \A k \in 1 .. Consumer : k # i => usage'[k] = usage[k]
         /\ UNCHANGED <<hit, gen, pc, held, serr, expired, stored, entry, received, told, broken>>
<1>1. usage \in [1 .. Consumer -> Nat] /\ StreamType
  BY DEF TypeInv, TypeOK, ReaderType
<1>2. Takes(i - 1)
  BY <1>1, Places, Stream2 DEF NextUsage
<1> QED
  BY <1>1, <1>2 DEF NextUsage, Reading, Frames

LEMMA NextFrameEffect ==
  ASSUME TypeInv, NEW i \in Stages, NextFrame(i)
  PROVE  /\ pc[i] = "reading" /\ Goes(i, "held")
         /\ str[i - 1].buf # <<>> /\ Head(str[i - 1].buf).kind = "data" /\ Takes(i - 1)
         /\ held'[i] = Head(str[i - 1].buf) /\ \A k \in 0 .. N : k # i => held'[k] = held[k]
         /\ stored' = IF IsCache(i) THEN Append(stored, Head(str[i - 1].buf)) ELSE stored
         /\ UNCHANGED <<hit, gen, usage, serr, expired, entry, received, told, broken>>
<1>1. ReaderType /\ StreamType /\ held \in [0 .. N -> RelayFrame]
  BY DEF TypeInv, TypeOK, ReaderType
<1>2. Takes(i - 1) /\ Goes(i, "held")
  BY <1>1, Places, Stream2, Reader1 DEF NextFrame, Go
<1>3. i \in 0 .. N
  BY Places
<1> QED
  BY <1>1, <1>2, <1>3 DEF NextFrame, Reading, Frames, IsCache

LEMMA ConsumerNextEffect ==
  ASSUME TypeInv, ConsumerNext
  PROVE  /\ pc[Consumer] = "reading" /\ str[N].buf # <<>> /\ Head(str[N].buf).kind = "data"
         /\ Takes(N) /\ received' = Append(received, Head(str[N].buf))
         /\ UNCHANGED <<hit, gen, pc, held, usage, serr, expired, stored, entry, told, broken>>
<1>1. StreamType /\ Consumer - 1 = N /\ Consumer \in 1 .. N + 1 /\ N \in Nat
  BY Places DEF TypeInv, TypeOK
<1>2. Takes(Consumer - 1)
  BY <1>1, Stream2 DEF ConsumerNext
<1>3. Takes(N)
  BY <1>1, <1>2
<1> QED
  BY <1>1, <1>3 DEF ConsumerNext, Reading, Frames

LEMMA NextEndsEffect ==
  ASSUME TypeInv, NEW i \in 1 .. Consumer, NextEnds(i)
  PROVE  /\ pc[i] = "reading" /\ Goes(i, IF i = Consumer THEN "done" ELSE "ended")
         /\ \/ str[i - 1].closed /\ str[i - 1].buf = <<>> /\ serr'[i] = str[i - 1].err
            \/ CtxDone(i) /\ serr'[i] = "ctx"
         /\ \A k \in 1 .. Consumer : k # i => serr'[k] = serr[k]
         /\ UNCHANGED <<hit, gen, str, held, usage, expired, stored, entry, received, told, broken>>
<1>1. ReaderType /\ serr \in [1 .. Consumer -> Err]
  BY DEF TypeInv, TypeOK, ReaderType
<1>2. Goes(i, IF i = Consumer THEN "done" ELSE "ended")
  BY <1>1, Places, Reader1 DEF NextEnds, Go
<1> QED
  BY <1>1, <1>2 DEF NextEnds, Reading, Drained

LEMMA BreaksEffect ==
  ASSUME TypeInv, NEW i \in Stages, NEW r, Breaks(i, r)
  PROVE  Breaking(i)
<1>1. ReaderType /\ StreamType /\ broken \in [Stages -> BOOLEAN]
  BY DEF TypeInv, TypeOK, ToldType
<1>2. Closes(i, "stage") /\ Goes(i, "done")
  BY <1>1, Places, Stream3, Reader1 DEF Breaks, Finish, Go, OwnError
<1> QED
  BY <1>1, <1>2 DEF Breaks, Breaking

LEMMA FinishEffect ==
  ASSUME TypeInv, NEW i \in Stages, NEW e, NEW r, Finish(i, e, r)
  PROVE  Closes(i, e) /\ str'[i].resp = r /\ Goes(i, "done")
<1>1. ReaderType /\ StreamType
  BY DEF TypeInv, TypeOK
<1> QED
  BY <1>1, Places, Stream3, Reader1 DEF Finish, Go

LEMMA AgentStartsEffect ==
  ASSUME TypeInv, NEW i \in Stages, AgentStarts(i)
  PROVE  /\ pc[i] = "starting"
         /\ UNCHANGED <<hit, gen, held, usage, serr, expired, stored, entry, received, told>>
         /\ \/ Goes(i, "reading") /\ UNCHANGED <<str, broken>>
            \/ Breaking(i)
<1>1. ReaderType
  BY DEF TypeInv, TypeOK
<1> QED
  BY <1>1, Places, Reader1, BreaksEffect DEF AgentStarts, Go

LEMMA CallbackFailsEffect ==
  ASSUME TypeInv, NEW i \in Stages, CallbackFails(i)
  PROVE  /\ pc[i] # "done" /\ Breaking(i)
         /\ UNCHANGED <<hit, gen, held, usage, serr, expired, stored, entry, received, told>>
BY BreaksEffect DEF CallbackFails

LEMMA EmitsEffect ==
  ASSUME TypeInv, NEW i \in Stages, Emits(i)
  PROVE  /\ pc[i] = "held" /\ Goes(i, "reading") /\ Puts(i, held[i]) /\ held[i] \in RelayFrame
         /\ \A k \in 0 .. N : k # i => held'[k] = held[k]
         /\ UNCHANGED <<hit, gen, usage, serr, expired, stored, entry, received, told, broken>>
<1>1. ReaderType /\ StreamType /\ held \in [0 .. N -> RelayFrame]
  BY DEF TypeInv, TypeOK, ReaderType
<1>2. Puts(i, held[i]) /\ Goes(i, "reading") /\ held[i] \in RelayFrame
  BY <1>1, Places, Stream1, Reader1 DEF Emits, Go
<1> QED
  BY <1>1, <1>2 DEF Emits

LEMMA EmitFailsEffect ==
  ASSUME TypeInv, NEW i \in Stages, EmitFails(i)
  PROVE  /\ pc[i] = "held" /\ CtxDone(i) /\ Goes(i, "done")
         /\ Closes(i, IF chain[i] = "processor" THEN "ctx" ELSE "nil")
         /\ UNCHANGED <<hit, gen, held, usage, serr, expired, stored, entry, received, told, broken>>
BY FinishEffect DEF EmitFails

LEMMA TellsEffect ==
  ASSUME TypeInv, NEW i \in Stages, Tells(i)
  PROVE  /\ \A k \in Stages : k # i => told'[k] = told[k]
         /\ chain[i] = "hook" => told'[i] = Append(told[i], [usage |-> usage[i], err |-> serr[i]])
<1>1. told \in [Stages -> Seq([usage : Nat, err : Err])]
  BY DEF TypeInv, TypeOK, ToldType
<1> QED
  BY <1>1 DEF Tells, HookUsage, SourceErr

LEMMA EndsInErrorEffect ==
  ASSUME TypeInv, NEW i \in Stages, EndsInError(i)
  PROVE  /\ pc[i] = "ended" /\ serr[i] # "nil" /\ Goes(i, "done") /\ Closes(i, serr[i]) /\ Tells(i)
         /\ UNCHANGED <<hit, gen, held, usage, serr, expired, stored, entry, received, broken>>
BY FinishEffect DEF EndsInError, SourceErr

LEMMA EndsCleanEffect ==
  ASSUME TypeInv, NEW i \in Stages, EndsClean(i)
  PROVE  /\ pc[i] = "ended" /\ serr[i] = "nil" /\ Tells(i)
         /\ UNCHANGED <<hit, gen, held, usage, serr, expired, stored, entry, received, broken>>
         /\ \/ /\ chain[i] \in {"timeout", "sink", "cache"}
               /\ Goes(i, IF usage[i] > 0 THEN "usage" ELSE "last")
               /\ str'[i].buf = str[i].buf /\ str'[i].closed = str[i].closed /\ str'[i].err = str[i].err
               /\ str'[i].resp = str[i - 1].resp /\ Others(i)
            \/ /\ chain[i] \in {"hook", "processor"}
               /\ Goes(i, "done") /\ Closes(i, "nil")
               /\ str'[i].resp = (chain[i] # "processor" /\ str[i - 1].resp)
<1> DEFINE r == chain[i] # "processor" /\ str[i - 1].resp
<1>1. ReaderType /\ StreamType /\ chain[i] \in Kind
  BY ChainFacts DEF TypeInv, TypeOK
<1>2. CASE chain[i] \in {"timeout", "sink", "cache"}
  <2>1. str' = [str EXCEPT ![i].resp = r] /\ Go(i, IF usage[i] > 0 THEN "usage" ELSE "last")
    BY <1>2 DEF EndsClean, Reemits
  <2>2. /\ str'[i].buf = str[i].buf /\ str'[i].closed = str[i].closed /\ str'[i].err = str[i].err
        /\ str'[i].resp = r /\ Others(i)
    <3> HIDE DEF r
    <3> QED
      BY <1>1, <2>1, Places, Stream4
  <2>3. Goes(i, IF usage[i] > 0 THEN "usage" ELSE "last")
    BY <1>1, <2>1, Places, Reader1 DEF Go
  <2>4. str[i - 1].resp \in BOOLEAN
    BY <1>1, Places, StrFacts
  <2>5. r = str[i - 1].resp
    BY <1>2, <2>4
  <2> QED
    BY <1>2, <2>2, <2>3, <2>5 DEF EndsClean, SourceErr
<1>3. CASE chain[i] \in {"hook", "processor"}
  <2>1. Finish(i, "nil", r)
    BY <1>3 DEF EndsClean
  <2>2. Goes(i, "done") /\ Closes(i, "nil") /\ str'[i].resp = r
    BY <2>1, FinishEffect
  <2> QED
    BY <1>3, <2>2 DEF EndsClean, SourceErr
<1> QED
  BY <1>1, <1>2, <1>3 DEF Kind

LEMMA EmitsUsageEffect ==
  ASSUME TypeInv, NEW i \in Stages, EmitsUsage(i)
  PROVE  /\ pc[i] = "usage" /\ Goes(i, "last") /\ (Puts(i, Total(usage[i])) \/ (CtxDone(i) /\ UNCHANGED str))
         /\ UNCHANGED <<hit, gen, held, usage, serr, expired, stored, entry, received, told, broken>>
<1>1. ReaderType /\ StreamType
  BY DEF TypeInv, TypeOK
<1> QED
  BY <1>1, Places, Stream1, Reader1 DEF EmitsUsage, Go, Total

LEMMA CompletesEffect ==
  ASSUME TypeInv, NEW i \in Stages, Completes(i)
  PROVE  /\ pc[i] = "last" /\ Goes(i, "done")
         /\ \/ Closes(i, "nil") /\ str'[i].resp = str[i].resp /\ UNCHANGED broken
            \/ Breaking(i) /\ chain[i] = "sink"
         /\ entry' = IF IsCache(i) /\ ~hit
                     THEN [present |-> TRUE, frames |-> stored, usage |-> usage[i], resp |-> str[i].resp,
                           of |-> Made, calm |-> expired = {} /\ ~CtxDone(i)]
                     ELSE entry
         /\ UNCHANGED <<hit, gen, held, usage, serr, expired, stored, received, told>>
<1>1. ReaderType /\ StreamType
  BY DEF TypeInv, TypeOK
<1>2. CASE Finish(i, "nil", str[i].resp) /\ UNCHANGED broken
  BY <1>2, FinishEffect DEF Completes, StoredUsage, IsCache
<1>3. CASE chain[i] = "sink" /\ Breaks(i, str[i].resp)
  <2>1. Breaking(i)
    BY <1>3, BreaksEffect
  <2> QED
    BY <1>3, <2>1 DEF Completes, StoredUsage, IsCache, Breaking
<1> QED
  BY <1>2, <1>3 DEF Completes

LEMMA ReplayEffect ==
  ASSUME TypeInv, NEW i \in Stages, Replay(i)
  PROVE  /\ pc[i] = "replay"
         /\ \/ stored # <<>> /\ Puts(i, Head(stored)) /\ stored' = Tail(stored) /\ UNCHANGED pc
            \/ CtxDone(i) /\ Goes(i, "done") /\ Closes(i, "nil") /\ UNCHANGED stored
            \/ /\ stored = <<>> /\ UNCHANGED stored /\ Goes(i, IF usage[i] > 0 THEN "usage" ELSE "last")
               /\ str'[i].buf = str[i].buf /\ str'[i].closed = str[i].closed /\ str'[i].err = str[i].err
               /\ str'[i].resp = entry.resp /\ Others(i)
         /\ UNCHANGED <<hit, gen, held, usage, serr, expired, entry, received, told, broken>>
<1>1. ReaderType /\ StreamType
  BY DEF TypeInv, TypeOK
<1>2. CASE stored # <<>> /\ Emit(i, Head(stored)) /\ stored' = Tail(stored) /\ UNCHANGED pc
  BY <1>1, <1>2, Places, Stream1 DEF Replay
<1>3. CASE CtxDone(i) /\ Finish(i, "nil", FALSE) /\ UNCHANGED stored
  BY <1>3, FinishEffect DEF Replay
<1>4. CASE /\ stored = <<>> /\ str' = [str EXCEPT ![i].resp = entry.resp] /\ UNCHANGED stored
           /\ Go(i, IF usage[i] > 0 THEN "usage" ELSE "last")
  <2>1. /\ str'[i].buf = str[i].buf /\ str'[i].closed = str[i].closed /\ str'[i].err = str[i].err
        /\ str'[i].resp = entry.resp /\ Others(i)
    BY <1>1, <1>4, Places, Stream4
  <2>2. Goes(i, IF usage[i] > 0 THEN "usage" ELSE "last")
    BY <1>1, <1>4, Places, Reader1 DEF Go
  <2> QED
    BY <1>4, <2>1, <2>2 DEF Replay
<1> QED
  BY <1>2, <1>3, <1>4 DEF Replay

LEMMA BelowCache ==
  ASSUME TypeInv, NEW k \in 1 .. Consumer, Above(k)
  PROVE  k \in Stages /\ chain[k] = "timeout"
<1>1. PICK j \in Stages : IsCache(j) /\ k < j
  BY DEF Above
<1>2. k \in 1 .. j - 1 /\ k \in Stages
  BY <1>1, Places
<1> QED
  BY <1>1, <1>2, ChainFacts DEF TypeInv, TypeOK

LEMMA CallAgainEffect ==
  ASSUME TypeInv, CallAgain
  PROVE  /\ entry.present /\ entry' = entry /\ hit' = TRUE /\ gen' = entry.of /\ expired' = {}
         /\ \A k \in 0 .. N : str'[k].buf = <<>> /\ ~str'[k].closed /\ str'[k].err = "nil" /\ ~str'[k].resp
         /\ \A k \in 1 .. Consumer :
              /\ Above(k) => pc'[k] = "done"
              /\ ~Above(k) /\ IsCache(k) => pc'[k] = "replay"
              /\ ~Above(k) /\ ~IsCache(k) => pc'[k] \in {"starting", "reading"}
              /\ pc'[k] = "starting" => k \in Stages /\ chain[k] = "sink"
              /\ serr'[k] = "nil" /\ usage'[k] = (IF IsCache(k) THEN entry.usage ELSE 0)
         /\ stored' = entry.frames /\ received' = <<>>
         /\ \A k \in Stages : told'[k] = <<>> /\ broken'[k] = FALSE
<1>1. \A k \in 1 .. Consumer :
        /\ Above(k) => pc'[k] = "done"
        /\ ~Above(k) /\ IsCache(k) => pc'[k] = "replay"
        /\ ~Above(k) /\ ~IsCache(k) => pc'[k] \in {"starting", "reading"}
        /\ pc'[k] = "starting" => k \in Stages /\ chain[k] = "sink"
  <2>1. \A k \in 1 .. Consumer : Above(k) => Start(k, TRUE) = "done"
    BY BelowCache DEF Start, Above, IsCache
  <2>2. \A k \in 1 .. Consumer : ~Above(k) /\ IsCache(k) => Start(k, TRUE) = "replay"
    BY DEF Start, Above, IsCache
  <2>3. \A k \in 1 .. Consumer : ~Above(k) /\ ~IsCache(k) => Start(k, TRUE) \in {"starting", "reading"}
    BY DEF Start, Above
  <2>4. \A k \in 1 .. Consumer : Start(k, TRUE) = "starting" => k \in Stages /\ chain[k] = "sink"
    <3> SUFFICES ASSUME NEW k \in 1 .. Consumer, ~(k \in Stages /\ chain[k] = "sink")
                 PROVE  Start(k, TRUE) # "starting"
      OBVIOUS
    <3> QED
      BY <2>1, <2>2 DEF Start, Above
  <2>5. \A k \in 1 .. Consumer : pc'[k] = Start(k, TRUE)
    BY DEF CallAgain
  <2> QED
    BY <2>1, <2>2, <2>3, <2>4, <2>5
<1>2. \A k \in 0 .. N : str'[k].buf = <<>> /\ ~str'[k].closed /\ str'[k].err = "nil" /\ ~str'[k].resp
  BY DEF CallAgain, Stream
<1>3. \A k \in 1 .. Consumer : serr'[k] = "nil" /\ usage'[k] = (IF IsCache(k) THEN entry.usage ELSE 0)
  BY DEF CallAgain
<1> QED
  BY <1>1, <1>2, <1>3 DEF CallAgain

\* The ways in which a step can be made.
LEMMA NextCases ==
  ASSUME TypeInv, [Next]_vars
  PROVE  \/ SourceReads \/ SourceEmits \/ (SourceEnds \/ SourceFails \/ SourceCut)
         \/ ConsumerNext \/ CallAgain \/ UNCHANGED vars
         \/ \E i \in 1 .. Consumer : NextUsage(i) \/ NextEnds(i) \/ Expire(i)
         \/ \E i \in Stages :
              \/ NextFrame(i) \/ AgentStarts(i) \/ Emits(i) \/ EmitFails(i) \/ EndsInError(i)
              \/ EndsClean(i) \/ EmitsUsage(i) \/ Completes(i) \/ Replay(i) \/ CallbackFails(i)
BY Places DEF Next, Source, Wrapper, Runs, ConsumerStep

LEMMA StepPosts == TypeInv /\ [Next]_vars => Posts'
<1> SUFFICES ASSUME TypeInv, [Next]_vars PROVE Posts'
  OBVIOUS
<1>a. chain' = chain /\ N' = N /\ Stages' = Stages /\ Consumer' = Consumer
  BY Fixed
<1>b. Posts
  BY DEF TypeInv
<1>c. /\ N \in Nat /\ N >= 1 /\ Stages = 1 .. N /\ Consumer = N + 1
      /\ \A k \in Stages : k \in 0 .. N /\ k \in 1 .. Consumer /\ k # Consumer /\ k - 1 \in 0 .. N
      /\ \A k \in 1 .. Consumer : k - 1 \in 0 .. N
      /\ Consumer \in 1 .. Consumer
  BY Places
<1>1. CASE SourceReads
  BY <1>1, <1>a, <1>b, <1>c, SourceReadsEffect
     DEF Posts, Post, IsCache
<1>2. CASE SourceEmits
  BY <1>2, <1>a, <1>b, <1>c, SourceEmitsEffect
     DEF Posts, Post, IsCache
<1>3. CASE SourceEnds \/ SourceFails \/ SourceCut
  BY <1>3, <1>a, <1>b, <1>c, SourceStopsEffect
     DEF Posts, Post, IsCache
<1>4. CASE ConsumerNext
  BY <1>4, <1>a, <1>b, <1>c, ConsumerNextEffect
     DEF Posts, Post, IsCache
<1>5. CASE CallAgain
  BY <1>5, <1>a, <1>b, <1>c, CallAgainEffect
     DEF Posts, Post, IsCache
<1>6. ASSUME NEW i \in 1 .. Consumer, NextUsage(i) PROVE Posts'
  BY <1>6, <1>a, <1>b, <1>c, NextUsageEffect
     DEF Posts, Post, IsCache
<1>7. ASSUME NEW i \in 1 .. Consumer, NextEnds(i) PROVE Posts'
  BY <1>7, <1>a, <1>b, <1>c, NextEndsEffect
     DEF Goes, Posts, Post, IsCache
<1>8. ASSUME NEW i \in Stages, NextFrame(i) PROVE Posts'
  BY <1>8, <1>a, <1>b, <1>c, NextFrameEffect
     DEF Goes, Posts, Post, IsCache
<1>9. ASSUME NEW i \in Stages, AgentStarts(i) PROVE Posts'
  BY <1>9, <1>a, <1>b, <1>c, AgentStartsEffect
     DEF Goes, Breaking, Posts, Post, IsCache
<1>10. ASSUME NEW i \in Stages, Emits(i) PROVE Posts'
  BY <1>10, <1>a, <1>b, <1>c, EmitsEffect
     DEF Goes, Posts, Post, IsCache
<1>11. ASSUME NEW i \in Stages, EmitFails(i) PROVE Posts'
  BY <1>11, <1>a, <1>b, <1>c, EmitFailsEffect
     DEF Goes, Posts, Post, IsCache
<1>12. ASSUME NEW i \in Stages, EndsInError(i) PROVE Posts'
  BY <1>12, <1>a, <1>b, <1>c, EndsInErrorEffect
     DEF Goes, Posts, Post, IsCache
<1>13. ASSUME NEW i \in Stages, EndsClean(i) PROVE Posts'
  BY <1>13, <1>a, <1>b, <1>c, EndsCleanEffect
     DEF Goes, Posts, Post, IsCache
<1>14. ASSUME NEW i \in Stages, EmitsUsage(i) PROVE Posts'
  BY <1>14, <1>a, <1>b, <1>c, EmitsUsageEffect
     DEF Goes, Posts, Post, IsCache
<1>15. ASSUME NEW i \in Stages, Completes(i) PROVE Posts'
  BY <1>15, <1>a, <1>b, <1>c, CompletesEffect
     DEF Goes, Breaking, Posts, Post, IsCache
<1>16. ASSUME NEW i \in Stages, Replay(i) PROVE Posts'
  BY <1>16, <1>a, <1>b, <1>c, ReplayEffect
     DEF Goes, Posts, Post, IsCache
<1>17. ASSUME NEW i \in Stages, CallbackFails(i) PROVE Posts'
  BY <1>17, <1>a, <1>b, <1>c, CallbackFailsEffect
     DEF Goes, Breaking, Posts, Post, IsCache
<1>18. ASSUME NEW j \in 1 .. Consumer, Expire(j) PROVE Posts'
  BY <1>18, <1>a, <1>b, <1>c
     DEF Expire, Posts, Post, IsCache
<1>19. CASE UNCHANGED vars
  BY <1>19, <1>a, <1>b, <1>c
     DEF vars, Posts, Post, IsCache
<1> QED
  BY <1>1, <1>2, <1>3, <1>4, <1>5, <1>6, <1>7, <1>8, <1>9, <1>10, <1>11, <1>12, <1>13, <1>14,
     <1>15, <1>16, <1>17, <1>18, <1>19, NextCases

LEMMA StepTypeInv == TypeInv /\ [Next]_vars => TypeInv'
BY StepCallType, StepStreamType, StepReaderType, StepCacheType, StepToldType, StepEntered, StepPosts
   DEF TypeInv, TypeOK

LEMMA InitTypeInv == Init => TypeInv
<1> SUFFICES ASSUME Init PROVE TypeInv
  OBVIOUS
<1>1. /\ chain \in Chains /\ chain \in Seq(Kind) /\ Len(chain) \in 1 .. MaxStages /\ N \in Nat /\ N >= 1
  BY ChainAssumption, LenProperties DEF Init, N
<1>2. CallType
  <2>1. Fresh \in Generation
    BY DEF Fresh, Generation
  <2>2. 1 \in 1 .. MaxCalls + 1
    BY RelayBounds
  <2> QED
    BY <1>1, <2>1, <2>2 DEF Init, CallType
<1>3. StreamType
  <2>1. Stream(BufSize) \in Pipe /\ Len(Stream(BufSize).buf) <= Stream(BufSize).cap
    BY RelayBounds DEF Stream, Pipe, Err
  <2> QED
    BY <2>1 DEF Init, StreamType
<1>4. \A k \in 1 .. Consumer : /\ pc[k] = Start(k, FALSE) /\ pc[k] \in {"starting", "reading"}
                               /\ pc[k] = "starting" => k \in Stages /\ chain[k] = "sink"
  BY DEF Init, Start
<1>5. ReaderType
  <2>1. NoFrame \in RelayFrame
    BY DEF NoFrame, RelayFrame
  <2>2. pc \in [1 .. Consumer -> {"starting", "reading", "held", "ended", "usage", "last", "replay", "done"}]
    BY <1>4 DEF Init
  <2> QED
    BY <2>1, <2>2 DEF Init, ReaderType, Err
<1>6. CacheType /\ ToldType /\ Entered
  BY DEF Init, CacheType, ToldType, Entered
<1>7. Posts
  <2>1. Consumer \in 1 .. Consumer /\ Consumer \notin Stages /\ \A k \in Stages : k \in 1 .. Consumer
    BY <1>1 DEF Stages, Consumer
  <2> QED
    BY <1>4, <2>1 DEF Posts, Post
<1> QED
  BY <1>2, <1>3, <1>5, <1>6, <1>7 DEF TypeInv, TypeOK

\* The state of Relay always has the type that TypeOK gives it.
THEOREM TypeCorrect == Spec => []TypeOK
<1>1. TypeInv => TypeOK
  BY DEF TypeInv
<1> QED
  BY <1>1, InitTypeInv, StepTypeInv, PTL DEF Spec

(***************************************************************************)
(* Who has finished: a stream is closed when the goroutine that writes it  *)
(* has returned, and on a hit nothing below the cache has run at all.      *)
(***************************************************************************)
Replays(i) == hit /\ IsCache(i)
Idle(i) == hit /\ Above(i)

Shaped(i) ==
  /\ Replays(i) => pc[i] \in {"replay", "usage", "last", "done"}
  /\ broken[i] => pc[i] = "done" /\ str[i].err # "nil"
  /\ Idle(i) => pc[i] = "done" /\ ~broken[i]
  /\ ~Idle(i) => (str[i].closed <=> pc[i] = "done")
WrapperShape == \A i \in Stages : Shaped(i)
IdleShape == \A i \in 0 .. N : Idle(i) => str[i].buf = <<>> /\ ~str[i].closed
SourceShape ==
  /\ Idle(0) => SourceDone
  /\ ~Idle(0) => (str[0].closed <=> SourceDone)
EntryShape ==
  entry.present => /\ \E i \in Stages : IsCache(i)
                   /\ entry.of.state \in {"complete", "failed", "cut"}
Shape == WrapperShape /\ IdleShape /\ SourceShape /\ EntryShape

LEMMA Marks ==
  ASSUME chain' = chain, Stages' = Stages, hit' = hit
  PROVE  \A k : /\ IsCache(k)' <=> IsCache(k)
                /\ Replays(k)' <=> Replays(k)
                /\ Idle(k)' <=> Idle(k)
BY DEF IsCache, Replays, Idle, Above

LEMMA StepWrapperShape == TypeInv /\ Shape /\ [Next]_vars => WrapperShape'
<1> SUFFICES ASSUME TypeInv, Shape, [Next]_vars PROVE WrapperShape'
  OBVIOUS
<1>a. chain' = chain /\ N' = N /\ Stages' = Stages /\ Consumer' = Consumer
  BY Fixed
<1>b. WrapperShape /\ Posts
  BY DEF TypeInv, Shape
<1>c. /\ N \in Nat /\ N >= 1 /\ Stages = 1 .. N /\ Consumer = N + 1
      /\ \A k \in Stages : k \in 0 .. N /\ k \in 1 .. Consumer /\ k # Consumer /\ k - 1 \in 0 .. N
      /\ \A k \in 1 .. Consumer : k - 1 \in 0 .. N
      /\ Consumer \in 1 .. Consumer
  BY Places
<1> SUFFICES ASSUME NEW k \in Stages PROVE Shaped(k)'
  BY <1>a DEF WrapperShape
<1>k. k \in 0 .. N /\ k # 0 /\ k \in 1 .. Consumer /\ k # Consumer /\ k - 1 \in 0 .. N
  BY <1>c
<1>1. CASE SourceReads
  BY <1>1, <1>a, <1>b, <1>c, Marks, <1>k, SourceReadsEffect
     DEF WrapperShape, Shaped
<1>2. CASE SourceEmits
  <2>1. str'[k] = str[k] /\ UNCHANGED <<hit, pc, broken>>
    BY <1>2, <1>k, SourceEmitsEffect DEF Puts, Others
  <2> QED
    BY <2>1, <1>a, <1>b, <1>k, Marks DEF WrapperShape, Shaped
<1>3. CASE SourceEnds \/ SourceFails \/ SourceCut
  BY <1>3, <1>a, <1>b, <1>c, Marks, <1>k, SourceStopsEffect
     DEF Closes, Others, WrapperShape, Shaped
<1>4. CASE ConsumerNext
  <2>1. Kept(k) /\ UNCHANGED <<hit, pc, broken>>
    BY <1>4, <1>k, ConsumerNextEffect DEF Takes, Kept, Others
  <2> QED
    BY <2>1, <1>a, <1>b, <1>k, Marks DEF Kept, WrapperShape, Shaped
<1>5. CASE CallAgain
  <2>1. (Above(k)' <=> Above(k)) /\ (IsCache(k)' <=> IsCache(k))
    BY <1>a DEF IsCache, Above
  <2>2. (Idle(k)' <=> Above(k)) /\ (Replays(k)' <=> IsCache(k))
    BY <1>5, <2>1, CallAgainEffect DEF Idle, Replays
  <2> QED
    BY <1>5, <1>k, <2>2, CallAgainEffect DEF Shaped
<1>6. ASSUME NEW i \in 1 .. Consumer, NextUsage(i) PROVE Shaped(k)'
  BY <1>6, <1>a, <1>b, <1>c, Marks, <1>k, NextUsageEffect
     DEF Takes, Kept, Others, WrapperShape, Shaped
<1>7. ASSUME NEW i \in 1 .. Consumer, NextEnds(i) PROVE Shaped(k)'
  BY <1>7, <1>a, <1>b, <1>c, Marks, <1>k, NextEndsEffect
     DEF Goes, WrapperShape, Shaped
<1>8. ASSUME NEW i \in Stages, NextFrame(i) PROVE Shaped(k)'
  BY <1>8, <1>a, <1>b, <1>c, Marks, <1>k, NextFrameEffect
     DEF Takes, Kept, Others, Goes, WrapperShape, Shaped
<1>9. ASSUME NEW i \in Stages, AgentStarts(i) PROVE Shaped(k)'
  BY <1>9, <1>a, <1>b, <1>c, Marks, <1>k, AgentStartsEffect
     DEF Goes, Closes, Others, Breaking, WrapperShape, Shaped
<1>10. ASSUME NEW i \in Stages, Emits(i) PROVE Shaped(k)'
  BY <1>10, <1>a, <1>b, <1>c, Marks, <1>k, EmitsEffect
     DEF Puts, Kept, Others, Goes, WrapperShape, Shaped
<1>11. ASSUME NEW i \in Stages, EmitFails(i) PROVE Shaped(k)'
  BY <1>11, <1>a, <1>b, <1>c, Marks, <1>k, EmitFailsEffect
     DEF Goes, Closes, Others, WrapperShape, Shaped
<1>12. ASSUME NEW i \in Stages, EndsInError(i) PROVE Shaped(k)'
  BY <1>12, <1>a, <1>b, <1>c, Marks, <1>k, EndsInErrorEffect
     DEF Goes, Closes, Others, WrapperShape, Shaped
<1>13. ASSUME NEW i \in Stages, EndsClean(i) PROVE Shaped(k)'
  BY <1>13, <1>a, <1>b, <1>c, Marks, <1>k, EndsCleanEffect
     DEF Goes, Closes, Others, WrapperShape, Shaped
<1>14. ASSUME NEW i \in Stages, EmitsUsage(i) PROVE Shaped(k)'
  <2>1. CASE Puts(i, Total(usage[i]))
    BY <1>14, <2>1, <1>a, <1>b, <1>c, <1>k, Marks, EmitsUsageEffect
       DEF Goes, Puts, Kept, Others, WrapperShape, Shaped
  <2>2. CASE UNCHANGED str
    BY <1>14, <2>2, <1>a, <1>b, <1>c, <1>k, Marks, EmitsUsageEffect
       DEF Goes, WrapperShape, Shaped
  <2> QED
    BY <1>14, <2>1, <2>2, EmitsUsageEffect
<1>15. ASSUME NEW i \in Stages, Completes(i) PROVE Shaped(k)'
  BY <1>15, <1>a, <1>b, <1>c, Marks, <1>k, CompletesEffect
     DEF Goes, Closes, Others, Breaking, WrapperShape, Shaped
<1>16. ASSUME NEW i \in Stages, Replay(i) PROVE Shaped(k)'
  BY <1>16, <1>a, <1>b, <1>c, Marks, <1>k, ReplayEffect
     DEF Goes, Puts, Closes, Kept, Others, WrapperShape, Shaped
<1>17. ASSUME NEW i \in Stages, CallbackFails(i) PROVE Shaped(k)'
  <2>1. pc[i] # "done" /\ Breaking(i) /\ hit' = hit
    BY <1>17, CallbackFailsEffect
  <2>2. CASE k = i
    BY <2>1, <2>2, <1>a, <1>b, <1>k, Marks DEF Breaking, Closes, Goes, WrapperShape, Shaped
  <2>3. CASE k # i
    BY <2>1, <2>3, <1>a, <1>b, <1>k, Marks DEF Breaking, Closes, Others, Goes, WrapperShape, Shaped
  <2> QED
    BY <2>2, <2>3
<1>18. ASSUME NEW j \in 1 .. Consumer, Expire(j) PROVE Shaped(k)'
  BY <1>18, <1>a, <1>b, <1>c, Marks, <1>k
     DEF Expire, WrapperShape, Shaped
<1>19. CASE UNCHANGED vars
  BY <1>19, <1>a, <1>b, <1>c, Marks, <1>k
     DEF vars, WrapperShape, Shaped
<1> QED
  BY <1>1, <1>2, <1>3, <1>4, <1>5, <1>6, <1>7, <1>8, <1>9, <1>10, <1>11, <1>12, <1>13, <1>14,
     <1>15, <1>16, <1>17, <1>18, <1>19, NextCases

LEMMA StepIdleShape == TypeInv /\ Shape /\ [Next]_vars => IdleShape'
<1> SUFFICES ASSUME TypeInv, Shape, [Next]_vars PROVE IdleShape'
  OBVIOUS
<1>a. chain' = chain /\ N' = N /\ Stages' = Stages /\ Consumer' = Consumer
  BY Fixed
<1>b. WrapperShape /\ IdleShape /\ SourceShape
  BY DEF Shape
<1>c. /\ N \in Nat /\ N >= 1 /\ Stages = 1 .. N /\ Consumer = N + 1
      /\ \A k \in Stages : k \in 0 .. N /\ k \in 1 .. Consumer /\ k # Consumer /\ k - 1 \in 0 .. N
      /\ \A k \in 1 .. Consumer : k - 1 \in 0 .. N
      /\ Consumer \in 1 .. Consumer
  BY Places
<1> SUFFICES ASSUME NEW k \in 0 .. N PROVE (Idle(k) => str[k].buf = <<>> /\ ~str[k].closed)'
  BY <1>a DEF IdleShape
<1>k. k = 0 \/ (k \in Stages /\ k \in 1 .. Consumer /\ k # 0 /\ k # Consumer)
  BY <1>c
<1>1. CASE SourceReads
  BY <1>1, <1>a, <1>b, <1>c, Marks, <1>k, SourceReadsEffect
     DEF WrapperShape, Shaped, IdleShape
<1>2. CASE SourceEmits
  <2>1. Puts(0, held[0]) /\ UNCHANGED hit /\ gen.state = "emitting"
    BY <1>2, SourceEmitsEffect
  <2>2. CASE k = 0
    BY <2>1, <2>2, <1>a, <1>b, Marks DEF SourceShape, SourceDone
  <2>3. CASE k # 0
    <3>1. str'[k] = str[k]
      BY <2>1, <2>3 DEF Puts, Others
    <3> QED
      BY <2>1, <3>1, <1>a, <1>b, Marks DEF IdleShape
  <2> QED
    BY <2>2, <2>3
<1>3. CASE SourceEnds \/ SourceFails \/ SourceCut
  BY <1>3, <1>a, <1>b, <1>c, Marks, <1>k, SourceStopsEffect
     DEF Closes, Others, WrapperShape, Shaped, IdleShape, SourceShape, SourceDone
<1>4. CASE ConsumerNext
  BY <1>4, <1>a, <1>b, <1>c, Marks, <1>k, ConsumerNextEffect
     DEF Takes, Kept, Others, WrapperShape, Shaped, IdleShape
<1>5. CASE CallAgain
  BY <1>5, <1>a, <1>b, <1>c, Marks, <1>k, CallAgainEffect
     DEF WrapperShape, Shaped, IdleShape
<1>6. ASSUME NEW i \in 1 .. Consumer, NextUsage(i) PROVE (Idle(k) => str[k].buf = <<>> /\ ~str[k].closed)'
  BY <1>6, <1>a, <1>b, <1>c, Marks, <1>k, NextUsageEffect
     DEF Takes, Kept, Others, WrapperShape, Shaped, IdleShape
<1>7. ASSUME NEW i \in 1 .. Consumer, NextEnds(i) PROVE (Idle(k) => str[k].buf = <<>> /\ ~str[k].closed)'
  BY <1>7, <1>a, <1>b, <1>c, Marks, <1>k, NextEndsEffect
     DEF Goes, WrapperShape, Shaped, IdleShape
<1>8. ASSUME NEW i \in Stages, NextFrame(i) PROVE (Idle(k) => str[k].buf = <<>> /\ ~str[k].closed)'
  <2>1. Takes(i - 1) /\ str[i - 1].buf # <<>> /\ hit' = hit
    BY <1>8, NextFrameEffect
  <2> QED
    BY <2>1, <1>a, <1>b, <1>c, <1>k, Marks DEF Takes, Kept, Others, IdleShape
<1>9. ASSUME NEW i \in Stages, AgentStarts(i) PROVE (Idle(k) => str[k].buf = <<>> /\ ~str[k].closed)'
  BY <1>9, <1>a, <1>b, <1>c, Marks, <1>k, AgentStartsEffect
     DEF Goes, Closes, Others, Breaking, WrapperShape, Shaped, IdleShape
<1>10. ASSUME NEW i \in Stages, Emits(i) PROVE (Idle(k) => str[k].buf = <<>> /\ ~str[k].closed)'
  BY <1>10, <1>a, <1>b, <1>c, Marks, <1>k, EmitsEffect
     DEF Puts, Kept, Others, Goes, WrapperShape, Shaped, IdleShape
<1>11. ASSUME NEW i \in Stages, EmitFails(i) PROVE (Idle(k) => str[k].buf = <<>> /\ ~str[k].closed)'
  BY <1>11, <1>a, <1>b, <1>c, Marks, <1>k, EmitFailsEffect
     DEF Goes, Closes, Others, WrapperShape, Shaped, IdleShape
<1>12. ASSUME NEW i \in Stages, EndsInError(i) PROVE (Idle(k) => str[k].buf = <<>> /\ ~str[k].closed)'
  BY <1>12, <1>a, <1>b, <1>c, Marks, <1>k, EndsInErrorEffect
     DEF Goes, Closes, Others, WrapperShape, Shaped, IdleShape
<1>13. ASSUME NEW i \in Stages, EndsClean(i) PROVE (Idle(k) => str[k].buf = <<>> /\ ~str[k].closed)'
  BY <1>13, <1>a, <1>b, <1>c, Marks, <1>k, EndsCleanEffect
     DEF Goes, Closes, Others, WrapperShape, Shaped, IdleShape
<1>14. ASSUME NEW i \in Stages, EmitsUsage(i) PROVE (Idle(k) => str[k].buf = <<>> /\ ~str[k].closed)'
  <2>1. CASE Puts(i, Total(usage[i]))
    BY <1>14, <2>1, <1>a, <1>b, <1>c, <1>k, Marks, EmitsUsageEffect
       DEF Goes, Puts, Kept, Others, WrapperShape, Shaped, IdleShape
  <2>2. CASE UNCHANGED str
    BY <1>14, <2>2, <1>a, <1>b, <1>c, <1>k, Marks, EmitsUsageEffect
       DEF Goes, WrapperShape, Shaped, IdleShape
  <2> QED
    BY <1>14, <2>1, <2>2, EmitsUsageEffect
<1>15. ASSUME NEW i \in Stages, Completes(i) PROVE (Idle(k) => str[k].buf = <<>> /\ ~str[k].closed)'
  BY <1>15, <1>a, <1>b, <1>c, Marks, <1>k, CompletesEffect
     DEF Goes, Closes, Others, Breaking, WrapperShape, Shaped, IdleShape
<1>16. ASSUME NEW i \in Stages, Replay(i) PROVE (Idle(k) => str[k].buf = <<>> /\ ~str[k].closed)'
  BY <1>16, <1>a, <1>b, <1>c, Marks, <1>k, ReplayEffect
     DEF Goes, Puts, Closes, Kept, Others, WrapperShape, Shaped, IdleShape
<1>17. ASSUME NEW i \in Stages, CallbackFails(i) PROVE (Idle(k) => str[k].buf = <<>> /\ ~str[k].closed)'
  <2>1. Closes(i, "stage") /\ UNCHANGED hit /\ pc[i] # "done"
    BY <1>17, CallbackFailsEffect DEF Breaking
  <2>2. CASE k = i
    BY <2>1, <2>2, <1>a, <1>b, <1>k, Marks DEF WrapperShape, Shaped
  <2>3. CASE k # i
    <3>1. str'[k] = str[k]
      BY <2>1, <2>3 DEF Closes, Others
    <3> QED
      BY <2>1, <3>1, <1>a, <1>b, Marks DEF IdleShape
  <2> QED
    BY <2>2, <2>3
<1>18. ASSUME NEW j \in 1 .. Consumer, Expire(j) PROVE (Idle(k) => str[k].buf = <<>> /\ ~str[k].closed)'
  BY <1>18, <1>a, <1>b, <1>c, Marks, <1>k
     DEF Expire, WrapperShape, Shaped, IdleShape
<1>19. CASE UNCHANGED vars
  BY <1>19, <1>a, <1>b, <1>c, Marks, <1>k
     DEF vars, WrapperShape, Shaped, IdleShape
<1> QED
  BY <1>1, <1>2, <1>3, <1>4, <1>5, <1>6, <1>7, <1>8, <1>9, <1>10, <1>11, <1>12, <1>13, <1>14,
     <1>15, <1>16, <1>17, <1>18, <1>19, NextCases

LEMMA StepSourceShape == TypeInv /\ Shape /\ [Next]_vars => SourceShape'
<1> SUFFICES ASSUME TypeInv, Shape, [Next]_vars PROVE SourceShape'
  OBVIOUS
<1>a. chain' = chain /\ N' = N /\ Stages' = Stages /\ Consumer' = Consumer
  BY Fixed
<1>b. WrapperShape /\ SourceShape /\ EntryShape
  BY DEF TypeInv, Shape
<1>c. /\ N \in Nat /\ N >= 1 /\ Stages = 1 .. N /\ Consumer = N + 1
      /\ \A k \in Stages : k \in 0 .. N /\ k \in 1 .. Consumer /\ k # Consumer /\ k - 1 \in 0 .. N
      /\ \A k \in 1 .. Consumer : k - 1 \in 0 .. N
      /\ Consumer \in 1 .. Consumer
  BY Places
<1>1. CASE SourceReads
  BY <1>1, <1>a, <1>b, <1>c, Marks, SourceReadsEffect
     DEF SourceShape, SourceDone
<1>2. CASE SourceEmits
  BY <1>2, <1>a, <1>b, <1>c, Marks, SourceEmitsEffect
     DEF Puts, Kept, Others, SourceShape, SourceDone
<1>3. CASE SourceEnds \/ SourceFails \/ SourceCut
  BY <1>3, <1>a, <1>b, <1>c, Marks, SourceStopsEffect
     DEF Closes, Others, SourceShape, SourceDone
<1>4. CASE ConsumerNext
  BY <1>4, <1>a, <1>b, <1>c, Marks, ConsumerNextEffect
     DEF Takes, Kept, Others, SourceShape, SourceDone
<1>5. CASE CallAgain
  <2>1. (Above(0)' <=> Above(0)) /\ Above(0)
    <3>1. \E j \in Stages : IsCache(j)
      BY <1>5, <1>b, CallAgainEffect DEF EntryShape
    <3> QED
      BY <1>a, <1>c, <3>1 DEF IsCache, Above
  <2>2. gen'.state \in {"complete", "failed", "cut"}
    BY <1>5, <1>b, CallAgainEffect DEF EntryShape
  <2> QED
    BY <1>5, <2>1, <2>2, CallAgainEffect DEF Idle, SourceShape, SourceDone
<1>6. ASSUME NEW i \in 1 .. Consumer, NextUsage(i) PROVE SourceShape'
  BY <1>6, <1>a, <1>b, <1>c, Marks, NextUsageEffect
     DEF Takes, Kept, Others, SourceShape, SourceDone
<1>7. ASSUME NEW i \in 1 .. Consumer, NextEnds(i) PROVE SourceShape'
  BY <1>7, <1>a, <1>b, <1>c, Marks, NextEndsEffect
     DEF Goes, SourceShape, SourceDone
<1>8. ASSUME NEW i \in Stages, NextFrame(i) PROVE SourceShape'
  BY <1>8, <1>a, <1>b, <1>c, Marks, NextFrameEffect
     DEF Takes, Kept, Others, Goes, SourceShape, SourceDone
<1>9. ASSUME NEW i \in Stages, AgentStarts(i) PROVE SourceShape'
  BY <1>9, <1>a, <1>b, <1>c, Marks, AgentStartsEffect
     DEF Goes, Closes, Others, Breaking, SourceShape, SourceDone
<1>10. ASSUME NEW i \in Stages, Emits(i) PROVE SourceShape'
  BY <1>10, <1>a, <1>b, <1>c, Marks, EmitsEffect
     DEF Puts, Kept, Others, Goes, SourceShape, SourceDone
<1>11. ASSUME NEW i \in Stages, EmitFails(i) PROVE SourceShape'
  BY <1>11, <1>a, <1>b, <1>c, Marks, EmitFailsEffect
     DEF Goes, Closes, Others, SourceShape, SourceDone
<1>12. ASSUME NEW i \in Stages, EndsInError(i) PROVE SourceShape'
  BY <1>12, <1>a, <1>b, <1>c, Marks, EndsInErrorEffect
     DEF Goes, Closes, Others, SourceShape, SourceDone
<1>13. ASSUME NEW i \in Stages, EndsClean(i) PROVE SourceShape'
  BY <1>13, <1>a, <1>b, <1>c, Marks, EndsCleanEffect
     DEF Goes, Closes, Others, SourceShape, SourceDone
<1>14. ASSUME NEW i \in Stages, EmitsUsage(i) PROVE SourceShape'
  <2>1. CASE Puts(i, Total(usage[i]))
    BY <1>14, <2>1, <1>a, <1>b, <1>c, Marks, EmitsUsageEffect
       DEF Goes, Puts, Kept, Others, SourceShape, SourceDone
  <2>2. CASE UNCHANGED str
    BY <1>14, <2>2, <1>a, <1>b, <1>c, Marks, EmitsUsageEffect
       DEF Goes, SourceShape, SourceDone
  <2> QED
    BY <1>14, <2>1, <2>2, EmitsUsageEffect
<1>15. ASSUME NEW i \in Stages, Completes(i) PROVE SourceShape'
  BY <1>15, <1>a, <1>b, <1>c, Marks, CompletesEffect
     DEF Goes, Closes, Others, Breaking, SourceShape, SourceDone
<1>16. ASSUME NEW i \in Stages, Replay(i) PROVE SourceShape'
  BY <1>16, <1>a, <1>b, <1>c, Marks, ReplayEffect
     DEF Goes, Puts, Closes, Kept, Others, SourceShape, SourceDone
<1>17. ASSUME NEW i \in Stages, CallbackFails(i) PROVE SourceShape'
  <2>1. Closes(i, "stage") /\ UNCHANGED <<hit, gen>>
    BY <1>17, CallbackFailsEffect DEF Breaking
  <2> QED
    BY <2>1, <1>a, <1>b, <1>c, Marks DEF Closes, Others, SourceShape, SourceDone
<1>18. ASSUME NEW j \in 1 .. Consumer, Expire(j) PROVE SourceShape'
  BY <1>18, <1>a, <1>b, <1>c, Marks
     DEF Expire, SourceShape, SourceDone
<1>19. CASE UNCHANGED vars
  BY <1>19, <1>a, <1>b, <1>c, Marks
     DEF vars, SourceShape, SourceDone
<1> QED
  BY <1>1, <1>2, <1>3, <1>4, <1>5, <1>6, <1>7, <1>8, <1>9, <1>10, <1>11, <1>12, <1>13, <1>14,
     <1>15, <1>16, <1>17, <1>18, <1>19, NextCases

LEMMA StepEntryShape == TypeInv /\ Shape /\ [Next]_vars => EntryShape'
<1> SUFFICES ASSUME TypeInv, Shape, [Next]_vars PROVE EntryShape'
  OBVIOUS
<1>a. chain' = chain /\ N' = N /\ Stages' = Stages /\ Consumer' = Consumer
  BY Fixed
<1>b. SourceShape /\ EntryShape /\ CallType
  BY DEF TypeInv, TypeOK, Shape
<1>c. /\ N \in Nat /\ N >= 1 /\ Stages = 1 .. N /\ Consumer = N + 1
      /\ \A k \in Stages : k \in 0 .. N /\ k \in 1 .. Consumer /\ k # Consumer /\ k - 1 \in 0 .. N
      /\ \A k \in 1 .. Consumer : k - 1 \in 0 .. N
      /\ Consumer \in 1 .. Consumer
  BY Places
<1>1. CASE SourceReads
  BY <1>1, <1>a, <1>b, <1>c, Marks, SourceReadsEffect
     DEF EntryShape
<1>2. CASE SourceEmits
  BY <1>2, <1>a, <1>b, <1>c, Marks, SourceEmitsEffect
     DEF EntryShape
<1>3. CASE SourceEnds \/ SourceFails \/ SourceCut
  BY <1>3, <1>a, <1>b, <1>c, Marks, SourceStopsEffect
     DEF EntryShape
<1>4. CASE ConsumerNext
  BY <1>4, <1>a, <1>b, <1>c, Marks, ConsumerNextEffect
     DEF EntryShape
<1>5. CASE CallAgain
  <2>1. \E j \in Stages : IsCache(j)
    BY <1>5, <1>b, CallAgainEffect DEF EntryShape
  <2>2. \E j \in Stages' : IsCache(j)'
    BY <2>1, <1>a DEF IsCache
  <2> QED
    BY <1>5, <1>b, <2>2, CallAgainEffect DEF EntryShape
<1>6. ASSUME NEW i \in 1 .. Consumer, NextUsage(i) PROVE EntryShape'
  BY <1>6, <1>a, <1>b, <1>c, Marks, NextUsageEffect
     DEF EntryShape
<1>7. ASSUME NEW i \in 1 .. Consumer, NextEnds(i) PROVE EntryShape'
  BY <1>7, <1>a, <1>b, <1>c, Marks, NextEndsEffect
     DEF EntryShape
<1>8. ASSUME NEW i \in Stages, NextFrame(i) PROVE EntryShape'
  BY <1>8, <1>a, <1>b, <1>c, Marks, NextFrameEffect
     DEF EntryShape
<1>9. ASSUME NEW i \in Stages, AgentStarts(i) PROVE EntryShape'
  BY <1>9, <1>a, <1>b, <1>c, Marks, AgentStartsEffect
     DEF EntryShape
<1>10. ASSUME NEW i \in Stages, Emits(i) PROVE EntryShape'
  BY <1>10, <1>a, <1>b, <1>c, Marks, EmitsEffect
     DEF EntryShape
<1>11. ASSUME NEW i \in Stages, EmitFails(i) PROVE EntryShape'
  BY <1>11, <1>a, <1>b, <1>c, Marks, EmitFailsEffect
     DEF EntryShape
<1>12. ASSUME NEW i \in Stages, EndsInError(i) PROVE EntryShape'
  BY <1>12, <1>a, <1>b, <1>c, Marks, EndsInErrorEffect
     DEF EntryShape
<1>13. ASSUME NEW i \in Stages, EndsClean(i) PROVE EntryShape'
  BY <1>13, <1>a, <1>b, <1>c, Marks, EndsCleanEffect
     DEF EntryShape
<1>14. ASSUME NEW i \in Stages, EmitsUsage(i) PROVE EntryShape'
  BY <1>14, <1>a, <1>b, <1>c, Marks, EmitsUsageEffect
     DEF EntryShape
<1>15. ASSUME NEW i \in Stages, Completes(i) PROVE EntryShape'
  <2>1. CASE IsCache(i) /\ ~hit
    <3>1. entry'.of = Made
      BY <1>15, <2>1, CompletesEffect
    <3>2. Made.state \in {"complete", "failed", "cut"}
      BY <1>b, GenFields DEF Made, SourceDone, CallType, Generation
    <3>3. \E j \in Stages' : IsCache(j)'
      BY <2>1, <1>a DEF IsCache
    <3> QED
      BY <3>1, <3>2, <3>3 DEF EntryShape
  <2>2. CASE ~(IsCache(i) /\ ~hit)
    <3>1. (\E j \in Stages : IsCache(j)) => \E j \in Stages' : IsCache(j)'
      BY <1>a DEF IsCache
    <3> QED
      BY <1>15, <1>b, <2>2, <3>1, CompletesEffect DEF EntryShape
  <2> QED
    BY <2>1, <2>2
<1>16. ASSUME NEW i \in Stages, Replay(i) PROVE EntryShape'
  BY <1>16, <1>a, <1>b, <1>c, Marks, ReplayEffect
     DEF EntryShape
<1>17. ASSUME NEW i \in Stages, CallbackFails(i) PROVE EntryShape'
  BY <1>17, <1>a, <1>b, <1>c, Marks, CallbackFailsEffect
     DEF EntryShape
<1>18. ASSUME NEW j \in 1 .. Consumer, Expire(j) PROVE EntryShape'
  BY <1>18, <1>a, <1>b, <1>c, Marks
     DEF Expire, EntryShape
<1>19. CASE UNCHANGED vars
  BY <1>19, <1>a, <1>b, <1>c, Marks
     DEF vars, EntryShape
<1> QED
  BY <1>1, <1>2, <1>3, <1>4, <1>5, <1>6, <1>7, <1>8, <1>9, <1>10, <1>11, <1>12, <1>13, <1>14,
     <1>15, <1>16, <1>17, <1>18, <1>19, NextCases

LEMMA StepShape == TypeInv /\ Shape /\ [Next]_vars => Shape'
BY StepWrapperShape, StepIdleShape, StepSourceShape, StepEntryShape DEF Shape

LEMMA Writing ==
  ASSUME TypeInv, Shape
  PROVE  /\ \A k \in Stages : pc[k] # "done" => ~str[k].closed /\ ~broken[k] /\ ~Idle(k)
         /\ gen.state \in {"running", "emitting"} => ~str[0].closed /\ ~hit
<1>1. \A k \in Stages : pc[k] # "done" => ~str[k].closed /\ ~broken[k] /\ ~Idle(k)
  BY DEF Shape, WrapperShape, Shaped
<1>2. hit => Idle(0)
  BY Places DEF TypeInv, Entered, Shape, EntryShape, Idle, Above
<1> QED
  BY <1>1, <1>2 DEF Shape, SourceShape, SourceDone

(***************************************************************************)
(* A reader that has come to the end without an error has found its stream *)
(* closed, without an error, and has read all of it.                       *)
(***************************************************************************)
Past(i) == pc[i] \in {"ended", "usage", "last"} \/ (i = Consumer /\ pc[i] = "done")
Ended(i) ==
  ~Replays(i) =>
    /\ Past(i) /\ serr[i] = "nil" =>
         str[i - 1].closed /\ str[i - 1].buf = <<>> /\ str[i - 1].err = "nil"
    /\ pc[i] \in {"usage", "last"} => serr[i] = "nil"
Ends == \A i \in 1 .. Consumer : Ended(i)

LEMMA StepEnds == TypeInv /\ Shape /\ Ends /\ [Next]_vars => Ends'
<1> SUFFICES ASSUME TypeInv, Shape, Ends, [Next]_vars PROVE Ends'
  OBVIOUS
<1>a. chain' = chain /\ N' = N /\ Stages' = Stages /\ Consumer' = Consumer
  BY Fixed
<1>b. Ends /\ Posts
  BY DEF TypeInv, Shape
<1>c. /\ N \in Nat /\ N >= 1 /\ Stages = 1 .. N /\ Consumer = N + 1
      /\ \A k \in Stages : k \in 0 .. N /\ k \in 1 .. Consumer /\ k # Consumer /\ k - 1 \in 0 .. N
      /\ \A k \in 1 .. Consumer : k - 1 \in 0 .. N
      /\ Consumer \in 1 .. Consumer
  BY Places
<1>w. TypeInv /\ Shape
  OBVIOUS
<1> SUFFICES ASSUME NEW k \in 1 .. Consumer PROVE Ended(k)'
  BY <1>a DEF Ends
<1>k. k - 1 \in 0 .. N /\ (k - 1 = 0 \/ k - 1 \in Stages) /\ (k \in Stages \/ k = Consumer)
  BY <1>c
<1>1. CASE SourceReads
  BY <1>1, <1>a, <1>b, <1>c, <1>w, Writing, Marks, <1>k, SourceReadsEffect
     DEF Ends, Ended, Past
<1>2. CASE SourceEmits
  <2>1. ~str[0].closed /\ UNCHANGED <<hit, pc, serr>> /\ Others(0)
    BY <1>2, <1>w, Writing, SourceEmitsEffect DEF Puts
  <2> QED
    BY <2>1, <1>a, <1>b, <1>k, Marks DEF Others, Ends, Ended, Past
<1>3. CASE SourceEnds \/ SourceFails \/ SourceCut
  BY <1>3, <1>a, <1>b, <1>c, <1>w, Writing, Marks, <1>k, SourceStopsEffect
     DEF Closes, Others, Ends, Ended, Past
<1>4. CASE ConsumerNext
  BY <1>4, <1>a, <1>b, <1>c, <1>w, Writing, Marks, <1>k, ConsumerNextEffect
     DEF Takes, Kept, Others, Ends, Ended, Past
<1>5. CASE CallAgain
  <2>1. k = Consumer => ~Above(k)
    BY <1>c, <1>w, BelowCache
  <2>2. pc'[k] \in {"starting", "reading", "replay"} \/ (pc'[k] = "done" /\ k # Consumer)
    BY <1>5, <1>w, <1>k, <2>1, CallAgainEffect
  <2> QED
    BY <2>2, <1>a DEF Ended, Past
<1>6. ASSUME NEW i \in 1 .. Consumer, NextUsage(i) PROVE Ended(k)'
  BY <1>6, <1>a, <1>b, <1>c, <1>w, Writing, Marks, <1>k, NextUsageEffect
     DEF Takes, Kept, Others, Ends, Ended, Past
<1>7. ASSUME NEW i \in 1 .. Consumer, NextEnds(i) PROVE Ended(k)'
  <2>1. UNCHANGED <<hit, str>>
    BY <1>7, NextEndsEffect
  <2>2. CASE k = i
    BY <1>7, <2>1, <2>2, <1>a, <1>b, <1>c, <1>k, Marks, NextEndsEffect DEF Goes, Ended, Past
  <2>3. CASE k # i
    <3>1. pc'[k] = pc[k] /\ serr'[k] = serr[k]
      BY <1>7, <2>3, NextEndsEffect DEF Goes
    <3> QED
      BY <2>1, <3>1, <1>a, <1>b, <1>k, Marks DEF Ends, Ended, Past
  <2> QED
    BY <2>2, <2>3
<1>8. ASSUME NEW i \in Stages, NextFrame(i) PROVE Ended(k)'
  BY <1>8, <1>a, <1>b, <1>c, <1>w, Writing, Marks, <1>k, NextFrameEffect
     DEF Takes, Kept, Others, Goes, Ends, Ended, Past
<1>9. ASSUME NEW i \in Stages, AgentStarts(i) PROVE Ended(k)'
  BY <1>9, <1>a, <1>b, <1>c, <1>w, Writing, Marks, <1>k, AgentStartsEffect
     DEF Goes, Closes, Others, Breaking, Ends, Ended, Past
<1>10. ASSUME NEW i \in Stages, Emits(i) PROVE Ended(k)'
  <2>1. /\ pc[i] # "done" /\ UNCHANGED <<hit, serr>> /\ ~str[i].closed /\ Goes(i, "reading") /\ Others(i)
    BY <1>10, <1>w, Writing, EmitsEffect DEF Puts, Others
  <2>2. CASE k = i
    <3>1. str'[k - 1] = str[k - 1] /\ pc'[k] = "reading" /\ k # Consumer
      BY <2>1, <2>2, <1>c, <1>k DEF Others, Goes
    <3> QED
      BY <1>10, <2>1, <2>2, <3>1, <1>a, <1>b, <1>k, Marks DEF Ends, Ended, Past
  <2>3. CASE k # i
    <3>1. pc'[k] = pc[k] /\ (k - 1 # i => str'[k - 1] = str[k - 1])
      BY <2>1, <2>3, <1>k DEF Goes, Others
    <3> QED
      BY <2>1, <3>1, <1>a, <1>b, <1>k, Marks DEF Ends, Ended, Past
  <2> QED
    BY <2>2, <2>3
<1>11. ASSUME NEW i \in Stages, EmitFails(i) PROVE Ended(k)'
  BY <1>11, <1>a, <1>b, <1>c, <1>w, Writing, Marks, <1>k, EmitFailsEffect
     DEF Goes, Closes, Others, Ends, Ended, Past
<1>12. ASSUME NEW i \in Stages, EndsInError(i) PROVE Ended(k)'
  BY <1>12, <1>a, <1>b, <1>c, <1>w, Writing, Marks, <1>k, EndsInErrorEffect
     DEF Goes, Closes, Others, Ends, Ended, Past
<1>13. ASSUME NEW i \in Stages, EndsClean(i) PROVE Ended(k)'
  BY <1>13, <1>a, <1>b, <1>c, <1>w, Writing, Marks, <1>k, EndsCleanEffect
     DEF Goes, Closes, Others, Ends, Ended, Past
<1>14. ASSUME NEW i \in Stages, EmitsUsage(i) PROVE Ended(k)'
  <2>1. /\ pc[i] # "done" /\ UNCHANGED <<hit, serr>> /\ ~str[i].closed /\ Goes(i, "last") /\ Others(i)
    BY <1>14, <1>w, Writing, EmitsUsageEffect DEF Puts, Others
  <2>2. CASE k = i
    <3>1. str'[k - 1] = str[k - 1] /\ pc'[k] = "last" /\ k # Consumer
      BY <2>1, <2>2, <1>c, <1>k DEF Others, Goes
    <3> QED
      BY <1>14, <2>1, <2>2, <3>1, <1>a, <1>b, <1>k, Marks, EmitsUsageEffect DEF Ends, Ended, Past
  <2>3. CASE k # i
    <3>1. pc'[k] = pc[k] /\ (k - 1 # i => str'[k - 1] = str[k - 1])
      BY <2>1, <2>3, <1>k DEF Goes, Others
    <3> QED
      BY <2>1, <3>1, <1>a, <1>b, <1>k, Marks DEF Ends, Ended, Past
  <2> QED
    BY <2>2, <2>3
<1>15. ASSUME NEW i \in Stages, Completes(i) PROVE Ended(k)'
  BY <1>15, <1>a, <1>b, <1>c, <1>w, Writing, Marks, <1>k, CompletesEffect
     DEF Goes, Closes, Others, Breaking, Ends, Ended, Past
<1>16. ASSUME NEW i \in Stages, Replay(i) PROVE Ended(k)'
  <2>1. Replays(i) /\ pc[i] # "done" /\ UNCHANGED <<hit, serr>> /\ ~str[i].closed
    BY <1>16, <1>b, <1>w, Writing, ReplayEffect DEF Posts, Post, Replays
  <2>2. CASE k = i
    BY <2>1, <2>2, <1>a, Marks DEF Ended
  <2>3. CASE k # i
    <3>1. pc'[k] = pc[k] /\ (k - 1 # i => str'[k - 1] = str[k - 1])
      BY <1>16, <2>3, <1>k, ReplayEffect DEF Goes, Puts, Closes, Others
    <3> QED
      BY <2>1, <3>1, <1>a, <1>b, <1>k, Marks DEF Ends, Ended, Past
  <2> QED
    BY <2>2, <2>3
<1>17. ASSUME NEW i \in Stages, CallbackFails(i) PROVE Ended(k)'
  BY <1>17, <1>a, <1>b, <1>c, <1>w, Writing, Marks, <1>k, CallbackFailsEffect
     DEF Goes, Closes, Others, Breaking, Ends, Ended, Past
<1>18. ASSUME NEW j \in 1 .. Consumer, Expire(j) PROVE Ended(k)'
  BY <1>18, <1>a, <1>b, <1>c, <1>w, Writing, Marks, <1>k
     DEF Expire, Ends, Ended, Past
<1>19. CASE UNCHANGED vars
  BY <1>19, <1>a, <1>b, <1>c, <1>w, Writing, Marks, <1>k
     DEF vars, Ends, Ended, Past
<1> QED
  BY <1>1, <1>2, <1>3, <1>4, <1>5, <1>6, <1>7, <1>8, <1>9, <1>10, <1>11, <1>12, <1>13, <1>14,
     <1>15, <1>16, <1>17, <1>18, <1>19, NextCases

LEMMA StepTypeShape ==
  ASSUME TypeInv, Shape, Ends, [Next]_vars
  PROVE  TypeInv' /\ Shape' /\ Ends'
BY StepTypeInv, StepShape, StepEnds

LEMMA InitShapeEnds == Init => Shape /\ Ends
<1> SUFFICES ASSUME Init PROVE Shape /\ Ends
  OBVIOUS
<1>1. TypeInv
  BY InitTypeInv
<1>2. /\ ~hit /\ gen.state = "running" /\ ~entry.present
      /\ \A k \in 0 .. N : ~str[k].closed
      /\ \A k \in Stages : ~broken[k]
      /\ \A k \in 1 .. Consumer : pc[k] \in {"starting", "reading"}
  BY DEF Init, Fresh, NoEntry, Stream, Start
<1>3. Shape
  BY <1>1, <1>2, Places
     DEF Shape, WrapperShape, Shaped, IdleShape, SourceShape, EntryShape, SourceDone, Idle, Replays
<1>4. Ends
  BY <1>2 DEF Ends, Ended, Past
<1> QED
  BY <1>3, <1>4

(***************************************************************************)
(* Where the frames are.  Of the data frames that have been put into a     *)
(* stream, the first r have been read and the buffer has the others, up to *)
(* the w-th, in order, with usage frames anywhere between them.            *)
(***************************************************************************)
Window(b, r, w) ==
  /\ r <= w
  /\ \A p \in 1 .. Len(b) : b[p].kind = "data" => r < b[p].n /\ b[p].n <= w
  /\ \A p, q \in 1 .. Len(b) : p < q /\ b[p].kind = "data" /\ b[q].kind = "data" => b[p].n < b[q].n
  /\ \A k \in r + 1 .. w : \E p \in 1 .. Len(b) : b[p] = Data(k)

LEMMA WindowEmpty ==
  ASSUME NEW r \in Nat
  PROVE  /\ Window(<<>>, r, r)
         /\ \A w \in Nat : Window(<<>>, r, w) => w = r
<1>1. Len(<<>>) = 0
  OBVIOUS
<1>2. Window(<<>>, r, r)
  BY <1>1 DEF Window
<1>3. ASSUME NEW w \in Nat, Window(<<>>, r, w), w # r PROVE FALSE
  <2>1. r + 1 \in r + 1 .. w
    BY <1>3 DEF Window
  <2> QED
    BY <1>1, <1>3, <2>1 DEF Window
<1> QED
  BY <1>2, <1>3

LEMMA WindowAppend ==
  ASSUME NEW b \in Seq(RelayFrame), NEW r \in Nat, NEW w \in Nat, Window(b, r, w)
  PROVE  /\ Window(Append(b, Data(w + 1)), r, w + 1)
         /\ \A u \in Nat : Window(Append(b, Total(u)), r, w)
<1>1. ASSUME NEW x
      PROVE  /\ Len(Append(b, x)) = Len(b) + 1 /\ Len(b) \in Nat
             /\ \A p \in 1 .. Len(b) : Append(b, x)[p] = b[p]
             /\ Append(b, x)[Len(b) + 1] = x
  BY LenProperties
<1>2. Window(Append(b, Data(w + 1)), r, w + 1)
  <2> DEFINE c == Append(b, Data(w + 1))
  <2>1. /\ Len(c) = Len(b) + 1 /\ Len(b) \in Nat /\ c[Len(b) + 1] = Data(w + 1)
        /\ \A p \in 1 .. Len(b) : c[p] = b[p]
    BY <1>1
  <2>2. Data(w + 1).kind = "data" /\ Data(w + 1).n = w + 1
    BY DEF Data
  <2>6. \A p \in 1 .. Len(b) : b[p].n \in Nat
    <3>1. \A p \in 1 .. Len(b) : b[p] \in RelayFrame
      BY ElementOfSeq
    <3> QED
      BY <3>1 DEF RelayFrame
  <2> HIDE DEF c
  <2>3. \A p \in 1 .. Len(c) : c[p].kind = "data" => r < c[p].n /\ c[p].n <= w + 1
    BY <2>1, <2>2, <2>6 DEF Window
  <2>4. \A p, q \in 1 .. Len(c) : p < q /\ c[p].kind = "data" /\ c[q].kind = "data" => c[p].n < c[q].n
    <3> SUFFICES ASSUME NEW p \in 1 .. Len(c), NEW q \in 1 .. Len(c),
                        p < q, c[p].kind = "data", c[q].kind = "data"
                 PROVE  c[p].n < c[q].n
      OBVIOUS
    <3>1. p \in 1 .. Len(b) /\ c[p] = b[p] /\ b[p].n <= w /\ b[p].n \in Nat
      BY <2>1, <2>6 DEF Window
    <3>2. CASE q = Len(b) + 1
      BY <2>1, <2>2, <3>1, <3>2
    <3>3. CASE q # Len(b) + 1
      <4>1. q \in 1 .. Len(b) /\ c[q] = b[q]
        BY <2>1, <3>3
      <4> QED
        BY <3>1, <4>1 DEF Window
    <3> QED
      BY <3>2, <3>3
  <2>5. \A k \in r + 1 .. w + 1 : \E p \in 1 .. Len(c) : c[p] = Data(k)
    <3> SUFFICES ASSUME NEW k \in r + 1 .. w + 1 PROVE \E p \in 1 .. Len(c) : c[p] = Data(k)
      OBVIOUS
    <3>1. CASE k = w + 1
      <4>1. Len(b) + 1 \in 1 .. Len(c)
        BY <2>1
      <4> QED
        BY <2>1, <3>1, <4>1
    <3>2. CASE k # w + 1
      <4>1. PICK p \in 1 .. Len(b) : b[p] = Data(k)
        BY <3>2 DEF Window
      <4> QED
        BY <2>1, <4>1
    <3> QED
      BY <3>1, <3>2
  <2> QED
    BY <2>3, <2>4, <2>5 DEF Window, c
<1>3. ASSUME NEW u \in Nat PROVE Window(Append(b, Total(u)), r, w)
  <2> DEFINE c == Append(b, Total(u))
  <2>1. /\ Len(c) = Len(b) + 1 /\ Len(b) \in Nat /\ c[Len(b) + 1] = Total(u)
        /\ \A p \in 1 .. Len(b) : c[p] = b[p]
    BY <1>1
  <2>2. Total(u).kind # "data"
    BY DEF Total
  <2> HIDE DEF c
  <2>3. \A p \in 1 .. Len(c) : p \in 1 .. Len(b) \/ c[p].kind # "data"
    BY <2>1, <2>2
  <2>4. \A k \in r + 1 .. w : \E p \in 1 .. Len(c) : c[p] = Data(k)
    BY <2>1 DEF Window
  <2> QED
    BY <2>1, <2>3, <2>4 DEF Window, c
<1> QED
  BY <1>2, <1>3

LEMMA WindowTail ==
  ASSUME NEW b \in Seq(RelayFrame), b # <<>>, NEW r \in Nat, NEW w \in Nat, Window(b, r, w)
  PROVE  /\ Head(b).kind = "data" => Head(b) = Data(r + 1) /\ Window(Tail(b), r + 1, w)
         /\ Head(b).kind = "usage" => Window(Tail(b), r, w)
<1>1. /\ Head(b) = b[1] /\ Len(Tail(b)) = Len(b) - 1 /\ Len(b) \in Nat \ {0}
      /\ \A p \in 1 .. Len(b) - 1 : Tail(b)[p] = b[p + 1]
      /\ \A p \in 1 .. Len(b) : b[p] \in RelayFrame
  BY HeadTailProperties, LenProperties, ElementOfSeq
<1>2. /\ 1 \in 1 .. Len(b) /\ \A p \in 1 .. Len(Tail(b)) : p + 1 \in 1 .. Len(b) /\ Tail(b)[p] = b[p + 1]
      /\ \A p \in 1 .. Len(b) : p # 1 => p - 1 \in 1 .. Len(Tail(b)) /\ Tail(b)[p - 1] = b[p]
  BY <1>1
<1>3. \A p \in 1 .. Len(b) : b[p].n \in Nat
  BY <1>1 DEF RelayFrame
<1>4. \A k : Data(k).kind = "data" /\ Data(k).n = k
  BY DEF Data
<1>5. CASE b[1].kind = "data"
  <2>1. r < b[1].n /\ b[1].n <= w
    BY <1>2, <1>5 DEF Window
  <2>2. b[1] = Data(r + 1)
    <3>1. r + 1 \in r + 1 .. w
      BY <1>2, <1>3, <2>1
    <3>2. PICK p \in 1 .. Len(b) : b[p] = Data(r + 1)
      BY <3>1 DEF Window
    <3>3. p # 1 => b[1].n < b[p].n
      BY <1>2, <1>4, <1>5, <3>2 DEF Window
    <3> QED
      BY <1>2, <1>3, <1>4, <2>1, <3>2, <3>3
  <2>3. \A p \in 1 .. Len(Tail(b)) : Tail(b)[p].kind = "data" => r + 1 < Tail(b)[p].n /\ Tail(b)[p].n <= w
    <3> SUFFICES ASSUME NEW p \in 1 .. Len(Tail(b)), Tail(b)[p].kind = "data"
                 PROVE  r + 1 < Tail(b)[p].n /\ Tail(b)[p].n <= w
      OBVIOUS
    <3>1. Tail(b)[p] = b[p + 1] /\ p + 1 \in 1 .. Len(b) /\ 1 < p + 1
      BY <1>2
    <3>2. b[1].n < b[p + 1].n /\ b[p + 1].n <= w
      BY <1>2, <1>5, <3>1 DEF Window
    <3> QED
      BY <1>4, <2>2, <3>1, <3>2
  <2>4. \A k \in r + 2 .. w : \E p \in 1 .. Len(Tail(b)) : Tail(b)[p] = Data(k)
    <3> SUFFICES ASSUME NEW k \in r + 2 .. w PROVE \E p \in 1 .. Len(Tail(b)) : Tail(b)[p] = Data(k)
      OBVIOUS
    <3>1. PICK p \in 1 .. Len(b) : b[p] = Data(k)
      BY DEF Window
    <3>2. p # 1
      BY <1>4, <2>2, <3>1
    <3> QED
      BY <1>2, <3>1, <3>2
  <2>5. \A p, q \in 1 .. Len(Tail(b)) :
          p < q /\ Tail(b)[p].kind = "data" /\ Tail(b)[q].kind = "data" => Tail(b)[p].n < Tail(b)[q].n
    BY <1>2 DEF Window
  <2>6. r + 1 <= w /\ (r + 1) + 1 = r + 2
    BY <2>1, <1>3, <1>2
  <2> QED
    BY <1>1, <1>5, <2>2, <2>3, <2>4, <2>5, <2>6 DEF Window
<1>6. CASE b[1].kind = "usage"
  <2>1. \A k \in r + 1 .. w : \E p \in 1 .. Len(Tail(b)) : Tail(b)[p] = Data(k)
    <3> SUFFICES ASSUME NEW k \in r + 1 .. w PROVE \E p \in 1 .. Len(Tail(b)) : Tail(b)[p] = Data(k)
      OBVIOUS
    <3>1. PICK p \in 1 .. Len(b) : b[p] = Data(k)
      BY DEF Window
    <3>2. p # 1
      BY <1>4, <1>6, <3>1
    <3> QED
      BY <1>2, <3>1, <3>2
  <2>2. \A p, q \in 1 .. Len(Tail(b)) :
          p < q /\ Tail(b)[p].kind = "data" /\ Tail(b)[q].kind = "data" => Tail(b)[p].n < Tail(b)[q].n
    BY <1>2 DEF Window
  <2> QED
    BY <1>1, <1>2, <1>6, <2>1, <2>2 DEF Window
<1> QED
  BY <1>1, <1>2, <1>5, <1>6 DEF RelayFrame

\* The n-th frame is the n-th data frame of the generation.
Numbers(s) == \A p \in 1 .. Len(s) : s[p] = Data(p)

LEMMA NumbersAppend ==
  ASSUME NEW s \in Seq(RelayFrame), Numbers(s)
  PROVE  Numbers(Append(s, Data(Len(s) + 1)))
<1>1. /\ Len(Append(s, Data(Len(s) + 1))) = Len(s) + 1 /\ Len(s) \in Nat
      /\ \A p \in 1 .. Len(s) : Append(s, Data(Len(s) + 1))[p] = s[p]
      /\ Append(s, Data(Len(s) + 1))[Len(s) + 1] = Data(Len(s) + 1)
  BY LenProperties
<1> QED
  BY <1>1 DEF Numbers

LEMMA Typed ==
  ASSUME TypeInv
  PROVE  /\ gen.frames \in Seq(RelayFrame) /\ Len(gen.frames) \in Nat
         /\ received \in Seq(RelayFrame) /\ Len(received) \in Nat
         /\ stored \in Seq(RelayFrame) /\ Len(stored) \in Nat
         /\ entry.present => entry.frames \in Seq(RelayFrame) /\ Len(entry.frames) \in Nat
         /\ \A k \in 0 .. N : str[k].buf \in Seq(RelayFrame)
<1>1. gen.frames \in Seq(RelayFrame) /\ received \in Seq(RelayFrame) /\ stored \in Seq(RelayFrame)
  BY GenFields DEF TypeInv, TypeOK, ToldType, CacheType
<1>2. entry.present => entry.frames \in Seq(RelayFrame)
  BY EntryFields DEF TypeInv, TypeOK, Entry
<1>3. \A k \in 0 .. N : str[k].buf \in Seq(RelayFrame)
  BY StrFacts DEF TypeInv, TypeOK
<1> QED
  BY <1>1, <1>2, <1>3, LenProperties

EntryNumbered ==
  /\ Numbers(entry.frames) /\ Numbers(entry.of.frames)
  /\ Len(entry.frames) <= Len(entry.of.frames)
  /\ entry.calm => entry.of.state = "complete" /\ Len(entry.frames) = Len(entry.of.frames)
Numbered ==
  /\ Numbers(gen.frames) /\ Numbers(received)
  /\ ~hit => Numbers(stored)
  /\ hit => gen = entry.of
  /\ entry.present => EntryNumbered

\* How many data frames reader i has read, if w says how many each writer put.
ReadBy(i, w) ==
  IF i = Consumer THEN Len(received) ELSE IF pc[i] = "held" THEN w[i] + 1 ELSE w[i]
Reads(i) == i = Consumer \/ (pc[i] # "done" /\ ~Replays(i))

WindowAt(i, w) == Reads(i) => Window(str[i - 1].buf, ReadBy(i, w), w[i - 1])

\* What a wrapper has in its hands, the cache in its store, a replay left to do.
StageAt(i, w) ==
  /\ pc[i] = "held" => held[i] = Data(w[i] + 1)
  /\ IsCache(i) /\ ~hit /\ pc[i] # "done" => Len(stored) = ReadBy(i, w)
  /\ Replays(i) /\ pc[i] = "replay" =>
       w[i] + Len(stored) = Len(entry.frames) /\ \A p \in 1 .. Len(stored) : stored[p] = Data(w[i] + p)
  /\ Replays(i) /\ pc[i] \in {"usage", "last"} => w[i] = Len(entry.frames)

\* What the provider's goroutine has produced and put.
Producing(w) ==
  /\ gen.state = "running" => w[0] = Len(gen.frames)
  /\ gen.state = "emitting" =>
       /\ held[0].kind = "usage" => w[0] = Len(gen.frames)
       /\ held[0].kind = "data" => held[0] = Data(w[0] + 1) /\ Len(gen.frames) = w[0] + 1

\* No timeout above has ended, which would cancel what it covers.
Uncut(i) == \A j \in Stages : j > i /\ chain[j] = "timeout" => pc[j] # "done"
ClosedClean(i) == Undisturbed /\ Uncut(i) /\ str[i].closed /\ str[i].err = "nil"
Clean(i, w) ==
  /\ gen.state = "complete" /\ w[i] = Len(gen.frames)
  /\ \A j \in 1 .. i : pc[j] = "done" /\ ~broken[j]

\* A stream that was closed without an error, with no context ended, has carried
\* the whole response, and everything below it has returned without failing.
WholeAt(i, w) == ClosedClean(i) => Clean(i, w)

Flow(w) ==
  /\ \A i \in 0 .. N : w[i] <= Len(gen.frames)
  /\ \A i \in 1 .. Consumer : WindowAt(i, w)
  /\ \A i \in Stages : StageAt(i, w)
  /\ Producing(w)
  /\ \A i \in 0 .. N : WholeAt(i, w)

Counts == [0 .. N -> Nat]

(***************************************************************************)
(* Readers and streams that a step leaves as they are.                     *)
(***************************************************************************)
Continues(k, w, x) == Reads(k)' => Reads(k) /\ ReadBy(k, x)' = ReadBy(k, w)

LEMMA Continued ==
  ASSUME TypeInv, [Next]_vars, hit' = hit, NEW w, NEW x, NEW k \in 1 .. Consumer,
         k = Consumer => received' = received,
         k # Consumer => \/ x[k] = w[k] /\ pc'[k] = pc[k]
                         \/ x[k] = w[k] /\ pc[k] \notin {"held", "done"} /\ pc'[k] # "held"
                         \/ x[k] = w[k] + 1 /\ pc[k] = "held" /\ pc'[k] # "held"
                         \/ pc'[k] = "done"
  PROVE  Continues(k, w, x)
<1>1. Consumer' = Consumer /\ (Replays(k)' <=> Replays(k))
  BY Fixed, Marks
<1> QED
  BY <1>1 DEF Continues, Reads, ReadBy

LEMMA Windowed ==
  ASSUME TypeInv, [Next]_vars, NEW w \in Counts, NEW x, NEW k \in 1 .. Consumer, Continues(k, w, x),
         WindowAt(k, w),
         LET b == str[k - 1].buf
             c == str'[k - 1].buf
         IN  \/ c = b /\ x[k - 1] = w[k - 1]
             \/ c = Append(b, Data(w[k - 1] + 1)) /\ x[k - 1] = w[k - 1] + 1
             \/ \E u \in Nat : c = Append(b, Total(u)) /\ x[k - 1] = w[k - 1]
             \/ b # <<>> /\ Head(b).kind = "usage" /\ c = Tail(b) /\ x[k - 1] = w[k - 1]
  PROVE  WindowAt(k, x)'
<1>1. SUFFICES ASSUME Reads(k)' PROVE Window(str'[k - 1].buf, ReadBy(k, x)', x[k - 1])
  BY Fixed DEF WindowAt
<1>2. /\ Window(str[k - 1].buf, ReadBy(k, w), w[k - 1]) /\ ReadBy(k, x)' = ReadBy(k, w)
      /\ str[k - 1].buf \in Seq(RelayFrame) /\ w[k - 1] \in Nat /\ ReadBy(k, w) \in Nat
  <2>1. k - 1 \in 0 .. N /\ Len(received) \in Nat
    BY Places, Typed
  <2>2. k # Consumer => w[k] \in Nat
    <3>1. k # Consumer => k \in 0 .. N
      BY Places
    <3> QED
      BY <3>1 DEF Counts
  <2>3. ReadBy(k, w) \in Nat
    BY <2>1, <2>2 DEF ReadBy
  <2> QED
    BY <1>1, <2>1, <2>3, Typed DEF Continues, WindowAt, Counts
<1> DEFINE b == str[k - 1].buf
           c == str'[k - 1].buf
           r == ReadBy(k, w)
           n == w[k - 1]
<1>3. \/ c = b /\ x[k - 1] = n
      \/ c = Append(b, Data(n + 1)) /\ x[k - 1] = n + 1
      \/ \E u \in Nat : c = Append(b, Total(u)) /\ x[k - 1] = n
      \/ b # <<>> /\ Head(b).kind = "usage" /\ c = Tail(b) /\ x[k - 1] = n
  OBVIOUS
<1>4. Window(b, r, n) /\ ReadBy(k, x)' = r /\ b \in Seq(RelayFrame) /\ n \in Nat /\ r \in Nat
  BY <1>2
<1> HIDE DEF b, r, n
<1>5. Window(c, r, x[k - 1])
  <2> HIDE DEF c
  <2> QED
    BY <1>3, <1>4, WindowAppend, WindowTail
<1> QED
  BY <1>4, <1>5

LEMMA OneCache ==
  ASSUME TypeInv, NEW i \in Stages, NEW k \in Stages, IsCache(i), IsCache(k)
  PROVE  i = k
<1>1. i \in Nat /\ k \in Nat /\ i >= 1 /\ k >= 1
  BY Places
<1>2. /\ \A j \in 1 .. i - 1 : chain[j] = "timeout"
      /\ \A j \in 1 .. k - 1 : chain[j] = "timeout"
      /\ chain[i] = "cache" /\ chain[k] = "cache"
  BY ChainFacts DEF TypeInv, TypeOK, IsCache
<1>3. ~(k \in 1 .. i - 1) /\ ~(i \in 1 .. k - 1)
  BY <1>2
<1> QED
  BY <1>1, <1>3

LEMMA Staged ==
  ASSUME TypeInv, [Next]_vars, hit' = hit, NEW w, NEW x, NEW k \in Stages,
         StageAt(k, w), x[k] = w[k],
         IsCache(k) => stored' = stored, Replays(k) => entry' = entry,
         \/ pc'[k] = pc[k] /\ held'[k] = held[k]
         \/ pc[k] \notin {"held", "done"} /\ pc'[k] \notin {"held", "replay"} /\ ~Replays(k)
         \/ pc[k] \in {"usage", "last"} /\ pc'[k] \in {"usage", "last"}
         \/ pc'[k] = "done"
  PROVE  StageAt(k, x)'
<1>1. Consumer' = Consumer /\ (IsCache(k)' <=> IsCache(k)) /\ (Replays(k)' <=> Replays(k)) /\ k # Consumer
  BY Fixed, Marks, Places
<1>2. Replays(k) => IsCache(k)
  BY DEF Replays
<1> QED
  BY <1>1, <1>2 DEF StageAt, ReadBy

\* A call that goes on keeps what it has come to.
Steady ==
  /\ hit' = hit /\ (hit => entry' = entry) /\ (expired' = {} => expired = {})
  /\ gen.state = "complete" => gen' = gen
  /\ \A j \in Stages : pc[j] = "done" => pc'[j] = "done" /\ (broken'[j] <=> broken[j])

LEMMA Whole ==
  ASSUME TypeInv, [Next]_vars, Steady, NEW w, NEW x, NEW k \in 0 .. N, WholeAt(k, w), x[k] = w[k],
         str'[k].closed /\ str'[k].err = "nil" => str[k].closed /\ str[k].err = "nil"
  PROVE  WholeAt(k, x)'
<1>1. SUFFICES ASSUME ClosedClean(k)' PROVE Clean(k, x)'
  BY DEF WholeAt
<1>2. ClosedClean(k)
  BY <1>1, Fixed DEF ClosedClean, Undisturbed, Uncut, Steady
<1>3. \A j \in 1 .. k : j \in Stages
  BY Places
<1> QED
  BY <1>2, <1>3 DEF WholeAt, Clean, Steady

LEMMA Steadies ==
  ASSUME TypeInv, Shape, [Next]_vars
  PROVE  Steady \/ CallAgain
<1>a. chain' = chain /\ N' = N /\ Stages' = Stages /\ Consumer' = Consumer
  BY Fixed
<1>b. TypeInv /\ Shape
  OBVIOUS
<1>c. /\ N \in Nat /\ N >= 1 /\ Stages = 1 .. N /\ Consumer = N + 1
      /\ \A k \in Stages : k \in 0 .. N /\ k \in 1 .. Consumer /\ k # Consumer /\ k - 1 \in 0 .. N
      /\ \A k \in 1 .. Consumer : k - 1 \in 0 .. N
      /\ Consumer \in 1 .. Consumer
  BY Places
<1>1. CASE SourceReads
  BY <1>1, <1>a, <1>b, <1>c, SourceReadsEffect
     DEF Steady
<1>2. CASE SourceEmits
  BY <1>2, <1>a, <1>b, <1>c, SourceEmitsEffect
     DEF Puts, Kept, Others, Steady
<1>3. CASE SourceEnds \/ SourceFails \/ SourceCut
  BY <1>3, <1>a, <1>b, <1>c, SourceStopsEffect
     DEF Closes, Others, Steady
<1>4. CASE ConsumerNext
  BY <1>4, <1>a, <1>b, <1>c, ConsumerNextEffect
     DEF Takes, Kept, Others, Steady
<1>5. CASE CallAgain
  BY <1>5
<1>6. ASSUME NEW i \in 1 .. Consumer, NextUsage(i) PROVE Steady \/ CallAgain
  BY <1>6, <1>a, <1>b, <1>c, NextUsageEffect
     DEF Takes, Kept, Others, Steady
<1>7. ASSUME NEW i \in 1 .. Consumer, NextEnds(i) PROVE Steady \/ CallAgain
  BY <1>7, <1>a, <1>b, <1>c, NextEndsEffect
     DEF Goes, Steady
<1>8. ASSUME NEW i \in Stages, NextFrame(i) PROVE Steady \/ CallAgain
  BY <1>8, <1>a, <1>b, <1>c, NextFrameEffect
     DEF Takes, Kept, Others, Goes, Steady
<1>9. ASSUME NEW i \in Stages, AgentStarts(i) PROVE Steady \/ CallAgain
  BY <1>9, <1>a, <1>b, <1>c, AgentStartsEffect
     DEF Goes, Closes, Others, Breaking, Steady
<1>10. ASSUME NEW i \in Stages, Emits(i) PROVE Steady \/ CallAgain
  BY <1>10, <1>a, <1>b, <1>c, EmitsEffect
     DEF Puts, Kept, Others, Goes, Steady
<1>11. ASSUME NEW i \in Stages, EmitFails(i) PROVE Steady \/ CallAgain
  BY <1>11, <1>a, <1>b, <1>c, EmitFailsEffect
     DEF Goes, Closes, Others, Steady
<1>12. ASSUME NEW i \in Stages, EndsInError(i) PROVE Steady \/ CallAgain
  BY <1>12, <1>a, <1>b, <1>c, EndsInErrorEffect
     DEF Goes, Closes, Others, Steady
<1>13. ASSUME NEW i \in Stages, EndsClean(i) PROVE Steady \/ CallAgain
  BY <1>13, <1>a, <1>b, <1>c, EndsCleanEffect
     DEF Goes, Closes, Others, Steady
<1>14. ASSUME NEW i \in Stages, EmitsUsage(i) PROVE Steady \/ CallAgain
  <2>1. CASE Puts(i, Total(usage[i]))
    BY <1>14, <2>1, <1>a, <1>b, <1>c, EmitsUsageEffect
       DEF Goes, Puts, Kept, Others, Steady
  <2>2. CASE UNCHANGED str
    BY <1>14, <2>2, <1>a, <1>b, <1>c, EmitsUsageEffect
       DEF Goes, Steady
  <2> QED
    BY <1>14, <2>1, <2>2, EmitsUsageEffect
<1>15. ASSUME NEW i \in Stages, Completes(i) PROVE Steady \/ CallAgain
  BY <1>15, <1>a, <1>b, <1>c, CompletesEffect
     DEF Goes, Closes, Others, Breaking, Steady
<1>16. ASSUME NEW i \in Stages, Replay(i) PROVE Steady \/ CallAgain
  BY <1>16, <1>a, <1>b, <1>c, ReplayEffect
     DEF Goes, Puts, Closes, Kept, Others, Steady
<1>17. ASSUME NEW i \in Stages, CallbackFails(i) PROVE Steady \/ CallAgain
  BY <1>17, <1>a, <1>b, <1>c, CallbackFailsEffect
     DEF Goes, Closes, Others, Breaking, Steady
<1>18. ASSUME NEW j \in 1 .. Consumer, Expire(j) PROVE Steady \/ CallAgain
  BY <1>18, <1>a, <1>b, <1>c
     DEF Expire, Steady
<1>19. CASE UNCHANGED vars
  BY <1>19, <1>a, <1>b, <1>c
     DEF vars, Steady
<1> QED
  BY <1>1, <1>2, <1>3, <1>4, <1>5, <1>6, <1>7, <1>8, <1>9, <1>10, <1>11, <1>12, <1>13, <1>14,
     <1>15, <1>16, <1>17, <1>18, <1>19, NextCases

LEMMA NotCut ==
  ASSUME TypeInv, NEW k \in 0 .. N, expired = {}, Uncut(k),
         k \in Stages => chain[k] # "processor" /\ (chain[k] = "timeout" => pc[k] # "done")
  PROVE  ~CtxDone(k)
<1>1. \A j \in Stages : j \in Nat
  BY Places
<1> QED
  BY <1>1 DEF CtxDone, Uncut

\* A reader at its end, without an error, has read the whole response.
LEMMA AtEnd ==
  ASSUME TypeInv, Ends, NEW w \in Counts, Flow(w), NEW i \in 1 .. Consumer, ~Replays(i), Past(i),
         serr[i] = "nil", Undisturbed, Uncut(i - 1)
  PROVE  /\ ClosedClean(i - 1) /\ Clean(i - 1, w) /\ str[i - 1].buf = <<>>
         /\ ReadBy(i, w) = Len(gen.frames)
<1>1. i - 1 \in 0 .. N /\ (i # Consumer => i \in 0 .. N) /\ Len(received) \in Nat
  BY Places, Typed
<1>2. str[i - 1].closed /\ str[i - 1].buf = <<>> /\ str[i - 1].err = "nil"
  BY DEF Ends, Ended
<1>3. ClosedClean(i - 1) /\ Clean(i - 1, w)
  BY <1>1, <1>2 DEF ClosedClean, Flow, WholeAt
<1>4. Reads(i)
  BY DEF Reads, Past
<1>5. Window(<<>>, ReadBy(i, w), w[i - 1])
  BY <1>2, <1>4 DEF Flow, WindowAt
<1>6. w[i - 1] \in Nat /\ ReadBy(i, w) \in Nat
  BY <1>1 DEF Counts, ReadBy
<1>7. w[i - 1] = ReadBy(i, w)
  BY <1>5, <1>6, WindowEmpty
<1> QED
  BY <1>2, <1>3, <1>7 DEF Clean

(***************************************************************************)
(* Steps that put and read no data frame.                                  *)
(***************************************************************************)
Moves(k) ==
  \/ pc'[k] = pc[k]
  \/ pc[k] \notin {"held", "done"} /\ pc'[k] \notin {"held", "replay"} /\ ~Replays(k)
  \/ pc[k] \in {"usage", "last"} /\ pc'[k] \in {"usage", "last"}
  \/ pc'[k] = "done"

Keeps(k) ==
  \/ str'[k].buf = str[k].buf
  \/ \E u \in Nat : str'[k].buf = Append(str[k].buf, Total(u))
  \/ str[k].buf # <<>> /\ Head(str[k].buf).kind = "usage" /\ str'[k].buf = Tail(str[k].buf)

LEMMA FlowBy ==
  ASSUME [Next]_vars, NEW x,
         \A k \in 0 .. N : x[k] <= Len(gen'.frames),
         \A k \in 1 .. Consumer : WindowAt(k, x)',
         \A k \in Stages : StageAt(k, x)',
         Producing(x)',
         \A k \in 0 .. N : WholeAt(k, x)'
  PROVE  Flow(x)'
BY Fixed DEF Flow

LEMMA QuietFlow ==
  ASSUME TypeInv, [Next]_vars, Steady, NEW w \in Counts, Flow(w),
         gen' = gen, held' = held, received' = received, stored' = stored,
         \A k \in Stages : Moves(k),
         \A k \in 0 .. N : Keeps(k),
         \A k \in 0 .. N : str'[k].closed /\ str'[k].err = "nil" =>
                             (str[k].closed /\ str[k].err = "nil") \/ WholeAt(k, w)'
  PROVE  Flow(w)'
<1>1. ASSUME NEW k \in 1 .. Consumer PROVE WindowAt(k, w)'
  <2>1. k - 1 \in 0 .. N /\ (k = Consumer \/ k \in Stages)
    BY Places
  <2>2. Continues(k, w, w)
    <3>1. hit' = hit
      BY DEF Steady
    <3>2. k # Consumer => Moves(k)
      BY <2>1
    <3> QED
      BY <3>1, <3>2, Continued DEF Moves
  <2>3. WindowAt(k, w) /\ Keeps(k - 1)
    BY <2>1 DEF Flow
  <2> QED
    BY <2>2, <2>3, Windowed DEF Keeps
<1>2. ASSUME NEW k \in Stages PROVE StageAt(k, w)'
  <2>1. StageAt(k, w) /\ Moves(k) /\ hit' = hit /\ (Replays(k) => entry' = entry) /\ held'[k] = held[k]
    BY DEF Flow, Steady, Replays
  <2> QED
    BY <2>1, Staged DEF Moves
<1>3. Producing(w)'
  BY DEF Flow, Producing
<1>4. ASSUME NEW k \in 0 .. N PROVE WholeAt(k, w)'
  BY Whole DEF Flow
<1>5. \A k \in 0 .. N : w[k] <= Len(gen'.frames)
  BY DEF Flow
<1> QED
  BY <1>1, <1>2, <1>3, <1>4, <1>5, FlowBy

LEMMA QuietNumbers ==
  ASSUME Numbered, hit' = hit, gen' = gen, received' = received, stored' = stored, entry' = entry
  PROVE  Numbered'
BY DEF Numbered, EntryNumbered

LEMMA NoReplay ==
  ASSUME TypeInv, Shape
  PROVE  \A k \in Stages : pc[k] \in {"starting", "reading", "held", "ended"} => ~Replays(k)
BY DEF Shape, WrapperShape, Shaped

LEMMA NextUsageFlow ==
  ASSUME TypeInv, Shape, Numbered, NEW w \in Counts, Flow(w), [Next]_vars, Steady,
         NEW i \in 1 .. Consumer, NextUsage(i)
  PROVE  Numbered' /\ Flow(w)'
<1>1. /\ UNCHANGED <<hit, gen, pc, held, stored, entry, received>>
      /\ str[i - 1].buf # <<>> /\ Head(str[i - 1].buf).kind = "usage" /\ Takes(i - 1)
  BY NextUsageEffect
<1>2. \A k \in Stages : Moves(k)
  BY <1>1 DEF Moves
<1>3. \A k \in 0 .. N : Keeps(k)
  BY <1>1 DEF Keeps, Takes, Others
<1>4. \A k \in 0 .. N : str'[k].closed /\ str'[k].err = "nil" => str[k].closed /\ str[k].err = "nil"
  BY <1>1 DEF Takes, Kept, Others
<1> QED
  BY <1>1, <1>2, <1>3, <1>4, QuietFlow, QuietNumbers

LEMMA NextEndsFlow ==
  ASSUME TypeInv, Shape, Numbered, NEW w \in Counts, Flow(w), [Next]_vars, Steady,
         NEW i \in 1 .. Consumer, NextEnds(i)
  PROVE  Numbered' /\ Flow(w)'
<1>1. /\ UNCHANGED <<hit, gen, str, held, stored, entry, received>>
      /\ pc[i] = "reading" /\ Goes(i, IF i = Consumer THEN "done" ELSE "ended")
  BY NextEndsEffect
<1>2. \A k \in Stages : Moves(k)
  BY <1>1, Places, NoReplay DEF Moves, Goes
<1>3. \A k \in 0 .. N : Keeps(k)
  BY <1>1 DEF Keeps
<1> QED
  BY <1>1, <1>2, <1>3, QuietFlow, QuietNumbers

\* A wrapper ends in an error of its own.
LEMMA BreakingFlow ==
  ASSUME TypeInv, NEW w \in Counts, Flow(w), [Next]_vars, Steady, NEW i \in Stages, Breaking(i),
         UNCHANGED <<gen, held, stored, received>>
  PROVE  Flow(w)'
<1>1. \A k \in Stages : Moves(k)
  BY Places DEF Moves, Breaking, Goes
<1>2. \A k \in 0 .. N : Keeps(k)
  BY Places DEF Keeps, Breaking, Closes, Others
<1>3. \A k \in 0 .. N : str'[k].closed /\ str'[k].err = "nil" => str[k].closed /\ str[k].err = "nil"
  BY Places DEF Breaking, Closes, Others
<1> QED
  BY <1>1, <1>2, <1>3, QuietFlow

LEMMA AgentStartsFlow ==
  ASSUME TypeInv, Shape, Numbered, NEW w \in Counts, Flow(w), [Next]_vars, Steady,
         NEW i \in Stages, AgentStarts(i)
  PROVE  Numbered' /\ Flow(w)'
<1>1. /\ UNCHANGED <<hit, gen, held, stored, entry, received>> /\ pc[i] = "starting"
      /\ (Goes(i, "reading") /\ UNCHANGED str) \/ Breaking(i)
  BY AgentStartsEffect
<1>2. CASE Goes(i, "reading") /\ UNCHANGED str
  <2>1. \A k \in Stages : Moves(k)
    BY <1>1, <1>2, Places, NoReplay DEF Moves, Goes
  <2>2. \A k \in 0 .. N : Keeps(k)
    BY <1>2 DEF Keeps
  <2> QED
    BY <1>1, <1>2, <2>1, <2>2, QuietFlow, QuietNumbers
<1> QED
  BY <1>1, <1>2, BreakingFlow, QuietNumbers

LEMMA CallbackFailsFlow ==
  ASSUME TypeInv, Numbered, NEW w \in Counts, Flow(w), [Next]_vars, Steady, NEW i \in Stages, CallbackFails(i)
  PROVE  Numbered' /\ Flow(w)'
BY CallbackFailsEffect, BreakingFlow, QuietNumbers

\* What held before a step after which stream k has ended cleanly.
LEMMA Before ==
  ASSUME [Next]_vars, Steady, NEW k, ClosedClean(k)'
  PROVE  Undisturbed /\ Uncut(k)
BY Fixed DEF ClosedClean, Undisturbed, Uncut, Steady

\* A wrapper closes its stream.
LEMMA ClosesFlow ==
  ASSUME TypeInv, NEW w \in Counts, Flow(w), [Next]_vars, Steady, NEW i \in Stages, NEW e,
         Closes(i, e), Goes(i, "done"), UNCHANGED <<gen, held, stored, received>>,
         e = "nil" => WholeAt(i, w)'
  PROVE  Flow(w)'
<1>1. \A k \in Stages : Moves(k)
  BY Places DEF Moves, Goes
<1>2. \A k \in 0 .. N : Keeps(k)
  BY Places DEF Keeps, Closes, Others
<1>3. \A k \in 0 .. N : str'[k].closed /\ str'[k].err = "nil" =>
                          (str[k].closed /\ str[k].err = "nil") \/ WholeAt(k, w)'
  BY Places DEF Closes, Others
<1> QED
  BY <1>1, <1>2, <1>3, QuietFlow

LEMMA EmitFailsFlow ==
  ASSUME TypeInv, Numbered, NEW w \in Counts, Flow(w), [Next]_vars, Steady, NEW i \in Stages, EmitFails(i)
  PROVE  Numbered' /\ Flow(w)'
<1>1. /\ UNCHANGED <<hit, gen, held, stored, entry, received>> /\ pc[i] = "held" /\ CtxDone(i)
      /\ Closes(i, IF chain[i] = "processor" THEN "ctx" ELSE "nil") /\ Goes(i, "done")
  BY EmitFailsEffect
<1>2. chain[i] # "processor" => WholeAt(i, w)'
  <2> SUFFICES ASSUME chain[i] # "processor", ClosedClean(i)' PROVE FALSE
    BY DEF WholeAt
  <2>1. Undisturbed /\ Uncut(i)
    BY Before
  <2> QED
    BY <1>1, <2>1, NotCut, Places DEF Undisturbed
<1> QED
  BY <1>1, <1>2, ClosesFlow, QuietNumbers

LEMMA EndsInErrorFlow ==
  ASSUME TypeInv, Numbered, NEW w \in Counts, Flow(w), [Next]_vars, Steady, NEW i \in Stages, EndsInError(i)
  PROVE  Numbered' /\ Flow(w)'
BY EndsInErrorEffect, ClosesFlow, QuietNumbers

\* A wrapper that has read all and has not failed.
LEMMA CleanUp ==
  ASSUME TypeInv, Shape, Ends, NEW w \in Counts, Flow(w), [Next]_vars, Steady, NEW i \in Stages,
         ~Replays(i), pc[i] \in {"ended", "usage", "last"}, serr[i] = "nil",
         Undisturbed, Uncut(i), pc'[i] = "done", broken' = broken
  PROVE  Clean(i, w)'
<1>1. Uncut(i - 1) /\ Past(i) /\ i \in 1 .. Consumer /\ i # Consumer /\ i \in 0 .. N /\ pc[i] # "held"
      /\ i \in Nat /\ i > 0
  BY Places DEF Uncut, Past
<1>2. Clean(i - 1, w) /\ ReadBy(i, w) = Len(gen.frames)
  BY <1>1, AtEnd
<1>3. w[i] = Len(gen.frames)
  BY <1>1, <1>2 DEF ReadBy
<1>4. ~broken[i]
  BY Writing
<1>5. gen' = gen /\ gen.state = "complete"
  BY <1>2 DEF Clean, Steady
<1>6. \A j \in 1 .. i : pc'[j] = "done" /\ ~broken'[j]
  <2> SUFFICES ASSUME NEW j \in 1 .. i PROVE pc'[j] = "done" /\ ~broken'[j]
    OBVIOUS
  <2>1. CASE j = i
    BY <1>4, <2>1
  <2>2. CASE j # i
    <3>1. j \in 1 .. i - 1 /\ j \in Stages
      BY <1>1, <2>2, Places
    <3> QED
      BY <1>2, <3>1 DEF Clean, Steady
  <2> QED
    BY <2>1, <2>2
<1> QED
  BY <1>3, <1>5, <1>6 DEF Clean

LEMMA EndsCleanFlow ==
  ASSUME TypeInv, Shape, Ends, Numbered, NEW w \in Counts, Flow(w), [Next]_vars, Steady,
         NEW i \in Stages, EndsClean(i)
  PROVE  Numbered' /\ Flow(w)'
<1>1. /\ UNCHANGED <<hit, gen, held, stored, entry, received, broken>> /\ pc[i] = "ended" /\ serr[i] = "nil"
      /\ \/ /\ Goes(i, IF usage[i] > 0 THEN "usage" ELSE "last")
            /\ str'[i].buf = str[i].buf /\ str'[i].closed = str[i].closed /\ str'[i].err = str[i].err
            /\ Others(i)
         \/ Goes(i, "done") /\ Closes(i, "nil")
  BY EndsCleanEffect
<1>2. ~Replays(i)
  BY <1>1, NoReplay
<1>3. Numbered'
  BY <1>1, QuietNumbers
<1>4. CASE /\ Goes(i, IF usage[i] > 0 THEN "usage" ELSE "last")
           /\ str'[i].buf = str[i].buf /\ str'[i].closed = str[i].closed /\ str'[i].err = str[i].err
           /\ Others(i)
  <2>1. \A k \in Stages : Moves(k)
    BY <1>1, <1>2, <1>4, Places DEF Moves, Goes
  <2>2. \A k \in 0 .. N : Keeps(k)
    BY <1>4, Places DEF Keeps, Others
  <2>3. \A k \in 0 .. N : str'[k].closed /\ str'[k].err = "nil" => str[k].closed /\ str[k].err = "nil"
    BY <1>4, Places DEF Others
  <2> QED
    BY <1>1, <1>3, <2>1, <2>2, <2>3, QuietFlow
<1>5. CASE Goes(i, "done") /\ Closes(i, "nil")
  <2>1. WholeAt(i, w)'
    <3> SUFFICES ASSUME ClosedClean(i)' PROVE Clean(i, w)'
      BY DEF WholeAt
    <3> QED
      BY <1>1, <1>2, <1>5, Before, CleanUp DEF Goes
  <2> QED
    BY <1>1, <1>3, <1>5, <2>1, ClosesFlow
<1> QED
  BY <1>1, <1>4, <1>5

LEMMA EmitsUsageFlow ==
  ASSUME TypeInv, Shape, Numbered, NEW w \in Counts, Flow(w), [Next]_vars, Steady,
         NEW i \in Stages, EmitsUsage(i)
  PROVE  Numbered' /\ Flow(w)'
<1>1. /\ UNCHANGED <<hit, gen, held, stored, entry, received>> /\ pc[i] = "usage" /\ Goes(i, "last")
      /\ Puts(i, Total(usage[i])) \/ UNCHANGED str
  BY EmitsUsageEffect
<1>2. \A k \in Stages : Moves(k)
  BY <1>1, Places DEF Moves, Goes
<1>3. usage[i] \in Nat
  BY Places DEF TypeInv, TypeOK, ReaderType
<1>4. CASE Puts(i, Total(usage[i]))
  <2>1. \A k \in 0 .. N : Keeps(k)
    BY <1>3, <1>4, Places DEF Keeps, Puts, Others
  <2>2. \A k \in 0 .. N : str'[k].closed /\ str'[k].err = "nil" => str[k].closed /\ str[k].err = "nil"
    BY <1>4, Places DEF Puts, Kept, Others
  <2> QED
    BY <1>1, <1>2, <2>1, <2>2, QuietFlow, QuietNumbers
<1>5. CASE UNCHANGED str
  <2>1. \A k \in 0 .. N : Keeps(k)
    BY <1>5 DEF Keeps
  <2> QED
    BY <1>1, <1>2, <1>5, <2>1, QuietFlow, QuietNumbers
<1> QED
  BY <1>1, <1>4, <1>5

LEMMA StillFlow ==
  ASSUME TypeInv, Numbered, NEW w \in Counts, Flow(w), [Next]_vars, Steady,
         UNCHANGED <<hit, gen, str, pc, held, stored, entry, received>>
  PROVE  Numbered' /\ Flow(w)'
<1>1. \A k \in Stages : Moves(k)
  BY DEF Moves
<1>2. \A k \in 0 .. N : Keeps(k)
  BY DEF Keeps
<1> QED
  BY <1>1, <1>2, QuietFlow, QuietNumbers

\* What the cache puts.
LEMMA PutNumbers ==
  ASSUME TypeInv, Shape, Ends, Numbered, NEW w \in Counts, Flow(w), NEW i \in Stages,
         pc[i] = "last", IsCache(i), ~hit, UNCHANGED <<hit, gen, stored, received>>, entry'.frames = stored,
         entry'.of = Made, entry'.calm <=> (expired = {} /\ ~CtxDone(i))
  PROVE  Numbered'
<1>1. /\ i \in 1 .. Consumer /\ i \in 0 .. N /\ i # Consumer /\ Past(i) /\ ~Replays(i)
      /\ Len(gen.frames) \in Nat /\ w[i] \in Nat
  BY Places, Typed DEF Past, Replays, Counts
<1>2. Len(stored) = w[i] /\ ReadBy(i, w) = w[i]
  BY <1>1 DEF Flow, StageAt, ReadBy
<1>3. Made.frames = gen.frames
  BY DEF Made, TypeInv, TypeOK, CallType, Generation
<1>4. Len(stored) <= Len(gen.frames)
  BY <1>1, <1>2 DEF Flow
<1>5. ASSUME expired = {}, ~CtxDone(i) PROVE Made = gen /\ gen.state = "complete" /\ Len(stored) = Len(gen.frames)
  <2>1. Undisturbed
    BY <1>5 DEF Undisturbed
  <2>2. Uncut(i - 1)
    BY <1>5, Places DEF CtxDone, Uncut
  <2>3. serr[i] = "nil"
    BY <1>1 DEF Ends, Ended
  <2>4. gen.state = "complete" /\ w[i] = Len(gen.frames)
    BY <1>1, <1>2, <2>1, <2>2, <2>3, AtEnd DEF Clean
  <2> QED
    BY <1>2, <2>4 DEF Made, SourceDone
<1>6. Numbers(stored) /\ Numbers(gen.frames) /\ Numbers(received)
  BY DEF Numbered
<1>7. EntryNumbered'
  <2>1. entry'.calm => Made.state = "complete" /\ Len(stored) = Len(gen.frames)
    BY <1>5
  <2> QED
    BY <1>3, <1>4, <1>6, <2>1 DEF EntryNumbered
<1> QED
  BY <1>6, <1>7 DEF Numbered

LEMMA CompletesFlow ==
  ASSUME TypeInv, Shape, Ends, Numbered, NEW w \in Counts, Flow(w), [Next]_vars, Steady,
         NEW i \in Stages, Completes(i)
  PROVE  Numbered' /\ Flow(w)'
<1>1. /\ UNCHANGED <<hit, gen, held, stored, received>> /\ pc[i] = "last" /\ Goes(i, "done")
      /\ (Closes(i, "nil") /\ UNCHANGED broken) \/ Breaking(i)
  BY CompletesEffect
<1>2. Numbered'
  <2>1. CASE IsCache(i) /\ ~hit
    <3>1. /\ entry'.frames = stored /\ entry'.of = Made
          /\ entry'.calm <=> (expired = {} /\ ~CtxDone(i))
      <4> DEFINE c == expired = {} /\ ~CtxDone(i)
      <4>1. entry' = [present |-> TRUE, frames |-> stored, usage |-> usage[i], resp |-> str[i].resp,
                      of |-> Made, calm |-> c]
        BY <2>1, CompletesEffect
      <4>2. c \in BOOLEAN
        OBVIOUS
      <4> HIDE DEF c
      <4>3. entry'.frames = stored /\ entry'.of = Made /\ entry'.calm = c
        BY <4>1
      <4>4. entry'.calm <=> c
        BY <4>2, <4>3
      <4> QED
        BY <4>3, <4>4 DEF c
    <3> QED
      BY <1>1, <2>1, <3>1, PutNumbers
  <2>2. CASE ~(IsCache(i) /\ ~hit)
    BY <1>1, <2>2, CompletesEffect, QuietNumbers
  <2> QED
    BY <2>1, <2>2
<1>3. CASE Breaking(i)
  BY <1>1, <1>2, <1>3, BreakingFlow
<1>4. CASE Closes(i, "nil") /\ UNCHANGED broken
  <2>1. WholeAt(i, w)'
    <3> SUFFICES ASSUME ClosedClean(i)' PROVE Clean(i, w)'
      BY DEF WholeAt
    <3>1. Undisturbed /\ Uncut(i) /\ pc'[i] = "done"
      BY <1>1, Before DEF Goes
    <3>2. CASE ~Replays(i)
      <4>1. serr[i] = "nil"
        BY <1>1, <3>2, Places DEF Ends, Ended
      <4> QED
        BY <1>1, <1>4, <3>1, <3>2, <4>1, CleanUp
    <3>3. CASE Replays(i)
      <4>1. gen = entry.of /\ EntryNumbered /\ entry.calm
        BY <3>1, <3>3 DEF Replays, TypeInv, Entered, Numbered, Undisturbed
      <4>2. w[i] = Len(entry.frames)
        BY <1>1, <3>3 DEF Flow, StageAt
      <4>3. gen' = gen /\ gen.state = "complete" /\ w[i] = Len(gen.frames)
        BY <1>1, <4>1, <4>2 DEF EntryNumbered
      <4>4. ASSUME NEW j \in 1 .. i PROVE pc'[j] = "done" /\ ~broken'[j]
        <5>1. CASE j = i
          BY <1>1, <1>4, <3>1, <5>1, Writing
        <5>2. CASE j # i
          <6>1. j \in Stages /\ j < i
            BY <5>2, Places
          <6>2. Idle(j)
            BY <3>3, <6>1 DEF Idle, Above, Replays
          <6>3. pc[j] = "done" /\ ~broken[j]
            BY <6>1, <6>2 DEF Shape, WrapperShape, Shaped
          <6> QED
            BY <6>1, <6>3 DEF Steady
        <5> QED
          BY <5>1, <5>2
      <4> QED
        BY <4>3, <4>4 DEF Clean
    <3> QED
      BY <3>2, <3>3
  <2> QED
    BY <1>1, <1>2, <1>4, <2>1, ClosesFlow
<1> QED
  BY <1>1, <1>3, <1>4

(***************************************************************************)
(* Steps of the provider's goroutine.                                      *)
(***************************************************************************)
LEMMA SourceReadsFlow ==
  ASSUME TypeInv, Shape, Numbered, NEW w \in Counts, Flow(w), [Next]_vars, Steady, SourceReads
  PROVE  Numbered' /\ Flow(w)'
<1>1. /\ UNCHANGED <<hit, str, pc, stored, entry, received>>
      /\ gen.state = "running" /\ gen'.state = "emitting"
      /\ \A k \in Stages : held'[k] = held[k]
      /\ \/ gen'.frames = Append(gen.frames, Data(Len(gen.frames) + 1))
            /\ held'[0] = Data(Len(gen.frames) + 1)
         \/ gen'.frames = gen.frames /\ held'[0] = Total(1)
  BY SourceReadsEffect
<1>2. ~hit
  BY <1>1, Writing
<1>3. gen.frames \in Seq(RelayFrame) /\ Len(gen.frames) \in Nat
  BY Typed
<1>4. /\ Numbers(gen'.frames) /\ Len(gen'.frames) >= Len(gen.frames) /\ Len(gen'.frames) \in Nat
      /\ held'[0].kind = "data" => /\ held'[0] = Data(Len(gen.frames) + 1)
                                   /\ Len(gen'.frames) = Len(gen.frames) + 1
      /\ held'[0].kind = "usage" => Len(gen'.frames) = Len(gen.frames)
  <2>1. Numbers(gen.frames)
    BY DEF Numbered
  <2>2. CASE /\ gen'.frames = Append(gen.frames, Data(Len(gen.frames) + 1))
             /\ held'[0] = Data(Len(gen.frames) + 1)
    BY <1>3, <2>1, <2>2, NumbersAppend, AppendProperties DEF Data
  <2>3. CASE gen'.frames = gen.frames /\ held'[0] = Total(1)
    BY <1>3, <2>1, <2>3 DEF Total
  <2> QED
    BY <1>1, <2>2, <2>3
<1>5. Numbered'
  BY <1>1, <1>2, <1>4 DEF Numbered, EntryNumbered
<1>6. ASSUME NEW k \in 1 .. Consumer PROVE WindowAt(k, w)'
  <2>1. k - 1 \in 0 .. N
    BY Places
  <2>2. Continues(k, w, w)
    BY <1>1, Continued
  <2> QED
    BY <1>1, <2>1, <2>2, Windowed DEF Flow
<1>7. ASSUME NEW k \in Stages PROVE StageAt(k, w)'
  BY <1>1, Staged DEF Flow
<1>8. ASSUME NEW k \in 0 .. N PROVE WholeAt(k, w)'
  BY <1>1, Whole DEF Flow
<1>9. w[0] = Len(gen.frames)
  BY <1>1 DEF Flow, Producing
<1>10. Producing(w)'
  BY <1>1, <1>4, <1>9 DEF Producing
<1>11. ASSUME NEW k \in 0 .. N PROVE w[k] <= Len(gen'.frames)
  BY <1>3, <1>4 DEF Flow, Counts
<1> QED
  BY <1>5, <1>6, <1>7, <1>8, <1>10, <1>11, FlowBy

\* One more data frame has been put into stream i.
LEMMA Put ==
  ASSUME TypeInv, [Next]_vars, Steady, NEW w \in Counts, Flow(w), NEW i \in 0 .. N, ~str[i].closed,
         Puts(i, Data(w[i] + 1)), gen'.frames = gen.frames, received' = received,
         w[i] + 1 <= Len(gen.frames),
         \A k \in Stages : k = i \/ (pc'[k] = pc[k] /\ held'[k] = held[k] /\ (IsCache(k) => stored' = stored)),
         NEW x, x = [w EXCEPT ![i] = @ + 1],
         i \in Stages => StageAt(i, x)' /\ Continues(i, w, x),
         Producing(x)'
  PROVE  x \in Counts /\ Flow(x)'
<1>1. x \in Counts /\ x[i] = w[i] + 1 /\ \A k \in 0 .. N : k # i => x[k] = w[k]
  BY DEF Counts
<1>2. hit' = hit /\ (hit => entry' = entry)
  BY DEF Steady
<1>3. ASSUME NEW k \in 1 .. Consumer PROVE WindowAt(k, x)'
  <2>1. k - 1 \in 0 .. N /\ (k = Consumer \/ (k \in Stages /\ k \in 0 .. N))
    BY Places
  <2>2. Continues(k, w, x)
    <3>1. CASE k = i
      BY <2>1, <3>1, Places
    <3>2. CASE k # i
      BY <1>1, <1>2, <2>1, <3>2, Continued
    <3> QED
      BY <3>1, <3>2
  <2>3. \/ str'[k - 1].buf = str[k - 1].buf /\ x[k - 1] = w[k - 1]
        \/ str'[k - 1].buf = Append(str[k - 1].buf, Data(w[k - 1] + 1)) /\ x[k - 1] = w[k - 1] + 1
    BY <1>1, <2>1 DEF Puts, Others
  <2> QED
    BY <2>2, <2>3, Windowed DEF Flow
<1>4. ASSUME NEW k \in Stages PROVE StageAt(k, x)'
  <2>1. k \in 0 .. N
    BY Places
  <2>2. CASE k # i
    BY <1>1, <1>2, <2>1, <2>2, Staged DEF Flow, Replays
  <2> QED
    BY <2>2
<1>5. ASSUME NEW k \in 0 .. N PROVE WholeAt(k, x)'
  <2>1. CASE k = i
    <3>1. ~str'[i].closed
      BY DEF Puts, Kept
    <3> QED
      BY <2>1, <3>1 DEF WholeAt, ClosedClean
  <2>2. CASE k # i
    <3>1. str'[k] = str[k] /\ WholeAt(k, w) /\ x[k] = w[k]
      BY <1>1, <2>2 DEF Flow, Puts, Others
    <3> QED
      BY <3>1, Whole
  <2> QED
    BY <2>1, <2>2
<1>6. ASSUME NEW k \in 0 .. N PROVE x[k] <= Len(gen'.frames)
  BY <1>1 DEF Flow
<1> QED
  BY <1>1, <1>3, <1>4, <1>5, <1>6, FlowBy

LEMMA SourceEmitsFlow ==
  ASSUME TypeInv, Shape, Numbered, NEW w \in Counts, Flow(w), [Next]_vars, Steady, SourceEmits
  PROVE  Numbered' /\ \E x \in Counts : Flow(x)'
<1>1. /\ UNCHANGED <<hit, pc, stored, entry, received>> /\ gen'.frames = gen.frames
      /\ gen.state = "emitting" /\ gen'.state = "running"
      /\ \A k \in Stages : held'[k] = held[k]
      /\ Puts(0, held[0]) /\ held[0] \in RelayFrame
  BY SourceEmitsEffect
<1>2. ~hit /\ ~str[0].closed /\ 0 \in 0 .. N /\ 0 \notin Stages
  BY <1>1, Writing, Places
<1>3. Numbered'
  BY <1>1, <1>2 DEF Numbered, EntryNumbered
<1>4. CASE held[0].kind = "data"
  <2> DEFINE x == [w EXCEPT ![0] = @ + 1]
  <2>1. held[0] = Data(w[0] + 1) /\ Len(gen.frames) = w[0] + 1
    BY <1>1, <1>4 DEF Flow, Producing
  <2>2. w[0] + 1 <= Len(gen.frames)
    BY <2>1, Typed
  <2>3. x[0] = w[0] + 1
    BY <1>2 DEF Counts
  <2>4. Producing(x)'
    BY <1>1, <2>1, <2>3 DEF Producing
  <2>5. x = [w EXCEPT ![0] = @ + 1]
    OBVIOUS
  <2> HIDE DEF x
  <2>6. x \in Counts /\ Flow(x)'
    BY <1>1, <1>2, <2>1, <2>2, <2>4, <2>5, Put
  <2> QED
    BY <1>3, <2>6
<1>5. CASE held[0].kind = "usage"
  <2>1. held[0] = Total(held[0].n) /\ held[0].n \in Nat
    BY <1>1, <1>5 DEF RelayFrame, Total
  <2>2. ASSUME NEW k \in 1 .. Consumer PROVE WindowAt(k, w)'
    <3>1. k - 1 \in 0 .. N
      BY Places
    <3>2. Continues(k, w, w)
      BY <1>1, Continued
    <3>3. \/ str'[k - 1].buf = str[k - 1].buf
          \/ str'[k - 1].buf = Append(str[k - 1].buf, Total(held[0].n))
      BY <1>1, <2>1, <3>1 DEF Puts, Others
    <3> QED
      BY <2>1, <3>1, <3>2, <3>3, Windowed DEF Flow
  <2>3. ASSUME NEW k \in Stages PROVE StageAt(k, w)'
    BY <1>1, Staged DEF Flow
  <2>4. ASSUME NEW k \in 0 .. N PROVE WholeAt(k, w)'
    <3>1. str'[k].closed /\ str'[k].err = "nil" => str[k].closed /\ str[k].err = "nil"
      BY <1>1, <1>2 DEF Puts, Kept, Others
    <3> QED
      BY <3>1, Whole DEF Flow
  <2>5. Producing(w)'
    BY <1>1, <1>5 DEF Flow, Producing
  <2>6. \A k \in 0 .. N : w[k] <= Len(gen'.frames)
    BY <1>1 DEF Flow
  <2>7. Flow(w)'
    BY <2>2, <2>3, <2>4, <2>5, <2>6, FlowBy
  <2> QED
    BY <1>3, <2>7
<1> QED
  BY <1>1, <1>4, <1>5 DEF RelayFrame

LEMMA SourceStopsFlow ==
  ASSUME TypeInv, Shape, Numbered, NEW w \in Counts, Flow(w), [Next]_vars, Steady,
         SourceEnds \/ SourceFails \/ SourceCut
  PROVE  Numbered' /\ Flow(w)'
<1>1. /\ UNCHANGED <<hit, pc, held, stored, entry, received, expired>> /\ gen'.frames = gen.frames
      /\ gen.state \in {"running", "emitting"} /\ gen'.state \in {"complete", "failed", "cut"}
  BY SourceStopsEffect
<1>2. ~hit /\ 0 \in 0 .. N
  BY <1>1, Writing, Places
<1>3. Numbered'
  BY <1>1, <1>2 DEF Numbered, EntryNumbered
<1>4. PICK e : Closes(0, e) /\ \/ gen.state = "running" /\ gen'.state = "complete"
                               \/ e # "nil"
                               \/ gen'.state = "cut" /\ CtxDone(0)
  BY SourceStopsEffect
<1>5. ASSUME NEW k \in 1 .. Consumer PROVE WindowAt(k, w)'
  <2>1. k - 1 \in 0 .. N
    BY Places
  <2>2. Continues(k, w, w)
    BY <1>1, Continued
  <2>3. str'[k - 1].buf = str[k - 1].buf
    BY <1>4, <2>1 DEF Closes, Others
  <2> QED
    BY <2>2, <2>3, Windowed DEF Flow
<1>6. ASSUME NEW k \in Stages PROVE StageAt(k, w)'
  BY <1>1, Staged DEF Flow
<1>7. ASSUME NEW k \in 0 .. N PROVE WholeAt(k, w)'
  <2>1. CASE k # 0
    BY <1>4, <2>1, Whole DEF Flow, Closes, Others
  <2>2. CASE k = 0
    <3> SUFFICES ASSUME ClosedClean(0)' PROVE Clean(0, w)'
      BY <2>2 DEF WholeAt
    <3>1. Undisturbed /\ Uncut(0)
      BY Before
    <3>2. e = "nil"
      BY <1>4 DEF Closes, ClosedClean
    <3>3. ~CtxDone(0)
      BY <3>1, NotCut, Places DEF Undisturbed
    <3>4. gen'.state = "complete" /\ w[0] = Len(gen'.frames)
      BY <1>1, <1>4, <3>2, <3>3 DEF Flow, Producing
    <3> QED
      BY <3>4 DEF Clean
  <2> QED
    BY <2>1, <2>2
<1>8. Producing(w)'
  BY <1>1 DEF Producing
<1>9. \A k \in 0 .. N : w[k] <= Len(gen'.frames)
  BY <1>1 DEF Flow
<1> QED
  BY <1>3, <1>5, <1>6, <1>7, <1>8, <1>9, FlowBy

(***************************************************************************)
(* Steps that read a data frame, and the ones of a wrapper that put one.   *)
(***************************************************************************)
\* The frame that a reader takes next is the one after the frames it has read.
LEMMA Taken ==
  ASSUME TypeInv, NEW w \in Counts, Flow(w), NEW i \in 1 .. Consumer, Reads(i), pc[i] # "held",
         str[i - 1].buf # <<>>, Head(str[i - 1].buf).kind = "data"
  PROVE  LET r == ReadBy(i, w)
         IN  /\ r \in Nat /\ (i # Consumer => r = w[i])
             /\ Head(str[i - 1].buf) = Data(r + 1)
             /\ Window(Tail(str[i - 1].buf), r + 1, w[i - 1])
<1>1. i - 1 \in 0 .. N /\ (i # Consumer => i \in 0 .. N) /\ Len(received) \in Nat
  BY Places, Typed
<1>2. ReadBy(i, w) \in Nat /\ (i # Consumer => ReadBy(i, w) = w[i])
  BY <1>1 DEF ReadBy, Counts
<1>3. w[i - 1] \in Nat /\ str[i - 1].buf \in Seq(RelayFrame) /\ Window(str[i - 1].buf, ReadBy(i, w), w[i - 1])
  BY <1>1, Typed DEF Counts, Flow, WindowAt
<1> QED
  BY <1>2, <1>3, WindowTail

LEMMA NextFrameFlow ==
  ASSUME TypeInv, Shape, Numbered, NEW w \in Counts, Flow(w), [Next]_vars, Steady,
         NEW i \in Stages, NextFrame(i)
  PROVE  Numbered' /\ Flow(w)'
<1>1. /\ UNCHANGED <<hit, gen, entry, received>> /\ pc[i] = "reading" /\ Goes(i, "held")
      /\ str[i - 1].buf # <<>> /\ Head(str[i - 1].buf).kind = "data" /\ Takes(i - 1)
      /\ held'[i] = Head(str[i - 1].buf) /\ \A k \in 0 .. N : k # i => held'[k] = held[k]
      /\ stored' = IF IsCache(i) THEN Append(stored, Head(str[i - 1].buf)) ELSE stored
  BY NextFrameEffect
<1>2. /\ i \in 1 .. Consumer /\ i # Consumer /\ i \in 0 .. N /\ i # 0 /\ i - 1 \in 0 .. N
      /\ ~Replays(i) /\ Reads(i) /\ 0 \in 0 .. N
  BY <1>1, Places, NoReplay DEF Reads
<1>3. /\ w[i] \in Nat /\ ReadBy(i, w) = w[i] /\ Head(str[i - 1].buf) = Data(w[i] + 1)
      /\ Window(Tail(str[i - 1].buf), w[i] + 1, w[i - 1])
  BY <1>1, <1>2, Taken
<1>4. /\ pc'[i] = "held" /\ \A k \in 1 .. Consumer : k # i => pc'[k] = pc[k]
      /\ str'[i - 1].buf = Tail(str[i - 1].buf) /\ \A k \in 0 .. N : k # i - 1 => str'[k].buf = str[k].buf
      /\ \A k \in 0 .. N : str'[k].closed /\ str'[k].err = "nil" => str[k].closed /\ str[k].err = "nil"
  BY <1>1 DEF Goes, Takes, Kept, Others
<1>5. IsCache(i) /\ ~hit => Len(stored) = w[i] /\ Len(stored') = w[i] + 1 /\ Numbers(stored')
  <2> SUFFICES ASSUME IsCache(i), ~hit PROVE Len(stored) = w[i] /\ Len(stored') = w[i] + 1 /\ Numbers(stored')
    OBVIOUS
  <2>1. Len(stored) = w[i] /\ stored \in Seq(RelayFrame) /\ Numbers(stored)
    BY <1>1, <1>3, Typed DEF Flow, StageAt, Numbered
  <2>2. stored' = Append(stored, Data(Len(stored) + 1))
    BY <1>1, <1>3, <2>1
  <2> QED
    BY <2>1, <2>2, NumbersAppend, AppendProperties
<1>6. Numbered'
  BY <1>1, <1>5 DEF Numbered, EntryNumbered
<1>7. ASSUME NEW k \in 1 .. Consumer PROVE WindowAt(k, w)'
  <2>1. CASE k = i
    <3>1. Consumer' = Consumer /\ ReadBy(i, w)' = w[i] + 1
      BY <1>2, <1>4, Fixed DEF ReadBy
    <3> QED
      BY <1>3, <1>4, <2>1, <3>1 DEF WindowAt
  <2>2. CASE k # i
    <3>1. k - 1 \in 0 .. N /\ k - 1 # i - 1 /\ str'[k - 1].buf = str[k - 1].buf
      BY <1>2, <1>4, <2>2, Places
    <3>2. Continues(k, w, w)
      BY <1>1, <1>4, <2>2, Continued
    <3> QED
      BY <3>1, <3>2, Windowed DEF Flow
  <2> QED
    BY <2>1, <2>2
<1>8. ASSUME NEW k \in Stages PROVE StageAt(k, w)'
  <2>1. k \in 0 .. N /\ k \in 1 .. Consumer
    BY Places
  <2>2. CASE k = i
    <3>1. ~Replays(i)' /\ (IsCache(i)' <=> IsCache(i)) /\ Consumer' = Consumer
      BY <1>1, <1>2, Fixed, Marks
    <3> QED
      BY <1>1, <1>2, <1>3, <1>4, <1>5, <2>2, <3>1 DEF StageAt, ReadBy
  <2>3. CASE k # i
    <3>1. IsCache(k) => stored' = stored
      BY <1>1, <2>3, OneCache
    <3> QED
      BY <1>1, <1>4, <2>1, <2>3, <3>1, Staged DEF Flow
  <2> QED
    BY <2>2, <2>3
<1>9. ASSUME NEW k \in 0 .. N PROVE WholeAt(k, w)'
  BY <1>4, Whole DEF Flow
<1>10. Producing(w)'
  BY <1>1, <1>2 DEF Flow, Producing
<1>11. \A k \in 0 .. N : w[k] <= Len(gen'.frames)
  BY <1>1 DEF Flow
<1> QED
  BY <1>6, <1>7, <1>8, <1>9, <1>10, <1>11, FlowBy

LEMMA ConsumerNextFlow ==
  ASSUME TypeInv, Shape, Numbered, NEW w \in Counts, Flow(w), [Next]_vars, Steady, ConsumerNext
  PROVE  Numbered' /\ Flow(w)'
<1>1. /\ UNCHANGED <<hit, gen, pc, held, stored, entry>> /\ pc[Consumer] = "reading"
      /\ str[N].buf # <<>> /\ Head(str[N].buf).kind = "data" /\ Takes(N)
      /\ received' = Append(received, Head(str[N].buf))
  BY ConsumerNextEffect
<1>2. Consumer - 1 = N /\ Consumer \in 1 .. Consumer /\ N \in 0 .. N /\ Reads(Consumer)
  BY Places DEF Reads
<1>3. /\ received \in Seq(RelayFrame) /\ Len(received) \in Nat /\ ReadBy(Consumer, w) = Len(received)
      /\ Numbers(received)
  BY Typed DEF ReadBy, Numbered
<1>4. /\ Head(str[N].buf) = Data(Len(received) + 1)
      /\ Window(Tail(str[N].buf), Len(received) + 1, w[N])
  BY <1>1, <1>2, <1>3, Taken
<1>5. Numbers(received') /\ Len(received') = Len(received) + 1
  BY <1>1, <1>3, <1>4, NumbersAppend, AppendProperties
<1>6. Numbered'
  BY <1>1, <1>5 DEF Numbered, EntryNumbered
<1>7. /\ str'[N].buf = Tail(str[N].buf) /\ \A k \in 0 .. N : k # N => str'[k].buf = str[k].buf
      /\ \A k \in 0 .. N : str'[k].closed /\ str'[k].err = "nil" => str[k].closed /\ str[k].err = "nil"
  BY <1>1 DEF Takes, Kept, Others
<1>8. ASSUME NEW k \in 1 .. Consumer PROVE WindowAt(k, w)'
  <2>1. CASE k = Consumer
    <3>1. Consumer' = Consumer /\ ReadBy(Consumer, w)' = Len(received')
      BY Fixed DEF ReadBy
    <3> QED
      BY <1>2, <1>4, <1>5, <1>7, <2>1, <3>1 DEF WindowAt
  <2>2. CASE k # Consumer
    <3>1. k - 1 \in 0 .. N /\ k - 1 # N
      BY <2>2, Places
    <3>2. Continues(k, w, w)
      BY <1>1, <2>2, Continued
    <3> QED
      BY <1>7, <3>1, <3>2, Windowed DEF Flow
  <2> QED
    BY <2>1, <2>2
<1>9. ASSUME NEW k \in Stages PROVE StageAt(k, w)'
  BY <1>1, Staged DEF Flow
<1>10. ASSUME NEW k \in 0 .. N PROVE WholeAt(k, w)'
  BY <1>7, Whole DEF Flow
<1>11. Producing(w)'
  BY <1>1 DEF Flow, Producing
<1>12. \A k \in 0 .. N : w[k] <= Len(gen'.frames)
  BY <1>1 DEF Flow
<1> QED
  BY <1>6, <1>8, <1>9, <1>10, <1>11, <1>12, FlowBy

LEMMA EmitsFlow ==
  ASSUME TypeInv, Shape, Numbered, NEW w \in Counts, Flow(w), [Next]_vars, Steady,
         NEW i \in Stages, Emits(i)
  PROVE  Numbered' /\ \E x \in Counts : Flow(x)'
<1>1. /\ UNCHANGED <<hit, gen, stored, entry, received>> /\ pc[i] = "held" /\ Goes(i, "reading")
      /\ Puts(i, held[i]) /\ \A k \in 0 .. N : k # i => held'[k] = held[k]
  BY EmitsEffect
<1>2. /\ i \in 1 .. Consumer /\ i # Consumer /\ i \in 0 .. N /\ i # 0 /\ i - 1 \in 0 .. N /\ 0 \in 0 .. N
      /\ ~str[i].closed /\ ~Replays(i) /\ Reads(i)
      /\ \A k \in Stages : k \in 0 .. N /\ k \in 1 .. Consumer
  BY <1>1, Places, Writing, NoReplay DEF Reads
<1>3. held[i] = Data(w[i] + 1) /\ ReadBy(i, w) = w[i] + 1
  BY <1>1, <1>2 DEF Flow, StageAt, ReadBy
<1>4. w[i] + 1 <= Len(gen.frames)
  <2>1. w[i] + 1 <= w[i - 1] /\ w[i - 1] <= Len(gen.frames)
    BY <1>2, <1>3 DEF Flow, WindowAt, Window
  <2>2. w[i] \in Nat /\ w[i - 1] \in Nat /\ Len(gen.frames) \in Nat
    BY <1>2, Typed DEF Counts
  <2> QED
    BY <2>1, <2>2
<1> DEFINE x == [w EXCEPT ![i] = @ + 1]
<1>5. x = [w EXCEPT ![i] = @ + 1] /\ x[i] = w[i] + 1 /\ x[0] = w[0]
  BY <1>2 DEF Counts
<1> HIDE DEF x
<1>6. pc'[i] = "reading" /\ \A k \in Stages : k # i => pc'[k] = pc[k]
  BY <1>1, <1>2 DEF Goes
<1>7. StageAt(i, x)'
  <2>1. ~Replays(i)' /\ (IsCache(i)' <=> IsCache(i)) /\ Consumer' = Consumer
    BY <1>1, <1>2, Fixed, Marks
  <2>2. IsCache(i) /\ ~hit => Len(stored) = w[i] + 1
    BY <1>1, <1>3 DEF Flow, StageAt
  <2> QED
    BY <1>1, <1>2, <1>5, <1>6, <2>1, <2>2 DEF StageAt, ReadBy
<1>8. Continues(i, w, x)
  BY <1>1, <1>2, <1>5, <1>6, Continued
<1>9. Producing(x)'
  BY <1>1, <1>2, <1>5 DEF Flow, Producing
<1>10. x \in Counts /\ Flow(x)'
  BY <1>1, <1>2, <1>3, <1>4, <1>5, <1>6, <1>7, <1>8, <1>9, Put
<1> QED
  BY <1>1, <1>10, QuietNumbers

LEMMA ReplayFlow ==
  ASSUME TypeInv, Shape, Numbered, NEW w \in Counts, Flow(w), [Next]_vars, Steady,
         NEW i \in Stages, Replay(i)
  PROVE  Numbered' /\ \E x \in Counts : Flow(x)'
<1>1. /\ UNCHANGED <<hit, gen, held, entry, received>> /\ pc[i] = "replay"
      /\ \/ stored # <<>> /\ Puts(i, Head(stored)) /\ stored' = Tail(stored) /\ UNCHANGED pc
         \/ CtxDone(i) /\ Goes(i, "done") /\ Closes(i, "nil") /\ UNCHANGED stored
         \/ /\ stored = <<>> /\ UNCHANGED stored /\ Goes(i, IF usage[i] > 0 THEN "usage" ELSE "last")
            /\ str'[i].buf = str[i].buf /\ str'[i].closed = str[i].closed /\ str'[i].err = str[i].err
            /\ Others(i)
  BY ReplayEffect
<1>2. /\ Replays(i) /\ IsCache(i) /\ hit /\ chain[i] = "cache" /\ ~str[i].closed
      /\ i \in 0 .. N /\ i \in 1 .. Consumer /\ i # Consumer /\ i # 0 /\ 0 \in 0 .. N
      /\ \A k \in Stages : k \in 0 .. N /\ k \in 1 .. Consumer
  BY <1>1, Places, Writing DEF TypeInv, Posts, Post, Replays, IsCache
<1>3. /\ w[i] \in Nat /\ stored \in Seq(RelayFrame) /\ Len(stored) \in Nat
      /\ w[i] + Len(stored) = Len(entry.frames) /\ \A p \in 1 .. Len(stored) : stored[p] = Data(w[i] + p)
  BY <1>1, <1>2, Typed DEF Counts, Flow, StageAt
<1>4. Numbered'
  BY <1>1, <1>2 DEF Numbered, EntryNumbered
<1>5. CASE stored # <<>> /\ Puts(i, Head(stored)) /\ stored' = Tail(stored) /\ UNCHANGED pc
  <2> DEFINE x == [w EXCEPT ![i] = @ + 1]
  <2>1. x = [w EXCEPT ![i] = @ + 1] /\ x[i] = w[i] + 1 /\ x[0] = w[0]
    BY <1>2 DEF Counts
  <2> HIDE DEF x
  <2>2. /\ Head(stored) = Data(w[i] + 1) /\ Len(stored) > 0 /\ Len(Tail(stored)) = Len(stored) - 1
        /\ \A p \in 1 .. Len(Tail(stored)) : Tail(stored)[p] = stored[p + 1]
    BY <1>3, <1>5, HeadTailProperties
  <2>3. w[i] + 1 <= Len(gen.frames)
    <3>1. gen = entry.of /\ Len(entry.frames) <= Len(entry.of.frames) /\ Len(gen.frames) \in Nat
      BY <1>2, Typed DEF Numbered, EntryNumbered, TypeInv, Entered
    <3> QED
      BY <1>3, <2>2, <3>1
  <2>4. StageAt(i, x)'
    <3>1. Replays(i)' /\ pc'[i] = "replay" /\ hit'
      BY <1>1, <1>2, <1>5, Fixed, Marks
    <3>4. stored' = Tail(stored) /\ entry' = entry
      BY <1>1, <1>5
    <3>2. x[i] + Len(stored') = Len(entry'.frames)
      <4>1. x[i] + Len(Tail(stored)) = Len(entry.frames)
        BY <1>3, <2>1, <2>2
      <4> QED
        BY <3>4, <4>1
    <3>3. \A p \in 1 .. Len(stored') : stored'[p] = Data(x[i] + p)
      <4> SUFFICES ASSUME NEW p \in 1 .. Len(stored') PROVE stored'[p] = Data(x[i] + p)
        OBVIOUS
      <4>1. p \in Nat /\ p + 1 \in 1 .. Len(stored) /\ stored'[p] = stored[p + 1]
        BY <1>3, <2>2, <3>4
      <4>2. w[i] \in Nat /\ x[i] = w[i] + 1 /\ p \in Nat
        BY <1>3, <2>1, <4>1
      <4>3. w[i] + (p + 1) = x[i] + p
        BY <4>2
      <4> QED
        BY <1>3, <4>1, <4>3
    <3> QED
      BY <3>1, <3>2, <3>3 DEF StageAt
  <2>5. Continues(i, w, x)
    <3>1. ~Reads(i)'
      BY <1>1, <1>2, Fixed, Marks DEF Reads
    <3> QED
      BY <3>1 DEF Continues
  <2>6. Producing(x)'
    BY <1>1, <1>2, <2>1 DEF Flow, Producing
  <2>7. \A k \in Stages : k = i \/ (pc'[k] = pc[k] /\ held'[k] = held[k] /\ (IsCache(k) => stored' = stored))
    BY <1>1, <1>2, <1>5, OneCache
  <2>8. x \in Counts /\ Flow(x)'
    BY <1>1, <1>2, <1>5, <2>1, <2>2, <2>3, <2>4, <2>5, <2>6, <2>7, Put
  <2> QED
    BY <1>4, <2>8
<1>6. CASE CtxDone(i) /\ Goes(i, "done") /\ Closes(i, "nil") /\ UNCHANGED stored
  <2>1. WholeAt(i, w)'
    <3> SUFFICES ASSUME ClosedClean(i)' PROVE FALSE
      BY DEF WholeAt
    <3>1. Undisturbed /\ Uncut(i)
      BY Before
    <3> QED
      BY <1>1, <1>2, <1>6, <3>1, NotCut DEF Undisturbed
  <2> QED
    BY <1>1, <1>4, <1>6, <2>1, ClosesFlow
<1>7. CASE /\ stored = <<>> /\ UNCHANGED stored /\ Goes(i, IF usage[i] > 0 THEN "usage" ELSE "last")
           /\ str'[i].buf = str[i].buf /\ str'[i].closed = str[i].closed /\ str'[i].err = str[i].err
           /\ Others(i)
  <2>1. /\ \A k \in 0 .. N : str'[k].buf = str[k].buf
        /\ \A k \in 0 .. N : str'[k].closed /\ str'[k].err = "nil" => str[k].closed /\ str[k].err = "nil"
    BY <1>7 DEF Others
  <2>2. pc'[i] \in {"usage", "last"} /\ \A k \in Stages : k # i => pc'[k] = pc[k]
    BY <1>2, <1>7 DEF Goes
  <2>3. ASSUME NEW k \in 1 .. Consumer PROVE WindowAt(k, w)'
    <3>1. k - 1 \in 0 .. N /\ (k = Consumer \/ k \in Stages)
      BY Places
    <3>2. Continues(k, w, w)
      BY <1>1, <2>2, <3>1, Continued
    <3> QED
      BY <2>1, <3>1, <3>2, Windowed DEF Flow
  <2>4. ASSUME NEW k \in Stages PROVE StageAt(k, w)'
    <3>1. CASE k = i
      <4>1. w[i] = Len(entry.frames)
        BY <1>3, <1>7
      <4>2. Replays(i)' /\ hit'
        BY <1>1, <1>2, Fixed, Marks
      <4> QED
        BY <1>1, <2>2, <3>1, <4>1, <4>2 DEF StageAt
    <3>2. CASE k # i
      BY <1>1, <1>7, <2>2, <3>2, Staged DEF Flow
    <3> QED
      BY <3>1, <3>2
  <2>5. ASSUME NEW k \in 0 .. N PROVE WholeAt(k, w)'
    BY <2>1, Whole DEF Flow
  <2>6. Producing(w)'
    BY <1>1 DEF Flow, Producing
  <2>7. \A k \in 0 .. N : w[k] <= Len(gen'.frames)
    BY <1>1 DEF Flow
  <2> QED
    BY <1>4, <2>3, <2>4, <2>5, <2>6, <2>7, FlowBy
<1> QED
  BY <1>1, <1>5, <1>6, <1>7

LEMMA CallAgainFlow ==
  ASSUME TypeInv, Shape, Numbered, [Next]_vars, CallAgain
  PROVE  Numbered' /\ \E x \in Counts : Flow(x)'
<1>1. /\ entry.present /\ entry' = entry /\ hit' = TRUE /\ gen' = entry.of
      /\ \A k \in 0 .. N : str'[k].buf = <<>> /\ ~str'[k].closed
      /\ \A k \in 1 .. Consumer : pc'[k] \in {"starting", "reading", "replay", "done"}
      /\ stored' = entry.frames /\ received' = <<>>
  BY CallAgainEffect
<1>2. EntryNumbered /\ gen'.state \in {"complete", "failed", "cut"}
  BY <1>1 DEF Numbered, Shape, EntryShape
<1>3. EntryNumbered'
  BY <1>1, <1>2 DEF EntryNumbered
<1>4. Numbered'
  BY <1>1, <1>2, <1>3 DEF Numbered, EntryNumbered, Numbers
<1>5. PICK x \in Counts : \A k \in 0 .. N : x[k] = 0
  <2>1. [k \in 0 .. N |-> 0] \in Counts
    BY DEF Counts
  <2> QED
    BY <2>1
<1>6. entry.of \in Generation /\ Len(entry.frames) \in Nat /\ entry.of.frames \in Seq(RelayFrame)
  BY <1>1, EntryFields, Typed DEF TypeInv, TypeOK, Entry, Generation
<1>7. ASSUME NEW k \in 0 .. N PROVE x[k] <= Len(gen'.frames)
  BY <1>1, <1>5, <1>6, LenProperties
<1>8. ASSUME NEW k \in 1 .. Consumer PROVE WindowAt(k, x)'
  <2>1. k - 1 \in 0 .. N /\ (k # Consumer => k \in 0 .. N)
    BY Places
  <2>2. ReadBy(k, x)' = 0
    BY <1>1, <1>5, <2>1, Fixed DEF ReadBy
  <2>3. Window(<<>>, 0, 0)
    BY WindowEmpty
  <2> QED
    BY <1>1, <1>5, <2>1, <2>2, <2>3 DEF WindowAt
<1>9. ASSUME NEW k \in Stages PROVE StageAt(k, x)'
  <2>1. k \in 0 .. N /\ k \in 1 .. Consumer
    BY Places
  <2>2. pc'[k] \notin {"held", "usage", "last"}
    BY <1>1, <2>1
  <2>3. x[k] + Len(stored') = Len(entry'.frames) /\ \A p \in 1 .. Len(stored') : stored'[p] = Data(x[k] + p)
    BY <1>1, <1>2, <1>5, <1>6, <2>1 DEF EntryNumbered, Numbers
  <2> QED
    BY <1>1, <2>2, <2>3 DEF StageAt
<1>10. Producing(x)'
  BY <1>2 DEF Producing
<1>11. ASSUME NEW k \in 0 .. N PROVE WholeAt(k, x)'
  BY <1>1 DEF WholeAt, ClosedClean
<1>12. Flow(x)'
  BY <1>7, <1>8, <1>9, <1>10, <1>11, FlowBy
<1> QED
  BY <1>4, <1>5, <1>12

(***************************************************************************)
(* The invariant, and what follows from it.                                *)
(***************************************************************************)
FlowInv == TypeInv /\ Shape /\ Ends /\ Numbered /\ \E w \in Counts : Flow(w)

LEMMA InitFlowInv == Init => FlowInv
<1> SUFFICES ASSUME Init PROVE FlowInv
  OBVIOUS
<1>1. TypeInv /\ Shape /\ Ends
  BY InitTypeInv, InitShapeEnds
<1>2. /\ ~hit /\ gen.frames = <<>> /\ gen.state = "running" /\ ~entry.present
      /\ stored = <<>> /\ received = <<>>
      /\ \A k \in 0 .. N : str[k].buf = <<>> /\ ~str[k].closed
      /\ \A k \in 1 .. Consumer : pc[k] \in {"starting", "reading"}
  BY DEF Init, Fresh, NoEntry, Stream, Start
<1>3. Numbered
  BY <1>2 DEF Numbered, Numbers
<1> DEFINE x == [k \in 0 .. N |-> 0]
<1>4. x \in Counts /\ \A k \in 0 .. N : x[k] = 0
  BY DEF Counts
<1> HIDE DEF x
<1>5. \A k \in Stages : k \in 0 .. N /\ k \in 1 .. Consumer /\ k # Consumer
  BY <1>1, Places
<1>6. ASSUME NEW k \in 1 .. Consumer PROVE WindowAt(k, x)
  <2>1. k - 1 \in 0 .. N /\ (k # Consumer => k \in 0 .. N)
    BY <1>1, Places
  <2>2. ReadBy(k, x) = 0
    BY <1>2, <1>4, <2>1 DEF ReadBy
  <2> QED
    BY <1>2, <1>4, <2>1, <2>2, WindowEmpty DEF WindowAt
<1>7. ASSUME NEW k \in Stages PROVE StageAt(k, x)
  BY <1>2, <1>4, <1>5 DEF StageAt, ReadBy, Replays
<1>8. Flow(x)
  <2>1. 0 \in 0 .. N
    BY <1>1, Places
  <2> QED
    BY <1>2, <1>4, <1>6, <1>7, <2>1 DEF Flow, Producing, WholeAt, ClosedClean
<1> QED
  BY <1>1, <1>3, <1>4, <1>8 DEF FlowInv

LEMMA StepFlowInv == FlowInv /\ [Next]_vars => FlowInv'
<1> SUFFICES ASSUME FlowInv, [Next]_vars PROVE FlowInv'
  OBVIOUS
<1>1. TypeInv /\ Shape /\ Ends /\ Numbered
  BY DEF FlowInv
<1>2. TypeInv' /\ Shape' /\ Ends'
  BY <1>1, StepTypeShape
<1>3. Counts' = Counts
  BY Fixed DEF Counts
<1>4. PICK w \in Counts : Flow(w)
  BY DEF FlowInv
<1>5. SUFFICES Numbered' /\ \E x \in Counts : Flow(x)'
  BY <1>2, <1>3 DEF FlowInv
<1>6. CASE CallAgain
  BY <1>1, <1>6, CallAgainFlow
<1>7. CASE Steady
  <2>1. ASSUME NEW j \in 1 .. Consumer, Expire(j) PROVE Numbered' /\ Flow(w)'
    BY <1>1, <1>4, <1>7, <2>1, StillFlow DEF Expire
  <2>2. CASE UNCHANGED vars
    BY <1>1, <1>4, <1>7, <2>2, StillFlow DEF vars
  <2>3. CASE SourceReads \/ SourceEmits \/ (SourceEnds \/ SourceFails \/ SourceCut) \/ ConsumerNext \/ CallAgain
    BY <1>1, <1>4, <1>6, <1>7, <2>3, SourceReadsFlow, SourceEmitsFlow, SourceStopsFlow, ConsumerNextFlow
  <2>4. CASE \E i \in 1 .. Consumer : NextUsage(i) \/ NextEnds(i) \/ Expire(i)
    BY <1>1, <1>4, <1>7, <2>1, <2>4, NextUsageFlow, NextEndsFlow
  <2>5. ASSUME NEW i \in Stages,
               NextFrame(i) \/ AgentStarts(i) \/ Emits(i) \/ EmitFails(i) \/ EndsInError(i)
        PROVE  Numbered' /\ \E x \in Counts : Flow(x)'
    BY <1>1, <1>4, <1>7, <2>5, NextFrameFlow, AgentStartsFlow, EmitsFlow, EmitFailsFlow, EndsInErrorFlow
  <2>6. ASSUME NEW i \in Stages,
               EndsClean(i) \/ EmitsUsage(i) \/ Completes(i) \/ Replay(i) \/ CallbackFails(i)
        PROVE  Numbered' /\ \E x \in Counts : Flow(x)'
    BY <1>1, <1>4, <1>7, <2>6, EndsCleanFlow, EmitsUsageFlow, CompletesFlow, ReplayFlow, CallbackFailsFlow
  <2> QED
    BY <1>1, <1>4, <2>2, <2>3, <2>4, <2>5, <2>6, NextCases
<1> QED
  BY <1>1, <1>6, <1>7, Steadies

LEMMA FlowInvariant == Spec => []FlowInv
BY InitFlowInv, StepFlowInv, PTL DEF Spec

\* When the consumer's loop is over without an error and nothing disturbed it.
LEMMA ConsumerAtEnd ==
  ASSUME FlowInv, EndedClean, Undisturbed
  PROVE  \E w \in Counts : /\ Flow(w) /\ ClosedClean(N) /\ Clean(N, w) /\ str[N].buf = <<>>
                           /\ Len(received) = Len(gen.frames)
<1>1. TypeInv /\ Ends
  BY DEF FlowInv
<1>2. PICK w \in Counts : Flow(w)
  BY DEF FlowInv
<1>3. /\ Consumer \in 1 .. Consumer /\ Consumer - 1 = N /\ Past(Consumer) /\ ~Replays(Consumer)
      /\ \A j \in Stages : ~(j > N)
  BY <1>1, Places DEF Past, EndedClean, Replays, IsCache
<1>4. Uncut(N)
  BY <1>3 DEF Uncut
<1>5. ClosedClean(N) /\ Clean(N, w) /\ str[N].buf = <<>> /\ ReadBy(Consumer, w) = Len(gen.frames)
  BY <1>1, <1>2, <1>3, <1>4, AtEnd DEF EndedClean
<1> QED
  BY <1>2, <1>5 DEF ReadBy

\* A clean end is the whole response: the consumer always has a prefix of what the
\* provider has produced, and all of it once its loop has ended without an error and
\* no context ended, whatever the wrappers on the way.
THEOREM CleanEndIsWholeAlways == Spec => []CleanEndIsWhole
<1>1. FlowInv => CleanEndIsWhole
  <2> SUFFICES ASSUME FlowInv PROVE CleanEndIsWhole
    OBVIOUS
  <2>1. TypeInv /\ Numbered
    BY DEF FlowInv
  <2>2. /\ received \in Seq(RelayFrame) /\ gen.frames \in Seq(RelayFrame)
        /\ Len(received) \in Nat /\ Len(gen.frames) \in Nat
        /\ Numbers(received) /\ Numbers(gen.frames)
    BY <2>1, Typed DEF Numbered
  <2>3. Len(received) <= Len(gen.frames)
    <3>1. PICK w \in Counts : Flow(w)
      BY DEF FlowInv
    <3>2. Consumer \in 1 .. Consumer /\ Consumer - 1 = N /\ N \in 0 .. N
      BY <2>1, Places
    <3>3. Len(received) <= w[N] /\ w[N] <= Len(gen.frames) /\ w[N] \in Nat
      BY <3>1, <3>2 DEF Flow, WindowAt, Reads, ReadBy, Window, Counts
    <3> QED
      BY <2>2, <3>3
  <2>4. \A p \in 1 .. Len(received) : received[p] = gen.frames[p]
    BY <2>2, <2>3 DEF Numbers
  <2>5. IsPrefix(received, gen.frames)
    <3>1. SubSeq(gen.frames, 1, Len(received)) = received
      BY <2>2, <2>3, <2>4, SubSeqProperties, SeqEqual
    <3> QED
      BY <2>2, <2>3, <3>1 DEF IsPrefix
  <2>6. ASSUME EndedClean, Undisturbed PROVE gen.state = "complete" /\ received = gen.frames
    <3>1. gen.state = "complete" /\ Len(received) = Len(gen.frames)
      BY <2>6, ConsumerAtEnd DEF Clean
    <3> QED
      BY <2>2, <2>4, <3>1, SeqEqual
  <2> QED
    BY <2>1, <2>5, <2>6 DEF CleanEndIsWhole, InOrder, TypeInv
<1> QED
  BY <1>1, FlowInvariant, PTL

\* Every failure is reported: when the provider, a callback or a processor failed and
\* no context ended, the consumer's loop does not end with a nil error.
THEOREM FailureReportedAlways == Spec => []FailureReported
<1>1. FlowInv => FailureReported
  <2> SUFFICES ASSUME FlowInv, pc[Consumer] = "done", Undisturbed, serr[Consumer] = "nil",
                      NEW i \in 0 .. N, Failed(i)
               PROVE  FALSE
    BY DEF FailureReported
  <2>1. gen.state = "complete" /\ \A j \in 1 .. N : ~broken[j]
    BY ConsumerAtEnd DEF EndedClean, Clean
  <2>2. i = 0 \/ i \in 1 .. N
    BY Places DEF FlowInv
  <2> QED
    BY <2>1, <2>2 DEF Failed
<1> QED
  BY <1>1, FlowInvariant, PTL

(***************************************************************************)
(* The totals.  A stream bears the total u: its reader has read it, or it  *)
(* has read none and the one usage frame in the buffer has it.             *)
(***************************************************************************)
Bears(b, t, u) ==
  \/ t = u /\ \A p \in 1 .. Len(b) : b[p].kind # "usage"
  \/ /\ u # 0 /\ t = 0
     /\ \E p \in 1 .. Len(b) : b[p] = Total(u) /\ \A q \in 1 .. Len(b) : b[q].kind = "usage" => q = p

LEMMA BearsEmpty ==
  ASSUME NEW t, NEW u
  PROVE  Bears(<<>>, t, u) <=> t = u
<1>1. Len(<<>>) = 0
  OBVIOUS
<1> QED
  BY <1>1 DEF Bears

LEMMA BearsAppend ==
  ASSUME NEW b \in Seq(RelayFrame), NEW t, NEW u, Bears(b, t, u)
  PROVE  /\ \A n : Bears(Append(b, Data(n)), t, u)
         /\ u = 0 => \A v : v # 0 => Bears(Append(b, Total(v)), t, v)
<1>1. ASSUME NEW x
      PROVE  /\ Len(Append(b, x)) = Len(b) + 1 /\ Len(b) \in Nat
             /\ \A p \in 1 .. Len(b) : Append(b, x)[p] = b[p]
             /\ Append(b, x)[Len(b) + 1] = x
  BY LenProperties
<1>2. ASSUME NEW n PROVE Bears(Append(b, Data(n)), t, u)
  <2> DEFINE c == Append(b, Data(n))
  <2>1. /\ Len(c) = Len(b) + 1 /\ Len(b) \in Nat /\ c[Len(b) + 1].kind # "usage"
        /\ \A p \in 1 .. Len(b) : c[p] = b[p]
    BY <1>1 DEF Data
  <2> HIDE DEF c
  <2>2. \A p \in 1 .. Len(c) : p = Len(b) + 1 \/ p \in 1 .. Len(b)
    BY <2>1
  <2>3. CASE t = u /\ \A p \in 1 .. Len(b) : b[p].kind # "usage"
    BY <2>1, <2>2, <2>3 DEF Bears, c
  <2>4. ASSUME NEW p \in 1 .. Len(b), b[p] = Total(u), \A q \in 1 .. Len(b) : b[q].kind = "usage" => q = p
        PROVE  p \in 1 .. Len(c) /\ c[p] = Total(u) /\ \A q \in 1 .. Len(c) : c[q].kind = "usage" => q = p
    BY <2>1, <2>2, <2>4
  <2> QED
    BY <2>3, <2>4 DEF Bears, c
<1>3. ASSUME u = 0, NEW v, v # 0 PROVE Bears(Append(b, Total(v)), t, v)
  <2> DEFINE c == Append(b, Total(v))
  <2>1. /\ Len(c) = Len(b) + 1 /\ Len(b) \in Nat /\ c[Len(b) + 1] = Total(v)
        /\ \A p \in 1 .. Len(b) : c[p] = b[p]
    BY <1>1
  <2> HIDE DEF c
  <2>2. t = 0 /\ \A p \in 1 .. Len(b) : b[p].kind # "usage"
    BY <1>3 DEF Bears
  <2>3. Len(b) + 1 \in 1 .. Len(c) /\ \A q \in 1 .. Len(c) : c[q].kind = "usage" => q = Len(b) + 1
    BY <2>1, <2>2
  <2> QED
    BY <1>3, <2>1, <2>2, <2>3 DEF Bears, c
<1> QED
  BY <1>2, <1>3

LEMMA BearsTail ==
  ASSUME NEW b \in Seq(RelayFrame), b # <<>>, NEW t \in Nat, NEW u, Bears(b, t, u)
  PROVE  /\ Head(b).kind = "data" => Bears(Tail(b), t, u)
         /\ Head(b).kind = "usage" => Bears(Tail(b), t + Head(b).n, u)
<1>1. /\ Head(b) = b[1] /\ Len(Tail(b)) = Len(b) - 1 /\ Len(b) \in Nat \ {0}
      /\ \A p \in 1 .. Len(b) - 1 : Tail(b)[p] = b[p + 1]
      /\ \A p \in 1 .. Len(b) : b[p] \in RelayFrame
  BY HeadTailProperties, LenProperties, ElementOfSeq
<1>2. /\ 1 \in 1 .. Len(b) /\ \A p \in 1 .. Len(Tail(b)) : p + 1 \in 1 .. Len(b) /\ Tail(b)[p] = b[p + 1]
      /\ \A p \in 1 .. Len(b) : p # 1 => p - 1 \in 1 .. Len(Tail(b)) /\ Tail(b)[p - 1] = b[p]
  BY <1>1
<1>3. CASE t = u /\ \A p \in 1 .. Len(b) : b[p].kind # "usage"
  <2>1. Head(b).kind # "usage"
    BY <1>1, <1>2, <1>3
  <2> QED
    BY <1>2, <1>3, <2>1 DEF Bears
<1>4. CASE /\ u # 0 /\ t = 0
           /\ \E p \in 1 .. Len(b) : b[p] = Total(u) /\ \A q \in 1 .. Len(b) : b[q].kind = "usage" => q = p
  <2>1. PICK p \in 1 .. Len(b) : b[p] = Total(u) /\ \A q \in 1 .. Len(b) : b[q].kind = "usage" => q = p
    BY <1>4
  <2>2. Total(u).kind = "usage" /\ Total(u).n = u
    BY DEF Total
  <2>3. CASE p = 1
    <3>1. Head(b).kind = "usage" /\ Head(b).n = u /\ u \in Nat
      BY <1>1, <2>1, <2>2, <2>3 DEF RelayFrame
    <3>2. \A q \in 1 .. Len(Tail(b)) : Tail(b)[q].kind # "usage"
      BY <1>1, <1>2, <2>1, <2>3
    <3>3. t + Head(b).n = u
      BY <1>4, <3>1
    <3> QED
      BY <3>1, <3>2, <3>3 DEF Bears
  <2>4. CASE p # 1
    <3>1. Head(b).kind # "usage"
      BY <1>1, <1>2, <2>1, <2>4
    <3>2. p - 1 \in 1 .. Len(Tail(b)) /\ Tail(b)[p - 1] = Total(u)
      BY <1>2, <2>1, <2>4
    <3>3. \A q \in 1 .. Len(Tail(b)) : Tail(b)[q].kind = "usage" => q = p - 1
      BY <1>1, <1>2, <2>1
    <3> QED
      BY <1>4, <3>1, <3>2, <3>3 DEF Bears
  <2> QED
    BY <2>3, <2>4
<1> QED
  BY <1>3, <1>4 DEF Bears

Carries(i, u) == Bears(str[i].buf, usage[i + 1], u)
Passes(i) == \A j \in 1 .. i : PassesTotals(j)

SourceTallied ==
  /\ gen.state = "running" => Carries(0, gen.usage)
  /\ gen.state = "emitting" =>
       /\ held[0].kind = "usage" => held[0] = Total(1) /\ gen.usage = 1 /\ Carries(0, 0)
       /\ held[0].kind = "data" => Carries(0, gen.usage)

\* Until a wrapper has emitted its usage its stream bears none; then it bears what
\* the wrapper has read, unless a context ended.  The metadata are those of the
\* stream below, or of the entry; a hook is told when it is done.
TalliedAt(i) ==
  /\ pc[i] \notin {"last", "done"} => Carries(i, 0)
  /\ pc[i] = "usage" => usage[i] # 0
  /\ pc[i] = "last" /\ Undisturbed /\ Uncut(i) => Carries(i, usage[i])
  /\ Replays(i) => usage[i] = entry.usage
  /\ pc[i] \in {"usage", "last"} => str[i].resp = IF Replays(i) THEN entry.resp ELSE str[i - 1].resp
  /\ chain[i] = "hook" => (pc[i] # "done" => told[i] = <<>>) /\ Len(told[i]) <= 1

EntryTallied ==
  entry.present /\ entry.calm => entry.usage = entry.of.usage /\ entry.resp = entry.of.resp

\* A stream that ended cleanly bears the totals, and every hook below was told them,
\* if all the wrappers on the way pass them on.
TotalAt(i) == ClosedClean(i) /\ Passes(i) => Carries(i, gen.usage) /\ str[i].resp = gen.resp
ToldAt(i) ==
  ClosedClean(i) => \A j \in 1 .. i : chain[j] = "hook" /\ Passes(j - 1) =>
                                        told[j] = <<[usage |-> gen.usage, err |-> "nil"]>>

Tallies ==
  /\ SourceTallied /\ EntryTallied
  /\ \A i \in Stages : TalliedAt(i)
  /\ \A i \in 0 .. N : TotalAt(i) /\ ToldAt(i)

\* What a step does to the totals that a stream bears.
Carried(k) ==
  \/ str'[k].buf = str[k].buf /\ usage'[k + 1] = usage[k + 1]
  \/ (\E n : str'[k].buf = Append(str[k].buf, Data(n))) /\ usage'[k + 1] = usage[k + 1]
  \/ /\ str[k].buf # <<>> /\ Head(str[k].buf).kind = "data" /\ str'[k].buf = Tail(str[k].buf)
     /\ usage'[k + 1] = usage[k + 1]
  \/ /\ str[k].buf # <<>> /\ Head(str[k].buf).kind = "usage" /\ str'[k].buf = Tail(str[k].buf)
     /\ usage'[k + 1] = usage[k + 1] + Head(str[k].buf).n

LEMMA Carrying ==
  ASSUME TypeInv, NEW k \in 0 .. N, NEW u, Carries(k, u), Carried(k)
  PROVE  Bears(str'[k].buf, usage'[k + 1], u)
<1>1. str[k].buf \in Seq(RelayFrame) /\ usage[k + 1] \in Nat
  <2>1. k + 1 \in 1 .. Consumer
    BY Places
  <2> QED
    BY <2>1, Typed DEF TypeInv, TypeOK, ReaderType
<1> QED
  BY <1>1, BearsAppend, BearsTail DEF Carries, Carried

(***************************************************************************)
(* What a step does, seen from one wrapper, from the provider, and from    *)
(* one stream.                                                             *)
(***************************************************************************)
Rests(k) == pc'[k] = pc[k] /\ usage'[k] = usage[k] /\ told'[k] = told[k] /\ Kept(k)

LEMMA Locals ==
  ASSUME TypeInv, [Next]_vars, NEW k \in Stages
  PROVE  Rests(k) \/ Wrapper(k) \/ CallAgain
<1>a. chain' = chain /\ N' = N /\ Stages' = Stages /\ Consumer' = Consumer
  BY Fixed
<1>b. /\ N \in Nat /\ N >= 1 /\ Stages = 1 .. N /\ Consumer = N + 1 /\ 0 \in 0 .. N
      /\ \A j \in Stages : j \in 0 .. N /\ j \in 1 .. Consumer /\ j # Consumer /\ j # 0 /\ j - 1 \in 0 .. N
      /\ \A j \in 1 .. Consumer : j - 1 \in 0 .. N
      /\ Consumer \in 1 .. Consumer
  BY Places
<1>1. CASE SourceReads
  BY <1>1, <1>b, SourceReadsEffect
     DEF Kept, Rests
<1>2. CASE SourceEmits
  BY <1>2, <1>b, SourceEmitsEffect
     DEF Puts, Kept, Others, Kept, Rests
<1>3. CASE SourceEnds \/ SourceFails \/ SourceCut
  BY <1>3, <1>b, SourceStopsEffect
     DEF Closes, Others, Kept, Rests
<1>4. CASE ConsumerNext
  BY <1>4, <1>b, ConsumerNextEffect
     DEF Takes, Kept, Others, Kept, Rests
<1>5. CASE CallAgain
  BY <1>5
<1>6. ASSUME NEW i \in 1 .. Consumer, NextUsage(i) PROVE Rests(k) \/ Wrapper(k) \/ CallAgain
  <2>1. CASE k = i
    BY <1>6, <2>1 DEF Wrapper, Runs
  <2>2. CASE k # i
    BY <1>6, <2>2, <1>b, NextUsageEffect
       DEF Takes, Kept, Others, Rests
  <2> QED
    BY <2>1, <2>2
<1>7. ASSUME NEW i \in 1 .. Consumer, NextEnds(i) PROVE Rests(k) \/ Wrapper(k) \/ CallAgain
  <2>1. CASE k = i
    BY <1>7, <2>1 DEF Wrapper, Runs
  <2>2. CASE k # i
    BY <1>7, <2>2, <1>b, NextEndsEffect
       DEF Goes, Kept, Rests
  <2> QED
    BY <2>1, <2>2
<1>8. ASSUME NEW i \in Stages, NextFrame(i) PROVE Rests(k) \/ Wrapper(k) \/ CallAgain
  <2>1. CASE k = i
    BY <1>8, <2>1 DEF Wrapper, Runs
  <2>2. CASE k # i
    BY <1>8, <2>2, <1>b, NextFrameEffect
       DEF Takes, Kept, Others, Goes, Rests
  <2> QED
    BY <2>1, <2>2
<1>9. ASSUME NEW i \in Stages, AgentStarts(i) PROVE Rests(k) \/ Wrapper(k) \/ CallAgain
  <2>1. CASE k = i
    BY <1>9, <2>1 DEF Wrapper, Runs
  <2>2. CASE k # i
    BY <1>9, <2>2, <1>b, AgentStartsEffect
       DEF Goes, Closes, Others, Breaking, Kept, Rests
  <2> QED
    BY <2>1, <2>2
<1>10. ASSUME NEW i \in Stages, Emits(i) PROVE Rests(k) \/ Wrapper(k) \/ CallAgain
  <2>1. CASE k = i
    BY <1>10, <2>1 DEF Wrapper, Runs
  <2>2. CASE k # i
    BY <1>10, <2>2, <1>b, EmitsEffect
       DEF Puts, Kept, Others, Goes, Rests
  <2> QED
    BY <2>1, <2>2
<1>11. ASSUME NEW i \in Stages, EmitFails(i) PROVE Rests(k) \/ Wrapper(k) \/ CallAgain
  <2>1. CASE k = i
    BY <1>11, <2>1 DEF Wrapper, Runs
  <2>2. CASE k # i
    BY <1>11, <2>2, <1>b, EmitFailsEffect
       DEF Goes, Closes, Others, Kept, Rests
  <2> QED
    BY <2>1, <2>2
<1>12. ASSUME NEW i \in Stages, EndsInError(i) PROVE Rests(k) \/ Wrapper(k) \/ CallAgain
  <2>1. CASE k = i
    BY <1>12, <2>1 DEF Wrapper, Runs
  <2>2. CASE k # i
    <3>1. told'[k] = told[k]
      BY <1>12, <2>2, TellsEffect, EndsInErrorEffect
    <3>2. usage' = usage /\ pc'[k] = pc[k]
      BY <1>12, <2>2, <1>b, EndsInErrorEffect
         DEF Goes
    <3>3. Others(i)
      BY <1>12, EndsInErrorEffect DEF Closes
    <3>4. str'[k] = str[k]
      BY <2>2, <3>3, <1>b DEF Others
    <3> QED
      BY <3>1, <3>2, <3>4 DEF Rests, Kept
  <2> QED
    BY <2>1, <2>2
<1>13. ASSUME NEW i \in Stages, EndsClean(i) PROVE Rests(k) \/ Wrapper(k) \/ CallAgain
  <2>1. CASE k = i
    BY <1>13, <2>1 DEF Wrapper, Runs
  <2>2. CASE k # i
    <3>1. told'[k] = told[k]
      BY <1>13, <2>2, TellsEffect, EndsCleanEffect
    <3>2. usage' = usage /\ pc'[k] = pc[k]
      BY <1>13, <2>2, <1>b, EndsCleanEffect
         DEF Goes
    <3>3. Others(i)
      BY <1>13, EndsCleanEffect DEF Closes
    <3>4. str'[k] = str[k]
      BY <2>2, <3>3, <1>b DEF Others
    <3> QED
      BY <3>1, <3>2, <3>4 DEF Rests, Kept
  <2> QED
    BY <2>1, <2>2
<1>14. ASSUME NEW i \in Stages, EmitsUsage(i) PROVE Rests(k) \/ Wrapper(k) \/ CallAgain
  <2>1. CASE k = i
    BY <1>14, <2>1 DEF Wrapper, Runs
  <2>2. CASE k # i
    <3>1. CASE Puts(i, Total(usage[i]))
      BY <1>14, <2>2, <3>1, <1>b, EmitsUsageEffect
         DEF Goes, Puts, Kept, Others, Rests
    <3>2. CASE UNCHANGED str
      BY <1>14, <2>2, <3>2, <1>b, EmitsUsageEffect
         DEF Goes, Kept, Rests
    <3> QED
      BY <1>14, <3>1, <3>2, EmitsUsageEffect
  <2> QED
    BY <2>1, <2>2
<1>15. ASSUME NEW i \in Stages, Completes(i) PROVE Rests(k) \/ Wrapper(k) \/ CallAgain
  <2>1. CASE k = i
    BY <1>15, <2>1 DEF Wrapper, Runs
  <2>2. CASE k # i
    BY <1>15, <2>2, <1>b, CompletesEffect
       DEF Goes, Closes, Others, Breaking, Kept, Rests
  <2> QED
    BY <2>1, <2>2
<1>16. ASSUME NEW i \in Stages, Replay(i) PROVE Rests(k) \/ Wrapper(k) \/ CallAgain
  <2>1. CASE k = i
    BY <1>16, <2>1 DEF Wrapper, Runs
  <2>2. CASE k # i
    BY <1>16, <2>2, <1>b, ReplayEffect
       DEF Goes, Puts, Closes, Kept, Others, Rests
  <2> QED
    BY <2>1, <2>2
<1>17. ASSUME NEW i \in Stages, CallbackFails(i) PROVE Rests(k) \/ Wrapper(k) \/ CallAgain
  <2>1. CASE k = i
    BY <1>17, <2>1 DEF Wrapper, Runs
  <2>2. CASE k # i
    BY <1>17, <2>2, <1>b, CallbackFailsEffect
       DEF Goes, Closes, Others, Breaking, Kept, Rests
  <2> QED
    BY <2>1, <2>2
<1>18. ASSUME NEW j \in 1 .. Consumer, Expire(j) PROVE Rests(k) \/ Wrapper(k) \/ CallAgain
  BY <1>18 DEF Expire, Kept, Rests
<1>19. CASE UNCHANGED vars
  BY <1>19 DEF vars, Kept, Rests
<1> QED
  BY <1>1, <1>2, <1>3, <1>4, <1>5, <1>6, <1>7, <1>8, <1>9, <1>10, <1>11, <1>12, <1>13, <1>14,
     <1>15, <1>16, <1>17, <1>18, <1>19, NextCases
Sourced ==
  \/ gen' = gen /\ held'[0] = held[0] /\ Kept(0)
  \/ SourceReads \/ SourceEmits \/ (SourceEnds \/ SourceFails \/ SourceCut)

LEMMA Sources ==
  ASSUME TypeInv, [Next]_vars
  PROVE  Sourced \/ CallAgain
<1>a. chain' = chain /\ N' = N /\ Stages' = Stages /\ Consumer' = Consumer
  BY Fixed
<1>b. /\ N \in Nat /\ N >= 1 /\ Stages = 1 .. N /\ Consumer = N + 1 /\ 0 \in 0 .. N
      /\ \A j \in Stages : j \in 0 .. N /\ j \in 1 .. Consumer /\ j # Consumer /\ j # 0 /\ j - 1 \in 0 .. N
      /\ \A j \in 1 .. Consumer : j - 1 \in 0 .. N
      /\ Consumer \in 1 .. Consumer
  BY Places
<1>1. CASE SourceReads
  BY <1>1 DEF Sourced
<1>2. CASE SourceEmits
  BY <1>2 DEF Sourced
<1>3. CASE SourceEnds \/ SourceFails \/ SourceCut
  BY <1>3 DEF Sourced
<1>4. CASE ConsumerNext
  BY <1>4, <1>b, ConsumerNextEffect
     DEF Takes, Kept, Others, Sourced
<1>5. CASE CallAgain
  BY <1>5
<1>6. ASSUME NEW i \in 1 .. Consumer, NextUsage(i) PROVE Sourced \/ CallAgain
  BY <1>6, <1>b, NextUsageEffect
     DEF Takes, Kept, Others, Sourced
<1>7. ASSUME NEW i \in 1 .. Consumer, NextEnds(i) PROVE Sourced \/ CallAgain
  BY <1>7, <1>b, NextEndsEffect
     DEF Kept, Sourced
<1>8. ASSUME NEW i \in Stages, NextFrame(i) PROVE Sourced \/ CallAgain
  BY <1>8, <1>b, NextFrameEffect
     DEF Takes, Kept, Others, Sourced
<1>9. ASSUME NEW i \in Stages, AgentStarts(i) PROVE Sourced \/ CallAgain
  BY <1>9, <1>b, AgentStartsEffect
     DEF Closes, Others, Breaking, Kept, Sourced
<1>10. ASSUME NEW i \in Stages, Emits(i) PROVE Sourced \/ CallAgain
  BY <1>10, <1>b, EmitsEffect
     DEF Puts, Kept, Others, Sourced
<1>11. ASSUME NEW i \in Stages, EmitFails(i) PROVE Sourced \/ CallAgain
  BY <1>11, <1>b, EmitFailsEffect
     DEF Closes, Others, Kept, Sourced
<1>12. ASSUME NEW i \in Stages, EndsInError(i) PROVE Sourced \/ CallAgain
  BY <1>12, <1>b, EndsInErrorEffect
     DEF Closes, Others, Kept, Sourced
<1>13. ASSUME NEW i \in Stages, EndsClean(i) PROVE Sourced \/ CallAgain
  BY <1>13, <1>b, EndsCleanEffect
     DEF Closes, Others, Kept, Sourced
<1>14. ASSUME NEW i \in Stages, EmitsUsage(i) PROVE Sourced \/ CallAgain
  <2>1. CASE Puts(i, Total(usage[i]))
    BY <1>14, <2>1, <1>b, EmitsUsageEffect
       DEF Puts, Kept, Others, Sourced
  <2>2. CASE UNCHANGED str
    BY <1>14, <2>2, <1>b, EmitsUsageEffect
       DEF Kept, Sourced
  <2> QED
    BY <1>14, <2>1, <2>2, EmitsUsageEffect
<1>15. ASSUME NEW i \in Stages, Completes(i) PROVE Sourced \/ CallAgain
  <2>1. Closes(i, "nil") \/ Breaking(i)
    BY <1>15, CompletesEffect
  <2>2. gen' = gen /\ held' = held
    BY <1>15, CompletesEffect
  <2> QED
    BY <2>1, <2>2, <1>b DEF Closes, Breaking, Others, Kept, Sourced
<1>16. ASSUME NEW i \in Stages, Replay(i) PROVE Sourced \/ CallAgain
  BY <1>16, <1>b, ReplayEffect
     DEF Puts, Closes, Kept, Others, Sourced
<1>17. ASSUME NEW i \in Stages, CallbackFails(i) PROVE Sourced \/ CallAgain
  BY <1>17, <1>b, CallbackFailsEffect
     DEF Closes, Others, Breaking, Kept, Sourced
<1>18. ASSUME NEW j \in 1 .. Consumer, Expire(j) PROVE Sourced \/ CallAgain
  BY <1>18 DEF Expire, Kept, Sourced
<1>19. CASE UNCHANGED vars
  BY <1>19 DEF vars, Kept, Sourced
<1> QED
  BY <1>1, <1>2, <1>3, <1>4, <1>5, <1>6, <1>7, <1>8, <1>9, <1>10, <1>11, <1>12, <1>13, <1>14,
     <1>15, <1>16, <1>17, <1>18, <1>19, NextCases
LEMMA Stores ==
  ASSUME TypeInv, [Next]_vars
  PROVE  entry' = entry \/ \E j \in Stages : Completes(j)
<1>1. CASE SourceReads
  BY <1>1, SourceReadsEffect
<1>2. CASE SourceEmits
  BY <1>2, SourceEmitsEffect
<1>3. CASE SourceEnds \/ SourceFails \/ SourceCut
  BY <1>3, SourceStopsEffect
<1>4. CASE ConsumerNext
  BY <1>4, ConsumerNextEffect
<1>5. CASE CallAgain
  BY <1>5, CallAgainEffect
<1>6. ASSUME NEW i \in 1 .. Consumer, NextUsage(i) PROVE entry' = entry \/ \E j \in Stages : Completes(j)
  BY <1>6, NextUsageEffect
<1>7. ASSUME NEW i \in 1 .. Consumer, NextEnds(i) PROVE entry' = entry \/ \E j \in Stages : Completes(j)
  BY <1>7, NextEndsEffect
<1>8. ASSUME NEW i \in Stages, NextFrame(i) PROVE entry' = entry \/ \E j \in Stages : Completes(j)
  BY <1>8, NextFrameEffect
<1>9. ASSUME NEW i \in Stages, AgentStarts(i) PROVE entry' = entry \/ \E j \in Stages : Completes(j)
  BY <1>9, AgentStartsEffect
<1>10. ASSUME NEW i \in Stages, Emits(i) PROVE entry' = entry \/ \E j \in Stages : Completes(j)
  BY <1>10, EmitsEffect
<1>11. ASSUME NEW i \in Stages, EmitFails(i) PROVE entry' = entry \/ \E j \in Stages : Completes(j)
  BY <1>11, EmitFailsEffect
<1>12. ASSUME NEW i \in Stages, EndsInError(i) PROVE entry' = entry \/ \E j \in Stages : Completes(j)
  BY <1>12, EndsInErrorEffect
<1>13. ASSUME NEW i \in Stages, EndsClean(i) PROVE entry' = entry \/ \E j \in Stages : Completes(j)
  BY <1>13, EndsCleanEffect
<1>14. ASSUME NEW i \in Stages, EmitsUsage(i) PROVE entry' = entry \/ \E j \in Stages : Completes(j)
  BY <1>14, EmitsUsageEffect
<1>15. ASSUME NEW i \in Stages, Completes(i) PROVE entry' = entry \/ \E j \in Stages : Completes(j)
  BY <1>15
<1>16. ASSUME NEW i \in Stages, Replay(i) PROVE entry' = entry \/ \E j \in Stages : Completes(j)
  BY <1>16, ReplayEffect
<1>17. ASSUME NEW i \in Stages, CallbackFails(i) PROVE entry' = entry \/ \E j \in Stages : Completes(j)
  BY <1>17, CallbackFailsEffect
<1>18. ASSUME NEW k \in 1 .. Consumer, Expire(k) PROVE entry' = entry \/ \E j \in Stages : Completes(j)
  BY <1>18 DEF Expire
<1>19. CASE UNCHANGED vars
  BY <1>19 DEF vars
<1> QED
  BY <1>1, <1>2, <1>3, <1>4, <1>5, <1>6, <1>7, <1>8, <1>9, <1>10, <1>11, <1>12, <1>13, <1>14,
     <1>15, <1>16, <1>17, <1>18, <1>19, NextCases
LEMMA Handed ==
  ASSUME FlowInv
  PROVE  /\ \A j \in Stages : pc[j] = "held" => \E n : held[j] = Data(n)
         /\ \A j \in Stages : pc[j] = "replay" /\ stored # <<>> => \E n : Head(stored) = Data(n)
         /\ gen.state = "emitting" /\ held[0].kind = "data" => \E n : held[0] = Data(n)
<1>1. PICK w \in Counts : Flow(w)
  BY DEF FlowInv
<1>2. TypeInv
  BY DEF FlowInv
<1>3. ASSUME NEW j \in Stages, pc[j] = "replay", stored # <<>> PROVE \E n : Head(stored) = Data(n)
  <2>1. Replays(j) /\ stored \in Seq(RelayFrame)
    BY <1>2, <1>3, Typed DEF TypeInv, Posts, Post, Replays
  <2>2. 1 \in 1 .. Len(stored) /\ Head(stored) = stored[1]
    BY <1>3, <2>1, HeadTailProperties, LenProperties
  <2>3. stored[1] = Data(w[j] + 1)
    BY <1>1, <1>3, <2>1, <2>2 DEF Flow, StageAt
  <2> QED
    BY <2>2, <2>3
<1> QED
  BY <1>1, <1>3 DEF Flow, StageAt, Producing

\* The one usage frame is put, by the provider or by a wrapper.
TotalPut(k) == (k = 0 /\ SourceEmits /\ held[0].kind = "usage") \/ (k \in Stages /\ EmitsUsage(k))

LEMMA Carrieds ==
  ASSUME FlowInv, [Next]_vars, NEW k \in 0 .. N
  PROVE  Carried(k) \/ TotalPut(k) \/ CallAgain
<1>a. chain' = chain /\ N' = N /\ Stages' = Stages /\ Consumer' = Consumer
  BY Fixed DEF FlowInv
<1>b. /\ N \in Nat /\ N >= 1 /\ Stages = 1 .. N /\ Consumer = N + 1 /\ 0 \in 0 .. N
      /\ \A j \in Stages : j \in 0 .. N /\ j \in 1 .. Consumer /\ j # Consumer /\ j # 0 /\ j - 1 \in 0 .. N
      /\ \A j \in 1 .. Consumer : j - 1 \in 0 .. N
      /\ Consumer \in 1 .. Consumer
  BY Places DEF FlowInv
<1>c. TypeInv /\ k + 1 \in 1 .. Consumer
  BY Places DEF FlowInv
<1>d. /\ \A j \in Stages : pc[j] = "held" => \E n : held[j] = Data(n)
      /\ \A j \in Stages : pc[j] = "replay" /\ stored # <<>> => \E n : Head(stored) = Data(n)
      /\ gen.state = "emitting" /\ held[0].kind = "data" => \E n : held[0] = Data(n)
  BY Handed
<1>1. CASE SourceReads
  BY <1>1, <1>c, SourceReadsEffect DEF Carried
<1>2. CASE SourceEmits
  <2>1. Puts(0, held[0]) /\ held[0] \in RelayFrame /\ usage' = usage /\ gen.state = "emitting"
    BY <1>2, <1>c, SourceEmitsEffect
  <2>2. held[0].kind = "data" \/ held[0].kind = "usage"
    BY <2>1 DEF RelayFrame
  <2>3. CASE k # 0
    BY <2>1, <2>3 DEF Puts, Others, Carried
  <2>4. CASE k = 0 /\ held[0].kind = "data"
    BY <2>1, <2>4, <1>d DEF Puts, Carried
  <2> QED
    BY <1>2, <2>2, <2>3, <2>4 DEF TotalPut
<1>3. CASE SourceEnds \/ SourceFails \/ SourceCut
  BY <1>3, <1>b, <1>c, SourceStopsEffect
     DEF Closes, Others, Carried
<1>4. CASE ConsumerNext
  <2>1. CASE k = N
    BY <1>4, <2>1, <1>b, <1>c, <1>d, ConsumerNextEffect
       DEF Takes, Others, Carried
  <2>2. CASE k # N
    BY <1>4, <2>2, <1>b, <1>c, ConsumerNextEffect
       DEF Takes, Others, Carried
  <2> QED
    BY <2>1, <2>2
<1>5. CASE CallAgain
  BY <1>5
<1>6. ASSUME NEW i \in 1 .. Consumer, NextUsage(i) PROVE Carried(k) \/ TotalPut(k) \/ CallAgain
  <2>1. CASE k = i - 1
    BY <1>6, <2>1, <1>b, <1>c, <1>d, NextUsageEffect
       DEF Takes, Others, Carried
  <2>2. CASE k # i - 1
    BY <1>6, <2>2, <1>b, <1>c, NextUsageEffect
       DEF Takes, Others, Carried
  <2> QED
    BY <2>1, <2>2
<1>7. ASSUME NEW i \in 1 .. Consumer, NextEnds(i) PROVE Carried(k) \/ TotalPut(k) \/ CallAgain
  BY <1>7, <1>b, <1>c, NextEndsEffect
     DEF Carried
<1>8. ASSUME NEW i \in Stages, NextFrame(i) PROVE Carried(k) \/ TotalPut(k) \/ CallAgain
  <2>1. CASE k = i - 1
    BY <1>8, <2>1, <1>b, <1>c, <1>d, NextFrameEffect
       DEF Takes, Others, Carried
  <2>2. CASE k # i - 1
    BY <1>8, <2>2, <1>b, <1>c, NextFrameEffect
       DEF Takes, Others, Carried
  <2> QED
    BY <2>1, <2>2
<1>9. ASSUME NEW i \in Stages, AgentStarts(i) PROVE Carried(k) \/ TotalPut(k) \/ CallAgain
  BY <1>9, <1>b, <1>c, AgentStartsEffect
     DEF Closes, Others, Breaking, Carried
<1>10. ASSUME NEW i \in Stages, Emits(i) PROVE Carried(k) \/ TotalPut(k) \/ CallAgain
  <2>1. CASE k = i
    BY <1>10, <2>1, <1>b, <1>c, <1>d, EmitsEffect
       DEF Puts, Others, Carried
  <2>2. CASE k # i
    BY <1>10, <2>2, <1>b, <1>c, EmitsEffect
       DEF Puts, Others, Carried
  <2> QED
    BY <2>1, <2>2
<1>11. ASSUME NEW i \in Stages, EmitFails(i) PROVE Carried(k) \/ TotalPut(k) \/ CallAgain
  BY <1>11, <1>b, <1>c, EmitFailsEffect
     DEF Closes, Others, Carried
<1>12. ASSUME NEW i \in Stages, EndsInError(i) PROVE Carried(k) \/ TotalPut(k) \/ CallAgain
  BY <1>12, <1>b, <1>c, EndsInErrorEffect
     DEF Closes, Others, Carried
<1>13. ASSUME NEW i \in Stages, EndsClean(i) PROVE Carried(k) \/ TotalPut(k) \/ CallAgain
  BY <1>13, <1>b, <1>c, EndsCleanEffect
     DEF Closes, Others, Carried
<1>14. ASSUME NEW i \in Stages, EmitsUsage(i) PROVE Carried(k) \/ TotalPut(k) \/ CallAgain
  <2>1. CASE k = i
    BY <1>14, <2>1 DEF TotalPut
  <2>2. CASE k # i
    BY <1>14, <2>2, <1>b, <1>c, EmitsUsageEffect
       DEF Puts, Others, Carried
  <2> QED
    BY <2>1, <2>2
<1>15. ASSUME NEW i \in Stages, Completes(i) PROVE Carried(k) \/ TotalPut(k) \/ CallAgain
  BY <1>15, <1>b, <1>c, CompletesEffect
     DEF Closes, Others, Breaking, Carried
<1>16. ASSUME NEW i \in Stages, Replay(i) PROVE Carried(k) \/ TotalPut(k) \/ CallAgain
  <2>1. CASE k = i
    BY <1>16, <2>1, <1>b, <1>c, <1>d, ReplayEffect
       DEF Puts, Closes, Others, Carried
  <2>2. CASE k # i
    BY <1>16, <2>2, <1>b, <1>c, ReplayEffect
       DEF Puts, Closes, Others, Carried
  <2> QED
    BY <2>1, <2>2
<1>17. ASSUME NEW i \in Stages, CallbackFails(i) PROVE Carried(k) \/ TotalPut(k) \/ CallAgain
  BY <1>17, <1>b, <1>c, CallbackFailsEffect
     DEF Closes, Others, Breaking, Carried
<1>18. ASSUME NEW j \in 1 .. Consumer, Expire(j) PROVE Carried(k) \/ TotalPut(k) \/ CallAgain
  BY <1>18 DEF Expire, Carried
<1>19. CASE UNCHANGED vars
  BY <1>19 DEF vars, Carried
<1> QED
  BY <1>c, <1>1, <1>2, <1>3, <1>4, <1>5, <1>6, <1>7, <1>8, <1>9, <1>10, <1>11, <1>12, <1>13,
     <1>14, <1>15, <1>16, <1>17, <1>18, <1>19, NextCases

(***************************************************************************)
(* What a wrapper does in a step of its own.                               *)
(***************************************************************************)
Works(k) ==
  /\ pc[k] \in {"starting", "reading", "held", "replay"}
  /\ pc'[k] \in {"starting", "reading", "held", "ended", "replay"}
  /\ told'[k] = told[k] /\ (pc[k] = "reading" \/ usage'[k] = usage[k])
Quits(k) ==
  /\ pc[k] # "done" /\ pc'[k] = "done" /\ told'[k] = told[k] /\ usage'[k] = usage[k]
  /\ str'[k].err # "nil" \/ (CtxDone(k) /\ chain[k] # "processor")
Replayed(k) ==
  /\ pc[k] = "replay" /\ pc'[k] = (IF usage[k] > 0 THEN "usage" ELSE "last")
  /\ str'[k].buf = str[k].buf /\ str'[k].resp = entry.resp
  /\ UNCHANGED <<usage, told, entry>>

LEMMA Wrapped ==
  ASSUME TypeInv, NEW k \in Stages, Wrapper(k)
  PROVE  \/ Works(k) \/ Quits(k) \/ Replayed(k)
         \/ EndsInError(k) \/ EndsClean(k) \/ EmitsUsage(k) \/ Completes(k)
<1>1. k \in 1 .. Consumer /\ k - 1 \in 0 .. N /\ k # Consumer /\ k # k - 1
  BY Places
<1>2. CASE NextUsage(k)
  BY <1>1, <1>2, NextUsageEffect DEF Works
<1>3. CASE NextFrame(k)
  BY <1>1, <1>3, NextFrameEffect DEF Works, Goes
<1>4. CASE NextEnds(k)
  BY <1>1, <1>4, NextEndsEffect DEF Works, Goes
<1>5. CASE AgentStarts(k)
  BY <1>1, <1>5, AgentStartsEffect DEF Works, Quits, Goes, Breaking, Closes
<1>6. CASE Emits(k)
  BY <1>1, <1>6, EmitsEffect DEF Works, Goes
<1>7. CASE EmitFails(k)
  <2>1. chain[k] = "processor" => str'[k].err = "ctx"
    BY <1>7, EmitFailsEffect DEF Closes
  <2> QED
    BY <1>1, <1>7, <2>1, EmitFailsEffect DEF Quits, Goes
<1>8. CASE CallbackFails(k)
  BY <1>1, <1>8, CallbackFailsEffect DEF Quits, Goes, Breaking, Closes
<1>9. CASE Replay(k)
  <2>1. pc[k] = "replay" /\ UNCHANGED <<usage, told, entry>> /\ chain[k] # "processor"
    BY <1>9, ReplayEffect DEF TypeInv, Posts, Post, IsCache
  <2>2. CASE stored # <<>> /\ Puts(k, Head(stored)) /\ stored' = Tail(stored) /\ UNCHANGED pc
    BY <2>1, <2>2 DEF Works
  <2>3. CASE CtxDone(k) /\ Goes(k, "done") /\ Closes(k, "nil") /\ UNCHANGED stored
    BY <2>1, <2>3 DEF Quits, Goes
  <2>4. CASE /\ stored = <<>> /\ UNCHANGED stored /\ Goes(k, IF usage[k] > 0 THEN "usage" ELSE "last")
             /\ str'[k].buf = str[k].buf /\ str'[k].closed = str[k].closed /\ str'[k].err = str[k].err
             /\ str'[k].resp = entry.resp /\ Others(k)
    BY <2>1, <2>4 DEF Replayed, Goes
  <2> QED
    BY <1>9, <2>2, <2>3, <2>4, ReplayEffect
<1> QED
  BY <1>2, <1>3, <1>4, <1>5, <1>6, <1>7, <1>8, <1>9 DEF Wrapper, Runs

\* A wrapper that has returned takes no step.
LEMMA Returned ==
  ASSUME TypeInv, [Next]_vars, ~CallAgain, NEW k \in Stages, pc[k] = "done"
  PROVE  Rests(k)
<1>1. ASSUME Wrapper(k) PROVE FALSE
  <2>1. pc[k] # "done"
    BY <1>1, Wrapped, EndsInErrorEffect, EndsCleanEffect, EmitsUsageEffect, CompletesEffect
       DEF Works, Quits, Replayed
  <2> QED
    BY <2>1
<1> QED
  BY <1>1, Locals

\* A stream that is closed stays so, with its error and its metadata.
LEMMA Sealed ==
  ASSUME TypeInv, Shape, [Next]_vars, ~CallAgain, NEW k \in 0 .. N, str[k].closed
  PROVE  Kept(k)
<1>1. CASE k \in Stages
  <2>1. pc[k] = "done"
    BY <1>1, Writing
  <2> QED
    BY <1>1, <2>1, Returned DEF Rests
<1>2. CASE k = 0
  <2>1. gen.state \notin {"running", "emitting"}
    BY <1>2, Writing
  <2> QED
    BY <1>2, <2>1, Sources, SourceReadsEffect, SourceEmitsEffect, SourceStopsEffect DEF Sourced
<1> QED
  BY <1>1, <1>2, Places

\* No context ended: neither above the wrapper nor its own.
LEMMA Unhurt ==
  ASSUME TypeInv, [Next]_vars, Steady, NEW k \in Stages, Undisturbed', Uncut(k)', pc[k] # "done",
         chain[k] # "processor"
  PROVE  Undisturbed /\ Uncut(k) /\ ~CtxDone(k)
<1>1. Undisturbed /\ Uncut(k)
  BY Fixed DEF Undisturbed, Uncut, Steady
<1>2. k \in 0 .. N
  BY Places
<1> QED
  BY <1>1, <1>2, NotCut DEF Undisturbed

LEMMA StepTalliedAt ==
  ASSUME FlowInv, Tallies, [Next]_vars, ~CallAgain, NEW k \in Stages
  PROVE  TalliedAt(k)'
<1>1. TypeInv /\ Shape /\ Ends /\ TalliedAt(k)
  BY DEF FlowInv, Tallies
<1>2. Steady
  BY <1>1, Steadies
<1>3. /\ k \in 0 .. N /\ k \in 1 .. Consumer /\ k # Consumer /\ k - 1 \in 0 .. N /\ k # 0 /\ k # k - 1
      /\ usage[k] \in Nat
  BY <1>1, Places DEF TypeInv, TypeOK, ReaderType
<1>4. chain' = chain /\ (Replays(k)' <=> Replays(k)) /\ (Replays(k) => entry' = entry)
  BY <1>2, Fixed, Marks DEF Steady, Replays
<1>5. Rests(k) \/ Wrapper(k)
  BY <1>1, Locals
<1>6. /\ Carried(k) \/ EmitsUsage(k)
      /\ Carried(k) => \A u : Carries(k, u) => Carries(k, u)'
  <2>1. Carried(k) \/ EmitsUsage(k)
    BY <1>3, Carrieds DEF TotalPut
  <2>2. ASSUME Carried(k), NEW u, Carries(k, u) PROVE Carries(k, u)'
    <3>1. Bears(str'[k].buf, usage'[k + 1], u)
      BY <1>1, <1>3, <2>2, Carrying
    <3> QED
      BY <3>1 DEF Carries
  <2> QED
    BY <2>1, <2>2
<1>7. CASE Rests(k)
  <2>1. Carried(k)
    <3>1. ASSUME EmitsUsage(k) PROVE FALSE
      BY <1>1, <1>3, <1>7, <3>1, EmitsUsageEffect DEF Rests, Goes
    <3> QED
      BY <1>6, <3>1
  <2>2. \A u : Carries(k, u) => Carries(k, u)'
    BY <1>6, <2>1
  <2>3. Undisturbed' /\ Uncut(k)' => Undisturbed /\ Uncut(k)
    BY <1>2, Fixed DEF Undisturbed, Uncut, Steady
  <2>4. pc[k] \in {"usage", "last"} /\ ~Replays(k) => str'[k - 1].resp = str[k - 1].resp
    <3>1. pc[k] \in {"usage", "last"} /\ ~Replays(k) => str[k - 1].closed
      BY <1>1, <1>3 DEF Ends, Ended, Past
    <3> QED
      BY <1>1, <1>3, <3>1, Sealed DEF Kept
  <2>5. pc'[k] = pc[k] /\ usage'[k] = usage[k] /\ told'[k] = told[k] /\ str'[k].resp = str[k].resp
    BY <1>7 DEF Rests, Kept
  <2> QED
    BY <1>1, <1>4, <2>2, <2>3, <2>4, <2>5 DEF TalliedAt
<1>8. CASE Works(k)
  <2>1. Carried(k)
    BY <1>1, <1>6, <1>8, EmitsUsageEffect DEF Works
  <2>2. Carries(k, 0)'
    BY <1>1, <1>6, <1>8, <2>1 DEF TalliedAt, Works
  <2>3. Replays(k) => usage'[k] = usage[k]
    BY <1>1, <1>8, NoReplay DEF Works
  <2> QED
    BY <1>1, <1>4, <1>8, <2>2, <2>3 DEF TalliedAt, Works
<1>9. CASE Quits(k)
  BY <1>1, <1>4, <1>9 DEF TalliedAt, Quits
<1>10. CASE EndsInError(k)
  <2>1. /\ pc[k] = "ended" /\ pc'[k] = "done" /\ usage'[k] = usage[k]
        /\ chain[k] = "hook" => told'[k] = Append(told[k], [usage |-> usage[k], err |-> serr[k]])
    BY <1>1, <1>3, <1>10, EndsInErrorEffect, TellsEffect DEF Goes
  <2>2. chain[k] = "hook" => Len(told'[k]) <= 1
    BY <1>1, <2>1 DEF TalliedAt
  <2> QED
    BY <1>1, <1>4, <2>1, <2>2 DEF TalliedAt
<1>11. CASE EndsClean(k)
  <2>1. /\ pc[k] = "ended" /\ usage'[k] = usage[k] /\ ~Replays(k)
        /\ chain[k] = "hook" => /\ told'[k] = Append(told[k], [usage |-> usage[k], err |-> serr[k]])
                                /\ pc'[k] = "done"
        /\ \/ /\ pc'[k] = (IF usage[k] > 0 THEN "usage" ELSE "last")
              /\ str'[k].resp = str[k - 1].resp /\ str'[k - 1] = str[k - 1]
           \/ pc'[k] = "done"
    BY <1>1, <1>3, <1>11, EndsCleanEffect, TellsEffect, NoReplay DEF Goes, Others
  <2>2. chain[k] = "hook" => Len(told'[k]) <= 1
    BY <1>1, <2>1 DEF TalliedAt
  <2>3. Carries(k, 0)'
    BY <1>1, <1>6, <2>1, <1>11, EmitsUsageEffect DEF TalliedAt
  <2> QED
    BY <1>1, <1>3, <1>4, <2>1, <2>2, <2>3 DEF TalliedAt
<1>12. CASE EmitsUsage(k)
  <2>1. /\ pc[k] = "usage" /\ pc'[k] = "last" /\ UNCHANGED <<usage, told, entry>> /\ usage[k] # 0
        /\ Puts(k, Total(usage[k])) \/ (CtxDone(k) /\ UNCHANGED str)
        /\ chain[k] # "processor" /\ chain[k] # "hook"
    BY <1>1, <1>3, <1>12, EmitsUsageEffect DEF Goes, TalliedAt, TypeInv, Posts, Post
  <2>2. str'[k].resp = str[k].resp /\ str'[k - 1].resp = str[k - 1].resp
    BY <1>3, <2>1 DEF Puts, Kept, Others
  <2>3. Undisturbed' /\ Uncut(k)' => Carries(k, usage[k])'
    <3> SUFFICES ASSUME Undisturbed', Uncut(k)' PROVE Bears(str'[k].buf, usage'[k + 1], usage[k])
      BY <2>1 DEF Carries
    <3>1. ~CtxDone(k)
      BY <1>1, <1>2, <2>1, Unhurt
    <3>2. str'[k].buf = Append(str[k].buf, Total(usage[k]))
      BY <2>1, <3>1 DEF Puts
    <3>3. Bears(str[k].buf, usage[k + 1], 0)
      BY <1>1, <2>1 DEF TalliedAt, Carries
    <3>4. Bears(Append(str[k].buf, Total(usage[k])), usage[k + 1], usage[k])
      BY <1>1, <1>3, <2>1, <3>3, Typed, BearsAppend
    <3> QED
      BY <2>1, <3>2, <3>4
  <2> QED
    BY <1>1, <1>4, <2>1, <2>2, <2>3 DEF TalliedAt
<1>13. CASE Completes(k)
  <2>1. pc'[k] = "done" /\ UNCHANGED <<usage, told>> /\ chain[k] # "hook"
    BY <1>1, <1>3, <1>13, CompletesEffect DEF Goes, TypeInv, Posts, Post
  <2> QED
    BY <1>1, <1>4, <2>1 DEF TalliedAt
<1>14. CASE Replayed(k)
  <2>1. Replays(k) /\ chain[k] # "hook"
    BY <1>1, <1>14 DEF Replayed, TypeInv, Posts, Post, Replays, IsCache
  <2>2. Carries(k, 0)'
    BY <1>1, <1>6, <1>14, EmitsUsageEffect DEF TalliedAt, Replayed
  <2> QED
    BY <1>1, <1>3, <1>4, <1>14, <2>1, <2>2 DEF TalliedAt, Replayed
<1> QED
  BY <1>1, <1>5, <1>7, <1>8, <1>9, <1>10, <1>11, <1>12, <1>13, <1>14, Wrapped

(***************************************************************************)
(* The other parts, step by step.                                          *)
(***************************************************************************)
LEMMA StepSourceTallied ==
  ASSUME FlowInv, Tallies, [Next]_vars, ~CallAgain
  PROVE  SourceTallied'
<1>1. TypeInv /\ SourceTallied /\ 0 \in 0 .. N /\ 0 \notin Stages
  BY Places DEF FlowInv, Tallies
<1>2. Sourced
  BY <1>1, Sources
<1>3. /\ Carried(0) \/ (SourceEmits /\ held[0].kind = "usage")
      /\ Carried(0) => \A u : Carries(0, u) => Carries(0, u)'
  <2>1. ASSUME Carried(0), NEW u, Carries(0, u) PROVE Carries(0, u)'
    <3>1. Bears(str'[0].buf, usage'[0 + 1], u)
      BY <1>1, <2>1, Carrying
    <3> QED
      BY <3>1 DEF Carries
  <2> QED
    BY <1>1, <2>1, Carrieds DEF TotalPut
<1>4. CASE gen' = gen /\ held'[0] = held[0] /\ Kept(0)
  <2>1. Carried(0) \/ gen'.state = "running"
    BY <1>1, <1>3, SourceEmitsEffect
  <2>2. Carried(0)
    <3>1. ASSUME SourceEmits PROVE FALSE
      BY <1>1, <1>4, <3>1, SourceEmitsEffect
    <3> QED
      BY <1>3, <3>1
  <2> QED
    BY <1>1, <1>3, <1>4, <2>2 DEF SourceTallied
<1>5. CASE SourceReads
  <2>1. /\ gen.state = "running" /\ gen'.state = "emitting"
        /\ \/ held'[0].kind = "data" /\ gen'.usage = gen.usage
           \/ gen.usage = 0 /\ gen'.usage = 1 /\ held'[0] = Total(1)
    BY <1>1, <1>5, SourceReadsEffect DEF Data
  <2>2. Bears(str'[0].buf, usage'[0 + 1], gen.usage)
    <3>1. str' = str /\ usage' = usage
      BY <1>1, <1>5, SourceReadsEffect
    <3>2. Bears(str[0].buf, usage[0 + 1], gen.usage)
      BY <1>1, <2>1 DEF SourceTallied, Carries
    <3> QED
      BY <3>1, <3>2
  <2>3. held'[0].kind = "data" => Carries(0, gen.usage)'
    <3>1. Total(1).kind = "usage"
      BY DEF Total
    <3> QED
      BY <2>1, <2>2, <3>1 DEF Carries
  <2>4. held'[0].kind = "usage" => held'[0] = Total(1) /\ gen'.usage = 1 /\ Carries(0, 0)'
    BY <2>1, <2>2 DEF Carries
  <2> QED
    BY <2>1, <2>3, <2>4 DEF SourceTallied
<1>6. CASE SourceEmits
  <2>1. /\ gen.state = "emitting" /\ gen'.state = "running" /\ gen'.usage = gen.usage
        /\ Puts(0, held[0]) /\ held[0] \in RelayFrame /\ usage' = usage
    BY <1>1, <1>6, SourceEmitsEffect
  <2>2. CASE held[0].kind = "data"
    <3>1. Carried(0)
      BY <1>3, <2>2
    <3> QED
      BY <1>1, <1>3, <2>1, <2>2, <3>1 DEF SourceTallied
  <2>3. CASE held[0].kind = "usage"
    <3>1. held[0] = Total(1) /\ gen.usage = 1 /\ Bears(str[0].buf, usage[0 + 1], 0)
      BY <1>1, <2>1, <2>3 DEF SourceTallied, Carries
    <3>2. Bears(Append(str[0].buf, Total(1)), usage[0 + 1], 1)
      BY <1>1, <3>1, Typed, BearsAppend
    <3>3. Carries(0, gen.usage)'
      BY <2>1, <3>1, <3>2 DEF Carries, Puts
    <3> QED
      BY <2>1, <3>3 DEF SourceTallied
  <2> QED
    BY <2>1, <2>2, <2>3 DEF RelayFrame
<1>7. CASE SourceEnds \/ SourceFails \/ SourceCut
  BY <1>1, <1>7, SourceStopsEffect DEF SourceTallied
<1> QED
  BY <1>2, <1>4, <1>5, <1>6, <1>7 DEF Sourced

\* What a wrapper has read and what it passes on when it is about to close its stream.
LEMMA AboutToClose ==
  ASSUME FlowInv, Tallies, NEW k \in Stages, pc[k] \in {"ended", "usage", "last"},
         Replays(k) \/ serr[k] = "nil", Undisturbed, Uncut(k)
  PROVE  /\ ~Replays(k) => ClosedClean(k - 1) /\ gen.state = "complete"
         /\ Passes(k - 1) => usage[k] = gen.usage
         /\ Passes(k - 1) /\ pc[k] = "last" => str[k].resp = gen.resp
<1>1. /\ TypeInv /\ Shape /\ Ends /\ TalliedAt(k) /\ EntryTallied
      /\ k \in 1 .. Consumer /\ k - 1 \in 0 .. N /\ k \in Nat /\ k # Consumer
  BY Places DEF FlowInv, Tallies
<1>2. CASE Replays(k)
  <2>1. gen = entry.of /\ entry.present /\ entry.calm
    BY <1>1, <1>2 DEF FlowInv, Numbered, Replays, TypeInv, Entered, Undisturbed
  <2> QED
    BY <1>1, <1>2, <2>1 DEF TalliedAt, EntryTallied
<1>3. CASE ~Replays(k)
  <2>1. PICK w \in Counts : Flow(w)
    BY DEF FlowInv
  <2>2. Uncut(k - 1)
    BY <1>1, Places DEF Uncut
  <2>3. ClosedClean(k - 1) /\ Clean(k - 1, w) /\ str[k - 1].buf = <<>>
    BY <1>1, <1>3, <2>1, <2>2, AtEnd DEF Past
  <2>4. Passes(k - 1) => Bears(<<>>, usage[(k - 1) + 1], gen.usage) /\ str[k - 1].resp = gen.resp
    BY <1>1, <2>3 DEF Tallies, TotalAt, Carries
  <2>5. Passes(k - 1) => usage[k] = gen.usage /\ str[k - 1].resp = gen.resp
    <3>1. (k - 1) + 1 = k
      BY <1>1
    <3> QED
      BY <2>4, <3>1, BearsEmpty
  <2> QED
    BY <1>1, <1>3, <2>3, <2>5 DEF Clean, TalliedAt
<1> QED
  BY <1>2, <1>3

LEMMA StepEntryTallied ==
  ASSUME FlowInv, Tallies, [Next]_vars
  PROVE  EntryTallied'
<1>1. TypeInv /\ EntryTallied
  BY DEF FlowInv, Tallies
<1>2. CASE entry' = entry
  BY <1>1, <1>2 DEF EntryTallied
<1>3. ASSUME NEW k \in Stages, Completes(k), IsCache(k), ~hit PROVE EntryTallied'
  <2> DEFINE c == expired = {} /\ ~CtxDone(k)
  <2>1. /\ pc[k] = "last"
        /\ entry' = [present |-> TRUE, frames |-> stored, usage |-> usage[k], resp |-> str[k].resp,
                     of |-> Made, calm |-> c]
    BY <1>1, <1>3, CompletesEffect
  <2> HIDE DEF c
  <2>2. entry'.calm = c /\ entry'.usage = usage[k] /\ entry'.resp = str[k].resp /\ entry'.of = Made
    BY <2>1
  <2> SUFFICES ASSUME c PROVE entry'.usage = entry'.of.usage /\ entry'.resp = entry'.of.resp
    BY <2>2 DEF EntryTallied
  <2>3. expired = {} /\ ~CtxDone(k)
    BY DEF c
  <2>4. Undisturbed /\ Uncut(k) /\ ~Replays(k)
    BY <1>1, <1>3, <2>3, Places DEF Undisturbed, Uncut, CtxDone, Replays
  <2>5. serr[k] = "nil"
    BY <1>1, <2>1, <2>4, Places DEF FlowInv, Ends, Ended
  <2>6. Passes(k - 1)
    BY <1>1, <1>3, ChainFacts DEF Passes, PassesTotals, TypeInv, TypeOK
  <2>7. gen.state = "complete" /\ usage[k] = gen.usage /\ str[k].resp = gen.resp
    BY <2>1, <2>4, <2>5, <2>6, AboutToClose
  <2>8. Made = gen
    BY <2>7 DEF Made, SourceDone
  <2> QED
    BY <2>2, <2>7, <2>8
<1>4. ASSUME NEW k \in Stages, Completes(k), ~(IsCache(k) /\ ~hit) PROVE entry' = entry
  BY <1>1, <1>4, CompletesEffect
<1> QED
  BY <1>1, <1>2, <1>3, <1>4, Stores

\* How a wrapper comes to close its stream without an error.
LEMMA Closing ==
  ASSUME FlowInv, Tallies, [Next]_vars, ~CallAgain, NEW k \in Stages, ClosedClean(k)', ~str[k].closed
  PROVE  /\ Undisturbed /\ Uncut(k) /\ UNCHANGED <<gen, usage>>
         /\ pc[k] \in {"ended", "usage", "last"} /\ (Replays(k) \/ serr[k] = "nil")
         /\ \/ EndsClean(k) /\ chain[k] \in {"hook", "processor"}
            \/ Completes(k) /\ pc[k] = "last" /\ chain[k] # "hook" /\ str'[k].resp = str[k].resp
<1>1. TypeInv /\ Shape /\ Ends /\ Steady /\ k \in 0 .. N /\ k \in 1 .. Consumer
  BY Steadies, Places DEF FlowInv
<1>2. Undisturbed /\ Uncut(k)
  BY <1>1, Before
<1>3. str'[k].closed /\ str'[k].err = "nil" /\ Undisturbed' /\ Uncut(k)'
  BY DEF ClosedClean
<1>4. ~Rests(k)
  BY <1>3 DEF Rests, Kept
<1>5. Wrapper(k)
  BY <1>1, <1>4, Locals
<1>6. pc'[k] = "done"
  <2>1. Shape' /\ ~Idle(k)'
    <3>1. TypeInv' /\ Shape'
      BY StepTypeShape DEF FlowInv
    <3>2. k \in (0 .. N)'
      BY <1>1, Fixed
    <3> QED
      BY <1>3, <3>1, <3>2 DEF Shape, IdleShape
  <2>2. k \in Stages'
    BY Fixed
  <2> QED
    BY <1>3, <2>1, <2>2 DEF Shape, WrapperShape, Shaped
<1>7. ~Works(k) /\ ~Replayed(k)
  BY <1>6 DEF Works, Replayed
<1>8. ~Quits(k)
  BY <1>1, <1>3, Unhurt DEF Quits
<1>9. ~EndsInError(k)
  BY <1>1, <1>3, EndsInErrorEffect DEF Closes
<1>10. ~EmitsUsage(k)
  BY <1>1, <1>6, EmitsUsageEffect DEF Goes
<1>11. CASE EndsClean(k)
  <2>1. /\ pc[k] = "ended" /\ serr[k] = "nil" /\ UNCHANGED <<gen, usage>>
        /\ \/ pc'[k] = (IF usage[k] > 0 THEN "usage" ELSE "last")
           \/ chain[k] \in {"hook", "processor"}
    BY <1>1, <1>11, EndsCleanEffect DEF Goes
  <2> QED
    BY <1>2, <1>6, <1>11, <2>1
<1>12. CASE Completes(k)
  <2>1. /\ pc[k] = "last" /\ UNCHANGED <<gen, usage>> /\ chain[k] # "hook"
        /\ (Closes(k, "nil") /\ str'[k].resp = str[k].resp) \/ Breaking(k)
    BY <1>1, <1>12, CompletesEffect DEF TypeInv, Posts, Post
  <2>2. str'[k].resp = str[k].resp
    BY <1>3, <2>1 DEF Breaking, Closes
  <2>3. Replays(k) \/ serr[k] = "nil"
    BY <1>1, <2>1 DEF Ends, Ended
  <2> QED
    BY <1>2, <1>12, <2>1, <2>2, <2>3
<1> QED
  BY <1>1, <1>5, <1>7, <1>8, <1>9, <1>10, <1>11, <1>12, Wrapped

\* A stream that had ended cleanly: everything below it has returned and rests.
LEMMA AtRest ==
  ASSUME FlowInv, [Next]_vars, ~CallAgain, NEW k \in 0 .. N, ClosedClean(k)
  PROVE  gen' = gen /\ Kept(k) /\ Carried(k) /\ \A j \in 1 .. k : j \in Stages /\ Rests(j)
<1>1. TypeInv /\ Shape /\ Steady
  BY Steadies DEF FlowInv
<1>2. PICK w \in Counts : Flow(w)
  BY DEF FlowInv
<1>3. gen.state = "complete" /\ \A j \in 1 .. k : pc[j] = "done"
  BY <1>2 DEF Flow, WholeAt, Clean
<1>4. \A j \in 1 .. k : j \in Stages
  BY <1>1, Places
<1>5. \A j \in 1 .. k : Rests(j)
  BY <1>1, <1>3, <1>4, Returned
<1>6. gen' = gen /\ Kept(k)
  BY <1>1, <1>3, Sealed DEF Steady, ClosedClean
<1>7. ~TotalPut(k)
  <2>1. ~SourceEmits
    BY <1>1, <1>3, SourceEmitsEffect
  <2>2. ASSUME k \in Stages, EmitsUsage(k) PROVE FALSE
    <3>1. k \in 1 .. k
      BY <1>1, <2>2, Places
    <3> QED
      BY <1>1, <1>3, <2>2, <3>1, EmitsUsageEffect
  <2> QED
    BY <2>1, <2>2 DEF TotalPut
<1> QED
  BY <1>4, <1>5, <1>6, <1>7, Carrieds

LEMMA StepTotalAt ==
  ASSUME FlowInv, Tallies, [Next]_vars, ~CallAgain, NEW k \in 0 .. N
  PROVE  TotalAt(k)'
<1> SUFFICES ASSUME ClosedClean(k)', Passes(k)' PROVE Carries(k, gen.usage)' /\ str'[k].resp = gen'.resp
  BY DEF TotalAt
<1>1. TypeInv /\ Shape /\ Steady /\ TotalAt(k) /\ SourceTallied /\ 0 \notin Stages
  BY Steadies, Places DEF FlowInv, Tallies
<1>2. Passes(k) /\ \A j \in 1 .. k : PassesTotals(j)
  BY Fixed DEF Passes, PassesTotals
<1>3. Undisturbed /\ Uncut(k) /\ str'[k].closed /\ str'[k].err = "nil"
  BY <1>1, Before DEF ClosedClean
<1>4. CASE str[k].closed
  <2>1. ClosedClean(k)
    BY <1>1, <1>3, <1>4, Sealed DEF ClosedClean, Kept
  <2>2. gen' = gen /\ Kept(k) /\ Carried(k)
    BY <2>1, AtRest
  <2>3. Carries(k, gen.usage) /\ str[k].resp = gen.resp
    BY <1>1, <1>2, <2>1 DEF TotalAt
  <2>4. Bears(str'[k].buf, usage'[k + 1], gen.usage)
    BY <1>1, <2>2, <2>3, Carrying
  <2> QED
    BY <2>2, <2>3, <2>4 DEF Carries, Kept
<1>5. CASE ~str[k].closed /\ k \in Stages
  <2>1. k \in 0 .. N /\ k \in 1 .. k /\ \A j \in 1 .. k - 1 : j \in 1 .. k
    BY <1>1, <1>5, Places
  <2>2. chain[k] \notin {"hook", "processor"} /\ Passes(k - 1)
    BY <1>2, <2>1 DEF Passes, PassesTotals
  <2>3. /\ pc[k] = "last" /\ Completes(k) /\ (Replays(k) \/ serr[k] = "nil")
        /\ UNCHANGED <<gen, usage>> /\ str'[k].resp = str[k].resp
    BY <1>5, <2>2, Closing
  <2>4. usage[k] = gen.usage /\ str[k].resp = gen.resp
    BY <1>3, <1>5, <2>2, <2>3, AboutToClose
  <2>5. Carries(k, usage[k])
    BY <1>3, <1>5, <2>3 DEF Tallies, TalliedAt
  <2>6. str'[k].buf = str[k].buf
    BY <1>1, <1>5, <2>3, CompletesEffect DEF Closes, Breaking
  <2> QED
    BY <2>3, <2>4, <2>5, <2>6 DEF Carries
<1>6. CASE ~str[k].closed /\ k = 0
  <2>1. ~Kept(0)
    BY <1>3, <1>6 DEF Kept
  <2>2. SourceEnds \/ SourceFails \/ SourceCut
    BY <1>1, <1>3, <1>6, <2>1, Sources, SourceReadsEffect, SourceEmitsEffect DEF Sourced, Puts, Kept
  <2>3. ~CtxDone(0)
    BY <1>1, <1>3, <1>6, NotCut DEF Undisturbed
  <2>4. /\ gen.state = "running" /\ gen'.usage = gen.usage /\ usage' = usage
        /\ str'[0].buf = str[0].buf /\ str'[0].resp = gen'.resp
    BY <1>1, <1>3, <1>6, <2>2, <2>3, SourceStopsEffect DEF Closes
  <2> QED
    BY <1>1, <1>6, <2>4 DEF SourceTallied, Carries
<1> QED
  BY <1>1, <1>4, <1>5, <1>6, Places

LEMMA StepToldAt ==
  ASSUME FlowInv, Tallies, [Next]_vars, ~CallAgain, NEW k \in 0 .. N
  PROVE  ToldAt(k)'
<1> SUFFICES ASSUME ClosedClean(k)', NEW j \in 1 .. k, chain[j] = "hook", Passes(j - 1)
             PROVE  told'[j] = <<[usage |-> gen'.usage, err |-> "nil"]>>
  BY Fixed DEF ToldAt, Passes, PassesTotals
<1>1. /\ TypeInv /\ Shape /\ Steady /\ j \in Stages /\ k \in Stages /\ k \in Nat /\ j \in Nat /\ j <= k
      /\ k - 1 \in 0 .. N
  BY Steadies, Places DEF FlowInv
<1>2. Undisturbed /\ Uncut(k) /\ str'[k].closed /\ str'[k].err = "nil"
  BY <1>1, Before DEF ClosedClean
<1>3. ASSUME NEW i \in 0 .. N, ClosedClean(i), j <= i PROVE told'[j] = <<[usage |-> gen'.usage, err |-> "nil"]>>
  <2>1. j \in 1 .. i
    BY <1>1, <1>3
  <2>2. gen' = gen /\ Rests(j)
    BY <1>3, <2>1, AtRest
  <2>3. told[j] = <<[usage |-> gen.usage, err |-> "nil"]>>
    BY <1>3, <2>1 DEF Tallies, ToldAt
  <2> QED
    BY <2>2, <2>3 DEF Rests
<1>4. CASE str[k].closed
  <2>1. ClosedClean(k)
    BY <1>1, <1>2, <1>4, Sealed DEF ClosedClean, Kept
  <2> QED
    BY <1>1, <1>3, <2>1
<1>5. CASE ~str[k].closed
  <2>1. /\ pc[k] \in {"ended", "usage", "last"} /\ (Replays(k) \/ serr[k] = "nil") /\ UNCHANGED <<gen, usage>>
        /\ \/ EndsClean(k) /\ chain[k] \in {"hook", "processor"}
           \/ Completes(k) /\ chain[k] # "hook"
    BY <1>1, <1>5, Closing
  <2>2. CASE j = k
    <3>1. EndsClean(k) /\ usage[k] = gen.usage
      BY <1>1, <1>2, <2>1, <2>2, AboutToClose
    <3>2. pc[k] = "ended" /\ serr[k] = "nil" /\ told'[k] = Append(told[k], [usage |-> usage[k], err |-> serr[k]])
      BY <1>1, <2>2, <3>1, EndsCleanEffect, TellsEffect
    <3>3. told[k] = <<>>
      BY <1>1, <2>2, <3>2 DEF Tallies, TalliedAt
    <3> QED
      BY <2>1, <2>2, <3>1, <3>2, <3>3
  <2>3. CASE j # k
    <3>1. ~Replays(k)
      <4> SUFFICES ASSUME Replays(k) PROVE FALSE
        OBVIOUS
      <4>1. j \in 1 .. k - 1
        BY <1>1, <2>3
      <4> QED
        BY <1>1, <4>1, ChainFacts DEF Replays, TypeInv, TypeOK
    <3>2. ClosedClean(k - 1)
      BY <1>1, <1>2, <2>1, <3>1, AboutToClose
    <3> QED
      BY <1>1, <1>3, <2>3, <3>2
  <2> QED
    BY <2>2, <2>3
<1> QED
  BY <1>4, <1>5

LEMMA CallAgainTallies ==
  ASSUME FlowInv, Tallies, [Next]_vars, CallAgain
  PROVE  Tallies'
<1>1. TypeInv /\ Shape /\ EntryTallied /\ N' = N /\ Stages' = Stages /\ Consumer' = Consumer /\ chain' = chain
  BY Fixed DEF FlowInv, Tallies
<1>2. /\ entry.present /\ entry' = entry /\ hit' = TRUE /\ gen' = entry.of
      /\ \A k \in 0 .. N : str'[k].buf = <<>> /\ ~str'[k].closed
      /\ \A k \in 1 .. Consumer : /\ Above(k) => pc'[k] = "done"
                                  /\ pc'[k] \notin {"usage", "last"}
                                  /\ usage'[k] = (IF IsCache(k) THEN entry.usage ELSE 0)
      /\ \A k \in Stages : told'[k] = <<>>
  BY <1>1, CallAgainEffect
<1>3. SourceTallied'
  BY <1>1, <1>2 DEF Shape, EntryShape, SourceTallied
<1>4. EntryTallied'
  BY <1>1, <1>2 DEF EntryTallied
<1>5. ASSUME NEW k \in Stages PROVE TalliedAt(k)'
  <2>1. k \in 1 .. Consumer /\ k \in 0 .. N /\ k + 1 \in 1 .. Consumer /\ k < k + 1
    BY <1>1, Places
  <2>2. pc'[k] # "done" => usage'[k + 1] = 0
    <3>1. IsCache(k + 1) => Above(k)
      BY <2>1 DEF Above, IsCache
    <3> QED
      BY <1>2, <2>1, <3>1
  <2>3. pc'[k] \notin {"last", "done"} => Carries(k, 0)'
    BY <1>2, <2>1, <2>2, BearsEmpty DEF Carries
  <2>4. Replays(k)' => usage'[k] = entry'.usage
    BY <1>1, <1>2, <2>1 DEF Replays, IsCache
  <2>5. Len(told'[k]) <= 1 /\ told'[k] = <<>>
    BY <1>2
  <2> QED
    BY <1>2, <2>1, <2>3, <2>4, <2>5 DEF TalliedAt
<1>6. ASSUME NEW k \in 0 .. N PROVE TotalAt(k)' /\ ToldAt(k)'
  BY <1>2 DEF TotalAt, ToldAt, ClosedClean
<1> QED
  BY <1>1, <1>3, <1>4, <1>5, <1>6 DEF Tallies

(***************************************************************************)
(* The invariant, and what follows from it.                                *)
(***************************************************************************)
TotalInv == FlowInv /\ Tallies

LEMMA InitTotalInv == Init => TotalInv
<1> SUFFICES ASSUME Init PROVE TotalInv
  OBVIOUS
<1>1. FlowInv /\ TypeInv
  BY InitFlowInv DEF FlowInv
<1>2. /\ ~hit /\ gen.usage = 0 /\ gen.state = "running" /\ ~entry.present
      /\ \A k \in 0 .. N : str[k].buf = <<>> /\ ~str[k].closed
      /\ \A k \in 1 .. Consumer : pc[k] \in {"starting", "reading"} /\ usage[k] = 0
      /\ \A k \in Stages : told[k] = <<>>
  BY DEF Init, Fresh, NoEntry, Stream, Start
<1>3. \A k \in 0 .. N : k + 1 \in 1 .. Consumer
  BY <1>1, Places
<1>4. \A k \in 0 .. N : Carries(k, 0)
  BY <1>2, <1>3, BearsEmpty DEF Carries
<1>5. SourceTallied /\ EntryTallied
  BY <1>1, <1>2, <1>4, Places DEF SourceTallied, EntryTallied
<1>6. ASSUME NEW k \in Stages PROVE TalliedAt(k)
  <2>1. k \in 0 .. N /\ k \in 1 .. Consumer
    BY <1>1, Places
  <2>2. Len(told[k]) <= 1
    BY <1>2
  <2> QED
    BY <1>2, <1>4, <2>1, <2>2 DEF TalliedAt, Replays
<1> QED
  BY <1>1, <1>2, <1>5, <1>6 DEF TotalInv, Tallies, TotalAt, ToldAt, ClosedClean

LEMMA StepTotalInv == TotalInv /\ [Next]_vars => TotalInv'
<1> SUFFICES ASSUME FlowInv, Tallies, [Next]_vars PROVE TotalInv'
  BY DEF TotalInv
<1>1. FlowInv'
  BY StepFlowInv
<1>2. CASE CallAgain
  BY <1>1, <1>2, CallAgainTallies DEF TotalInv
<1>3. CASE ~CallAgain
  <2>1. SourceTallied' /\ EntryTallied'
    BY <1>3, StepSourceTallied, StepEntryTallied
  <2>2. \A k \in Stages : TalliedAt(k)'
    BY <1>3, StepTalliedAt
  <2>3. \A k \in 0 .. N : TotalAt(k)' /\ ToldAt(k)'
    BY <1>3, StepTotalAt, StepToldAt
  <2>4. N' = N /\ Stages' = Stages
    BY Fixed
  <2>5. Tallies'
    BY <2>1, <2>2, <2>3, <2>4 DEF Tallies
  <2> QED
    BY <1>1, <2>5 DEF TotalInv
<1> QED
  BY <1>2, <1>3

LEMMA TotalInvariant == Spec => []TotalInv
BY InitTotalInv, StepTotalInv, PTL DEF Spec

\* Every entry of the cache that was filled with no context ended is the whole
\* response, with its usage and its metadata, whatever is around the cache.
THEOREM CachedWholeAlways == Spec => []CachedWhole
<1>1. TotalInv => CachedWhole
  <2> SUFFICES ASSUME TotalInv, entry.present, entry.calm
               PROVE  /\ entry.of.state = "complete" /\ entry.frames = entry.of.frames
                      /\ entry.usage = entry.of.usage /\ entry.resp = entry.of.resp
    BY DEF CachedWhole
  <2>1. TypeInv /\ EntryNumbered /\ EntryTallied
    BY DEF TotalInv, FlowInv, Numbered, Tallies
  <2>2. entry.frames \in Seq(RelayFrame) /\ entry.of.frames \in Seq(RelayFrame)
    BY <2>1, EntryFields DEF TypeInv, TypeOK, Entry, Generation
  <2>3. entry.frames = entry.of.frames
    BY <2>1, <2>2, SeqEqual DEF EntryNumbered, Numbers
  <2> QED
    BY <2>1, <2>3 DEF EntryNumbered, EntryTallied
<1> QED
  BY <1>1, TotalInvariant, PTL

\* Usage and metadata cross the wrappers that pass them on, once, and a hook is told
\* at most once and of the usage of the whole generation.
THEOREM TotalsReportedAlways == Spec => []TotalsReported
<1>1. TotalInv => TotalsReported
  <2> SUFFICES ASSUME TotalInv PROVE TotalsReported
    OBVIOUS
  <2>1. FlowInv /\ TypeInv /\ Tallies
    BY DEF TotalInv, FlowInv
  <2>2. N \in 0 .. N /\ N + 1 = Consumer /\ Stages = 1 .. N
    BY <2>1, Places
  <2>3. EndedClean /\ Undisturbed => ClosedClean(N) /\ str[N].buf = <<>>
    BY <2>1, ConsumerAtEnd
  <2>4. HookInformed
    BY <2>1, <2>2, <2>3 DEF HookInformed, Tallies, TalliedAt, ToldAt, Passes
  <2>5. ASSUME EndedClean, Undisturbed, \A i \in Stages : PassesTotals(i)
        PROVE  usage[Consumer] = gen.usage /\ str[N].resp = gen.resp
    <3>1. Bears(<<>>, usage[Consumer], gen.usage) /\ str[N].resp = gen.resp
      BY <2>1, <2>2, <2>3, <2>5 DEF Tallies, TotalAt, Passes, Carries
    <3> QED
      BY <3>1, BearsEmpty
  <2> QED
    BY <2>4, <2>5 DEF TotalsReported
<1> QED
  BY <1>1, TotalInvariant, PTL

===============================================================================
