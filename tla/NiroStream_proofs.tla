-------------------------- MODULE NiroStream_proofs --------------------------
(***************************************************************************)
(* Proofs about NiroStream, for any set of writers and of contexts, any    *)
(* buffer sizes and any bounds on the calls.                               *)
(***************************************************************************)
EXTENDS NiroStream, FiniteSetTheorems, TLAPS

(***************************************************************************)
(* Type correctness.  What enters the channel is the frame of a writer     *)
(* that is inside Emit's select, so the types need to know that such a     *)
(* writer has one.                                                         *)
(***************************************************************************)
FrameHeld == \A w \in Writers : wpc[w] \in Emitting => wframe[w] \in Frame

TypeInv == TypeOK /\ FrameHeld

LEMMA InitType == Init => TypeInv
<1> SUFFICES ASSUME Init PROVE TypeInv
  OBVIOUS
<1>1. buf \in Seq(Frame) /\ size \in Nat
  <2>1. CASE NewStream
    BY <2>1, BoundAssumption DEF NewStream
  <2>2. CASE StreamFromSlice
    BY <2>2, BoundAssumption DEF StreamFromSlice, Frame, Kinds
  <2> QED
    BY <2>1, <2>2 DEF Init
<1>2. wpc \in [Writers -> {"idle", "finished"}]
  BY DEF Init, NewStream, StreamFromSlice
<1>3. PipeType
  BY <1>1 DEF Init, NewStream, StreamFromSlice, PipeType
<1>4. WriterType
  BY <1>2 DEF Init, WriterType
<1>5. ReaderType
  BY DEF Init, ReaderType
<1>6. HistoryType
  <2>1. accepted \in Seq(Frame) /\ received \in Seq(Frame)
    BY <1>1 DEF Init
  <2>2. winner \in {"none", "close", "error"} /\ ended \in BOOLEAN /\ apart \in BOOLEAN
    BY DEF Init, NewStream, StreamFromSlice
  <2> QED
    BY <2>1, <2>2 DEF HistoryType
<1>7. FrameHeld
  BY <1>2 DEF FrameHeld, Emitting
<1> QED
  BY <1>3, <1>4, <1>5, <1>6, <1>7 DEF TypeInv, TypeOK

\* Leaving Emit keeps the types of the writers' variables.
LEMMA ReturnType ==
  ASSUME WriterType, FrameHeld, NEW S, Return(S)
  PROVE  /\ wpc' \in [Writers -> {"idle", "panicked", "finished"} \cup Closing \cup Emitting]
         /\ wframe' \in [Writers -> Frame \cup {NoFrame}]
         /\ wctx' \in [Writers -> Ctxs \cup {Background}]
         /\ ahead' \in [Writers -> SUBSET Writers]
         /\ FrameHeld'
BY DEF WriterType, FrameHeld, Return, Emitting

\* The reader's variables keep their types when it takes a frame.
LEMMA TakeType ==
  ASSUME ReaderType, received \in Seq(Frame), NEW f \in Frame, Take(f), UNCHANGED cancelled
  PROVE  ReaderType' /\ received' \in Seq(Frame)
BY DEF ReaderType, Take

LEMMA StepType == TypeInv /\ [Next]_vars => TypeInv'
<1> SUFFICES ASSUME TypeInv, [Next]_vars PROVE TypeInv'
  OBVIOUS
<1> USE DEF TypeInv, TypeOK, PipeType, WriterType, ReaderType, HistoryType, FrameHeld,
            Closing, Emitting, Go, chan, flags, call, reader, log, verdict
<1>1. ASSUME NEW w \in Writers, EmitRefused(w) PROVE TypeInv'
  BY <1>1 DEF EmitRefused, EmitCall
<1>2. ASSUME NEW w \in Writers, NEW kind \in Kinds, NEW c \in Ctxs \cup {Background},
             EmitLoad(w, kind, c)
      PROVE  TypeInv'
  BY <1>2 DEF EmitLoad, EmitCall, Frame
<1>3. ASSUME NEW w \in Writers, EmitGivesUp(w) PROVE TypeInv'
  BY <1>3, ReturnType DEF EmitGivesUp
<1>4. ASSUME NEW w \in Writers, EmitBuffers(w) PROVE TypeInv'
  <2>1. wframe[w] \in Frame
    BY <1>4 DEF EmitBuffers
  <2>2. buf' \in Seq(Frame) /\ accepted' \in Seq(Frame)
    BY <1>4, <2>1 DEF EmitBuffers, Accepts
  <2> QED
    BY <1>4, <2>2, ReturnType DEF EmitBuffers
<1>5. ASSUME NEW w \in Writers, EmitHandsOver(w) PROVE TypeInv'
  <2>1. wframe[w] \in Frame
    BY <1>5 DEF EmitHandsOver
  <2>2. accepted' \in Seq(Frame)
    BY <1>5, <2>1 DEF EmitHandsOver, Accepts
  <2>3. ReaderType' /\ received' \in Seq(Frame)
    BY <1>5, <2>1, TakeType DEF EmitHandsOver
  <2> QED
    BY <1>5, <2>2, <2>3, ReturnType DEF EmitHandsOver
<1>6. ASSUME NEW w \in Writers, EmitPanics(w) PROVE TypeInv'
  BY <1>6 DEF EmitPanics
<1>7. ASSUME NEW w \in Writers, EmitParks(w) PROVE TypeInv'
  BY <1>7 DEF EmitParks, Parked
<1>8. ASSUME NEW w \in Writers, Error(w) PROVE TypeInv'
  BY <1>8 DEF Error, CloseCall, StoredError
<1>9. ASSUME NEW w \in Writers, Close(w) PROVE TypeInv'
  BY <1>9 DEF Close, CloseCall
<1>10. ASSUME NEW w \in Writers, CloseFlag(w) PROVE TypeInv'
  BY <1>10 DEF CloseFlag
<1>11. ASSUME NEW w \in Writers, CloseDone(w) PROVE TypeInv'
  BY <1>11 DEF CloseDone, WokenByDone, Parked
<1>12. ASSUME NEW w \in Writers, CloseChan(w) PROVE TypeInv'
  BY <1>12 DEF CloseChan, ChanClose
<1>13. ASSUME NEW w \in Writers, CloseAgain(w) PROVE TypeInv'
  BY <1>13 DEF CloseAgain
<1>14. ASSUME NEW c \in Ctxs \cup {Background}, NextCall(c) PROVE TypeInv'
  BY <1>14 DEF NextCall
<1>15. CASE NextGivesUp
  BY <1>15 DEF NextGivesUp, Stop, LeftOnCancel
<1>16. CASE NextFromBuffer
  BY <1>16, TakeType DEF NextFromBuffer
<1>17. ASSUME NEW w \in Writers, NextRefills(w) PROVE TypeInv'
  <2>1. wframe[w] \in Frame
    BY <1>17 DEF NextRefills, FirstParked, Parked
  <2>2. buf' \in Seq(Frame) /\ accepted' \in Seq(Frame)
    BY <1>17, <2>1 DEF NextRefills, Accepts
  <2>3. ReaderType' /\ received' \in Seq(Frame)
    BY <1>17, TakeType DEF NextRefills
  <2> QED
    BY <1>17, <2>2, <2>3, ReturnType DEF NextRefills
<1>18. ASSUME NEW w \in Writers, NextFromSender(w) PROVE TypeInv'
  <2>1. wframe[w] \in Frame
    BY <1>18 DEF NextFromSender, FirstParked, Parked
  <2>2. accepted' \in Seq(Frame)
    BY <1>18, <2>1 DEF NextFromSender, Accepts
  <2>3. ReaderType' /\ received' \in Seq(Frame)
    BY <1>18, <2>1, TakeType DEF NextFromSender
  <2> QED
    BY <1>18, <2>2, <2>3, ReturnType DEF NextFromSender
<1>19. CASE NextSeesClose
  BY <1>19 DEF NextSeesClose
<1>20. CASE NextParks
  BY <1>20 DEF NextParks
<1>21. CASE NextEnds
  BY <1>21 DEF NextEnds, Stop, EndError
<1>22. ASSUME NEW c \in Ctxs, Cancel(c) PROVE TypeInv'
  <2>1. ReaderType'
    BY <1>22 DEF Cancel, Stop
  <2> QED
    BY <1>22, <2>1, ReturnType DEF Cancel
<1>23. CASE UNCHANGED vars
  BY <1>23 DEF vars
<1> QED
  BY <1>1, <1>2, <1>3, <1>4, <1>5, <1>6, <1>7, <1>8, <1>9, <1>10, <1>11, <1>12, <1>13,
     <1>14, <1>15, <1>16, <1>17, <1>18, <1>19, <1>20, <1>21, <1>22, <1>23
     DEF Next, Running, Writer, Reader, EmitSelect, CloseStep, NextSelect

\* Every variable of the pipe keeps its type (stream.go), whatever the writers,
\* the reader and the contexts do.
THEOREM TypeCorrect == Spec => []TypeOK
<1>1. TypeInv => TypeOK
  BY DEF TypeInv
<1> QED
  BY <1>1, InitType, StepType, PTL DEF Spec

(***************************************************************************)
(* Order of the close: ch is closed after done, and once done is closed no *)
(* sender is parked or parks again.                                        *)
(***************************************************************************)
CloseOrder ==
  /\ chClosed => done
  /\ done => \A w \in Writers : wpc[w] # "parked"
  /\ \A w \in Writers : wpc[w] = "doneClosed" => done

LEMMA InitCloseOrder == Init => CloseOrder
BY DEF Init, NewStream, StreamFromSlice, CloseOrder

LEMMA StepCloseOrder == TypeInv /\ CloseOrder /\ [Next]_vars => CloseOrder'
<1> SUFFICES ASSUME TypeInv, CloseOrder, [Next]_vars PROVE CloseOrder'
  OBVIOUS
<1> USE DEF TypeInv, TypeOK, PipeType, WriterType, CloseOrder, Go, Return, Parked,
            chan, flags, call, reader, log, verdict
<1>1. ASSUME NEW w \in Writers, EmitRefused(w) PROVE CloseOrder'
  BY <1>1 DEF EmitRefused, EmitCall
<1>2. ASSUME NEW w \in Writers, NEW kind \in Kinds, NEW c \in Ctxs \cup {Background}, EmitLoad(w, kind, c) PROVE CloseOrder'
  BY <1>2 DEF EmitLoad, EmitCall
<1>3. ASSUME NEW w \in Writers, EmitGivesUp(w) PROVE CloseOrder'
  BY <1>3 DEF EmitGivesUp
<1>4. ASSUME NEW w \in Writers, EmitBuffers(w) PROVE CloseOrder'
  BY <1>4 DEF EmitBuffers, Accepts
<1>5. ASSUME NEW w \in Writers, EmitHandsOver(w) PROVE CloseOrder'
  BY <1>5 DEF EmitHandsOver, Accepts, Take
<1>6. ASSUME NEW w \in Writers, EmitPanics(w) PROVE CloseOrder'
  BY <1>6 DEF EmitPanics
<1>7. ASSUME NEW w \in Writers, EmitParks(w) PROVE CloseOrder'
  BY <1>7 DEF EmitParks, DoneReady
<1>8. ASSUME NEW w \in Writers, Error(w) PROVE CloseOrder'
  BY <1>8 DEF Error, CloseCall, StoredError
<1>9. ASSUME NEW w \in Writers, Close(w) PROVE CloseOrder'
  BY <1>9 DEF Close, CloseCall
<1>10. ASSUME NEW w \in Writers, CloseFlag(w) PROVE CloseOrder'
  BY <1>10 DEF CloseFlag
<1>11. ASSUME NEW w \in Writers, CloseDone(w) PROVE CloseOrder'
  BY <1>11 DEF CloseDone, WokenByDone
<1>12. ASSUME NEW w \in Writers, CloseChan(w) PROVE CloseOrder'
  BY <1>12 DEF CloseChan, ChanClose
<1>13. ASSUME NEW w \in Writers, CloseAgain(w) PROVE CloseOrder'
  BY <1>13 DEF CloseAgain
<1>14. ASSUME NEW c \in Ctxs \cup {Background}, NextCall(c) PROVE CloseOrder'
  BY <1>14 DEF NextCall
<1>15. CASE NextGivesUp
  BY <1>15 DEF NextGivesUp, Stop, LeftOnCancel
<1>16. CASE NextFromBuffer
  BY <1>16 DEF NextFromBuffer, Take
<1>17. ASSUME NEW w \in Writers, NextRefills(w) PROVE CloseOrder'
  BY <1>17 DEF NextRefills, Take, Accepts, FirstParked
<1>18. ASSUME NEW w \in Writers, NextFromSender(w) PROVE CloseOrder'
  BY <1>18 DEF NextFromSender, Take, Accepts, FirstParked
<1>19. CASE NextSeesClose
  BY <1>19 DEF NextSeesClose, NotOk
<1>20. CASE NextParks
  BY <1>20 DEF NextParks
<1>21. CASE NextEnds
  BY <1>21 DEF NextEnds, Stop, EndError
<1>22. ASSUME NEW c \in Ctxs, Cancel(c) PROVE CloseOrder'
  BY <1>22 DEF Cancel, Stop
<1>23. CASE UNCHANGED vars
  BY <1>23 DEF vars
<1> QED
  BY <1>1, <1>2, <1>3, <1>4, <1>5, <1>6, <1>7, <1>8, <1>9, <1>10, <1>11, <1>12, <1>13, <1>14, <1>15, <1>16, <1>17, <1>18, <1>19, <1>20, <1>21, <1>22, <1>23
     DEF Next, Running, Writer, Reader, EmitSelect, CloseStep, NextSelect

(***************************************************************************)
(* Delivery.                                                               *)
(***************************************************************************)
\* The reader parks on an empty channel only, and whoever closes it or sends on
\* it wakes the reader.  Once the reader has found the channel closed, it is
\* empty for good.
ReaderState ==
  /\ rpc = "parked" => buf = <<>> /\ ~chClosed
  /\ ended \/ rpc = "sawClose" => chClosed /\ buf = <<>>

\* What appending to the buffer, and moving its head to the frames that were
\* received, do to the two together.
LEMMA AppendToBuffer ==
  \A r, b \in Seq(Frame), f \in Frame : Append(r \o b, f) = r \o Append(b, f)
OBVIOUS

LEMMA MoveHead ==
  \A r, b \in Seq(Frame) : b # <<>> =>
    /\ Append(r, Head(b)) \o Tail(b) = r \o b
    /\ Append(r, Head(b)) \in Seq(Frame) /\ Tail(b) \in Seq(Frame)
OBVIOUS

DeliveryInv == TypeInv /\ CloseOrder /\ ReaderState /\ InOrder

LEMMA InitDelivery == Init => ReaderState /\ InOrder
<1> SUFFICES ASSUME Init PROVE ReaderState /\ InOrder
  OBVIOUS
<1>1. buf \in Seq(Frame)
  BY InitType DEF TypeInv, TypeOK, PipeType
<1> QED
  BY <1>1 DEF Init, ReaderState, InOrder

LEMMA StepDelivery == DeliveryInv /\ [Next]_vars => ReaderState' /\ InOrder'
<1> SUFFICES ASSUME DeliveryInv, [Next]_vars PROVE ReaderState' /\ InOrder'
  OBVIOUS
<1> USE DEF DeliveryInv, TypeInv, TypeOK, PipeType, WriterType, HistoryType, FrameHeld, CloseOrder,
            ReaderState, InOrder, Emitting, Go, Parked, chan, flags, call, reader, log, verdict
<1>1. ASSUME NEW w \in Writers, EmitRefused(w) PROVE ReaderState' /\ InOrder'
  BY <1>1 DEF EmitRefused, EmitCall
<1>2. ASSUME NEW w \in Writers, NEW kind \in Kinds, NEW c \in Ctxs \cup {Background}, EmitLoad(w, kind, c) PROVE ReaderState' /\ InOrder'
  BY <1>2 DEF EmitLoad, EmitCall
<1>3. ASSUME NEW w \in Writers, EmitGivesUp(w) PROVE ReaderState' /\ InOrder'
  BY <1>3 DEF EmitGivesUp
<1>4. ASSUME NEW w \in Writers, EmitBuffers(w) PROVE ReaderState' /\ InOrder'
  <2>1. wframe[w] \in Frame
    BY <1>4 DEF EmitBuffers
  <2>2. InOrder'
    <3>1. Append(received \o buf, wframe[w]) = received \o Append(buf, wframe[w])
      BY <2>1, AppendToBuffer
    <3> QED
      BY <1>4, <3>1 DEF EmitBuffers, Accepts
  <2> QED
    BY <1>4, <2>2 DEF EmitBuffers
<1>5. ASSUME NEW w \in Writers, EmitHandsOver(w) PROVE ReaderState' /\ InOrder'
  BY <1>5 DEF EmitHandsOver, Accepts, Take
<1>6. ASSUME NEW w \in Writers, EmitPanics(w) PROVE ReaderState' /\ InOrder'
  BY <1>6 DEF EmitPanics
<1>7. ASSUME NEW w \in Writers, EmitParks(w) PROVE ReaderState' /\ InOrder'
  BY <1>7 DEF EmitParks, DoneReady
<1>8. ASSUME NEW w \in Writers, Error(w) PROVE ReaderState' /\ InOrder'
  BY <1>8 DEF Error, CloseCall, StoredError
<1>9. ASSUME NEW w \in Writers, Close(w) PROVE ReaderState' /\ InOrder'
  BY <1>9 DEF Close, CloseCall
<1>10. ASSUME NEW w \in Writers, CloseFlag(w) PROVE ReaderState' /\ InOrder'
  BY <1>10 DEF CloseFlag
<1>11. ASSUME NEW w \in Writers, CloseDone(w) PROVE ReaderState' /\ InOrder'
  BY <1>11 DEF CloseDone, WokenByDone
<1>12. ASSUME NEW w \in Writers, CloseChan(w) PROVE ReaderState' /\ InOrder'
  BY <1>12 DEF CloseChan, ChanClose
<1>13. ASSUME NEW w \in Writers, CloseAgain(w) PROVE ReaderState' /\ InOrder'
  BY <1>13 DEF CloseAgain
<1>14. ASSUME NEW c \in Ctxs \cup {Background}, NextCall(c) PROVE ReaderState' /\ InOrder'
  BY <1>14 DEF NextCall
<1>15. CASE NextGivesUp
  BY <1>15 DEF NextGivesUp, Stop, LeftOnCancel
<1>16. CASE NextFromBuffer
  BY <1>16 DEF NextFromBuffer, Take
<1>17. ASSUME NEW w \in Writers, NextRefills(w) PROVE ReaderState' /\ InOrder'
  <2>1. wframe[w] \in Frame
    BY <1>17 DEF NextRefills, FirstParked
  <2>2. InOrder'
    <3>1. accepted' = Append(Append(received, Head(buf)) \o Tail(buf), wframe[w])
      BY <1>17, MoveHead DEF NextRefills, Accepts
    <3>2. Append(received, Head(buf)) \in Seq(Frame) /\ Tail(buf) \in Seq(Frame)
      BY <1>17, MoveHead DEF NextRefills
    <3>3. Append(Append(received, Head(buf)) \o Tail(buf), wframe[w])
            = Append(received, Head(buf)) \o Append(Tail(buf), wframe[w])
      BY <2>1, <3>2, AppendToBuffer
    <3> QED
      BY <1>17, <3>1, <3>3 DEF NextRefills, Take
  <2> QED
    BY <1>17, <2>2 DEF NextRefills, Take, FirstParked
<1>18. ASSUME NEW w \in Writers, NextFromSender(w) PROVE ReaderState' /\ InOrder'
  BY <1>18 DEF NextFromSender, Take, Accepts, FirstParked
<1>19. CASE NextSeesClose
  BY <1>19 DEF NextSeesClose, NotOk
<1>20. CASE NextParks
  BY <1>20 DEF NextParks
<1>21. CASE NextEnds
  BY <1>21 DEF NextEnds, Stop, EndError
<1>22. ASSUME NEW c \in Ctxs, Cancel(c) PROVE ReaderState' /\ InOrder'
  BY <1>22 DEF Cancel, Stop
<1>23. CASE UNCHANGED vars
  BY <1>23 DEF vars
<1> QED
  BY <1>1, <1>2, <1>3, <1>4, <1>5, <1>6, <1>7, <1>8, <1>9, <1>10, <1>11, <1>12, <1>13, <1>14, <1>15, <1>16, <1>17, <1>18, <1>19, <1>20, <1>21, <1>22, <1>23
     DEF Next, Running, Writer, Reader, EmitSelect, CloseStep, NextSelect

LEMMA DeliveryAlways == Spec => []DeliveryInv
<1>1. Init => DeliveryInv
  BY InitType, InitCloseOrder, InitDelivery DEF DeliveryInv
<1>2. DeliveryInv /\ [Next]_vars => DeliveryInv'
  BY StepType, StepCloseOrder, StepDelivery DEF DeliveryInv
<1> QED
  BY <1>1, <1>2, PTL DEF Spec

\* The reader gets the accepted frames in order, none lost and none twice
\* (pipe.ch between Emit and Next).
LEMMA InOrderAlways == Spec => []InOrder
<1>1. DeliveryInv => InOrder
  BY DEF DeliveryInv
<1> QED
  BY <1>1, DeliveryAlways, PTL

\* A sender that is parked in Emit when the stream is closed does not panic.
THEOREM BlockedEmitSafe == Spec => BlockedEmitSurvives
<1>1. DeliveryInv /\ [Next]_vars
        => [\A w \in Writers : wpc[w] = "parked" => wpc'[w] # "panicked"]_vars
  <2> SUFFICES ASSUME DeliveryInv, [Next]_vars, NEW w \in Writers, wpc[w] = "parked"
               PROVE  wpc'[w] # "panicked"
    OBVIOUS
  <2>1. CASE UNCHANGED vars
    BY <2>1 DEF vars, call
  <2>2. CASE Running
    BY <2>2 DEF Running, Writer, Reader, EmitSelect, CloseStep, NextSelect,
       DeliveryInv, TypeInv, TypeOK, WriterType, CloseOrder, EmitRefused, EmitLoad, EmitGivesUp,
       EmitBuffers, EmitHandsOver, EmitPanics, EmitParks, Error, Close, CloseFlag, CloseDone,
       CloseChan, CloseAgain, NextCall, NextGivesUp, NextFromBuffer, NextRefills,
       NextFromSender, NextSeesClose, NextParks, NextEnds, Cancel, Go, Return, call
  <2> QED
    BY <2>1, <2>2 DEF Next
<1> QED
  BY <1>1, DeliveryAlways, PTL DEF Spec, BlockedEmitSurvives

(***************************************************************************)
(* Emits apart from every Close.  As long as they are, no Emit runs when a *)
(* Close is under way, and whoever closed ch is still known to have done   *)
(* it.                                                                     *)
(***************************************************************************)
ApartInv ==
  /\ apart /\ ClosingStarted => ~EmitRunning
  /\ chClosed => \A w \in Writers : \E v \in Writers : wpc[v] = "finished"
  /\ ApartIsSafe

LEMMA InitApart == Init => ApartInv
BY DEF Init, NewStream, StreamFromSlice, ApartInv, ApartIsSafe, Crashed, EmitRunning, Emitting

LEMMA StepApart == TypeInv /\ CloseOrder /\ ApartInv /\ [Next]_vars => ApartInv'
<1> SUFFICES ASSUME TypeInv, CloseOrder, ApartInv, [Next]_vars PROVE ApartInv'
  OBVIOUS
<1> USE DEF TypeInv, TypeOK, WriterType, PipeType, CloseOrder, ApartInv, ApartIsSafe, Crashed, ClosingStarted,
            EmitRunning, Closing, Emitting, Go, Return, Parked, chan, flags, call, reader, log, verdict
<1>1. ASSUME NEW w \in Writers, EmitRefused(w) PROVE ApartInv'
  BY <1>1 DEF EmitRefused, EmitCall
<1>2. ASSUME NEW w \in Writers, NEW kind \in Kinds, NEW c \in Ctxs \cup {Background}, EmitLoad(w, kind, c) PROVE ApartInv'
  BY <1>2 DEF EmitLoad, EmitCall
<1>3. ASSUME NEW w \in Writers, EmitGivesUp(w) PROVE ApartInv'
  BY <1>3 DEF EmitGivesUp
<1>4. ASSUME NEW w \in Writers, EmitBuffers(w) PROVE ApartInv'
  BY <1>4 DEF EmitBuffers, Accepts
<1>5. ASSUME NEW w \in Writers, EmitHandsOver(w) PROVE ApartInv'
  BY <1>5 DEF EmitHandsOver, Accepts, Take
<1>6. ASSUME NEW w \in Writers, EmitPanics(w) PROVE ApartInv'
  BY <1>6 DEF EmitPanics
<1>7. ASSUME NEW w \in Writers, EmitParks(w) PROVE ApartInv'
  BY <1>7 DEF EmitParks, DoneReady
<1>8. ASSUME NEW w \in Writers, Error(w) PROVE ApartInv'
  BY <1>8 DEF Error, CloseCall, StoredError
<1>9. ASSUME NEW w \in Writers, Close(w) PROVE ApartInv'
  BY <1>9 DEF Close, CloseCall
<1>10. ASSUME NEW w \in Writers, CloseFlag(w) PROVE ApartInv'
  BY <1>10 DEF CloseFlag
<1>11. ASSUME NEW w \in Writers, CloseDone(w) PROVE ApartInv'
  BY <1>11 DEF CloseDone, WokenByDone
<1>12. ASSUME NEW w \in Writers, CloseChan(w) PROVE ApartInv'
  BY <1>12 DEF CloseChan, ChanClose
<1>13. ASSUME NEW w \in Writers, CloseAgain(w) PROVE ApartInv'
  BY <1>13 DEF CloseAgain
<1>14. ASSUME NEW c \in Ctxs \cup {Background}, NextCall(c) PROVE ApartInv'
  BY <1>14 DEF NextCall
<1>15. CASE NextGivesUp
  BY <1>15 DEF NextGivesUp, Stop, LeftOnCancel
<1>16. CASE NextFromBuffer
  BY <1>16 DEF NextFromBuffer, Take
<1>17. ASSUME NEW w \in Writers, NextRefills(w) PROVE ApartInv'
  BY <1>17 DEF NextRefills, Take, Accepts, FirstParked
<1>18. ASSUME NEW w \in Writers, NextFromSender(w) PROVE ApartInv'
  BY <1>18 DEF NextFromSender, Take, Accepts, FirstParked
<1>19. CASE NextSeesClose
  BY <1>19 DEF NextSeesClose, NotOk
<1>20. CASE NextParks
  BY <1>20 DEF NextParks
<1>21. CASE NextEnds
  BY <1>21 DEF NextEnds, Stop, EndError
<1>22. ASSUME NEW c \in Ctxs, Cancel(c) PROVE ApartInv'
  BY <1>22 DEF Cancel, Stop
<1>23. CASE UNCHANGED vars
  BY <1>23 DEF vars
<1> QED
  BY <1>1, <1>2, <1>3, <1>4, <1>5, <1>6, <1>7, <1>8, <1>9, <1>10, <1>11, <1>12, <1>13, <1>14, <1>15, <1>16, <1>17, <1>18, <1>19, <1>20, <1>21, <1>22, <1>23
     DEF Next, Running, Writer, Reader, EmitSelect, CloseStep, NextSelect

\* No Emit panics as long as none follows a Close or an Error and none overlaps
\* one: the condition under which Relay makes Emit and Close single steps.
THEOREM ApartNeverPanics == Spec => []ApartIsSafe
<1>1. Init => TypeInv /\ CloseOrder /\ ApartInv
  BY InitType, InitCloseOrder, InitApart
<1>2. TypeInv /\ CloseOrder /\ ApartInv /\ [Next]_vars => (TypeInv /\ CloseOrder /\ ApartInv)'
  BY StepType, StepCloseOrder, StepApart
<1>3. ApartInv => ApartIsSafe
  BY DEF ApartInv
<1> QED
  BY <1>1, <1>2, <1>3, PTL DEF Spec

(***************************************************************************)
(* The error at the end of the stream.                                     *)
(***************************************************************************)
ErrorStored ==
  /\ winner = "error" => perr # NoErr
  /\ \A w \in Writers : wpc[w] = "storedErr" => perr # NoErr

LEMMA InitErrorStored == Init => ErrorStored
BY DEF Init, NewStream, StreamFromSlice, ErrorStored

LEMMA StepErrorStored == TypeInv /\ ErrorStored /\ [Next]_vars => ErrorStored'
<1> SUFFICES ASSUME TypeInv, ErrorStored, [Next]_vars PROVE ErrorStored'
  OBVIOUS
<1> USE NilAssumption DEF TypeInv, TypeOK, WriterType, PipeType, HistoryType, ErrorStored, Go, Return, Parked,
            chan, flags, call, reader, log, verdict
<1>1. ASSUME NEW w \in Writers, EmitRefused(w) PROVE ErrorStored'
  BY <1>1 DEF EmitRefused, EmitCall
<1>2. ASSUME NEW w \in Writers, NEW kind \in Kinds, NEW c \in Ctxs \cup {Background}, EmitLoad(w, kind, c) PROVE ErrorStored'
  BY <1>2 DEF EmitLoad, EmitCall
<1>3. ASSUME NEW w \in Writers, EmitGivesUp(w) PROVE ErrorStored'
  BY <1>3 DEF EmitGivesUp
<1>4. ASSUME NEW w \in Writers, EmitBuffers(w) PROVE ErrorStored'
  BY <1>4 DEF EmitBuffers, Accepts
<1>5. ASSUME NEW w \in Writers, EmitHandsOver(w) PROVE ErrorStored'
  BY <1>5 DEF EmitHandsOver, Accepts, Take
<1>6. ASSUME NEW w \in Writers, EmitPanics(w) PROVE ErrorStored'
  BY <1>6 DEF EmitPanics
<1>7. ASSUME NEW w \in Writers, EmitParks(w) PROVE ErrorStored'
  BY <1>7 DEF EmitParks, DoneReady
<1>8. ASSUME NEW w \in Writers, Error(w) PROVE ErrorStored'
  BY <1>8 DEF Error, CloseCall, StoredError
<1>9. ASSUME NEW w \in Writers, Close(w) PROVE ErrorStored'
  BY <1>9 DEF Close, CloseCall
<1>10. ASSUME NEW w \in Writers, CloseFlag(w) PROVE ErrorStored'
  BY <1>10 DEF CloseFlag
<1>11. ASSUME NEW w \in Writers, CloseDone(w) PROVE ErrorStored'
  BY <1>11 DEF CloseDone, WokenByDone
<1>12. ASSUME NEW w \in Writers, CloseChan(w) PROVE ErrorStored'
  BY <1>12 DEF CloseChan, ChanClose
<1>13. ASSUME NEW w \in Writers, CloseAgain(w) PROVE ErrorStored'
  BY <1>13 DEF CloseAgain
<1>14. ASSUME NEW c \in Ctxs \cup {Background}, NextCall(c) PROVE ErrorStored'
  BY <1>14 DEF NextCall
<1>15. CASE NextGivesUp
  BY <1>15 DEF NextGivesUp, Stop, LeftOnCancel
<1>16. CASE NextFromBuffer
  BY <1>16 DEF NextFromBuffer, Take
<1>17. ASSUME NEW w \in Writers, NextRefills(w) PROVE ErrorStored'
  BY <1>17 DEF NextRefills, Take, Accepts, FirstParked
<1>18. ASSUME NEW w \in Writers, NextFromSender(w) PROVE ErrorStored'
  BY <1>18 DEF NextFromSender, Take, Accepts, FirstParked
<1>19. CASE NextSeesClose
  BY <1>19 DEF NextSeesClose, NotOk
<1>20. CASE NextParks
  BY <1>20 DEF NextParks
<1>21. CASE NextEnds
  BY <1>21 DEF NextEnds, Stop, EndError
<1>22. ASSUME NEW c \in Ctxs, Cancel(c) PROVE ErrorStored'
  BY <1>22 DEF Cancel, Stop
<1>23. CASE UNCHANGED vars
  BY <1>23 DEF vars
<1> QED
  BY <1>1, <1>2, <1>3, <1>4, <1>5, <1>6, <1>7, <1>8, <1>9, <1>10, <1>11, <1>12, <1>13, <1>14, <1>15, <1>16, <1>17, <1>18, <1>19, <1>20, <1>21, <1>22, <1>23
     DEF Next, Running, Writer, Reader, EmitSelect, CloseStep, NextSelect

\* When Error closed the stream, the Next that reports its end leaves Error's
\* error in Stream.err.
THEOREM ErrorIsReported == Spec => ErrorReported
<1>1. Init => TypeInv /\ ErrorStored
  BY InitType, InitErrorStored
<1>2. TypeInv /\ ErrorStored /\ [Next]_vars => (TypeInv /\ ErrorStored)'
  BY StepType, StepErrorStored
<1>3. TypeInv /\ ErrorStored /\ [Next]_vars =>
        [rpc = "sawClose" /\ rpc' # "sawClose" /\ winner = "error" => serr' \in Writers]_vars
  <2> SUFFICES ASSUME TypeInv, ErrorStored, [Next]_vars,
                      rpc = "sawClose", rpc' # "sawClose", winner = "error"
               PROVE  serr' \in Writers
    OBVIOUS
  <2>1. NextEnds
    BY DEF Next, Running, Writer, Reader, EmitSelect, CloseStep, NextSelect, EmitRefused, EmitLoad,
       EmitGivesUp, EmitBuffers, EmitHandsOver, EmitPanics, EmitParks, Error, Close, CloseFlag,
       CloseDone, CloseChan, CloseAgain, NextCall, NextGivesUp, NextFromBuffer, NextRefills,
       NextFromSender, NextSeesClose, NextParks, Cancel, vars, reader
  <2> QED
    BY <2>1 DEF NextEnds, Stop, EndError, ErrorStored, TypeInv, TypeOK, PipeType
<1> QED
  BY <1>1, <1>2, <1>3, PTL DEF Spec, ErrorReported

(***************************************************************************)
(* The end of the stream, and the usage that has been added up by then.    *)
(***************************************************************************)
UsageCounted == usage = Cardinality(UsageFrames(received))

LEMMA UsageFinite == \A s \in Seq(Frame) : IsFiniteSet(UsageFrames(s))
<1> SUFFICES ASSUME NEW s \in Seq(Frame) PROVE IsFiniteSet(UsageFrames(s))
  OBVIOUS
<1>1. UsageFrames(s) \in SUBSET (1 .. Len(s)) /\ Len(s) \in Int
  BY DEF UsageFrames
<1>2. IsFiniteSet(1 .. Len(s))
  BY <1>1, FS_Interval
<1> QED
  BY <1>1, <1>2, FS_Subset

LEMMA UsageAppend ==
  \A s \in Seq(Frame), f \in Frame :
    Cardinality(UsageFrames(Append(s, f)))
      = IF f.kind = "usage" THEN Cardinality(UsageFrames(s)) + 1 ELSE Cardinality(UsageFrames(s))
<1> SUFFICES ASSUME NEW s \in Seq(Frame), NEW f \in Frame
             PROVE  Cardinality(UsageFrames(Append(s, f)))
                      = IF f.kind = "usage" THEN Cardinality(UsageFrames(s)) + 1
                                            ELSE Cardinality(UsageFrames(s))
  OBVIOUS
<1>1. CASE f.kind = "usage"
  <2>1. UsageFrames(Append(s, f)) = UsageFrames(s) \cup {Len(s) + 1}
    BY <1>1 DEF UsageFrames
  <2>2. Len(s) + 1 \notin UsageFrames(s)
    BY DEF UsageFrames
  <2> QED
    BY <1>1, <2>1, <2>2, UsageFinite, FS_AddElement
<1>2. CASE f.kind # "usage"
  <2>1. UsageFrames(Append(s, f)) = UsageFrames(s)
    BY <1>2 DEF UsageFrames
  <2> QED
    BY <1>2, <2>1
<1> QED
  BY <1>1, <1>2

LEMMA TakeCounts ==
  ASSUME received \in Seq(Frame), UsageCounted, NEW f \in Frame, Take(f)
  PROVE  UsageCounted'
BY UsageAppend DEF UsageCounted, Take

LEMMA InitUsage == Init => UsageCounted
<1>1. UsageFrames(<<>>) = {}
  BY DEF UsageFrames
<1> QED
  BY <1>1, FS_EmptySet DEF Init, UsageCounted

LEMMA StepUsage == TypeInv /\ UsageCounted /\ [Next]_vars => UsageCounted'
<1> SUFFICES ASSUME TypeInv, UsageCounted, [Next]_vars PROVE UsageCounted'
  OBVIOUS
<1> USE DEF TypeInv, TypeOK, PipeType, WriterType, HistoryType, FrameHeld, Emitting,
            chan, flags, call, reader, log, verdict
<1>0. UsageCounted /\ usage' = usage /\ received' = received => UsageCounted'
  BY DEF UsageCounted
<1>1. ASSUME NEW w \in Writers, EmitRefused(w) PROVE UsageCounted'
  BY <1>0, <1>1 DEF EmitRefused, EmitCall
<1>2. ASSUME NEW w \in Writers, NEW kind \in Kinds, NEW c \in Ctxs \cup {Background}, EmitLoad(w, kind, c) PROVE UsageCounted'
  BY <1>0, <1>2 DEF EmitLoad, EmitCall
<1>3. ASSUME NEW w \in Writers, EmitGivesUp(w) PROVE UsageCounted'
  BY <1>0, <1>3 DEF EmitGivesUp
<1>4. ASSUME NEW w \in Writers, EmitBuffers(w) PROVE UsageCounted'
  BY <1>0, <1>4 DEF EmitBuffers, Accepts
<1>5. ASSUME NEW w \in Writers, EmitHandsOver(w) PROVE UsageCounted'
  <2>1. wframe[w] \in Frame
    BY <1>5 DEF EmitHandsOver
  <2> QED
    BY <1>5, <2>1, TakeCounts DEF EmitHandsOver
<1>6. ASSUME NEW w \in Writers, EmitPanics(w) PROVE UsageCounted'
  BY <1>0, <1>6 DEF EmitPanics
<1>7. ASSUME NEW w \in Writers, EmitParks(w) PROVE UsageCounted'
  BY <1>0, <1>7 DEF EmitParks, DoneReady
<1>8. ASSUME NEW w \in Writers, Error(w) PROVE UsageCounted'
  BY <1>0, <1>8 DEF Error, CloseCall, StoredError
<1>9. ASSUME NEW w \in Writers, Close(w) PROVE UsageCounted'
  BY <1>0, <1>9 DEF Close, CloseCall
<1>10. ASSUME NEW w \in Writers, CloseFlag(w) PROVE UsageCounted'
  BY <1>0, <1>10 DEF CloseFlag
<1>11. ASSUME NEW w \in Writers, CloseDone(w) PROVE UsageCounted'
  BY <1>0, <1>11 DEF CloseDone, WokenByDone
<1>12. ASSUME NEW w \in Writers, CloseChan(w) PROVE UsageCounted'
  BY <1>0, <1>12 DEF CloseChan, ChanClose
<1>13. ASSUME NEW w \in Writers, CloseAgain(w) PROVE UsageCounted'
  BY <1>0, <1>13 DEF CloseAgain
<1>14. ASSUME NEW c \in Ctxs \cup {Background}, NextCall(c) PROVE UsageCounted'
  BY <1>0, <1>14 DEF NextCall
<1>15. CASE NextGivesUp
  BY <1>0, <1>15 DEF NextGivesUp, Stop, LeftOnCancel
<1>16. CASE NextFromBuffer
  <2>1. Head(buf) \in Frame
    BY <1>16 DEF NextFromBuffer
  <2> QED
    BY <1>16, <2>1, TakeCounts DEF NextFromBuffer
<1>17. ASSUME NEW w \in Writers, NextRefills(w) PROVE UsageCounted'
  <2>1. Head(buf) \in Frame
    BY <1>17 DEF NextRefills
  <2> QED
    BY <1>17, <2>1, TakeCounts DEF NextRefills
<1>18. ASSUME NEW w \in Writers, NextFromSender(w) PROVE UsageCounted'
  <2>1. wframe[w] \in Frame
    BY <1>18 DEF NextFromSender, FirstParked, Parked
  <2> QED
    BY <1>18, <2>1, TakeCounts DEF NextFromSender
<1>19. CASE NextSeesClose
  BY <1>0, <1>19 DEF NextSeesClose, NotOk
<1>20. CASE NextParks
  BY <1>0, <1>20 DEF NextParks
<1>21. CASE NextEnds
  BY <1>0, <1>21 DEF NextEnds, Stop, EndError
<1>22. ASSUME NEW c \in Ctxs, Cancel(c) PROVE UsageCounted'
  BY <1>0, <1>22 DEF Cancel, Stop
<1>23. CASE UNCHANGED vars
  BY <1>0, <1>23 DEF vars
<1> QED
  BY <1>1, <1>2, <1>3, <1>4, <1>5, <1>6, <1>7, <1>8, <1>9, <1>10, <1>11, <1>12, <1>13, <1>14, <1>15, <1>16, <1>17, <1>18, <1>19, <1>20, <1>21, <1>22, <1>23
     DEF Next, Running, Writer, Reader, EmitSelect, CloseStep, NextSelect

\* "Fully populated after the stream is exhausted": when Next has reported the
\* end, every frame that Emit accepted has been received and every usage frame
\* has been added up, and both stay so.
THEOREM EndIsComplete == Spec => []EndIsFinal
<1>1. Init => UsageCounted /\ TypeInv
  BY InitUsage, InitType
<1>2. UsageCounted /\ TypeInv /\ [Next]_vars => (UsageCounted /\ TypeInv)'
  BY StepUsage, StepType
<1>3. UsageCounted /\ DeliveryInv => EndIsFinal
  <2> SUFFICES ASSUME UsageCounted, DeliveryInv, ended PROVE received = accepted
    BY DEF EndIsFinal, UsageCounted
  <2> QED
    BY DEF DeliveryInv, ReaderState, InOrder, TypeInv, TypeOK, HistoryType
<1> QED
  BY <1>1, <1>2, <1>3, DeliveryAlways, PTL DEF Spec

(***************************************************************************)
(* The pipe implements FrameChannel: a step accepts or delivers frames,    *)
(* closes the channel, ends the stream, or is invisible.                   *)
(***************************************************************************)
LEMMA InitChannel == Init => Channel!ChannelInit
<1> SUFFICES ASSUME Init PROVE Channel!ChannelInit
  OBVIOUS
<1>1. accepted \in Seq(Frame) /\ chClosed \in BOOLEAN
  BY InitType DEF TypeInv, TypeOK, HistoryType, PipeType
<1> QED
  BY <1>1 DEF Init, Channel!ChannelInit

\* A frame that enters the channel, a frame that leaves it.
LEMMA Accepting ==
  ASSUME TypeInv, NEW f \in Frame, Accepts(f), ~chClosed
  PROVE  Channel!Accept
BY DEF TypeInv, TypeOK, HistoryType, Accepts, Channel!Accept

LEMMA Delivering ==
  ASSUME TypeInv, NEW f \in Frame, Take(f), NEW rest \in Seq(Frame),
         accepted' = Append(received, f) \o rest
  PROVE  Channel!Deliver
BY DEF TypeInv, TypeOK, HistoryType, Take, Channel!Deliver

LEMMA StepChannel == DeliveryInv /\ [Next]_vars => [Channel!ChannelNext]_(Channel!channelVars)
<1> SUFFICES ASSUME DeliveryInv, [Next]_vars
             PROVE  Channel!ChannelNext \/ UNCHANGED Channel!channelVars
  OBVIOUS
<1> DEFINE Goal == Channel!ChannelNext \/ UNCHANGED Channel!channelVars
<1>t. TypeInv /\ received \in Seq(Frame) /\ accepted \in Seq(Frame) /\ buf \in Seq(Frame)
  BY DEF DeliveryInv, TypeInv, TypeOK, HistoryType, PipeType
<1>1. ASSUME NEW w \in Writers, EmitBuffers(w) PROVE Goal
  <2>1. wframe[w] \in Frame
    BY <1>t, <1>1 DEF EmitBuffers, TypeInv, FrameHeld, Emitting
  <2>2. Channel!Accept
    BY <1>t, <1>1, <2>1, Accepting DEF EmitBuffers
  <2> QED
    BY <1>1, <2>2 DEF EmitBuffers, flags, verdict, Channel!ChannelNext, Channel!Transfer
<1>2. ASSUME NEW w \in Writers, EmitHandsOver(w) PROVE Goal
  <2>1. wframe[w] \in Frame
    BY <1>t, <1>2 DEF EmitHandsOver, TypeInv, FrameHeld, Emitting
  <2>2. Channel!Accept
    BY <1>t, <1>2, <2>1, Accepting DEF EmitHandsOver
  <2>3. accepted' = Append(received, wframe[w]) \o <<>> /\ <<>> \in Seq(Frame)
    BY <1>t, <1>2, <2>1 DEF EmitHandsOver, Accepts, DeliveryInv, ReaderState, InOrder
  <2>4. Channel!Deliver
    BY <1>t, <1>2, <2>1, <2>3, Delivering DEF EmitHandsOver
  <2> QED
    BY <1>2, <2>2, <2>4 DEF EmitHandsOver, flags, verdict, Channel!ChannelNext, Channel!Transfer
<1>3. CASE NextFromBuffer
  <2>1. Head(buf) \in Frame
    BY <1>t, <1>3 DEF NextFromBuffer
  <2>2. accepted' = Append(received, Head(buf)) \o Tail(buf) /\ Tail(buf) \in Seq(Frame)
    BY <1>t, <1>3, MoveHead DEF NextFromBuffer, DeliveryInv, InOrder
  <2>3. Channel!Deliver
    BY <1>t, <1>3, <2>1, <2>2, Delivering DEF NextFromBuffer
  <2> QED
    BY <1>3, <2>3 DEF NextFromBuffer, flags, verdict, Channel!ChannelNext, Channel!Transfer
<1>4. ASSUME NEW w \in Writers, NextRefills(w) PROVE Goal
  <2>1. wframe[w] \in Frame /\ Head(buf) \in Frame
    BY <1>t, <1>4 DEF NextRefills, FirstParked, Parked, TypeInv, FrameHeld, Emitting
  <2>2. ~chClosed
    BY <1>4 DEF NextRefills, FirstParked, Parked, DeliveryInv, CloseOrder
  <2>3. Channel!Accept
    BY <1>t, <1>4, <2>1, <2>2, Accepting DEF NextRefills
  <2>4. Append(received, Head(buf)) \in Seq(Frame) /\ Tail(buf) \in Seq(Frame)
    BY <1>t, <1>4, MoveHead DEF NextRefills
  <2>5. accepted' = Append(Append(received, Head(buf)) \o Tail(buf), wframe[w])
    BY <1>t, <1>4, MoveHead DEF NextRefills, Accepts, DeliveryInv, InOrder
  <2>6. accepted' = Append(received, Head(buf)) \o Append(Tail(buf), wframe[w])
    BY <2>1, <2>4, <2>5, AppendToBuffer
  <2>7. Append(Tail(buf), wframe[w]) \in Seq(Frame)
    BY <2>1, <2>4
  <2>8. Channel!Deliver
    BY <1>t, <1>4, <2>1, <2>6, <2>7, Delivering DEF NextRefills
  <2> QED
    BY <1>4, <2>3, <2>8 DEF NextRefills, flags, verdict, Channel!ChannelNext, Channel!Transfer
<1>5. ASSUME NEW w \in Writers, NextFromSender(w) PROVE Goal
  <2>1. wframe[w] \in Frame
    BY <1>t, <1>5 DEF NextFromSender, FirstParked, Parked, TypeInv, FrameHeld, Emitting
  <2>2. ~chClosed
    BY <1>5 DEF NextFromSender, FirstParked, Parked, DeliveryInv, CloseOrder
  <2>3. Channel!Accept
    BY <1>t, <1>5, <2>1, <2>2, Accepting DEF NextFromSender
  <2>4. accepted' = Append(received, wframe[w]) \o <<>> /\ <<>> \in Seq(Frame)
    BY <1>t, <1>5, <2>1 DEF NextFromSender, Accepts, DeliveryInv, InOrder
  <2>5. Channel!Deliver
    BY <1>t, <1>5, <2>1, <2>4, Delivering DEF NextFromSender
  <2> QED
    BY <1>5, <2>3, <2>5 DEF NextFromSender, flags, verdict, Channel!ChannelNext, Channel!Transfer
<1>6. ASSUME NEW w \in Writers, CloseChan(w) PROVE Goal
  BY <1>6 DEF CloseChan, ChanClose, log, verdict, Channel!ChannelNext, Channel!Shut
<1>7. CASE NextEnds
  <2>1. chClosed /\ received = accepted
    BY <1>t, <1>7 DEF NextEnds, DeliveryInv, ReaderState, InOrder
  <2> QED
    BY <1>7, <2>1 DEF NextEnds, flags, log, Channel!ChannelNext, Channel!End, Channel!Drained
<1>8. CASE UNCHANGED <<log, chClosed, ended>>
  BY <1>8 DEF log, Channel!channelVars
<1> QED
  <2>1. CASE UNCHANGED vars
    BY <1>8, <2>1 DEF vars, flags, verdict
  <2>2. CASE Running
    BY <1>1, <1>2, <1>3, <1>4, <1>5, <1>6, <1>7, <1>8, <2>2
       DEF Running, Writer, Reader, EmitSelect, CloseStep, NextSelect, EmitRefused, EmitLoad,
           EmitGivesUp, EmitPanics, EmitParks, Error, Close, CloseFlag, CloseDone, CloseAgain,
           NextCall, NextGivesUp, NextSeesClose, NextParks, Cancel, flags, verdict
  <2> QED
    BY <2>1, <2>2 DEF Next

\* What a Stream and its Emitter accept is delivered, in its order, and the end
\* that Next reports is final and complete, whatever the writers do; the types hold.
THEOREM DeliveryCorrect == Spec => []Delivery
<1>1. TypeOK /\ InOrder /\ EndIsFinal => Delivery
  BY DEF Delivery
<1> QED
  BY <1>1, TypeCorrect, InOrderAlways, EndIsComplete, PTL

\* A Stream and its Emitter implement the closable queue of FrameChannel.
THEOREM PipeImplementsChannel == Spec => ImplementsChannel
<1>1. DeliveryInv /\ [Next]_vars => [Channel!ChannelNext]_(Channel!channelVars)
  BY StepChannel
<1> QED
  BY <1>1, InitChannel, DeliveryAlways, PTL DEF Spec, ImplementsChannel, Channel!ChannelSpec

=============================================================================
