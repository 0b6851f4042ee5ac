------------------------ MODULE RealtimeSession_proofs ------------------------
(***************************************************************************)
(* Proofs about RealtimeSession, for any number of callers, any kinds of   *)
(* session and any sizes of queues.  What the reader, the writer, the      *)
(* callers and Close know of each other is stated in four parts, one for   *)
(* each promise of the session, on top of the types.                       *)
(***************************************************************************)
EXTENDS RealtimeSession, SequenceTheorems, TLAPS

(***************************************************************************)
(* Types.  They need to know that a goroutine that emits an event or       *)
(* writes a message has one, and that the attempts are counted only as     *)
(* long as there is an attempt to come.                                    *)
(***************************************************************************)
Emitting == {"emit", "select", "parked"}
Resuming == {"retire", "dial", "resume", "publish"}
Ended == {"giveUp", "closing", "done", "panicked"}
Writing == {"write", "failed", "sameConn"}
Busy == {"take", "noConn"} \cup Writing

\* The reader's event is the last one the client knows of.  A session that is not
\* resumed knows every event the server has sent; on a resumed one the server may
\* go back, but it leaves none out.
Numbered ==
  /\ next <= lastSeq + 1
  /\ ~kind.resumable => next = lastSeq + 1 /\ rpc \notin Resuming
  /\ rpc \in Emitting => event = lastSeq /\ event # 0

Handled ==
  /\ rpc \notin Ended => attempts <= MaxResume
  /\ wpc \in Writing => wconn # 0
  /\ wpc \in Busy => wmsg \in {Beat, dequeued}

TypeInv == TypeOK /\ Numbered /\ Handled

\* What a session may be, of its fields.
LEMMA KindFields ==
  ASSUME NEW k \in Kinds
  PROVE  /\ k.dials \in Nat \ {0} /\ k.events \in Nat /\ k.sends \in Nat
         /\ k.resumable \in BOOLEAN /\ k.native \in BOOLEAN /\ k.heartbeat \in BOOLEAN
BY KindAssumption DEF Kind

LEMMA Bounds ==
  /\ QueueSize \in Nat /\ RecvSize \in Nat /\ MaxResume \in Nat /\ WriteAttempts \in Nat
  /\ QueueSize >= 1 /\ RecvSize >= 1 /\ WriteAttempts >= 1
BY SessionBounds

LEMMA InitType == Init => TypeInv
<1> SUFFICES ASSUME Init PROVE TypeInv
  OBVIOUS
<1> USE KindFields, Bounds DEF Init
<1>1. LinkType
  BY DEF LinkType, Websocket
<1>2. ReaderType
  BY DEF ReaderType
<1>3. WriterType
  BY DEF WriterType, Beat
<1>4. CallerType
  <2>1. heard = 0 /\ Len(accepted) = 0 /\ sends \in 0 .. kind.sends
    OBVIOUS
  <2>2. spc \in [Callers -> {"idle", "mark", "spoken"} \cup Waiting]
    OBVIOUS
  <2>3. mine \in [Callers -> 0 .. Len(accepted)] /\ due \in [Callers -> 0 .. heard]
    BY <2>1
  <2>4. pending \in BOOLEAN /\ lostCommit \in BOOLEAN
    OBVIOUS
  <2> QED
    BY <2>1, <2>2, <2>3, <2>4 DEF CallerType
<1>5. RecvType
  <2>1. sent \in Seq(1 .. kind.events) /\ taken = 0 /\ Len(sent) = 0
    OBVIOUS
  <2>2. recvClosed \in BOOLEAN /\ trouble \in BOOLEAN
    OBVIOUS
  <2>3. err \in {"nil", "read", "write", "server"}
    OBVIOUS
  <2> QED
    BY <2>1, <2>2, <2>3 DEF RecvType
<1>6. Numbered /\ Handled
  BY DEF Numbered, Handled, Emitting, Resuming, Ended, Writing, Busy
<1> QED
  BY <1>1, <1>2, <1>3, <1>4, <1>5, <1>6 DEF TypeInv, TypeOK

LEMMA StepLinkType == TypeInv /\ [Next]_vars => LinkType'
<1> SUFFICES ASSUME TypeInv, [Next]_vars PROVE LinkType'
  OBVIOUS
<1> USE KindFields DEF TypeInv, TypeOK, LinkType, Websocket, link, closed, Running
<1>1. CASE HangUp
  BY <1>1 DEF HangUp, CloseWakes, Woken
<1>2. CASE Close \/ CloseRecv
  BY <1>2 DEF Close, CloseRecv, Flag
<1>3. CASE Retire
  BY <1>3 DEF Retire
<1>4. CASE Dial
  BY <1>4 DEF Dial
<1>5. CASE ResumeFails
  BY <1>5 DEF ResumeFails
<1>6. CASE PublishConn
  BY <1>6 DEF PublishConn, Woken
<1>7. CASE \/ ReadReplay \/ ReadEvent \/ ReadEnd \/ EmitChecks \/ EmitSends
         \/ EmitParks \/ EmitClosed \/ EmitPanics \/ ReaderExits \/ ReadFails
         \/ DialFails \/ Resume \/ GiveUp \/ ReaderCloses \/ ReaderClosed
  BY <1>7 DEF ReadReplay, ReadEvent, ReadEnd, EmitChecks, EmitSends,
     EmitParks, EmitClosed, EmitPanics, ReaderExits, ReadFails, DialFails,
     Resume, GiveUp, ReaderCloses, ReaderClosed, Flag
<1>8. CASE \/ WriterExits \/ Dequeue \/ Heartbeat \/ TakeConn \/ Write
         \/ WriteFails \/ WaitResumed
  BY <1>8 DEF WriterExits, Dequeue, Heartbeat, TakeConn, Write, WriteFails,
     WaitResumed, OnlyWriter
<1>9. ASSUME NEW s \in Callers,
             \/ SendAudio(s) \/ SendEOT(s) \/ Mark(s) \/ Enqueue(s)
             \/ SendRefused(s) \/ SendCancelled(s)
      PROVE  LinkType'
  BY <1>9 DEF SendAudio, SendEOT, Mark, Enqueue, SendRefused, SendCancelled,
     OnlyCallers, Returns
<1>10. ASSUME NEW c \in Websocket, Break(c) PROVE LinkType'
  BY <1>10 DEF Break
<1>11. CASE Receive
  BY <1>11 DEF Receive
<1>12. CASE UNCHANGED vars
  BY <1>12 DEF vars
<1> QED
  BY <1>1, <1>2, <1>3, <1>4, <1>5, <1>6, <1>7, <1>8, <1>9, <1>10,
     <1>11, <1>12
     DEF Next, Closer, Reader, Writer, Sending

LEMMA StepReaderType == TypeInv /\ [Next]_vars => ReaderType'
<1> SUFFICES ASSUME TypeInv, [Next]_vars PROVE ReaderType'
  OBVIOUS
<1> USE KindFields, Bounds DEF TypeInv, TypeOK, LinkType, ReaderType, Numbered,
      Handled, Ended, MaybeAck, reader
<1>1. CASE Close \/ HangUp \/ CloseRecv
  BY <1>1 DEF Close, HangUp, CloseRecv, Flag
<1>2. CASE ReadReplay
  BY <1>2 DEF ReadReplay, Arrives, Known
<1>3. CASE ReadEvent
  BY <1>3 DEF ReadEvent, Arrives, Known, MaybeAck, Room
<1>4. CASE ReadEnd
  BY <1>4 DEF ReadEnd, Arrives, Known, MaybeAck, Room, StoreErr
<1>5. CASE EmitChecks
  BY <1>5 DEF EmitChecks
<1>6. CASE EmitSends
  BY <1>6 DEF EmitSends, RecvRoom
<1>7. CASE EmitParks
  BY <1>7 DEF EmitParks, RecvRoom
<1>8. CASE EmitClosed
  BY <1>8 DEF EmitClosed
<1>9. CASE EmitPanics
  BY <1>9 DEF EmitPanics
<1>10. CASE ReaderExits
  BY <1>10 DEF ReaderExits
<1>11. CASE ReadFails
  BY <1>11 DEF ReadFails, StillOpen
<1>12. CASE Retire
  BY <1>12 DEF Retire
<1>13. CASE Dial
  BY <1>13 DEF Dial
<1>14. CASE DialFails
  BY <1>14 DEF DialFails
<1>15. CASE Resume
  BY <1>15 DEF Resume
<1>16. CASE ResumeFails
  BY <1>16 DEF ResumeFails
<1>17. CASE PublishConn
  BY <1>17 DEF PublishConn, Woken
<1>18. CASE GiveUp
  BY <1>18 DEF GiveUp, StoreErr
<1>19. CASE ReaderCloses
  BY <1>19 DEF ReaderCloses, Flag
<1>20. CASE ReaderClosed
  BY <1>20 DEF ReaderClosed
<1>21. CASE \/ WriterExits \/ Dequeue \/ Heartbeat \/ TakeConn \/ Write
         \/ WriteFails \/ WaitResumed
  BY <1>21 DEF WriterExits, Dequeue, Heartbeat, TakeConn, Write, WriteFails,
     WaitResumed, OnlyWriter
<1>22. ASSUME NEW s \in Callers,
              \/ SendAudio(s) \/ SendEOT(s) \/ Mark(s) \/ Enqueue(s)
              \/ SendRefused(s) \/ SendCancelled(s)
      PROVE  ReaderType'
  BY <1>22 DEF SendAudio, SendEOT, Mark, Enqueue, SendRefused, SendCancelled,
     OnlyCallers, Returns
<1>23. ASSUME NEW c \in Websocket, Break(c) PROVE ReaderType'
  BY <1>23 DEF Break
<1>24. CASE Receive
  BY <1>24 DEF Receive
<1>25. CASE UNCHANGED vars
  BY <1>25 DEF vars
<1> QED
  BY <1>1, <1>2, <1>3, <1>4, <1>5, <1>6, <1>7, <1>8, <1>9, <1>10,
     <1>11, <1>12, <1>13, <1>14, <1>15, <1>16, <1>17, <1>18, <1>19, <1>20,
     <1>21, <1>22, <1>23, <1>24, <1>25
     DEF Next, Closer, Reader, Writer, Sending


\* More messages and more websockets leave what was written well typed.
LEMMA WrittenGrows ==
  ASSUME written \in Seq([msg : 1 .. dequeued, to : 1 .. dialed]), UNCHANGED written,
         dequeued \in Nat, dequeued' \in Nat, dequeued <= dequeued',
         dialed \in Nat, dialed' \in Nat, dialed <= dialed'
  PROVE  written' \in Seq([msg : 1 .. dequeued', to : 1 .. dialed'])
<1>1. [msg : 1 .. dequeued, to : 1 .. dialed] \subseteq [msg : 1 .. dequeued', to : 1 .. dialed']
  OBVIOUS
<1> QED
  BY <1>1, SeqMonotonic

\* What enters the queue finds room.
Message == {"audio", "commit", "create", "ack"}

LEMMA QueueGrows ==
  ASSUME accepted \in Seq(Message), dequeued \in 0 .. Len(accepted), Room,
         NEW m \in Message, accepted' = Append(accepted, m)
  PROVE  accepted' \in Seq(Message) /\ Len(accepted') = Len(accepted) + 1 /\ Len(accepted') - dequeued <= QueueSize
<1>1. accepted' \in Seq(Message) /\ Len(accepted') = Len(accepted) + 1
  BY AppendProperties
<1> QED
  BY <1>1, Bounds DEF Room

LEMMA AckType ==
  ASSUME TypeInv, MaybeAck
  PROVE  /\ accepted' \in Seq(Message)
         /\ Len(accepted') \in Nat /\ Len(accepted) <= Len(accepted')
         /\ Len(accepted') - dequeued <= QueueSize
<1>1. /\ accepted \in Seq(Message) /\ Len(accepted) - dequeued <= QueueSize
      /\ dequeued \in 0 .. Len(accepted)
  BY DEF TypeInv, TypeOK, WriterType, Message
<1>2. CASE UNCHANGED accepted
  BY <1>1, <1>2
<1>3. CASE Room /\ accepted' = Append(accepted, "ack")
  <2>1. "ack" \in Message
    BY DEF Message
  <2> QED
    BY <1>1, <1>3, <2>1, QueueGrows
<1> QED
  BY <1>2, <1>3 DEF MaybeAck

LEMMA StepWriterType == TypeInv /\ [Next]_vars => WriterType'
<1> SUFFICES ASSUME TypeInv, [Next]_vars PROVE WriterType'
  OBVIOUS
<1> USE KindFields, Bounds DEF TypeInv, TypeOK, LinkType, WriterType, Message,
      Numbered, Handled, Writing, Busy, Websocket, closed, Beat, link, reader,
      writer, callers, recv
<1>1. CASE HangUp
  BY <1>1 DEF HangUp, CloseWakes, Woken
<1>2. CASE Close \/ CloseRecv
  BY <1>2 DEF Close, CloseRecv, Flag
<1>3. CASE ReadEvent
  BY <1>3, AckType DEF ReadEvent
<1>4. CASE ReadEnd
  BY <1>4, AckType DEF ReadEnd
<1>5. CASE Dial
  <2>1. written' \in Seq([msg : 1 .. dequeued', to : 1 .. dialed'])
    <3>1. dialed' = dialed + 1 /\ UNCHANGED <<dequeued, written>>
      BY <1>5 DEF Dial
    <3>2. dialed \in Nat /\ dequeued \in Nat
      OBVIOUS
    <3> QED
      BY <3>1, <3>2, WrittenGrows
  <2> QED
    BY <1>5, <2>1 DEF Dial
<1>6. CASE PublishConn
  BY <1>6 DEF PublishConn, Woken
<1>7. CASE \/ ReadReplay \/ EmitChecks \/ EmitSends \/ EmitParks \/ EmitClosed
         \/ EmitPanics \/ ReaderExits \/ ReadFails \/ Retire \/ DialFails
         \/ Resume \/ ResumeFails \/ GiveUp \/ ReaderCloses \/ ReaderClosed
  BY <1>7 DEF ReadReplay, EmitChecks, EmitSends, EmitParks, EmitClosed,
     EmitPanics, ReaderExits, ReadFails, Retire, DialFails, Resume,
     ResumeFails, GiveUp, ReaderCloses, ReaderClosed, Flag
<1>8. CASE WriterExits
  BY <1>8 DEF WriterExits, OnlyWriter
<1>9. CASE Dequeue
  <2>1. written' \in Seq([msg : 1 .. dequeued', to : 1 .. dialed'])
    <3>1. dequeued' = dequeued + 1 /\ UNCHANGED <<dialed, written>>
      BY <1>9 DEF Dequeue, OnlyWriter
    <3>2. dialed \in Nat /\ dequeued \in Nat
      OBVIOUS
    <3> QED
      BY <3>1, <3>2, WrittenGrows
  <2> QED
    BY <1>9, <2>1 DEF Dequeue, OnlyWriter
<1>10. CASE Heartbeat
  BY <1>10 DEF Heartbeat, OnlyWriter
<1>11. CASE TakeConn
  BY <1>11 DEF TakeConn, OnlyWriter, Fails, StoreErr
<1>12. CASE Write
  <2>1. written' \in Seq([msg : 1 .. dequeued, to : 1 .. dialed])
    <3>1. CASE wmsg = Beat
      BY <1>12, <3>1 DEF Write
    <3>2. CASE wmsg # Beat
      <4>1. [msg |-> wmsg, to |-> wconn] \in [msg : 1 .. dequeued, to : 1 .. dialed]
        BY <1>12, <3>2 DEF Write
      <4> QED
        BY <1>12, <3>2, <4>1 DEF Write
    <3> QED
      BY <3>1, <3>2
  <2> QED
    BY <1>12, <2>1 DEF Write, OnlyWriter
<1>13. CASE WriteFails
  BY <1>13 DEF WriteFails, OnlyWriter, Fails, StoreErr
<1>14. CASE WaitResumed
  BY <1>14 DEF WaitResumed, OnlyWriter, Fails, StoreErr, AfterResume
<1>15. ASSUME NEW s \in Callers, Enqueue(s) PROVE WriterType'
  <2>1. spc[s] \in Message /\ accepted' = Append(accepted, spc[s]) /\ Room
    BY <1>15 DEF Enqueue, Waiting
  <2>2. accepted' \in Seq(Message) /\ Len(accepted') = Len(accepted) + 1 /\ Len(accepted') - dequeued <= QueueSize
    BY <2>1, QueueGrows
  <2> QED
    BY <1>15, <2>2 DEF Enqueue, OnlyCallers
<1>16. ASSUME NEW s \in Callers,
              \/ SendAudio(s) \/ SendEOT(s) \/ Mark(s) \/ SendRefused(s)
              \/ SendCancelled(s)
      PROVE  WriterType'
  BY <1>16 DEF SendAudio, SendEOT, Mark, SendRefused, SendCancelled,
     OnlyCallers, Returns
<1>17. ASSUME NEW c \in Websocket, Break(c) PROVE WriterType'
  BY <1>17 DEF Break
<1>18. CASE Receive
  BY <1>18 DEF Receive
<1>19. CASE UNCHANGED vars
  BY <1>19 DEF vars
<1> QED
  BY <1>1, <1>2, <1>3, <1>4, <1>5, <1>6, <1>7, <1>8, <1>9, <1>10,
     <1>11, <1>12, <1>13, <1>14, <1>15, <1>16, <1>17, <1>18, <1>19
     DEF Next, Closer, Reader, Writer, Sending

LEMMA StepCallerType == TypeInv /\ [Next]_vars => CallerType'
<1> SUFFICES ASSUME TypeInv, [Next]_vars PROVE CallerType'
  OBVIOUS
<1> USE KindFields DEF TypeInv, TypeOK, WriterType, CallerType, Message, Waiting, callers
<1>1. CASE Close \/ HangUp \/ CloseRecv
  BY <1>1 DEF Close, HangUp, CloseRecv, Flag
<1>2. CASE ReadEvent
  BY <1>2, AckType DEF ReadEvent
<1>3. CASE ReadEnd
  BY <1>3, AckType DEF ReadEnd
<1>4. CASE \/ ReadReplay \/ EmitChecks \/ EmitSends \/ EmitParks \/ EmitClosed
         \/ EmitPanics \/ ReaderExits \/ ReadFails \/ Retire \/ Dial
         \/ DialFails \/ Resume \/ ResumeFails \/ PublishConn \/ GiveUp
         \/ ReaderCloses \/ ReaderClosed
  BY <1>4 DEF ReadReplay, EmitChecks, EmitSends, EmitParks, EmitClosed,
     EmitPanics, ReaderExits, ReadFails, Retire, Dial, DialFails, Resume,
     ResumeFails, PublishConn, GiveUp, ReaderCloses, ReaderClosed, Flag
<1>5. CASE \/ WriterExits \/ Dequeue \/ Heartbeat \/ TakeConn \/ Write
         \/ WriteFails \/ WaitResumed
  BY <1>5 DEF WriterExits, Dequeue, Heartbeat, TakeConn, Write, WriteFails,
     WaitResumed, OnlyWriter
<1>6. ASSUME NEW s \in Callers, SendAudio(s) PROVE CallerType'
  <2>1. sends' \in 0 .. kind'.sends
    BY <1>6 DEF SendAudio, Begins, OnlyCallers, LinkType
  <2>2. pending' \in BOOLEAN
    BY <1>6 DEF SendAudio
  <2> QED
    BY <1>6, <2>1, <2>2 DEF SendAudio, OnlyCallers
<1>7. ASSUME NEW s \in Callers, SendEOT(s) PROVE CallerType'
  <2>1. sends' \in 0 .. kind'.sends
    BY <1>7 DEF SendEOT, Begins, OnlyCallers, LinkType
  <2>2. spc' \in [Callers -> {"idle", "mark", "spoken"} \cup Waiting]
    BY <1>7 DEF SendEOT, AfterCommit
  <2>3. due' \in [Callers -> 0 .. heard]
    BY <1>7 DEF SendEOT
  <2>4. pending' \in BOOLEAN
    BY <1>7 DEF SendEOT
  <2> QED
    BY <1>7, <2>1, <2>2, <2>3, <2>4 DEF SendEOT, OnlyCallers
<1>8. ASSUME NEW s \in Callers, Mark(s) PROVE CallerType'
  BY <1>8 DEF Mark, OnlyCallers, MarksAt
<1>9. ASSUME NEW s \in Callers, Enqueue(s) PROVE CallerType'
  BY <1>9 DEF Enqueue, OnlyCallers, AfterCommit, Waiting, Room
<1>10. ASSUME NEW s \in Callers, SendRefused(s) PROVE CallerType'
  BY <1>10 DEF SendRefused, Returns, OnlyCallers, Waiting
<1>11. ASSUME NEW s \in Callers, SendCancelled(s) PROVE CallerType'
  BY <1>11 DEF SendCancelled, Returns, OnlyCallers, Waiting
<1>12. ASSUME NEW c \in Websocket, Break(c) PROVE CallerType'
  BY <1>12 DEF Break
<1>13. CASE Receive
  BY <1>13 DEF Receive
<1>14. CASE UNCHANGED vars
  BY <1>14 DEF vars
<1> QED
  BY <1>1, <1>2, <1>3, <1>4, <1>5, <1>6, <1>7, <1>8, <1>9, <1>10,
     <1>11, <1>12, <1>13, <1>14
     DEF Next, Closer, Reader, Writer, Sending

LEMMA StepRecvType == TypeInv /\ [Next]_vars => RecvType'
<1> SUFFICES ASSUME TypeInv, [Next]_vars PROVE RecvType'
  OBVIOUS
<1> USE KindFields, Bounds DEF TypeInv, TypeOK, LinkType, ReaderType, RecvType,
      Numbered, Emitting, recv
<1>1. CASE CloseRecv
  BY <1>1 DEF CloseRecv
<1>2. CASE Close \/ HangUp
  BY <1>2 DEF Close, HangUp, Flag
<1>3. CASE ReadEnd
  BY <1>3 DEF ReadEnd, Arrives, Known, MaybeAck, Room, StoreErr
<1>4. CASE EmitSends
  BY <1>4 DEF EmitSends, RecvRoom
<1>5. CASE ReaderExits
  BY <1>5 DEF ReaderExits
<1>6. CASE GiveUp
  BY <1>6 DEF GiveUp, StoreErr
<1>7. CASE \/ ReadReplay \/ ReadEvent \/ EmitChecks \/ EmitParks \/ EmitClosed
         \/ EmitPanics \/ ReadFails \/ Retire \/ Dial \/ DialFails \/ Resume
         \/ ResumeFails \/ PublishConn \/ ReaderCloses \/ ReaderClosed
  BY <1>7 DEF ReadReplay, ReadEvent, EmitChecks, EmitParks, EmitClosed,
     EmitPanics, ReadFails, Retire, Dial, DialFails, Resume, ResumeFails,
     PublishConn, ReaderCloses, ReaderClosed, Flag
<1>8. CASE TakeConn
  BY <1>8 DEF TakeConn, OnlyWriter, Fails, StoreErr
<1>9. CASE WriteFails
  BY <1>9 DEF WriteFails, OnlyWriter, Fails, StoreErr
<1>10. CASE WaitResumed
  BY <1>10 DEF WaitResumed, OnlyWriter, Fails, StoreErr, AfterResume
<1>11. CASE WriterExits \/ Dequeue \/ Heartbeat \/ Write
  BY <1>11 DEF WriterExits, Dequeue, Heartbeat, Write, OnlyWriter
<1>12. ASSUME NEW s \in Callers,
              \/ SendAudio(s) \/ SendEOT(s) \/ Mark(s) \/ Enqueue(s)
              \/ SendRefused(s) \/ SendCancelled(s)
      PROVE  RecvType'
  BY <1>12 DEF SendAudio, SendEOT, Mark, Enqueue, SendRefused, SendCancelled,
     OnlyCallers, Returns
<1>13. ASSUME NEW c \in Websocket, Break(c) PROVE RecvType'
  BY <1>13 DEF Break
<1>14. CASE Receive
  BY <1>14 DEF Receive
<1>15. CASE UNCHANGED vars
  BY <1>15 DEF vars
<1> QED
  BY <1>1, <1>2, <1>3, <1>4, <1>5, <1>6, <1>7, <1>8, <1>9, <1>10,
     <1>11, <1>12, <1>13, <1>14, <1>15
     DEF Next, Closer, Reader, Writer, Sending

LEMMA StepNumbered == TypeInv /\ [Next]_vars => Numbered'
<1> SUFFICES ASSUME TypeInv, [Next]_vars PROVE Numbered'
  OBVIOUS
<1> USE KindFields DEF TypeInv, TypeOK, LinkType, ReaderType, Numbered, Emitting,
      Resuming, reader
<1>1. CASE Close \/ HangUp \/ CloseRecv
  BY <1>1 DEF Close, HangUp, CloseRecv, Flag
<1>2. CASE ReadReplay
  BY <1>2 DEF ReadReplay, Arrives, Known
<1>3. CASE ReadEvent
  BY <1>3 DEF ReadEvent, Arrives, Known, MaybeAck, Room
<1>4. CASE ReadEnd
  BY <1>4 DEF ReadEnd, Arrives, Known, MaybeAck, Room, StoreErr
<1>5. CASE EmitChecks
  BY <1>5 DEF EmitChecks
<1>6. CASE EmitSends
  BY <1>6 DEF EmitSends, RecvRoom
<1>7. CASE EmitParks
  BY <1>7 DEF EmitParks, RecvRoom
<1>8. CASE EmitClosed
  BY <1>8 DEF EmitClosed
<1>9. CASE EmitPanics
  BY <1>9 DEF EmitPanics
<1>10. CASE ReaderExits
  BY <1>10 DEF ReaderExits
<1>11. CASE ReadFails
  BY <1>11 DEF ReadFails, StillOpen
<1>12. CASE Retire
  BY <1>12 DEF Retire
<1>13. CASE Dial
  BY <1>13 DEF Dial
<1>14. CASE DialFails
  BY <1>14 DEF DialFails
<1>15. CASE Resume
  BY <1>15 DEF Resume
<1>16. CASE ResumeFails
  BY <1>16 DEF ResumeFails
<1>17. CASE PublishConn
  BY <1>17 DEF PublishConn, Woken
<1>18. CASE GiveUp
  BY <1>18 DEF GiveUp, StoreErr
<1>19. CASE ReaderCloses
  BY <1>19 DEF ReaderCloses, Flag
<1>20. CASE ReaderClosed
  BY <1>20 DEF ReaderClosed
<1>21. CASE \/ WriterExits \/ Dequeue \/ Heartbeat \/ TakeConn \/ Write
         \/ WriteFails \/ WaitResumed
  BY <1>21 DEF WriterExits, Dequeue, Heartbeat, TakeConn, Write, WriteFails,
     WaitResumed, OnlyWriter
<1>22. ASSUME NEW s \in Callers,
              \/ SendAudio(s) \/ SendEOT(s) \/ Mark(s) \/ Enqueue(s)
              \/ SendRefused(s) \/ SendCancelled(s)
      PROVE  Numbered'
  BY <1>22 DEF SendAudio, SendEOT, Mark, Enqueue, SendRefused, SendCancelled,
     OnlyCallers, Returns
<1>23. ASSUME NEW c \in Websocket, Break(c) PROVE Numbered'
  BY <1>23 DEF Break
<1>24. CASE Receive
  BY <1>24 DEF Receive
<1>25. CASE UNCHANGED vars
  BY <1>25 DEF vars
<1> QED
  BY <1>1, <1>2, <1>3, <1>4, <1>5, <1>6, <1>7, <1>8, <1>9, <1>10,
     <1>11, <1>12, <1>13, <1>14, <1>15, <1>16, <1>17, <1>18, <1>19, <1>20,
     <1>21, <1>22, <1>23, <1>24, <1>25
     DEF Next, Closer, Reader, Writer, Sending

LEMMA StepHandled == TypeInv /\ [Next]_vars => Handled'
<1> SUFFICES ASSUME TypeInv, [Next]_vars PROVE Handled'
  OBVIOUS
<1> USE KindFields, Bounds DEF TypeInv, TypeOK, LinkType, ReaderType, WriterType,
      Numbered, Handled, Ended, Writing, Busy, Beat, reader, writer
<1>1. CASE HangUp
  BY <1>1 DEF HangUp, CloseWakes, Woken
<1>2. CASE Close \/ CloseRecv
  BY <1>2 DEF Close, CloseRecv, Flag
<1>3. CASE ReadReplay
  BY <1>3 DEF ReadReplay, Arrives, Known
<1>4. CASE ReadEvent
  BY <1>4 DEF ReadEvent, Arrives, Known, MaybeAck, Room
<1>5. CASE ReadEnd
  BY <1>5 DEF ReadEnd, Arrives, Known, MaybeAck, Room, StoreErr
<1>6. CASE ReadFails
  BY <1>6 DEF ReadFails, StillOpen
<1>7. CASE PublishConn
  BY <1>7 DEF PublishConn, Woken
<1>8. CASE \/ EmitChecks \/ EmitSends \/ EmitParks \/ EmitClosed \/ EmitPanics
         \/ ReaderExits \/ Retire \/ Dial \/ DialFails \/ Resume
         \/ ResumeFails \/ GiveUp \/ ReaderCloses \/ ReaderClosed
  BY <1>8 DEF EmitChecks, EmitSends, EmitParks, EmitClosed, EmitPanics,
     ReaderExits, Retire, Dial, DialFails, Resume, ResumeFails, GiveUp,
     ReaderCloses, ReaderClosed, Flag
<1>9. CASE WriterExits
  BY <1>9 DEF WriterExits, OnlyWriter
<1>10. CASE Dequeue
  BY <1>10 DEF Dequeue, OnlyWriter
<1>11. CASE Heartbeat
  BY <1>11 DEF Heartbeat, OnlyWriter
<1>12. CASE TakeConn
  BY <1>12 DEF TakeConn, OnlyWriter, Fails, StoreErr
<1>13. CASE Write
  BY <1>13 DEF Write, OnlyWriter
<1>14. CASE WriteFails
  BY <1>14 DEF WriteFails, OnlyWriter, Fails, StoreErr
<1>15. CASE WaitResumed
  BY <1>15 DEF WaitResumed, OnlyWriter, Fails, StoreErr, AfterResume
<1>16. ASSUME NEW s \in Callers,
              \/ SendAudio(s) \/ SendEOT(s) \/ Mark(s) \/ Enqueue(s)
              \/ SendRefused(s) \/ SendCancelled(s)
      PROVE  Handled'
  BY <1>16 DEF SendAudio, SendEOT, Mark, Enqueue, SendRefused, SendCancelled,
     OnlyCallers, Returns
<1>17. ASSUME NEW c \in Websocket, Break(c) PROVE Handled'
  BY <1>17 DEF Break
<1>18. CASE Receive
  BY <1>18 DEF Receive
<1>19. CASE UNCHANGED vars
  BY <1>19 DEF vars
<1> QED
  BY <1>1, <1>2, <1>3, <1>4, <1>5, <1>6, <1>7, <1>8, <1>9, <1>10,
     <1>11, <1>12, <1>13, <1>14, <1>15, <1>16, <1>17, <1>18, <1>19
     DEF Next, Closer, Reader, Writer, Sending

LEMMA TypeAlways == Spec => []TypeInv
<1>1. TypeInv /\ [Next]_vars => TypeInv'
  BY StepLinkType, StepReaderType, StepWriterType, StepCallerType, StepRecvType, StepNumbered, StepHandled
     DEF TypeInv, TypeOK
<1> QED
  BY <1>1, InitType, PTL DEF Spec

\* Every variable of a session keeps its type (provider/realtime/realtime.go),
\* whatever the server, the network and the callers do.
THEOREM TypeCorrect == Spec => []TypeOK
<1>1. TypeInv => TypeOK
  BY DEF TypeInv
<1> QED
  BY <1>1, TypeAlways, PTL

(***************************************************************************)
(* Events.  As long as Recv is open, every event the client knows of has   *)
(* been emitted, but for the one the reader holds.                         *)
(***************************************************************************)
InSequence == \A i \in DOMAIN sent : sent[i] = i

AllEmitted ==
  ~recvClosed /\ rpc \notin {"closing", "done", "panicked"} =>
    lastSeq = Len(sent) + (IF rpc \in Emitting THEN 1 ELSE 0)

EventInv == TypeInv /\ AllEmitted /\ InSequence

LEMMA StepAllEmitted == EventInv /\ [Next]_vars => AllEmitted'
<1> SUFFICES ASSUME EventInv, [Next]_vars PROVE AllEmitted'
  OBVIOUS
<1> USE DEF EventInv, TypeInv, TypeOK, ReaderType, RecvType, Numbered, AllEmitted,
      Emitting, Ended, reader, recv
<1>1. CASE CloseRecv
  BY <1>1 DEF CloseRecv
<1>2. CASE Close \/ HangUp
  BY <1>2 DEF Close, HangUp, Flag
<1>3. CASE ReadReplay
  BY <1>3 DEF ReadReplay, Arrives, Known
<1>4. CASE ReadEvent
  <2>1. next = lastSeq + 1
    BY <1>4 DEF ReadEvent, Known
  <2> QED
    BY <1>4, <2>1 DEF ReadEvent, Arrives
<1>5. CASE ReadEnd
  BY <1>5 DEF ReadEnd, Arrives, Known, MaybeAck, Room, StoreErr
<1>6. CASE EmitChecks
  BY <1>6 DEF EmitChecks
<1>7. CASE EmitSends
  BY <1>7 DEF EmitSends, RecvRoom
<1>8. CASE EmitParks
  BY <1>8 DEF EmitParks, RecvRoom
<1>9. CASE EmitClosed
  BY <1>9 DEF EmitClosed
<1>10. CASE EmitPanics
  BY <1>10 DEF EmitPanics
<1>11. CASE ReaderExits
  BY <1>11 DEF ReaderExits
<1>12. CASE ReadFails
  BY <1>12 DEF ReadFails, StillOpen
<1>13. CASE Retire
  BY <1>13 DEF Retire
<1>14. CASE Dial
  BY <1>14 DEF Dial
<1>15. CASE DialFails
  BY <1>15 DEF DialFails
<1>16. CASE Resume
  BY <1>16 DEF Resume
<1>17. CASE ResumeFails
  BY <1>17 DEF ResumeFails
<1>18. CASE PublishConn
  BY <1>18 DEF PublishConn, Woken
<1>19. CASE GiveUp
  BY <1>19 DEF GiveUp, StoreErr
<1>20. CASE ReaderCloses
  BY <1>20 DEF ReaderCloses, Flag
<1>21. CASE ReaderClosed
  BY <1>21 DEF ReaderClosed
<1>22. CASE \/ WriterExits \/ Dequeue \/ Heartbeat \/ TakeConn \/ Write
         \/ WriteFails \/ WaitResumed
  BY <1>22 DEF WriterExits, Dequeue, Heartbeat, TakeConn, Write, WriteFails,
     WaitResumed, OnlyWriter
<1>23. ASSUME NEW s \in Callers,
              \/ SendAudio(s) \/ SendEOT(s) \/ Mark(s) \/ Enqueue(s)
              \/ SendRefused(s) \/ SendCancelled(s)
      PROVE  AllEmitted'
  BY <1>23 DEF SendAudio, SendEOT, Mark, Enqueue, SendRefused, SendCancelled,
     OnlyCallers, Returns
<1>24. ASSUME NEW c \in Websocket, Break(c) PROVE AllEmitted'
  BY <1>24 DEF Break
<1>25. CASE Receive
  BY <1>25 DEF Receive
<1>26. CASE UNCHANGED vars
  BY <1>26 DEF vars
<1> QED
  BY <1>1, <1>2, <1>3, <1>4, <1>5, <1>6, <1>7, <1>8, <1>9, <1>10,
     <1>11, <1>12, <1>13, <1>14, <1>15, <1>16, <1>17, <1>18, <1>19, <1>20,
     <1>21, <1>22, <1>23, <1>24, <1>25, <1>26
     DEF Next, Closer, Reader, Writer, Sending

LEMMA StepInSequence == EventInv /\ [Next]_vars => InSequence'
<1> SUFFICES ASSUME EventInv, [Next]_vars PROVE InSequence'
  OBVIOUS
<1> USE DEF EventInv, TypeInv, TypeOK, ReaderType, RecvType, Numbered, AllEmitted,
      InSequence, Emitting, recv
<1>1. CASE Close \/ HangUp \/ CloseRecv
  BY <1>1 DEF Close, HangUp, CloseRecv, Flag
<1>2. CASE EmitSends
  BY <1>2 DEF EmitSends, RecvRoom
<1>3. CASE \/ ReadReplay \/ ReadEvent \/ ReadEnd \/ EmitChecks \/ EmitParks
         \/ EmitClosed \/ EmitPanics \/ ReaderExits \/ ReadFails \/ Retire
         \/ Dial \/ DialFails \/ Resume \/ ResumeFails \/ PublishConn
         \/ GiveUp \/ ReaderCloses \/ ReaderClosed
  BY <1>3 DEF ReadReplay, ReadEvent, ReadEnd, EmitChecks, EmitParks,
     EmitClosed, EmitPanics, ReaderExits, ReadFails, Retire, Dial, DialFails,
     Resume, ResumeFails, PublishConn, GiveUp, ReaderCloses, ReaderClosed,
     Flag
<1>4. CASE \/ WriterExits \/ Dequeue \/ Heartbeat \/ TakeConn \/ Write
         \/ WriteFails \/ WaitResumed
  BY <1>4 DEF WriterExits, Dequeue, Heartbeat, TakeConn, Write, WriteFails,
     WaitResumed, OnlyWriter
<1>5. ASSUME NEW s \in Callers,
             \/ SendAudio(s) \/ SendEOT(s) \/ Mark(s) \/ Enqueue(s)
             \/ SendRefused(s) \/ SendCancelled(s)
      PROVE  InSequence'
  BY <1>5 DEF SendAudio, SendEOT, Mark, Enqueue, SendRefused, SendCancelled,
     OnlyCallers, Returns
<1>6. ASSUME NEW c \in Websocket, Break(c) PROVE InSequence'
  BY <1>6 DEF Break
<1>7. CASE Receive
  BY <1>7 DEF Receive
<1>8. CASE UNCHANGED vars
  BY <1>8 DEF vars
<1> QED
  BY <1>1, <1>2, <1>3, <1>4, <1>5, <1>6, <1>7, <1>8
     DEF Next, Closer, Reader, Writer, Sending

\* The events of the server reach the caller of Recv in order, once each
\* (handleMessage, tryResume).
THEOREM EventsOnceAlways == Spec => []EventsOnce
<1>1. Init => AllEmitted /\ InSequence
  BY DEF Init, AllEmitted, InSequence, Emitting
<1>2. EventInv /\ [Next]_vars => AllEmitted' /\ InSequence'
  BY StepAllEmitted, StepInSequence
<1>3. TypeInv /\ AllEmitted /\ InSequence => EventsOnce
  BY DEF TypeInv, InSequence, EventsOnce
<1> QED
  BY <1>1, <1>2, <1>3, TypeAlways, PTL DEF Spec, EventInv

(***************************************************************************)
(* Writes.  The connection is the websocket published last, or none while  *)
(* the reader makes a new one; and all that was dequeued has been written, *)
(* but for the message the writer holds.                                   *)
(***************************************************************************)
Published ==
  /\ conn \in {0, gen}
  /\ rpc \in {"dial", "resume", "publish"} => conn = 0
  /\ wpc \in Writing => wconn <= gen

AllWritten ==
  /\ wpc = "idle" \/ (wpc \in Busy /\ wmsg = Beat) => Len(written) = dequeued
  /\ wpc \in Busy /\ wmsg # Beat => Len(written) + 1 = dequeued
  /\ wpc = "write" => \A i \in DOMAIN written : written[i].to <= wconn

WriteInv == TypeInv /\ Published /\ AllWritten /\ WritesInOrder

LEMMA StepPublished == WriteInv /\ [Next]_vars => Published'
<1> SUFFICES ASSUME WriteInv, [Next]_vars PROVE Published'
  OBVIOUS
<1> USE DEF WriteInv, TypeInv, TypeOK, LinkType, ReaderType, WriterType, Published,
      Handled, Writing, Busy, Websocket, link, reader, writer
<1>1. CASE HangUp
  BY <1>1 DEF HangUp, CloseWakes, Woken
<1>2. CASE Close \/ CloseRecv
  BY <1>2 DEF Close, CloseRecv, Flag
<1>3. CASE ReadReplay
  BY <1>3 DEF ReadReplay, Arrives, Known
<1>4. CASE ReadEvent
  BY <1>4 DEF ReadEvent, Arrives, Known, MaybeAck, Room
<1>5. CASE ReadEnd
  BY <1>5 DEF ReadEnd, Arrives, Known, MaybeAck, Room, StoreErr
<1>6. CASE EmitChecks
  BY <1>6 DEF EmitChecks
<1>7. CASE EmitSends
  BY <1>7 DEF EmitSends, RecvRoom
<1>8. CASE EmitParks
  BY <1>8 DEF EmitParks, RecvRoom
<1>9. CASE EmitClosed
  BY <1>9 DEF EmitClosed
<1>10. CASE EmitPanics
  BY <1>10 DEF EmitPanics
<1>11. CASE ReaderExits
  BY <1>11 DEF ReaderExits
<1>12. CASE ReadFails
  BY <1>12 DEF ReadFails, StillOpen
<1>13. CASE Retire
  BY <1>13 DEF Retire
<1>14. CASE Dial
  BY <1>14 DEF Dial
<1>15. CASE DialFails
  BY <1>15 DEF DialFails
<1>16. CASE Resume
  BY <1>16 DEF Resume
<1>17. CASE ResumeFails
  BY <1>17 DEF ResumeFails
<1>18. CASE PublishConn
  BY <1>18 DEF PublishConn, Woken
<1>19. CASE GiveUp
  BY <1>19 DEF GiveUp, StoreErr
<1>20. CASE ReaderCloses
  BY <1>20 DEF ReaderCloses, Flag
<1>21. CASE ReaderClosed
  BY <1>21 DEF ReaderClosed
<1>22. CASE WriterExits
  BY <1>22 DEF WriterExits, OnlyWriter
<1>23. CASE Dequeue
  BY <1>23 DEF Dequeue, OnlyWriter
<1>24. CASE Heartbeat
  BY <1>24 DEF Heartbeat, OnlyWriter
<1>25. CASE TakeConn
  BY <1>25 DEF TakeConn, OnlyWriter, Fails, StoreErr
<1>26. CASE Write
  BY <1>26 DEF Write, OnlyWriter
<1>27. CASE WriteFails
  BY <1>27 DEF WriteFails, OnlyWriter, Fails, StoreErr
<1>28. CASE WaitResumed
  BY <1>28 DEF WaitResumed, OnlyWriter, Fails, StoreErr, AfterResume
<1>29. ASSUME NEW s \in Callers,
              \/ SendAudio(s) \/ SendEOT(s) \/ Mark(s) \/ Enqueue(s)
              \/ SendRefused(s) \/ SendCancelled(s)
      PROVE  Published'
  BY <1>29 DEF SendAudio, SendEOT, Mark, Enqueue, SendRefused, SendCancelled,
     OnlyCallers, Returns
<1>30. ASSUME NEW c \in Websocket, Break(c) PROVE Published'
  BY <1>30 DEF Break
<1>31. CASE Receive
  BY <1>31 DEF Receive
<1>32. CASE UNCHANGED vars
  BY <1>32 DEF vars
<1> QED
  BY <1>1, <1>2, <1>3, <1>4, <1>5, <1>6, <1>7, <1>8, <1>9, <1>10,
     <1>11, <1>12, <1>13, <1>14, <1>15, <1>16, <1>17, <1>18, <1>19, <1>20,
     <1>21, <1>22, <1>23, <1>24, <1>25, <1>26, <1>27, <1>28, <1>29, <1>30,
     <1>31, <1>32
     DEF Next, Closer, Reader, Writer, Sending

LEMMA StepAllWritten == WriteInv /\ [Next]_vars => AllWritten'
<1> SUFFICES ASSUME WriteInv, [Next]_vars PROVE AllWritten'
  OBVIOUS
<1> USE DEF WriteInv, TypeInv, TypeOK, LinkType, WriterType, Published, AllWritten,
      WritesInOrder, Handled, Writing, Busy, Beat, writer
<1>1. CASE HangUp
  BY <1>1 DEF HangUp, CloseWakes, Woken
<1>2. CASE Close \/ CloseRecv
  BY <1>2 DEF Close, CloseRecv, Flag
<1>3. CASE PublishConn
  BY <1>3 DEF PublishConn, Woken
<1>4. CASE \/ ReadReplay \/ ReadEvent \/ ReadEnd \/ EmitChecks \/ EmitSends
         \/ EmitParks \/ EmitClosed \/ EmitPanics \/ ReaderExits \/ ReadFails
         \/ Retire \/ Dial \/ DialFails \/ Resume \/ ResumeFails \/ GiveUp
         \/ ReaderCloses \/ ReaderClosed
  BY <1>4 DEF ReadReplay, ReadEvent, ReadEnd, EmitChecks, EmitSends,
     EmitParks, EmitClosed, EmitPanics, ReaderExits, ReadFails, Retire, Dial,
     DialFails, Resume, ResumeFails, GiveUp, ReaderCloses, ReaderClosed, Flag
<1>5. CASE WriterExits
  BY <1>5 DEF WriterExits, OnlyWriter
<1>6. CASE Dequeue
  BY <1>6 DEF Dequeue, OnlyWriter
<1>7. CASE Heartbeat
  BY <1>7 DEF Heartbeat, OnlyWriter
<1>8. CASE TakeConn
  BY <1>8 DEF TakeConn, OnlyWriter, Fails, StoreErr
<1>9. CASE Write
  BY <1>9 DEF Write, OnlyWriter
<1>10. CASE WriteFails
  BY <1>10 DEF WriteFails, OnlyWriter, Fails, StoreErr
<1>11. CASE WaitResumed
  BY <1>11 DEF WaitResumed, OnlyWriter, Fails, StoreErr, AfterResume
<1>12. ASSUME NEW s \in Callers,
              \/ SendAudio(s) \/ SendEOT(s) \/ Mark(s) \/ Enqueue(s)
              \/ SendRefused(s) \/ SendCancelled(s)
      PROVE  AllWritten'
  BY <1>12 DEF SendAudio, SendEOT, Mark, Enqueue, SendRefused, SendCancelled,
     OnlyCallers, Returns
<1>13. ASSUME NEW c \in Websocket, Break(c) PROVE AllWritten'
  BY <1>13 DEF Break
<1>14. CASE Receive
  BY <1>14 DEF Receive
<1>15. CASE UNCHANGED vars
  BY <1>15 DEF vars
<1> QED
  BY <1>1, <1>2, <1>3, <1>4, <1>5, <1>6, <1>7, <1>8, <1>9, <1>10,
     <1>11, <1>12, <1>13, <1>14, <1>15
     DEF Next, Closer, Reader, Writer, Sending

\* What a new websocket, and a write to the current one, do to the order.
LEMMA OrderKept ==
  ASSUME WritesInOrder, TypeInv, gen' \in Nat, gen <= gen', UNCHANGED written
  PROVE  WritesInOrder'
<1>1. gen \in Nat /\ dialed \in Nat
  BY KindFields DEF TypeInv, TypeOK, LinkType, Websocket
<1>2. \A i \in DOMAIN written : written[i] \in [msg : 1 .. dequeued, to : 1 .. dialed]
  <2>1. written \in Seq([msg : 1 .. dequeued, to : 1 .. dialed])
    BY DEF TypeInv, TypeOK, WriterType
  <2> QED
    BY <2>1, ElementOfSeq, LenProperties
<1>3. \A i \in DOMAIN written : written[i].to \in Nat
  BY <1>1, <1>2
<1> QED
  BY <1>1, <1>3 DEF WritesInOrder

LEMMA OrderGrows ==
  ASSUME WritesInOrder, TypeInv, UNCHANGED gen, NEW m, NEW c, m = Len(written) + 1, c <= gen,
         \A i \in DOMAIN written : written[i].to <= c,
         written' = Append(written, [msg |-> m, to |-> c])
  PROVE  WritesInOrder'
<1> DEFINE new == [msg |-> m, to |-> c]
<1>1. new.msg = m /\ new.to = c
  OBVIOUS
<1>2. Len(written) \in Nat /\ DOMAIN written = 1 .. Len(written)
  BY DEF TypeInv, TypeOK, WriterType
<1>3. /\ DOMAIN written' = 1 .. Len(written) + 1
      /\ written'[Len(written) + 1] = new
      /\ \A i \in 1 .. Len(written) : written'[i] = written[i]
  BY DEF TypeInv, TypeOK, WriterType
<1> HIDE DEF new
<1> QED
  BY <1>1, <1>2, <1>3 DEF WritesInOrder

LEMMA StepWritesInOrder == WriteInv /\ [Next]_vars => WritesInOrder'
<1> SUFFICES ASSUME WriteInv, [Next]_vars PROVE WritesInOrder'
  OBVIOUS
<1> USE DEF WriteInv, WritesInOrder, link, writer
<1>1. CASE Close \/ HangUp \/ CloseRecv
  BY <1>1 DEF Close, HangUp, CloseRecv, Flag
<1>2. CASE PublishConn
  <2>1. gen <= gen' /\ gen' \in Nat /\ UNCHANGED written
    BY <1>2 DEF PublishConn, TypeInv, TypeOK, LinkType, Websocket
  <2> QED
    BY <2>1, OrderKept
<1>3. CASE \/ ReadReplay \/ ReadEvent \/ ReadEnd \/ EmitChecks \/ EmitSends
         \/ EmitParks \/ EmitClosed \/ EmitPanics \/ ReaderExits \/ ReadFails
         \/ Retire \/ Dial \/ DialFails \/ Resume \/ ResumeFails \/ GiveUp
         \/ ReaderCloses \/ ReaderClosed
  BY <1>3 DEF ReadReplay, ReadEvent, ReadEnd, EmitChecks, EmitSends,
     EmitParks, EmitClosed, EmitPanics, ReaderExits, ReadFails, Retire, Dial,
     DialFails, Resume, ResumeFails, GiveUp, ReaderCloses, ReaderClosed, Flag
<1>4. CASE Write
  <2>1. CASE wmsg = Beat
    BY <1>4, <2>1 DEF Write, OnlyWriter
  <2>2. CASE wmsg # Beat
    <3>1. wmsg = Len(written) + 1 /\ wconn <= gen /\ \A i \in DOMAIN written : written[i].to <= wconn
      BY <1>4, <2>2 DEF Write, Published, AllWritten, Handled, Writing, Busy, TypeInv, TypeOK, WriterType
    <3>2. UNCHANGED gen /\ written' = Append(written, [msg |-> wmsg, to |-> wconn])
      BY <1>4, <2>2 DEF Write, OnlyWriter
    <3> QED
      BY <3>1, <3>2, OrderGrows
  <2> QED
    BY <2>1, <2>2
<1>5. CASE \/ WriterExits \/ Dequeue \/ Heartbeat \/ TakeConn \/ WriteFails
         \/ WaitResumed
  BY <1>5 DEF WriterExits, Dequeue, Heartbeat, TakeConn, WriteFails,
     WaitResumed, OnlyWriter
<1>6. ASSUME NEW s \in Callers,
             \/ SendAudio(s) \/ SendEOT(s) \/ Mark(s) \/ Enqueue(s)
             \/ SendRefused(s) \/ SendCancelled(s)
      PROVE  WritesInOrder'
  BY <1>6 DEF SendAudio, SendEOT, Mark, Enqueue, SendRefused, SendCancelled,
     OnlyCallers, Returns
<1>7. ASSUME NEW c \in Websocket, Break(c) PROVE WritesInOrder'
  BY <1>7 DEF Break
<1>8. CASE Receive
  BY <1>8 DEF Receive
<1>9. CASE UNCHANGED vars
  BY <1>9 DEF vars
<1> QED
  BY <1>1, <1>2, <1>3, <1>4, <1>5, <1>6, <1>7, <1>8, <1>9
     DEF Next, Closer, Reader, Writer, Sending

LEMMA WriteAlways == Spec => [](Published /\ WritesInOrder)
<1>1. Init => Published /\ AllWritten /\ WritesInOrder
  BY DEF Init, Published, AllWritten, WritesInOrder, Writing, Busy
<1>2. WriteInv /\ [Next]_vars => Published' /\ AllWritten' /\ WritesInOrder'
  BY StepPublished, StepAllWritten, StepWritesInOrder
<1> QED
  BY <1>1, <1>2, TypeAlways, PTL DEF Spec, WriteInv

\* Messages are written in the order in which they were queued, once each, over
\* all the websockets of a session, on none before it is published (writeAll,
\* publishConn).
THEOREM WritesInOrderAlways == Spec => []WritesInOrder
BY WriteAlways, PTL

(***************************************************************************)
(* Blame.  Until something breaks there is one websocket, and it works;    *)
(* while nobody has closed the session, the reader of a connection has an  *)
(* open one.  So what fails without trouble fails after Close.             *)
(***************************************************************************)
Blameless ==
  /\ ~trouble => up = 1 .. dialed /\ dialed = 1 /\ rpc \notin Resuming \cup {"giveUp"}
  /\ rpc \in {"resume", "publish"} => dialed \in open
  /\ ~closed /\ rpc \in {"read", "retire"} \cup Emitting => conn \in open

CloseInv == TypeInv /\ Published /\ Blameless /\ CleanClose

LEMMA StepBlameless == CloseInv /\ [Next]_vars => Blameless'
<1> SUFFICES ASSUME CloseInv, [Next]_vars PROVE Blameless'
  OBVIOUS
<1> USE DEF CloseInv, TypeInv, TypeOK, LinkType, ReaderType, RecvType, Published,
      Blameless, Resuming, Emitting, Websocket, closed, Running, link, reader
<1>1. CASE Close
  BY <1>1 DEF Close, Flag
<1>2. CASE HangUp
  BY <1>2 DEF HangUp, CloseWakes, Woken
<1>3. CASE CloseRecv
  BY <1>3 DEF CloseRecv
<1>4. CASE ReadReplay
  BY <1>4 DEF ReadReplay, Arrives, Known
<1>5. CASE ReadEvent
  BY <1>5 DEF ReadEvent, Arrives, Known, MaybeAck, Room
<1>6. CASE ReadEnd
  BY <1>6 DEF ReadEnd, Arrives, Known, MaybeAck, Room, StoreErr
<1>7. CASE EmitChecks
  BY <1>7 DEF EmitChecks
<1>8. CASE EmitSends
  BY <1>8 DEF EmitSends, RecvRoom
<1>9. CASE EmitParks
  BY <1>9 DEF EmitParks, RecvRoom
<1>10. CASE EmitClosed
  BY <1>10 DEF EmitClosed
<1>11. CASE EmitPanics
  BY <1>11 DEF EmitPanics
<1>12. CASE ReaderExits
  BY <1>12 DEF ReaderExits
<1>13. CASE ReadFails
  BY <1>13 DEF ReadFails, StillOpen
<1>14. CASE Retire
  BY <1>14 DEF Retire
<1>15. CASE Dial
  BY <1>15 DEF Dial
<1>16. CASE DialFails
  BY <1>16 DEF DialFails
<1>17. CASE Resume
  BY <1>17 DEF Resume
<1>18. CASE ResumeFails
  BY <1>18 DEF ResumeFails
<1>19. CASE PublishConn
  BY <1>19 DEF PublishConn, Woken
<1>20. CASE GiveUp
  BY <1>20 DEF GiveUp, StoreErr
<1>21. CASE ReaderCloses
  BY <1>21 DEF ReaderCloses, Flag
<1>22. CASE ReaderClosed
  BY <1>22 DEF ReaderClosed
<1>23. CASE WriteFails
  BY <1>23 DEF WriteFails, OnlyWriter, Fails, StoreErr
<1>24. CASE \/ WriterExits \/ Dequeue \/ Heartbeat \/ TakeConn \/ Write
         \/ WaitResumed
  BY <1>24 DEF WriterExits, Dequeue, Heartbeat, TakeConn, Write, WaitResumed,
     OnlyWriter
<1>25. ASSUME NEW s \in Callers,
              \/ SendAudio(s) \/ SendEOT(s) \/ Mark(s) \/ Enqueue(s)
              \/ SendRefused(s) \/ SendCancelled(s)
      PROVE  Blameless'
  BY <1>25 DEF SendAudio, SendEOT, Mark, Enqueue, SendRefused, SendCancelled,
     OnlyCallers, Returns
<1>26. ASSUME NEW c \in Websocket, Break(c) PROVE Blameless'
  BY <1>26 DEF Break
<1>27. CASE Receive
  BY <1>27 DEF Receive
<1>28. CASE UNCHANGED vars
  BY <1>28 DEF vars
<1> QED
  BY <1>1, <1>2, <1>3, <1>4, <1>5, <1>6, <1>7, <1>8, <1>9, <1>10,
     <1>11, <1>12, <1>13, <1>14, <1>15, <1>16, <1>17, <1>18, <1>19, <1>20,
     <1>21, <1>22, <1>23, <1>24, <1>25, <1>26, <1>27, <1>28
     DEF Next, Closer, Reader, Writer, Sending

LEMMA StepCleanClose == CloseInv /\ [Next]_vars => CleanClose'
<1> SUFFICES ASSUME CloseInv, [Next]_vars PROVE CleanClose'
  OBVIOUS
<1> USE DEF CloseInv, TypeInv, TypeOK, LinkType, RecvType, WriterType, Handled,
      Published, Blameless, CleanClose, Writing, Resuming, closed
<1>1. CASE Close \/ HangUp \/ CloseRecv
  BY <1>1 DEF Close, HangUp, CloseRecv, Flag
<1>2. CASE ReadEnd
  BY <1>2 DEF ReadEnd, Arrives, Known, MaybeAck, Room, StoreErr
<1>3. CASE GiveUp
  BY <1>3 DEF GiveUp, StoreErr
<1>4. CASE \/ ReadReplay \/ ReadEvent \/ EmitChecks \/ EmitSends \/ EmitParks
         \/ EmitClosed \/ EmitPanics \/ ReaderExits \/ ReadFails \/ Retire
         \/ Dial \/ DialFails \/ Resume \/ ResumeFails \/ PublishConn
         \/ ReaderCloses \/ ReaderClosed
  BY <1>4 DEF ReadReplay, ReadEvent, EmitChecks, EmitSends, EmitParks,
     EmitClosed, EmitPanics, ReaderExits, ReadFails, Retire, Dial, DialFails,
     Resume, ResumeFails, PublishConn, ReaderCloses, ReaderClosed, Flag
<1>5. CASE TakeConn
  BY <1>5 DEF TakeConn, OnlyWriter, Fails, StoreErr
<1>6. CASE WriteFails
  BY <1>6 DEF WriteFails, OnlyWriter, Fails, StoreErr
<1>7. CASE WaitResumed
  BY <1>7 DEF WaitResumed, OnlyWriter, Fails, StoreErr, AfterResume
<1>8. CASE WriterExits \/ Dequeue \/ Heartbeat \/ Write
  BY <1>8 DEF WriterExits, Dequeue, Heartbeat, Write, OnlyWriter
<1>9. ASSUME NEW s \in Callers,
             \/ SendAudio(s) \/ SendEOT(s) \/ Mark(s) \/ Enqueue(s)
             \/ SendRefused(s) \/ SendCancelled(s)
      PROVE  CleanClose'
  BY <1>9 DEF SendAudio, SendEOT, Mark, Enqueue, SendRefused, SendCancelled,
     OnlyCallers, Returns
<1>10. ASSUME NEW c \in Websocket, Break(c) PROVE CleanClose'
  BY <1>10 DEF Break
<1>11. CASE Receive
  BY <1>11 DEF Receive
<1>12. CASE UNCHANGED vars
  BY <1>12 DEF vars
<1> QED
  BY <1>1, <1>2, <1>3, <1>4, <1>5, <1>6, <1>7, <1>8, <1>9, <1>10,
     <1>11, <1>12
     DEF Next, Closer, Reader, Writer, Sending

\* A session that was closed, and in which nothing failed, has no error (Err,
\* storeErr, the checks of readLoop, writeLoop and writeAll).
THEOREM CleanCloseAlways == Spec => []CleanClose
<1>1. Init => Blameless /\ CleanClose
  BY DEF Init, Blameless, CleanClose, Resuming
<1>2. CloseInv /\ [Next]_vars => Blameless' /\ CleanClose'
  BY StepBlameless, StepCleanClose
<1> QED
  BY <1>1, <1>2, TypeAlways, WriteAlways, PTL DEF Spec, CloseInv

(***************************************************************************)
(* Commits.  Audio that is not pending has a commit behind it, or one      *)
(* under way; so has the audio an end of turn stands for.                  *)
(***************************************************************************)
HeardCommitted ==
  heard = 0 \/ \E i \in heard + 1 .. Len(accepted) : accepted[i] = "commit"

Committing ==
  \/ lostCommit
  \/ /\ ~pending => HeardCommitted \/ CommitUnderWay
     /\ \A s \in Callers : spc[s] \in {"create", "spoken"} => Committed(s) \/ CommitUnderWay

CommitInv == TypeInv /\ Committing

\* What is queued behind a commit leaves it there, and a commit is queued behind
\* all the audio.
LEMMA CommitStays ==
  ASSUME TypeInv, UNCHANGED <<heard, due>>, NEW m \in Message,
         UNCHANGED accepted \/ accepted' = Append(accepted, m)
  PROVE  /\ HeardCommitted => HeardCommitted'
         /\ \A s \in Callers : Committed(s) => Committed(s)'
<1>1. /\ Len(accepted) <= Len(accepted')
      /\ \A i \in 1 .. Len(accepted) : accepted'[i] = accepted[i]
  BY DEF TypeInv, TypeOK, WriterType, Message
<1>2. \A n \in Nat : \A i \in n + 1 .. Len(accepted) : i \in n + 1 .. Len(accepted') /\ accepted'[i] = accepted[i]
  <2>1. Len(accepted) \in Nat /\ Len(accepted') \in Nat
    BY DEF TypeInv, TypeOK, WriterType, Message
  <2> QED
    BY <1>1, <2>1
<1>3. heard \in Nat /\ \A s \in Callers : due[s] \in Nat
  BY DEF TypeInv, TypeOK, WriterType, CallerType
<1>4. HeardCommitted => HeardCommitted'
  BY <1>2, <1>3 DEF HeardCommitted
<1>5. \A s \in Callers : Committed(s) => Committed(s)'
  BY <1>2, <1>3 DEF Committed
<1> QED
  BY <1>4, <1>5

LEMMA CommitArrives ==
  ASSUME TypeInv, UNCHANGED <<heard, due>>, accepted' = Append(accepted, "commit")
  PROVE  HeardCommitted' /\ \A s \in Callers : Committed(s)'
<1>1. Len(accepted') = Len(accepted) + 1 /\ accepted'[Len(accepted')] = "commit" /\ Len(accepted) \in Nat
  BY DEF TypeInv, TypeOK, WriterType, Message
<1>2. heard \in 0 .. Len(accepted) /\ \A s \in Callers : due[s] \in 0 .. Len(accepted)
  BY <1>1 DEF TypeInv, TypeOK, WriterType, CallerType
<1> QED
  BY <1>1, <1>2 DEF HeardCommitted, Committed

\* A step that queues nothing, and lets no call forget the commit it is about to queue.
LEMMA CommitCarried ==
  ASSUME UNCHANGED <<accepted, heard>>,
         \A s \in Callers : spc[s] = "commit" => spc'[s] = "commit"
  PROVE  /\ HeardCommitted' <=> HeardCommitted
         /\ CommitUnderWay => CommitUnderWay'
         /\ \A s \in Callers : due'[s] = due[s] /\ Committed(s) => Committed(s)'
<1>1. HeardCommitted' <=> HeardCommitted
  BY DEF HeardCommitted
<1>2. CommitUnderWay => CommitUnderWay'
  BY DEF CommitUnderWay
<1>3. \A s \in Callers : due'[s] = due[s] /\ Committed(s) => Committed(s)'
  BY DEF Committed
<1> QED
  BY <1>1, <1>2, <1>3

\* Audio in the queue is pending for one end of turn, which is to queue the commit.
LEMMA CommitBegins ==
  ASSUME Committing, UNCHANGED <<accepted, heard, lostCommit>>, NEW s \in Callers,
         \A r \in Callers : spc[r] = "commit" => spc'[r] = "commit",
         \A r \in Callers : r # s => due'[r] = due[r] /\ spc'[r] = spc[r],
         due'[s] = heard, pending => spc'[s] = "commit"
  PROVE  Committing'
<1>1. CASE lostCommit
  BY <1>1 DEF Committing
<1>2. CASE ~lostCommit
  <2>1. pending => CommitUnderWay'
    BY DEF CommitUnderWay
  <2>2. ~pending => HeardCommitted \/ CommitUnderWay
    BY <1>2 DEF Committing
  <2>3. HeardCommitted' \/ CommitUnderWay'
    BY <2>1, <2>2, CommitCarried
  <2>4. HeardCommitted' => Committed(s)'
    BY DEF HeardCommitted, Committed
  <2>5. ASSUME NEW r \in Callers, spc'[r] \in {"create", "spoken"}
        PROVE  Committed(r)' \/ CommitUnderWay'
    <3>1. CASE r = s
      BY <2>3, <2>4, <3>1
    <3>2. CASE r # s
      <4>1. Committed(r) \/ CommitUnderWay
        BY <1>2, <2>5, <3>2 DEF Committing
      <4> QED
        BY <3>2, <4>1, CommitCarried
    <3> QED
      BY <3>1, <3>2
  <2> QED
    BY <2>3, <2>5 DEF Committing
<1> QED
  BY <1>1, <1>2

LEMMA CommittingSame ==
  ASSUME Committing, UNCHANGED <<accepted, heard, due, lostCommit>>, pending => pending',
         \A s \in Callers : spc[s] = "commit" => spc'[s] = "commit",
         \A s \in Callers : spc'[s] \in {"create", "spoken"} => spc[s] \in {"create", "spoken"}
  PROVE  Committing'
<1>1. CASE lostCommit
  BY <1>1 DEF Committing
<1>2. CASE ~lostCommit
  <2>1. ~pending' => HeardCommitted' \/ CommitUnderWay'
    BY <1>2, CommitCarried DEF Committing
  <2>2. \A s \in Callers : spc'[s] \in {"create", "spoken"} => Committed(s)' \/ CommitUnderWay'
    BY <1>2, CommitCarried DEF Committing
  <2> QED
    BY <2>1, <2>2 DEF Committing
<1> QED
  BY <1>1, <1>2

LEMMA CommittingKept ==
  ASSUME Committing, UNCHANGED <<accepted, callers>>
  PROVE  Committing'
BY DEF Committing, CommitUnderWay, HeardCommitted, Committed, callers

LEMMA StepCommitting == CommitInv /\ [Next]_vars => Committing'
<1> SUFFICES ASSUME CommitInv, [Next]_vars PROVE Committing'
  OBVIOUS
<1> USE CommittingKept DEF CommitInv, callers
<1>1. CASE Close \/ HangUp \/ CloseRecv
  BY <1>1 DEF Close, HangUp, CloseRecv, Flag
<1>2. CASE ReadEvent
  <2>1. \E m \in Message : UNCHANGED accepted \/ accepted' = Append(accepted, m)
    BY <1>2 DEF ReadEvent, MaybeAck, Message
  <2>2. UNCHANGED <<pending, heard, due, spc, lostCommit>>
    BY <1>2 DEF ReadEvent
  <2> QED
    BY <2>1, <2>2, CommitStays DEF CommitInv, Committing, CommitUnderWay
<1>3. CASE ReadEnd
  <2>1. \E m \in Message : UNCHANGED accepted \/ accepted' = Append(accepted, m)
    BY <1>3 DEF ReadEnd, MaybeAck, Message
  <2>2. UNCHANGED <<pending, heard, due, spc, lostCommit>>
    BY <1>3 DEF ReadEnd
  <2> QED
    BY <2>1, <2>2, CommitStays DEF CommitInv, Committing, CommitUnderWay
<1>4. CASE \/ ReadReplay \/ EmitChecks \/ EmitSends \/ EmitParks \/ EmitClosed
         \/ EmitPanics \/ ReaderExits \/ ReadFails \/ Retire \/ Dial
         \/ DialFails \/ Resume \/ ResumeFails \/ PublishConn \/ GiveUp
         \/ ReaderCloses \/ ReaderClosed
  BY <1>4 DEF ReadReplay, EmitChecks, EmitSends, EmitParks, EmitClosed,
     EmitPanics, ReaderExits, ReadFails, Retire, Dial, DialFails, Resume,
     ResumeFails, PublishConn, GiveUp, ReaderCloses, ReaderClosed, Flag
<1>5. CASE \/ WriterExits \/ Dequeue \/ Heartbeat \/ TakeConn \/ Write
         \/ WriteFails \/ WaitResumed
  BY <1>5 DEF WriterExits, Dequeue, Heartbeat, TakeConn, Write, WriteFails,
     WaitResumed, OnlyWriter
<1>6. ASSUME NEW s \in Callers, SendAudio(s) PROVE Committing'
  <2>1. UNCHANGED <<accepted, heard, due, lostCommit>>
    BY <1>6 DEF SendAudio, OnlyCallers
  <2>2. pending => pending'
    BY <1>6 DEF SendAudio
  <2>3. \A r \in Callers : spc[r] = "commit" => spc'[r] = "commit"
    BY <1>6 DEF SendAudio, Begins, CommitInv, TypeInv, TypeOK, CallerType, Waiting
  <2>4. \A r \in Callers : spc'[r] \in {"create", "spoken"} => spc[r] \in {"create", "spoken"}
    BY <1>6 DEF SendAudio, Begins, CommitInv, TypeInv, TypeOK, CallerType, Waiting
  <2>5. Committing
    OBVIOUS
  <2> HIDE DEF CommitInv
  <2> QED
    BY ONLY <2>1, <2>2, <2>3, <2>4, <2>5, CommittingSame
<1>7. ASSUME NEW s \in Callers, SendEOT(s) PROVE Committing'
  <2>1. UNCHANGED <<accepted, heard, lostCommit>>
    BY <1>7 DEF SendEOT, OnlyCallers
  <2>2. \A r \in Callers : spc[r] = "commit" => spc'[r] = "commit"
    BY <1>7 DEF SendEOT, Begins, CommitInv, TypeInv, TypeOK, CallerType, Waiting
  <2>3. \A r \in Callers : r # s => due'[r] = due[r] /\ spc'[r] = spc[r]
    BY <1>7 DEF SendEOT, CommitInv, TypeInv, TypeOK, CallerType, Waiting
  <2>4. due'[s] = heard
    BY <1>7 DEF SendEOT, CommitInv, TypeInv, TypeOK, CallerType
  <2>5. pending => spc'[s] = "commit"
    BY <1>7 DEF SendEOT, CommitInv, TypeInv, TypeOK, CallerType
  <2>6. Committing
    OBVIOUS
  <2> HIDE DEF CommitInv
  <2> QED
    BY ONLY <2>1, <2>2, <2>3, <2>4, <2>5, <2>6, CommitBegins
<1>8. ASSUME NEW s \in Callers, Mark(s) PROVE Committing'
  BY <1>8 DEF Mark, OnlyCallers, MarksAt,
     CommitInv, Committing, CommitUnderWay, HeardCommitted, Committed, TypeInv, TypeOK, CallerType, Waiting
<1>9. ASSUME NEW s \in Callers, Enqueue(s) PROVE Committing'
  <2>1. spc[s] \in Message /\ accepted' = Append(accepted, spc[s])
    BY <1>9 DEF Enqueue, Waiting, Message
  <2>2. UNCHANGED <<pending, heard, due, lostCommit>>
    BY <1>9 DEF Enqueue
  <2>3. CASE spc[s] = "commit"
    BY <2>1, <2>2, <2>3, CommitArrives DEF CommitInv, Committing
  <2>4. CASE spc[s] # "commit"
    <3>1. \A r \in Callers : spc[r] = "commit" => spc'[r] = "commit"
      BY <1>9, <2>4 DEF Enqueue
    <3>2. \A r \in Callers : spc'[r] \in {"create", "spoken"} => spc[r] \in {"create", "spoken"}
      BY <1>9, <2>4 DEF Enqueue, Waiting, CommitInv, TypeInv, TypeOK, CallerType
    <3> QED
      BY <2>1, <2>2, <3>1, <3>2, CommitStays DEF CommitInv, Committing, CommitUnderWay
  <2> QED
    BY <2>3, <2>4
<1>10. ASSUME NEW s \in Callers, SendRefused(s) PROVE Committing'
  BY <1>10 DEF SendRefused, Returns, OnlyCallers,
     CommitInv, Committing, CommitUnderWay, HeardCommitted, Committed, TypeInv, TypeOK, CallerType, Waiting
<1>11. ASSUME NEW s \in Callers, SendCancelled(s) PROVE Committing'
  BY <1>11 DEF SendCancelled, Returns, OnlyCallers,
     CommitInv, Committing, CommitUnderWay, HeardCommitted, Committed, TypeInv, TypeOK, CallerType, Waiting
<1>12. ASSUME NEW c \in Websocket, Break(c) PROVE Committing'
  BY <1>12 DEF Break
<1>13. CASE Receive
  BY <1>13 DEF Receive
<1>14. CASE UNCHANGED vars
  BY <1>14 DEF vars
<1> QED
  BY <1>1, <1>2, <1>3, <1>4, <1>5, <1>6, <1>7, <1>8, <1>9, <1>10,
     <1>11, <1>12, <1>13, <1>14
     DEF Next, Closer, Reader, Writer, Sending

\* When Send(EOT) has returned, the audio sent before it is followed by a commit
\* or one is under way (sendEOT, audioPending).
THEOREM EOTCommitsOnceAlways == Spec => []EOTCommitsOnce
<1>1. Init => Committing
  BY DEF Init, Committing, HeardCommitted
<1>2. CommitInv /\ [Next]_vars => Committing'
  BY StepCommitting
<1>3. Committing => EOTCommitsOnce
  BY DEF Committing, EOTCommitsOnce
<1> QED
  BY <1>1, <1>2, <1>3, TypeAlways, PTL DEF Spec, CommitInv

=============================================================================
