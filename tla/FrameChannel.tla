---------------------------- MODULE FrameChannel ----------------------------
(***************************************************************************)
(* What a Stream and its Emitter promise together (stream.go): a queue of  *)
(* frames that can be closed.  A frame the emitter accepted is handed to   *)
(* the reader once and in order, nothing is accepted after the close, and  *)
(* the reader is told "end of stream" only when it has had everything.     *)
(* NiroStream implements this specification.                               *)
(***************************************************************************)
EXTENDS Integers, Sequences

CONSTANT Frame

VARIABLES accepted,   \* every frame the emitter side accepted, in order
          received,   \* those the reader has had, in order
          open,       \* the emitter side may still accept
          ended       \* the reader was told that the stream is over

channelVars == <<accepted, received, open, ended>>

ChannelInit ==
  /\ accepted \in Seq(Frame)
  /\ received = <<>>
  /\ open \in BOOLEAN
  /\ ended = FALSE

\* The reader has had everything that was accepted.
Drained == received = accepted

(***************************************************************************)
(* One step accepts at most one frame and delivers at most one: a send     *)
(* that meets a waiting reader, or a receive that lets a waiting sender    *)
(* in, does both.                                                          *)
(***************************************************************************)
Accept ==
  /\ open
  /\ accepted' # <<>>
  /\ LET f == accepted'[Len(accepted')]
     IN  f \in Frame /\ accepted' = Append(accepted, f)

Deliver ==
  /\ Len(received) < Len(accepted')
  /\ received' = Append(received, accepted'[Len(received) + 1])

Transfer ==
  /\ Accept \/ accepted' = accepted
  /\ Deliver \/ received' = received
  /\ UNCHANGED <<open, ended>>

Shut == open' = FALSE /\ UNCHANGED <<accepted, received, ended>>

End ==
  /\ ~open
  /\ Drained
  /\ ended' = TRUE
  /\ UNCHANGED <<accepted, received, open>>

ChannelNext == Transfer \/ Shut \/ End

ChannelSpec == ChannelInit /\ [][ChannelNext]_channelVars

=============================================================================
