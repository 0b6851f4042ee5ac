--------------------------- MODULE RealtimeSession ---------------------------
(***************************************************************************)
(* provider/realtime: a speech session over a websocket that may break and *)
(* be resumed.  Goroutines: the reader, which also dials again and gives   *)
(* the session up; the writer, fed by a bounded queue; the callers of Send; *)
(* and whoever calls Close.  They share the connection, under a mutex with *)
(* a condition variable, the closed channel, the queue, and a flag that    *)
(* says whether audio waits to be committed.                               *)
(*                                                                         *)
(* The server is the environment.  It numbers its events if the session    *)
(* can be resumed, and after a resume it goes on after the last event the  *)
(* client says it has, or earlier: it may replay.                          *)
(***************************************************************************)
EXTENDS Integers, Sequences, FiniteSets

CONSTANTS
  Callers,       \* goroutines that call Send
  Kinds,         \* the kinds of session
  QueueSize,     \* sendQueue
  RecvSize,      \* niro.RealtimeStreamBuffer
  AckEvery,      \* ackEvery
  MaxResume,     \* maxResume
  WriteAttempts  \* the attempts of writeAll

\* resumable: tryResume may succeed, and events are numbered and acknowledged;
\* native: the model takes the turns, modelNative; heartbeat: the option.  And
\* bounds: how many websockets there can be, after which dials fail, events of the
\* server, and calls of Send.
Kind == [resumable : BOOLEAN, native : BOOLEAN, heartbeat : BOOLEAN,
         dials : Nat \ {0}, events : Nat, sends : Nat]

ASSUME KindAssumption == Kinds \subseteq Kind
ASSUME SessionBounds == {QueueSize, RecvSize, AckEvery, MaxResume, WriteAttempts} \subseteq Nat \ {0}

VARIABLES
  kind,       \* of this session
  conn,       \* s.conn, 0 for nil; websockets are numbered as they are dialed
  gen,        \* s.connGen: the websocket published last
  dialed,     \* how many there are
  open,       \* those the client has not closed
  up,         \* those that work
  close,      \* how far the once of Close is
  rpc,        \* the reader
  attempts,   \* resumeAttempts
  event,      \* the event it emits
  lastSeq, lastAck,
  next,       \* the event the server sends next
  wpc,        \* the writer
  wmsg,       \* the place of its message in accepted, Beat for a heartbeat
  wconn,      \* the websocket it writes to
  tries,      \* writes of the message that have failed
  accepted,   \* history: what entered sendCh, in order
  dequeued,   \* how many of it the writer has taken
  written,    \* history: what was written, and to which websocket
  spc,        \* the calls of Send
  sends,      \* how many there were
  mine,       \* history: the place of a call's audio in accepted
  pending,    \* audioPending
  sent, taken, recvClosed,  \* Recv: frames, how many were received, closed
  err,        \* s.err
  heard,      \* history: the last audio whose Send has returned
  due,        \* history: heard when this call of Send(EOT) began
  lostCommit, \* history: a commit could not be queued
  trouble     \* history: the network or the server failed

link == <<conn, gen, dialed, open, up>>
reader == <<rpc, attempts, event, lastSeq, lastAck, next>>
writer == <<wpc, wmsg, wconn, tries, dequeued, written>>
callers == <<spc, sends, mine, pending, heard, due, lostCommit>>
recv == <<sent, taken, recvClosed>>
vars == <<kind, link, close, reader, writer, accepted, callers, recv, err, trouble>>

Websocket == 1 .. kind.dials
Beat == 0

Waiting == {"audio", "commit", "create"}

LinkType ==
  /\ kind \in Kinds /\ close \in {"no", "flagged", "hungUp", "over"}
  /\ conn \in 0 .. dialed /\ gen \in 1 .. dialed /\ dialed \in Websocket
  /\ open \subseteq 1 .. dialed /\ up \subseteq 1 .. dialed

ReaderType ==
  /\ rpc \in {"read", "emit", "select", "parked", "retire", "dial", "resume", "publish", "giveUp",
              "closing", "done", "panicked"}
  /\ attempts \in 0 .. MaxResume + 1 /\ event \in 0 .. kind.events
  /\ lastSeq \in 0 .. kind.events /\ lastAck \in 0 .. lastSeq /\ next \in 1 .. kind.events + 1

WriterType ==
  /\ wpc \in {"idle", "take", "noConn", "write", "failed", "sameConn", "done"}
  /\ wmsg \in 0 .. dequeued /\ wconn \in 0 .. dialed /\ tries \in 0 .. WriteAttempts - 1
  /\ accepted \in Seq({"audio", "commit", "create", "ack"})
  /\ dequeued \in 0 .. Len(accepted) /\ Len(accepted) - dequeued <= QueueSize
  /\ written \in Seq([msg : 1 .. dequeued, to : 1 .. dialed])

CallerType ==
  /\ spc \in [Callers -> {"idle", "mark", "spoken"} \cup Waiting] /\ sends \in 0 .. kind.sends
  /\ mine \in [Callers -> 0 .. Len(accepted)] /\ due \in [Callers -> 0 .. heard]
  /\ heard \in 0 .. Len(accepted) /\ pending \in BOOLEAN /\ lostCommit \in BOOLEAN

RecvType ==
  /\ sent \in Seq(1 .. kind.events) /\ taken \in 0 .. Len(sent) /\ Len(sent) - taken <= RecvSize
  /\ recvClosed \in BOOLEAN
  /\ err \in {"nil", "read", "write", "server"} /\ trouble \in BOOLEAN

TypeOK == LinkType /\ ReaderType /\ WriterType /\ CallerType /\ RecvType

\* Session, which returns after the handshake on the first websocket.
Init ==
  /\ kind \in Kinds
  /\ conn = 1 /\ gen = 1 /\ dialed = 1 /\ open = {1} /\ up = {1}
  /\ close = "no"
  /\ rpc = "read" /\ attempts = 0 /\ event = 0 /\ lastSeq = 0 /\ lastAck = 0 /\ next = 1
  /\ wpc = "idle" /\ wmsg = Beat /\ wconn = 0 /\ tries = 0 /\ dequeued = 0 /\ written = <<>>
  /\ accepted = <<>>
  /\ spc = [s \in Callers |-> "idle"] /\ sends = 0 /\ mine = [s \in Callers |-> 0]
  /\ pending = FALSE /\ heard = 0 /\ due = [s \in Callers |-> 0] /\ lostCommit = FALSE
  /\ sent = <<>> /\ taken = 0 /\ recvClosed = FALSE
  /\ err = "nil" /\ trouble = FALSE

closed == close # "no"

\* A panic ends the process.
Running == rpc # "panicked"

\* storeErr keeps the first error.
StoreErr(e) == err' = IF err = "nil" THEN e ELSE err

\* sendCh has room.
Room == Len(accepted) - dequeued < QueueSize

\* connCond.Broadcast() in publishConn: the writer looks again.
Woken == CASE wpc = "noConn" -> "take" [] wpc = "sameConn" -> "failed" [] OTHER -> wpc

(***************************************************************************)
(* Close.                                                                  *)
(***************************************************************************)
Flag == Running /\ close = "no" /\ close' = "flagged"

\* Close is called, or the session's context ends.
Close == Flag /\ UNCHANGED <<kind, link, reader, writer, accepted, callers, recv, err, trouble>>

\* The Broadcast of Close.  Mutant: there is none.
CloseWakes_None == wpc
CloseWakes == Woken

\* Close takes the connection, wakes who waits for one, and closes it.
HangUp ==
  /\ Running /\ close = "flagged"
  /\ close' = "hungUp"
  /\ open' = open \ {conn}
  /\ wpc' = CloseWakes
  /\ UNCHANGED <<kind, conn, gen, dialed, up, reader, wmsg, wconn, tries, dequeued, written, accepted, callers, recv, err, trouble>>

CloseRecv ==
  /\ Running /\ close = "hungUp"
  /\ close' = "over" /\ recvClosed' = TRUE
  /\ UNCHANGED <<kind, link, reader, writer, accepted, callers, sent, taken, err, trouble>>

Closer == HangUp \/ CloseRecv

(***************************************************************************)
(* The reader: readLoop, handleMessage, tryResume.                         *)
(***************************************************************************)
\* maybeAck: not every event is acknowledged, and no acknowledgement waits for
\* the queue.
MaybeAck ==
  IF ~kind.resumable \/ next - lastAck < AckEvery
  THEN UNCHANGED <<lastAck, accepted>>
  ELSE /\ lastAck' = next
       /\ \/ Room /\ accepted' = Append(accepted, "ack")
          \/ (~Room \/ closed) /\ UNCHANGED accepted

\* A replayed event.  Mutant: replays are not recognised.
Known_Never == FALSE
Known == kind.resumable /\ next <= lastSeq

Arrives == rpc = "read" /\ conn \in open \cap up /\ next <= kind.events

ReadReplay ==
  /\ Arrives /\ Known
  /\ attempts' = 0 /\ next' = next + 1
  /\ UNCHANGED <<kind, link, close, rpc, event, lastSeq, lastAck, writer, accepted, callers, recv, err, trouble>>

\* An event that the caller gets as a frame.
ReadEvent ==
  /\ Arrives /\ ~Known
  /\ attempts' = 0 /\ next' = next + 1 /\ lastSeq' = next /\ MaybeAck
  /\ event' = next /\ rpc' = "emit"
  /\ UNCHANGED <<kind, link, close, writer, callers, recv, err, trouble>>

\* "error", "session.expired" and the like end the session in an error, a clean
\* "session.closed" without one.
ReadEnd ==
  /\ Arrives /\ ~Known
  /\ attempts' = 0 /\ next' = next + 1 /\ lastSeq' = next /\ MaybeAck
  /\ rpc' = "closing"
  /\ \/ StoreErr("server") /\ recvClosed' = TRUE /\ trouble' = TRUE
     \/ UNCHANGED <<err, recvClosed, trouble>>
  /\ UNCHANGED <<kind, link, close, event, writer, callers, sent, taken>>

\* recvEmit.Emit, its check and its select.  The context is never done.
EmitChecks ==
  /\ rpc = "emit"
  /\ rpc' = IF recvClosed THEN "read" ELSE "select"
  /\ UNCHANGED <<kind, link, close, attempts, event, lastSeq, lastAck, next, writer, accepted, callers, recv, err, trouble>>

RecvRoom == Len(sent) - taken < RecvSize

EmitSends ==
  /\ rpc \in {"select", "parked"} /\ ~recvClosed /\ RecvRoom
  /\ sent' = Append(sent, event) /\ rpc' = "read"
  /\ UNCHANGED <<kind, link, close, attempts, event, lastSeq, lastAck, next, writer, accepted, callers, taken, recvClosed, err, trouble>>

EmitParks ==
  /\ rpc = "select" /\ ~recvClosed /\ ~RecvRoom
  /\ rpc' = "parked"
  /\ UNCHANGED <<kind, link, close, attempts, event, lastSeq, lastAck, next, writer, accepted, callers, recv, err, trouble>>

\* The error of Emit is ignored.
EmitClosed ==
  /\ rpc \in {"select", "parked"} /\ recvClosed
  /\ rpc' = "read"
  /\ UNCHANGED <<kind, link, close, attempts, event, lastSeq, lastAck, next, writer, accepted, callers, recv, err, trouble>>

\* A select that is entered after Close may choose the send.
EmitPanics ==
  /\ rpc = "select" /\ recvClosed
  /\ rpc' = "panicked"
  /\ UNCHANGED <<kind, link, close, attempts, event, lastSeq, lastAck, next, writer, accepted, callers, recv, err, trouble>>

ReaderExits ==
  /\ rpc = "read" /\ closed
  /\ rpc' = "done" /\ recvClosed' = TRUE
  /\ UNCHANGED <<kind, link, close, attempts, event, lastSeq, lastAck, next, writer, accepted, callers, sent, taken, err, trouble>>

\* The check between a failed read and the attempt to resume.  Mutant: none.
StillOpen_Unchecked == TRUE
StillOpen == ~closed

ReadFails ==
  /\ rpc = "read" /\ conn \notin open \cap up /\ StillOpen
  /\ attempts' = attempts + 1
  /\ rpc' = IF attempts' <= MaxResume /\ kind.resumable THEN "retire" ELSE "giveUp"
  /\ UNCHANGED <<kind, link, close, event, lastSeq, lastAck, next, writer, accepted, callers, recv, err, trouble>>

Retire ==
  /\ rpc = "retire"
  /\ open' = open \ {conn} /\ conn' = 0
  /\ rpc' = "dial"
  /\ UNCHANGED <<kind, gen, dialed, up, close, attempts, event, lastSeq, lastAck, next, writer, accepted, callers, recv, err, trouble>>

Dial ==
  /\ rpc = "dial" /\ dialed < kind.dials
  /\ dialed' = dialed + 1 /\ open' = open \cup {dialed'} /\ up' = up \cup {dialed'}
  /\ rpc' = "resume"
  /\ UNCHANGED <<kind, conn, gen, close, attempts, event, lastSeq, lastAck, next, writer, accepted, callers, recv, err, trouble>>

DialFails ==
  /\ rpc = "dial"
  /\ rpc' = "giveUp"
  /\ UNCHANGED <<kind, link, close, attempts, event, lastSeq, lastAck, next, writer, accepted, callers, recv, err, trouble>>

\* session.resume with lastSeq is answered by session.resumed.
Resume ==
  /\ rpc = "resume" /\ dialed \in up /\ ~closed
  /\ next' \in 1 .. lastSeq + 1
  /\ rpc' = "publish"
  /\ UNCHANGED <<kind, link, close, attempts, event, lastSeq, lastAck, writer, accepted, callers, recv, err, trouble>>

\* It is refused, or it takes too long, or the session has been closed.
ResumeFails ==
  /\ rpc = "resume"
  /\ open' = open \ {dialed}
  /\ rpc' = "giveUp"
  /\ UNCHANGED <<kind, conn, gen, dialed, up, close, attempts, event, lastSeq, lastAck, next, writer, accepted, callers, recv, err, trouble>>

PublishConn ==
  /\ rpc = "publish"
  /\ conn' = dialed /\ gen' = dialed
  /\ wpc' = Woken /\ rpc' = "read"
  /\ UNCHANGED <<kind, dialed, open, up, close, attempts, event, lastSeq, lastAck, next,
                 wmsg, wconn, tries, dequeued, written, accepted, callers, recv, err, trouble>>

GiveUp ==
  /\ rpc = "giveUp"
  /\ StoreErr("read") /\ recvClosed' = TRUE
  /\ rpc' = "closing"
  /\ UNCHANGED <<kind, link, close, attempts, event, lastSeq, lastAck, next, writer, accepted, callers, sent, taken, trouble>>

\* The reader calls Close, or waits for who has.
ReaderCloses ==
  /\ rpc = "closing" /\ Flag
  /\ UNCHANGED <<kind, link, reader, writer, accepted, callers, recv, err, trouble>>

ReaderClosed ==
  /\ rpc = "closing" /\ close = "over"
  /\ rpc' = "done"
  /\ UNCHANGED <<kind, link, close, attempts, event, lastSeq, lastAck, next, writer, accepted, callers, recv, err, trouble>>

(***************************************************************************)
(* The writer: writeLoop, writeAll.                                        *)
(***************************************************************************)

OnlyWriter == Running /\ UNCHANGED <<kind, link, close, reader, accepted, callers, recv>>

WriterExits ==
  /\ wpc = "idle" /\ closed
  /\ wpc' = "done"
  /\ OnlyWriter /\ UNCHANGED <<wmsg, wconn, tries, dequeued, written, err, trouble>>

Dequeue ==
  /\ wpc = "idle" /\ dequeued < Len(accepted)
  /\ dequeued' = dequeued + 1 /\ wmsg' = dequeued'
  /\ wpc' = "take" /\ tries' = 0
  /\ OnlyWriter /\ UNCHANGED <<wconn, written, err, trouble>>

Heartbeat ==
  /\ wpc = "idle" /\ kind.heartbeat
  /\ wmsg' = Beat
  /\ wpc' = "take" /\ tries' = 0
  /\ OnlyWriter /\ UNCHANGED <<wconn, dequeued, written, err, trouble>>

\* writeAll returns an error: a heartbeat is forgotten, else the writer is done.
Fails ==
  /\ wpc' = IF wmsg = Beat THEN "idle" ELSE "done"
  /\ IF wmsg = Beat \/ closed THEN UNCHANGED err ELSE StoreErr("write")

TakeConn ==
  /\ wpc = "take"
  /\ \/ closed /\ Fails /\ UNCHANGED wconn
     \/ ~closed /\ conn = 0 /\ wpc' = "noConn" /\ UNCHANGED <<wconn, err>>
     \/ ~closed /\ conn # 0 /\ wpc' = "write" /\ wconn' = conn /\ UNCHANGED err
  /\ OnlyWriter /\ UNCHANGED <<wmsg, tries, dequeued, written, trouble>>

Write ==
  /\ wpc = "write" /\ wconn \in open \cap up
  /\ written' = IF wmsg = Beat THEN written ELSE Append(written, [msg |-> wmsg, to |-> wconn])
  /\ wpc' = "idle"
  /\ OnlyWriter /\ UNCHANGED <<wmsg, wconn, tries, dequeued, err, trouble>>

\* The websocket is broken or closed, or the write takes too long.
WriteFails ==
  /\ wpc = "write"
  /\ trouble' = (trouble \/ wconn \in open \cap up)
  /\ IF closed THEN Fails ELSE wpc' = "failed" /\ UNCHANGED err
  /\ OnlyWriter /\ UNCHANGED <<wmsg, wconn, tries, dequeued, written>>

\* What the writer does once a new websocket is published.  Mutant: the message
\* counts as sent.
AfterResume_Next == "idle"
AfterResume == "take"

WaitResumed ==
  /\ wpc = "failed"
  /\ \/ closed /\ Fails /\ UNCHANGED tries
     \/ ~closed /\ gen = wconn /\ wpc' = "sameConn" /\ UNCHANGED <<tries, err>>
     \/ ~closed /\ gen # wconn /\ tries + 1 < WriteAttempts
        /\ tries' = tries + 1 /\ wpc' = AfterResume /\ UNCHANGED err
     \/ ~closed /\ gen # wconn /\ tries + 1 = WriteAttempts /\ Fails /\ UNCHANGED tries
  /\ OnlyWriter /\ UNCHANGED <<wmsg, wconn, dequeued, written, trouble>>

(***************************************************************************)
(* Send: sendAudio and sendEOT.  Other frames are queued like audio.       *)
(***************************************************************************)
OnlyCallers == Running /\ UNCHANGED <<kind, link, close, reader, writer, recv, err, trouble>>

Begins(s) == spc[s] \in {"idle", "spoken"} /\ sends < kind.sends /\ sends' = sends + 1

\* Audio is marked as pending after it is queued.  Mutant: before.
MarksAt_Begin == "begin"
MarksAt == "mark"

SendAudio(s) ==
  /\ Begins(s)
  /\ spc' = [spc EXCEPT ![s] = "audio"]
  /\ pending' = (pending \/ MarksAt = "begin")
  /\ OnlyCallers /\ UNCHANGED <<accepted, mine, heard, due, lostCommit>>

Mark(s) ==
  /\ spc[s] = "mark"
  /\ spc' = [spc EXCEPT ![s] = "idle"]
  /\ pending' = (pending \/ MarksAt = "mark")
  /\ heard' = IF mine[s] > heard THEN mine[s] ELSE heard
  /\ OnlyCallers /\ UNCHANGED <<accepted, sends, mine, due, lostCommit>>

\* After the commit: a native model takes its turn itself.
AfterCommit == IF kind.native THEN "spoken" ELSE "create"

\* audioPending.Swap(false)
SendEOT(s) ==
  /\ Begins(s)
  /\ spc' = [spc EXCEPT ![s] = IF pending THEN "commit" ELSE AfterCommit]
  /\ pending' = FALSE
  /\ due' = [due EXCEPT ![s] = heard]
  /\ OnlyCallers /\ UNCHANGED <<accepted, mine, heard, lostCommit>>

\* enqueue
Enqueue(s) ==
  /\ spc[s] \in Waiting /\ Room
  /\ accepted' = Append(accepted, spc[s])
  /\ mine' = IF spc[s] = "audio" THEN [mine EXCEPT ![s] = Len(accepted')] ELSE mine
  /\ spc' = [spc EXCEPT ![s] = CASE spc[s] = "audio" -> "mark"
                                 [] spc[s] = "commit" -> AfterCommit
                                 [] spc[s] = "create" -> "spoken"]
  /\ OnlyCallers /\ UNCHANGED <<sends, pending, heard, due, lostCommit>>

Returns(s) ==
  /\ spc[s] \in Waiting
  /\ spc' = [spc EXCEPT ![s] = "idle"]
  /\ lostCommit' = (lostCommit \/ spc[s] = "commit")
  /\ OnlyCallers /\ UNCHANGED <<accepted, sends, mine, pending, heard, due>>

SendRefused(s) == closed /\ Returns(s)

\* The context of the call ends.
SendCancelled(s) == ~closed /\ Returns(s)

(***************************************************************************)
(* The network and the reader of Recv.                                     *)
(***************************************************************************)
Break(c) ==
  /\ Running /\ c \in up
  /\ up' = up \ {c} /\ trouble' = TRUE
  /\ UNCHANGED <<kind, conn, gen, dialed, open, close, reader, writer, accepted, callers, recv, err>>

Receive ==
  /\ Running /\ taken < Len(sent)
  /\ taken' = taken + 1
  /\ UNCHANGED <<kind, link, close, reader, writer, accepted, callers, sent, recvClosed, err, trouble>>

(***************************************************************************)
(* The specification.                                                      *)
(***************************************************************************)
\* A read may wait for an event for ever, but dials and handshakes time out.
Reader ==
  \/ EmitChecks \/ EmitSends \/ EmitParks \/ EmitClosed \/ EmitPanics
  \/ ReaderExits \/ ReadFails \/ Retire \/ Dial \/ DialFails \/ Resume \/ ResumeFails \/ PublishConn
  \/ GiveUp \/ ReaderCloses \/ ReaderClosed

\* Writes time out.
Writer == WriterExits \/ Dequeue \/ TakeConn \/ Write \/ WriteFails \/ WaitResumed

Sending(s) == Mark(s) \/ Enqueue(s) \/ SendRefused(s)

Next ==
  \/ Close \/ Closer
  \/ Reader \/ ReadReplay \/ ReadEvent \/ ReadEnd
  \/ Writer \/ Heartbeat
  \/ \E s \in Callers : SendAudio(s) \/ SendEOT(s) \/ Sending(s) \/ SendCancelled(s)
  \/ \E c \in Websocket : Break(c)
  \/ Receive

Spec == Init /\ [][Next]_vars

\* Goroutines are scheduled, and a select takes at some time a case that is ready
\* again and again: the writer does not prefer heartbeats to the closed channel.
FairSpec ==
  /\ Spec
  /\ WF_vars(Closer) /\ WF_vars(Reader) /\ WF_vars(Writer) /\ SF_vars(WriterExits)
  /\ \A s \in Callers : WF_vars(Sending(s))

(***************************************************************************)
(* Properties.                                                             *)
(***************************************************************************)
\* The caller gets the server's events in order, none twice and none left out,
\* however often the connection breaks and whatever is replayed
\* (handleMessage, tryResume).
EventsOnce == TypeOK /\ \A i \in DOMAIN sent : sent[i] = i

\* Messages are written in the order in which Send queued them, none is passed
\* over and none is written twice, over all the websockets of a session; and on a
\* resumed one nothing precedes the handshake (writeAll, publishConn).
WritesInOrder ==
  \A i \in DOMAIN written :
    /\ written[i].msg = i
    /\ written[i].to <= gen
    /\ \A j \in 1 .. i - 1 : written[j].to <= written[i].to

\* "Err ... Returns nil if the session closed cleanly": closing a connection makes
\* the reader and the writer fail, but they know whose fault it is.
CleanClose == err # "nil" => trouble

Committed(s) == due[s] = 0 \/ \E i \in due[s] + 1 .. Len(accepted) : accepted[i] = "commit"

CommitUnderWay == \E s \in Callers : spc[s] = "commit"

\* "End-of-turn commits audio": when Send(EOT) has returned, all the audio whose
\* Send had returned before is followed by a commit, or another Send(EOT) is
\* waiting to queue it (sendEOT).  A Send(EOT) that failed has cleared
\* audioPending before and left its audio without a commit: after that nothing is
\* promised.
EOTCommitsOnce ==
  lostCommit \/ \A s \in Callers : spc[s] = "spoken" => Committed(s) \/ CommitUnderWay

\* After Close the reader and the writer come to an end, wherever they wait, and
\* no Send waits any more.
CloseEnds ==
  /\ closed ~> ~Running \/ (rpc = "done" /\ wpc = "done")
  /\ \A s \in Callers : closed /\ spc[s] \in Waiting ~> ~Running \/ spc[s] \notin Waiting

(***************************************************************************)
(* What the documentation says and the code does not do.                   *)
(***************************************************************************)
\* "End-of-turn commits audio" (realtime.go): also when an end-of-turn before it
\* was refused, for its caller tries again.  The refused one has cleared
\* audioPending.
EOTCommits == \A s \in Callers : spc[s] = "spoken" => Committed(s) \/ CommitUnderWay

\* "Close terminates the session and releases all resources" (src/realtime.go):
\* once Close has returned and both goroutines are gone, no websocket is open.
\* A resume that looks at the closed flag before Close sets it, and publishes its
\* connection after Close has looked for one, leaves that one open.
CloseReleases == close = "over" /\ rpc = "done" /\ wpc = "done" => open = {}

=============================================================================
