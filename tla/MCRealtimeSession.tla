-------------------------- MODULE MCRealtimeSession --------------------------
(***************************************************************************)
(* The instance of RealtimeSession that TLC checks.  Four sessions: one    *)
(* that is resumed among its events, replays and acknowledgements; one     *)
(* that is resumed twice while a message waits to be written; one with     *)
(* heartbeats; and one with callers that send audio and end turns at the   *)
(* same time.                                                              *)
(***************************************************************************)
EXTENDS RealtimeSession

CONSTANTS a, b

MCCallers == {a, b}

Session(resumable, native, heartbeat, dials, events, calls) ==
  [resumable |-> resumable, native |-> native, heartbeat |-> heartbeat,
   dials |-> dials, events |-> events, sends |-> calls]

MCKinds == {Session(TRUE, FALSE, FALSE, 2, 4, 0), Session(TRUE, FALSE, FALSE, 3, 1, 1),
            Session(TRUE, FALSE, TRUE, 2, 0, 1), Session(FALSE, TRUE, FALSE, 1, 0, 3)}

=============================================================================
