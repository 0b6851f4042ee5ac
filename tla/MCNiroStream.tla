---------------------------- MODULE MCNiroStream ----------------------------
(***************************************************************************)
(* The instance of NiroStream that TLC checks: two writers share the       *)
(* emitter, buffers of 0 and 1 frames make both kinds of channel, and the  *)
(* second frame of a writer parks it.                                      *)
(***************************************************************************)
EXTENDS NiroStream, TLC

CONSTANTS w1, w2, ctx

MCWriters == {w1, w2}
MCCtxs == {ctx}
MCBufSizes == {0, 1}
MCMaxEmits == (w1 :> 2) @@ (w2 :> 1)

=============================================================================
