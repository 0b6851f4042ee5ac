--------------------------- MODULE MCSonicSession ---------------------------
(***************************************************************************)
(* The instances of SonicSession that TLC checks: audio that is sent while *)
(* turns are completed, all that can be sent while writes fail, and a long *)
(* answer.                                                                 *)
(***************************************************************************)
EXTENDS SonicSession

MCBudgets ==
  {[sends |-> 2, ops |-> {"audio", "eot"}, turns |-> 1, events |-> 0, failures |-> 0],
   [sends |-> 3, ops |-> {"audio", "eot"}, turns |-> 0, events |-> 0, failures |-> 0],
   [sends |-> 2, ops |-> Op, turns |-> 0, events |-> 0, failures |-> 1],
   [sends |-> 0, ops |-> {}, turns |-> 1, events |-> 5, failures |-> 0]}

=============================================================================
