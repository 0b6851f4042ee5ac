----------------------------- MODULE MCToolLoop -----------------------------
(***************************************************************************)
(* The instance of ToolLoop that TLC checks: parallel execution with every *)
(* option on, and serial execution with every option off.                  *)
(***************************************************************************)
EXTENDS ToolLoop

Options(parallel, emitResults, approver, choice) ==
  [parallel |-> parallel, emitResults |-> emitResults, approver |-> approver, choice |-> choice]

MCModes == {Options(TRUE, TRUE, TRUE, "required"), Options(FALSE, FALSE, FALSE, "auto")}

=============================================================================
