--------------------------- MODULE MCTransferBudget ---------------------------
(***************************************************************************)
(* Finite instances of TransferBudget: a is a queue worker, f is a thread  *)
(* that executes a transfer in the foreground.                             *)
(***************************************************************************)
EXTENDS TransferBudget

CONSTANTS a, f
=============================================================================
