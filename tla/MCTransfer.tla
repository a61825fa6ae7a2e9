------------------------------ MODULE MCTransfer ------------------------------
(***************************************************************************)
(* Finite instances of TransferWorkers: a and b are queue workers, f is a  *)
(* thread that executes a transfer in the foreground.                      *)
(***************************************************************************)
EXTENDS TransferWorkers

CONSTANTS a, b, f
=============================================================================
