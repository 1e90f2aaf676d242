--------------------------- MODULE MCMeasuredBoot ---------------------------
(* Every payload kind, log size and outcome of every TPM command. *)
EXTENDS MeasuredBoot
=============================================================================
