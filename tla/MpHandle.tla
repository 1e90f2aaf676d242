------------------------------ MODULE MpHandle ------------------------------
(***************************************************************************)
(* MpHandle: what bring-up hands to the code that runs work on all CPUs.   *)
(* The boot CPU has index 0 and the APs the indices after it.              *)
(***************************************************************************)
EXTENDS Integers

CONSTANT num_aps      \* MpHandle::num_aps, which is AP_COUNT after an Ok

ASSUME HandleAssumption == num_aps \in Nat

CPU == 0..num_aps
BSP == 0
=============================================================================
