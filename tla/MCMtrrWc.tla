------------------------------ MODULE MCMtrrWc ------------------------------
(***************************************************************************)
(* MtrrWc on a core with two threads and a core with one.                  *)
(***************************************************************************)
EXTENDS MtrrWc

CONSTANTS core0, core1

MCcore == [c \in CPU |-> IF c = 2 THEN core1 ELSE core0]
=============================================================================
