-------------------------- MODULE MCSmmRelocation --------------------------
(***************************************************************************)
(* SmmRelocation on three CPUs: an owner of the bridge, a waiter that may  *)
(* give up, and the boot CPU, which comes last.                            *)
(***************************************************************************)
EXTENDS SmmRelocation
=============================================================================
