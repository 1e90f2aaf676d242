------------------------------ MODULE MCSp3Smm ------------------------------
(***************************************************************************)
(* Two CPUs, a journal of two slots and one report per boot: three SMIs    *)
(* with up to two records each fill it, meet on its lock and reach the     *)
(* limit of the reports.                                                   *)
(***************************************************************************)
EXTENDS Sp3Smm
=============================================================================
