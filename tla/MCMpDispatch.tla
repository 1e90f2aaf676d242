---------------------------- MODULE MCMpDispatch ----------------------------
(* Two APs and every sequence of three scope methods. *)
EXTENDS MpDispatch

=============================================================================
