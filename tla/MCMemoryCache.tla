--------------------------- MODULE MCMemoryCache ---------------------------
(* Two firmware images, and two sets of modules: one trains in two ways,    *)
(* the other cannot be trained.                                             *)
EXTENDS MemoryCache

MCDimmOf == [p \in Payload |-> 1]
=============================================================================
