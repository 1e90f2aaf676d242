---------------------------- MODULE MCLoadLedger ----------------------------
(***************************************************************************)
(* LoadLedger with windows of one or two neighbouring addresses, two       *)
(* callers and a ledger of two windows.                                    *)
(***************************************************************************)
EXTENDS LoadLedger

CONSTANTS l1, l2, kernel

MCPolicy == {Address, Address \ {1}}

MCWindow == {w \in {a..b : a, b \in Address} : Cardinality(w) \in {1, 2}}

\* The live part starts where the footprint does.
MCDestination == {[foot |-> a..b, live |-> a..c] : a, b, c \in Address} \cap
                 {d \in [foot : MCWindow, live : MCWindow] : d.live \subseteq d.foot}
=============================================================================
