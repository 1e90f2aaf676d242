---------------------------- MODULE AtomicCell ----------------------------
(***************************************************************************)
(* What the memory-training journal promises: a cell that holds one value, *)
(* replaced in one step or not at all, whatever happens to the power.      *)
(***************************************************************************)
CONSTANTS Value, NoValue

VARIABLES value,      \* what a load returns
          pending,    \* the value of the save in progress, or NoValue
          result      \* how the last save ended

vars == <<value, pending, result>>

Init ==
    /\ value = NoValue
    /\ pending = NoValue
    /\ result = "none"

Begin(v) ==
    /\ pending = NoValue
    /\ pending' = v
    /\ result' = "none"
    /\ UNCHANGED value

Commit ==
    /\ pending # NoValue
    /\ value' = pending
    /\ UNCHANGED <<pending, result>>

\* A save that fails or is cut short may or may not have taken effect; one
\* that succeeds has.
End ==
    /\ pending # NoValue
    /\ pending' = NoValue
    /\ value' \in {value, pending}
    /\ result' \in {"saved", "current", "err", "none"}
    /\ result' \in {"saved", "current"} => value' = pending

\* A save may be refused before it begins.
Refuse ==
    /\ pending = NoValue
    /\ result' = "err"
    /\ UNCHANGED <<value, pending>>

Next == (\E v \in Value : Begin(v)) \/ Commit \/ End \/ Refuse

Spec == Init /\ [][Next]_vars

============================================================================
