------------------------------- MODULE SelLog -------------------------------
(***************************************************************************)
(* What the RAS journal promises: the first records are kept as they came, *)
(* the others are counted; the kept ones are reported to the BMC in order, *)
(* each once, up to a limit; one probe may be sent beside them; and after  *)
(* the first failure nothing is sent any more.                             *)
(***************************************************************************)
EXTENDS Integers, Sequences

CONSTANTS
    Record,         \* machine-check records
    Probe,          \* the benign probe event
    Capacity,       \* records that are kept
    MaxReports      \* records that are reported

VARIABLES
    stored,         \* the records kept
    lost,           \* how many were not
    sel             \* the transfers to the BMC: the event and whether it got there

vars == <<stored, lost, sel>>

Init == stored = <<>> /\ lost = 0 /\ sel = <<>>

ProbeSent == \E i \in DOMAIN sel : sel[i].event = Probe

\* How many records have been reported; there is at most one probe.
Reports == IF ProbeSent THEN Len(sel) - 1 ELSE Len(sel)

Keep(r) ==
    /\ Len(stored) < Capacity
    /\ stored' = Append(stored, r)
    /\ UNCHANGED <<lost, sel>>

Lose == lost' = lost + 1 /\ UNCHANGED <<stored, sel>>

\* A transfer, which may fail and is then the last one.
Send(event) ==
    /\ \A i \in DOMAIN sel : sel[i].ok
    /\ \E ok \in BOOLEAN : sel' = Append(sel, [event |-> event, ok |-> ok])
    /\ UNCHANGED <<stored, lost>>

Report ==
    /\ Reports < Len(stored) /\ Reports < MaxReports
    /\ Send(stored[Reports + 1])

SendProbe ==
    /\ ~ProbeSent
    /\ Send(Probe)

Next == (\E r \in Record : Keep(r)) \/ Lose \/ Report \/ SendProbe

Spec == Init /\ [][Next]_vars
=============================================================================
