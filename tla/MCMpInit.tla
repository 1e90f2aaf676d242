------------------------------ MODULE MCMpInit ------------------------------
(* Bring-up on a machine with three APs. *)
EXTENDS MpInit

CONSTANTS a1, a2, a3, b0

\* One AP has LAPIC id 0, the value of a mailbox slot nobody has written.
MCLapicId ==
    [c \in CPU |-> CASE c = a1 -> 0 [] c = a2 -> 2 [] c = a3 -> 3 [] c = b0 -> 1]

\* SIPIs and a launcher, with an excess AP or room for all of them, fewer CPUs
\* than expected, a lone BSP and the rejected counts.
MCConfig ==
    {[num_cpus |-> 3, max_cpus |-> 3, launch |-> FALSE],
     [num_cpus |-> 2, max_cpus |-> 4, launch |-> TRUE]} \cup
    {[num_cpus |-> n, max_cpus |-> m, launch |-> FALSE] : n \in {0, 1}, m \in {0, 4}} \cup
    {[num_cpus |-> 4, max_cpus |-> m, launch |-> FALSE] : m \in {3, 5}}
=============================================================================
