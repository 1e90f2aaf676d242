--------------------------- MODULE SmmRendezvous ---------------------------
(***************************************************************************)
(* The permanent SMI entry (fstart_smm::handle): every CPU that takes an   *)
(* SMI does its CPU-local work, then races for the owner word in SMRAM.    *)
(* The winner dispatches the chipset's sources; the losers spin until the  *)
(* word is 0 and return.  The module holds the shared word, where each CPU *)
(* is, and which CPUs have an SMI latched; the chipset modules extend it   *)
(* with what the owner does between Claim and Leave.                       *)
(***************************************************************************)
CONSTANTS
    CPU,        \* logical CPUs
    NoCpu       \* owner word 0

ASSUME NoCpuAssumption == NoCpu \notin CPU

VARIABLES
    pc,         \* per CPU: "run" outside SMM, else its place in the handler
    owner,      \* SmmRuntime::owner: the dispatching CPU or NoCpu
    latched     \* CPUs with an SMI they have not taken yet

rendezvousVars == <<pc, owner, latched>>

\* CPUs inside SMM.
InSmm == {c \in CPU : pc[c] # "run"}

RendezvousInit ==
    /\ pc = [c \in CPU |-> "run"]
    /\ owner = NoCpu
    /\ latched = {}

At(c, here, next) ==
    /\ pc[c] = here
    /\ pc' = [pc EXCEPT ![c] = next]

-----------------------------------------------------------------------------
\* A CPU outside SMM takes its latched SMI between two instructions,
\* whatever it was doing.
TakeSmi(c) ==
    /\ c \in latched
    /\ At(c, "run", "enter")
    /\ latched' = latched \ {c}
    /\ UNCHANGED owner

\* enter_cpu on every CPU; the chipset module adds its CPU-local work.
EnterCpu(c) ==
    /\ At(c, "enter", "claim")
    /\ UNCHANGED <<owner, latched>>

\* claim_owner in enter_rendezvous: one compare_exchange.
ClaimWon(c) ==
    /\ owner = NoCpu
    /\ At(c, "claim", "dispatch")
    /\ owner' = c
    /\ UNCHANGED latched

ClaimLost(c) ==
    /\ owner # NoCpu
    /\ At(c, "claim", "wait")
    /\ UNCHANGED <<owner, latched>>

\* A loser polls until it reads 0, then returns through RSM.  A new owner may
\* have taken the word between two of its polls.
AwaitOwner(c) ==
    /\ owner = NoCpu
    /\ At(c, "wait", "run")
    /\ UNCHANGED <<owner, latched>>

\* Mutant: the owner returns without releasing the word.
Leave_Forgotten(c) ==
    /\ At(c, "leave", "run")
    /\ UNCHANGED <<owner, latched>>

\* leave_rendezvous and RSM.
Leave(c) ==
    /\ At(c, "leave", "run")
    /\ owner' = NoCpu
    /\ UNCHANGED latched

-----------------------------------------------------------------------------
\* Steps that leave everything outside this module alone.
Rendezvous(c) ==
    \/ TakeSmi(c)
    \/ ClaimWon(c)
    \/ ClaimLost(c)
    \/ AwaitOwner(c)
    \/ Leave(c)
=============================================================================
