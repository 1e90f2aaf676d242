----------------------------- MODULE LoadLedger -----------------------------
(***************************************************************************)
(* Loading files into memory in the main stage: the load policy, the       *)
(* ledger of the windows that loads have filled, and the one workspace for *)
(* the device tree.  Loads and device-tree preparations may be attempted   *)
(* by several callers at once; the ledger's busy flag turns all but one of *)
(* them away.  configure_fdt_workspace is called with no load in progress: *)
(* its contract has the calls serialized on the boot CPU.                  *)
(*                                                                         *)
(* A window is the set of its addresses.  The array of committed windows   *)
(* is a set, since its order is never used.                                *)
(***************************************************************************)
EXTENDS Naturals, FiniteSets

CONSTANTS Address, Loader, Image,
          Window,                  \* the windows of memory: sets of addresses
          Destination,             \* the footprint and live part of each file
          Policy,                  \* the policies of the platform: what each permits
          MAX_LOADED_WINDOWS

ASSUME LedgerAssumption ==
    /\ Window \subseteq SUBSET Address
    /\ Destination \subseteq {d \in [foot : Window, live : Window] :
                                  d.live \subseteq d.foot /\ d.live # {}}
    /\ Policy \subseteq SUBSET Address
    /\ MAX_LOADED_WINDOWS \in Nat
    /\ {"blank", "junk", "fdt"} \cap Image = {}

NoWindow == {}

VARIABLES
    policy,      \* the addresses the installed policy permits
    ledger,      \* LEDGER is published
    busy,        \* Ledger::busy
    windows,     \* the committed windows, with the image each was filled with
    count,       \* State::count
    workspace,   \* the destination of the device-tree workspace, or NoWindow
    pc,          \* where each caller is
    plan,        \* the destinations of its load
    image,       \* the file it loads, "fdt" for a device tree
    memory,      \* what each address holds
    prepared     \* the workspace holds a finished device tree

book == <<policy, ledger, windows, count, workspace>>
vars == <<policy, ledger, busy, windows, count, workspace, pc, plan, image,
          memory, prepared>>

Footprint(p) == UNION {d.foot : d \in p}
Live(p) == UNION {d.live : d \in p}

Content == Image \cup {"blank", "junk", "fdt"}

TypeOK ==
    /\ policy \in SUBSET Address
    /\ ledger \in BOOLEAN
    /\ busy \in BOOLEAN
    /\ windows \in SUBSET [live : Window, image : Image]
    /\ count \in Nat
    /\ workspace \in Window \cup {NoWindow}
    /\ pc \in [Loader -> {"idle", "begin", "lock", "check", "copy", "verify",
                          "commit", "drop"}]
    /\ plan \in [Loader -> SUBSET [foot : Window, live : Window]]
    /\ image \in [Loader -> Image \cup {"fdt"}]
    /\ memory \in [Address -> Content]
    /\ prepared \in BOOLEAN

Init ==
    /\ policy = {} /\ ledger = FALSE /\ busy = FALSE
    /\ windows = {} /\ count = 0 /\ workspace = NoWindow
    /\ pc = [l \in Loader |-> "idle"]
    /\ plan = [l \in Loader |-> {}]
    /\ image = [l \in Loader |-> "fdt"]
    /\ memory = [a \in Address |-> "blank"]
    /\ prepared = FALSE

Goto(l, place) == pc' = [pc EXCEPT ![l] = place]

-----------------------------------------------------------------------------
(* The platform *)

\* loaded::initialize keeps a ledger that is there.  grant_load_window ends in
\* the same call.
set_load_policy(permitted) ==
    /\ policy' = permitted
    /\ ledger' = TRUE
    /\ UNCHANGED <<busy, windows, count, workspace, pc, plan, image, memory, prepared>>

\* begin_fdt would admit this window.
Admits(w) == /\ ledger /\ ~busy
             /\ count + 1 <= MAX_LOADED_WINDOWS
             /\ \A v \in windows : v.live \cap w = {}

\* The window need not be permitted to loads: it may be the reserved one that
\* the device tree is already in.  A second registration changes nothing.
configure_fdt_workspace(w) ==
    /\ \A l \in Loader : pc[l] = "idle"
    /\ workspace = NoWindow /\ w # {}
    /\ Admits(w)
    /\ workspace' = w
    /\ UNCHANGED <<policy, ledger, busy, windows, count, pc, plan, image, memory, prepared>>

-----------------------------------------------------------------------------
(* A load by caller l *)

Leave(l) ==
    /\ Goto(l, "idle")
    /\ plan' = [plan EXCEPT ![l] = {}]
    /\ image' = [image EXCEPT ![l] = "fdt"]

\* A file with one segment, or the kernel and the ramdisk of a FIT image,
\* whose live parts are their footprints.  `place` checks each destination
\* against the policy before the ledger is asked.
Request(l, p, i) ==
    /\ pc[l] = "idle"
    /\ \/ Cardinality(p) = 1
       \/ /\ Cardinality(p) = 2
          /\ \A d \in p : d.live = d.foot
          /\ \A d, e \in p : d # e => d.foot \cap e.foot = {}
    /\ Footprint(p) \subseteq policy
    /\ plan' = [plan EXCEPT ![l] = p]
    /\ image' = [image EXCEPT ![l] = i]
    /\ Goto(l, "begin")
    /\ UNCHANGED <<book, busy, memory, prepared>>

\* A load of a device tree from flash, or its preparation in place.
RequestFdt(l) ==
    /\ pc[l] = "idle"
    /\ workspace # NoWindow /\ ledger
    /\ plan' = [plan EXCEPT ![l] = {[foot |-> workspace, live |-> workspace]}]
    /\ image' = [image EXCEPT ![l] = "fdt"]
    /\ Goto(l, "lock")
    /\ UNCHANGED <<book, busy, memory, prepared>>

\* loaded::begin: fdt_workspace::conflicts, then the ledger pointer.
Begin(l) ==
    /\ pc[l] = "begin"
    /\ IF ledger /\ Footprint(plan[l]) \cap workspace = {}
       THEN Goto(l, "lock") /\ UNCHANGED <<plan, image>>
       ELSE Leave(l)
    /\ UNCHANGED <<book, busy, memory, prepared>>

Lock(l) ==
    /\ pc[l] = "lock"
    /\ IF busy
       THEN Leave(l) /\ UNCHANGED busy
       ELSE busy' = TRUE /\ Goto(l, "check") /\ UNCHANGED <<plan, image>>
    /\ UNCHANGED <<book, memory, prepared>>

\* Mutant: only the capacity for one more window is checked.
Fits_One(p) == count + 1 <= MAX_LOADED_WINDOWS

Fits(p) == count + Cardinality(p) <= MAX_LOADED_WINDOWS

\* Mutant: the live parts are compared, not the footprints.
Disjoint_LiveOnly(p) ==
    /\ \A d \in p, v \in windows : v.live \cap d.live = {}
    /\ \A d, e \in p : d # e => d.foot \cap e.foot = {}

Disjoint(p) ==
    /\ \A d \in p, v \in windows : v.live \cap d.foot = {}
    /\ \A d, e \in p : d # e => d.foot \cap e.foot = {}

\* The checks of Ledger::begin under the lock; the guard unlocks on failure.
Check(l) ==
    /\ pc[l] = "check"
    /\ Goto(l, IF Fits(plan[l]) /\ Disjoint(plan[l]) THEN "copy" ELSE "drop")
    /\ UNCHANGED <<book, busy, plan, image, memory, prepared>>

\* The writes begin: until the load is complete nothing is known of the
\* footprint, the scratch part behind the live one included.  A file that
\* cannot be decoded or a bad device-tree header fails before the first write.
Copy(l) ==
    /\ pc[l] = "copy"
    /\ \/ /\ memory' = [a \in Address |-> IF a \in Footprint(plan[l]) THEN "junk" ELSE memory[a]]
          /\ prepared' = (prepared /\ image[l] # "fdt")
          /\ Goto(l, "verify")
       \/ Goto(l, "drop") /\ UNCHANGED <<memory, prepared>>
    /\ UNCHANGED <<book, busy, plan, image>>

\* Mutant: an error return forgets the guard.
Verify_Leak(l) ==
    /\ pc[l] = "verify"
    /\ \/ /\ memory' = [a \in Address |-> IF a \in Live(plan[l]) THEN image[l] ELSE memory[a]]
          /\ prepared' = (prepared \/ image[l] = "fdt")
          /\ Goto(l, IF image[l] = "fdt" THEN "drop" ELSE "commit")
          /\ UNCHANGED <<plan, image>>
       \/ Leave(l) /\ UNCHANGED <<memory, prepared>>
    /\ UNCHANGED <<book, busy>>

\* Every digest matches and the tail is cleared, or the load fails.
Verify(l) ==
    /\ pc[l] = "verify"
    /\ \/ /\ memory' = [a \in Address |-> IF a \in Live(plan[l]) THEN image[l] ELSE memory[a]]
          /\ prepared' = (prepared \/ image[l] = "fdt")
          /\ Goto(l, IF image[l] = "fdt" THEN "drop" ELSE "commit")
       \/ Goto(l, "drop") /\ UNCHANGED <<memory, prepared>>
    /\ UNCHANGED <<book, busy, plan, image>>

\* PendingLoad::commit.
Commit(l) ==
    /\ pc[l] = "commit"
    /\ windows' = windows \cup {[live |-> d.live, image |-> image[l]] : d \in plan[l]}
    /\ count' = count + Cardinality(plan[l])
    /\ Goto(l, "drop")
    /\ UNCHANGED <<policy, ledger, workspace, busy, plan, image, memory, prepared>>

Drop(l) ==
    /\ pc[l] = "drop"
    /\ busy' = FALSE
    /\ Leave(l)
    /\ UNCHANGED <<book, memory, prepared>>

-----------------------------------------------------------------------------

Continue(l) == \/ Begin(l) \/ Lock(l) \/ Check(l) \/ Copy(l) \/ Verify(l)
               \/ Commit(l) \/ Drop(l)

Plans == {{d} : d \in Destination} \cup {{d, e} : d, e \in Destination}

Next ==
    \/ \E permitted \in Policy : set_load_policy(permitted)
    \/ \E w \in Window : configure_fdt_workspace(w)
    \/ \E l \in Loader : \/ \E p \in Plans, i \in Image : Request(l, p, i)
                         \/ RequestFdt(l)
                         \/ Continue(l)

Spec == Init /\ [][Next]_vars

\* A call that has started runs on.
FairSpec == Spec /\ \A l \in Loader : WF_vars(Continue(l))

-----------------------------------------------------------------------------
(* Properties *)

\* What a load has committed stays in memory, byte for byte, whatever other
\* loads are tried or fail half way, and with whatever policy.
LiveIntact == \A v \in windows : \A a \in v.live : memory[a] = v.image

\* A finished device tree stays whole until it is prepared again.
FdtIntact == prepared => \A a \in workspace : memory[a] = "fdt"

\* A commit cannot fail any more, so it must find room in the table, also for
\* a plan of two windows.
CommitFits ==
    /\ count <= MAX_LOADED_WINDOWS
    /\ \A l \in Loader :
           pc[l] = "commit" => count + Cardinality(plan[l]) <= MAX_LOADED_WINDOWS

\* What is committed is never forgotten, a policy refresh included.
NothingForgotten == [][windows \subseteq windows']_vars

\* A load that fails or succeeds gives the ledger back.
LedgerFreed == busy ~> ~busy
=============================================================================
