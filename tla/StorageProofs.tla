--------------------------- MODULE StorageProofs ---------------------------
(***************************************************************************)
(* Proofs about two places that several writers fill: none of them writes  *)
(* over what another one has put there.                                    *)
(*                                                                         *)
(* The flash console never programs a completed line again, for a region,  *)
(* a program page, a command and a line buffer of any size.  Failed and    *)
(* interrupted writes leave holes, so the region is not a log followed by  *)
(* erased bytes.  But a set of intervals that the search does not leave    *)
(* (Covers) still shows where it cannot end: programming a byte only moves *)
(* the search to the right, and a search that gets as far as a stage's     *)
(* offset gets past all the stage has appended there.                      *)
(*                                                                         *)
(* What loads have committed and the device tree stay intact, for any      *)
(* memory, any windows and any number of callers.  The argument: only the  *)
(* owner of the busy flag writes, inside a footprint that was checked      *)
(* under that flag; the committed windows cannot change before it drops    *)
(* the flag, and the workspace cannot change while anybody loads.          *)
(***************************************************************************)
EXTENDS FlashConsole, LoadLedger, TLAPS

-----------------------------------------------------------------------------
(* The loaded-memory ledger *)

USE LedgerAssumption

Owning == {"check", "copy", "verify", "commit", "drop"}

\* The flag has one owner, and is set while it has one.
Owner ==
    /\ \A l, m \in Loader : pc[l] \in Owning /\ pc[m] \in Owning => l = m
    /\ \A l \in Loader : pc[l] \in Owning => busy

\* A plan that is past `begin` and the workspace are apart, or the same.
Planned ==
    \A l \in Loader :
        /\ \A d \in plan[l] : d.live \subseteq d.foot
        /\ pc[l] # "idle" /\ image[l] # "fdt" => Cardinality(plan[l]) \in {1, 2}
        /\ pc[l] = "begin" => image[l] \in Image
        /\ pc[l] \in {"lock"} \cup Owning =>
               IF image[l] = "fdt"
               THEN /\ plan[l] = {[foot |-> workspace, live |-> workspace]}
                    /\ workspace # NoWindow
               ELSE \A d \in plan[l] : d.foot \cap workspace = {}

\* What Ledger::begin has established for the load in progress.
Checked ==
    \A l \in Loader :
        /\ pc[l] \in {"copy", "verify", "commit"} =>
               Fits(plan[l]) /\ Disjoint(plan[l])
        /\ pc[l] = "commit" =>
               /\ image[l] \in Image
               /\ \A d \in plan[l] : \A a \in d.live : memory[a] = image[l]

\* The workspace is apart from what is committed, and the table has not
\* overflowed.
Apart == /\ \A v \in windows : v.live \cap workspace = {}
         /\ prepared => workspace # NoWindow
         /\ count <= MAX_LOADED_WINDOWS

IInv == /\ TypeOK /\ Owner /\ Planned /\ Checked /\ Apart
        /\ LiveIntact /\ FdtIntact

-----------------------------------------------------------------------------
(* The invariant is inductive *)

USE DEF NoWindow, book, Goto

\* A policy refresh keeps the ledger.
LEMMA PolicyStep ==
    ASSUME IInv, NEW permitted \in Policy, set_load_policy(permitted)
    PROVE  IInv'
<1>0. TypeOK /\ Owner /\ Planned /\ Checked /\ Apart /\ LiveIntact /\ FdtIntact
  BY Zenon DEF IInv
<1>1. TypeOK'
  <2>1. ledger' \in BOOLEAN
    BY Zenon DEF set_load_policy
  <2> QED
    BY Zenon, <1>0, <2>1 DEF set_load_policy, TypeOK
<1>2. (Owner /\ Planned /\ Checked)'
  BY <1>0 DEF set_load_policy, Owner, Planned, Checked, Fits, Disjoint
<1>3. (Apart /\ LiveIntact /\ FdtIntact)'
  BY Zenon, <1>0 DEF set_load_policy, Apart, LiveIntact, FdtIntact
<1> QED
  BY Zenon, <1>1, <1>2, <1>3 DEF IInv

\* The workspace is registered apart from what is committed.
LEMMA ConfigureStep ==
    ASSUME IInv, NEW w \in Window, configure_fdt_workspace(w)
    PROVE  IInv'
<1>0. TypeOK /\ Owner /\ Planned /\ Checked /\ Apart /\ LiveIntact /\ FdtIntact
  BY Zenon DEF IInv
<1> USE DEF configure_fdt_workspace
<1>1. TypeOK'
  BY Zenon, <1>0 DEF TypeOK
<1>2. (Owner /\ Planned /\ Checked)'
  BY Zenon, <1>0 DEF Owner, Owning, Planned, Checked, Fits, Disjoint
<1>3. (Apart /\ LiveIntact /\ FdtIntact)'
  BY Zenon, <1>0 DEF Admits, Apart, LiveIntact, FdtIntact
<1> QED
  BY Zenon, <1>1, <1>2, <1>3 DEF IInv

\* A request writes nothing.
LEMMA RequestStep ==
    ASSUME IInv, NEW l \in Loader, NEW p \in Plans, NEW i \in Image, Request(l, p, i)
    PROVE  IInv'
<1>0. TypeOK /\ Owner /\ Planned /\ Checked /\ Apart /\ LiveIntact /\ FdtIntact
  BY Zenon DEF IInv
<1>1. p \in SUBSET [foot : Window, live : Window] /\ \A d \in p : d.live \subseteq d.foot
  <2>1. p \subseteq Destination
    BY DEF Plans
  <2> QED
    BY Zenon, <2>1
<1>2. Cardinality(p) \in {1, 2}
  BY Zenon DEF Request
<1>3. TypeOK'
  BY Zenon, <1>0, <1>1 DEF Request, TypeOK
<1>4. (Owner /\ Checked)'
  BY <1>0 DEF Request, TypeOK, Owner, Owning, Checked, Fits, Disjoint
<1>5. Planned'
  BY <1>0, <1>1, <1>2 DEF Request, TypeOK, Planned, Owning
<1>6. (Apart /\ LiveIntact /\ FdtIntact)'
  BY Zenon, <1>0 DEF Request, Apart, LiveIntact, FdtIntact
<1> QED
  BY Zenon, <1>3, <1>4, <1>5, <1>6 DEF IInv

\* A request for the device tree plans for the workspace alone.
LEMMA RequestFdtStep ==
    ASSUME IInv, NEW l \in Loader, RequestFdt(l)
    PROVE  IInv'
<1>0. TypeOK /\ Owner /\ Planned /\ Checked /\ Apart /\ LiveIntact /\ FdtIntact
  BY Zenon DEF IInv
<1> DEFINE p == {[foot |-> workspace, live |-> workspace]}
<1>1. p \in SUBSET [foot : Window, live : Window] /\ \A d \in p : d.live \subseteq d.foot
  BY <1>0 DEF RequestFdt, TypeOK
<1>2. plan' = [plan EXCEPT ![l] = p]
  BY Zenon DEF RequestFdt
<1>3. TypeOK'
  BY <1>0, <1>1, <1>2 DEF RequestFdt, TypeOK
<1>4. (Owner /\ Checked)'
  BY <1>0 DEF RequestFdt, TypeOK, Owner, Owning, Checked, Fits, Disjoint
<1>5. Planned'
  BY <1>0, <1>1, <1>2 DEF RequestFdt, TypeOK, Planned, Owning
<1>6. (Apart /\ LiveIntact /\ FdtIntact)'
  BY Zenon, <1>0 DEF RequestFdt, Apart, LiveIntact, FdtIntact
<1> QED
  BY Zenon, <1>3, <1>4, <1>5, <1>6 DEF IInv

\* `conflicts` keeps a load away from the workspace.
LEMMA BeginStep == ASSUME IInv, NEW l \in Loader, Begin(l) PROVE IInv'
<1>0. TypeOK /\ Owner /\ Planned /\ Checked /\ Apart /\ LiveIntact /\ FdtIntact
  BY Zenon DEF IInv
<1>1. TypeOK'
  BY <1>0 DEF Begin, Leave, TypeOK
<1>2. (Owner /\ Checked)'
  BY <1>0 DEF Begin, Leave, TypeOK, Owner, Owning, Checked, Fits, Disjoint
<1>3. Planned'
  BY <1>0 DEF Begin, Leave, Footprint, TypeOK, Planned, Owning
<1>4. (Apart /\ LiveIntact /\ FdtIntact)'
  BY Zenon, <1>0 DEF Begin, Apart, LiveIntact, FdtIntact
<1> QED
  BY Zenon, <1>1, <1>2, <1>3, <1>4 DEF IInv

\* The compare-exchange admits one caller.
LEMMA LockStep == ASSUME IInv, NEW l \in Loader, Lock(l) PROVE IInv'
<1>0. TypeOK /\ Owner /\ Planned /\ Checked /\ Apart /\ LiveIntact /\ FdtIntact
  BY Zenon DEF IInv
<1>1. busy' \in BOOLEAN
  BY Zenon, <1>0 DEF Lock, TypeOK
<1>2. pc[l] = "lock" /\ (busy => busy') /\ (~busy => busy')
  BY Zenon DEF Lock
<1>3. TypeOK'
  BY <1>0, <1>1 DEF Lock, Leave, TypeOK
<1>4. Owner'
  BY <1>0, <1>2 DEF Lock, Leave, TypeOK, Owner, Owning
<1>5. Planned'
  BY <1>0 DEF Lock, Leave, TypeOK, Planned, Owning
<1>6. Checked'
  BY <1>0 DEF Lock, Leave, TypeOK, Checked, Fits, Disjoint
<1>7. (Apart /\ LiveIntact /\ FdtIntact)'
  BY Zenon, <1>0 DEF Lock, Apart, LiveIntact, FdtIntact
<1> QED
  BY Zenon, <1>3, <1>4, <1>5, <1>6, <1>7 DEF IInv

\* The checks are made under the flag.
LEMMA CheckStep == ASSUME IInv, NEW l \in Loader, Check(l) PROVE IInv'
<1>0. TypeOK /\ Owner /\ Planned /\ Checked /\ Apart /\ LiveIntact /\ FdtIntact
  BY Zenon DEF IInv
<1>1. TypeOK'
  BY Zenon, <1>0 DEF Check, TypeOK
<1>2. (Owner /\ Planned)'
  BY <1>0 DEF Check, TypeOK, Owner, Owning, Planned
<1>3. Checked'
  BY <1>0 DEF Check, TypeOK, Checked, Fits, Disjoint
<1>4. (Apart /\ LiveIntact /\ FdtIntact)'
  BY Zenon, <1>0 DEF Check, Apart, LiveIntact, FdtIntact
<1> QED
  BY Zenon, <1>1, <1>2, <1>3, <1>4 DEF IInv

\* The writes stay in the footprint.
LEMMA CopyStep == ASSUME IInv, NEW l \in Loader, Copy(l) PROVE IInv'
<1>0. TypeOK /\ Owner /\ Planned /\ Checked /\ Apart /\ LiveIntact /\ FdtIntact
  BY Zenon DEF IInv
<1>1. /\ pc[l] = "copy"
      /\ UNCHANGED <<policy, ledger, windows, count, workspace, busy, plan, image>>
  BY Zenon DEF Copy
<1>2. \A a \in Address : memory'[a] # memory[a] => \E d \in plan[l] : a \in d.foot
  BY <1>0 DEF Copy, Footprint, TypeOK
<1>3. memory' \in [Address -> Content]
  BY Zenon, <1>0 DEF Copy, TypeOK, Content
<1>4. /\ prepared' \in BOOLEAN
      /\ prepared' => prepared
      /\ prepared' => image[l] # "fdt" \/ memory' = memory
  <2>1. CASE prepared' = (prepared /\ image[l] # "fdt")
    BY Zenon, <1>0, <2>1 DEF TypeOK
  <2>2. CASE UNCHANGED <<memory, prepared>>
    BY Zenon, <1>0, <2>2 DEF TypeOK
  <2> QED
    BY Zenon, <2>1, <2>2 DEF Copy
<1>5. TypeOK'
  BY Zenon, <1>0, <1>3, <1>4 DEF Copy, TypeOK
<1>6. (Owner /\ Planned)'
  BY <1>0 DEF Copy, TypeOK, Owner, Owning, Planned
<1>7. Checked'
  BY <1>0 DEF Copy, TypeOK, Owner, Owning, Checked, Fits, Disjoint
<1>8. Apart'
  BY Zenon, <1>0, <1>1, <1>4 DEF Apart
<1>9. LiveIntact'
  BY <1>0, <1>1, <1>2 DEF TypeOK, Checked, Disjoint, LiveIntact
<1>10. FdtIntact'
  <2>1. CASE image[l] = "fdt"
    BY Zenon, <1>0, <1>1, <1>4, <2>1 DEF FdtIntact
  <2>2. CASE image[l] # "fdt"
    <3>1. \A d \in plan[l] : d.foot \cap workspace = {}
      BY Zenon, <1>0, <1>1, <2>2 DEF Planned, Owning
    <3> QED
      BY Zenon, <1>0, <1>1, <1>2, <1>4, <3>1 DEF TypeOK, FdtIntact
  <2> QED
    BY Zenon, <2>1, <2>2
<1> QED
  BY Zenon, <1>5, <1>6, <1>7, <1>8, <1>9, <1>10 DEF IInv

\* So do the bytes of a load that is complete.
LEMMA VerifyStep == ASSUME IInv, NEW l \in Loader, Verify(l) PROVE IInv'
<1>0. TypeOK /\ Owner /\ Planned /\ Checked /\ Apart /\ LiveIntact /\ FdtIntact
  BY Zenon DEF IInv
<1>1. CASE pc' = [pc EXCEPT ![l] = "drop"] /\ UNCHANGED <<memory, prepared>>
  <2>1. /\ pc[l] = "verify"
        /\ UNCHANGED <<policy, ledger, windows, count, workspace, busy, plan, image>>
    BY Zenon DEF Verify
  <2>2. TypeOK'
    BY Zenon, <1>0, <1>1, <2>1 DEF TypeOK
  <2>3. (Owner /\ Planned)'
    BY <1>0, <1>1, <2>1 DEF TypeOK, Owner, Owning, Planned
  <2>4. Checked'
    BY <1>0, <1>1, <2>1 DEF TypeOK, Checked, Fits, Disjoint
  <2>5. (Apart /\ LiveIntact /\ FdtIntact)'
    BY Zenon, <1>0, <1>1, <2>1 DEF Apart, LiveIntact, FdtIntact
  <2> QED
    BY Zenon, <2>2, <2>3, <2>4, <2>5 DEF IInv
<1>2. CASE /\ memory' = [a \in Address |-> IF a \in Live(plan[l]) THEN image[l] ELSE memory[a]]
           /\ prepared' = (prepared \/ image[l] = "fdt")
           /\ Goto(l, IF image[l] = "fdt" THEN "drop" ELSE "commit")
  <2>1. /\ pc[l] = "verify"
        /\ UNCHANGED <<policy, ledger, windows, count, workspace, busy, plan, image>>
    BY Zenon DEF Verify
  <2>2. \A a \in Address : IF \E d \in plan[l] : a \in d.live
                            THEN memory'[a] = image[l] ELSE memory'[a] = memory[a]
    BY <1>2 DEF Live
  <2>3. memory' \in [Address -> Content]
    BY Zenon, <1>0, <1>2 DEF TypeOK, Content
  <2>4. prepared' \in BOOLEAN /\ (prepared' => prepared \/ image[l] = "fdt")
    BY Zenon, <1>0, <1>2 DEF TypeOK
  <2>5. TypeOK'
    BY Zenon, <1>0, <1>2, <2>1, <2>3, <2>4 DEF TypeOK
  <2>6. (Owner /\ Planned)'
    BY <1>0, <1>2, <2>1 DEF TypeOK, Owner, Owning, Planned
  <2>7. Checked'
    <3>1. \A m \in Loader : m # l => pc'[m] \notin {"copy", "verify", "commit"}
      BY Zenon, <1>0, <1>2, <2>1 DEF TypeOK, Owner, Owning
    <3>2. pc'[l] = "commit" => image[l] # "fdt"
      BY Zenon, <1>0, <1>2 DEF TypeOK
    <3>3. \A d \in plan[l] : \A a \in d.live : memory'[a] = image[l]
      BY <1>0, <2>2 DEF TypeOK
    <3> QED
      BY <1>0, <2>1, <3>1, <3>2, <3>3 DEF TypeOK, Checked, Fits, Disjoint
  <2>8. Apart'
    BY Zenon, <1>0, <2>1, <2>4 DEF TypeOK, Planned, Owning, Apart
  <2>9. LiveIntact'
    BY <1>0, <2>1, <2>2 DEF TypeOK, Planned, Checked, Disjoint, LiveIntact
  <2>10. FdtIntact'
    <3>1. CASE image[l] = "fdt"
      <4> DEFINE w == [foot |-> workspace, live |-> workspace]
      <4>1. w \in plan[l] /\ workspace \subseteq Address
        BY <1>0, <2>1, <3>1 DEF TypeOK, Planned, Owning
      <4>2. w.live = workspace
        OBVIOUS
      <4>3. \A a \in workspace : a \in Address /\ \E d \in plan[l] : a \in d.live
        BY Zenon, <4>1, <4>2
      <4> QED
        BY Zenon, <2>1, <2>2, <3>1, <4>3 DEF FdtIntact
    <3>2. CASE image[l] # "fdt"
      <4>1. \A a \in workspace : a \in Address /\ ~ \E d \in plan[l] : a \in d.live
        BY Zenon, <1>0, <2>1, <3>2 DEF TypeOK, Planned, Owning
      <4> QED
        BY Zenon, <1>0, <2>1, <2>2, <2>4, <3>2, <4>1 DEF FdtIntact
    <3> QED
      BY Zenon, <3>1, <3>2
  <2> QED
    BY Zenon, <2>5, <2>6, <2>7, <2>8, <2>9, <2>10 DEF IInv
<1> QED
  BY Zenon, <1>1, <1>2 DEF Verify, Goto

\* A commit adds windows that hold the image.
LEMMA CommitStep == ASSUME IInv, NEW l \in Loader, Commit(l) PROVE IInv'
<1>0. TypeOK /\ Owner /\ Planned /\ Checked /\ Apart /\ LiveIntact /\ FdtIntact
  BY Zenon DEF IInv
<1>1. /\ pc[l] = "commit" /\ image[l] \in Image
      /\ count + Cardinality(plan[l]) <= MAX_LOADED_WINDOWS /\ Cardinality(plan[l]) \in Nat
  BY <1>0 DEF Commit, Planned, Checked, Fits
<1>2. \A v : v \in windows' <=> \/ v \in windows
                               \/ \E d \in plan[l] : v = [live |-> d.live, image |-> image[l]]
  BY Zenon DEF Commit
<1>3. TypeOK'
  <2>1. windows' \in SUBSET [live : Window, image : Image]
    BY <1>0, <1>1, <1>2 DEF TypeOK
  <2> QED
    BY <1>0, <1>1, <2>1 DEF Commit, TypeOK
<1>4. (Owner /\ Planned)'
  BY <1>0 DEF Commit, TypeOK, Owner, Owning, Planned
<1>5. Checked'
  <2>1. \A m \in Loader : pc'[m] \notin {"copy", "verify", "commit"}
    BY Zenon, <1>0, <1>1 DEF Commit, TypeOK, Owner, Owning
  <2> QED
    BY Zenon, <2>1 DEF Checked
<1>6. Apart'
  BY <1>0, <1>1, <1>2 DEF Commit, TypeOK, Planned, Owning, Apart
<1>7. LiveIntact'
  BY <1>0, <1>1, <1>2 DEF Commit, Checked, LiveIntact
<1>8. FdtIntact'
  BY Zenon, <1>0 DEF Commit, FdtIntact
<1> QED
  BY Zenon, <1>3, <1>4, <1>5, <1>6, <1>7, <1>8 DEF IInv

\* The flag is dropped by its owner.
LEMMA DropStep == ASSUME IInv, NEW l \in Loader, Drop(l) PROVE IInv'
<1>0. TypeOK /\ Owner /\ Planned /\ Checked /\ Apart /\ LiveIntact /\ FdtIntact
  BY Zenon DEF IInv
<1>1. TypeOK'
  <2>1. busy' \in BOOLEAN
    BY Zenon DEF Drop
  <2> QED
    BY Zenon, <1>0, <2>1 DEF Drop, Leave, TypeOK
<1>2. Owner'
  BY Zenon, <1>0 DEF Drop, Leave, TypeOK, Owner, Owning
<1>3. Planned'
  BY <1>0 DEF Drop, Leave, TypeOK, Planned, Owning
<1>4. Checked'
  BY <1>0 DEF Drop, Leave, TypeOK, Checked, Fits, Disjoint
<1>5. (Apart /\ LiveIntact /\ FdtIntact)'
  BY Zenon, <1>0 DEF Drop, Apart, LiveIntact, FdtIntact
<1> QED
  BY Zenon, <1>1, <1>2, <1>3, <1>4, <1>5 DEF IInv

-----------------------------------------------------------------------------
(* The theorems *)

\* The invariant holds at the start and is kept by every step.
THEOREM Invariance == Spec => []IInv
<1>1. Init => IInv
  <2> SUFFICES ASSUME Init PROVE IInv
    OBVIOUS
  <2>1. ledger \in BOOLEAN /\ busy \in BOOLEAN /\ prepared \in BOOLEAN /\ ~prepared
    BY Zenon DEF Init
  <2>2. TypeOK
    BY Zenon, <2>1 DEF Init, TypeOK, Content
  <2>3. Owner /\ Planned /\ Checked
    BY Zenon DEF Init, Owner, Owning, Planned, Checked
  <2>4. Apart /\ LiveIntact /\ FdtIntact
    BY <2>1 DEF Init, Apart, LiveIntact, FdtIntact
  <2> QED
    BY Zenon, <2>2, <2>3, <2>4 DEF IInv
<1>2. IInv /\ [Next]_vars => IInv'
  <2> SUFFICES ASSUME IInv, [Next]_vars PROVE IInv'
    OBVIOUS
  <2>1. CASE UNCHANGED vars
    <3>1. (Owner /\ Planned /\ Checked)'
      BY <2>1 DEF vars, IInv, Owner, Planned, Checked, Fits, Disjoint
    <3>2. (TypeOK /\ Apart /\ LiveIntact /\ FdtIntact)'
      BY Zenon, <2>1 DEF vars, IInv, TypeOK, Apart, LiveIntact, FdtIntact
    <3> QED
      BY Zenon, <3>1, <3>2 DEF IInv
  <2>2. CASE \E permitted \in Policy : set_load_policy(permitted)
    BY Zenon, <2>2, PolicyStep
  <2>3. CASE \E w \in Window : configure_fdt_workspace(w)
    BY Zenon, <2>3, ConfigureStep
  <2>4. CASE \E l \in Loader : \E p \in Plans, i \in Image : Request(l, p, i)
    BY Zenon, <2>4, RequestStep
  <2>5. CASE \E l \in Loader : RequestFdt(l)
    BY Zenon, <2>5, RequestFdtStep
  <2>6. CASE \E l \in Loader : Continue(l)
    BY Zenon, <2>6, BeginStep, LockStep, CheckStep, CopyStep, VerifyStep, CommitStep,
       DropStep DEF Continue
  <2> QED
    BY <2>1, <2>2, <2>3, <2>4, <2>5, <2>6, Zenon DEF Next
<1> QED
  BY <1>1, <1>2, PTL DEF Spec

\* Every variable stays in its type.
THEOREM TypeSafety == Spec => []TypeOK
<1>1. IInv => TypeOK
  BY Zenon DEF IInv
<1> QED
  BY <1>1, Invariance, PTL

\* What a load has committed is never overwritten.
THEOREM LiveIntactHolds == Spec => []LiveIntact
<1>1. IInv => LiveIntact
  BY Zenon DEF IInv
<1> QED
  BY <1>1, Invariance, PTL

\* A finished device tree is overwritten only by preparing another one.
THEOREM FdtIntactHolds == Spec => []FdtIntact
<1>1. IInv => FdtIntact
  BY Zenon DEF IInv
<1> QED
  BY <1>1, Invariance, PTL

\* A commit always finds room in the table of windows.
THEOREM CommitFitsHolds == Spec => []CommitFits
<1>1. IInv => CommitFits
  BY Zenon DEF IInv, Checked, Apart, Fits, CommitFits
<1> QED
  BY <1>1, Invariance, PTL

\* No step takes a window out of the ledger.
THEOREM NothingForgottenHolds == Spec => NothingForgotten
<1>1. [Next]_vars => [windows \subseteq windows']_vars
  BY DEF Next, set_load_policy, configure_fdt_workspace, Request, RequestFdt,
         Continue, Begin, Lock, Check, Copy, Verify, Commit, Drop, vars
<1> QED
  BY <1>1, PTL DEF Spec, NothingForgotten

HIDE LedgerAssumption

-----------------------------------------------------------------------------
(* The flash console *)

USE ExtentAssumption, LineAssumption

\* What each step of a call to program knows of the protection.
CallInv ==
    /\ step = "enable" => we = weBefore
    /\ step \in {"enable", "status"} => ~bpBefore /\ spiResult = "none"
    /\ step = "unprotect" => bpBefore /\ bp
    /\ step = "chunk" => ~bp
    /\ step = "protect" => bpBefore
    /\ step \in {"disable", "done"} =>
         /\ spiResult = "ok" => bp = bpBefore
         /\ bpBefore /\ ~bp => restored = "err" /\ spiResult = "err"
    /\ step = "done" /\ spiResult = "ok" => we = weBefore

\* Intervals that the search may come to: whatever it makes of one of Q is in
\* Q, and none ends before e.
Interval == (0 .. Size) \X (0 .. Size)

Covers(Q, e) ==
    /\ <<0, Size>> \in Q
    /\ \A l, h \in 0 .. Size : <<l, h>> \in Q =>
         /\ l <= h /\ e <= h
         /\ l < h => IF flash[middle(l, h)] = "erased" THEN <<l, middle(l, h)>> \in Q
                     ELSE <<middle(l, h) + 1, h>> \in Q

\* A search of the region as it is now ends at e or after it.
Beyond(e) == \E Q \in SUBSET Interval : Covers(Q, e)

\* The intervals of a search so far.
Trail(Q) ==
    /\ <<0, Size>> \in Q /\ <<low, high>> \in Q
    /\ \A l, h \in 0 .. Size : <<l, h>> \in Q =>
         /\ l <= h /\ high <= h
         /\ l < h => \/ l = low /\ h = high
                     \/ IF flash[middle(l, h)] = "erased" THEN <<l, middle(l, h)>> \in Q
                        ELSE <<middle(l, h) + 1, h>> \in Q

SearchInv ==
    medium = "opening" =>
        /\ step = "idle" /\ low <= high /\ length = 0
        /\ \A e \in 0 .. Size : \A Q \in SUBSET Interval : Covers(Q, e) => <<low, high>> \in Q
        /\ \E Q \in SUBSET Interval : Trail(Q)

\* Where the log ends for the stage that writes it, and how far its call is.
AppendInv ==
    /\ medium = "some" =>
         /\ Beyond(offset) /\ \A i \in kept : i < offset
         /\ step = "idle" => offset + length < Size
    /\ step # "idle" =>
         /\ medium = "some" /\ length = 0 /\ offset <= at /\ at <= end
         /\ \A i \in offset .. at - 1 : flash[i] # "erased"
         /\ step \in {"enable", "status", "unprotect"} => at = offset
         /\ spiResult = "ok" => at = end

ConsoleInv ==
    /\ ConsoleTypeOK
    /\ CallInv
    /\ \A i \in kept : Beyond(i + 1)
    /\ SearchInv
    /\ AppendInv

-----------------------------------------------------------------------------
(* The search *)

\* The byte looked at is one of the interval.
LEMMA MiddleIn ==
    ASSUME NEW l \in 0 .. Size, NEW h \in 0 .. Size, l < h
    PROVE  /\ middle(l, h) \in Offset
           /\ middle(l, h) \in 0 .. Size /\ middle(l, h) + 1 \in 0 .. Size
           /\ l <= middle(l, h) /\ middle(l, h) < h
  BY DEF middle, Offset

\* Programming more bytes does not make the search stop earlier.
LEMMA BeyondKept ==
    ASSUME NEW e \in 0 .. Size, Beyond(e),
           \A i \in Offset : flash[i] # "erased" => flash'[i] # "erased"
    PROVE  Beyond(e)'
<1>1. PICK Q \in SUBSET Interval : Covers(Q, e)
  BY Zenon DEF Beyond
<1> DEFINE R == Q \cup {p \in Interval : p[1] <= p[2] /\ e <= p[1]}
<1>2. ASSUME NEW l \in 0 .. Size, NEW h \in 0 .. Size
      PROVE  <<l, h>> \in R <=> <<l, h>> \in Q \/ (l <= h /\ e <= l)
  BY Zenon DEF Interval
<1>3. R \in SUBSET Interval /\ <<0, Size>> \in R
  BY Zenon, <1>1 DEF Covers
<1> HIDE DEF R
<1>4. ASSUME NEW l \in 0 .. Size, NEW h \in 0 .. Size, <<l, h>> \in R
      PROVE  /\ l <= h /\ e <= h
             /\ l < h => IF flash'[middle(l, h)] = "erased" THEN <<l, middle(l, h)>> \in R
                         ELSE <<middle(l, h) + 1, h>> \in R
  <2>1. CASE <<l, h>> \in Q
    <3>1. l <= h /\ e <= h
      BY Zenon, <1>1, <2>1 DEF Covers
    <3>2. CASE l < h
      <4>1. /\ flash[middle(l, h)] = "erased" => <<l, middle(l, h)>> \in Q
            /\ flash[middle(l, h)] # "erased" => <<middle(l, h) + 1, h>> \in Q
        BY Zenon, <1>1, <2>1, <3>2 DEF Covers
      <4>2. flash[middle(l, h)] = "erased" => e <= middle(l, h)
        BY Zenon, <1>1, <3>2, <4>1, MiddleIn DEF Covers
      <4> QED
        BY <1>2, <3>1, <3>2, <4>1, <4>2, MiddleIn
    <3> QED
      BY Zenon, <3>1, <3>2
  <2>2. CASE l <= h /\ e <= l
    <3>1. CASE l < h
      BY <1>2, <2>2, <3>1, MiddleIn
    <3> QED
      BY <2>2, <3>1
  <2> QED
    BY Zenon, <1>2, <1>4, <2>1, <2>2
<1>5. Covers(R, e)'
  BY Zenon, <1>3, <1>4 DEF Covers
<1> QED
  BY Zenon, <1>3, <1>5 DEF Beyond

\* A search that gets as far as o gets past the programmed bytes from o on.
LEMMA BeyondLonger ==
    ASSUME NEW o \in 0 .. Size, NEW e \in 0 .. Size, Beyond(o),
           \A i \in o .. e - 1 : flash[i] # "erased"
    PROVE  Beyond(e)
<1>1. PICK Q \in SUBSET Interval : Covers(Q, o)
  BY Zenon DEF Beyond
<1> DEFINE R == {p \in Q : e <= p[2]}
<1>2. ASSUME NEW l \in 0 .. Size, NEW h \in 0 .. Size
      PROVE  <<l, h>> \in R <=> <<l, h>> \in Q /\ e <= h
  OBVIOUS
<1>3. R \in SUBSET Interval /\ <<0, Size>> \in R
  BY <1>1 DEF Covers
<1> HIDE DEF R
<1>4. ASSUME NEW l \in 0 .. Size, NEW h \in 0 .. Size, <<l, h>> \in R, l < h
      PROVE  IF flash[middle(l, h)] = "erased" THEN <<l, middle(l, h)>> \in R
             ELSE <<middle(l, h) + 1, h>> \in R
  <2>1. /\ flash[middle(l, h)] = "erased" => <<l, middle(l, h)>> \in Q
        /\ flash[middle(l, h)] # "erased" => <<middle(l, h) + 1, h>> \in Q
    BY Zenon, <1>1, <1>2, <1>4 DEF Covers
  <2>2. flash[middle(l, h)] = "erased" => o <= middle(l, h)
    BY Zenon, <1>1, <1>4, <2>1, MiddleIn DEF Covers
  <2>3. flash[middle(l, h)] = "erased" => e <= middle(l, h)
    BY <1>4, <2>2, MiddleIn
  <2> QED
    BY Zenon, <1>2, <1>4, <2>1, <2>3, MiddleIn
<1>5. Covers(R, e)
  BY Zenon, <1>1, <1>2, <1>3, <1>4 DEF Covers
<1> QED
  BY Zenon, <1>3, <1>5 DEF Beyond

-----------------------------------------------------------------------------
(* A call to program *)

\* A chunk lies in what is left of the request, and is empty when nothing is.
LEMMA ChunkIn ==
    ASSUME ConsoleTypeOK, at <= end
    PROVE  /\ Count \in Nat /\ at + Count <= end
           /\ NextChunk \subseteq Offset /\ \A i \in NextChunk : at <= i /\ at < end
<1> DEFINE S == {end - at, Chunk, Page - (at % Page)}
<1>1. at \in Nat /\ end \in Nat /\ at <= end /\ end <= Size /\ Chunk \in Nat \ {0}
  BY DEF ConsoleTypeOK, SpiTypeOK
<1>2. end - at \in Nat /\ Page - (at % Page) \in Nat \ {0}
  BY <1>1
<1>3. \E x \in S : \A y \in S : x <= y
  BY <1>1, <1>2
<1>4. Count \in S /\ \A y \in S : Count <= y
  BY Zenon, <1>3 DEF Count
<1>5. Count \in Nat /\ Count <= end - at
  BY Zenon, <1>1, <1>2, <1>4
<1> QED
  BY <1>1, <1>5 DEF NextChunk, Offset

\* Programming keeps the bytes outside of the chunk and erases none.
LEMMA ProgrammedKeeps ==
    ASSUME ConsoleTypeOK, NEW S \in SUBSET Offset
    PROVE  /\ Programmed(S) \in [Offset -> NorByte]
           /\ \A i \in Offset \ S : Programmed(S)[i] = flash[i]
           /\ \A i \in S : Programmed(S)[i] # "erased"
           /\ \A i \in Offset : flash[i] # "erased" => Programmed(S)[i] # "erased"
  BY Zenon DEF Programmed, ConsoleTypeOK, SpiTypeOK, NorByte

\* What a step of a call, or a reset, does to the flash.
LEMMA FlashStep ==
    ASSUME ConsoleInv, ConsoleNext
    PROVE  /\ flash' \in [Offset -> NorByte]
           /\ \A i \in Offset : flash[i] # "erased" => flash'[i] # "erased"
           /\ \A i \in Offset : flash'[i] # flash[i] =>
                step = "chunk" /\ at < end /\ at <= i
<1>1. flash \in [Offset -> NorByte]
  BY Zenon DEF ConsoleInv, ConsoleTypeOK, SpiTypeOK
<1>2. CASE UNCHANGED flash
  BY Zenon, <1>1, <1>2
<1>3. ASSUME step = "chunk", NEW S \in SUBSET NextChunk, flash' = Programmed(S)
      PROVE  /\ flash' \in [Offset -> NorByte]
             /\ \A i \in Offset : flash[i] # "erased" => flash'[i] # "erased"
             /\ \A i \in Offset : flash'[i] # flash[i] => at <= i /\ at < end
  BY Zenon, <1>3, ChunkIn, ProgrammedKeeps DEF ConsoleInv, AppendInv
<1>4. CASE WriteChunk
  BY Zenon, <1>3, <1>4 DEF WriteChunk
<1>5. CASE Reset
  <2>1. PICK S \in SUBSET (IF step = "chunk" THEN NextChunk ELSE {}) : flash' = Programmed(S)
    BY Zenon, <1>5 DEF Reset, Interrupted
  <2>2. CASE step = "chunk"
    BY Zenon, <1>3, <2>1, <2>2
  <2>3. CASE step # "chunk"
    <3>1. S = {}
      BY Zenon, <2>1, <2>3
    <3> QED
      BY Zenon, <1>1, <2>1, <3>1 DEF Programmed
  <2> QED
    BY Zenon, <2>2, <2>3
<1> QED
  BY Zenon, <1>2, <1>3, <1>4, <1>5 DEF ConsoleNext, Probe, ProbeFails, Opened, Push,
     Flush, PushFlush, Spi, SpiStep, Flushed, NextStage, Program, Enable,
     ReadStatus, Unprotect, Written, Protect, Disable, spiVars

\* The protection around the operation (with_write, unprotected).
LEMMA CallStep == ConsoleInv /\ ConsoleNext => CallInv'
<1> SUFFICES ASSUME ConsoleInv, ConsoleNext PROVE CallInv'
  OBVIOUS
<1>1. /\ CallInv /\ we \in BOOLEAN /\ bp \in BOOLEAN
      /\ weBefore \in BOOLEAN /\ bpBefore \in BOOLEAN
  BY Zenon DEF ConsoleInv, ConsoleTypeOK, SpiTypeOK
<1>2. CASE Flush \/ PushFlush \/ Flushed \/ NextStage \/ Reset
  <2>1. \/ step' = "idle"
        \/ step' = "enable" /\ we' = weBefore' /\ ~bpBefore' /\ spiResult' = "none"
        \/ step' = "done" /\ ~bpBefore' /\ spiResult' = "err"
    BY Zenon, <1>2 DEF Flush, PushFlush, Program, Flushed, NextStage, Reset,
       New, spiRegs
  <2> QED
    BY Zenon, <2>1 DEF CallInv
<1>3. CASE Probe \/ ProbeFails \/ Opened \/ Push
  <2>1. UNCHANGED <<step, we, bp, weBefore, bpBefore, spiResult, restored>>
    BY Zenon, <1>3 DEF Probe, ProbeFails, Opened, Push, spiVars, spiRegs,
       spiCall
  <2> QED
    BY Zenon, <1>1, <2>1 DEF CallInv
<1>4. CASE Spi
  <2>1. CASE Enable
    BY Zenon, <1>1, <2>1 DEF Enable, spiCall, CallInv
  <2>2. CASE ReadStatus
    BY <1>1, <2>2 DEF ReadStatus, spiRegs, CallInv
  <2>3. CASE Unprotect
    BY Zenon, <1>1, <2>3 DEF Unprotect, spiCall, CallInv
  <2>4. CASE WriteChunk
    BY Zenon, <1>1, <2>4 DEF WriteChunk, AfterOperation, spiRegs, CallInv
  <2>5. CASE Written
    BY Zenon, <1>1, <2>5 DEF Written, AfterOperation, spiRegs, spiCall, CallInv
  <2>6. CASE Protect
    BY Zenon, <1>1, <2>6 DEF Protect, spiCall, CallInv
  <2>7. CASE Disable
    BY Zenon, <1>1, <2>7 DEF Disable, spiCall, CallInv
  <2> QED
    BY Zenon, <1>4, <2>1, <2>2, <2>3, <2>4, <2>5, <2>6, <2>7 DEF Spi, SpiStep
<1> QED
  BY Zenon, <1>2, <1>3, <1>4 DEF ConsoleNext

\* Types.
LEMMA ConsoleType == ConsoleInv /\ ConsoleNext => ConsoleTypeOK'
<1> SUFFICES ASSUME ConsoleInv, ConsoleNext PROVE ConsoleTypeOK'
  OBVIOUS
<1>1. flash' \in [Offset -> NorByte]
  BY Zenon, FlashStep
<1>2. ConsoleTypeOK
  BY Zenon DEF ConsoleInv
<1>3. CASE Probe \/ ProbeFails \/ Opened \/ Push
  <2>1. UNCHANGED spiVars /\ kept' = kept
    BY Zenon, <1>3 DEF Probe, ProbeFails, Opened, Push
  <2>2. SpiTypeOK'
    BY ZenonT(30), <1>2, <2>1 DEF spiVars, spiRegs, spiCall, ConsoleTypeOK, SpiTypeOK
  <2>3. low' \in 0 .. Size /\ high' \in 0 .. Size
    <3>1. CASE Probe
      BY Zenon, <1>2, <3>1, MiddleIn DEF Probe, Searching, ConsoleTypeOK
    <3> QED
      BY <1>2, <1>3, <3>1, ExtentAssumption DEF ProbeFails, Opened, Push, ConsoleTypeOK
  <2>4. medium' \in {"opening", "some", "none"}
    BY Zenon, <1>2, <1>3 DEF Probe, ProbeFails, Opened, Push, ConsoleTypeOK
  <2>5. offset' \in 0 .. Size /\ length' \in 0 .. LINE_BUFFER_SIZE
    BY <1>2, <1>3 DEF Probe, ProbeFails, Opened, Push, ConsoleTypeOK
  <2> QED
    BY Zenon, <1>2, <2>1, <2>2, <2>3, <2>4, <2>5 DEF ConsoleTypeOK
<1>4. CASE Flush \/ PushFlush
  <2>1. offset + length < Size /\ step = "idle" /\ medium = "some"
    BY Zenon, <1>4 DEF ConsoleInv, AppendInv, Flush, PushFlush
  <2>2. offset \in Nat /\ length \in Nat /\ offset + length + 1 <= Size
    BY <1>2, <2>1 DEF ConsoleTypeOK
  <2>3. at' \in 0 .. Size /\ end' \in 0 .. Size /\ length' = 0
    BY <1>4, <2>2 DEF Flush, PushFlush, Program
  <2>4. /\ step' \in {"enable", "done"} /\ spiResult' \in {"none", "err"} /\ restored' = "none"
        /\ weBefore' \in BOOLEAN /\ bpBefore' \in BOOLEAN
    BY Zenon, <1>2, <1>4 DEF Flush, PushFlush, Program, ConsoleTypeOK, SpiTypeOK
  <2>5. UNCHANGED <<flash, we, bp, lock, medium, low, high, offset, kept>>
    BY Zenon, <1>4 DEF Flush, PushFlush, Program, spiRegs
  <2> QED
    BY <1>2, <2>3, <2>4, <2>5 DEF ConsoleTypeOK, SpiTypeOK
<1>5. CASE Flushed
  <2>1. offset \in Nat /\ end \in Nat /\ end <= Size
    BY <1>2 DEF ConsoleTypeOK, SpiTypeOK
  <2>2. offset .. end - 1 \subseteq Offset
    BY <2>1 DEF Offset
  <2> QED
    BY <1>2, <1>5, <2>1, <2>2 DEF Flushed, spiRegs, spiCall, ConsoleTypeOK, SpiTypeOK
<1>6. CASE NextStage \/ Reset
  <2>1. we' \in BOOLEAN /\ bp' \in BOOLEAN /\ lock' \in BOOLEAN
    BY Zenon, <1>2, <1>6 DEF NextStage, Reset, Interrupted, spiRegs, ConsoleTypeOK,
       SpiTypeOK
  <2>2. /\ weBefore' \in BOOLEAN /\ bpBefore' \in BOOLEAN /\ step' = "idle" /\ at' = 0 /\ end' = 0
        /\ spiResult' = "none" /\ restored' = "none" /\ kept' = kept /\ medium' = "opening"
        /\ low' = 0 /\ high' = Size /\ offset' = 0 /\ length' = 0
    BY Zenon, <1>6 DEF NextStage, Reset, New, Open
  <2>3. SpiTypeOK'
    BY <1>1, <2>1, <2>2 DEF SpiTypeOK
  <2> QED
    BY <1>2, <2>2, <2>3 DEF ConsoleTypeOK
<1>7. CASE Spi
  <2>1. CASE WriteChunk
    <3>1. at' \in 0 .. Size
      BY <1>2, <2>1, ChunkIn DEF WriteChunk, ConsoleTypeOK, SpiTypeOK
    <3> QED
      BY <1>1, <1>2, <1>7, <2>1, <3>1 DEF Spi, WriteChunk, AfterOperation, log, spiRegs,
         ConsoleTypeOK, SpiTypeOK
  <2>2. CASE Enable
    BY ZenonT(30), <1>2, <1>7, <2>2 DEF Spi, Enable, log, spiCall, ConsoleTypeOK,
       SpiTypeOK
  <2>3. CASE ReadStatus
    BY <1>2, <1>7, <2>3 DEF Spi, ReadStatus, log, spiRegs, ConsoleTypeOK, SpiTypeOK
  <2>4. CASE Unprotect
    BY ZenonT(30), <1>2, <1>7, <2>4 DEF Spi, Unprotect, log, spiCall, ConsoleTypeOK,
       SpiTypeOK
  <2>5. CASE Written
    BY <1>2, <1>7, <2>5 DEF Spi, Written, AfterOperation, log, spiRegs, spiCall,
       ConsoleTypeOK,
       SpiTypeOK
  <2>6. CASE Protect
    BY Zenon, <1>2, <1>7, <2>6 DEF Spi, Protect, log, spiCall, ConsoleTypeOK, SpiTypeOK
  <2>7. CASE Disable
    BY Zenon, <1>2, <1>7, <2>7 DEF Spi, Disable, log, spiCall, ConsoleTypeOK, SpiTypeOK
  <2> QED
    BY Zenon, <1>7, <2>1, <2>2, <2>3, <2>4, <2>5, <2>6, <2>7 DEF Spi, SpiStep
<1> QED
  BY Zenon, <1>3, <1>4, <1>5, <1>6, <1>7 DEF ConsoleNext

-----------------------------------------------------------------------------
(* The log *)

\* Where Log::open starts, with every byte of the region still to search.
Starting == medium = "opening" /\ step = "idle" /\ low = 0 /\ high = Size /\ length = 0

LEMMA OpenSearch == Starting => SearchInv
<1> SUFFICES ASSUME Starting PROVE SearchInv
  OBVIOUS
<1> USE DEF Starting
<1> DEFINE Q == {<<0, Size>>}
<1>1. Q \in SUBSET Interval /\ \A l, h \in 0 .. Size : <<l, h>> \in Q => l = 0 /\ h = Size
  BY DEF Interval
<1>2. <<0, Size>> \in Q
  OBVIOUS
<1> HIDE DEF Q
<1>3. Trail(Q)
  BY <1>1, <1>2 DEF Trail
<1>4. \A e \in 0 .. Size : \A R \in SUBSET Interval : Covers(R, e) => <<low, high>> \in R
  BY Zenon DEF Covers
<1> QED
  BY <1>1, <1>3, <1>4 DEF SearchInv

\* One turn of the search stays within every set of intervals that covers it,
\* and adds one interval to its trail.
LEMMA ProbeSearch ==
    ASSUME ConsoleInv, Probe
    PROVE  SearchInv'
<1>1. /\ medium = "opening" /\ step = "idle" /\ low \in 0 .. Size /\ high \in 0 .. Size /\ low < high
      /\ length = 0 /\ UNCHANGED <<medium, step, flash, length>>
  BY Zenon DEF Probe, Searching, spiVars, ConsoleInv, ConsoleTypeOK, SearchInv
<1> DEFINE m == middle(low, high)
<1>2. /\ m \in 0 .. Size /\ m + 1 \in 0 .. Size /\ low <= m /\ m < high
  BY Zenon, <1>1, MiddleIn
<1>3. \/ flash[m] = "erased" /\ high' = m /\ low' = low
      \/ flash[m] # "erased" /\ low' = m + 1 /\ high' = high
  BY Zenon DEF Probe
<1>4. low' <= high' /\ high' <= high /\ low' \in 0 .. Size /\ high' \in 0 .. Size
  BY <1>1, <1>2, <1>3
<1>5. ASSUME NEW e \in 0 .. Size, NEW Q \in SUBSET Interval, Covers(Q, e)'
      PROVE  <<low, high>>' \in Q
  <2>1. Covers(Q, e)
    BY Zenon, <1>1, <1>5 DEF Covers
  <2>2. <<low, high>> \in Q
    BY Zenon, <1>1, <2>1 DEF ConsoleInv, SearchInv
  <2> QED
    BY Zenon, <1>1, <1>3, <2>1, <2>2 DEF Covers
<1>6. \E Q \in SUBSET Interval : Trail(Q)'
  <2>1. PICK Q \in SUBSET Interval : Trail(Q)
    BY Zenon, <1>1 DEF ConsoleInv, SearchInv
  <2>7. PICK a \in 0 .. Size, b \in 0 .. Size : a = low' /\ b = high'
    BY Zenon, <1>4
  <2> DEFINE R == {p \in Interval : p \in Q \/ p = <<a, b>>}
  <2>2. ASSUME NEW l \in 0 .. Size, NEW h \in 0 .. Size
        PROVE  <<l, h>> \in R <=> <<l, h>> \in Q \/ (l = low' /\ h = high')
    BY Zenon, <2>7 DEF Interval
  <2>3. R \in SUBSET Interval
    OBVIOUS
  <2> HIDE DEF R, m
  <2>4. <<0, Size>> \in R /\ <<low', high'>> \in R
    BY <1>4, <2>1, <2>2 DEF Trail
  <2>5. ASSUME NEW l \in 0 .. Size, NEW h \in 0 .. Size, <<l, h>> \in R
        PROVE  /\ l <= h /\ high' <= h
               /\ l < h => \/ l = low' /\ h = high'
                           \/ IF flash[middle(l, h)] = "erased" THEN <<l, middle(l, h)>> \in R
                              ELSE <<middle(l, h) + 1, h>> \in R
    <3>1. CASE l = low' /\ h = high'
      BY <1>4, <3>1
    <3>2. CASE l = low /\ h = high
      BY <1>1, <1>2, <1>3, <1>4, <2>2, <3>2 DEF m
    <3>3. CASE <<l, h>> \in Q /\ ~(l = low /\ h = high)
      <4>1. l <= h /\ high <= h
        BY Zenon, <2>1, <3>3 DEF Trail
      <4>2. CASE l < h
        <5>1. IF flash[middle(l, h)] = "erased" THEN <<l, middle(l, h)>> \in Q
              ELSE <<middle(l, h) + 1, h>> \in Q
          BY Zenon, <2>1, <3>3, <4>2 DEF Trail
        <5> QED
          BY <1>1, <1>4, <2>2, <4>1, <4>2, <5>1, MiddleIn
      <4> QED
        BY <1>1, <1>4, <4>1, <4>2
    <3> QED
      BY Zenon, <2>2, <2>5, <3>1, <3>2, <3>3
  <2>6. Trail(R)'
    BY Zenon, <1>1, <2>4, <2>5 DEF Trail
  <2> QED
    BY Zenon, <2>3, <2>6
<1> QED
  BY Zenon, <1>1, <1>4, <1>5, <1>6 DEF SearchInv

\* The search is over: it passed every completed line, and would end here again.
LEMMA OpenedAppend ==
    ASSUME ConsoleInv, Opened
    PROVE  AppendInv'
<1>1. /\ medium = "opening" /\ step = "idle" /\ step' = "idle" /\ low = high
      /\ low \in 0 .. Size /\ flash' = flash /\ kept' = kept /\ length' = 0
      /\ kept \subseteq Offset
  BY DEF Opened, Searching, spiVars, ConsoleInv, ConsoleTypeOK, SearchInv
<1>2. Beyond(low)
  <2>1. PICK Q \in SUBSET Interval : Trail(Q)
    BY Zenon, <1>1 DEF ConsoleInv, SearchInv
  <2>2. Covers(Q, low)
    BY <1>1, <2>1 DEF Trail, Covers
  <2> QED
    BY Zenon, <2>2 DEF Beyond
<1>3. ASSUME NEW i \in kept PROVE i < low
  <2>1. i \in Nat /\ i + 1 \in 0 .. Size
    BY <1>1 DEF Offset
  <2>2. PICK Q \in SUBSET Interval : Covers(Q, i + 1)
    BY Zenon DEF ConsoleInv, Beyond
  <2>3. <<low, high>> \in Q
    BY Zenon, <1>1, <2>1, <2>2 DEF ConsoleInv, SearchInv
  <2>4. i + 1 <= high
    BY Zenon, <1>1, <2>2, <2>3 DEF Covers
  <2> QED
    BY <1>1, <2>1, <2>4
<1>4. medium' # "none" => medium' = "some" /\ offset' = low /\ low < Size
  BY Zenon DEF Opened
<1>5. medium' = "some" => Beyond(offset)'
  BY <1>1, <1>2, <1>4 DEF Beyond, Covers
<1> QED
  BY <1>1, <1>3, <1>4, <1>5 DEF AppendInv

\* The search in the other steps: there is none, or it starts over.
LEMMA SearchStep == ConsoleInv /\ ConsoleNext => SearchInv'
<1> SUFFICES ASSUME ConsoleInv, ConsoleNext PROVE SearchInv'
  OBVIOUS
<1>1. CASE Probe
  BY Zenon, <1>1, ProbeSearch
<1>2. CASE NextStage \/ Reset
  <2>1. Starting'
    BY Zenon, <1>2 DEF NextStage, Reset, New, Open, Starting
  <2> QED
    BY <2>1, OpenSearch, PTL
<1>3. CASE ProbeFails \/ Opened \/ Push \/ Flush \/ PushFlush \/ Spi \/ Flushed
  <2>1. medium' # "opening"
    <3>1. CASE Spi
      <4>1. step # "idle" /\ medium' = medium
        BY Zenon, <3>1 DEF Spi, SpiStep, Enable, ReadStatus, Unprotect, WriteChunk,
           Written, Protect, Disable, log
      <4> QED
        BY Zenon, <4>1 DEF ConsoleInv, SearchInv
    <3>2. CASE ~Spi
      BY Zenon, <1>3, <3>2 DEF ProbeFails, Opened, Push, Flush, PushFlush,
         Flushed
    <3> QED
      BY Zenon, <3>1, <3>2
  <2> QED
    BY Zenon, <2>1 DEF SearchInv
<1> QED
  BY Zenon, <1>1, <1>2, <1>3 DEF ConsoleNext

\* The bytes a completed flush has programmed.
LEMMA FlushedBeyond ==
    ASSUME ConsoleInv, Flushed, spiResult = "ok"
    PROVE  Beyond(end)
<1>1. Beyond(offset) /\ at = end /\ offset \in 0 .. Size /\ end \in 0 .. Size
  BY Zenon DEF Flushed, ConsoleInv, AppendInv, ConsoleTypeOK, SpiTypeOK
<1>2. \A i \in offset .. end - 1 : flash[i] # "erased"
  BY Zenon, <1>1 DEF Flushed, ConsoleInv, AppendInv
<1> QED
  BY Zenon, <1>1, <1>2, BeyondLonger

\* A search that gets as far as e gets to every place before it.
LEMMA BeyondLess ==
    ASSUME NEW e \in 0 .. Size, NEW d \in 0 .. Size, d <= e, Beyond(e)
    PROVE  Beyond(d)
  BY DEF Beyond, Covers

\* Every completed line stays before the end that a search finds.
LEMMA KeptStep ==
    ASSUME ConsoleInv, ConsoleNext, NEW i \in kept'
    PROVE  Beyond(i + 1)'
<1>1. \A j \in Offset : flash[j] # "erased" => flash'[j] # "erased"
  BY Zenon, FlashStep
<1>2. kept \subseteq Offset /\ offset \in 0 .. Size /\ end \in 0 .. Size
  BY Zenon DEF ConsoleInv, ConsoleTypeOK, SpiTypeOK
<1>3. CASE i \in kept
  <2>1. i + 1 \in 0 .. Size /\ Beyond(i + 1)
    BY <1>2, <1>3 DEF ConsoleInv, Offset
  <2> QED
    BY Zenon, <1>1, <2>1, BeyondKept
<1>4. CASE i \notin kept
  <2>1. Flushed /\ spiResult = "ok" /\ i \in offset .. end - 1
    BY Zenon, <1>4 DEF ConsoleNext, Probe, ProbeFails, Opened, Push, Flush,
       PushFlush, Spi, Flushed, NextStage, Reset
  <2>2. i + 1 \in 0 .. Size /\ i + 1 <= end
    BY <1>2, <2>1
  <2>3. Beyond(i + 1)
    BY Zenon, <1>2, <2>1, <2>2, FlushedBeyond, BeyondLess
  <2> QED
    BY Zenon, <1>1, <2>2, <2>3, BeyondKept
<1> QED
  BY Zenon, <1>3, <1>4

\* Where the log ends and how far a call is.
LEMMA AppendStep == ConsoleInv /\ ConsoleNext => AppendInv'
<1> SUFFICES ASSUME ConsoleInv, ConsoleNext PROVE AppendInv'
  OBVIOUS
<1>1. \A j \in Offset : flash[j] # "erased" => flash'[j] # "erased"
  BY Zenon, FlashStep
<1>2. /\ kept \subseteq Offset /\ offset \in 0 .. Size /\ length \in Nat
      /\ at \in 0 .. Size /\ end \in 0 .. Size /\ AppendInv
  BY DEF ConsoleInv, ConsoleTypeOK, SpiTypeOK
<1>3. ASSUME offset' = offset, Beyond(offset)
      PROVE  Beyond(offset)'
  <2>1. Beyond(offset') <=> Beyond(offset)
    BY Zenon, <1>3
  <2> QED
    BY Zenon, <1>1, <1>2, <1>3, BeyondKept DEF Beyond, Covers
<1>4. CASE Probe \/ ProbeFails
  <2>1. step' = "idle" /\ medium' # "some"
    BY Zenon, <1>4 DEF Probe, ProbeFails, Searching, spiVars, ConsoleInv,
       SearchInv
  <2> QED
    BY Zenon, <2>1 DEF AppendInv
<1>5. CASE Opened
  BY Zenon, <1>5, OpenedAppend
<1>6. CASE NextStage \/ Reset
  BY Zenon, <1>6 DEF NextStage, Reset, New, Open, AppendInv
<1>7. CASE Push
  <2>1. /\ step' = "idle" /\ medium' = "some" /\ medium = "some" /\ offset' = offset
        /\ kept' = kept /\ length' = length + 1 /\ offset + length + 1 < Size
    BY Zenon, <1>7 DEF Push, spiVars
  <2> QED
    BY <1>2, <1>3, <2>1 DEF AppendInv
<1>8. CASE Flush \/ PushFlush
  <2>1. /\ step' # "idle" /\ medium' = "some" /\ medium = "some" /\ offset' = offset
        /\ kept' = kept /\ at' = offset /\ end' \in {offset + length, offset + (length + 1)}
        /\ spiResult' # "ok" /\ length' = 0
    BY Zenon, <1>8 DEF Flush, PushFlush, Program
  <2> QED
    BY <1>2, <1>3, <2>1 DEF AppendInv
<1>9. CASE Flushed
  <2>1. CASE spiResult = "ok"
    <3>1. /\ step' = "idle" /\ offset' = end /\ kept' = kept \cup offset .. end - 1
          /\ medium' = "some" => end < Size
          /\ length' = 0 /\ flash' = flash /\ medium = "some" /\ offset <= end
      BY Zenon, <1>2, <1>9, <2>1 DEF Flushed, AppendInv
    <3>2. Beyond(offset)'
      BY Zenon, <1>9, <2>1, <3>1, FlushedBeyond DEF Beyond, Covers
    <3>3. \A i \in kept' : i < end
      BY <1>2, <3>1 DEF AppendInv, Offset
    <3> QED
      BY <1>2, <3>1, <3>2, <3>3 DEF AppendInv
  <2>2. CASE spiResult # "ok"
    BY Zenon, <1>9, <2>2 DEF Flushed, AppendInv
  <2> QED
    BY Zenon, <2>1, <2>2
<1>10. CASE Spi
  <2>1. /\ step # "idle" /\ step' # "idle" /\ UNCHANGED <<log, kept, end>>
    BY Zenon, <1>10 DEF Spi, SpiStep, Enable, ReadStatus, Unprotect, WriteChunk,
       Written, Protect, Disable, AfterOperation, spiCall
  <2>2. /\ medium' = "some" /\ length' = 0 /\ offset' = offset /\ Beyond(offset)
        /\ \A i \in kept' : i < offset
    BY Zenon, <1>2, <2>1 DEF AppendInv, log
  <2>3. CASE WriteChunk /\ at' # at
    <3>1. /\ step = "chunk" /\ step' = "chunk" /\ at < end /\ flash' = Programmed(NextChunk)
          /\ at' = at + Count /\ spiResult' = spiResult
      BY Zenon, <2>3 DEF WriteChunk
    <3>2. Count \in Nat /\ at + Count <= end /\ NextChunk \subseteq Offset
      BY <1>2, <3>1, ChunkIn DEF ConsoleInv
    <3>3. \A i \in offset .. at' - 1 : flash'[i] # "erased"
      <4> SUFFICES ASSUME NEW i \in offset .. at' - 1 PROVE flash'[i] # "erased"
        OBVIOUS
      <4>1. i \in Offset /\ (i \in offset .. at - 1 \/ i \in NextChunk)
        BY <1>2, <3>1, <3>2 DEF NextChunk, Offset
      <4>2. CASE i \in offset .. at - 1
        <5>1. flash[i] # "erased"
          BY Zenon, <1>2, <3>1, <4>2 DEF AppendInv
        <5> QED
          BY Zenon, <1>1, <2>1, <4>1, <5>1
      <4>3. CASE i \in NextChunk
        BY Zenon, <3>1, <3>2, <4>3, ProgrammedKeeps DEF ConsoleInv
      <4> QED
        BY Zenon, <4>1, <4>2, <4>3
    <3>4. spiResult # "ok"
      BY <1>2, <3>1 DEF AppendInv
    <3> QED
      BY SMTT(30), <1>2, <1>3, <2>1, <2>2, <3>1, <3>2, <3>3, <3>4 DEF AppendInv
  <2>4. CASE ~(WriteChunk /\ at' # at)
    <3>1. at' = at
      BY Zenon, <1>10, <2>4 DEF Spi, SpiStep, Enable, ReadStatus, Unprotect, Written,
         Protect, Disable,
         spiCall
    <3>2. \A i \in offset .. at - 1 : flash'[i] # "erased"
      BY <1>1, <1>2, <2>1 DEF AppendInv, Offset
    <3>3. /\ step' \in {"enable", "status", "unprotect"} => step \in {"enable", "status"}
          /\ spiResult' = "ok" => at = end \/ spiResult = "ok"
      BY Zenon, <1>10 DEF Spi, SpiStep, Enable, ReadStatus, Unprotect, WriteChunk,
         Written, Protect, Disable, AfterOperation, spiCall
    <3> QED
      BY Zenon, <1>2, <1>3, <2>1, <2>2, <3>1, <3>2, <3>3 DEF AppendInv
  <2> QED
    BY Zenon, <2>3, <2>4
<1> QED
  BY Zenon, <1>4, <1>5, <1>6, <1>7, <1>8, <1>9, <1>10 DEF ConsoleNext

-----------------------------------------------------------------------------
(* The theorems *)

\* An erased region, and a first stage that opens the console.
LEMMA ConsoleInitInv == ConsoleInit => ConsoleInv
<1> SUFFICES ASSUME ConsoleInit PROVE ConsoleInv
  OBVIOUS
<1>1. ConsoleTypeOK
  <2>1. SpiTypeOK
    <3>1. flash \in [Offset -> NorByte]
      BY Zenon DEF ConsoleInit, SpiInit, NorByte
    <3>2. /\ we \in BOOLEAN /\ bp \in BOOLEAN /\ lock \in BOOLEAN
          /\ weBefore \in BOOLEAN /\ bpBefore \in BOOLEAN
      BY Zenon DEF ConsoleInit, SpiInit
    <3> QED
      BY <3>1, <3>2 DEF ConsoleInit, SpiInit, SpiTypeOK
  <2> QED
    BY <2>1 DEF ConsoleInit, ConsoleTypeOK
<1>2. SearchInv
  BY Zenon, OpenSearch DEF ConsoleInit, SpiInit, Starting
<1> QED
  BY Zenon, <1>1, <1>2 DEF ConsoleInit, SpiInit, ConsoleInv, CallInv, AppendInv

\* Every step preserves the invariant.
LEMMA ConsoleStep == ConsoleInv /\ [ConsoleNext]_consoleVars => ConsoleInv'
<1>1. ASSUME ConsoleInv, ConsoleNext PROVE ConsoleInv'
  BY Zenon, <1>1, ConsoleType, CallStep, KeptStep, SearchStep, AppendStep DEF
     ConsoleInv
<1>2. ASSUME ConsoleInv, UNCHANGED consoleVars PROVE ConsoleInv'
  <2> USE DEF consoleVars, spiVars, spiRegs, spiCall, log
  <2>1. ConsoleTypeOK' /\ CallInv'
    <3>1. /\ flash' = flash /\ we' = we /\ bp' = bp /\ lock' = lock
          /\ step' = step /\ at' = at /\ end' = end
          /\ weBefore' = weBefore /\ bpBefore' = bpBefore
          /\ spiResult' = spiResult /\ restored' = restored
      BY Zenon, <1>2
    <3>2. ConsoleTypeOK /\ SpiTypeOK /\ CallInv
      BY Zenon, <1>2 DEF ConsoleInv, ConsoleTypeOK
    <3>3. SpiTypeOK'
      BY ZenonT(30), <3>1, <3>2 DEF SpiTypeOK
    <3>4. ConsoleTypeOK'
      BY Zenon, <1>2, <3>2, <3>3 DEF ConsoleTypeOK
    <3>5. CallInv'
      BY Zenon, <3>1, <3>2 DEF CallInv
    <3> QED
      BY Zenon, <3>4, <3>5
  <2>2. \A e : Beyond(e)' <=> Beyond(e)
    BY <1>2 DEF Beyond, Covers
  <2>3. SearchInv'
    BY ZenonT(30), <1>2 DEF ConsoleInv, SearchInv, Covers, Trail
  <2>4. AppendInv'
    BY <1>2 DEF ConsoleInv, AppendInv, Beyond, Covers
  <2> QED
    BY Zenon, <1>2, <2>1, <2>2, <2>3, <2>4 DEF ConsoleInv
<1> QED
  BY Zenon, <1>1, <1>2

\* The invariant of the flash console over the SPI controller (Log, CacheSpi).
THEOREM ConsoleCorrect == ConsoleSpec => []ConsoleInv
  BY ConsoleInitInv, ConsoleStep, PTL DEF ConsoleSpec

\* A write that reports success has restored the write enable and the block
\* protection, and one that could not says so (with_write, unprotected).
THEOREM ProtectionRestoredHolds == ConsoleSpec => []ProtectionRestored
<1>1. ConsoleInv => ProtectionRestored
  BY Zenon DEF ConsoleInv, CallInv, ProtectionRestored
<1> QED
  BY <1>1, ConsoleCorrect, PTL

\* No completed output is ever programmed again (Log::open, Log::flush).
THEOREM KeptForeverHolds == ConsoleSpec => KeptForever
<1>1. ConsoleInv /\ [ConsoleNext]_consoleVars
        => [\A i \in kept : flash'[i] = flash[i]]_consoleVars
  <2> SUFFICES ASSUME ConsoleInv, ConsoleNext, NEW i \in kept PROVE flash'[i] = flash[i]
    OBVIOUS
  <2>1. i \in Offset
    BY Zenon DEF ConsoleInv, ConsoleTypeOK
  <2>2. step = "chunk" => i < offset /\ offset <= at
    BY Zenon DEF ConsoleInv, AppendInv
  <2>3. i \in Int /\ offset \in Int /\ at \in Int
    BY <2>1 DEF ConsoleInv, ConsoleTypeOK, SpiTypeOK, Offset
  <2> QED
    BY <2>1, <2>2, <2>3, FlashStep
<1> QED
  BY <1>1, ConsoleCorrect, PTL DEF ConsoleSpec, KeptForever

=============================================================================
