-------------------------- MODULE MpScopeProofs --------------------------
(***************************************************************************)
(* Proofs about the work the boot CPU runs on all CPUs through an          *)
(* MpHandle, for any number of APs.                                        *)
(*                                                                         *)
(* MtrrWc, for any sharing of MTRRs: the caches are off while MTRRs        *)
(* change, a CPU that does not match the plan stops all of them, and Ok    *)
(* means installed.  WcInv is its inductive invariant.                     *)
(*                                                                         *)
(* MpDispatch, for any number of calls: no AP uses a closure after its     *)
(* call, a successful park leaves every AP halted, and the mailboxes       *)
(* implement ScopeWork.  BspInv says what the boot CPU's place in a method *)
(* implies, MailInv what one mailbox, its AP and the boot CPU's loop have  *)
(* to do with each other.                                                  *)
(***************************************************************************)
EXTENDS MpDispatch, MtrrWc, TLAPS

-----------------------------------------------------------------------------
(* MtrrWc: what holds at each place of the closure *)

\* CPU c has arrived at barrier i.
Reached(c, i) == stage[c] > i \/ (stage[c] = i /\ at[c] = "wait")

\* A counter holds the CPUs that have arrived, and holds all of them when one
\* has gone on.
Barriers ==
    /\ \A i \in Barrier, c \in CPU : c \in phases[i] => Reached(c, i)
    /\ \A i \in Barrier, c \in CPU : stage[c] > i => phases[i] = CPU

\* The phase each place of the closure belongs to.
Places ==
    \A c \in CPU :
        /\ at[c] \in {"idle", "preflight"} => stage[c] = 0
        /\ at[c] \in {"decide", "off"} => stage[c] = 1
        /\ at[c] = "disable" => stage[c] = 2
        /\ at[c] \in {"clear", "set"} => stage[c] = 3
        /\ at[c] = "restore" => stage[c] = 4
        /\ at[c] \in {"verify", "on"} => stage[c] = 5
        /\ at[c] \in {"arrive", "wait"} => stage[c] < 5
        /\ at[c] = "done" => stage[c] \in {1, 5}
        /\ call = "plan" => at[c] = "idle"
        /\ call = "Ok" => at[c] = "done" \/ (at[c] = "idle" /\ empty)

\* The cache is off from CacheOff to CacheOn.
Uncached(c) == \/ stage[c] >= 2 /\ at[c] # "done"
               \/ stage[c] = 1 /\ at[c] \in {"arrive", "wait"}

CacheState == \A c \in CPU : cached[c] <=> ~Uncached(c)

\* CPU c has gone on with the update, or out of it.
GoesOn(c) == Uncached(c) \/ at[c] = "off" \/ stage[c] = 5
Leaves(c) == at[c] = "done" /\ stage[c] = 1

\* Before the verification `failed` says that some CPU did not match, so all
\* CPUs decide alike.
Decision ==
    /\ \A c \in CPU : ~matches[c] => failed
    /\ failed => (\E c \in CPU : ~matches[c]) \/ (\E c \in CPU : stage[c] = 5)
    /\ \A c \in CPU : GoesOn(c) => ~empty /\ \A d \in CPU : matches[d]
    /\ \A c \in CPU : Leaves(c) => empty \/ failed
    /\ \A c \in CPU : Leaves(c) => empty \/ \E d \in CPU : ~matches[d]

\* What each phase knows of the registers of its core.
Registers ==
    /\ \A k \in Core : (\A c \in CPU : stage[c] < 2 \/ at[c] = "disable")
                            => enabled[k] /\ mtrrs[k] = "old"
    /\ \A c \in CPU : /\ stage[c] = 2 /\ at[c] # "disable" => ~enabled[core[c]]
                      /\ stage[c] = 3 /\ at[c] # "wait" => ~enabled[core[c]]
                      /\ stage[c] = 4 /\ at[c] # "restore" => enabled[core[c]]
                      /\ stage[c] = 5 => enabled[core[c]]
                      /\ stage[c] = 5 /\ at[c] # "verify" /\ ~failed
                             => mtrrs[core[c]] = "new"
    /\ \A k \in Core : mtrrs[k] = "half" =>
                           \E c \in CPU : core[c] = k /\ at[c] = "set"
    /\ \A k \in deaf : mtrrs[k] = "old"
    /\ call \in {"plan", "Ok"} => ~failed

WcInv == WcTypeOK /\ Barriers /\ Places /\ CacheState /\ Decision /\ Registers

-----------------------------------------------------------------------------
(* MtrrWc: the invariant is inductive *)

USE DEF plan, registers, Goto

\* The plan starts the closures with nothing changed.
LEMMA PlanStep == ASSUME WcInv, Plan PROVE WcInv'
<1>0. WcTypeOK /\ Barriers /\ Places /\ CacheState /\ Decision /\ Registers
  BY Zenon DEF WcInv
<1>1. empty' \in BOOLEAN /\ (call' = "Ok" => empty')
  BY Zenon, <1>0 DEF Plan, WcTypeOK
<1>2. WcTypeOK'
  BY <1>0, <1>1 DEF Plan, WcTypeOK, Barrier
<1>3. Barriers'
  BY Zenon, <1>0, <1>1 DEF Plan, WcTypeOK, Barrier, Barriers, Reached, Places
<1>4. (Places /\ CacheState)'
  BY <1>0, <1>1 DEF Plan, WcTypeOK, Barrier, Places, CacheState, Uncached
<1>5. Decision'
  BY <1>0, <1>1 DEF Plan, WcTypeOK, Barrier, Places, Decision, GoesOn, Leaves, Uncached
<1>6. Registers'
  BY <1>0, <1>1 DEF Plan, WcTypeOK, Barrier, Places, Registers
<1> QED
  BY Zenon, <1>2, <1>3, <1>4, <1>5, <1>6 DEF WcInv

\* The call returns when every CPU has come out.
LEMMA ReturnStep == ASSUME WcInv, Return PROVE WcInv'
<1>0. WcTypeOK /\ Barriers /\ Places /\ CacheState /\ Decision /\ Registers
  BY Zenon DEF WcInv
<1>1. WcTypeOK'
  BY Zenon, <1>0 DEF Return, WcTypeOK, Barrier
<1>2. Barriers'
  BY Zenon, <1>0 DEF Return, WcTypeOK, Barrier, Barriers, Reached
<1>3. (Places /\ CacheState)'
  BY <1>0 DEF Return, WcTypeOK, Barrier, Places, CacheState, Uncached
<1>4. Decision'
  BY Zenon, <1>0 DEF Return, WcTypeOK, Barrier, Places, Decision, GoesOn,
     Leaves, Uncached
<1>5. Registers'
  BY <1>0 DEF Return, WcTypeOK, Barrier, Places, Registers
<1> QED
  BY Zenon, <1>1, <1>2, <1>3, <1>4, <1>5 DEF WcInv

\* A preflight sets `failed` with its own mismatch.
LEMMA PreflightStep == ASSUME WcInv, NEW c \in CPU, Preflight(c) PROVE WcInv'
<1>0. WcTypeOK /\ Barriers /\ Places /\ CacheState /\ Decision /\ Registers
  BY Zenon DEF WcInv
<1>1. CASE UNCHANGED <<matches, failed>>
  <2>1. WcTypeOK'
    BY Zenon, <1>0, <1>1 DEF Preflight, WcTypeOK, Barrier
  <2>2. Barriers'
    BY <1>0, <1>1 DEF Preflight, WcTypeOK, Barrier, Barriers, Reached
  <2>3. (Places /\ CacheState)'
    BY <1>0, <1>1 DEF Preflight, WcTypeOK, Barrier, Places, CacheState, Uncached
  <2>4. Decision'
    BY <1>0, <1>1 DEF Preflight, WcTypeOK, Barrier, Places, Decision, GoesOn, Leaves,
       Uncached
  <2>5. Registers'
    BY <1>0, <1>1 DEF Preflight, WcTypeOK, Barrier, Places, Registers
  <2> QED
    BY Zenon, <2>1, <2>2, <2>3, <2>4, <2>5 DEF WcInv
<1>2. CASE matches' = [matches EXCEPT ![c] = FALSE] /\ failed' = TRUE
  <2>1. failed' \in BOOLEAN /\ failed'
    BY Zenon, <1>2
  <2>2. /\ matches' \in [CPU -> BOOLEAN] /\ ~matches'[c]
        /\ \A d \in CPU : matches'[d] => matches[d]
    BY Zenon, <1>0, <1>2 DEF WcTypeOK
  <2>3. WcTypeOK'
    BY Zenon, <1>0, <2>1, <2>2 DEF Preflight, WcTypeOK, Barrier
  <2>4. Barriers'
    BY <1>0, <2>1, <2>2 DEF Preflight, WcTypeOK, Barrier, Barriers, Reached
  <2>5. (Places /\ CacheState)'
    BY <1>0, <2>1, <2>2 DEF Preflight, WcTypeOK, Barrier, Places, CacheState, Uncached
  <2>6. Decision'
    BY <1>0, <2>1, <2>2 DEF Preflight, WcTypeOK, Barrier, Places, Decision, GoesOn,
       Leaves, Uncached, Barriers, Reached
  <2>7. Registers'
    BY <1>0, <2>1, <2>2 DEF Preflight, WcTypeOK, Barrier, Places, Registers
  <2> QED
    BY Zenon, <2>3, <2>4, <2>5, <2>6, <2>7 DEF WcInv
<1> QED
  BY Zenon, <1>1, <1>2 DEF Preflight

\* Arriving only adds the CPU to the counter.
LEMMA ArriveStep == ASSUME WcInv, NEW c \in CPU, Arrive(c) PROVE WcInv'
<1>0. WcTypeOK /\ Barriers /\ Places /\ CacheState /\ Decision /\ Registers
  BY Zenon DEF WcInv
<1>1. WcTypeOK'
  BY <1>0 DEF Arrive, WcTypeOK, Barrier, Places
<1>2. Barriers'
  BY <1>0 DEF Arrive, WcTypeOK, Barrier, Barriers, Reached, Places
<1>3. (Places /\ CacheState)'
  BY <1>0 DEF Arrive, WcTypeOK, Barrier, Places, CacheState, Uncached
<1>4. Decision'
  BY <1>0 DEF Arrive, WcTypeOK, Barrier, Places, Decision, GoesOn, Leaves, Uncached
<1>5. Registers'
  BY <1>0 DEF Arrive, WcTypeOK, Barrier, Places, Registers
<1> QED
  BY Zenon, <1>1, <1>2, <1>3, <1>4, <1>5 DEF WcInv

\* A CPU passes a barrier at which all the others are.
LEMMA PassStep == ASSUME WcInv, NEW c \in CPU, Pass(c) PROVE WcInv'
<1>0. WcTypeOK /\ Barriers /\ Places /\ CacheState /\ Decision /\ Registers
  BY Zenon DEF WcInv
<1>1. WcTypeOK'
  BY <1>0 DEF Pass, Behind, WcTypeOK, Barrier, Places
<1>2. Barriers'
  BY <1>0 DEF Pass, Behind, WcTypeOK, Barrier, Barriers, Reached, Places
<1>3. (Places /\ CacheState)'
  BY <1>0 DEF Pass, Behind, WcTypeOK, Barrier, Places, CacheState, Uncached
<1>4. Decision'
  BY <1>0 DEF Pass, Behind, WcTypeOK, Barrier, Places, Decision, GoesOn, Leaves,
     Uncached, Barriers, Reached
<1>5. Registers'
  BY <1>0 DEF Pass, Behind, WcTypeOK, Barrier, Places, Registers, Barriers, Reached,
     Decision, GoesOn, Leaves, Uncached
<1> QED
  BY Zenon, <1>1, <1>2, <1>3, <1>4, <1>5 DEF WcInv

\* No CPU is verifying while another one decides.
LEMMA DecideStep == ASSUME WcInv, NEW c \in CPU, Decide(c) PROVE WcInv'
<1>0. WcTypeOK /\ Barriers /\ Places /\ CacheState /\ Decision /\ Registers
  BY Zenon DEF WcInv
<1>1. WcTypeOK'
  BY Zenon, <1>0 DEF Decide, WcTypeOK, Barrier
<1>2. Barriers'
  BY <1>0 DEF Decide, WcTypeOK, Barrier, Barriers, Reached
<1>3. (Places /\ CacheState)'
  BY <1>0 DEF Decide, WcTypeOK, Barrier, Places, CacheState, Uncached
<1>4. Decision'
  BY <1>0 DEF Decide, WcTypeOK, Barrier, Places, Decision, GoesOn, Leaves, Uncached,
     Barriers, Reached
<1>5. Registers'
  BY <1>0 DEF Decide, WcTypeOK, Barrier, Places, Registers, Barriers, Reached
<1> QED
  BY Zenon, <1>1, <1>2, <1>3, <1>4, <1>5 DEF WcInv

\* Turning a cache off changes nothing that is shared.
LEMMA CacheOffStep == ASSUME WcInv, NEW c \in CPU, CacheOff(c) PROVE WcInv'
<1>0. WcTypeOK /\ Barriers /\ Places /\ CacheState /\ Decision /\ Registers
  BY Zenon DEF WcInv
<1>1. WcTypeOK'
  BY Zenon, <1>0 DEF CacheOff, WcTypeOK, Barrier
<1>2. Barriers'
  BY <1>0 DEF CacheOff, WcTypeOK, Barrier, Barriers, Reached
<1>3. (Places /\ CacheState)'
  BY <1>0 DEF CacheOff, WcTypeOK, Barrier, Places, CacheState, Uncached
<1>4. Decision'
  BY <1>0 DEF CacheOff, WcTypeOK, Barrier, Places, Decision, GoesOn, Leaves, Uncached,
     Barriers, Reached
<1>5. Registers'
  BY <1>0 DEF CacheOff, WcTypeOK, Barrier, Places, Registers
<1> QED
  BY Zenon, <1>1, <1>2, <1>3, <1>4, <1>5 DEF WcInv

\* Nor does turning it on.
LEMMA CacheOnStep == ASSUME WcInv, NEW c \in CPU, CacheOn(c) PROVE WcInv'
<1>0. WcTypeOK /\ Barriers /\ Places /\ CacheState /\ Decision /\ Registers
  BY Zenon DEF WcInv
<1>1. WcTypeOK'
  BY Zenon, <1>0 DEF CacheOn, WcTypeOK, Barrier
<1>2. Barriers'
  BY <1>0 DEF CacheOn, WcTypeOK, Barrier, Barriers, Reached
<1>3. (Places /\ CacheState)'
  BY <1>0 DEF CacheOn, WcTypeOK, Barrier, Places, CacheState, Uncached
<1>4. Decision'
  BY <1>0 DEF CacheOn, WcTypeOK, Barrier, Places, Decision, GoesOn, Leaves, Uncached,
     Barriers, Reached
<1>5. Registers'
  BY <1>0 DEF CacheOn, WcTypeOK, Barrier, Places, Registers
<1> QED
  BY Zenon, <1>1, <1>2, <1>3, <1>4, <1>5 DEF WcInv

\* Nobody has restored the registers that are being disabled.
LEMMA DisableStep == ASSUME WcInv, NEW c \in CPU, Disable(c) PROVE WcInv'
<1>0. WcTypeOK /\ Barriers /\ Places /\ CacheState /\ Decision /\ Registers
  BY Zenon DEF WcInv
<1>1. \A d \in CPU : stage[d] <= 2
  BY <1>0 DEF Disable, WcTypeOK, Barrier, Barriers, Reached, Places
<1>2. WcTypeOK'
  BY Zenon, <1>0, <1>1, WcAssumption DEF Disable, WcTypeOK, Barrier
<1>3. Barriers'
  BY <1>0, <1>1, WcAssumption DEF Disable, WcTypeOK, Barrier, Barriers, Reached
<1>4. (Places /\ CacheState)'
  BY <1>0, <1>1, WcAssumption DEF Disable, WcTypeOK, Barrier, Places, CacheState,
     Uncached
<1>5. Decision'
  BY <1>0, <1>1, WcAssumption DEF Disable, WcTypeOK, Barrier, Places, Decision, GoesOn,
     Leaves, Uncached
<1>6. Registers'
  BY <1>0, <1>1, WcAssumption DEF Disable, WcTypeOK, Barrier, Places, Registers
<1> QED
  BY Zenon, <1>2, <1>3, <1>4, <1>5, <1>6 DEF WcInv

\* The core of a CPU that clears a mask is disabled.
LEMMA ClearMaskStep == ASSUME WcInv, NEW c \in CPU, ClearMask(c) PROVE WcInv'
<1>0. WcTypeOK /\ Barriers /\ Places /\ CacheState /\ Decision /\ Registers
  BY Zenon DEF WcInv
<1>1. WcTypeOK'
  BY Zenon, <1>0 DEF ClearMask, Write, WcTypeOK, Barrier
<1>2. Barriers'
  BY <1>0 DEF ClearMask, Write, WcTypeOK, Barrier, Barriers, Reached
<1>3. (Places /\ CacheState)'
  BY <1>0 DEF ClearMask, Write, WcTypeOK, Barrier, Places, CacheState, Uncached
<1>4. Decision'
  BY <1>0 DEF ClearMask, Write, WcTypeOK, Barrier, Places, Decision, GoesOn, Leaves,
     Uncached
<1>5. Registers'
  BY <1>0 DEF ClearMask, Write, WcTypeOK, Barrier, Places, Registers, Barriers, Reached,
     Decision
<1> QED
  BY Zenon, <1>1, <1>2, <1>3, <1>4, <1>5 DEF WcInv

\* So is that of a CPU that sets one.
LEMMA SetMaskStep == ASSUME WcInv, NEW c \in CPU, SetMask(c) PROVE WcInv'
<1>0. WcTypeOK /\ Barriers /\ Places /\ CacheState /\ Decision /\ Registers
  BY Zenon DEF WcInv
<1>1. WcTypeOK'
  BY Zenon, <1>0 DEF SetMask, Write, WcTypeOK, Barrier
<1>2. Barriers'
  BY <1>0 DEF SetMask, Write, WcTypeOK, Barrier, Barriers, Reached
<1>3. (Places /\ CacheState)'
  BY <1>0 DEF SetMask, Write, WcTypeOK, Barrier, Places, CacheState, Uncached
<1>4. Decision'
  BY <1>0 DEF SetMask, Write, WcTypeOK, Barrier, Places, Decision, GoesOn, Leaves,
     Uncached
<1>5. Registers'
  BY <1>0 DEF SetMask, Write, WcTypeOK, Barrier, Places, Registers, Barriers, Reached,
     Decision
<1> QED
  BY Zenon, <1>1, <1>2, <1>3, <1>4, <1>5 DEF WcInv

\* Nobody is in the phase that wants the registers disabled.
LEMMA RestoreStep == ASSUME WcInv, NEW c \in CPU, Restore(c) PROVE WcInv'
<1>0. WcTypeOK /\ Barriers /\ Places /\ CacheState /\ Decision /\ Registers
  BY Zenon DEF WcInv
<1>1. \A d \in CPU : stage[d] = 4 \/ (stage[d] = 3 /\ at[d] = "wait")
  BY <1>0 DEF Restore, WcTypeOK, Barrier, Barriers, Reached, Places
<1>2. WcTypeOK'
  BY Zenon, <1>0, <1>1, WcAssumption DEF Restore, WcTypeOK, Barrier
<1>3. Barriers'
  BY <1>0, <1>1, WcAssumption DEF Restore, WcTypeOK, Barrier, Barriers, Reached
<1>4. (Places /\ CacheState)'
  BY <1>0, <1>1, WcAssumption DEF Restore, WcTypeOK, Barrier, Places, CacheState,
     Uncached
<1>5. Decision'
  BY <1>0, <1>1, WcAssumption DEF Restore, WcTypeOK, Barrier, Places, Decision, GoesOn,
     Leaves, Uncached
<1>6. Registers'
  BY <1>0, <1>1, WcAssumption DEF Restore, WcTypeOK, Barrier, Places, Registers
<1> QED
  BY Zenon, <1>2, <1>3, <1>4, <1>5, <1>6 DEF WcInv

\* The registers no longer change when they are verified.
LEMMA VerifyStep == ASSUME WcInv, NEW c \in CPU, Verify(c) PROVE WcInv'
<1>0. WcTypeOK /\ Barriers /\ Places /\ CacheState /\ Decision /\ Registers
  BY Zenon DEF WcInv
<1>1. failed' \in BOOLEAN /\ (failed => failed') /\ (~failed' => mtrrs[core[c]] = "new")
  BY Zenon, <1>0 DEF Verify, WcTypeOK
<1>2. WcTypeOK'
  BY Zenon, <1>0, <1>1 DEF Verify, WcTypeOK, Barrier
<1>3. Barriers'
  BY <1>0, <1>1 DEF Verify, WcTypeOK, Barrier, Barriers, Reached
<1>4. (Places /\ CacheState)'
  BY <1>0, <1>1 DEF Verify, WcTypeOK, Barrier, Places, CacheState, Uncached
<1>5. Decision'
  BY <1>0, <1>1 DEF Verify, WcTypeOK, Barrier, Places, Decision, GoesOn, Leaves,
     Uncached, Barriers, Reached
<1>6. Registers'
  BY <1>0, <1>1 DEF Verify, WcTypeOK, Barrier, Places, Registers, Barriers, Reached
<1> QED
  BY Zenon, <1>2, <1>3, <1>4, <1>5, <1>6 DEF WcInv

-----------------------------------------------------------------------------
(* MtrrWc: the theorems *)

\* The invariant holds at the start and is kept by every step.
THEOREM WcInvariance == WcSpec => []WcInv
<1>1. WcInit => WcInv
  <2> SUFFICES ASSUME WcInit PROVE WcInv
    OBVIOUS
  <2>1. empty \in BOOLEAN /\ failed \in BOOLEAN /\ ~failed
    BY Zenon DEF WcInit
  <2>2. WcTypeOK
    BY <2>1 DEF WcInit, WcTypeOK, Barrier
  <2>3. Barriers /\ Places
    BY <2>1 DEF WcInit, Barrier, Barriers, Reached, Places
  <2>4. CacheState /\ Decision
    BY <2>1 DEF WcInit, CacheState, Uncached, Decision, GoesOn, Leaves
  <2>5. Registers
    BY <2>1 DEF WcInit, Registers
  <2> QED
    BY Zenon, <2>2, <2>3, <2>4, <2>5 DEF WcInv
<1>2. WcInv /\ [WcNext]_wcVars => WcInv'
  <2> SUFFICES ASSUME WcInv, [WcNext]_wcVars PROVE WcInv'
    OBVIOUS
  <2>1. CASE UNCHANGED wcVars
    <3>1. (WcTypeOK /\ Barriers /\ Places)'
      BY <2>1 DEF wcVars, WcInv, WcTypeOK, Barriers, Reached, Places
    <3>2. (CacheState /\ Decision /\ Registers)'
      BY <2>1 DEF wcVars, WcInv, CacheState, Uncached, Decision, GoesOn, Leaves,
         Registers
    <3> QED
      BY Zenon, <3>1, <3>2 DEF WcInv
  <2>2. CASE Plan \/ Return
    BY Zenon, <2>2, PlanStep, ReturnStep
  <2>3. CASE \E c \in CPU : Update(c)
    BY Zenon, <2>3, PreflightStep, ArriveStep, PassStep, DecideStep, CacheOffStep,
       CacheOnStep, DisableStep, ClearMaskStep, SetMaskStep, RestoreStep, VerifyStep
       DEF Update
  <2> QED
    BY Zenon, <2>1, <2>2, <2>3 DEF WcNext
<1> QED
  BY <1>1, <1>2, PTL DEF WcSpec

\* Every variable of the update stays in its type.
THEOREM WcTypeSafety == WcSpec => []WcTypeOK
<1>1. WcInv => WcTypeOK
  BY Zenon DEF WcInv
<1> QED
  BY <1>1, WcInvariance, PTL

\* A CPU with its cache on has its MTRRs enabled and whole, for any sharing of
\* MTRRs between threads.
THEOREM CachedOnlySettledHolds == WcSpec => []CachedOnlySettled
<1>1. WcInv => CachedOnlySettled
  <2> SUFFICES ASSUME WcInv, NEW c \in CPU, cached[c]
               PROVE  enabled[core[c]] /\ mtrrs[core[c]] # "half"
    BY Zenon DEF CachedOnlySettled
  <2>0. WcTypeOK /\ Barriers /\ Places /\ CacheState /\ Decision /\ Registers
    BY Zenon DEF WcInv
  <2>1. CASE stage[c] = 5
    <3>1. \A d \in CPU : at[d] # "set"
      BY <2>0, <2>1 DEF WcTypeOK, Barrier, Barriers, Reached, Places
    <3> QED
      BY <2>0, <2>1, <3>1, WcAssumption DEF Registers
  <2>2. CASE stage[c] # 5
    <3>1. \A d \in CPU : stage[d] < 2
      BY <2>0, <2>2 DEF WcTypeOK, Barrier, Barriers, Reached, Places, CacheState,
         Uncached
    <3> QED
      BY <2>0, <3>1, WcAssumption DEF Registers
  <2> QED
    BY Zenon, <2>1, <2>2
<1> QED
  BY <1>1, WcInvariance, PTL

\* One CPU that does not match the plan keeps every register as it was.
THEOREM PreflightBindsHolds == WcSpec => []PreflightBinds
<1>1. WcInv => PreflightBinds
  BY DEF WcInv, WcTypeOK, Places, Decision, GoesOn, Uncached, Registers, PreflightBinds
<1> QED
  BY <1>1, WcInvariance, PTL

\* Ok is returned only with the plan in the registers of every core.
THEOREM OkMeansInstalledHolds == WcSpec => []OkMeansInstalled
<1>1. WcInv => OkMeansInstalled
  <2> SUFFICES ASSUME WcInv, call = "Ok", ~empty, NEW k \in Core
               PROVE  mtrrs[k] = "new"
    BY Zenon DEF OkMeansInstalled
  <2>0. WcTypeOK /\ Places /\ Decision /\ Registers
    BY Zenon DEF WcInv
  <2>1. PICK c \in CPU : core[c] = k
    BY Zenon, WcAssumption
  <2>2. ~failed /\ at[c] = "done"
    BY Zenon, <2>0 DEF Places, Registers
  <2>3. stage[c] = 5
    BY Zenon, <2>0, <2>2 DEF Places, Decision, Leaves
  <2> QED
    BY Zenon, <2>0, <2>1, <2>2, <2>3 DEF Registers
<1> QED
  BY <1>1, WcInvariance, PTL

\* No step changes an MTRR while some CPU of the machine has its cache on.
THEOREM ChangedUncachedHolds == WcSpec => ChangedUncached
<1>1. WcInv /\ [WcNext]_wcVars =>
        [mtrrs' # mtrrs \/ enabled' # enabled => \A c \in CPU : ~cached[c]]_wcVars
  <2> SUFFICES ASSUME WcInv, WcNext, mtrrs' # mtrrs \/ enabled' # enabled,
                      NEW d \in CPU
               PROVE  ~cached[d]
    BY Zenon DEF wcVars
  <2>1. PICK c \in CPU : \/ Disable(c) \/ ClearMask(c) \/ SetMask(c) \/ Restore(c)
    BY DEF WcNext, Plan, Return, Update, Preflight, Arrive, Pass, Decide, CacheOff,
           Verify, CacheOn, registers
  <2>2. stage[c] \in 2..4 /\ at[c] \in {"disable", "clear", "set", "restore"}
    BY <2>1 DEF WcInv, Places, Disable, ClearMask, SetMask, Restore
  <2>3. Reached(d, 1)
    BY <2>2 DEF WcInv, WcTypeOK, Barrier, Barriers
  <2>4. stage[d] # 5
    BY <2>2 DEF WcInv, WcTypeOK, Barrier, Barriers, Reached
  <2> QED
    BY <2>3, <2>4 DEF WcInv, WcTypeOK, Places, CacheState, Reached, Uncached
<1> QED
  BY <1>1, WcInvariance, PTL DEF WcSpec, ChangedUncached

\* No step changes a mask of a core whose MTRRs are enabled.
THEOREM MasksChangeDisabledHolds == WcSpec => MasksChangeDisabled
<1>1. WcInv /\ [WcNext]_wcVars =>
        [\A k \in Core : mtrrs'[k] # mtrrs[k] => ~enabled[k]]_wcVars
  <2> SUFFICES ASSUME WcInv, WcNext, NEW k \in Core, mtrrs'[k] # mtrrs[k]
               PROVE  ~enabled[k]
    BY Zenon DEF wcVars
  <2>1. PICK c \in CPU : ClearMask(c) \/ SetMask(c)
    BY Zenon DEF WcNext, Plan, Return, Update, Preflight, Arrive, Pass, Decide,
       CacheOff, Disable, Restore, Verify, CacheOn, registers
  <2>2. core[c] = k /\ at[c] \in {"clear", "set"}
    BY <2>1, WcAssumption DEF WcInv, WcTypeOK, ClearMask, SetMask, Write
  <2> QED
    BY Zenon, <2>2 DEF WcInv, Places, Registers
<1> QED
  BY <1>1, WcInvariance, PTL DEF WcSpec, MasksChangeDisabled

-----------------------------------------------------------------------------
(* MpDispatch: what holds at each place of a method and of an AP *)

Busy == {"got", "call", "run", "meet", "done"}
ParkCall == {"park", "park_wait", "handoff", "handoff_wait", "payload"}

BspInv ==
    /\ bsp \in InCall => calls # 0 /\ parked = "no"
    /\ bsp \in {"data", "func", "wait"} => todo # {} /\ todo \subseteq target
    /\ bsp = "wait" => kind[calls] # "rendezvous"
    /\ bsp \in {"self", "run", "meet", "wait_again"}
         => kind[calls] \in {"scatter", "rendezvous"}

\* A trampoline in mailbox m is one of the current call, and the boot CPU has
\* not yet passed the wait for it.
Awaited(m) ==
    /\ bsp \in {"func", "wait", "wait_again", "self", "run", "meet"}
    /\ m \in target /\ data[m] = calls /\ ap[m] # "hlt"
    /\ bsp = "func" => m \notin todo
    /\ bsp \in {"wait", "wait_again"} => m \in todo
    /\ bsp \in {"self", "run", "meet"} => kind[calls] = "rendezvous"

MailInv(m) ==
    /\ ap[m] \in Busy => func[m] = apFunc[m] /\ func[m] # "idle"
    /\ ap[m] \in {"call", "run", "meet", "done"} => apData[m] = data[m]
    /\ ap[m] \in {"run", "meet", "done"} => func[m] = "trampoline"
    /\ func[m] = "trampoline" => Awaited(m)
    /\ func[m] = "park_cpu" => data[m] = 0
    /\ func[m] = "park_cpu" \/ ap[m] = "hlt" => bsp \in ParkCall \/ parked # "no"
    /\ bsp \in {"park", "handoff"} /\ m \notin todo => func[m] = "park_cpu" \/ ap[m] = "hlt"
    /\ bsp \in {"park_wait", "handoff_wait"} => func[m] = "park_cpu" \/ ap[m] = "hlt"
    /\ parked = "true" => ap[m] = "hlt"
    /\ bsp = "data" /\ m \in target /\ m \notin todo => data[m] = calls
    /\ bsp = "func" /\ m \in target => data[m] = calls

DispatchInv == TypeOK /\ BspInv /\ \A m \in Mailbox : MailInv(m)

-----------------------------------------------------------------------------
(* MpDispatch: the invariant is inductive *)

\* mp_init leaves every mailbox idle and every AP polling (mp.rs).
LEMMA InitInv == Init => DispatchInv
  BY HandleAssumption, DispatchAssumption DEF Init, DispatchInv, TypeOK, BspInv,
     MailInv, Awaited, InCall, Loop, Closure, Busy, ParkCall

\* A method that starts keeps the invariant: every AP polls an idle mailbox.
LEMMA CallInv ==
    ASSUME DispatchInv, NEW T \in SUBSET Mailbox, NEW next \in {"idle", "self"},
           Call(T, next),
           next = "self" => kind[calls + 1] \in {"scatter", "rendezvous"}
    PROVE  DispatchInv'
<1> USE HandleAssumption, DispatchAssumption DEF Call, Enter, bspVars, apVars,
   Closure, InCall, Loop
<1>1. TypeOK'
  BY DEF DispatchInv, TypeOK, BspInv
<1>2. BspInv'
  BY DEF DispatchInv, TypeOK, BspInv, MailInv, Awaited
<1>3. ASSUME NEW n \in Mailbox PROVE MailInv(n)'
  BY Zenon DEF DispatchInv, TypeOK, BspInv, MailInv, Awaited, Busy, ParkCall
<1> QED
  BY Zenon, <1>1, <1>2, <1>3 DEF DispatchInv

\* start_all's first loop.
LEMMA StoreDataInv ==
    ASSUME DispatchInv, NEW m \in Mailbox, StoreData(m)
    PROVE  DispatchInv'
<1> USE HandleAssumption, DispatchAssumption DEF StoreData, First, Visit, Enter,
   bspVars, apVars, Closure, InCall, Loop
<1>1. TypeOK'
  BY Zenon DEF DispatchInv, TypeOK, BspInv
<1>2. BspInv'
  BY DEF DispatchInv, TypeOK, BspInv, MailInv, Awaited
<1>3. ASSUME NEW n \in Mailbox PROVE MailInv(n)'
  BY DEF DispatchInv, TypeOK, BspInv, MailInv, Awaited, Busy, ParkCall
<1> QED
  BY Zenon, <1>1, <1>2, <1>3 DEF DispatchInv

\* start_all's second loop.
LEMMA StoreFuncInv ==
    ASSUME DispatchInv, NEW m \in Mailbox, StoreFunc(m)
    PROVE  DispatchInv'
<1> USE HandleAssumption, DispatchAssumption DEF StoreFunc, First, Visit, Enter,
   bspVars, apVars, Closure, InCall, Loop
<1>1. TypeOK'
  BY Zenon DEF DispatchInv, TypeOK, BspInv
<1>2. BspInv'
  BY DEF DispatchInv, TypeOK, BspInv, MailInv, Awaited
<1>3. ASSUME NEW n \in Mailbox PROVE MailInv(n)'
  BY DEF DispatchInv, TypeOK, BspInv, MailInv, Awaited, Busy, ParkCall
<1> QED
  BY Zenon, <1>1, <1>2, <1>3 DEF DispatchInv

\* wait_all.
LEMMA WaitIdleInv ==
    ASSUME DispatchInv, NEW m \in Mailbox, WaitIdle(m)
    PROVE  DispatchInv'
<1> USE HandleAssumption, DispatchAssumption DEF WaitIdle, Waited, First, Visit,
   Enter, bspVars, apVars, Closure, InCall, Loop
<1>1. TypeOK'
  BY Zenon DEF DispatchInv, TypeOK, BspInv
<1>2. BspInv'
  BY DEF DispatchInv, TypeOK, BspInv, MailInv, Awaited
<1>3. ASSUME NEW n \in Mailbox PROVE MailInv(n)'
  BY DEF DispatchInv, TypeOK, BspInv, MailInv, Awaited, Busy, ParkCall
<1> QED
  BY Zenon, <1>1, <1>2, <1>3 DEF DispatchInv

\* The boot CPU's own turn.
LEMMA BspSelfInv ==
    ASSUME DispatchInv, BspBegin \/ BspArrive \/ BspEnd \/ Returned
    PROVE  DispatchInv'
<1> USE HandleAssumption, DispatchAssumption DEF BspBegin, BspArrive, BspEnd,
   Returned, bspVars, apVars, Closure, InCall, Loop
<1>1. TypeOK'
  BY DEF DispatchInv, TypeOK, BspInv
<1>2. BspInv'
  BY Zenon DEF DispatchInv, TypeOK, BspInv, MailInv, Awaited
<1>3. ASSUME NEW n \in Mailbox PROVE MailInv(n)'
  BY DEF DispatchInv, TypeOK, BspInv, MailInv, Awaited, Busy, ParkCall
<1> QED
  BY Zenon, <1>1, <1>2, <1>3 DEF DispatchInv

\* The parking calls.
LEMMA ParkInv ==
    ASSUME DispatchInv, park_aps \/ park_aps_for_payload
    PROVE  DispatchInv'
<1> USE HandleAssumption, DispatchAssumption DEF park_aps, park_aps_for_payload,
   Mailbox, bspVars, apVars, Closure, InCall, Loop
<1>1. TypeOK'
  BY DEF DispatchInv, TypeOK, BspInv
<1>2. BspInv'
  BY Zenon DEF DispatchInv, TypeOK, BspInv, MailInv, Awaited
<1>3. ASSUME NEW n \in Mailbox PROVE MailInv(n)'
  BY DEF DispatchInv, TypeOK, BspInv, MailInv, Awaited, Busy, ParkCall
<1> QED
  BY Zenon, <1>1, <1>2, <1>3 DEF DispatchInv

\* The loop of a parking call.
LEMMA StoreParkInv ==
    ASSUME DispatchInv, NEW m \in Mailbox, StorePark(m)
    PROVE  DispatchInv'
<1> USE HandleAssumption, DispatchAssumption DEF StorePark, First, Visit, Enter,
   bspVars, apVars, Closure, InCall, Loop
<1>1. TypeOK'
  BY DEF DispatchInv, TypeOK, BspInv
<1>2. BspInv'
  BY Zenon DEF DispatchInv, TypeOK, BspInv, MailInv, Awaited
<1>3. ASSUME NEW n \in Mailbox PROVE MailInv(n)'
  BY DEF DispatchInv, TypeOK, BspInv, MailInv, Awaited, Busy, ParkCall
<1> QED
  BY Zenon, <1>1, <1>2, <1>3 DEF DispatchInv

\* The end of a parking call.
LEMMA WaitParkedInv ==
    ASSUME DispatchInv, wait_for_aps_parked
    PROVE  DispatchInv'
<1> USE HandleAssumption, DispatchAssumption DEF wait_for_aps_parked, bspVars,
   apVars, Closure, InCall, Loop
<1>1. TypeOK'
  BY Zenon DEF DispatchInv, TypeOK, BspInv
<1>2. BspInv'
  BY Zenon DEF DispatchInv, TypeOK, BspInv, MailInv, Awaited
<1>3. ASSUME NEW n \in Mailbox PROVE MailInv(n)'
  BY Zenon DEF DispatchInv, TypeOK, BspInv, MailInv, Awaited, Busy, ParkCall
<1> QED
  BY Zenon, <1>1, <1>2, <1>3 DEF DispatchInv

\* An AP loads func.
LEMMA LoadFuncInv ==
    ASSUME DispatchInv, NEW m \in Mailbox, LoadFunc(m)
    PROVE  DispatchInv'
<1> USE HandleAssumption, DispatchAssumption DEF LoadFunc, Move, bspVars, apVars,
   Closure, InCall, Loop
<1>1. TypeOK'
  BY Zenon DEF DispatchInv, TypeOK, BspInv
<1>2. BspInv'
  BY Zenon DEF DispatchInv, TypeOK, BspInv, MailInv, Awaited
<1>3. ASSUME NEW n \in Mailbox PROVE MailInv(n)'
  BY DEF DispatchInv, TypeOK, BspInv, MailInv, Awaited, Busy, ParkCall
<1> QED
  BY Zenon, <1>1, <1>2, <1>3 DEF DispatchInv

\* An AP loads data.
LEMMA LoadDataInv ==
    ASSUME DispatchInv, NEW m \in Mailbox, LoadData(m)
    PROVE  DispatchInv'
<1> USE HandleAssumption, DispatchAssumption DEF LoadData, Move, bspVars, apVars,
   Closure, InCall, Loop
<1>1. TypeOK'
  BY Zenon DEF DispatchInv, TypeOK, BspInv
<1>2. BspInv'
  BY Zenon DEF DispatchInv, TypeOK, BspInv, MailInv, Awaited
<1>3. ASSUME NEW n \in Mailbox PROVE MailInv(n)'
  BY DEF DispatchInv, TypeOK, BspInv, MailInv, Awaited, Busy, ParkCall
<1> QED
  BY Zenon, <1>1, <1>2, <1>3 DEF DispatchInv

\* An AP runs the closure.
LEMMA ApRunInv ==
    ASSUME DispatchInv, NEW m \in Mailbox, ApBegin(m) \/ ApArrive(m) \/ ApEnd(m)
    PROVE  DispatchInv'
<1> USE HandleAssumption, DispatchAssumption DEF ApBegin, ApArrive, ApEnd, Move,
   bspVars, apVars, Closure, InCall, Loop
<1>1. TypeOK'
  <2>1. CASE ApBegin(m) BY Zenon, <2>1 DEF DispatchInv, TypeOK
  <2>2. CASE ApArrive(m) BY <2>2 DEF DispatchInv, TypeOK
  <2>3. CASE ApEnd(m) BY Zenon, <2>3 DEF DispatchInv, TypeOK
  <2> QED BY Zenon, <2>1, <2>2, <2>3
<1>2. BspInv'
  BY Zenon DEF DispatchInv, TypeOK, BspInv, MailInv, Awaited
<1>3. ASSUME NEW n \in Mailbox PROVE MailInv(n)'
  BY DEF DispatchInv, TypeOK, BspInv, MailInv, Awaited, Busy, ParkCall
<1> QED
  BY Zenon, <1>1, <1>2, <1>3 DEF DispatchInv

\* An AP is done with its mailbox.
LEMMA ApDoneInv ==
    ASSUME DispatchInv, NEW m \in Mailbox, Complete(m) \/ park_cpu(m)
    PROVE  DispatchInv'
<1> USE HandleAssumption, DispatchAssumption DEF Complete, park_cpu, Move, bspVars,
   apVars, Closure, InCall, Loop
<1>1. TypeOK'
  BY DEF DispatchInv, TypeOK, BspInv
<1>2. BspInv'
  BY Zenon DEF DispatchInv, TypeOK, BspInv, MailInv, Awaited
<1>3. ASSUME NEW n \in Mailbox PROVE MailInv(n)'
  BY DEF DispatchInv, TypeOK, BspInv, MailInv, Awaited, Busy, ParkCall
<1> QED
  BY Zenon, <1>1, <1>2, <1>3 DEF DispatchInv

\* Every step of MpDispatch keeps the invariant.
LEMMA NextInv == DispatchInv /\ [Next]_vars => DispatchInv'
<1> SUFFICES ASSUME DispatchInv, [Next]_vars PROVE DispatchInv'
  OBVIOUS
<1>1. CASE broadcast \/ scatter \/ rendezvous \/ \E n \in 0..(num_aps + 1) : run_on(n)
  <2>1. PICK T \in SUBSET Mailbox, next \in {"idle", "self"} :
            Call(T, next) /\ (next = "self" => kind[calls + 1] \in {"scatter",
                "rendezvous"})
    <3>1. CASE broadcast BY Zenon, <3>1 DEF broadcast
    <3>2. CASE scatter \/ rendezvous BY Zenon, <3>2 DEF scatter, rendezvous
    <3>3. CASE \E n \in 0..(num_aps + 1) : run_on(n)
      <4>1. PICK n \in 0..(num_aps + 1) : run_on(n) BY Zenon, <3>3
      <4>2. ({n - 1} \cap Mailbox) \in SUBSET Mailbox OBVIOUS
      <4> QED BY Zenon, <4>1, <4>2 DEF run_on
    <3> QED BY Zenon, <1>1, <3>1, <3>2, <3>3
  <2> QED BY Zenon, <2>1, CallInv
<1>2. CASE park_aps \/ park_aps_for_payload
  BY Zenon, <1>2, ParkInv
<1>3. ASSUME NEW m \in Mailbox, StoreData(m) \/ StoreFunc(m) \/ WaitIdle(m) \/ StorePark(m)
      PROVE  DispatchInv'
  BY Zenon, <1>3, StoreDataInv, StoreFuncInv, WaitIdleInv, StoreParkInv
<1>4. CASE BspBegin \/ BspArrive \/ BspEnd \/ Returned \/ wait_for_aps_parked
  BY Zenon, <1>4, BspSelfInv, WaitParkedInv
<1>5. ASSUME NEW m \in Mailbox, ApNext(m) PROVE DispatchInv'
  BY Zenon, <1>5, LoadFuncInv, LoadDataInv, ApRunInv, ApDoneInv DEF ApNext
<1>6. CASE UNCHANGED vars
  BY <1>6 DEF vars, DispatchInv, TypeOK, BspInv, MailInv, Awaited
<1> QED
  BY Zenon, <1>1, <1>2, <1>3, <1>4, <1>5, <1>6 DEF Next, Methods, BspStep

\* The invariant of the mailboxes, for every number of APs and calls (mp.rs
\* Scope, ap_mailbox_loop, park_aps).
THEOREM DispatchCorrect == Spec => []DispatchInv
  BY InitInv, NextInv, PTL DEF Spec

\* No AP uses a closure whose call has returned, or the data of another call
\* (mp.rs ap_mailbox_loop and the methods of Scope).
THEOREM BorrowsEnd == Spec => []BorrowEnds
<1>1. DispatchInv => BorrowEnds
  BY Zenon DEF DispatchInv, MailInv, BorrowEnds, Awaited, Busy, InCall, Loop
<1> QED
  BY <1>1, DispatchCorrect, PTL

\* When a parking call reports success every AP is halted (mp.rs park_cpu,
\* wait_for_aps_parked).
THEOREM ParkedHalted == Spec => []ParkedMeansHalted
<1>1. DispatchInv => ParkedMeansHalted
  BY Zenon DEF DispatchInv, MailInv, ParkedMeansHalted
<1> QED
  BY <1>1, DispatchCorrect, PTL

-----------------------------------------------------------------------------
(* MpDispatch: the mailboxes implement ScopeWork *)

\* The variables of ScopeWork under the mapping.
scopeKind == IF bsp \in InCall THEN kind[calls] ELSE "none"

\* An AP's mailbox is its number less one.
LEMMA ApIndex ==
    /\ \A c \in CPU : c # BSP => c - 1 \in Mailbox
    /\ \A m \in Mailbox : m + 1 \in CPU /\ m + 1 # BSP /\ (m + 1) - 1 = m
    /\ \A c \in CPU, m \in Mailbox : c - 1 = m <=> c = m + 1
    /\ BSP \in CPU
  BY HandleAssumption, DispatchAssumption DEF CPU, BSP, Mailbox

\* Before the first call nothing is lent out.
LEMMA ScopeInit == Init => Scope!Init
  BY ApIndex DEF Init, Scope!Init, work, left, running, Scope!NoWork, NoWork,
     InCall, Loop

\* The first loop of start_all is not seen by the callers.
LEMMA StoreDataHides ==
    ASSUME DispatchInv, NEW m \in Mailbox, StoreData(m)
    PROVE  UNCHANGED Scope!vars
<1> USE HandleAssumption, DispatchAssumption, ApIndex DEF StoreData, First, Visit,
   Enter, bspVars, apVars
<1>1. work' = work /\ scopeKind' = scopeKind
  BY Zenon DEF scopeKind, work, DispatchInv, TypeOK, BspInv, InCall, Loop
<1>2. left' = left
  BY Zenon DEF left, Pending, DispatchInv, TypeOK, BspInv, MailInv, Awaited,
     Busy, ParkCall, Closure, InCall, Loop
<1>3. running' = running
  BY Zenon DEF running, NoWork, DispatchInv, TypeOK
<1> QED
  BY Zenon, <1>1, <1>2, <1>3 DEF Scope!vars, scopeKind

\* Nor is the second.
LEMMA StoreFuncHides ==
    ASSUME DispatchInv, NEW m \in Mailbox, StoreFunc(m)
    PROVE  UNCHANGED Scope!vars
<1> USE HandleAssumption, DispatchAssumption, ApIndex DEF StoreFunc, First, Visit,
   Enter, bspVars, apVars
<1>1. work' = work /\ scopeKind' = scopeKind
  BY Zenon DEF scopeKind, work, DispatchInv, TypeOK, BspInv, InCall, Loop
<1>2. left' = left
  BY DEF left, Pending, DispatchInv, TypeOK, BspInv, MailInv, Awaited, Busy, ParkCall,
     Closure, InCall, Loop
<1>3. running' = running
  BY Zenon DEF running, NoWork, DispatchInv, TypeOK
<1> QED
  BY Zenon, <1>1, <1>2, <1>3 DEF Scope!vars, scopeKind

\* An AP that loads its mailbox has not begun.
LEMMA ApLoadHides ==
    ASSUME DispatchInv, NEW m \in Mailbox, LoadFunc(m) \/ LoadData(m)
    PROVE  UNCHANGED Scope!vars
<1> USE HandleAssumption, DispatchAssumption, ApIndex DEF LoadFunc, LoadData, Move,
   bspVars, apVars
<1>1. work' = work /\ scopeKind' = scopeKind
  BY Zenon DEF scopeKind, work, DispatchInv, TypeOK, BspInv, InCall, Loop
<1>2. left' = left
  BY DEF left, Pending, DispatchInv, TypeOK, BspInv, MailInv, Awaited, Busy, ParkCall,
     Closure, InCall, Loop
<1>3. running' = running
  BY DEF running, NoWork, DispatchInv, TypeOK
<1> QED
  BY Zenon, <1>1, <1>2, <1>3 DEF Scope!vars, scopeKind

\* The barrier inside a closure is the closure's own, here on an AP.
LEMMA ArriveHides ==
    ASSUME DispatchInv, NEW m \in Mailbox, ApArrive(m)
    PROVE  UNCHANGED Scope!vars
<1> USE HandleAssumption, DispatchAssumption, ApIndex DEF ApArrive, Move, bspVars,
   apVars
<1>1. work' = work /\ scopeKind' = scopeKind
  BY Zenon DEF scopeKind, work, DispatchInv, TypeOK, BspInv, InCall, Loop
<1>2. left' = left
  BY DEF left, Pending, DispatchInv, TypeOK, BspInv, MailInv, Awaited, Busy, ParkCall,
     Closure, InCall, Loop
<1>3. running' = running
  BY DEF running, NoWork, DispatchInv, TypeOK
<1> QED
  BY Zenon, <1>1, <1>2, <1>3 DEF Scope!vars, scopeKind

\* The completion store comes after the closure.
LEMMA ApDoneHides ==
    ASSUME DispatchInv, NEW m \in Mailbox, Complete(m) \/ park_cpu(m)
    PROVE  UNCHANGED Scope!vars
<1> USE HandleAssumption, DispatchAssumption, ApIndex DEF Complete, park_cpu, Move,
   bspVars, apVars
<1>1. work' = work /\ scopeKind' = scopeKind
  BY Zenon DEF scopeKind, work, DispatchInv, TypeOK, BspInv, InCall, Loop
<1>2. left' = left
  BY DEF left, Pending, DispatchInv, TypeOK, BspInv, MailInv, Awaited, Busy, ParkCall,
     Closure, InCall, Loop
<1>3. running' = running
  BY DEF running, NoWork, DispatchInv, TypeOK
<1> QED
  BY Zenon, <1>1, <1>2, <1>3 DEF Scope!vars, scopeKind

\* The same on the boot CPU; and parking is not part of a scope.
LEMMA BspHides ==
    ASSUME DispatchInv,
           BspArrive \/ park_aps \/ park_aps_for_payload \/ wait_for_aps_parked
    PROVE  UNCHANGED Scope!vars
<1> USE HandleAssumption, DispatchAssumption, ApIndex DEF BspArrive, park_aps,
   park_aps_for_payload, wait_for_aps_parked, bspVars, apVars
<1>1. work' = work /\ scopeKind' = scopeKind
  BY Zenon DEF scopeKind, work, DispatchInv, TypeOK, BspInv, InCall, Loop
<1>2. left' = left
  BY DEF left, Pending, DispatchInv, TypeOK, BspInv, MailInv, Awaited, Busy, ParkCall,
     Closure, InCall, Loop
<1>3. running' = running
  BY Zenon DEF running, NoWork, DispatchInv, TypeOK
<1> QED
  BY Zenon, <1>1, <1>2, <1>3 DEF Scope!vars, scopeKind

\* The loop of a parking call.
LEMMA StoreParkHides ==
    ASSUME DispatchInv, NEW m \in Mailbox, StorePark(m)
    PROVE  UNCHANGED Scope!vars
<1> USE HandleAssumption, DispatchAssumption, ApIndex DEF StorePark, First, Visit,
   Enter, bspVars, apVars
<1>1. work' = work /\ scopeKind' = scopeKind
  BY Zenon DEF scopeKind, work, DispatchInv, TypeOK, BspInv, InCall, Loop
<1>2. left' = left
  BY Zenon DEF left, Pending, DispatchInv, TypeOK, BspInv, MailInv, Awaited,
     Busy, ParkCall, Closure, InCall, Loop
<1>3. running' = running
  BY Zenon DEF running, NoWork, DispatchInv, TypeOK
<1> QED
  BY Zenon, <1>1, <1>2, <1>3 DEF Scope!vars, scopeKind

\* A method call lends its closure to the CPUs it addresses; a call without
\* any does nothing.
LEMMA CallLends ==
    ASSUME DispatchInv, NEW k \in Method, calls < MaxCalls, kind[calls + 1] = k,
           NEW T \in SUBSET Mailbox, NEW next \in {"idle", "self"}, Call(T, next),
           k = "broadcast" => T = Mailbox /\ next = "idle",
           k \in {"scatter", "rendezvous"} => T = Mailbox /\ next = "self",
           k = "run_on" => (T = {} \/ \E m \in Mailbox : T = {m}) /\ next = "idle"
    PROVE  [Scope!Next]_Scope!vars
<1> USE HandleAssumption, DispatchAssumption, ApIndex DEF Call, Enter, bspVars, apVars
<1>1. running' = running
  BY Zenon DEF running, NoWork, DispatchInv, TypeOK, BspInv, MailInv, Awaited,
     Busy, ParkCall, Closure, InCall, Loop
<1>2. CASE bsp' = "idle"
  <2>1. work' = work /\ scopeKind' = scopeKind
    BY Zenon, <1>2 DEF scopeKind, work, NoWork, DispatchInv, TypeOK, BspInv,
       MailInv, Awaited, Busy, ParkCall, Closure, InCall, Loop
  <2>2. left' = left
    BY Zenon, <1>2 DEF left, Pending, DispatchInv, TypeOK, BspInv, MailInv,
       Awaited, Busy, ParkCall, Closure, InCall, Loop
  <2> QED
    BY Zenon, <1>1, <2>1, <2>2 DEF Scope!vars, scopeKind
<1>3. CASE bsp' # "idle"
  <2>1. work = NoWork /\ work' = calls + 1 /\ scopeKind' = k /\ calls + 1 \in Closure
    BY <1>3 DEF scopeKind, work, NoWork, DispatchInv, TypeOK, BspInv, MailInv, Awaited,
       Busy, ParkCall, Closure, InCall, Loop
  <2>2. left' = {c \in CPU : IF c = BSP THEN k \in {"scatter", "rendezvous"} ELSE c - 1
      \in T}
    BY Zenon, <1>3 DEF left, Pending, DispatchInv, TypeOK, BspInv, MailInv,
       Awaited, Busy, ParkCall, Closure, InCall, Loop
  <2>3. left' \in Scope!Addressed(k)
    <3>1. CASE k = "broadcast"
      BY <2>2, <3>1 DEF Scope!Addressed
    <3>2. CASE k \in {"scatter", "rendezvous"}
      BY <2>2, <3>2 DEF Scope!Addressed
    <3>3. CASE k = "run_on"
      <4>1. PICK m \in Mailbox : T = {m}
        BY Zenon, <1>3, <3>3
      <4>2. left' = {m + 1}
        BY <2>2, <3>3, <4>1 DEF CPU, Mailbox
      <4> QED
        BY <3>3, <4>2 DEF Scope!Addressed
    <3> QED
      BY Zenon, <3>1, <3>2, <3>3 DEF Method
  <2> QED
    BY Zenon, <1>1, <2>1, <2>3 DEF Scope!Next, Scope!Lend, Scope!Kind, Method,
       Scope!NoWork, NoWork, scopeKind
<1> QED
  BY Zenon, <1>2, <1>3

\* While every mailbox is idle no AP has anything to run and none runs.
LEMMA AllIdle ==
    ASSUME DispatchInv, bsp \in {"wait", "wait_again", "self", "run", "meet"},
           \A m \in Mailbox : func[m] = "idle"
    PROVE  left \subseteq {BSP} /\ \A c \in CPU : c # BSP => running[c] = NoWork
  BY ApIndex DEF left, Pending, running, NoWork, DispatchInv, TypeOK, BspInv, MailInv,
     Awaited, Busy, ParkCall, Closure, InCall, Loop

\* The boot CPU begins: in a scatter, after every AP has finished.
LEMMA BspBegins ==
    ASSUME DispatchInv, BspBegin
    PROVE  Scope!Begin(BSP)
<1> USE ApIndex DEF BspBegin, apVars
<1>1. BSP \in left
  BY Zenon DEF left, Pending, DispatchInv, TypeOK, BspInv, MailInv, Awaited,
     Busy, ParkCall, Closure, InCall, Loop
<1>2. ASSUME kind[calls] = "scatter" PROVE left = {BSP} /\ \A d \in CPU : running[d] =
    NoWork
  <2>1. \A m \in Mailbox : func[m] = "idle"
    BY <1>2 DEF DispatchInv, TypeOK, BspInv, MailInv, Awaited, Busy, ParkCall, Closure,
       InCall, Loop
  <2>2. running[BSP] = NoWork
    BY Zenon DEF running
  <2> QED
    BY <1>1, <2>1, <2>2, AllIdle
<1>3. work' = work /\ scopeKind' = scopeKind /\ (scopeKind = "scatter" => kind[calls] =
    "scatter")
  BY Zenon DEF scopeKind, work, DispatchInv, TypeOK, BspInv, InCall, Loop
<1>4. left' = left \ {BSP}
  BY Zenon DEF left, Pending, DispatchInv, TypeOK, BspInv, MailInv, Awaited,
     Busy, ParkCall, Closure, InCall, Loop
<1>5. running' = [running EXCEPT ![BSP] = work]
  BY Zenon DEF work, running, NoWork, DispatchInv, TypeOK, BspInv, MailInv,
     Awaited, Busy, ParkCall, Closure, InCall, Loop
<1> QED
  BY Zenon, <1>1, <1>2, <1>3, <1>4, <1>5 DEF Scope!Begin, Scope!NoWork, NoWork,
     scopeKind

\* An AP that calls its trampoline begins the closure of the current call.
LEMMA ApBegins ==
    ASSUME DispatchInv, NEW m \in Mailbox, ApBegin(m)
    PROVE  Scope!Begin(m + 1)
<1> USE ApIndex DEF ApBegin, Move, bspVars
<1>1. func[m] = "trampoline" /\ Awaited(m) /\ apData[m] = calls
  BY Zenon DEF DispatchInv, MailInv, Busy, Awaited
<1>2. m + 1 \in left /\ work = calls
  BY <1>1 DEF work, left, Pending, NoWork, DispatchInv, TypeOK, BspInv, MailInv,
     Awaited, Busy, ParkCall, Closure, InCall, Loop
<1>3. work' = work /\ scopeKind' = scopeKind
  BY Zenon DEF scopeKind, work, DispatchInv, TypeOK, BspInv, InCall, Loop
<1>4. left' = left \ {m + 1}
  BY <1>1 DEF left, Pending, DispatchInv, TypeOK, BspInv, MailInv, Awaited, Busy,
     ParkCall, Closure, InCall, Loop
<1>5. running' = [running EXCEPT ![m + 1] = work]
  <2>1. ASSUME NEW c \in CPU PROVE running'[c] = IF c = m + 1 THEN work ELSE running[c]
    BY <1>1, <1>2 DEF running, TypeOK, DispatchInv
  <2> QED
    BY <2>1 DEF running
<1> QED
  BY Zenon, <1>2, <1>3, <1>4, <1>5 DEF Scope!Begin, scopeKind

\* The closure returns on the boot CPU.
LEMMA BspEnds ==
    ASSUME DispatchInv, BspEnd
    PROVE  Scope!Finish(BSP)
<1> USE ApIndex DEF BspEnd, apVars
<1>1. running[BSP] # NoWork
  BY Zenon DEF running, NoWork, DispatchInv, TypeOK, BspInv, MailInv, Awaited,
     Busy, ParkCall, Closure, InCall, Loop
<1>2. work' = work /\ scopeKind' = scopeKind
  BY Zenon DEF scopeKind, work, DispatchInv, TypeOK, BspInv, InCall, Loop
<1>3. left' = left
  BY Zenon DEF left, Pending, DispatchInv, TypeOK, BspInv, MailInv, Awaited,
     Busy, ParkCall, Closure, InCall, Loop
<1>4. running' = [running EXCEPT ![BSP] = NoWork]
  BY Zenon DEF running, NoWork
<1> QED
  BY Zenon, <1>1, <1>2, <1>3, <1>4 DEF Scope!Finish, Scope!NoWork, NoWork,
     scopeKind

\* The same on an AP.
LEMMA ApEnds ==
    ASSUME DispatchInv, NEW m \in Mailbox, ApEnd(m)
    PROVE  Scope!Finish(m + 1)
<1> USE ApIndex DEF ApEnd, bspVars
<1>1. running[m + 1] # NoWork
  BY DEF running, NoWork, DispatchInv, TypeOK, BspInv, MailInv, Awaited, Busy, ParkCall,
     Closure, InCall, Loop
<1>2. work' = work /\ scopeKind' = scopeKind
  BY Zenon DEF scopeKind, work, DispatchInv, TypeOK, BspInv, InCall, Loop
<1>3. left' = left
  BY DEF left, Pending, DispatchInv, TypeOK, BspInv, MailInv, Awaited, Busy, ParkCall,
     Closure, InCall, Loop
<1>4. running' = [running EXCEPT ![m + 1] = NoWork]
  <2>1. ASSUME NEW c \in CPU PROVE running'[c] = IF c = m + 1 THEN NoWork ELSE running[c]
    BY DEF running, TypeOK, DispatchInv
  <2> QED
    BY <2>1 DEF running
<1> QED
  BY Zenon, <1>1, <1>2, <1>3, <1>4 DEF Scope!Finish, Scope!NoWork, NoWork,
     scopeKind

\* The call returns when nobody has to run its closure or runs it.
LEMMA Returns ==
    ASSUME DispatchInv, bsp \in InCall, bsp' = "idle", left = {},
           \A c \in CPU : running[c] = NoWork, UNCHANGED apVars
    PROVE  Scope!Return
<1> USE ApIndex DEF apVars
<1>1. work # NoWork /\ work' = NoWork /\ scopeKind' = "none"
  BY Zenon DEF scopeKind, work, NoWork, DispatchInv, TypeOK, BspInv, InCall,
     Loop
<1>2. left' = left
  BY Zenon DEF left, InCall, Loop
<1>3. running' = running
  <2>1. running'[BSP] = NoWork /\ \A c \in CPU : c # BSP => running'[c] = running[c]
    BY Zenon DEF running
  <2> QED
    BY Zenon, <2>1 DEF running
<1> QED
  BY Zenon, <1>1, <1>2, <1>3 DEF Scope!Return, Scope!NoWork, NoWork, scopeKind

\* The wait for the APs: the last mailbox ends a broadcast or run_on.
LEMMA WaitIdleReturns ==
    ASSUME DispatchInv, NEW m \in Mailbox, WaitIdle(m)
    PROVE  [Scope!Next]_Scope!vars
<1> USE ApIndex DEF WaitIdle, Waited, First, Visit, Enter, apVars
<1>1. CASE bsp' = "idle"
  <2>1. bsp = "wait" /\ kind[calls] \notin {"scatter", "rendezvous"} /\ todo = {m}
    BY Zenon, <1>1 DEF DispatchInv, BspInv
  <2>2. \A n \in Mailbox : func[n] = "idle"
    BY <2>1 DEF DispatchInv, MailInv, Awaited, TypeOK, ParkCall, BspInv, InCall, Loop
  <2>3. BSP \notin left /\ running[BSP] = NoWork
    BY Zenon, <2>1 DEF left, running
  <2>4. left = {} /\ \A c \in CPU : running[c] = NoWork
    BY <2>1, <2>2, <2>3, AllIdle
  <2> QED
    BY Zenon, <1>1, <2>1, <2>4, Returns DEF InCall, Loop, Scope!Next
<1>2. CASE bsp' # "idle"
  <2>1. work' = work /\ scopeKind' = scopeKind
    BY <1>2 DEF scopeKind, work, NoWork, DispatchInv, TypeOK, BspInv, MailInv, Awaited,
       Busy, ParkCall, Closure, InCall, Loop
  <2>2. left' = left
    BY <1>2 DEF left, Pending, DispatchInv, TypeOK, BspInv, MailInv, Awaited, Busy,
       ParkCall, Closure, InCall, Loop
  <2>3. running' = running
    BY Zenon, <1>2 DEF running, NoWork, DispatchInv, TypeOK, BspInv, MailInv,
       Awaited, Busy, ParkCall, Closure, InCall, Loop
  <2> QED
    BY Zenon, <2>1, <2>2, <2>3 DEF Scope!vars, scopeKind
<1> QED
  BY Zenon, <1>1, <1>2

\* The end of scatter and rendezvous.
LEMMA ReturnedReturns ==
    ASSUME DispatchInv, Returned
    PROVE  Scope!Return
<1> USE DEF Returned
<1>1. \A n \in Mailbox : func[n] = "idle"
  BY Zenon DEF DispatchInv, MailInv, Awaited, TypeOK, ParkCall, BspInv, InCall,
     Loop
<1>2. BSP \notin left /\ \A c \in CPU : running[c] = NoWork
  BY Zenon, <1>1, AllIdle DEF left, running
<1>3. left = {}
  BY Zenon, <1>1, <1>2, AllIdle
<1> QED
  BY Zenon, <1>2, <1>3, Returns DEF InCall, Loop

\* Every step of the mailboxes is a step of ScopeWork or leaves it alone.
LEMMA ScopeStep == DispatchInv /\ [Next]_vars => [Scope!Next]_Scope!vars
<1> SUFFICES ASSUME DispatchInv, [Next]_vars PROVE [Scope!Next]_Scope!vars
  OBVIOUS
<1>1. CASE broadcast
  BY Zenon, <1>1, CallLends DEF broadcast, Method
<1>2. CASE scatter
  BY Zenon, <1>2, CallLends DEF scatter, Method
<1>3. CASE rendezvous
  BY Zenon, <1>3, CallLends DEF rendezvous, Method
<1>4. ASSUME NEW n \in 0..(num_aps + 1), run_on(n) PROVE [Scope!Next]_Scope!vars
  <2> DEFINE T == {n - 1} \cap Mailbox
  <2>1. T \in SUBSET Mailbox /\ (T = {} \/ \E m \in Mailbox : T = {m})
    OBVIOUS
  <2>2. calls < MaxCalls /\ kind[calls + 1] = "run_on" /\ Call(T, "idle")
    BY Zenon, <1>4 DEF run_on
  <2> HIDE DEF T
  <2> QED
    BY Zenon, <2>1, <2>2, CallLends DEF Method
<1>5. ASSUME NEW m \in Mailbox,
             \/ StoreData(m) \/ StoreFunc(m) \/ LoadFunc(m) \/ LoadData(m)
             \/ ApArrive(m) \/ Complete(m) \/ park_cpu(m) \/ StorePark(m)
      PROVE  [Scope!Next]_Scope!vars
  BY Zenon, <1>5, StoreDataHides, StoreFuncHides, ApLoadHides, ArriveHides,
     ApDoneHides, StoreParkHides
<1>6. ASSUME NEW m \in Mailbox, WaitIdle(m) \/ ApBegin(m) \/ ApEnd(m)
      PROVE  [Scope!Next]_Scope!vars
  BY <1>6, WaitIdleReturns, ApBegins, ApEnds, ApIndex DEF Scope!Next
<1>7. CASE BspBegin \/ BspEnd \/ Returned
  BY Zenon, <1>7, BspBegins, BspEnds, ReturnedReturns, ApIndex DEF Scope!Next
<1>8. CASE BspArrive \/ park_aps \/ park_aps_for_payload \/ wait_for_aps_parked
  BY Zenon, <1>8, BspHides
<1>9. CASE UNCHANGED vars
  BY Zenon, <1>9 DEF vars, Scope!vars, work, left, running, Pending
<1> QED
  BY <1>1, <1>2, <1>3, <1>4, <1>5, <1>6, <1>7, <1>8, <1>9 DEF Next, Methods,
     BspStep, ApNext

\* Scope's documentation, "All dispatched work completes before `scope` returns":
\* the mailboxes implement ScopeWork for every number of APs, none included, and
\* every sequence of calls (mp.rs Scope, ap_mailbox_loop).
THEOREM ScopeRefined == Spec => ScopeSpec
<1>1. Spec => Scope!Init /\ [][Scope!Next]_Scope!vars
  BY ScopeInit, ScopeStep, DispatchCorrect, PTL DEF Spec
<1> QED
  BY Zenon, <1>1 DEF ScopeSpec, Scope!Spec

=============================================================================
