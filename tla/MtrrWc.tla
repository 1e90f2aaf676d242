------------------------------- MODULE MtrrWc -------------------------------
(***************************************************************************)
(* install_write_combining: the boot CPU plans an update of the variable   *)
(* MTRRs and all CPUs carry it out together, in a rendezvous of the MP     *)
(* scope with five barriers.  SMT siblings share the MTRRs of their core,  *)
(* so a sibling that runs ahead or behind acts on the registers of the     *)
(* other one.                                                              *)
(*                                                                         *)
(* A counter of `phases` is the set of the CPUs that have incremented it:  *)
(* each does so once.  The MTRRs of a core that the plan changes are one   *)
(* value, "half" from the first mask that is cleared to the last one that  *)
(* is set.                                                                 *)
(***************************************************************************)
EXTENDS MpHandle

CONSTANTS Core,       \* the sets of MTRRs of the machine
          core        \* the one each CPU uses

ASSUME WcAssumption == /\ core \in [CPU -> Core]
                       /\ \A k \in Core : \E c \in CPU : core[c] = k

VARIABLES
    call,       \* where install_write_combining is: "plan", "scope", "Ok", "Err"
    empty,      \* there is nothing to write
    failed,     \* the shared flag
    phases,     \* the CPUs that have arrived at each barrier
    at,         \* where each CPU is in the closure
    stage,      \* how many barriers it has passed
    matches,    \* its local `matches`
    cached,     \* CR0.CD is clear
    enabled,    \* the enable bit of IA32_MTRR_DEF_TYPE of each core
    mtrrs,      \* the variable MTRRs of each core: "old", "half" or "new"
    deaf        \* the cores whose MTRRs do not take the new value

plan == <<call, empty>>
registers == <<cached, enabled, mtrrs, deaf>>
wcVars == <<call, empty, failed, phases, at, stage, matches, cached, enabled,
          mtrrs, deaf>>

Barrier == 0..4

WcTypeOK ==
    /\ call \in {"plan", "scope", "Ok", "Err"}
    /\ empty \in BOOLEAN
    /\ failed \in BOOLEAN
    /\ phases \in [Barrier -> SUBSET CPU]
    /\ at \in [CPU -> {"idle", "preflight", "arrive", "wait", "decide", "off",
                       "disable", "clear", "set", "restore", "verify", "on",
                       "done"}]
    /\ stage \in [CPU -> 0..5]
    /\ matches \in [CPU -> BOOLEAN]
    /\ cached \in [CPU -> BOOLEAN]
    /\ enabled \in [Core -> BOOLEAN]
    /\ mtrrs \in [Core -> {"old", "half", "new"}]
    /\ deaf \in SUBSET Core

WcInit ==
    /\ call = "plan" /\ empty = FALSE /\ failed = FALSE
    /\ phases = [i \in Barrier |-> {}]
    /\ at = [c \in CPU |-> "idle"]
    /\ stage = [c \in CPU |-> 0]
    /\ matches = [c \in CPU |-> TRUE]
    /\ cached = [c \in CPU |-> TRUE]
    /\ enabled = [k \in Core |-> TRUE]
    /\ mtrrs = [k \in Core |-> "old"]
    /\ deaf \in SUBSET Core

-----------------------------------------------------------------------------
(* The boot CPU *)

\* No range, or a plan that cannot be made, ends the call; otherwise the
\* rendezvous starts the closure on every CPU.
Plan ==
    /\ call = "plan"
    /\ \/ call' = "Ok" /\ empty' = TRUE /\ UNCHANGED at
       \/ call' = "Err" /\ UNCHANGED <<empty, at>>
       \/ /\ call' = "scope" /\ empty' \in BOOLEAN
          /\ at' = [c \in CPU |-> "preflight"]
    /\ UNCHANGED <<failed, phases, stage, matches, registers>>

Return ==
    /\ call = "scope"
    /\ \A c \in CPU : at[c] = "done"
    /\ call' = IF failed THEN "Err" ELSE "Ok"
    /\ UNCHANGED <<empty, failed, phases, at, stage, matches, registers>>

-----------------------------------------------------------------------------
(* The closure on CPU c *)

Goto(c, place) == at' = [at EXCEPT ![c] = place]

\* A CPU other than the boot CPU may have other capabilities or registers.
Preflight(c) ==
    /\ at[c] = "preflight"
    /\ \/ UNCHANGED <<matches, failed>>
       \/ /\ c # BSP
          /\ matches' = [matches EXCEPT ![c] = FALSE] /\ failed' = TRUE
    /\ Goto(c, "arrive")
    /\ UNCHANGED <<plan, phases, stage, registers>>

Arrive(c) ==
    /\ at[c] = "arrive"
    /\ phases' = [phases EXCEPT ![stage[c]] = @ \cup {c}]
    /\ Goto(c, "wait")
    /\ UNCHANGED <<plan, failed, stage, matches, registers>>

\* Where the closure goes on behind each barrier.
Behind(i) == CASE i = 0 -> "decide"
               [] i = 1 -> "disable"
               [] i = 2 -> "clear"
               [] i = 3 -> "restore"
               [] i = 4 -> "verify"

Pass(c) ==
    /\ at[c] = "wait"
    /\ phases[stage[c]] = CPU
    /\ stage' = [stage EXCEPT ![c] = @ + 1]
    /\ Goto(c, Behind(stage[c]))
    /\ UNCHANGED <<plan, failed, phases, matches, registers>>

\* Mutant: a CPU goes by its own comparison.
Decide_Own(c) ==
    /\ at[c] = "decide"
    /\ Goto(c, IF ~matches[c] \/ empty THEN "done" ELSE "off")
    /\ UNCHANGED <<plan, failed, phases, stage, matches, registers>>

Decide(c) ==
    /\ at[c] = "decide"
    /\ Goto(c, IF failed \/ empty THEN "done" ELSE "off")
    /\ UNCHANGED <<plan, failed, phases, stage, matches, registers>>

\* Mutant: no barrier between turning the cache off and disabling the MTRRs.
CacheOff_NoBarrier(c) ==
    /\ at[c] = "off"
    /\ cached' = [cached EXCEPT ![c] = FALSE]
    /\ stage' = [stage EXCEPT ![c] = @ + 1]
    /\ Goto(c, "disable")
    /\ UNCHANGED <<plan, failed, phases, matches, enabled, mtrrs, deaf>>

\* WBINVD, CR0.CD set, the TLB flushed.
CacheOff(c) ==
    /\ at[c] = "off"
    /\ cached' = [cached EXCEPT ![c] = FALSE]
    /\ Goto(c, "arrive")
    /\ UNCHANGED <<plan, failed, phases, stage, matches, enabled, mtrrs, deaf>>

Disable(c) ==
    /\ at[c] = "disable"
    /\ enabled' = [enabled EXCEPT ![core[c]] = FALSE]
    /\ Goto(c, "arrive")
    /\ UNCHANGED <<plan, failed, phases, stage, matches, cached, mtrrs, deaf>>

Write(c, value) ==
    mtrrs' = IF core[c] \in deaf THEN mtrrs ELSE [mtrrs EXCEPT ![core[c]] = value]

\* The first mask is cleared.
ClearMask(c) ==
    /\ at[c] = "clear"
    /\ Write(c, "half")
    /\ Goto(c, "set")
    /\ UNCHANGED <<plan, failed, phases, stage, matches, cached, enabled, deaf>>

\* The last mask is set.
SetMask(c) ==
    /\ at[c] = "set"
    /\ Write(c, "new")
    /\ Goto(c, "arrive")
    /\ UNCHANGED <<plan, failed, phases, stage, matches, cached, enabled, deaf>>

Restore(c) ==
    /\ at[c] = "restore"
    /\ enabled' = [enabled EXCEPT ![core[c]] = TRUE]
    /\ Goto(c, "arrive")
    /\ UNCHANGED <<plan, failed, phases, stage, matches, cached, mtrrs, deaf>>

\* Mutant: the registers are not read back.
Verify_Skipped(c) ==
    /\ at[c] = "verify"
    /\ Goto(c, "on")
    /\ UNCHANGED <<plan, failed, phases, stage, matches, registers>>

Verify(c) ==
    /\ at[c] = "verify"
    /\ failed' = (failed \/ mtrrs[core[c]] # "new")
    /\ Goto(c, "on")
    /\ UNCHANGED <<plan, phases, stage, matches, registers>>

CacheOn(c) ==
    /\ at[c] = "on"
    /\ cached' = [cached EXCEPT ![c] = TRUE]
    /\ Goto(c, "done")
    /\ UNCHANGED <<plan, failed, phases, stage, matches, enabled, mtrrs, deaf>>

-----------------------------------------------------------------------------

Update(c) == \/ Preflight(c) \/ Arrive(c) \/ Pass(c) \/ Decide(c)
              \/ CacheOff(c) \/ Disable(c) \/ ClearMask(c) \/ SetMask(c)
              \/ Restore(c) \/ Verify(c) \/ CacheOn(c)

WcNext == Plan \/ Return \/ \E c \in CPU : Update(c)

WcSpec == WcInit /\ [][WcNext]_wcVars

\* Every CPU of the rendezvous runs on.
WcFairSpec == WcSpec /\ WF_wcVars(Plan \/ Return) /\ \A c \in CPU : WF_wcVars(Update(c))

-----------------------------------------------------------------------------
(* Properties *)

\* A CPU that has its cache on runs with its MTRRs enabled and whole, whatever
\* its sibling is doing to them.
CachedOnlySettled ==
    \A c \in CPU : cached[c] => enabled[core[c]] /\ mtrrs[core[c]] # "half"

\* MTRRs change only while every CPU of the machine has its cache off.
ChangedUncached ==
    [][mtrrs' # mtrrs \/ enabled' # enabled => \A c \in CPU : ~cached[c]]_wcVars

\* "No CPU restores a register while another sibling can still disable it or
\* change a mask": masks change only on a core that is disabled.
MasksChangeDisabled ==
    [][\A k \in Core : mtrrs'[k] # mtrrs[k] => ~enabled[k]]_wcVars

\* Preflight binds every CPU: if one of them disagrees with the plan, no
\* register of any core changes.
PreflightBinds ==
    (\E c \in CPU : ~matches[c]) =>
        \A k \in Core : enabled[k] /\ mtrrs[k] = "old"

\* Ok means that the plan is in the registers of every core, also when some
\* of them do not take what is written to them.
OkMeansInstalled ==
    call = "Ok" /\ ~empty => \A k \in Core : mtrrs[k] = "new"

\* All CPUs come through the barriers and the call returns.
CallReturns == <>(call \in {"Ok", "Err"})
=============================================================================
