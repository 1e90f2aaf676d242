------------------------------- MODULE MpInit -------------------------------
(***************************************************************************)
(* x86 multi-processor bring-up: mp_init of crates/arch/src/x86/mp.rs and  *)
(* the SIPI trampoline of crates/arch/asm/sipi_trampoline.S.               *)
(*                                                                         *)
(* One boot processor (BSP) publishes its configuration, starts the        *)
(* application processors (APs), walks the two-step flight plan with them  *)
(* through one barrier per step, and withdraws the configuration before it *)
(* returns.  The APs run concurrently from the moment a SIPI (or the       *)
(* platform's release) reaches them; any of them may be late or silent,    *)
(* and every wait of the BSP is bounded by a timeout.                      *)
(***************************************************************************)
EXTENDS Integers, FiniteSets, Sequences

CONSTANTS AP,        \* application processors present in the machine
          BSP,       \* the boot processor
          MAX_CPUS,  \* static capacity of stacks and mailboxes (mp_capacity.rs)
          LapicId,   \* local APIC id of every CPU
          Config     \* the mp_init configurations considered

CPU == AP \cup {BSP}
MAX_APS == MAX_CPUS - 1

\* The flight plan: step 1 runs the CPU driver on every CPU, step 2 leaves
\* the APs in the mailbox loop.
FLIGHT_PLAN == <<"CpuInit", "ParkAps">>
Step == {1, 2}

MpError == {"NoCpus", "TooManyCpus", "HardwareCpuCountExceedsCapacity",
            "NoApsResponded", "PartialBringup", "CacheabilitySetupFailed",
            "PlatformLaunchFailed", "TrampolinePlacementFailed",
            "UnsupportedCpu"}

\* Program points of the BSP in mp_init and of an AP.
BspLabel == {"validate", "cache", "install", "launch", "sipi", "second_sipi",
             "wait_aps", "finish", "claims", "step_wait", "step_bsp",
             "step_open", "check", "clear", "return", "ok", "err", "halted",
             "reset"}
ApLabel == {"wait_sipi", "replay_wait", "excess", "reset", "replay", "entry",
            "check_in", "arrive", "spin", "load", "drivers", "no_driver",
            "park", "mailbox", "hlt"}

ASSUME CpuAssumption ==
    /\ IsFiniteSet(AP)
    /\ BSP \notin AP
    /\ MAX_CPUS \in Nat \ {0}
    /\ LapicId \in [CPU -> Nat]
    /\ \A c, d \in CPU : LapicId[c] = LapicId[d] => c = d
    /\ Config \subseteq [num_cpus : Nat, max_cpus : Nat, launch : BOOLEAN]

VARIABLES
    config,      \* the MpConfig argument and whether a launcher was passed
    undriven,    \* CPUs that no CPU driver matches
    bsp,         \* where the BSP is in mp_init
    step,        \* the flight-plan step the BSP is at
    finalCount,  \* final_count of fly
    result,      \* "ok" or the MpError mp_init returns
    mpConfig,    \* MP_CONFIG: "null" or "config" once published
    sipi,        \* APs a SIPI or the platform release has reached
    counter,     \* the trampoline's AP ordinal counter
    turn,        \* the trampoline's replay turn
    apCount,     \* AP_COUNT
    entered,     \* STEP_SYNC[..].cpus_entered
    barrier,     \* STEP_SYNC[..].barrier
    errors,      \* CPU_INIT_ERRORS
    online,      \* ONLINE_CPUS
    cpuIndex,    \* MAILBOXES[..].cpu_index
    pc,          \* where each AP is
    apStep,      \* the flight-plan step each AP is at
    ordinal,     \* the ordinal each AP claimed
    slot,        \* the 1-based mailbox each AP polls
    ready        \* CPUs whose driver finished initialising them

bspVars == <<bsp, step, finalCount, result, mpConfig, sipi, online>>
syncVars == <<apCount, entered, barrier, errors, ready>>
apVars == <<pc, apStep, ordinal, slot, counter, turn, cpuIndex>>
vars == <<config, undriven, bspVars, syncVars, apVars>>

-----------------------------------------------------------------------------
(* Configuration *)

max_aps == config.num_cpus - 1

validate_cpu_capacity(max) ==
    IF max = 0 THEN "NoCpus"
    ELSE IF max > MAX_CPUS THEN "TooManyCpus" ELSE "ok"

checked_logical_cpu_count(count, max) ==
    IF count = 0 THEN "NoCpus"
    ELSE IF count > max THEN "HardwareCpuCountExceedsCapacity" ELSE "ok"

\* Mutant: a partial set of APs is accepted.
complete_ap_bringup_Partial(count) == IF count = 0 THEN "NoApsResponded" ELSE "ok"

complete_ap_bringup(count) ==
    IF count = 0 THEN "NoApsResponded"
    ELSE IF count < max_aps THEN "PartialBringup" ELSE "ok"

Init ==
    /\ config \in Config
    /\ undriven \in SUBSET CPU
    /\ bsp = "validate" /\ step = 1 /\ finalCount = 0 /\ result = "ok"
    /\ mpConfig = "null" /\ sipi = {} /\ online = 1
    /\ counter = 0 /\ turn = 0
    /\ apCount = 0 /\ errors = 0 /\ ready = {}
    /\ entered = [s \in Step |-> 0] /\ barrier = [s \in Step |-> 0]
    /\ cpuIndex = [i \in 0..(MAX_APS - 1) |-> 0]
    /\ pc = [a \in AP |-> "wait_sipi"]
    /\ apStep = [a \in AP |-> 1]
    /\ ordinal = [a \in AP |-> 0]
    /\ slot = [a \in AP |-> 0]

-----------------------------------------------------------------------------
(* The BSP *)

\* Leave mp_init before the configuration was published.
FailEarly(e) == bsp' = "err" /\ result' = e

\* Leave fly with an error: the configuration is withdrawn next.
FailFly(e) == bsp' = "clear" /\ result' = e

Validate ==
    LET capacity == validate_cpu_capacity(config.max_cpus)
        count == checked_logical_cpu_count(config.num_cpus, config.max_cpus)
    IN  /\ bsp = "validate"
        /\ \/ capacity # "ok" /\ FailEarly(capacity)
           \/ capacity = "ok" /\ count # "ok" /\ FailEarly(count)
           \/ capacity = "ok" /\ count = "ok" /\ bsp' = "cache" /\ UNCHANGED result
        /\ UNCHANGED <<step, finalCount, mpConfig, sipi, online>>
        /\ UNCHANGED <<config, undriven, syncVars, apVars>>

\* The driver's sipi_msrs may fail; otherwise the pre-MP hooks run, the
\* configuration is published and fly resets the shared counters.
Publish ==
    /\ bsp = "cache"
    /\ \/ /\ FailEarly("CacheabilitySetupFailed")
          /\ UNCHANGED <<mpConfig, syncVars>>
       \/ /\ bsp' = IF max_aps = 0 THEN "step_wait" ELSE "install"
          /\ mpConfig' = "config"
          /\ apCount' = 0 /\ errors' = 0
          /\ entered' = [s \in Step |-> 0] /\ barrier' = [s \in Step |-> 0]
          /\ UNCHANGED <<result, ready>>
    /\ UNCHANGED <<step, finalCount, sipi, online>>
    /\ UNCHANGED <<config, undriven, apVars>>

\* The copied page starts with both trampoline counters at zero; the MSR
\* table may not fit behind the code.
InstallTrampoline ==
    /\ bsp = "install"
    /\ \/ FailFly("TrampolinePlacementFailed")
       \/ /\ max_aps <= MAX_APS
          /\ bsp' = IF config.launch THEN "launch" ELSE "sipi"
          /\ UNCHANGED result
    /\ counter' = 0 /\ turn' = 0
    /\ UNCHANGED <<step, finalCount, mpConfig, sipi, online>>
    /\ UNCHANGED <<pc, apStep, ordinal, slot, cpuIndex>>
    /\ UNCHANGED <<config, undriven, syncVars>>

\* A start request reaches some of the APs.
Reach(next) == \E responders \in SUBSET AP : sipi' = sipi \cup responders /\ next

\* The platform's release may fail after it has let some APs go.
Launch ==
    /\ bsp = "launch"
    /\ Reach(\/ FailFly("PlatformLaunchFailed")
             \/ bsp' = "wait_aps" /\ UNCHANGED result)
    /\ UNCHANGED <<step, finalCount, mpConfig, online>>
    /\ UNCHANGED <<config, undriven, syncVars, apVars>>

FirstSipi ==
    /\ bsp = "sipi"
    /\ Reach(bsp' = "second_sipi")
    /\ UNCHANGED <<step, finalCount, result, mpConfig, online>>
    /\ UNCHANGED <<config, undriven, syncVars, apVars>>

\* Only an incomplete check-in 200 us later triggers the second SIPI.
SecondSipi ==
    /\ bsp = "second_sipi"
    /\ IF apCount < max_aps
       THEN Reach(bsp' = "wait_aps")
       ELSE bsp' = "finish" /\ UNCHANGED sipi
    /\ UNCHANGED <<step, finalCount, result, mpConfig, online>>
    /\ UNCHANGED <<config, undriven, syncVars, apVars>>

\* Mutant: the wait for the APs has no timeout.
WaitAps_Forever ==
    /\ bsp = "wait_aps" /\ apCount >= max_aps
    /\ bsp' = "finish"
    /\ UNCHANGED <<step, finalCount, result, mpConfig, sipi, online>>
    /\ UNCHANGED <<config, undriven, syncVars, apVars>>

\* The wait ends when every AP checked in or 50 ms per AP have passed.
WaitAps ==
    /\ bsp = "wait_aps"
    /\ bsp' = "finish"
    /\ UNCHANGED <<step, finalCount, result, mpConfig, sipi, online>>
    /\ UNCHANGED <<config, undriven, syncVars, apVars>>

\* finish_start snapshots AP_COUNT first and reads the claims afterwards.
SnapshotCount ==
    /\ bsp = "finish"
    /\ finalCount' = apCount
    /\ bsp' = "claims"
    /\ UNCHANGED <<step, result, mpConfig, sipi, online>>
    /\ UNCHANGED <<config, undriven, syncVars, apVars>>

FinishStart ==
    LET verdict == complete_ap_bringup(finalCount)
    IN  /\ bsp = "claims"
        /\ \/ counter > max_aps /\ FailFly("HardwareCpuCountExceedsCapacity")
           \/ counter <= max_aps /\ verdict # "ok" /\ FailFly(verdict)
           \/ /\ counter <= max_aps /\ verdict = "ok"
              /\ bsp' = "step_wait" /\ UNCHANGED result
        /\ UNCHANGED <<step, finalCount, mpConfig, sipi, online>>
        /\ UNCHANGED <<config, undriven, syncVars, apVars>>

\* Mutant: only the first step waits for the APs.
StepWait_FirstOnly ==
    /\ bsp = "step_wait"
    /\ step = 2 \/ entered[step] >= finalCount
    /\ bsp' = "step_bsp"
    /\ UNCHANGED <<step, finalCount, result, mpConfig, sipi, online>>
    /\ UNCHANGED <<config, undriven, syncVars, apVars>>

\* All APs of this step have arrived, or the timeout halts the BSP inside
\* mp_init with the barrier closed.
StepWait ==
    /\ bsp = "step_wait"
    /\ \/ entered[step] >= finalCount /\ bsp' = "step_bsp"
       \/ entered[step] < finalCount /\ bsp' = "halted"
    /\ UNCHANGED <<step, finalCount, result, mpConfig, sipi, online>>
    /\ UNCHANGED <<config, undriven, syncVars, apVars>>

\* The BSP's side of the step: cpu_init in step 1, nothing in step 2.
StepBsp ==
    /\ bsp = "step_bsp"
    /\ bsp' = "step_open"
    /\ IF FLIGHT_PLAN[step] = "CpuInit"
       THEN IF mpConfig = "config" /\ BSP \notin undriven
            THEN ready' = ready \cup {BSP} /\ UNCHANGED errors
            ELSE errors' = errors + 1 /\ UNCHANGED ready
       ELSE UNCHANGED <<errors, ready>>
    /\ UNCHANGED <<step, finalCount, result, mpConfig, sipi, online>>
    /\ UNCHANGED <<apCount, entered, barrier>>
    /\ UNCHANGED <<config, undriven, apVars>>

\* Mutant: the last barrier is never released.
StepOpen_LastClosed ==
    /\ bsp = "step_open"
    /\ IF step = Len(FLIGHT_PLAN)
       THEN bsp' = "check" /\ UNCHANGED <<step, barrier>>
       ELSE /\ barrier' = [barrier EXCEPT ![step] = 1]
            /\ bsp' = "step_wait" /\ step' = step + 1
    /\ UNCHANGED <<finalCount, result, mpConfig, sipi, online>>
    /\ UNCHANGED <<apCount, entered, errors, ready>>
    /\ UNCHANGED <<config, undriven, apVars>>

StepOpen ==
    /\ bsp = "step_open"
    /\ barrier' = [barrier EXCEPT ![step] = 1]
    /\ IF step = Len(FLIGHT_PLAN)
       THEN bsp' = "check" /\ UNCHANGED step
       ELSE bsp' = "step_wait" /\ step' = step + 1
    /\ UNCHANGED <<finalCount, result, mpConfig, sipi, online>>
    /\ UNCHANGED <<apCount, entered, errors, ready>>
    /\ UNCHANGED <<config, undriven, apVars>>

CheckErrors ==
    /\ bsp = "check"
    /\ bsp' = "clear"
    /\ result' = IF errors # 0 THEN "UnsupportedCpu" ELSE "ok"
    /\ UNCHANGED <<step, finalCount, mpConfig, sipi, online>>
    /\ UNCHANGED <<config, undriven, syncVars, apVars>>

clear_mp_globals ==
    /\ bsp = "clear"
    /\ mpConfig' = "null"
    /\ bsp' = "return"
    /\ UNCHANGED <<step, finalCount, result, sipi, online>>
    /\ UNCHANGED <<config, undriven, syncVars, apVars>>

\* mp_init returns and the borrow of its configuration ends.
Return ==
    /\ bsp = "return"
    /\ IF result = "ok"
       THEN bsp' = "ok" /\ online' = finalCount + 1
       ELSE bsp' = "err" /\ UNCHANGED online
    /\ UNCHANGED <<step, finalCount, result, mpConfig, sipi>>
    /\ UNCHANGED <<config, undriven, syncVars, apVars>>

BspNext ==
    \/ Validate \/ Publish \/ InstallTrampoline \/ Launch \/ FirstSipi
    \/ SecondSipi \/ WaitAps \/ SnapshotCount \/ FinishStart \/ StepWait
    \/ StepBsp \/ StepOpen \/ CheckErrors \/ clear_mp_globals \/ Return

-----------------------------------------------------------------------------
(* The APs: the trampoline, then fstart_ap_entry *)

Goto(a, label) == pc' = [pc EXCEPT ![a] = label]

\* lock xadd on the ordinal counter; an ordinal beyond the limit never
\* reaches the stack arena.
Claim(a) ==
    /\ pc[a] = "wait_sipi" /\ a \in sipi
    /\ ordinal' = [ordinal EXCEPT ![a] = counter]
    /\ counter' = counter + 1
    /\ Goto(a, IF counter < max_aps THEN "replay_wait" ELSE "excess")
    /\ UNCHANGED <<apStep, slot, turn, cpuIndex>>
    /\ UNCHANGED <<config, undriven, bspVars, syncVars>>

\* The hard reset stops every CPU.
ResetMachine(a) ==
    /\ pc[a] = "excess"
    /\ bsp' = "reset"
    /\ pc' = [b \in AP |-> "reset"]
    /\ UNCHANGED <<step, finalCount, result, mpConfig, sipi, online>>
    /\ UNCHANGED <<apStep, ordinal, slot, counter, turn, cpuIndex>>
    /\ UNCHANGED <<config, undriven, syncVars>>

\* Mutant: the replay does not wait for its turn.
BeginReplay_NoTurn(a) ==
    /\ pc[a] = "replay_wait"
    /\ Goto(a, "replay")
    /\ UNCHANGED <<apStep, ordinal, slot, counter, turn, cpuIndex>>
    /\ UNCHANGED <<config, undriven, bspVars, syncVars>>

BeginReplay(a) ==
    /\ pc[a] = "replay_wait" /\ turn = ordinal[a]
    /\ Goto(a, "replay")
    /\ UNCHANGED <<apStep, ordinal, slot, counter, turn, cpuIndex>>
    /\ UNCHANGED <<config, undriven, bspVars, syncVars>>

EndReplay(a) ==
    /\ pc[a] = "replay"
    /\ turn' = ordinal[a] + 1
    /\ Goto(a, "entry")
    /\ UNCHANGED <<apStep, ordinal, slot, counter, cpuIndex>>
    /\ UNCHANGED <<config, undriven, bspVars, syncVars>>

\* Mutant: the AP checks in without storing its id.
StoreId_Dropped(a) ==
    /\ pc[a] = "entry"
    /\ Goto(a, "check_in")
    /\ UNCHANGED <<apStep, ordinal, slot, counter, turn, cpuIndex>>
    /\ UNCHANGED <<config, undriven, bspVars, syncVars>>

\* fstart_ap_entry: identify ourselves, then check in.
StoreId(a) ==
    /\ pc[a] = "entry"
    /\ cpuIndex' = IF ordinal[a] < MAX_APS
                   THEN [cpuIndex EXCEPT ![ordinal[a]] = LapicId[a]]
                   ELSE cpuIndex
    /\ Goto(a, "check_in")
    /\ UNCHANGED <<apStep, ordinal, slot, counter, turn>>
    /\ UNCHANGED <<config, undriven, bspVars, syncVars>>

CheckIn(a) ==
    /\ pc[a] = "check_in"
    /\ apCount' = apCount + 1
    /\ Goto(a, "arrive")
    /\ UNCHANGED <<apStep, ordinal, slot, counter, turn, cpuIndex>>
    /\ UNCHANGED <<entered, barrier, errors, ready>>
    /\ UNCHANGED <<config, undriven, bspVars>>

Arrive(a) ==
    /\ pc[a] = "arrive"
    /\ entered' = [entered EXCEPT ![apStep[a]] = @ + 1]
    /\ Goto(a, "spin")
    /\ UNCHANGED <<apStep, ordinal, slot, counter, turn, cpuIndex>>
    /\ UNCHANGED <<apCount, barrier, errors, ready>>
    /\ UNCHANGED <<config, undriven, bspVars>>

PassBarrier(a) ==
    /\ pc[a] = "spin" /\ barrier[apStep[a]] # 0
    /\ Goto(a, IF FLIGHT_PLAN[apStep[a]] = "CpuInit" THEN "load" ELSE "park")
    /\ UNCHANGED <<apStep, ordinal, slot, counter, turn, cpuIndex>>
    /\ UNCHANGED <<config, undriven, bspVars, syncVars>>

\* active_config: the AP holds a reference into the configuration from here
\* until its driver returns.
LoadConfig(a) ==
    /\ pc[a] = "load"
    /\ Goto(a, IF mpConfig = "config" THEN "drivers" ELSE "no_driver")
    /\ UNCHANGED <<apStep, ordinal, slot, counter, turn, cpuIndex>>
    /\ UNCHANGED <<config, undriven, bspVars, syncVars>>

NextStep(a) ==
    /\ Goto(a, "arrive")
    /\ apStep' = [apStep EXCEPT ![a] = @ + 1]

RunDriver(a) ==
    /\ pc[a] = "drivers"
    /\ IF a \in undriven
       THEN Goto(a, "no_driver") /\ UNCHANGED <<apStep, ready>>
       ELSE NextStep(a) /\ ready' = ready \cup {a}
    /\ UNCHANGED <<ordinal, slot, counter, turn, cpuIndex>>
    /\ UNCHANGED <<apCount, entered, barrier, errors>>
    /\ UNCHANGED <<config, undriven, bspVars>>

NoDriver(a) ==
    /\ pc[a] = "no_driver"
    /\ errors' = errors + 1
    /\ NextStep(a)
    /\ UNCHANGED <<ordinal, slot, counter, turn, cpuIndex>>
    /\ UNCHANGED <<apCount, entered, barrier, ready>>
    /\ UNCHANGED <<config, undriven, bspVars>>

\* current_cpu_index on an AP: the first slot that holds its LAPIC id,
\* 1-based, or the id itself.
current_cpu_index(a) ==
    LET matching == {i \in 0..(MAX_APS - 1) : cpuIndex[i] = LapicId[a]}
    IN  IF matching = {} THEN LapicId[a]
        ELSE 1 + CHOOSE i \in matching : \A j \in matching : i <= j

\* An AP without a usable index falls through to the final HLT loop.
ap_mailbox_loop(a) ==
    /\ pc[a] = "park"
    /\ LET index == current_cpu_index(a)
       IN  IF index = 0 \/ index > MAX_APS
           THEN Goto(a, "hlt") /\ UNCHANGED slot
           ELSE Goto(a, "mailbox") /\ slot' = [slot EXCEPT ![a] = index]
    /\ UNCHANGED <<apStep, ordinal, counter, turn, cpuIndex>>
    /\ UNCHANGED <<config, undriven, bspVars, syncVars>>

ApNext(a) ==
    \/ Claim(a) \/ ResetMachine(a) \/ BeginReplay(a) \/ EndReplay(a)
    \/ StoreId(a) \/ CheckIn(a) \/ Arrive(a) \/ PassBarrier(a)
    \/ LoadConfig(a) \/ RunDriver(a) \/ NoDriver(a) \/ ap_mailbox_loop(a)

Next == BspNext \/ \E a \in AP : ApNext(a)

\* Every CPU that runs keeps running: the BSP's waits are all bounded, and an
\* AP that a SIPI reached executes its own instruction stream.  Whether a
\* SIPI reaches an AP is not fair: "sipi" is chosen freely.
Spec == Init /\ [][Next]_vars
FairSpec == Spec /\ WF_vars(BspNext) /\ \A a \in AP : WF_vars(ApNext(a))

-----------------------------------------------------------------------------
(* Properties *)

\* APs that own a stack and a mailbox slot.
Started == {a \in AP : pc[a] \notin {"wait_sipi", "excess", "reset"}}

TypeOK ==
    /\ config \in Config
    /\ undriven \subseteq CPU
    /\ bsp \in BspLabel
    /\ step \in Step
    /\ finalCount \in Nat /\ counter \in Nat /\ turn \in Nat
    /\ apCount \in Nat /\ errors \in Nat /\ online \in Nat
    /\ result \in MpError \cup {"ok"}
    /\ mpConfig \in {"null", "config"}
    /\ sipi \subseteq AP
    /\ entered \in [Step -> Nat]
    /\ barrier \in [Step -> {0, 1}]
    /\ cpuIndex \in [0..(MAX_APS - 1) -> Nat]
    /\ pc \in [AP -> ApLabel]
    /\ apStep \in [AP -> Step]
    /\ ordinal \in [AP -> Nat]
    /\ slot \in [AP -> Nat]
    /\ ready \subseteq CPU

\* mp.rs on MP_CONFIG: "Set before any AP starts and cleared before mp_init
\* returns, so the borrowed CPU drivers outlive every access through it."  No
\* AP reads the pointer, or holds a reference obtained through it, once the
\* BSP has withdrawn the configuration - not even an AP that was late, one
\* that outlived a timeout, or one behind an error return.
DriversOutliveUse ==
    \A a \in AP : pc[a] \in {"load", "drivers"} => mpConfig = "config"

\* complete_ap_bringup: an error of start_aps "leaves every late AP behind a
\* closed barrier": whatever AP still arrives, it never gets past the first
\* barrier.
StartFailureHoldsAps ==
    result \in {"TrampolinePlacementFailed", "PlatformLaunchFailed",
                "NoApsResponded", "PartialBringup",
                "HardwareCpuCountExceedsCapacity"}
      => \A a \in Started : /\ apStep[a] = 1
                            /\ pc[a] \in {"replay_wait", "replay", "entry",
                                          "check_in", "arrive", "spin"}

\* fly's barriers: an AP reaches the mailbox loop only after every started CPU
\* has finished cpu_init, so no dispatched work meets a half-initialised CPU.
ParkAfterInit ==
    (\E a \in AP : pc[a] \in {"park", "mailbox"})
      => \A b \in Started : apStep[b] = 2

\* mp_init returns Ok only if exactly num_cpus CPUs, the BSP included, were
\* each initialised by a matching driver: no error counted by an AP is lost
\* between its increment and the BSP's check, and ONLINE_CPUS tells the truth.
OkMeansAllReady ==
    bsp = "ok" => /\ ready = Started \cup {BSP}
                  /\ Cardinality(ready) = config.num_cpus
                  /\ online = config.num_cpus

\* Trampoline ordinals: two running APs never share a stack, and every stack
\* index lies inside the arena of MAX_APS stacks.
OwnStack ==
    \A a \in Started :
        /\ ordinal[a] < MAX_APS
        /\ \A b \in Started : ordinal[a] = ordinal[b] => a = b

\* "So the APs replay one at a time", in ordinal order: while one AP rewrites
\* its MTRRs every AP of a lower ordinal is done and no other has begun.
ReplayInTurn ==
    \A a, b \in Started :
        pc[a] = "replay" /\ a # b =>
            IF ordinal[b] < ordinal[a] THEN pc[b] \notin {"replay_wait", "replay"}
                                       ELSE pc[b] = "replay_wait"

\* ap_mailbox_loop finds "our mailbox by reading the cpu_index stored in each
\* slot": every AP finds the slot it stored itself, even one whose LAPIC id is
\* zero like the content of a slot nobody has written.
PollsOwnSlot ==
    \A a \in AP : /\ pc[a] # "hlt"
                  /\ pc[a] = "mailbox" => slot[a] = ordinal[a] + 1

\* Every wait of mp_init is bounded: it returns, halts or the machine resets.
BringUpEnds == <>(bsp \in {"ok", "err", "halted", "reset"})

\* After an Ok every started AP ends up polling its mailbox (or an excess AP
\* resets the machine): none is left spinning at a barrier.
OkLeadsToPolling ==
    bsp = "ok" ~> \/ bsp = "reset"
                  \/ \A a \in Started : pc[a] = "mailbox"
=============================================================================
