---------------------------- MODULE MpInitSteps ----------------------------
(***************************************************************************)
(* The steps of mp_init, for any number of APs, any capacity and any set   *)
(* of configurations: the inductive invariant, what every step of the BSP  *)
(* and of an AP leaves alone, and the preservation of all of the invariant *)
(* but the counts.  How the counters follow the sets they count is stated  *)
(* step by step; MpInitProofs turns that into numbers of CPUs.             *)
(***************************************************************************)
EXTENDS MpInit, TLAPS

-----------------------------------------------------------------------------
(* The inductive invariant *)

\* APs that took an ordinal, that checked in, and that arrived at step 2.
Claimed == {a \in AP : pc[a] # "wait_sipi"}
CheckedIn == {a \in Started : pc[a] \notin {"replay_wait", "replay", "entry",
                                            "check_in"}}
Arrived == {a \in AP : apStep[a] = 2 /\ pc[a] # "arrive"}

StartErrors == {"TrampolinePlacementFailed", "PlatformLaunchFailed",
                "NoApsResponded", "PartialBringup",
                "HardwareCpuCountExceedsCapacity"}

\* What an AP's place says about its step and the barriers it has passed.
ApControl ==
    \A a \in AP :
        /\ pc[a] # "reset"
        /\ pc[a] = "wait_sipi" \/ a \in sipi
        /\ pc[a] \in {"wait_sipi", "replay_wait", "excess", "replay", "entry",
                      "check_in", "load", "drivers", "no_driver"} => apStep[a] = 1
        /\ pc[a] \in {"park", "mailbox", "hlt"} => apStep[a] = 2 /\ barrier[2] = 1
        /\ pc[a] \in {"load", "drivers", "no_driver"} => barrier[1] = 1
        /\ apStep[a] = 2 => barrier[1] = 1

\* What the BSP's place says about the barriers and the counts it has seen.
BspControl ==
    /\ bsp \in {"validate", "cache", "install"} => sipi = {} /\ finalCount = 0
    /\ bsp \notin {"validate", "cache", "return", "ok", "err"}
         => mpConfig = "config"
    /\ bsp \notin {"validate", "err"} \/ sipi # {}
         => max_aps \in Nat /\ max_aps <= MAX_APS
    /\ barrier[1] = 1 <=> step = 2
    /\ barrier[2] = 1 => step = 2
    /\ step = 2 => bsp \in {"step_wait", "step_bsp", "step_open", "check",
                            "clear", "return", "ok", "err", "halted"}
    /\ bsp \in {"step_wait", "step_bsp", "step_open", "check", "halted"}
         => finalCount >= max_aps
    /\ step = 2 /\ bsp \notin {"step_wait", "halted"} => entered[2] >= max_aps
    /\ barrier[2] = 1 => bsp \in {"check", "clear", "return", "ok", "err"}
    /\ bsp \in {"check", "ok"} => step = 2
    /\ bsp \in {"clear", "return"} /\ result = "ok" => step = 2
    /\ bsp \notin {"clear", "return", "err"} => result = "ok"
    /\ bsp = "err" => result # "ok"
    /\ result \in StartErrors => step = 1

\* The trampoline's counter hands out every ordinal once.
Ordinals ==
    /\ \A a \in Claimed : ordinal[a] < counter
    /\ \A a, b \in Claimed : ordinal[a] = ordinal[b] => a = b
    /\ \A i \in 0..(counter - 1) : \E a \in Claimed : ordinal[a] = i
    /\ \A a \in Claimed : IF pc[a] = "excess" THEN max_aps <= ordinal[a]
                                             ELSE ordinal[a] < max_aps

\* The turn is the ordinal of the AP that replays or replays next.
Replay ==
    /\ turn <= counter
    /\ \A a \in Started :
        /\ pc[a] = "replay" => turn = ordinal[a]
        /\ pc[a] = "replay_wait" => turn <= ordinal[a]
        /\ pc[a] \notin {"replay_wait", "replay"} => ordinal[a] < turn

\* The shared counters count what they are meant to count.
Counts ==
    /\ entered[2] = Cardinality(Arrived)
    /\ apCount = Cardinality(CheckedIn)
    /\ finalCount <= apCount

Initialised ==
    /\ errors = 0 => \A a \in AP : apStep[a] = 2 => a \in ready
    /\ errors = 0 /\ (step = 2 \/ bsp = "step_open") => BSP \in ready
    /\ \A a \in ready : a = BSP \/ (a \in AP /\ apStep[a] = 2)
    /\ bsp \in {"clear", "return", "ok"} /\ result = "ok" => errors = 0
    /\ bsp \in {"clear", "return", "ok"} /\ result = "ok" => finalCount >= max_aps
    /\ bsp = "ok" => online = finalCount + 1

Slots ==
    \A a \in Started :
        /\ pc[a] \notin {"replay_wait", "replay", "entry"}
             => cpuIndex[ordinal[a]] = LapicId[a]
        /\ pc[a] = "mailbox" => slot[a] = ordinal[a] + 1
        /\ pc[a] # "hlt"

Running == /\ ApControl /\ BspControl /\ Ordinals /\ Replay
           /\ Counts /\ Initialised /\ Slots

IndInv ==
    /\ TypeOK
    /\ bsp # "reset" => Running
    /\ bsp = "reset" => \A a \in AP : pc[a] = "reset"

\* Once as many APs have arrived at step 2 as were asked for, every started AP
\* has.  It is the counting that shows it.
Complete == max_aps \in Nat /\ entered[2] >= max_aps => Started = Arrived

-----------------------------------------------------------------------------
(* Frames: what the steps leave alone *)

\* Only the trampoline's installation touches what the APs own.
LEMMA BspKeepsAps ==
    ASSUME BspNext, ~InstallTrampoline
    PROVE  UNCHANGED <<config, undriven, pc, apStep, ordinal, slot, counter,
                       turn, cpuIndex>>
  BY Zenon DEF BspNext, apVars, Validate, Publish, Launch, FirstSipi, SecondSipi,
     WaitAps, SnapshotCount, FinishStart, StepWait, StepBsp, StepOpen,
     CheckErrors, clear_mp_globals, Return

\* InstallTrampoline resets the trampoline's counters and touches no AP.
LEMMA InstallKeepsAps ==
    ASSUME InstallTrampoline
    PROVE  /\ UNCHANGED <<config, undriven, pc, apStep, ordinal, slot, cpuIndex>>
           /\ counter' = 0 /\ turn' = 0
  BY Zenon DEF InstallTrampoline

\* An AP that runs changes nothing of the BSP's, unless it resets the machine.
LEMMA ApKeepsBsp ==
    ASSUME NEW a \in AP, ApNext(a), ~ResetMachine(a)
    PROVE  UNCHANGED <<config, undriven, bsp, step, finalCount, result, mpConfig,
                       sipi, online, barrier>>
  BY Zenon DEF ApNext, bspVars, syncVars, Claim, BeginReplay, EndReplay,
     StoreId, CheckIn, Arrive, PassBarrier, LoadConfig, RunDriver, NoDriver,
     ap_mailbox_loop

\* A started AP moves to another place beyond the trampoline's wait.
Moved == ApLabel \ {"wait_sipi", "excess", "reset", "replay_wait"}

\* An AP that has started moves alone and keeps its ordinal.
LEMMA ApMoves ==
    ASSUME NEW a \in AP, ApNext(a), ~ResetMachine(a), ~Claim(a)
    PROVE  /\ pc[a] \notin {"wait_sipi", "excess", "reset"}
           /\ \E l \in Moved : pc' = [pc EXCEPT ![a] = l]
           /\ UNCHANGED <<ordinal, counter>>
  BY Zenon DEF ApNext, Moved, ApLabel, Goto, NextStep, BeginReplay, EndReplay,
     StoreId, CheckIn, Arrive, PassBarrier, LoadConfig, RunDriver, NoDriver,
     ap_mailbox_loop

\* An AP that has started stays so: the sets of started and of claimed APs
\* change only when one takes an ordinal.
LEMMA ApKeepsSets ==
    ASSUME NEW a \in AP, TypeOK, ApNext(a), ~ResetMachine(a), ~Claim(a)
    PROVE  /\ Started' = Started /\ Claimed' = Claimed
           /\ \A b \in AP : pc'[b] = "excess" <=> pc[b] = "excess"
<1>1. PICK l \in Moved : pc' = [pc EXCEPT ![a] = l]
  BY Zenon, ApMoves
<1>2. pc[a] \notin {"wait_sipi", "excess", "reset"}
  BY Zenon, ApMoves
<1>3. \A b \in AP : pc'[b] = IF b = a THEN l ELSE pc[b]
  BY Zenon, <1>1 DEF TypeOK
<1>4. l \notin {"wait_sipi", "excess", "reset"}
  BY Zenon DEF Moved
<1> QED
  BY Zenon, <1>2, <1>3, <1>4 DEF Started, Claimed

-----------------------------------------------------------------------------
(* The slot an AP finds, and type correctness *)

\* When the last barrier is open, an AP's first matching slot is its own: every
\* lower slot belongs to another AP that has stored a different id.
LEMMA OwnIndex ==
    ASSUME TypeOK, Running, Complete, NEW a \in AP, pc[a] = "park"
    PROVE  current_cpu_index(a) = ordinal[a] + 1 /\ ordinal[a] < MAX_APS
<1> DEFINE matching == {i \in 0..(MAX_APS - 1) : cpuIndex[i] = LapicId[a]}
           least == CHOOSE i \in matching : \A j \in matching : i <= j
<1> USE DEF Running
<1>1. a \in Started /\ a \in Claimed /\ a \in sipi /\ barrier[2] = 1
  BY Zenon DEF Started, Claimed, ApControl
<1>2. max_aps \in Nat /\ max_aps <= MAX_APS /\ MAX_APS \in Nat
  BY <1>1, CpuAssumption DEF BspControl, MAX_APS
<1>3. entered[2] >= max_aps
  BY Zenon, <1>1 DEF BspControl
<1>4. Started = Arrived
  BY Zenon, <1>2, <1>3 DEF Complete
<1>5. ordinal[a] \in Nat /\ ordinal[a] < max_aps /\ ordinal[a] < counter
      /\ counter \in Nat
  BY Zenon, <1>1 DEF Ordinals, TypeOK, Started
<1>6. ordinal[a] \in matching
  BY <1>1, <1>2, <1>5 DEF Slots
<1>7. ASSUME NEW j \in matching PROVE ordinal[a] <= j
  <2> SUFFICES ASSUME j < ordinal[a] PROVE FALSE
    BY <1>2, <1>5
  <2>1. j \in 0..(counter - 1) /\ j < max_aps
    BY <1>2, <1>5
  <2>2. PICK b \in Claimed : ordinal[b] = j
    BY Zenon, <2>1 DEF Ordinals
  <2>3. b \in AP /\ pc[b] # "excess"
    <3>1. b \in AP /\ b \in Claimed /\ ordinal[b] < max_aps
      BY Zenon, <2>1, <2>2 DEF Claimed
    <3>2. ordinal[b] \in Nat
      BY Zenon, <3>1 DEF TypeOK
    <3> QED
      BY <1>2, <3>1, <3>2 DEF Ordinals
  <2>4. b \in Arrived
    BY Zenon, <2>2, <2>3, <1>4 DEF Started, Claimed, ApControl
  <2>5. pc[b] \notin {"replay_wait", "replay", "entry"} /\ b \in Started
    BY <2>4, <1>4 DEF Arrived, ApControl
  <2>6. cpuIndex[j] = LapicId[b]
    BY Zenon, <2>2, <2>5 DEF Slots
  <2>7. LapicId[b] = LapicId[a]
    BY Zenon, <2>6
  <2>8. a = b
    BY Zenon, <2>3, <2>7, CpuAssumption DEF CPU
  <2> QED
    BY <2>2, <2>8, <1>5
<1>8. least = ordinal[a]
  <2>1. least \in matching /\ \A j \in matching : least <= j
    BY Zenon, <1>6, <1>7
  <2>2. least <= ordinal[a] /\ ordinal[a] <= least
    BY Zenon, <2>1, <1>6, <1>7
  <2>3. matching \subseteq Int
    BY <1>2
  <2> HIDE DEF least, matching
  <2> QED
    BY <1>5, <2>1, <2>2, <2>3
<1>9. current_cpu_index(a) = 1 + least
  BY Zenon, <1>6 DEF current_cpu_index
<1> HIDE DEF least
<1> QED
  BY <1>2, <1>5, <1>8, <1>9

\* mp_init starts from a state of its type.
LEMMA InitType == Init => TypeOK
  BY CpuAssumption DEF Init, TypeOK, Step, CPU, MpError, MAX_APS,
                       BspLabel, ApLabel

\* The number of APs asked for is an integer.
LEMMA MaxApsType == ASSUME TypeOK PROVE max_aps \in Int
  BY CpuAssumption DEF TypeOK, max_aps

\* Every step of the BSP keeps the type.
LEMMA BspType ==
    ASSUME TypeOK, BspNext PROVE TypeOK'
<1> USE DEF TypeOK, Step, MpError, BspLabel
<1>1. CASE Validate
  BY Zenon, <1>1 DEF Validate, FailEarly, validate_cpu_capacity,
     checked_logical_cpu_count, syncVars, apVars
<1>2. CASE Publish
  BY <1>2 DEF Publish, FailEarly, syncVars, apVars
<1>3. CASE InstallTrampoline
  BY Zenon, <1>3 DEF InstallTrampoline, FailFly, syncVars
<1>4. CASE Launch
  BY Zenon, <1>4 DEF Launch, Reach, FailFly, syncVars, apVars
<1>5. CASE FirstSipi
  BY Zenon, <1>5 DEF FirstSipi, Reach, syncVars, apVars
<1>6. CASE SecondSipi
  BY <1>6 DEF SecondSipi, Reach, syncVars, apVars
<1>7. CASE WaitAps
  BY <1>7 DEF WaitAps, syncVars, apVars
<1>8. CASE SnapshotCount
  BY Zenon, <1>8 DEF SnapshotCount, syncVars, apVars
<1>9. CASE FinishStart
  BY Zenon, <1>9 DEF FinishStart, FailFly, complete_ap_bringup, syncVars, apVars
<1>10. CASE StepWait
  BY <1>10 DEF StepWait, syncVars, apVars
<1>11. CASE StepBsp
  BY <1>11 DEF StepBsp, FLIGHT_PLAN, apVars, CPU
<1>12. CASE StepOpen
  BY <1>12 DEF StepOpen, FLIGHT_PLAN, apVars
<1>13. CASE CheckErrors
  BY Zenon, <1>13 DEF CheckErrors, syncVars, apVars
<1>14. CASE clear_mp_globals
  BY Zenon, <1>14 DEF clear_mp_globals, syncVars, apVars
<1>15. CASE Return
  BY <1>15 DEF Return, syncVars, apVars
<1> QED
  BY Zenon, <1>1, <1>2, <1>3, <1>4, <1>5, <1>6, <1>7, <1>8, <1>9, <1>10, <1>11,
     <1>12, <1>13, <1>14, <1>15 DEF BspNext

\* Every step of an AP keeps the type.
LEMMA ApType ==
    ASSUME NEW a \in AP, TypeOK, Running, Complete, ApNext(a)
    PROVE  TypeOK'
<1> USE DEF TypeOK, ApLabel
<1>1. CASE Claim(a)
  BY <1>1 DEF Claim, Goto, bspVars, syncVars
<1>2. CASE ResetMachine(a)
  BY Zenon, <1>2 DEF ResetMachine, syncVars, BspLabel
<1>3. CASE BeginReplay(a)
  BY Zenon, <1>3 DEF BeginReplay, Goto, bspVars, syncVars
<1>4. CASE EndReplay(a)
  BY <1>4 DEF EndReplay, Goto, bspVars, syncVars
<1>5. CASE StoreId(a)
  <2>1. LapicId[a] \in Nat
    BY Zenon, CpuAssumption DEF CPU
  <2> QED
    BY Zenon, <1>5, <2>1 DEF StoreId, Goto, bspVars, syncVars
<1>6. CASE CheckIn(a)
  BY <1>6 DEF CheckIn, Goto, bspVars
<1>7. CASE Arrive(a)
  BY <1>7 DEF Arrive, Goto, bspVars
<1>8. CASE PassBarrier(a)
  BY Zenon, <1>8 DEF PassBarrier, FLIGHT_PLAN, Goto, bspVars, syncVars
<1>9. CASE LoadConfig(a)
  BY Zenon, <1>9 DEF LoadConfig, Goto, bspVars, syncVars
<1>10. CASE RunDriver(a)
  <2>1. apStep[a] = 1
    BY Zenon, <1>10 DEF ApControl, RunDriver, Running
  <2>2. ready' \subseteq CPU
    BY Zenon, <1>10 DEF RunDriver, CPU
  <2>3. pc' \in [AP -> ApLabel]
    BY Zenon, <1>10 DEF RunDriver, NextStep, Goto
  <2>4. apStep' \in [AP -> Step]
    BY <1>10, <2>1 DEF RunDriver, NextStep, Step
  <2> QED
    BY Zenon, <1>10, <2>2, <2>3, <2>4 DEF RunDriver, bspVars
<1>11. CASE NoDriver(a)
  <2>1. apStep[a] = 1
    BY Zenon, <1>11 DEF ApControl, NoDriver, Running
  <2>2. pc' \in [AP -> ApLabel]
    BY Zenon, <1>11 DEF NoDriver, NextStep, Goto
  <2>3. apStep' \in [AP -> Step]
    BY <1>11, <2>1 DEF NoDriver, NextStep, Step
  <2> QED
    BY <1>11, <2>2, <2>3 DEF NoDriver, bspVars
<1>12. CASE ap_mailbox_loop(a)
  <2>1. current_cpu_index(a) \in Nat
    BY <1>12, OwnIndex DEF ap_mailbox_loop
  <2>2. pc' \in [AP -> ApLabel]
    BY Zenon, <1>12 DEF ap_mailbox_loop, Goto
  <2>3. slot' \in [AP -> Nat]
    BY Zenon, <1>12, <2>1 DEF ap_mailbox_loop
  <2> QED
    BY Zenon, <1>12, <2>2, <2>3 DEF ap_mailbox_loop, bspVars, syncVars
<1> QED
  BY Zenon, <1>1, <1>2, <1>3, <1>4, <1>5, <1>6, <1>7, <1>8, <1>9, <1>10, <1>11,
     <1>12 DEF ApNext

-----------------------------------------------------------------------------
(* Steps of the BSP preserve the invariant *)

\* The BSP's steps keep what is said of the places of the APs.
LEMMA BspApControl == ASSUME TypeOK, Running, BspNext PROVE ApControl'
<1>1. UNCHANGED <<pc, apStep>>
  BY Zenon, BspKeepsAps, InstallKeepsAps
<1>2. sipi \subseteq sipi'
  BY Zenon DEF BspNext, Reach, Validate, Publish, InstallTrampoline, Launch,
     FirstSipi, SecondSipi, WaitAps, SnapshotCount, FinishStart, StepWait,
     StepBsp, StepOpen, CheckErrors, clear_mp_globals, Return
<1>3. CASE Publish
  <2>1. \A a \in AP : pc[a] = "wait_sipi" /\ apStep[a] = 1
    BY Zenon, <1>3 DEF Publish, Running, ApControl, BspControl
  <2> QED
    BY <1>1, <2>1 DEF ApControl
<1>4. CASE ~Publish
  <2>1. \A s \in {1, 2} : barrier[s] = 1 => barrier'[s] = 1
    BY Zenon, <1>4 DEF TypeOK, Step, syncVars, BspNext, Validate, InstallTrampoline,
       Launch, FirstSipi, SecondSipi, WaitAps, SnapshotCount, FinishStart,
       StepWait, StepBsp, StepOpen, CheckErrors, clear_mp_globals, Return
  <2> QED
    BY Zenon, <1>1, <1>2, <2>1 DEF Running, ApControl
<1> QED
  BY Zenon, <1>3, <1>4

\* The BSP's steps keep what is said of its own place.
LEMMA BspBspControl ==
    ASSUME TypeOK, Running, BspNext PROVE BspControl'
<1> USE DEF Running, BspControl, max_aps
<1>1. CASE Validate
  <2>1. /\ config.num_cpus \in Nat /\ config.max_cpus \in Nat
        /\ MAX_CPUS \in Nat /\ MAX_APS = MAX_CPUS - 1
    BY Zenon, CpuAssumption DEF TypeOK, MAX_APS
  <2>2. step = 1 /\ barrier[2] # 1
    BY Zenon, <1>1 DEF Validate, TypeOK, Step
  <2>3. CASE bsp' = "err"
    BY Zenon, <1>1, <2>2, <2>3 DEF Validate, FailEarly, validate_cpu_capacity,
       checked_logical_cpu_count, syncVars, apVars
  <2>4. CASE bsp' = "cache"
    BY <1>1, <2>1, <2>2, <2>4 DEF Validate, FailEarly, validate_cpu_capacity,
       checked_logical_cpu_count, syncVars, apVars
  <2> QED
    BY Zenon, <1>1, <2>3, <2>4 DEF Validate, FailEarly
<1>2. CASE Publish
  <2>1. step = 1 /\ barrier[1] # 1 /\ barrier[2] # 1
    BY Zenon, <1>2 DEF Publish, TypeOK, Step
  <2>2. CASE bsp' = "err"
    BY Zenon, <1>2, <2>1, <2>2 DEF Publish, FailEarly, syncVars, apVars,
       StartErrors
  <2>3. CASE bsp' # "err"
    BY <1>2, <2>1, <2>3 DEF Publish, FailEarly, Step, apVars
  <2> QED
    BY Zenon, <2>2, <2>3
<1>3. CASE InstallTrampoline
  <2>1. step = 1
    BY Zenon, <1>3 DEF InstallTrampoline, TypeOK, Step
  <2> QED
    BY Zenon, <1>3, <2>1 DEF InstallTrampoline, FailFly, syncVars
<1>4. CASE Launch
  <2>1. step = 1
    BY Zenon, <1>4 DEF Launch, TypeOK, Step
  <2> QED
    BY Zenon, <1>4, <2>1 DEF Launch, Reach, FailFly, syncVars, apVars
<1>5. CASE FirstSipi
  BY Zenon, <1>5 DEF FirstSipi, Reach, syncVars, apVars
<1>6. CASE SecondSipi
  BY Zenon, <1>6 DEF SecondSipi, Reach, syncVars, apVars
<1>7. CASE WaitAps
  BY Zenon, <1>7 DEF WaitAps, syncVars, apVars
<1>8. CASE SnapshotCount
  BY Zenon, <1>8 DEF SnapshotCount, syncVars, apVars
<1>9. CASE FinishStart
  <2>1. step = 1 /\ finalCount \in Nat /\ config.num_cpus - 1 \in Int
    BY Zenon, <1>9, MaxApsType DEF FinishStart, TypeOK, Step
  <2> QED
    BY <1>9, <2>1 DEF FinishStart, FailFly, complete_ap_bringup, syncVars, apVars
<1>10. CASE StepWait
  <2>1. entered[step] \in Nat /\ finalCount \in Nat /\ config.num_cpus - 1 \in Int
    BY Zenon, MaxApsType DEF TypeOK, Step
  <2>2. /\ bsp' = "step_bsp" => entered[step] >= config.num_cpus - 1
        /\ bsp' \in {"step_bsp", "halted"}
    BY <1>10, <2>1 DEF StepWait
  <2> QED
    BY Zenon, <1>10, <2>2 DEF StepWait, syncVars, apVars
<1>11. CASE StepBsp
  BY Zenon, <1>11 DEF StepBsp, FLIGHT_PLAN, apVars
<1>12. CASE StepOpen
  <2>1. /\ barrier'[step] = 1
        /\ \A s \in {1, 2} : s # step => barrier'[s] = barrier[s]
    BY Zenon, <1>12 DEF StepOpen, TypeOK, Step
  <2>2. CASE step = 1
    <3>1. step' = 2 /\ bsp' = "step_wait"
      BY <1>12, <2>2 DEF StepOpen, FLIGHT_PLAN
    <3> QED
      BY Zenon, <1>12, <2>1, <2>2, <3>1 DEF StepOpen, apVars, StartErrors
  <2>3. CASE step = 2
    <3>1. step' = 2 /\ bsp' = "check"
      BY Zenon, <1>12, <2>3 DEF StepOpen, FLIGHT_PLAN
    <3> QED
      BY Zenon, <1>12, <2>1, <2>3, <3>1 DEF StepOpen, apVars
  <2> QED
    BY Zenon, <2>2, <2>3 DEF TypeOK, Step
<1>13. CASE CheckErrors
  BY Zenon, <1>13 DEF CheckErrors, syncVars, apVars, StartErrors
<1>14. CASE clear_mp_globals
  BY Zenon, <1>14 DEF clear_mp_globals, syncVars, apVars
<1>15. CASE Return
  BY Zenon, <1>15 DEF Return, syncVars, apVars
<1> QED
  BY Zenon, <1>1, <1>2, <1>3, <1>4, <1>5, <1>6, <1>7, <1>8, <1>9, <1>10, <1>11,
     <1>12, <1>13, <1>14, <1>15 DEF BspNext

\* The BSP's steps keep the ordinals distinct and dense.
LEMMA BspOrdinals == ASSUME TypeOK, Running, BspNext PROVE Ordinals'
<1>1. CASE InstallTrampoline
  <2>1. Claimed = {}
    BY Zenon, <1>1 DEF InstallTrampoline, Running, ApControl, BspControl,
       Claimed
  <2>2. Claimed' = {}
    BY Zenon, <1>1, <2>1, InstallKeepsAps DEF Claimed
  <2> QED
    BY <1>1, <2>2, InstallKeepsAps DEF Ordinals
<1>2. CASE ~InstallTrampoline
  BY <1>2, BspKeepsAps DEF Running, Ordinals, Claimed, max_aps
<1> QED
  BY Zenon, <1>1, <1>2

\* The BSP's steps leave the replay turn as it is.
LEMMA BspReplay == ASSUME TypeOK, Running, BspNext PROVE Replay'
<1>1. CASE InstallTrampoline
  <2>1. Started = {}
    BY Zenon, <1>1 DEF InstallTrampoline, Running, ApControl, BspControl,
       Started
  <2>2. Started' = {}
    BY Zenon, <1>1, <2>1, InstallKeepsAps DEF Started
  <2> QED
    BY <1>1, <2>2, InstallKeepsAps DEF Replay
<1>2. CASE ~InstallTrampoline
  BY Zenon, <1>2, BspKeepsAps DEF Running, Replay, Started
<1> QED
  BY Zenon, <1>1, <1>2

\* The BSP's steps leave the slots of the APs alone.
LEMMA BspSlots == ASSUME TypeOK, Running, BspNext PROVE Slots'
<1>1. UNCHANGED <<pc, ordinal, slot, cpuIndex>>
  BY Zenon, BspKeepsAps, InstallKeepsAps
<1> QED
  BY Zenon, <1>1 DEF Running, Slots, Started

\* The BSP's steps leave the counters alone, take the snapshot, or start the
\* count when nobody has come yet.
LEMMA BspCounting ==
    ASSUME TypeOK, Running, BspNext
    PROVE  /\ Arrived' = Arrived /\ CheckedIn' = CheckedIn
           /\ \/ UNCHANGED <<finalCount, apCount, entered>>
              \/ finalCount' = apCount /\ UNCHANGED <<apCount, entered>>
              \/ /\ Arrived = {} /\ CheckedIn = {}
                 /\ finalCount' = 0 /\ apCount' = 0 /\ entered'[2] = 0
<1>1. UNCHANGED <<pc, apStep>>
  BY Zenon, BspKeepsAps, InstallKeepsAps
<1>2. Arrived' = Arrived /\ CheckedIn' = CheckedIn
  BY Zenon, <1>1 DEF Arrived, CheckedIn, Started
<1>3. CASE Publish /\ ~UNCHANGED syncVars
  <2>1. \A a \in AP : pc[a] = "wait_sipi" /\ apStep[a] = 1
    BY Zenon, <1>3 DEF Publish, Running, ApControl, BspControl
  <2>2. Arrived = {} /\ CheckedIn = {}
    BY <2>1 DEF Arrived, CheckedIn, Started
  <2>3. finalCount' = 0 /\ apCount' = 0 /\ entered'[2] = 0
    BY Zenon, <1>3 DEF Publish, Running, BspControl, Step
  <2> QED
    BY Zenon, <1>2, <2>2, <2>3
<1>4. CASE SnapshotCount
  BY Zenon, <1>2, <1>4 DEF SnapshotCount, syncVars
<1>5. CASE ~SnapshotCount /\ ~(Publish /\ ~UNCHANGED syncVars)
  <2>1. UNCHANGED <<finalCount, apCount, entered>>
    BY Zenon, <1>5 DEF syncVars, BspNext, Validate, Publish, InstallTrampoline, Launch,
       FirstSipi, SecondSipi, WaitAps, FinishStart, StepWait, StepBsp, StepOpen,
       CheckErrors, clear_mp_globals, Return
  <2> QED
    BY Zenon, <1>2, <2>1
<1> QED
  BY Zenon, <1>3, <1>4, <1>5

\* The BSP's steps keep the account of initialised CPUs.
LEMMA BspInitialised ==
    ASSUME TypeOK, Running, BspNext PROVE Initialised'
<1> USE DEF Running, Initialised, max_aps
<1>1. CASE Validate
  BY Zenon, <1>1 DEF Validate, FailEarly, validate_cpu_capacity,
     checked_logical_cpu_count, syncVars, apVars, BspControl
<1>2. CASE Publish
  BY Zenon, <1>2 DEF Publish, FailEarly, syncVars, apVars, ApControl, BspControl
<1>3. CASE InstallTrampoline
  BY Zenon, <1>3 DEF InstallTrampoline, FailFly, syncVars, BspControl
<1>4. CASE Launch
  BY Zenon, <1>4 DEF Launch, Reach, FailFly, syncVars, apVars, BspControl
<1>5. CASE FirstSipi
  BY Zenon, <1>5 DEF FirstSipi, Reach, syncVars, apVars, BspControl
<1>6. CASE SecondSipi
  BY Zenon, <1>6 DEF SecondSipi, Reach, syncVars, apVars, BspControl
<1>7. CASE WaitAps
  BY Zenon, <1>7 DEF WaitAps, syncVars, apVars, BspControl
<1>8. CASE SnapshotCount
  BY Zenon, <1>8 DEF SnapshotCount, syncVars, apVars, BspControl
<1>9. CASE FinishStart
  BY Zenon, <1>9 DEF FinishStart, FailFly, complete_ap_bringup, syncVars,
     apVars, BspControl
<1>10. CASE StepWait
  BY Zenon, <1>10 DEF StepWait, syncVars, apVars, BspControl
<1>11. CASE StepBsp
  <2>1. errors \in Nat /\ bsp' = "step_open" /\ UNCHANGED <<step, apStep>>
    BY Zenon, <1>11 DEF StepBsp, apVars, TypeOK
  <2>2. CASE step = 1
    <3>1. \/ ready' = ready \cup {BSP} /\ errors' = errors
          \/ ready' = ready /\ errors' = errors + 1
      BY Zenon, <1>11, <2>2 DEF StepBsp, FLIGHT_PLAN
    <3>2. errors + 1 # 0
      BY <2>1
    <3> QED
      BY Zenon, <2>1, <2>2, <3>1, <3>2
  <2>3. CASE step = 2
    <3>1. UNCHANGED <<errors, ready>>
      BY Zenon, <1>11, <2>3 DEF StepBsp, FLIGHT_PLAN
    <3> QED
      BY Zenon, <2>1, <2>3, <3>1
  <2> QED
    BY Zenon, <2>2, <2>3 DEF TypeOK, Step
<1>12. CASE StepOpen
  BY Zenon, <1>12 DEF StepOpen, FLIGHT_PLAN, apVars, BspControl, TypeOK, Step
<1>13. CASE CheckErrors
  BY Zenon, <1>13 DEF CheckErrors, syncVars, apVars, BspControl
<1>14. CASE clear_mp_globals
  BY Zenon, <1>14 DEF clear_mp_globals, syncVars, apVars, BspControl
<1>15. CASE Return
  BY Zenon, <1>15 DEF Return, syncVars, apVars, BspControl
<1> QED
  BY Zenon, <1>1, <1>2, <1>3, <1>4, <1>5, <1>6, <1>7, <1>8, <1>9, <1>10, <1>11,
     <1>12, <1>13, <1>14, <1>15 DEF BspNext

-----------------------------------------------------------------------------
(* Steps of an AP preserve the invariant *)

\* An AP's steps keep what is said of the BSP's place.
LEMMA ApBspControl ==
    ASSUME NEW a \in AP, TypeOK, Running, ApNext(a), ~ResetMachine(a)
    PROVE  BspControl'
<1>1. entered'[2] \in Nat /\ entered[2] \in Nat /\ entered'[2] >= entered[2]
  <2>1. CASE Arrive(a)
    BY <2>1 DEF Arrive, TypeOK, Step
  <2>2. CASE ~Arrive(a)
    <3>1. entered' = entered
      BY Zenon, <2>2 DEF syncVars, ApNext, Claim, BeginReplay, EndReplay, StoreId,
         CheckIn, PassBarrier, LoadConfig, RunDriver, NoDriver, ap_mailbox_loop
    <3>2. entered[2] \in Nat
      BY Zenon DEF TypeOK, Step
    <3> QED
      BY <3>1, <3>2
  <2> QED
    BY Zenon, <2>1, <2>2
<1>2. entered[2] >= max_aps => entered'[2] >= max_aps
  BY <1>1, MaxApsType
<1>3. UNCHANGED max_aps
  BY Zenon, ApKeepsBsp DEF max_aps
<1> QED
  BY Zenon, <1>2, <1>3, ApKeepsBsp DEF Running, BspControl

\* What the locked increment in the trampoline does.
LEMMA ClaimEffect ==
    ASSUME NEW a \in AP, TypeOK, Claim(a)
    PROVE  /\ pc[a] = "wait_sipi" /\ a \in sipi
           /\ pc'[a] = IF counter < max_aps THEN "replay_wait" ELSE "excess"
           /\ ordinal'[a] = counter /\ counter' = counter + 1
           /\ \A b \in AP \ {a} : pc'[b] = pc[b] /\ ordinal'[b] = ordinal[b]
           /\ UNCHANGED <<config, apStep, slot, turn, cpuIndex, entered, apCount,
                          barrier, errors, ready>>
           /\ Claimed' = Claimed \cup {a} /\ a \notin Claimed
  BY Zenon DEF Claim, Goto, TypeOK, Claimed, syncVars

\* An AP's steps keep the ordinals distinct and dense.
LEMMA ApOrdinals ==
    ASSUME NEW a \in AP, TypeOK, Running, ApNext(a), ~ResetMachine(a)
    PROVE  Ordinals'
<1>1. UNCHANGED max_aps /\ max_aps \in Int
  BY Zenon, ApKeepsBsp, MaxApsType DEF max_aps
<1>2. CASE Claim(a)
  <2>1. /\ pc'[a] = IF counter < max_aps THEN "replay_wait" ELSE "excess"
        /\ ordinal'[a] = counter /\ counter' = counter + 1 /\ counter \in Nat
        /\ Claimed' = Claimed \cup {a} /\ a \notin Claimed
    BY Zenon, <1>2, ClaimEffect DEF TypeOK
  <2>2. \A b \in Claimed : /\ ordinal'[b] = ordinal[b] /\ pc'[b] = pc[b]
                           /\ ordinal[b] \in Nat /\ ordinal[b] < counter
    BY Zenon, <1>2, ClaimEffect DEF Claimed, TypeOK, Running, Ordinals
  <2>3. \A b \in Claimed' : ordinal'[b] < counter'
    BY <2>1, <2>2
  <2>4. \A b, c \in Claimed' : ordinal'[b] = ordinal'[c] => b = c
    BY <2>1, <2>2 DEF Running, Ordinals
  <2>5. \A i \in 0..(counter' - 1) : \E b \in Claimed' : ordinal'[b] = i
    <3> SUFFICES ASSUME NEW i \in 0..(counter' - 1)
                 PROVE  \E b \in Claimed' : ordinal'[b] = i
      OBVIOUS
    <3>1. CASE i = counter
      BY Zenon, <3>1, <2>1
    <3>2. CASE i # counter
      <4>1. i \in 0..(counter - 1)
        BY <3>2, <2>1
      <4>2. PICK b \in Claimed : ordinal[b] = i
        BY Zenon, <4>1 DEF Running, Ordinals
      <4> QED
        BY Zenon, <4>2, <2>1, <2>2
    <3> QED
      BY Zenon, <3>1, <3>2
  <2>6. \A b \in Claimed' : IF pc'[b] = "excess" THEN max_aps <= ordinal'[b]
                                               ELSE ordinal'[b] < max_aps
    <3>1. \A b \in Claimed : IF pc'[b] = "excess" THEN max_aps <= ordinal'[b]
                                                ELSE ordinal'[b] < max_aps
      BY Zenon, <2>2 DEF Running, Ordinals
    <3>2. IF pc'[a] = "excess" THEN max_aps <= ordinal'[a] ELSE ordinal'[a] < max_aps
      BY <1>1, <2>1
    <3> QED
      BY Zenon, <2>1, <3>1, <3>2
  <2> QED
    BY Zenon, <1>1, <2>3, <2>4, <2>5, <2>6 DEF Ordinals
<1>3. CASE ~Claim(a)
  <2>1. /\ Claimed' = Claimed /\ UNCHANGED <<ordinal, counter>>
        /\ \A b \in Claimed : pc'[b] = "excess" <=> pc[b] = "excess"
    BY Zenon, <1>3, ApMoves, ApKeepsSets DEF Claimed
  <2> QED
    BY <1>1, <2>1 DEF Running, Ordinals
<1> QED
  BY Zenon, <1>2, <1>3

\* An AP's steps pass the replay turn on in order.
LEMMA ApReplay ==
    ASSUME NEW a \in AP, TypeOK, Running, ApNext(a), ~ResetMachine(a)
    PROVE  Replay'
<1>1. CASE Claim(a)
  <2>1. \A b \in Started' : b \in Started \/ (b = a /\ pc'[a] = "replay_wait")
    BY Zenon, <1>1, ClaimEffect DEF Started
  <2>2. \A b \in Started : b # a /\ b \in AP
    BY Zenon, <1>1, ClaimEffect DEF Started
  <2>3. turn \in Nat /\ counter \in Nat /\ turn <= counter
    BY Zenon DEF TypeOK, Running, Replay
  <2> QED
    BY <1>1, <2>1, <2>2, <2>3, ClaimEffect DEF Running, Replay
<1>2. CASE ~Claim(a) /\ ~EndReplay(a)
  <2>1. UNCHANGED <<turn, ordinal, counter>> /\ Started' = Started
    BY Zenon, <1>2, ApMoves, ApKeepsSets DEF ApNext, BeginReplay, StoreId, CheckIn,
       Arrive, PassBarrier, LoadConfig, RunDriver, NoDriver, ap_mailbox_loop
  <2>2. CASE BeginReplay(a)
    <3>1. /\ pc'[a] = "replay" /\ turn = ordinal[a]
          /\ \A b \in AP \ {a} : pc'[b] = pc[b]
      BY Zenon, <2>2 DEF BeginReplay, Goto, TypeOK
    <3> QED
      BY Zenon, <2>1, <3>1 DEF Running, Replay, Started
  <2>3. CASE ~BeginReplay(a)
    <3>1. pc[a] \notin {"replay_wait", "replay"} /\ a \in Started
      BY Zenon, <1>2, <2>3 DEF Started, ApNext, Claim, StoreId, CheckIn, Arrive,
         PassBarrier, LoadConfig, RunDriver, NoDriver, ap_mailbox_loop
    <3>2. pc'[a] \notin {"replay_wait", "replay"}
      BY Zenon, <1>2, <2>3 DEF TypeOK, Goto, NextStep, ApNext, StoreId, CheckIn,
         Arrive, PassBarrier, LoadConfig, RunDriver, NoDriver, ap_mailbox_loop
    <3>3. \A b \in AP \ {a} : pc'[b] = pc[b]
      BY Zenon, <1>2, ApMoves DEF TypeOK
    <3> QED
      BY Zenon, <2>1, <3>1, <3>2, <3>3 DEF Running, Replay, Started
  <2> QED
    BY Zenon, <2>2, <2>3
<1>3. CASE EndReplay(a)
  <2>1. /\ turn' = ordinal[a] + 1 /\ UNCHANGED <<ordinal, counter>>
        /\ pc[a] = "replay" /\ pc'[a] = "entry"
        /\ \A b \in AP \ {a} : pc'[b] = pc[b]
    BY Zenon, <1>3 DEF EndReplay, Goto, TypeOK
  <2>2. a \in Started /\ a \in Claimed /\ ordinal[a] \in Nat /\ counter \in Nat
    BY Zenon, <2>1 DEF Started, Claimed, TypeOK
  <2>3. turn = ordinal[a] /\ ordinal[a] < counter
    BY Zenon, <2>1, <2>2 DEF Running, Replay, Ordinals
  <2>4. ASSUME NEW b \in Started'
        PROVE  /\ pc'[b] = "replay" => turn' = ordinal'[b]
               /\ pc'[b] = "replay_wait" => turn' <= ordinal'[b]
               /\ pc'[b] \notin {"replay_wait", "replay"} => ordinal'[b] < turn'
    <3>1. CASE b = a
      BY <3>1, <2>1, <2>2
    <3>2. CASE b # a
      <4>1. pc[b] = pc'[b] /\ b \in Started /\ b \in Claimed /\ ordinal[b] \in Nat
        BY Zenon, <3>2, <2>1 DEF Started, Claimed, TypeOK
      <4>2. ordinal[a] # ordinal[b]
        BY Zenon, <3>2, <4>1, <2>2 DEF Running, Ordinals
      <4>3. /\ pc[b] = "replay" => turn = ordinal[b]
            /\ pc[b] = "replay_wait" => turn <= ordinal[b]
            /\ pc[b] \notin {"replay_wait", "replay"} => ordinal[b] < turn
        BY Zenon, <4>1 DEF Running, Replay
      <4> QED
        BY <4>1, <4>2, <4>3, <2>1, <2>2, <2>3
    <3> QED
      BY Zenon, <3>1, <3>2
  <2> QED
    BY <2>1, <2>2, <2>3, <2>4 DEF Replay
<1> QED
  BY Zenon, <1>1, <1>2, <1>3

\* An AP's steps keep what is said of its place.
LEMMA ApApControl ==
    ASSUME NEW a \in AP, TypeOK, Running, ApNext(a), ~ResetMachine(a) PROVE ApControl'
<1> USE DEF Running, ApControl, TypeOK
<1>1. CASE Claim(a)
  BY Zenon, <1>1 DEF Claim, Goto, bspVars, syncVars
<1>2. CASE ResetMachine(a)
  BY Zenon, <1>2
<1>3. CASE BeginReplay(a)
  BY <1>3 DEF BeginReplay, Goto, bspVars, syncVars
<1>4. CASE EndReplay(a)
  BY Zenon, <1>4 DEF EndReplay, Goto, bspVars, syncVars
<1>5. CASE StoreId(a)
  BY <1>5 DEF StoreId, Goto, CPU, bspVars, syncVars
<1>6. CASE CheckIn(a)
  BY Zenon, <1>6 DEF CheckIn, Goto, bspVars
<1>7. CASE Arrive(a)
  BY Zenon, <1>7 DEF Arrive, Goto, bspVars
<1>8. CASE PassBarrier(a)
  <2>1. barrier[apStep[a]] = 1 /\ apStep[a] \in {1, 2}
    BY <1>8 DEF PassBarrier, Step
  <2>2. /\ pc[a] = "spin" /\ UNCHANGED <<apStep, barrier, sipi>>
        /\ pc'[a] = IF apStep[a] = 1 THEN "load" ELSE "park"
        /\ \A b \in AP \ {a} : pc'[b] = pc[b]
    BY <1>8, <2>1 DEF PassBarrier, FLIGHT_PLAN, Goto, bspVars, syncVars
  <2> QED
    BY Zenon, <2>1, <2>2
<1>9. CASE LoadConfig(a)
  BY Zenon, <1>9 DEF LoadConfig, Goto, bspVars, syncVars
<1>10. CASE RunDriver(a)
  BY <1>10 DEF RunDriver, NextStep, Goto, CPU, bspVars
<1>11. CASE NoDriver(a)
  BY Zenon, <1>11 DEF NoDriver, NextStep, Goto, bspVars
<1>12. CASE ap_mailbox_loop(a)
  BY <1>12 DEF ap_mailbox_loop, Goto, bspVars, syncVars
<1> QED
  BY Zenon, <1>1, <1>2, <1>3, <1>4, <1>5, <1>6, <1>7, <1>8, <1>9, <1>10, <1>11,
     <1>12 DEF ApNext

\* An AP's steps count it once when it checks in and once when it arrives at
\* step 2, and leave the counters alone otherwise.
LEMMA ApCounting ==
    ASSUME NEW a \in AP, TypeOK, Running, ApNext(a), ~ResetMachine(a)
    PROVE  \/ /\ Arrived' = Arrived /\ entered'[2] = entered[2]
              /\ CheckedIn' = CheckedIn /\ apCount' = apCount
           \/ /\ Arrived' = Arrived /\ entered'[2] = entered[2]
              /\ CheckedIn' = CheckedIn \cup {a} /\ a \notin CheckedIn
              /\ apCount' = apCount + 1
           \/ /\ Arrived' = Arrived \cup {a} /\ a \notin Arrived
              /\ entered'[2] = entered[2] + 1
              /\ CheckedIn' = CheckedIn /\ apCount' = apCount
<1>2. CASE CheckIn(a)
  BY <1>2 DEF CheckIn, Goto, Arrived, CheckedIn, Started, Running, ApControl, TypeOK
<1>3. CASE Arrive(a)
  <2>1. CheckedIn' = CheckedIn /\ apCount' = apCount
    BY Zenon, <1>3 DEF Arrive, Goto, CheckedIn, Started, TypeOK
  <2>2. CASE apStep[a] = 1
    <3>1. Arrived' = Arrived /\ entered'[2] = entered[2]
      BY <1>3, <2>2 DEF Arrive, Goto, Arrived, TypeOK, Step
    <3> QED
      BY Zenon, <2>1, <3>1
  <2>3. CASE apStep[a] = 2
    <3>1. /\ Arrived' = Arrived \cup {a} /\ a \notin Arrived
          /\ entered'[2] = entered[2] + 1
      BY Zenon, <1>3, <2>3 DEF Arrive, Goto, Arrived, TypeOK, Step
    <3> QED
      BY Zenon, <2>1, <3>1
  <2> QED
    BY Zenon, <2>2, <2>3 DEF TypeOK, Step
<1>4. CASE ~CheckIn(a) /\ ~Arrive(a)
  <2>1. UNCHANGED <<apCount, entered>>
    BY Zenon, <1>4 DEF syncVars, ApNext, Claim, BeginReplay, EndReplay, StoreId,
       PassBarrier, LoadConfig, RunDriver, NoDriver, ap_mailbox_loop
  <2>2. /\ a \in Arrived <=> (a \in Arrived)'
        /\ a \in CheckedIn <=> (a \in CheckedIn)'
    <3>1. CASE RunDriver(a) \/ NoDriver(a)
      <4>1. pc[a] \in {"drivers", "no_driver"} /\ apStep[a] = 1
        BY Zenon, <3>1 DEF RunDriver, NoDriver, Running, ApControl
      <4>2. /\ pc'[a] \in {"arrive", "no_driver"}
            /\ pc'[a] = "arrive" \/ apStep'[a] = 1
        BY Zenon, <3>1, <4>1 DEF RunDriver, NoDriver, NextStep, Goto, TypeOK
      <4>3. a \in Started /\ (a \in Started)'
        BY Zenon, <4>1, <4>2 DEF Started
      <4>4. a \in CheckedIn /\ (a \in CheckedIn)'
        BY Zenon, <4>1, <4>2, <4>3 DEF CheckedIn
      <4>5. a \notin Arrived /\ ~(a \in Arrived)'
        BY <4>1, <4>2 DEF Arrived
      <4> QED
        BY Zenon, <4>4, <4>5
    <3>2. CASE Claim(a)
      <4>1. /\ pc[a] = "wait_sipi" /\ pc'[a] \in {"replay_wait", "excess"}
            /\ apStep' = apStep /\ apStep[a] = 1
        BY Zenon, <3>2, ClaimEffect DEF Running, ApControl
      <4> QED
        BY Zenon, <4>1 DEF Arrived, CheckedIn, Started
    <3>3. CASE ~(RunDriver(a) \/ NoDriver(a)) /\ ~Claim(a)
      <4> DEFINE early == {"replay_wait", "replay", "entry", "check_in"}
      <4>1. /\ apStep' = apStep /\ pc[a] # "arrive" /\ pc'[a] # "arrive"
            /\ pc[a] \in early <=> pc'[a] \in early
        BY <1>4, <3>3 DEF TypeOK, Goto, ApNext, BeginReplay, EndReplay, StoreId,
           PassBarrier, LoadConfig, ap_mailbox_loop
      <4>2. a \in Started <=> (a \in Started)'
        BY Zenon, <1>4, <3>3, ApKeepsSets
      <4> QED
        BY Zenon, <4>1, <4>2 DEF Arrived, CheckedIn
    <3> QED
      BY Zenon, <3>1, <3>2, <3>3
  <2>3. \A b \in AP \ {a} : pc'[b] = pc[b] /\ apStep'[b] = apStep[b]
    BY Zenon, <1>4 DEF TypeOK, Goto, NextStep, ApNext, Claim, BeginReplay, EndReplay,
       StoreId, PassBarrier, LoadConfig, RunDriver, NoDriver, ap_mailbox_loop
  <2>4. Arrived' = Arrived /\ CheckedIn' = CheckedIn
    BY ZenonT(30), <2>2, <2>3 DEF Arrived, CheckedIn, Started
  <2> QED
    BY Zenon, <2>1, <2>4
<1> QED
  BY Zenon, <1>2, <1>3, <1>4

\* An AP's steps keep the account of initialised CPUs.
LEMMA ApInitialised ==
    ASSUME NEW a \in AP, TypeOK, Running, Complete, ApNext(a), ~ResetMachine(a)
    PROVE  Initialised'
<1>1. /\ UNCHANGED <<bsp, step, finalCount, result, online, max_aps>>
      /\ a # BSP /\ errors \in Nat
  BY Zenon, ApKeepsBsp, CpuAssumption DEF max_aps, TypeOK
<1>2. CASE RunDriver(a) /\ a \notin undriven
  <2>1. /\ ready' = ready \cup {a} /\ apStep'[a] = 2 /\ errors' = errors
        /\ \A b \in AP \ {a} : apStep'[b] = apStep[b]
    BY <1>2 DEF RunDriver, NextStep, TypeOK, Running, ApControl
  <2> QED
    BY Zenon, <1>1, <2>1 DEF Running, Initialised
<1>3. CASE NoDriver(a)
  <2>1. /\ errors' = errors + 1 /\ ready' = ready
        /\ pc[a] = "no_driver" /\ apStep[a] = 1 /\ apStep'[a] = 2
        /\ \A b \in AP \ {a} : apStep'[b] = apStep[b]
    BY <1>3 DEF NoDriver, NextStep, TypeOK, Running, ApControl
  <2>2. ~(bsp \in {"clear", "return", "ok"} /\ result = "ok")
    <3> SUFFICES ASSUME bsp \in {"clear", "return", "ok"}, result = "ok"
                 PROVE  FALSE
      OBVIOUS
    <3>1. entered[2] >= max_aps /\ max_aps \in Nat
      BY Zenon DEF Running, BspControl
    <3>2. Started = Arrived
      BY Zenon, <3>1 DEF Complete
    <3>3. a \in Started /\ a \notin Arrived
      BY <2>1 DEF Started, Arrived
    <3> QED
      BY Zenon, <3>2, <3>3
  <2>3. errors' # 0
    BY <1>1, <2>1
  <2> QED
    BY Zenon, <1>1, <2>1, <2>2, <2>3 DEF Running, Initialised
<1>4. CASE ~NoDriver(a) /\ ~(RunDriver(a) /\ a \notin undriven)
  <2>1. UNCHANGED <<errors, ready, apStep>>
    BY Zenon, <1>4 DEF syncVars, ApNext, Claim, BeginReplay, EndReplay, StoreId,
       CheckIn, Arrive, PassBarrier, LoadConfig, RunDriver, ap_mailbox_loop
  <2> QED
    BY Zenon, <1>1, <2>1 DEF Running, Initialised
<1> QED
  BY Zenon, <1>2, <1>3, <1>4

\* An AP that was let in has a stack inside the arena.
LEMMA StackInArena ==
    ASSUME TypeOK, Running, NEW a \in Started
    PROVE  ordinal[a] \in 0..(MAX_APS - 1) /\ ordinal[a] < MAX_APS
<1>1. a \in sipi /\ a \in Claimed /\ pc[a] # "excess" /\ ordinal[a] \in Nat
  BY Zenon DEF Running, ApControl, Started, Claimed, TypeOK
<1>2. max_aps \in Nat /\ max_aps <= MAX_APS
  <2>1. sipi # {}
    BY Zenon, <1>1
  <2> QED
    BY Zenon, <2>1 DEF Running, BspControl
<1>4. MAX_APS \in Int
  BY CpuAssumption DEF MAX_APS
<1>3. ordinal[a] < max_aps
  BY Zenon, <1>1 DEF Running, Ordinals
<1> QED
  BY <1>1, <1>2, <1>4, <1>3

\* An AP's steps keep the slots right: it finds the one it stored.
LEMMA ApSlots ==
    ASSUME NEW a \in AP, TypeOK, Running, Complete, ApNext(a), ~ResetMachine(a)
    PROVE  Slots'
<1>1. CASE Claim(a)
  <2>1. \A b \in Started' : b \in Started \/ (b = a /\ pc'[a] = "replay_wait")
    BY Zenon, <1>1, ClaimEffect DEF Started
  <2>2. \A b \in Started : b # a /\ b \in AP
    BY Zenon, <1>1, ClaimEffect DEF Started
  <2>3. /\ \A b \in AP \ {a} : pc'[b] = pc[b] /\ ordinal'[b] = ordinal[b]
        /\ UNCHANGED <<slot, cpuIndex>>
    BY Zenon, <1>1, ClaimEffect
  <2> QED
    BY Zenon, <2>1, <2>2, <2>3 DEF Running, Slots
<1>2. CASE StoreId(a)
  <2>1. /\ pc[a] = "entry" /\ pc'[a] = "check_in" /\ UNCHANGED <<ordinal, slot>>
        /\ \A b \in AP \ {a} : pc'[b] = pc[b]
    BY Zenon, <1>2 DEF StoreId, Goto, TypeOK
  <2>2. a \in Started /\ a \in Claimed
    BY Zenon, <2>1 DEF Started, Claimed
  <2>3. ordinal[a] \in 0..(MAX_APS - 1) /\ ordinal[a] < MAX_APS
    BY Zenon, <2>2, StackInArena
  <2>4. cpuIndex' = [cpuIndex EXCEPT ![ordinal[a]] = LapicId[a]]
    BY Zenon, <1>2, <2>3 DEF StoreId
  <2>5. /\ cpuIndex'[ordinal[a]] = LapicId[a]
        /\ \A i \in 0..(MAX_APS - 1) : i # ordinal[a] => cpuIndex'[i] = cpuIndex[i]
    BY Zenon, <2>3, <2>4 DEF TypeOK
  <2>6. ASSUME NEW b \in Started, b # a
        PROVE  cpuIndex'[ordinal[b]] = cpuIndex[ordinal[b]]
    <3>1. ordinal[b] \in 0..(MAX_APS - 1)
      BY Zenon, StackInArena
    <3>2. ordinal[b] # ordinal[a]
      BY Zenon, <2>2, <2>6 DEF Running, Ordinals, Started, Claimed
    <3> QED
      BY Zenon, <2>5, <3>1, <3>2
  <2>7. Started' = Started
    BY Zenon, <2>1 DEF Started
  <2> QED
    BY Zenon, <2>1, <2>5, <2>6, <2>7 DEF Running, Slots, Started
<1>3. CASE ap_mailbox_loop(a)
  <2>1. current_cpu_index(a) = ordinal[a] + 1 /\ ordinal[a] < MAX_APS
    BY Zenon, <1>3, OwnIndex DEF ap_mailbox_loop
  <2>2. ordinal[a] \in Nat /\ MAX_APS \in Int
    BY CpuAssumption DEF TypeOK, MAX_APS
  <2>3. ~(current_cpu_index(a) = 0 \/ current_cpu_index(a) > MAX_APS)
    BY <2>1, <2>2
  <2>4. /\ pc[a] = "park" /\ pc'[a] = "mailbox" /\ UNCHANGED <<ordinal, cpuIndex>>
        /\ slot'[a] = ordinal[a] + 1
        /\ \A b \in AP \ {a} : pc'[b] = pc[b] /\ slot'[b] = slot[b]
    BY Zenon, <1>3, <2>1, <2>3 DEF ap_mailbox_loop, Goto, TypeOK
  <2>5. Started' = Started
    BY Zenon, <2>4 DEF Started
  <2> QED
    BY Zenon, <2>4, <2>5 DEF Running, Slots, Started
<1>4. CASE ~Claim(a) /\ ~StoreId(a) /\ ~ap_mailbox_loop(a)
  <2>1. UNCHANGED <<ordinal, slot, cpuIndex>> /\ Started' = Started
    BY Zenon, <1>4, ApMoves, ApKeepsSets DEF ApNext, BeginReplay, EndReplay, CheckIn,
       Arrive, PassBarrier, LoadConfig, RunDriver, NoDriver
  <2>2. /\ pc[a] \in {"replay_wait", "replay", "entry"}
             <=> pc'[a] \in {"replay_wait", "replay", "entry"}
           \/ pc'[a] = "entry"
        /\ pc'[a] \notin {"mailbox", "hlt"}
    BY Zenon, <1>4 DEF TypeOK, Goto, NextStep, ApNext, BeginReplay, EndReplay, CheckIn,
       Arrive, PassBarrier, LoadConfig, RunDriver, NoDriver
  <2>3. \A b \in AP \ {a} : pc'[b] = pc[b]
    BY Zenon, <1>4, ApMoves DEF TypeOK
  <2> QED
    BY Zenon, <2>1, <2>2, <2>3 DEF Running, Slots, Started
<1> QED
  BY Zenon, <1>1, <1>2, <1>3, <1>4

=============================================================================
