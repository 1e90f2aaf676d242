---------------------------- MODULE MpInitProofs ----------------------------
(***************************************************************************)
(* The safety of mp_init for any number of APs, any capacity and any set   *)
(* of configurations: the facts about counting CPUs the invariant needs,   *)
(* its induction over the steps of MpInitSteps, and what follows from it.  *)
(***************************************************************************)
EXTENDS MpInitSteps, FiniteSetTheorems

-----------------------------------------------------------------------------
(* Counting the APs *)

\* Ordinals are distinct and below the limit, so no more APs start than the
\* trampoline was told to accept.
LEMMA StartedBound ==
    ASSUME TypeOK, ApControl, Ordinals, max_aps \in Nat
    PROVE  IsFiniteSet(Started) /\ Cardinality(Started) <= max_aps
<1> DEFINE f == [a \in Started |-> ordinal[a]]
<1>1. f \in Injection(Started, 0..(max_aps - 1))
  <2>1. Started \subseteq Claimed
    BY DEF Started, Claimed
  <2>2. \A a \in Started : ordinal[a] \in 0..(max_aps - 1)
    BY DEF TypeOK, Ordinals, Started, Claimed
  <2> QED
    BY <2>1, <2>2 DEF Ordinals, Injection, IsInjective
<1>2. IsFiniteSet(0..(max_aps - 1)) /\ Cardinality(0..(max_aps - 1)) = max_aps
  BY FS_Interval
<1> HIDE DEF f
<1> QED
  BY <1>1, <1>2, FS_Injection

\* Once max_aps APs have arrived at step 2, every started AP has.
LEMMA AllArrived ==
    ASSUME TypeOK, ApControl, Ordinals, Counts, max_aps \in Nat,
           entered[2] >= max_aps
    PROVE  Started = Arrived /\ Cardinality(Started) = max_aps
<1>1. Arrived \in SUBSET Started
  BY DEF Arrived, Started, ApControl
<1>2. IsFiniteSet(Started) /\ Cardinality(Started) <= max_aps
  BY StartedBound
<1>3. Cardinality(Arrived) <= Cardinality(Started)
  BY <1>1, <1>2, FS_Subset
<1>4. Cardinality(Arrived) >= max_aps
  BY DEF Counts
<1>5. Cardinality(Started) \in Nat /\ Cardinality(Arrived) \in Nat
  BY <1>1, <1>2, FS_Subset, FS_CardinalityType
<1>6. Cardinality(Started) = Cardinality(Arrived) /\ Cardinality(Started) = max_aps
  BY <1>2, <1>3, <1>4, <1>5
<1> QED
  BY Zenon, <1>1, <1>2, <1>6, FS_Subset

\* The counting gives what the steps of the APs rely on.
LEMMA CompleteHolds ==
    ASSUME TypeOK, Running
    PROVE  Complete
  BY AllArrived DEF Complete, Running

\* The sets that are counted are finite.
LEMMA SetsFinite == IsFiniteSet(Arrived) /\ IsFiniteSet(CheckedIn)
  BY CpuAssumption, FS_Subset DEF Arrived, CheckedIn, Started

\* The BSP's steps keep the counters equal to what they count.
LEMMA BspCounts == ASSUME TypeOK, Running, BspNext PROVE Counts'
<1>1. Counts /\ apCount \in Nat
  BY Zenon DEF Running, TypeOK
<1>2. Arrived = {} => Cardinality(Arrived) = 0
  BY Zenon, FS_EmptySet
<1>3. CheckedIn = {} => Cardinality(CheckedIn) = 0
  BY Zenon, FS_EmptySet
<1> QED
  BY <1>1, <1>2, <1>3, BspCounting DEF Counts

\* An AP's steps keep the counters equal to what they count.
LEMMA ApCounts ==
    ASSUME NEW a \in AP, TypeOK, Running, ApNext(a), ~ResetMachine(a)
    PROVE  Counts'
<1>1. Counts /\ finalCount \in Nat /\ apCount \in Nat
  BY Zenon DEF Running, TypeOK
<1>2. finalCount' = finalCount
  BY Zenon, ApKeepsBsp
<1>3. a \notin CheckedIn => Cardinality(CheckedIn \cup {a}) = Cardinality(CheckedIn) + 1
  BY Zenon, SetsFinite, FS_AddElement
<1>4. a \notin Arrived => Cardinality(Arrived \cup {a}) = Cardinality(Arrived) + 1
  BY Zenon, SetsFinite, FS_AddElement
<1> QED
  BY <1>1, <1>2, <1>3, <1>4, ApCounting DEF Counts

-----------------------------------------------------------------------------
(* The theorems *)

\* The invariant holds when mp_init is called.
LEMMA InitInv == Init => IndInv
<1> SUFFICES ASSUME Init PROVE IndInv
  OBVIOUS
<1>1. TypeOK
  BY InitType
<1>2. Started = {} /\ Arrived = {} /\ CheckedIn = {} /\ Claimed = {}
  BY DEF Init, Started, Arrived, CheckedIn, Claimed
<1>3. ApControl /\ BspControl
  BY DEF Init, ApControl, BspControl, Step, StartErrors
<1>4. Ordinals /\ Replay /\ Slots
  BY <1>2 DEF Init, Ordinals, Replay, Slots
<1>5. Counts
  BY <1>2, FS_EmptySet DEF Init, Counts, Step
<1>6. Initialised
  BY DEF Init, Initialised
<1> QED
  BY <1>1, <1>3, <1>4, <1>5, <1>6 DEF IndInv, Running, Init

\* The invariant is inductive.
LEMMA NextInv == IndInv /\ [Next]_vars => IndInv'
<1> SUFFICES ASSUME IndInv, [Next]_vars PROVE IndInv'
  OBVIOUS
<1>1. CASE BspNext
  <2>1. bsp # "reset"
    BY Zenon, <1>1 DEF BspNext, Validate, Publish, InstallTrampoline, Launch, FirstSipi,
       SecondSipi, WaitAps, SnapshotCount, FinishStart, StepWait, StepBsp,
       StepOpen, CheckErrors, clear_mp_globals, Return
  <2>2. TypeOK /\ Running
    BY <2>1 DEF IndInv
  <2>3. TypeOK'
    BY <1>1, <2>2, BspType
  <2>4. Running'
    BY <1>1, <2>2, BspApControl, BspBspControl, BspOrdinals, BspReplay,
       BspCounts, BspInitialised, BspSlots DEF Running
  <2>5. bsp' # "reset"
    BY Zenon, <1>1 DEF BspNext, Validate, Publish, InstallTrampoline, Launch, FirstSipi,
       SecondSipi, WaitAps, SnapshotCount, FinishStart, StepWait, StepBsp,
       StepOpen, CheckErrors, clear_mp_globals, Return, FailEarly, FailFly, Reach
  <2> QED
    BY <2>3, <2>4, <2>5 DEF IndInv
<1>2. ASSUME NEW a \in AP, ApNext(a) PROVE IndInv'
  <2>1. pc[a] # "reset"
    BY Zenon, <1>2 DEF ApNext, Claim, ResetMachine, BeginReplay, EndReplay, StoreId,
       CheckIn, Arrive, PassBarrier, LoadConfig, RunDriver, NoDriver, ap_mailbox_loop
  <2>2. bsp # "reset" /\ TypeOK /\ Running
    BY <2>1 DEF IndInv
  <2>3. Complete
    BY Zenon, <2>2, CompleteHolds
  <2>6. TypeOK'
    BY Zenon, <1>2, <2>2, <2>3, ApType
  <2>4. CASE ~ResetMachine(a)
    <3>1. Running'
      BY Zenon, <1>2, <2>2, <2>3, <2>4, ApApControl, ApBspControl, ApOrdinals,
         ApReplay, ApCounts, ApInitialised, ApSlots DEF Running
    <3>2. bsp' # "reset"
      BY <1>2, <2>2, <2>4, ApKeepsBsp
    <3> QED
      BY Zenon, <2>6, <3>1, <3>2 DEF IndInv
  <2>5. CASE ResetMachine(a)
    <3>1. bsp' = "reset" /\ \A b \in AP : pc'[b] = "reset"
      BY <2>5 DEF ResetMachine
    <3> QED
      BY Zenon, <2>6, <3>1 DEF IndInv
  <2> QED
    BY <2>4, <2>5
<1>3. CASE UNCHANGED vars
  <2> USE <1>3 DEF vars, bspVars, syncVars, apVars
  <2>1. TypeOK'
    BY DEF IndInv, TypeOK
  <2>2. /\ Started' = Started /\ Claimed' = Claimed /\ CheckedIn' = CheckedIn
        /\ Arrived' = Arrived /\ max_aps' = max_aps
    BY Zenon DEF Started, Claimed, CheckedIn, Arrived, max_aps
  <2>3. Running => ApControl' /\ BspControl'
    BY Zenon, <2>2 DEF Running, ApControl, BspControl
  <2>4. Running => Ordinals' /\ Replay' /\ Slots'
    BY Zenon, <2>2 DEF Running, Ordinals, Replay, Slots
  <2>5. Running => Counts' /\ Initialised'
    BY <2>2 DEF Running, Counts, Initialised
  <2> QED
    BY <2>1, <2>3, <2>4, <2>5 DEF IndInv, Running
<1> QED
  BY <1>1, <1>2, <1>3 DEF Next

\* Every behaviour of mp_init keeps the inductive invariant.
THEOREM Invariance == Spec => []IndInv
  BY InitInv, NextInv, PTL DEF Spec

\* The type invariant of bring-up, for any machine.
THEOREM TypeSafety == Spec => []TypeOK
<1>1. IndInv => TypeOK
  BY DEF IndInv
<1> QED
  BY <1>1, Invariance, PTL

\* The comment on MP_CONFIG in mp.rs, for any number of APs: no AP touches the
\* borrowed drivers once the configuration is withdrawn.  After a withdrawal
\* behind an open barrier max_aps APs have arrived at step 2, and no more than
\* max_aps ever start, so none is left in cpu_init.
THEOREM DriversOutliveUseHolds == Spec => []DriversOutliveUse
<1>1. IndInv => DriversOutliveUse
  <2> SUFFICES ASSUME IndInv, NEW a \in AP, pc[a] \in {"load", "drivers"}
               PROVE  mpConfig = "config"
    BY DEF DriversOutliveUse
  <2>1. TypeOK /\ Running
    BY DEF IndInv
  <2>2. apStep[a] = 1 /\ barrier[1] = 1 /\ a \in sipi
    BY <2>1 DEF Running, ApControl
  <2>3. a \in Started /\ a \notin Arrived
    BY <2>2 DEF Started, Arrived
  <2>4. max_aps \in Nat /\ step = 2
    BY <2>1, <2>2 DEF Running, BspControl
  <2>5. ~(entered[2] >= max_aps)
    BY <2>1, <2>3, <2>4, AllArrived DEF Running
  <2>6. bsp \in {"step_wait", "halted"}
    BY <2>1, <2>4, <2>5 DEF Running, BspControl
  <2> QED
    BY <2>1, <2>6 DEF Running, BspControl
<1> QED
  BY <1>1, Invariance, PTL

\* The comment in complete_ap_bringup: an error of start_aps leaves every late
\* AP behind the closed first barrier.
THEOREM StartFailureHoldsApsHolds == Spec => []StartFailureHoldsAps
<1>1. IndInv => StartFailureHoldsAps
  <2> SUFFICES ASSUME IndInv, result \in StartErrors, NEW a \in Started
               PROVE  /\ apStep[a] = 1
                      /\ pc[a] \in {"replay_wait", "replay", "entry",
                                    "check_in", "arrive", "spin"}
    BY DEF StartFailureHoldsAps, StartErrors
  <2>1. bsp # "reset"
    BY DEF IndInv, Started
  <2>2. step = 1 /\ barrier[1] = 0 /\ barrier[2] = 0
    BY <2>1 DEF IndInv, Running, BspControl, TypeOK, Step
  <2> QED
    BY <2>1, <2>2 DEF IndInv, Running, ApControl, TypeOK, Step, ApLabel, Started
<1> QED
  BY <1>1, Invariance, PTL

\* No AP reaches the mailbox loop before every started CPU left cpu_init.
THEOREM ParkAfterInitHolds == Spec => []ParkAfterInit
<1>1. IndInv => ParkAfterInit
  <2> SUFFICES ASSUME IndInv, NEW a \in AP, pc[a] \in {"park", "mailbox"},
                      NEW b \in Started
               PROVE  apStep[b] = 2
    BY DEF ParkAfterInit
  <2>1. TypeOK /\ Running
    BY DEF IndInv
  <2>2. barrier[2] = 1 /\ a \in sipi
    BY <2>1 DEF Running, ApControl
  <2>3. max_aps \in Nat /\ entered[2] >= max_aps
    BY <2>1, <2>2 DEF Running, BspControl
  <2> QED
    BY <2>1, <2>3, AllArrived DEF Running, Arrived
<1> QED
  BY <1>1, Invariance, PTL

\* An Ok of mp_init means that exactly num_cpus CPUs were initialised.
THEOREM OkMeansAllReadyHolds == Spec => []OkMeansAllReady
<1>1. IndInv => OkMeansAllReady
  <2> SUFFICES ASSUME IndInv, bsp = "ok"
               PROVE  /\ ready = Started \cup {BSP}
                      /\ Cardinality(ready) = config.num_cpus
                      /\ online = config.num_cpus
    BY DEF OkMeansAllReady
  <2>1. TypeOK /\ Running
    BY DEF IndInv
  <2>2. /\ step = 2 /\ result = "ok" /\ errors = 0 /\ finalCount >= max_aps
        /\ online = finalCount + 1 /\ entered[2] >= max_aps /\ max_aps \in Nat
    BY <2>1 DEF Running, BspControl, Initialised
  <2>3. Started = Arrived /\ Cardinality(Started) = max_aps /\ IsFiniteSet(Started)
    BY <2>1, <2>2, AllArrived, StartedBound DEF Running
  <2>4. Started = {a \in AP : apStep[a] = 2}
    BY <2>1, <2>3 DEF Running, ApControl, Arrived, Started
  <2>5. ready = Started \cup {BSP}
    <3>1. BSP \in ready /\ Started \subseteq ready
      BY <2>1, <2>2, <2>4 DEF Running, Initialised
    <3>2. ready \subseteq Started \cup {BSP}
      BY <2>1, <2>4 DEF Running, Initialised
    <3> QED
      BY <3>1, <3>2
  <2>6. config.num_cpus \in Nat /\ config.num_cpus = max_aps + 1
    BY <2>1, CpuAssumption DEF TypeOK, max_aps
  <2>7. BSP \notin Started
    BY CpuAssumption DEF Started
  <2>8. Cardinality(ready) = max_aps + 1
    BY <2>3, <2>5, <2>7, FS_AddElement
  <2>9. finalCount <= max_aps
    <3>1. CheckedIn \in SUBSET Started
      BY DEF CheckedIn
    <3>2. Cardinality(CheckedIn) <= max_aps
      BY <2>3, <3>1, FS_Subset
    <3> QED
      BY <2>1, <2>2, <3>2 DEF Running, Counts, TypeOK
  <2> QED
    BY <2>1, <2>2, <2>5, <2>6, <2>8, <2>9 DEF TypeOK
<1> QED
  BY <1>1, Invariance, PTL

\* No two running APs share a stack and none lies outside the arena.
THEOREM OwnStackHolds == Spec => []OwnStack
<1>1. IndInv => OwnStack
  <2> SUFFICES ASSUME IndInv, NEW a \in Started
               PROVE  /\ ordinal[a] < MAX_APS
                      /\ \A b \in Started : ordinal[a] = ordinal[b] => a = b
    BY DEF OwnStack
  <2>1. TypeOK /\ Running
    BY DEF IndInv, Started
  <2>2. Started \subseteq Claimed
    BY DEF Started, Claimed
  <2>3. ordinal[a] < MAX_APS
    BY <2>1, StackInArena
  <2> QED
    BY <2>1, <2>2, <2>3 DEF Running, Ordinals
<1> QED
  BY <1>1, Invariance, PTL

\* The trampoline's promise "the APs replay one at a time", in ordinal order.
THEOREM ReplayInTurnHolds == Spec => []ReplayInTurn
<1>1. IndInv => ReplayInTurn
  <2> SUFFICES ASSUME IndInv, NEW a \in Started, NEW b \in Started,
                      pc[a] = "replay", a # b
               PROVE  IF ordinal[b] < ordinal[a]
                      THEN pc[b] \notin {"replay_wait", "replay"}
                      ELSE pc[b] = "replay_wait"
    BY DEF ReplayInTurn
  <2>1. TypeOK /\ Running
    BY DEF IndInv, Started
  <2>2. ordinal[a] \in Nat /\ ordinal[b] \in Nat /\ ordinal[a] # ordinal[b]
    BY <2>1 DEF Running, Ordinals, TypeOK, Started, Claimed
  <2>3. turn = ordinal[a]
    BY <2>1 DEF Running, Replay
  <2>4. /\ pc[b] = "replay" => turn = ordinal[b]
        /\ pc[b] = "replay_wait" => turn <= ordinal[b]
        /\ pc[b] \notin {"replay_wait", "replay"} => ordinal[b] < turn
    BY <2>1 DEF Running, Replay
  <2>5. CASE ordinal[b] < ordinal[a]
    BY <2>2, <2>3, <2>4, <2>5
  <2>6. CASE ~(ordinal[b] < ordinal[a])
    BY <2>2, <2>3, <2>4, <2>6
  <2> QED
    BY <2>5, <2>6
<1> QED
  BY <1>1, Invariance, PTL

\* Every AP in the mailbox loop polls the slot of its own ordinal.
THEOREM PollsOwnSlotHolds == Spec => []PollsOwnSlot
<1>1. IndInv => PollsOwnSlot
  BY DEF IndInv, Running, Slots, PollsOwnSlot, Started
<1> QED
  BY <1>1, Invariance, PTL

=============================================================================
