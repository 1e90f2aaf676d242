# Formal models of fstart

fstart is firmware in Rust for x86, ARM and RISC-V boards. These TLA+ modules
model the parts of it in which several processors, a power failure or a late
event can meet the code between any two of its steps. TLC checks every module on
small instances. TLAPS proves the safety properties and the refinements of all of
them for any number of processors, records and firmware images.

`PROJECT.json` is the machine-readable side: components, runs, the source lines
behind every definition, known hazards and the list of theorems.

## The system

A boot runs through stages: bootblock (cache-as-RAM, memory training), postcar,
ramstage (devices, processors, SMM, tables), payload. What holds state and can
be hit in the middle:

| Part | Source (`src/crates/`) | Module |
|---|---|---|
| AP bring-up: trampoline, flight plan, barriers | `arch/src/x86/mp.rs`, `arch/asm/sipi_trampoline.S` | `MpInit` |
| Work dispatch to APs and parking | `arch/src/x86/mp.rs` | `MpDispatch`, implementing `ScopeWork` |
| Flash journal of memory training | `platform-intel/src/memory_cache.rs` | `Journal`, implementing `AtomicCell` |
| Cold boot, suspend and resume with the journal | `platform-intel/src/{bootblock,postcar,ramstage,boot}.rs`, `driver-intel/src/ich7/mod.rs` | `MemoryCache`, composed with `Journal` |
| SMM installation, SMBASE relocation, SMRAM lock | `arch/src/x86/cpu/intel/smm.rs`, `driver-intel/src/southbridge/smi.rs` | `SmmRelocation` |
| SMI entry and rendezvous | `smm/src/{stage,handler}.rs` | `SmmRendezvous`, extended by the next two |
| ICH SMI sources, ThinkPad X60 handler | `driver-intel/src/southbridge/smi.rs`, `boards/lenovo/x60/src/smm.rs` | `IchSmi` |
| SP3 error journal and SEL forwarding | `platform-sp3/src/smm/ras.rs`, `driver-amd/src/sp3/ccx/ras.rs` | `Sp3Smm`, implementing `SelLog` |
| Write-combining MTRRs on all CPUs | `arch/src/x86/mtrr/wc.rs` | `MtrrWc` |
| Ledger of loaded memory, device-tree workspace | `stage/src/{loaded,fdt_workspace,ffs_helpers,fit,directory}.rs` | `LoadLedger` |
| Measured boot | `tcg/src/{lib,log}.rs`, `stage/src/tcg.rs`, `payload/src/lib.rs` | `MeasuredBoot` |
| Flash writes through the ICH SPI controller | `driver-intel/src/southbridge/spi.rs` | `CacheSpi` |
| Flash console | `driver-flash-console/src/lib.rs` | `FlashConsole`, composed with `CacheSpi` |
| Stage cache, store, filesystem, AMD installer, console lock, PCI, FDT | see "Not modelled" | none |
| Memory training, graphics, ACPI tables, boards, host tools | the bulk of the source | not modelled |

The last row is register programming whose outcome only the hardware decides,
byte layout, constants, or code that runs on the build host. It has no
interleaving and little state, and a model of it would repeat the code.

## Modules

### `MpInit`: bringing up the application processors

State: the BSP's place in `mp_init` (`bsp`), each AP's place from the SIPI to the
mailbox loop (`pc`), the counters and barriers they share, the configuration
pointer and the mailbox slots. The actions follow the code from `Validate` to
`Return` on the BSP, and from `Claim` (the trampoline's locked increment) through
the MTRR replay, `StoreId`, `CheckIn`, `Arrive` and `PassBarrier` to
`ap_mailbox_loop` on an AP. Every access to a shared word is a step of its own.
SIPIs may be lost, APs may be late, there may be more of them than stacks (which
resets the machine), CPUs may have no driver, and every wait of the BSP may run
out.

### `MpHandle`, `MpDispatch` and `ScopeWork`: running closures on APs

`MpHandle` is the handle bring-up returns: the number of APs and the numbering of the
CPUs, with the BSP as CPU 0. Everything that runs work on all CPUs extends it.
`ScopeWork` is what a caller of `MpHandle::scope` may rely on: each addressed CPU
runs the closure of the current call once, no other CPU runs it, the call
returns when all have finished, and the BSP runs a `scatter` last. `MpDispatch`
has the mailboxes with `func` and `data` stored and loaded in separate steps, the
four scope methods, barriers inside a `rendezvous`, and both parking calls with
their timeout. It implements `ScopeWork`, with the mapping `work`, `Pending` and its
neighbours at the end of the module. With no APs `scatter` and `rendezvous` still run
the closure on the BSP, and return at once after it (`Returned`).

### `Journal` and `AtomicCell`: the training record in flash

`AtomicCell` is one value, replaced in one step or not at all. `Journal` has the
two banks of header, payload and commit word, and one action for each flash
operation of `save`. A program operation may have any part of its effect and
report success or failure; an erase that fails leaves anything; the power may be
cut at any step. The digest is abstracted to what it tells apart: a complete
header with its own payload, or not. Sequence numbers wrap at `SEQ` (2^32 in the
code) and are compared as the code does, by the sign of the wrapped difference.

### `MemoryCache`: boots, suspends and resumes

Composes `Journal` with the bootblock, postcar and ramstage around it and an
environment that cuts power, exchanges memory modules, updates the flash, suspends
and wakes. A training result belongs to a set of modules (`dimm_of`); a key stands
for `runtime_key`. `image` is the training a suspended OS was written with.

The boot path is not given: `detect_s3_resume` finds it in the chipset's WAK_STS and
SLP_TYP and clears SLP_TYP. What a failure does depends on where it happens, as in
the code:

| Where | Failure | Outcome |
|---|---|---|
| bootblock before the detection (`enter_Fails`) | any | halt, the indication is kept |
| `dram_init` (`raminit_Resets`) | a controller that needs a reset | reset on any path |
| bootblock behind it, ramstage phases (`Fail`) | any | a resume resets, a cold boot halts |
| postcar (`load_ramstage_Fails`) | no valid cached stage on a resume | reset |
| postcar | anything else: layout, console, store, a stage in flash | halt on any path |
| ramstage up to its console (`ramstage_Halts`) | any | halt on any path |
| `boot` (`Boot_Resets`) | CPUs that cannot be parked | reset on any path |

So a resume may also stop at a halt, and `ResumeEnds` counts that as an end. What it
excludes is a resume that resets and is taken for a resume again. A halt before the
detection leaves the indication and the self-refreshed memory alone, and the next
reset resumes.

### `SmmRelocation`: moving every CPU out of the default SMI window

The BSP's `install` with each of its error returns, `relocate_one` on every CPU
with one step per store to the bridge, both spin timeouts split into the last
failed attempt and the store that follows, and
`default_smm_relocation_handler`. An SMI that was sent is taken at any later time
or never, also after its sender gave up and after `install` has returned an
error. A CPU in SMM does not run its own code; the others do. There is one save
state (`saved`) in the window, which `RSM` loads from. Chipset SMIs come only from
enabled sources. An invalid callback argument or save-state format cannot occur:
the same call stores both before the stub exists.

### `MtrrWc`: changing the MTRRs of all CPUs together

`install_write_combining`: the BSP's plan, and on every CPU the closure of the
rendezvous with one step per register access, arrival and read of `failed`. The
constant `core` says which CPUs share MTRRs, so a sibling that runs ahead acts on
the registers of one that is behind. A CPU may disagree with the plan in its
preflight, and the MTRRs of a core (`deaf`) may not take what is written. A
barrier counter is the set of the CPUs that have incremented it, since each does
so once. `Update::build` is reduced to its outcome: no plan, an empty one, or one
with writes.

### `LoadLedger`: who may write which memory

The ledger with its busy flag and table of windows, and the loads around it:
placement against the policy, the check against the device-tree workspace (made
before the flag is taken, as in the code), the copy, the digests, `commit`, the
guard's drop. A load may fail before its first write or after it, when its whole
footprint is lost; the scratch behind a compressed image counts. Policies may be
replaced at any time. Several callers may load at once. Only
`configure_fdt_workspace` waits until nobody loads: its safety contract demands
serialized calls, and without that the check before the flag would not be enough.

### `SmmRendezvous`, `IchSmi`: an SMI on an ICH southbridge

`SmmRendezvous` is `fstart_smm::handle`: every CPU that takes an SMI does its
CPU-local work and races for the owner word with one compare-exchange; the losers
poll until they read 0. `latched` holds the CPUs with an SMI not yet taken.
`IchSmi` adds what the owner does. `Quiesce`, `EnableSources` and `EnableGate` are
the installer's side of the routing. `TakeStatus`, `TakeApm`, `TakeEvents` and
`AckGpi` are the reads and write-backs of `PendingSmi::take`; `Board` is the X60's
handler with the embedded controller on a GPI; `ReadPm1`, `AckSources`, `AckStatus`
and `SetEos` are `PendingSmi::finish`, with the read of PM1_STS and of SMI_EN and the
write-back of each in separate steps. Events of the power button, the pins, TCO and
the APM port come between any two of these, as does an SMI# while the last owner
has not left.

`ecAsks` says that the controller has pulled its pin and was not asked since. The
model ends with the question: `query_event` asks for one event, gives up when the
controller does not announce one or does not answer in time, and the result of
`reset_event_attention` is ignored, so nothing is claimed about what the controller
delivers. A boot CPU that is late may write SMI_EN in `EnableGate` between the read
and the write-back of another CPU's `SetEos`, which then restores the older value
without the APM and TCO enables; the properties hold all the same.

### `Sp3Smm` and `SelLog`: machine checks seen from SMM

Each entering CPU arms itself or refuses, sets the native #MC for its return,
pushes one record per bank into a journal behind a lock that is tried once, and
may be disarmed by an intercepted WRMSR. The owner sends at most one record or the
diagnostic probe to the BMC. `SelLog` is what the journal promises: the first
records are kept as they came and the others counted, the kept ones are reported
in order and once, and nothing is sent after a failure. `Sp3Smm` implements it, and
extends the same `SmmRendezvous` as `IchSmi`. The policy is taken to observe machine
checks and to name a SEL transport. Otherwise `flush` returns at once: no record is
forwarded, and a probe that was queued stays queued, so `ProbeEnds` is a statement
about boards with a SEL.

### `MeasuredBoot`: the TPM from its start to the payload

`start` with its hiding of a TPM it cannot use (`Hide`, `LockPresence`), `record`,
`fail` with one step per capping extend, the three kinds of `handoff`, `lock`, both
calls of `check`, and `take_for_payload`. A PCR is the sequence of what was extended
into it. A command that fails may have taken effect or not. The log has any size,
and an event may not fit when it has already been extended. A startup command that
reports an error leaves `family` at "none", whether the TPM has started or not. The
firmware then measures nothing; what the OS is told of such a TPM is up to the
platform and not modelled (SP3 hides it, QEMU's own ACPI tables describe it).

### `CacheSpi` and `FlashConsole`: writing to flash while booting

`CacheSpi` is `program` with the write enable and the block protection around it,
each command failing or not. `FlashConsole` composes it with the console: the
binary search for the end of the log with one step per byte read (`Probe`, or
`ProbeFails`), the line buffer, going offline after an error, stage after stage, with
a reset at any step. An interrupted command may leave erased bytes inside the log, so
the search need not find the first erased byte; it still ends beyond everything that
was completed.

## Runs

| Run | Instance | Checks |
|---|---|---|
| `mp_init` | three APs, room for four CPUs, CPU counts 0 to 4 with limits 0, 3, 4, 5, both launchers | `DriversOutliveUse`, `OkMeansAllReady`, `ReplayInTurn`, `PollsOwnSlot`, `BringUpEnds`, `OkLeadsToPolling` |
| `mp_dispatch` | two APs, any three scope methods, then parking | `BorrowEnds`, `ParkedMeansHalted`, `MethodsReturn`, `LateApsHalt`, refinement `ScopeSpec` |
| `journal` | two keys, two payloads, numbers wrap at four | `SaveEnds`, refinement `CellSpec` |
| `memory_cache` | two images, two trainings of one set of modules, a second set that cannot be trained | `RetainedReadable`, `OfferIsRecorded`, `ResumeEnds` |
| `smm_relocation` | three CPUs | `OwnSmbase`, `StubThere`, `SmiOnlyWhenReady`, `HiddenOnReturn`, `InstallEnds` |
| `mtrr_wc` | a core with two threads, a core with one | `CachedOnlySettled`, `OkMeansInstalled`, `CallReturns` |
| `load_ledger` | three addresses, windows of one or two, two callers, one image, room for two windows | `LiveIntact`, `CommitFits`, `LedgerFreed` |
| `ich_smi` | two CPUs, two pins, three events | `EcQueried`, `PowerButtonServed`, `Pm1Kept`, `NoReplay` |
| `ich_smi_gpe` | the same | `GpeReported`, violated: see below |
| `sp3_smm` | two CPUs, two slots, one report per boot, three SMIs with up to two records | `Accounted`, `EveryoneReturns`, `ProbeEnds`, `NativeHandoff`, refinement `SelSpec` |
| `measured_boot` | three capped PCRs and one more, log sizes 0 to 16 | `VouchesForAllOrNothing`, `OsFindsTpmLocked` |
| `flash_console` | eight bytes, lines of up to four, commands of two, pages of three | `ProtectionRestored`, `KeptForever` |

All but `ich_smi_gpe` pass.

*A disagreement.* The comment on `PendingSmi::finish` says "Clear the handled
sources and end the SMI (EOS)". The code clears the whole of GPE0, so an event
raised after `take` has read the register is cleared without having been reported
to the board. `ich_smi_gpe` shows such a run: a pin becomes active between
`TakeEvents` and `AckSources`. PM1 is cleared by the bits that are read and the
alternate GPIs by the bits that were read.

Why the bounds are enough for the interesting cases. Three APs give one that is
early, one that is late and one too many. One AP has LAPIC id 0, the content of
an unwritten slot. Two APs and three calls let the stores of one call meet the
loads of the one before. A wrap at four makes every save cross it soon, and is
the least modulus for which the comparison is meaningful with two banks. Two
trainings for the same modules let a stale record fit them, and the second set
lets a resume find other modules than it left. Three CPUs in
`SmmRelocation` are an owner of the bridge, a waiter that may give up, and the
BSP, which comes after the APs. Three CPUs on two cores give a sibling and a
stranger. Three addresses let a footprint overlap a neighbour with its scratch
part alone, and two windows fill the ledger with one plan. Two CPUs are an owner
and a loser of the rendezvous, and three events are one that raises an SMI, one
that arrives in its middle and one for the next SMI. Three SMIs with two records
each overfill a journal of two slots and pass the limit of the reports. A log of
16 holds the longest boot with its cappings, and every smaller size runs out at
another event. Eight bytes take several lines and stages, and pages and commands
of different length give chunks cut by each. The proofs remove these bounds for
the safety properties of every module.

`CHECK_DEADLOCK FALSE` is set where the program stops by design: after `mp_init`
has returned, after parking, after `install` has returned, when the events of the
environment are used up, and when a payload runs.

### Fairness

Only weak fairness, and only of code that runs: the BSP and each AP take their
next step (they are separate processors and are never descheduled); the firmware
of a powered machine runs on. Waits with a spin or time limit end because the
limit is reached. In `SmmRelocation` nothing is assumed of SMI delivery, so
`InstallEnds` rests on the timeouts alone. In `IchSmi` and `Sp3Smm` a CPU takes an
SMI that is latched for it and the chipset asserts SMI# when it may, which is what
makes an SMI an SMI. In `Sp3Smm` the OS goes on reading the result of a probe it
has asked for: the flush runs only in an SMI. No fairness is assumed of the
environment: power, updates, suspends, lost SIPIs, pins and machine checks may come or not.
`MeasuredBoot` and `FlashConsole` claim no progress and assume no fairness.

## Proofs

| Module | Establishes |
|---|---|
| `MpInitSteps`, `MpInitProofs` | that each step of `MpInit` preserves `IndInv`; `DriversOutliveUse`, `StartFailureHoldsAps`, `ParkAfterInit`, `OkMeansAllReady`, `OwnStack`, `ReplayInTurn`, `PollsOwnSlot`, type invariant |
| `MpScopeProofs` | of `MpDispatch`: `BorrowEnds`, `ParkedMeansHalted`, and that it implements `ScopeWork`; of `MtrrWc`: `CachedOnlySettled`, `ChangedUncached`, `MasksChangeDisabled`, `PreflightBinds`, `OkMeansInstalled`, type invariant |
| `JournalProofs` | of `Journal`: `Consecutive`, `ActiveKept`, and that it implements `AtomicCell`; of `MemoryCache`: `RetainedReadable`, `OfferIsRecorded` |
| `StorageProofs` | of `LoadLedger`: `LiveIntact`, `FdtIntact`, `CommitFits`, `NothingForgotten`, type invariant; of `FlashConsole` with `CacheSpi`: `KeptForever`, `ProtectionRestored` |
| `SmmRelocationProofs` | `OwnSmbase`, `OneInWindow`, `StubThere`, `SmiOnlyWhenReady`, `HiddenOnReturn`, `PoisonSticks`, type invariant |
| `SmiProofs` | of `Sp3Smm`: `Accounted`, `NativeHandoff`, exclusive use of the journal (`LockInv`), and that it implements `SelLog`; of `IchSmi`: `Pm1Kept`, `NoReplay`, one CPU dispatching, type invariant |
| `MeasuredBootProofs` | `VouchesForAllOrNothing`, `OsFindsTpmLocked`, `FailureIsFinal` |

The properties in this table that no run lists are established by their theorem
alone; the runs spend their time on the others and on liveness.

The assumptions are the ones named in the modules: a finite set of APs and a
capacity (`MpInit`), a natural number of APs, zero too (`MpHandle`, for `MpDispatch`,
`SmmRelocation` and `MtrrWc`), a natural number of calls (`MpDispatch`), `SEQ >= 4`
(`Journal`), each training belongs to modules (`MemoryCache`), sizes of the region, of a
command, of a page and of a line that are not zero (`FlashConsole`), a core for every CPU
and a CPU for every core (`MtrrWc`), live parts inside their footprints (`LoadLedger`), a
finite set of CPUs, room for one record and a probe that is no record (`Sp3Smm`), an
installer that is one of the CPUs, and boot enables and an embedded controller among the
pins (`IchSmi`), at least one capped PCR (`MeasuredBoot`).

*MpInit.* `IndInv` ties every place of an AP to the barriers it has passed and
every place of the BSP to the counts it has read. The properties are not
inductive because a counter alone does not say who was counted. `Counts`
therefore equates `entered` and `apCount` with cardinalities of sets of APs, and
`Ordinals` says that the trampoline's ordinals are distinct and dense. Together
they give: if the BSP has counted as many as were asked for, nobody is left who
could still arrive.

*MpDispatch.* `DispatchInv` relates one mailbox to its AP and to the BSP's place in the
call (`MailInv`): an AP is past its load of `func` only while the BSP still has that
mailbox to wait for (`Awaited`), and then `func` and `data` are those of the current
call. This is what makes the unordered store of `data` safe, since it is only made when
every mailbox is idle. The refinement maps a closure to begun when the AP enters the
trampoline and to finished when it leaves it; loads, stores and polls are stutters.

*Journal.* `JInv` adds to the properties what a save in progress knows: the bank
being erased is not the one a load returns, its number will follow the other
bank's, it does not count before its commit word, and what the commit word
completes is this save's record. The refinement maps the cell's value to what a
load returns; the commit word (or a power cut during it) is the one step that
changes it.

*MemoryCache.* `MInv` says that from the offer of S3 until the OS runs again the
journal holds the training the OS was written with, or possibly nothing after an
update (`Recorded`, `Offered`). `Indicated` carries this over the wake: WAK_STS and
SLP_TYP are set together only until the detection, or at a halt before it, and then
the memory is still the suspended OS's. `Resuming` takes it from the detection to the
wake vector. It builds on `JInv` and on the refinement's account of which steps change
the value.

*FlashConsole.* That completed lines are kept says nothing about holes, and where a
search ends is a matter of all the bytes it reads. `ConsoleInv` speaks of it without a
recursive definition: `Covers(Q, e)` says of a set of intervals that the search starts in
it, never leaves it, and that no interval of it ends before `e`; `Beyond(e)` says there is
such a set. While a search runs, its interval is in every such set, so it ends beyond
every bound that held when it began, and the intervals it has passed (`Trail`) become the
set for the offset it arrives at. Programming a byte sends a search to the right or not at
all, so sets for the old flash give sets for the new one (`BeyondKept`), and once all bytes
from the offset to the end of a line are programmed, a search that gets to the offset gets
past the line (`BeyondLonger`). `CallInv` gives `ProtectionRestored`: what each place of
`program` knows of the two protections and of the values found before.

*SmmRelocation.* A CPU is engaged from the moment it owns the bridge until its
SMI has left the default window, which may be long after it stopped waiting.
`Exclusive` says there is at most one and the bridge is not free while there is
one. `Published`, `Callback` and `Answered` follow that CPU's target from the
bridge through the save state into its SMBASE, and tie a change of `done` to the
callback waited for.

*MtrrWc.* `Barriers` says that a CPU past a barrier has every other CPU at it or
past it, so CPUs are at most one phase apart. `Decision` shows that `failed`,
before anybody verifies, means that some CPU did not match; nobody verifies while
another CPU has still to decide, so all decide alike. `Registers` says what each
phase knows of the shared MTRRs.

*LoadLedger.* `Owner` makes the holder of the busy flag unique, `Checked` keeps
what `begin` has checked true until the holder drops the flag, and `Planned`
separates its plan from the workspace. Only the holder writes, inside its plan.

*Sp3Smm.* `RasInv` has three parts. `CpuInv`: only the owner is at a place of the flush, and
a CPU that has a #MC to hand over has set it for its exit. `LockInv`: at most one CPU has
the journal open, and the lock word says so. `SelInv`: the index of the next record is the
number of reports the BMC has seen, plus one for a record in the owner's hands, which is
the one at that index; a transfer that failed has tripped the breaker, and a probe that was
sent has its result.
`Accounted` counts the CPUs that are about to store or drop, with the cardinality of a
set that each step changes by at most one. The refinement of `SelLog` reads the journal
and the list of transfers as they are.

*MeasuredBoot.* "All or nothing" speaks of the payload only, so the invariant says
what each earlier place has established. `Chain`: before a failure, the log
followed by what is left to send is the chain of the current phase. `Replayed`: the
log replays to every PCR; this is stated with a map from extends to entries
(`EventsOf`), which needs no recursion, and one more entry extends the map.
`Failing`: each capped PCR holds an error, has one still to come, or `capFailed` is
set. `Hiding` says the same of the commands that hide an unusable TPM.

*IchSmi.* That ACPI mode changes only with a command whose status is set is not
inductive: `take` reads SMI_STS in one step and the APM port in the next, and others run
in between. `IchInv` says why nobody clears the status there. Only the CPU in the owner
word is at a place of the dispatch, so no other CPU is at its own acknowledgement; and
the status appears only once the installer is done, so `clear_status` is behind it.
`LegacyInv` does the same for `Pm1Kept`, whose clearing comes two steps after SCI_EN is
read: only the owner changes ACPI mode, and before the sources are enabled, when the
installer does, no CPU is in SMM because no SMI can be asserted. What is cleared is what
was read, and a press among it is what turns the power off.

Only model-checked: the liveness properties, which need fairness and are out of the
prover's reach. Every invariant, action property and refinement that a run finds to hold
has a theorem. What a recursive definition computes for every input cannot be proved here
either, and no property rests on one: the search of the console is a sequence of steps.

## Assumptions about the hardware

- An erase that reports success has erased; the code does not read it back. A
  program operation is trusted for nothing, since the code does read it back.
- The record published in RAM by the bootblock is intact when ramstage reads it.
- WAK_STS is set by a wake and lost with the power, SLP_TYP survives a power loss, so
  both are set only while the memory of the suspended OS was kept.
- Memory in self-refresh keeps its contents over a reset; memory the controller drives
  is given up by one.
- Chipset SMI sources are off from reset until they are enabled.
- Stores of one CPU become visible in program order (x86, and the
  acquire/release orderings the code uses).
- SMI_STS reports PM1 and GPE0 events only while SCI_EN is clear, APM and TCO from
  a latch. Status bits stay until they are cleared. SMI# goes to every CPU, each of
  which latches one; asserting it clears EOS, and nothing more is asserted until
  EOS is set again.
- A redirected machine check writes the SMI command port, so it reaches all CPUs;
  an intercepted WRMSR reaches its own CPU.
- A TPM command that reports success has taken effect.
- A flash chip programs by clearing bits, and an interrupted or failed program
  command has programmed any of its bytes. Its block protection may come back with
  its power.

## Not modelled

- *S3 stage cache and in-memory store.* `MemoryCache` takes their answer as any
  Boolean, so it covers every content. A slot torn by a power cut is not read: each
  cold boot creates the store anew, and a resume compares the key before it looks
  for a stage.
- *AMD SMM installation.* Each CPU programs and reads back its own MSRs in one
  scatter, which is `MpDispatch`'s; there is no window to share and nothing to wait
  for.
- *Console lock.* A spin lock around the writers of a message. SMI handlers do not
  log through it, so nobody waits for a holder that cannot run.
- *Filesystem, digests, signatures, compression.* Pure functions of large byte
  inputs, out of TLC's reach. Their outcome is a choice in `LoadLedger` and
  `MeasuredBoot`.
- *PCI windows, MTRR solutions, FDT edits, timestamps.* Sequential code of one CPU
  that no other actor and no failure meets in the middle. PCI windows and
  `Update::build` could be written as operators with a reference definition.
- *EINJ, the other FCH sources and SmmInfo* in the SP3 handler: they touch none of
  the state of `Sp3Smm`.
- *Memory training, graphics, bus and device drivers, ACPI tables, boards, image
  build and host tools.* Register sequences whose outcome the hardware decides,
  layout, constants, or code that runs on the build host.

The last group is the bulk of the source, which is why the modules cover a small
part of its lines.
