--------------------------- MODULE SmmRelocation ---------------------------
(***************************************************************************)
(* IntelSmm::install: the boot CPU writes the permanent SMI handler into   *)
(* SMRAM, every CPU moves its SMBASE out of the shared default window with *)
(* an SMI it sends to itself, and SMRAM and the SMI enable are locked.     *)
(*                                                                         *)
(* A CPU that is sent an SMI takes it at any later moment, also after its  *)
(* wait for it has timed out.  While it is in SMM its own code stands      *)
(* still; the other CPUs run on.  A load or a store of a field of the      *)
(* relocation bridge is one step.  The index of a CPU stands for the       *)
(* SMBASE the layout gives it and for its LAPIC id.                        *)
(***************************************************************************)
EXTENDS MpHandle

DEFAULT == -1         \* SMM_DEFAULT_SMBASE
NOBODY == -1          \* the expected_lapic_id u32::MAX
Error == {"RelocationLockTimeout", "RelocationTimeout", "UnexpectedCpu",
          "SmrrSetupFailed", "SaveStateMismatch"}
NoError == "none"
Result == {"0", "OK", "SAVE_STATE", "UNEXPECTED_CPU", "SMRR"}

VARIABLES
    install,       \* where the boot CPU is in install
    smram,         \* "closed", "open" or "locked"
    sources,       \* chipset SMI sources: "boot", "quiet" or "permanent"
    stub,          \* the relocation stub is in the default window
    phase,         \* RelocationState::phase
    expected,      \* expected_lapic_id
    target,        \* target_smbase
    pair,          \* smrr_pair is not 0
    done,          \* done
    result,        \* result
    last_error,    \* last_error
    pc,            \* where each CPU is in the closure of scatter
    before,        \* its local `before`
    outcome,       \* its local result: "Ok" or an error
    smi,           \* an SMI it has sent to itself is still to be taken
    smm,           \* where it is in default_smm_relocation_handler
    read,          \* the target_smbase the handler has loaded
    code,          \* the result the handler is about to store
    saved,         \* the SMBASE field of the save state in the window
    smbase         \* the SMBASE of each CPU

bridge == <<phase, expected, target, pair, done, result, last_error>>
handler == <<smm, read, code, saved, smbase>>
caller == <<pc, before, outcome>>
machine == <<install, smram, sources, stub>>
vars == <<install, smram, sources, stub, phase, expected, target, pair, done,
          result, last_error, pc, before, outcome, smi, smm, read, code, saved,
          smbase>>

Publishing == {"expect", "target", "pair", "clear", "send"}
Holding == Publishing \cup {"wait", "result", "finish"}

TypeOK ==
    /\ install \in {"start", "open", "stub", "aps", "bsp", "check", "erase",
                    "lock", "enable", "smoke", "Ok", "Err"}
    /\ smram \in {"closed", "open", "locked"}
    /\ sources \in {"boot", "quiet", "permanent"}
    /\ stub \in BOOLEAN
    /\ phase \in {"UNLOCKED", "LOCKED", "POISONED"}
    /\ expected \in CPU \cup {NOBODY}
    /\ target \in CPU \cup {DEFAULT}
    /\ pair \in BOOLEAN
    /\ done \in Nat
    /\ result \in Result
    /\ last_error \in Error \cup {NoError}
    /\ pc \in [CPU -> Holding \cup {"idle", "lock", "expired", "report",
                           "returned"}]
    /\ before \in [CPU -> Nat]
    /\ outcome \in [CPU -> Error \cup {"Ok"} \cup Result]
    /\ smi \in [CPU -> BOOLEAN]
    /\ smm \in [CPU -> {"out", "check", "load", "write", "smrr", "store", "count", "rsm"}]
    /\ read \in [CPU -> CPU \cup {DEFAULT}]
    /\ code \in [CPU -> Result]
    /\ saved \in CPU \cup {DEFAULT}
    /\ smbase \in [CPU -> CPU \cup {DEFAULT}]

Init ==
    /\ install = "start" /\ smram = "closed" /\ sources = "boot" /\ stub = FALSE
    /\ phase = "UNLOCKED" /\ expected = NOBODY /\ target = DEFAULT
    /\ pair = FALSE /\ done = 0 /\ result = "0" /\ last_error = NoError
    /\ pc = [c \in CPU |-> "idle"]
    /\ before = [c \in CPU |-> 0]
    /\ outcome = [c \in CPU |-> "Ok"]
    /\ smi = [c \in CPU |-> FALSE]
    /\ smm = [c \in CPU |-> "out"]
    /\ read = [c \in CPU |-> DEFAULT]
    /\ code = [c \in CPU |-> "0"]
    /\ saved = DEFAULT
    /\ smbase = [c \in CPU |-> DEFAULT]

Running(c) == smm[c] = "out"

-----------------------------------------------------------------------------
(* install and install_open on the boot CPU *)

\* smram_close leaves a locked SMRAM as it is.
Closed == IF smram = "locked" THEN "locked" ELSE "closed"

\* TSEG disabled or too many CPUs end the call; so does an SMRAM that does not
\* confirm that it is open.
Open ==
    /\ install = "start"
    /\ \/ install' = "open" /\ smram' = "open"
       \/ install' = "Err" /\ smram' = Closed
    /\ UNCHANGED <<sources, stub, bridge, caller, smi, handler>>

\* install_pic_image, RelocationState::prepare on the fresh bridge and
\* quiesce_for_relocation.  A bad SMRR range or image fails before the sources
\* are quiesced.
Prepare ==
    /\ install = "open"
    /\ \/ /\ phase = "UNLOCKED"
          /\ install' = "stub" /\ sources' = "quiet" /\ UNCHANGED smram
          /\ target' = DEFAULT /\ expected' = NOBODY /\ pair' = FALSE
          /\ done' = 0 /\ result' = "0" /\ last_error' = NoError
       \/ /\ install' = "Err" /\ smram' = Closed
          /\ UNCHANGED <<sources, expected, target, pair, done, result, last_error>>
    /\ UNCHANGED <<stub, phase, caller, smi, handler>>

\* install_default_relocation_callback_stub, then scatter starts the APs.
InstallStub ==
    /\ install = "stub"
    /\ \/ /\ install' = "aps" /\ stub' = TRUE /\ UNCHANGED smram
          /\ pc' = [c \in CPU |-> IF c = BSP THEN "idle" ELSE "lock"]
       \/ install' = "Err" /\ smram' = Closed /\ UNCHANGED <<stub, pc>>
    /\ UNCHANGED <<sources, bridge, before, outcome, smi, handler>>

\* scatter runs the closure on the boot CPU when every AP has returned.
BspTurn ==
    /\ install = "aps" /\ Running(BSP)
    /\ \A c \in CPU \ {BSP} : pc[c] = "returned"
    /\ install' = "bsp"
    /\ pc' = [pc EXCEPT ![BSP] = "lock"]
    /\ UNCHANGED <<smram, sources, stub, bridge, before, outcome, smi, handler>>

\* Mutant: a failed relocation is logged and the installation goes on.
CheckErrors_Ignored ==
    /\ install = "bsp" /\ Running(BSP) /\ pc[BSP] = "returned"
    /\ install' = "erase"
    /\ UNCHANGED <<smram, sources, stub, bridge, caller, smi, handler>>

\* Mutant: the error is returned without smram_close.
CheckErrors_LeftOpen ==
    /\ install = "bsp" /\ Running(BSP) /\ pc[BSP] = "returned"
    /\ install' = IF last_error = NoError THEN "erase" ELSE "Err"
    /\ UNCHANGED <<smram, sources, stub, bridge, caller, smi, handler>>

CheckErrors ==
    /\ install = "bsp" /\ Running(BSP) /\ pc[BSP] = "returned"
    /\ IF last_error = NoError
       THEN install' = "erase" /\ UNCHANGED smram
       ELSE install' = "Err" /\ smram' = Closed
    /\ UNCHANGED <<sources, stub, bridge, caller, smi, handler>>

\* The default window is zeroed and SMRAM closed.
Erase ==
    /\ install = "erase" /\ Running(BSP)
    /\ install' = "lock" /\ stub' = FALSE /\ smram' = Closed
    /\ UNCHANGED <<sources, bridge, caller, smi, handler>>

LockSmram ==
    /\ install = "lock" /\ Running(BSP)
    /\ \/ install' = "enable" /\ smram' = "locked"
       \/ install' = "Err" /\ smram' \in {smram, "locked"}
    /\ UNCHANGED <<sources, stub, bridge, caller, smi, handler>>

\* enable_permanent_smi and lock_permanent_smi.
EnableSmi ==
    /\ install = "enable" /\ Running(BSP)
    /\ sources' = "permanent"
    /\ install' \in {"smoke", "Err"}
    /\ UNCHANGED <<smram, stub, bridge, caller, smi, handler>>

\* The smoke test: every CPU sends itself an SMI through its permanent entry.
Smoke ==
    /\ install = "smoke" /\ Running(BSP)
    /\ smi' = [c \in CPU |-> TRUE]
    /\ install' = "Ok"
    /\ UNCHANGED <<smram, sources, stub, bridge, caller, handler>>

\* An event of an enabled chipset source reaches every CPU.  The sources are
\* off from reset until enable_permanent_smi.
ChipsetSmi ==
    /\ sources = "permanent"
    /\ smi' = [c \in CPU |-> TRUE]
    /\ UNCHANGED <<machine, bridge, caller, handler>>

-----------------------------------------------------------------------------
(* The closure of scatter on CPU c: relocate_one and finish_relocation *)

\* A CPU whose SMRR pair is not usable fails before it takes the lock.
Unusable(c) ==
    /\ pc[c] = "lock" /\ Running(c)
    /\ outcome' = [outcome EXCEPT ![c] = "SmrrSetupFailed"]
    /\ pc' = [pc EXCEPT ![c] = "report"]
    /\ UNCHANGED <<machine, bridge, before, smi, handler>>

\* Mutant: the lock is stored, not compared and exchanged.
Lock_Store(c) ==
    /\ pc[c] = "lock" /\ Running(c)
    /\ phase # "POISONED"
    /\ phase' = "LOCKED"
    /\ pc' = [pc EXCEPT ![c] = "expect"]
    /\ UNCHANGED <<machine, expected, target, pair, done, result, last_error,
                   before, outcome, smi, handler>>

Lock(c) ==
    /\ pc[c] = "lock" /\ Running(c)
    /\ phase = "UNLOCKED"
    /\ phase' = "LOCKED"
    /\ pc' = [pc EXCEPT ![c] = "expect"]
    /\ UNCHANGED <<machine, expected, target, pair, done, result, last_error,
                   before, outcome, smi, handler>>

\* The last attempt allowed by RELOCATION_LOCK_SPINS fails.
LockExpires(c) ==
    /\ pc[c] = "lock" /\ Running(c)
    /\ phase # "UNLOCKED"
    /\ outcome' = [outcome EXCEPT ![c] = "RelocationLockTimeout"]
    /\ pc' = [pc EXCEPT ![c] = "expired"]
    /\ UNCHANGED <<machine, bridge, before, smi, handler>>

PublishExpected(c) ==
    /\ pc[c] = "expect" /\ Running(c)
    /\ expected' = c
    /\ pc' = [pc EXCEPT ![c] = "target"]
    /\ UNCHANGED <<machine, phase, target, pair, done, result, last_error,
                   before, outcome, smi, handler>>

PublishTarget(c) ==
    /\ pc[c] = "target" /\ Running(c)
    /\ target' = c
    /\ pc' = [pc EXCEPT ![c] = "pair"]
    /\ UNCHANGED <<machine, phase, expected, pair, done, result, last_error,
                   before, outcome, smi, handler>>

PublishPair(c) ==
    /\ pc[c] = "pair" /\ Running(c)
    /\ pair' \in BOOLEAN
    /\ pc' = [pc EXCEPT ![c] = "clear"]
    /\ UNCHANGED <<machine, phase, expected, target, done, result, last_error,
                   before, outcome, smi, handler>>

ClearResult(c) ==
    /\ pc[c] = "clear" /\ Running(c)
    /\ result' = "0"
    /\ before' = [before EXCEPT ![c] = done]
    /\ pc' = [pc EXCEPT ![c] = "send"]
    /\ UNCHANGED <<machine, phase, expected, target, pair, done, last_error,
                   outcome, smi, handler>>

send_smi_self(c) ==
    /\ pc[c] = "send" /\ Running(c)
    /\ smi' = [smi EXCEPT ![c] = TRUE]
    /\ pc' = [pc EXCEPT ![c] = "wait"]
    /\ UNCHANGED <<machine, bridge, before, outcome, handler>>

SeeDone(c) ==
    /\ pc[c] = "wait" /\ Running(c)
    /\ done # before[c]
    /\ pc' = [pc EXCEPT ![c] = "result"]
    /\ UNCHANGED <<machine, bridge, before, outcome, smi, handler>>

LoadResult(c) ==
    /\ pc[c] = "result" /\ Running(c)
    /\ outcome' = [outcome EXCEPT ![c] = result]
    /\ pc' = [pc EXCEPT ![c] = "finish"]
    /\ UNCHANGED <<machine, bridge, before, smi, handler>>

\* Mutant: the wait for the callback has no limit.
DoneExpires_Never(c) ==
    /\ pc[c] = "wait" /\ Running(c)
    /\ done = before[c]
    /\ UNCHANGED vars

\* The last poll allowed by RELOCATION_DONE_SPINS sees no change.
DoneExpires(c) ==
    /\ pc[c] = "wait" /\ Running(c)
    /\ done = before[c]
    /\ outcome' = [outcome EXCEPT ![c] = "RelocationTimeout"]
    /\ pc' = [pc EXCEPT ![c] = "expired"]
    /\ UNCHANGED <<machine, bridge, before, smi, handler>>

\* Mutant: a caller that gives up releases the lock.
Poison_Unlock(c) ==
    /\ pc[c] = "expired" /\ Running(c)
    /\ phase' = "UNLOCKED"
    /\ pc' = [pc EXCEPT ![c] = "report"]
    /\ UNCHANGED <<machine, expected, target, pair, done, result, last_error,
                   before, outcome, smi, handler>>

Poison(c) ==
    /\ pc[c] = "expired" /\ Running(c)
    /\ phase' = "POISONED"
    /\ pc' = [pc EXCEPT ![c] = "report"]
    /\ UNCHANGED <<machine, expected, target, pair, done, result, last_error,
                   before, outcome, smi, handler>>

ErrorOf(r) ==
    CASE r = "UNEXPECTED_CPU" -> "UnexpectedCpu"
      [] r = "SMRR" -> "SmrrSetupFailed"
      [] OTHER -> "SaveStateMismatch"

finish_relocation(c) ==
    /\ pc[c] = "finish" /\ Running(c)
    /\ IF outcome[c] = "OK"
       THEN IF phase = "LOCKED"
            THEN phase' = "UNLOCKED" /\ outcome' = [outcome EXCEPT ![c] = "Ok"]
            ELSE /\ outcome' = [outcome EXCEPT ![c] = "RelocationLockTimeout"]
                 /\ UNCHANGED phase
       ELSE /\ phase' = "POISONED"
            /\ outcome' = [outcome EXCEPT ![c] = ErrorOf(outcome[c])]
    /\ pc' = [pc EXCEPT ![c] = "report"]
    /\ UNCHANGED <<machine, expected, target, pair, done, result, last_error,
                   before, smi, handler>>

\* Mutant: each CPU stores its own outcome over the one before.
Report_Last(c) ==
    /\ pc[c] = "report" /\ Running(c)
    /\ last_error' = IF outcome[c] # "Ok" THEN outcome[c] ELSE NoError
    /\ pc' = [pc EXCEPT ![c] = "returned"]
    /\ UNCHANGED <<machine, phase, expected, target, pair, done, result,
                   before, outcome, smi, handler>>

\* The first error is kept in last_error; scatter's closure returns.
Report(c) ==
    /\ pc[c] = "report" /\ Running(c)
    /\ last_error' = IF outcome[c] # "Ok" /\ last_error = NoError
                     THEN outcome[c] ELSE last_error
    /\ pc' = [pc EXCEPT ![c] = "returned"]
    /\ UNCHANGED <<machine, phase, expected, target, pair, done, result,
                   before, outcome, smi, handler>>

-----------------------------------------------------------------------------
(* SMM on CPU c *)

\* The CPU takes its SMI.  In the default window its state is saved where the
\* state of every CPU that has not moved yet is saved; through a permanent
\* entry it comes back without touching the bridge.
TakeSmi(c) ==
    /\ smi[c] /\ Running(c)
    /\ smi' = [smi EXCEPT ![c] = FALSE]
    /\ IF smbase[c] = DEFAULT
       THEN smm' = [smm EXCEPT ![c] = "check"] /\ saved' = DEFAULT
       ELSE UNCHANGED <<smm, saved>>
    /\ UNCHANGED <<machine, bridge, caller, read, code, smbase>>

\* finish(code) with the rest of the handler skipped.
Finish(c, r) ==
    /\ smm' = [smm EXCEPT ![c] = "store"]
    /\ code' = [code EXCEPT ![c] = r]

CheckCpu(c) ==
    /\ smm[c] = "check"
    /\ IF expected # c
       THEN Finish(c, "UNEXPECTED_CPU")
       ELSE smm' = [smm EXCEPT ![c] = "load"] /\ UNCHANGED code
    /\ UNCHANGED <<machine, bridge, caller, smi, read, saved, smbase>>

LoadTarget(c) ==
    /\ smm[c] = "load"
    /\ read' = [read EXCEPT ![c] = target]
    /\ smm' = [smm EXCEPT ![c] = "write"]
    /\ UNCHANGED <<machine, bridge, caller, smi, code, saved, smbase>>

\* X86SaveState::revision and write_smbase; a revision the format does not
\* know leaves the save state alone.
WriteSmbase(c) ==
    /\ smm[c] = "write"
    /\ \/ /\ saved' = read[c]
          /\ smm' = [smm EXCEPT ![c] = "smrr"] /\ UNCHANGED code
       \/ Finish(c, "SAVE_STATE") /\ UNCHANGED saved
    /\ UNCHANGED <<machine, bridge, caller, smi, read, smbase>>

ProgramSmrr(c) ==
    /\ smm[c] = "smrr"
    /\ \/ Finish(c, "OK")
       \/ pair /\ Finish(c, "SMRR")
    /\ UNCHANGED <<machine, bridge, caller, smi, read, saved, smbase>>

StoreResult(c) ==
    /\ smm[c] = "store"
    /\ result' = code[c]
    /\ smm' = [smm EXCEPT ![c] = "count"]
    /\ UNCHANGED <<machine, phase, expected, target, pair, done, last_error,
                   caller, smi, read, code, saved, smbase>>

CountDone(c) ==
    /\ smm[c] = "count"
    /\ done' = done + 1
    /\ smm' = [smm EXCEPT ![c] = "rsm"]
    /\ UNCHANGED <<machine, phase, expected, target, pair, result, last_error,
                   caller, smi, read, code, saved, smbase>>

\* RSM loads the SMBASE of the save state in the window.
Rsm(c) ==
    /\ smm[c] = "rsm"
    /\ smbase' = [smbase EXCEPT ![c] = saved]
    /\ smm' = [smm EXCEPT ![c] = "out"]
    /\ UNCHANGED <<machine, bridge, caller, smi, read, code, saved>>

-----------------------------------------------------------------------------

Installer == \/ Open \/ Prepare \/ InstallStub \/ BspTurn \/ CheckErrors
             \/ Erase \/ LockSmram \/ EnableSmi \/ Smoke

Closure(c) == \/ Unusable(c) \/ Lock(c) \/ LockExpires(c)
              \/ PublishExpected(c) \/ PublishTarget(c) \/ PublishPair(c)
              \/ ClearResult(c) \/ send_smi_self(c) \/ SeeDone(c)
              \/ LoadResult(c) \/ DoneExpires(c) \/ Poison(c) \/ finish_relocation(c) \/ Report(c)

Handler(c) == \/ CheckCpu(c) \/ LoadTarget(c) \/ WriteSmbase(c) \/ ProgramSmrr(c)
              \/ StoreResult(c) \/ CountDone(c) \/ Rsm(c)

Next == Installer \/ ChipsetSmi \/ \E c \in CPU : Closure(c) \/ TakeSmi(c) \/ Handler(c)

Spec == Init /\ [][Next]_vars

\* Every CPU runs on and the spin counts end its waits.  Nothing is assumed of
\* an SMI that was sent: it may be taken late, or never.
FairSpec ==
    /\ Spec
    /\ WF_vars(Installer)
    /\ \A c \in CPU : WF_vars(Closure(c)) /\ WF_vars(Handler(c))

-----------------------------------------------------------------------------
(* Properties *)

InWindow(c) == smbase[c] = DEFAULT /\ (smi[c] \/ ~Running(c))

\* "Never publish another target": no CPU ever takes the SMBASE of another one,
\* however late its callback runs.
OwnSmbase == \A c \in CPU : smbase[c] \in {DEFAULT, c}

\* The default window has one save state and one stack: at most one CPU is in
\* it, or has an SMI under way to it.
OneInWindow == \A c, d \in CPU : InWindow(c) /\ InWindow(d) => c = d

\* Nobody enters the default window after its stub has been erased, also on
\* the error paths, where a timed-out SMI may still be under way.
StubThere == \A c \in CPU : InWindow(c) => stub

\* Chipset SMIs reach every CPU: they are enabled only while SMRAM is locked
\* and each CPU enters through its own SMBASE.
SmiOnlyWhenReady ==
    sources = "permanent" => smram = "locked" /\ \A c \in CPU : smbase[c] = c

\* install returns with SMRAM hidden, and Ok only when it is locked.
HiddenOnReturn == /\ install = "Err" => smram # "open"
                  /\ install = "Ok" => smram = "locked"

\* A poisoned bridge stays poisoned: an owner that finishes after a waiter has
\* given up does not unlock it.
PoisonSticks == [][phase = "POISONED" => phase' = "POISONED"]_vars

\* install ends, whatever SMI is lost or late.
InstallEnds == <>(install \in {"Ok", "Err"})
=============================================================================
