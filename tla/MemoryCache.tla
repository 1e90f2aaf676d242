---------------------------- MODULE MemoryCache ----------------------------
(***************************************************************************)
(* The training journal in use: the bootblock trains memory or, resuming   *)
(* from S3, replays the newest record; the ramstage saves what was trained *)
(* and offers S3 to the OS only when the record is safe.                   *)
(*                                                                         *)
(* Memory keeps a suspended OS only while it is driven with the delays of  *)
(* the training in force when the OS went to sleep.  Around the firmware,  *)
(* the power fails, modules are exchanged and the flash is updated.        *)
(* WarmReset is a Normal boot here: the cache treats both alike.           *)
(***************************************************************************)
EXTENDS Journal

CONSTANTS Dimm,       \* sets of memory modules
          dimm_of     \* the modules a training result was found with

ASSUME MemoryCacheAssumption == dimm_of \in [Payload -> Dimm]

VARIABLES stage,      \* where the machine is
          path,       \* the boot path of this boot
          wakSts,     \* PM1_STS.WAK_STS: woken by an event
          slpTyp,     \* PM1_CNT.SLP_TYP still says S3
          fw,         \* runtime_key: the firmware now in flash
          dimm,       \* the modules now in the slots
          key,        \* the key this boot computed in dram_init
          setting,    \* the training the controller is programmed with
          image,      \* the training a suspended OS was written with
          s3,         \* whether the OS in memory was offered S3
          updated     \* history: the flash was updated since it was booted

pm1 == <<wakSts, slpTyp>>
bootVars == <<stage, path, pm1, fw, dimm, key, setting, image, s3, updated>>
allVars == <<vars, bootVars>>

None == [state |-> "none"]
Training == [state : {"trained"}, payload : Payload]
trained(p) == [state |-> "trained", payload |-> p]

\* The stages behind dram_init, which run on trained memory.
Trained == {"dram", "postcar", "ramstage", "handoff"}

BootTypeOK ==
    /\ TypeOK
    /\ stage \in {"off", "early", "bootblock", "dram", "postcar", "ramstage",
                  "commit", "handoff", "os", "sleep", "halt"}
    /\ path \in {"Normal", "S3Resume"}
    /\ wakSts \in BOOLEAN /\ slpTyp \in BOOLEAN
    /\ fw \in Key /\ key \in Key
    /\ dimm \in Dimm
    /\ setting \in Training \cup {None}
    /\ image \in Training \cup {None}
    /\ s3 \in BOOLEAN /\ updated \in BOOLEAN

BootInit ==
    /\ Init
    /\ stage = "off" /\ path = "Normal"
    /\ wakSts = FALSE /\ slpTyp = FALSE
    /\ fw \in Key /\ key = fw
    /\ dimm \in Dimm
    /\ setting = None /\ image = None
    /\ s3 = FALSE /\ updated = FALSE

-----------------------------------------------------------------------------
(* The firmware *)

\* Bootblock::enter begins every boot as a Normal one.
enter == stage' = "early" /\ path' = "Normal"

\* A reset.  Memory that the controller drives loses its contents, memory that
\* is still in self-refresh keeps them; the PM1 registers stay as they are.
system_reset ==
    /\ enter
    /\ setting' = None
    /\ image' = IF setting = None THEN image ELSE None
    /\ s3' = (s3 /\ setting = None)
    /\ updated' = (updated /\ setting = None)
    /\ UNCHANGED <<vars, pm1, fw, dimm, key>>

halt ==
    /\ stage' = "halt"
    /\ UNCHANGED <<vars, path, pm1, fw, dimm, key, setting, image, s3, updated>>

\* Bootblock::fail and Ramstage::fail: an S3 resume resets instead of booting
\* over the suspended OS, any other boot halts.
fail ==
    \/ path = "S3Resume" /\ system_reset
    \/ path = "Normal" /\ halt

\* Before the boot path is known every failure halts.
enter_Fails == stage = "early" /\ halt

\* Mutant: the indication is not consumed.
detect_s3_resume_Sticky ==
    /\ stage = "early"
    /\ stage' = "bootblock"
    /\ path' = IF wakSts /\ slpTyp THEN "S3Resume" ELSE "Normal"
    /\ UNCHANGED <<vars, pm1, fw, dimm, key, setting, image, s3, updated>>

\* "Consume the southbridge indication exactly once": a wake event and SLP_TYP
\* together mean a resume, and then SLP_TYP is cleared.
detect_s3_resume ==
    /\ stage = "early"
    /\ stage' = "bootblock"
    /\ path' = IF wakSts /\ slpTyp THEN "S3Resume" ELSE "Normal"
    /\ slpTyp' = (slpTyp /\ ~wakSts)
    /\ UNCHANGED <<vars, wakSts, fw, dimm, key, setting, image, s3, updated>>

\* The record dram_init hands to the driver, when its key is this boot's, and
\* the driver accepts: the modules are the ones it was trained with.
Usable == ~Miss /\ bank[active].header.rec.key = fw
Replayable == Usable /\ dimm_of[bank[active].header.rec.payload] = dimm

\* A cold boot trains, or replays a record that fits; either way the result is
\* a training of these modules, and it is captured.  A resume only replays.
dram_init ==
    /\ stage = "bootblock"
    /\ \/ /\ path = "S3Resume" /\ Replayable
          /\ setting' = trained(bank[active].header.rec.payload)
          /\ UNCHANGED <<image, s3, updated>>
       \/ /\ path = "Normal"
          /\ \E p \in Payload : dimm_of[p] = dimm /\ setting' = trained(p)
          /\ image' = None /\ s3' = FALSE /\ updated' = FALSE
    /\ stage' = "dram" /\ key' = fw
    /\ UNCHANGED <<vars, path, pm1, fw, dimm>>

\* The driver resets by itself where the controller is in a state that cannot
\* be trained, whatever the boot path.
raminit_Resets == stage = "bootblock" /\ system_reset

Advance(here, next) ==
    /\ stage = here /\ stage' = next
    /\ UNCHANGED <<vars, path, pm1, fw, dimm, key, setting, image, s3, updated>>

\* load_postcar publishes the captured training in the store, checks that the
\* key is still the one of dram_init, and jumps to postcar.
load_postcar == key = fw /\ Advance("dram", "postcar")

\* Postcar loads the ramstage, on a resume from the stage cache.
load_ramstage == Advance("postcar", "ramstage")

\* load_stage_with_cache resets a resume that has no valid cached stage; all
\* other failures of postcar halt.
load_ramstage_Fails ==
    /\ stage = "postcar"
    /\ \/ halt
       \/ path = "S3Resume" /\ system_reset

\* Up to its console the ramstage may halt whatever the boot path.
ramstage_Halts == stage = "ramstage" /\ halt

\* commit_pending: the published record is saved, or an error found first
\* withholds S3.
commit_pending ==
    /\ stage = "ramstage" /\ path = "Normal"
    /\ \/ /\ key = fw
          /\ save([key |-> key, payload |-> setting.payload], "Normal")
          /\ stage' = "commit" /\ UNCHANGED s3
       \/ stage' = "handoff" /\ s3' = FALSE /\ UNCHANGED vars
    /\ UNCHANGED <<path, pm1, fw, dimm, key, setting, image, updated>>

\* The steps of Journal::save, which only the ramstage takes.
Saving == stage = "commit" /\ SaveStep /\ UNCHANGED bootVars

\* Mutant: S3 is offered whatever became of the record.
commit_memory_cache_Always ==
    /\ stage = "commit" /\ op = "idle"
    /\ \E stagesCached \in BOOLEAN : s3' = stagesCached
    /\ stage' = "handoff"
    /\ UNCHANGED <<vars, path, pm1, fw, dimm, key, setting, image, updated>>

\* commit_memory_cache offers S3 when the record was saved or was current and
\* both stages are cached.
commit_memory_cache ==
    /\ stage = "commit" /\ op = "idle"
    /\ \E stagesCached \in BOOLEAN :
         s3' = (result \in {"saved", "current"} /\ stagesCached)
    /\ stage' = "handoff"
    /\ UNCHANGED <<vars, path, pm1, fw, dimm, key, setting, image, updated>>

\* memory_map commits nothing on a resume.
memory_map == path = "S3Resume" /\ Advance("ramstage", "handoff")

\* boot: a resume jumps to the wake vector, and the memory is the OS's again;
\* any other boot starts the payload.
Boot ==
    /\ stage = "handoff"
    /\ stage' = "os" /\ image' = None
    /\ UNCHANGED <<vars, path, pm1, fw, dimm, key, setting, s3, updated>>

\* boot resets when the other CPUs cannot be parked.
Boot_Resets == stage = "handoff" /\ system_reset

\* A phase that fails: dram_init on a resume that has nothing to replay,
\* load_postcar when the key has changed, boot without a wake vector.
Fail == stage \in {"bootblock", "dram", "ramstage", "handoff"} /\ fail

-----------------------------------------------------------------------------
(* The environment *)

PowerOn ==
    /\ stage = "off" /\ enter
    /\ UNCHANGED <<vars, pm1, fw, dimm, key, setting, image, s3, updated>>

\* The OS writes another firmware image, with a blank cache extent or without
\* touching it.
Update ==
    /\ stage = "os"
    /\ fw' \in Key
    /\ bank' \in {bank, [b \in Bank |-> ErasedBank]}
    /\ updated' = TRUE
    /\ UNCHANGED <<op, rec, dest, seq, result>>
    /\ UNCHANGED <<stage, path, pm1, dimm, key, setting, image, s3>>

Exchange ==
    /\ stage \in {"off", "sleep"}
    /\ dimm' \in Dimm
    /\ UNCHANGED <<vars, stage, path, pm1, fw, key, setting, image, s3, updated>>

\* S3 keeps the memory refreshed and takes the controller's power away.
Suspend ==
    /\ stage = "os" /\ s3
    /\ stage' = "sleep" /\ slpTyp' = TRUE
    /\ image' = setting /\ setting' = None
    /\ UNCHANGED <<vars, path, wakSts, fw, dimm, key, s3, updated>>

Wake ==
    /\ stage = "sleep" /\ enter
    /\ wakSts' = TRUE
    /\ UNCHANGED <<vars, slpTyp, fw, dimm, key, setting, image, s3, updated>>

Reboot == stage \in {"os", "halt"} /\ system_reset

\* SLP_TYP survives a power loss, WAK_STS and the memory do not.
PowerLoss ==
    /\ stage # "off"
    /\ stage' = "off" /\ path' = "Normal" /\ wakSts' = FALSE
    /\ setting' = None /\ image' = None
    /\ s3' = FALSE /\ updated' = FALSE
    /\ IF op = "idle" THEN UNCHANGED vars ELSE PowerCut
    /\ UNCHANGED <<slpTyp, fw, dimm, key>>

Firmware ==
    \/ detect_s3_resume \/ enter_Fails
    \/ dram_init \/ raminit_Resets
    \/ load_postcar
    \/ load_ramstage \/ load_ramstage_Fails
    \/ ramstage_Halts \/ commit_pending \/ Saving \/ commit_memory_cache \/ memory_map
    \/ Boot \/ Boot_Resets
    \/ Fail

Environment ==
    \/ PowerOn \/ Update \/ Exchange \/ Suspend \/ Wake \/ Reboot \/ PowerLoss

BootNext == Firmware \/ Environment

BootSpec == BootInit /\ [][BootNext]_allVars

\* A CPU that is powered runs its firmware.
BootFairSpec == BootSpec /\ WF_allVars(Firmware)

-----------------------------------------------------------------------------
(* Properties *)

\* "Retained RAM must never be retrained": a resume that reaches the stages
\* behind dram_init drives the memory with the very training the suspended OS
\* was written with, whatever was saved, lost, exchanged or updated since, and
\* never takes the SLP_TYP that a power loss leaves behind for a wake.
RetainedReadable ==
    stage \in Trained /\ path = "S3Resume" => setting = image

\* An OS that was offered S3 can be resumed: unless the flash was updated since
\* the commit, a load returns the record of the training in force.
OfferIsRecorded ==
    stage \in {"os", "sleep"} /\ s3 /\ ~updated =>
        /\ ~Miss
        /\ bank[active].header.rec.key = fw
        /\ trained(bank[active].header.rec.payload)
             = IF stage = "os" THEN setting ELSE image

\* "Clears SLP_TYP so a later reset cold-boots instead of re-detecting resume":
\* a resume that resets comes back as a cold boot, so that whatever fails it
\* reaches the OS, stops or becomes a cold boot, and never resets for ever.
ResumeEnds ==
    (stage = "bootblock" /\ path = "S3Resume")
        ~> \/ stage \in {"os", "halt", "off"}
           \/ stage = "bootblock" /\ path = "Normal"

=============================================================================
