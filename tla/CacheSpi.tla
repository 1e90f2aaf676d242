------------------------------ MODULE CacheSpi ------------------------------
(***************************************************************************)
(* CacheSpi's program on the ICH SPI controller: flash writes are enabled  *)
(* in BIOS_CNTL and the chip's block protection is cleared around the      *)
(* operation, which goes out in chunks that do not cross a program page.   *)
(* Every command may fail; an interrupted or failed chunk leaves any of    *)
(* its bytes programmed.                                                   *)
(*                                                                         *)
(* A byte of the flash is "erased", "text" once programmed, and "mixed"    *)
(* when it was programmed again: programming only clears bits.             *)
(***************************************************************************)
EXTENDS Integers

CONSTANTS
    Size,       \* bytes of the extent
    Chunk,      \* bytes of one program command
    Page        \* bytes of a program page of the chip

ASSUME ExtentAssumption == {Size, Chunk, Page} \subseteq Nat \ {0}

VARIABLES
    flash,      \* the extent
    we,         \* BIOS_CNTL.WRITE_ENABLE
    bp,         \* the chip's block-protect bits are set
    lock,       \* BIOS_CNTL's LOCK_ENABLE or SMM_WRITE_PROTECT, set for this boot
    step,       \* where program is; "idle" outside of it
    at, end,    \* next byte to program, end of the request
    weBefore, bpBefore,             \* before, status
    spiResult, restored             \* result and restored: "ok", "err" or "none" yet

spiCall == <<at, end, weBefore, bpBefore>>
spiRegs == <<we, bp, lock>>
spiVars == <<flash, spiRegs, step, spiCall, spiResult, restored>>

Offset == 0 .. Size - 1
NorByte == {"erased", "text", "mixed"}

SpiTypeOK ==
    /\ flash \in [Offset -> NorByte]
    /\ we \in BOOLEAN /\ bp \in BOOLEAN /\ lock \in BOOLEAN
    /\ weBefore \in BOOLEAN /\ bpBefore \in BOOLEAN
    /\ step \in {"idle", "enable", "status", "unprotect", "chunk", "protect", "disable", "done"}
    /\ at \in 0 .. Size /\ end \in 0 .. Size
    /\ spiResult \in {"none", "ok", "err"} /\ restored \in {"none", "ok", "err"}

\* Programming the bytes of S.
Programmed(S) == [i \in Offset |-> IF i \notin S THEN flash[i]
                                   ELSE IF flash[i] = "erased" THEN "text" ELSE "mixed"]

SpiInit ==
    /\ flash = [i \in Offset |-> "erased"]
    /\ we = FALSE /\ bp \in BOOLEAN /\ lock \in BOOLEAN
    /\ step = "idle" /\ at = 0 /\ end = 0
    /\ weBefore = FALSE /\ bpBefore = FALSE
    /\ spiResult = "none" /\ restored = "none"

\* CacheSpi::new of another stage: nothing is under way.
New ==
    /\ step' = "idle" /\ at' = 0 /\ end' = 0
    /\ weBefore' = FALSE /\ bpBefore' = FALSE
    /\ spiResult' = "none" /\ restored' = "none"

-----------------------------------------------------------------------------
\* program and with_write up to the policy check; before is captured here.
Program(offset, count) ==
    /\ step = "idle"
    /\ at' = offset /\ end' = offset + count
    /\ weBefore' = we /\ bpBefore' = FALSE
    /\ restored' = "none"
    /\ IF lock
       THEN step' = "done" /\ spiResult' = "err"
       ELSE step' = "enable" /\ spiResult' = "none"
    /\ UNCHANGED <<flash, spiRegs>>

\* enable_bios_write, of the flash library.
Enable ==
    /\ step = "enable"
    /\ \/ we' = TRUE /\ step' = "status" /\ UNCHANGED spiResult
       \/ we' \in {we, TRUE} /\ step' = "disable" /\ spiResult' = "err"
    /\ UNCHANGED <<flash, bp, lock, spiCall, restored>>

\* unprotected: the status is read, which may fail; with the bits clear the
\* operation runs at once and nothing is restored.
ReadStatus ==
    /\ step = "status"
    /\ \/ /\ step' = IF bp THEN "unprotect" ELSE "chunk"
          /\ bpBefore' = bp
          /\ UNCHANGED spiResult
       \/ step' = "disable" /\ spiResult' = "err" /\ UNCHANGED bpBefore
    /\ UNCHANGED <<flash, spiRegs, at, end, weBefore, restored>>

\* write_status and the read back, which finds out a chip that ignored it.
Unprotect ==
    /\ step = "unprotect"
    /\ \/ bp' = FALSE /\ step' = "chunk" /\ UNCHANGED spiResult
       \/ bp' \in BOOLEAN /\ step' = "protect" /\ spiResult' = "err"
    /\ UNCHANGED <<flash, we, lock, spiCall, restored>>

\* Where the closure of unprotected returns to.
AfterOperation == IF bpBefore THEN "protect" ELSE "disable"

\* The bytes of the next controller_write: what is left of the request, of a
\* command and of the page, whichever is least.
Count ==
    LET limits == {end - at, Chunk, Page - (at % Page)}
    IN  CHOOSE n \in limits : \A m \in limits : n <= m

NextChunk == at .. at + Count - 1

\* One controller_write: all of the chunk, or an error with any part of it.
WriteChunk ==
    /\ step = "chunk" /\ at < end
    /\ \/ /\ flash' = Programmed(NextChunk)
          /\ at' = at + Count
          /\ UNCHANGED <<step, spiResult>>
       \/ /\ \E S \in SUBSET NextChunk : flash' = Programmed(S)
          /\ step' = AfterOperation /\ spiResult' = "err"
          /\ UNCHANGED at
    /\ UNCHANGED <<spiRegs, end, weBefore, bpBefore, restored>>

Written ==
    /\ step = "chunk" /\ at = end
    /\ step' = AfterOperation /\ spiResult' = "ok"
    /\ UNCHANGED <<flash, spiRegs, spiCall, restored>>

\* Mutant: an error of the operation skips the restore.
Protect_OnSuccess ==
    /\ step = "protect"
    /\ step' = "disable"
    /\ \/ spiResult = "err" /\ UNCHANGED <<bp, restored, spiResult>>
       \/ spiResult = "ok" /\ bp' = TRUE /\ restored' = "ok" /\ UNCHANGED spiResult
       \/ spiResult = "ok" /\ bp' \in BOOLEAN /\ restored' = "err" /\ spiResult' = "err"
    /\ UNCHANGED <<flash, we, lock, spiCall>>

\* Mutant: the result of the operation alone is returned.
Protect_Ignored ==
    /\ step = "protect"
    /\ step' = "disable"
    /\ \/ bp' = TRUE /\ restored' = "ok"
       \/ bp' \in BOOLEAN /\ restored' = "err"
    /\ UNCHANGED <<flash, we, lock, spiCall, spiResult>>

\* The restoring write_status with its read back, whatever the result so far;
\* result.and(restored).
Protect ==
    /\ step = "protect"
    /\ step' = "disable"
    /\ \/ bp' = TRUE /\ restored' = "ok" /\ UNCHANGED spiResult
       \/ bp' \in BOOLEAN /\ restored' = "err" /\ spiResult' = "err"
    /\ UNCHANGED <<flash, we, lock, spiCall>>

\* BIOSWE as it was, read back: the chipset may not have taken it.
Disable ==
    /\ step = "disable"
    /\ step' = "done"
    /\ \/ we' = weBefore /\ UNCHANGED spiResult
       \/ we' = ~weBefore /\ spiResult' = "err"
    /\ UNCHANGED <<flash, bp, lock, spiCall, restored>>

SpiStep ==
    \/ Enable \/ ReadStatus \/ Unprotect \/ WriteChunk \/ Written \/ Protect \/ Disable

-----------------------------------------------------------------------------
\* Power lost or the machine reset: a chunk on its way is cut short, and the
\* chip's protection comes back with its power.
Interrupted ==
    /\ \E S \in SUBSET (IF step = "chunk" THEN NextChunk ELSE {}) : flash' = Programmed(S)
    /\ we' = FALSE /\ bp' \in {bp, TRUE} /\ lock' \in BOOLEAN
=============================================================================
