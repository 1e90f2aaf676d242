---------------------------- MODULE FlashConsole ----------------------------
(***************************************************************************)
(* The flash console over CacheSpi: stage after stage opens the region,    *)
(* looks for the end of the log by a binary search and appends lines to    *)
(* it, until the region is full or a write fails.  The machine may be      *)
(* reset at any moment, in the middle of a program command too.            *)
(***************************************************************************)
EXTENDS CacheSpi

CONSTANT LINE_BUFFER_SIZE

ASSUME LineAssumption == LINE_BUFFER_SIZE \in Nat \ {0}

VARIABLES
    medium,     \* Log::medium is Some or None; "opening" while Log::open searches
    low, high,  \* what is left to search, of open
    offset,     \* Log::offset
    length,     \* Log::length
    kept        \* bytes whose flush returned Ok, in any stage so far

log == <<medium, low, high, offset, length>>
consoleVars == <<spiVars, log, kept>>

ConsoleTypeOK ==
    /\ SpiTypeOK
    /\ medium \in {"opening", "some", "none"}
    /\ low \in 0 .. Size /\ high \in 0 .. Size
    /\ offset \in 0 .. Size /\ length \in 0 .. LINE_BUFFER_SIZE
    /\ kept \subseteq Offset

\* Log::open starts to look for the end of the log in all of the region.
Open ==
    /\ medium' = "opening" /\ low' = 0 /\ high' = Size
    /\ offset' = 0 /\ length' = 0

ConsoleInit ==
    /\ SpiInit
    /\ medium = "opening" /\ low = 0 /\ high = Size
    /\ offset = 0 /\ length = 0
    /\ kept = {}

-----------------------------------------------------------------------------
middle(l, h) == l + (h - l) \div 2

\* Mutant: the last byte of the interval is not looked at.
Searching_ButOne == medium = "opening" /\ low + 1 < high

Searching == medium = "opening" /\ low < high

\* One turn of the search.
Probe ==
    /\ Searching
    /\ LET m == middle(low, high)
       IN  IF flash[m] = "erased"
           THEN high' = m /\ UNCHANGED low
           ELSE low' = m + 1 /\ UNCHANGED high
    /\ UNCHANGED <<spiVars, medium, offset, length, kept>>

\* A read that fails leaves the console offline.
ProbeFails ==
    /\ Searching
    /\ medium' = "none" /\ low' = 0 /\ high' = 0
    /\ UNCHANGED <<spiVars, offset, length, kept>>

\* The search is over: there is room after low, or the region is full.
Opened ==
    /\ medium = "opening" /\ ~Searching
    /\ IF low < Size
       THEN medium' = "some" /\ offset' = low
       ELSE medium' = "none" /\ UNCHANGED offset
    /\ low' = 0 /\ high' = 0
    /\ UNCHANGED <<spiVars, length, kept>>

-----------------------------------------------------------------------------
\* push of a byte that does not complete the line.
Push ==
    /\ step = "idle" /\ medium = "some"
    /\ length + 1 < LINE_BUFFER_SIZE /\ offset + length + 1 < Size
    /\ length' = length + 1
    /\ UNCHANGED <<spiVars, medium, low, high, offset, kept>>

\* flush, for a newline, a full buffer, the end of the region or the caller.
Flush ==
    /\ step = "idle" /\ medium = "some" /\ length > 0
    /\ Program(offset, length)
    /\ length' = 0
    /\ UNCHANGED <<medium, low, high, offset, kept>>

\* A byte that completes the line.
PushFlush ==
    /\ step = "idle" /\ medium = "some"
    /\ Program(offset, length + 1)
    /\ length' = 0
    /\ UNCHANGED <<medium, low, high, offset, kept>>

\* Back in flush with the result of program.
Flushed ==
    /\ step = "done" /\ step' = "idle"
    /\ IF spiResult = "ok"
       THEN /\ offset' = end
            /\ kept' = kept \cup offset .. end - 1
            /\ medium' = IF end < Size THEN "some" ELSE "none"
       ELSE medium' = "none" /\ UNCHANGED <<offset, kept>>
    /\ UNCHANGED <<flash, spiRegs, spiCall, spiResult, restored, low, high, length>>

\* The stage ends and the next one opens the console.
NextStage ==
    /\ step = "idle" /\ medium # "opening"
    /\ New /\ UNCHANGED <<flash, spiRegs>>
    /\ Open
    /\ UNCHANGED kept

\* A reset, and the first stage that opens the console after it.
Reset ==
    /\ Interrupted /\ New
    /\ Open
    /\ UNCHANGED kept

Spi == SpiStep /\ UNCHANGED <<log, kept>>

ConsoleNext ==
    \/ Probe \/ ProbeFails \/ Opened
    \/ Push \/ Flush \/ PushFlush \/ Spi \/ Flushed \/ NextStage \/ Reset

ConsoleSpec == ConsoleInit /\ [][ConsoleNext]_consoleVars
-----------------------------------------------------------------------------
\* A byte that a stage was told is written is never programmed again, however
\* many resets and failed writes leave holes in the region: the search finds
\* an end beyond every completed line (open, flush).
KeptForever == [][\A i \in kept : flash'[i] = flash[i]]_consoleVars

\* A write that reports success has put back the write enable and the block
\* protection it found, and a call that leaves the protection off has tried
\* to restore it and reports an error (with_write, unprotected).
ProtectionRestored ==
    step = "done" =>
        /\ spiResult = "ok" => we = weBefore /\ bp = bpBefore
        /\ bpBefore /\ ~bp => restored = "err" /\ spiResult = "err"
=============================================================================
