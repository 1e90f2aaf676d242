------------------------------ MODULE IchSmi -------------------------------
(***************************************************************************)
(* SMI dispatch on an ICH southbridge: the SMI routing that the installer  *)
(* programs (IchSmi), the sources one SMI reports (PendingSmi::take), the  *)
(* board's handler (the ThinkPad X60's, with its embedded controller on a  *)
(* GPI), and the end of the SMI (PendingSmi::finish), interleaved with the *)
(* hardware's events and with CPUs that are late for the SMI.              *)
(*                                                                         *)
(* Every action of the owner is one access, or one run of accesses between *)
(* which nothing else can touch the same registers.  The chipset's side is *)
(* external: the sticky status bits, SMI_STS as what they report, EOS.     *)
(***************************************************************************)
EXTENDS SmmRendezvous, Naturals

CONSTANTS
    Pin,        \* GPI pins: bit p of ALT_GP_SMI_*, bit p + 16 of GPE0_*
    EC,         \* EC_GPIO, the pin of the embedded controller
    BSP,        \* the CPU that runs the installer
    BootGpe,    \* GPE0_EN and ALT_GP_SMI_EN of the board's configuration,
    BootGpi,    \* programmed by its chipset driver
    MaxRaised   \* bound: events of the environment

ASSUME ECAssumption == EC \in Pin
ASSUME BSPAssumption == BSP \in CPU
ASSUME BootAssumption == BootGpe \subseteq Pin /\ BootGpi \subseteq Pin
ASSUME MaxRaisedAssumption == MaxRaised \in Nat

VARIABLES
    setup,      \* the installer: "boot", "quiet" (relocation),
                \* "enabling" or "on"
    previous,   \* SmiEnableState of quiesce_for_relocation
    sci,        \* PM1_CNT.SCI_EN: the OS owns PM1 and GPE0 events
    smiEn,      \* SMI_EN
    pm1En, gpeEn, gpiEn,    \* PM1_EN, GPE0_EN, ALT_GP_SMI_EN
    smiSts,     \* the latched bits of SMI_STS: APM and TCO
    pm1Sts, gpeSts, gpiSts,   \* PM1_STS, GPE0_STS, ALT_GP_SMI_STS
    apmCnt,     \* the last byte written to the APM command port
    ecAsks,     \* the embedded controller pulled its pin and was not asked since
    smi,        \* PendingSmi of the dispatching CPU
    power,      \* "on" or, after poweroff, "off"
    raised      \* events of the environment so far

enables == <<smiEn, pm1En, gpeEn, gpiEn>>
statuses == <<smiSts, pm1Sts, gpeSts, gpiSts>>
chipset == <<setup, previous, sci, enables, statuses, apmCnt, ecAsks, smi>>
ichVars == <<rendezvousVars, chipset, power, raised>>

\* APM commands: ACPI enable, ACPI disable, FINALIZE.
Command == {"enable", "disable", "finalize"}
None == "none"

Pm1Event == {"PWRBTN", "GBL"}

Enables == [pm1 : SUBSET Pm1Event, gpe0 : SUBSET Pin, alt_gp : SUBSET Pin]
NoEnables == [pm1 |-> {}, gpe0 |-> {}, alt_gp |-> {}]

Source == {"APM", "TCO", "PM1", "GPE0", "GPI"}
SmiEnable == {"GBL", "EOS", "APMC", "TCO", "GPI"}

\* PendingSmi, and what finish reads: PM1_STS and SMI_EN.
PendingSmi ==
    [sts : SUBSET Source, apm : Command \cup {None},
     gpe : SUBSET Pin, status : SUBSET Pin, gpi : SUBSET Pin,
     pm1 : SUBSET Pm1Event, en : SUBSET SmiEnable]
NoSmi == [sts |-> {}, apm |-> None, gpe |-> {}, status |-> {}, gpi |-> {},
          pm1 |-> {}, en |-> {}]

IchTypeOK ==
    /\ pc \in [CPU -> {"run", "enter", "claim", "wait", "dispatch", "apm", "events",
                       "gpiAck", "board", "finish", "ack", "stsAck", "eos", "leave"}]
    /\ owner \in CPU \cup {NoCpu}
    /\ latched \subseteq CPU
    /\ setup \in {"boot", "quiet", "enabling", "on"}
    /\ previous \in Enables
    /\ sci \in BOOLEAN /\ ecAsks \in BOOLEAN
    /\ smiEn \subseteq SmiEnable
    /\ pm1En \subseteq Pm1Event /\ gpeEn \subseteq Pin /\ gpiEn \subseteq Pin
    /\ smiSts \subseteq {"APM", "TCO"}
    /\ pm1Sts \subseteq Pm1Event /\ gpeSts \subseteq Pin /\ gpiSts \subseteq Pin
    /\ apmCnt \in Command
    /\ smi \in PendingSmi
    /\ power \in {"on", "off"}
    /\ raised \in 0 .. MaxRaised

\* The boot CPU reaches the installer with the enables its chipset driver
\* programmed, in the legacy mode of reset.
IchInit ==
    /\ RendezvousInit
    /\ setup = "boot"
    /\ previous = NoEnables
    /\ sci = FALSE
    /\ smiEn = {}
    /\ pm1En = {} /\ gpeEn = BootGpe /\ gpiEn = BootGpi
    /\ smiSts = {} /\ pm1Sts = {} /\ gpeSts = {} /\ gpiSts = {}
    /\ apmCnt = "disable"
    /\ ecAsks = FALSE
    /\ smi = NoSmi
    /\ power = "on"
    /\ raised = 0

-----------------------------------------------------------------------------
(* The hardware, external. *)

\* SMI_STS: the latched bits and, live, the enabled events that raise an SMI.
\* With SCI_EN set PM1 and GPE0 events raise an SCI instead.
SmiSts ==
    smiSts
    \cup (IF pm1Sts \cap pm1En # {} /\ ~sci THEN {"PM1"} ELSE {})
    \cup (IF gpeSts \cap gpeEn # {} /\ ~sci THEN {"GPE0"} ELSE {})
    \cup (IF gpiSts \cap gpiEn # {} THEN {"GPI"} ELSE {})

\* The SMI_EN bit of a source; PM1 and GPE0 have none of their own.
Enabled(source) ==
    CASE source = "APM" -> "APMC" \in smiEn
      [] source = "TCO" -> "TCO" \in smiEn
      [] source = "GPI" -> "GPI" \in smiEn
      [] OTHER -> TRUE

\* The chipset asserts SMI# to every CPU and clears EOS; it stays silent until
\* the handler sets EOS again.
AssertSmi ==
    /\ power = "on"
    /\ {"GBL", "EOS"} \subseteq smiEn
    /\ \E source \in SmiSts : Enabled(source)
    /\ smiEn' = smiEn \ {"EOS"}
    /\ latched' = CPU
    /\ UNCHANGED <<pc, owner, setup, previous, sci, pm1En, gpeEn, gpiEn, statuses,
                   apmCnt, ecAsks, smi, power, raised>>

Raise ==
    /\ power = "on"
    /\ raised < MaxRaised
    /\ raised' = raised + 1
    /\ UNCHANGED <<pc, owner, setup, previous, sci, enables, smi, power>>

\* A self-SMI of one CPU: the installer's smoke test.
SelfSmi(c) ==
    /\ Raise
    /\ setup = "on"
    /\ pc[c] = "run"
    /\ latched' = latched \cup {c}
    /\ UNCHANGED <<statuses, apmCnt, ecAsks>>

\* A CPU outside SMM writes a command to the APM port.
WriteApm(c, command) ==
    /\ Raise
    /\ setup = "on"
    /\ pc[c] = "run"
    /\ apmCnt' = command
    /\ smiSts' = smiSts \cup {"APM"}
    /\ UNCHANGED <<latched, pm1Sts, gpeSts, gpiSts, ecAsks>>

\* A TCO event: the software command, which the dock's driver answers, or a
\* watchdog timeout.
RaiseTco ==
    /\ Raise
    /\ smiSts' = smiSts \cup {"TCO"}
    /\ UNCHANGED <<latched, pm1Sts, gpeSts, gpiSts, apmCnt, ecAsks>>

RaisePm1(event) ==
    /\ Raise
    /\ pm1Sts' = pm1Sts \cup {event}
    /\ UNCHANGED <<latched, smiSts, gpeSts, gpiSts, apmCnt, ecAsks>>

\* A pin becomes active: both its GPE0 and its alternate GPI status are set.
\* The embedded controller pulls its pin for every event.
RaisePin(p) ==
    /\ Raise
    /\ gpeSts' = gpeSts \cup {p}
    /\ gpiSts' = gpiSts \cup {p}
    /\ ecAsks' = (ecAsks \/ p = EC)
    /\ UNCHANGED <<latched, smiSts, pm1Sts, apmCnt>>

-----------------------------------------------------------------------------
(* The installer's side: IchSmi. *)

\* clear_status.
ClearStatus ==
    /\ smiSts' = {} /\ pm1Sts' = {} /\ gpeSts' = {} /\ gpiSts' = {}

\* quiesce_for_relocation.  SMI_EN is 0 from its first write on, so the
\* accesses that follow can be one step; SCI_EN is left alone.
Quiesce ==
    /\ setup = "boot"
    /\ previous' = [pm1 |-> pm1En, gpe0 |-> gpeEn, alt_gp |-> gpiEn]
    /\ pm1En' = {} /\ gpeEn' = {} /\ gpiEn' = {}
    /\ ClearStatus
    /\ smiEn' = {"GBL", "EOS"}
    /\ setup' = "quiet"
    /\ UNCHANGED <<rendezvousVars, sci, apmCnt, ecAsks, smi, power, raised>>

\* set_acpi_mode(resume), then enable_permanent_smi up to its last write: the
\* gate is open already, so PM1 and GPE0 events may raise an SMI from here on.
EnableSources(resume) ==
    /\ setup = "quiet" /\ pc[BSP] = "run"
    /\ sci' = resume
    /\ ClearStatus
    /\ pm1En' = previous.pm1 \cup {"PWRBTN", "GBL"}
    /\ gpeEn' = previous.gpe0
    /\ gpiEn' = previous.alt_gp
    /\ setup' = "enabling"
    /\ previous' = NoEnables
    /\ UNCHANGED <<rendezvousVars, smiEn, apmCnt, ecAsks, smi, power, raised>>

\* The write of SMI_EN, EOS with it, while an SMI may be under way elsewhere.
EnableGate ==
    /\ setup = "enabling" /\ pc[BSP] = "run"
    /\ smiEn' = {"TCO", "APMC", "GBL", "EOS"}
    /\ setup' = "on"
    /\ UNCHANGED <<rendezvousVars, previous, sci, pm1En, gpeEn, gpiEn, statuses, apmCnt,
                   ecAsks, smi, power, raised>>

-----------------------------------------------------------------------------
(* PendingSmi::take on the CPU that owns the rendezvous. *)

OwnerStep(c, here, next) ==
    /\ At(c, here, next)
    /\ UNCHANGED <<owner, latched, setup, previous, apmCnt, raised>>

\* SMI_STS is read once.
TakeStatus(c) ==
    /\ OwnerStep(c, "dispatch", "apm")
    /\ smi' = [NoSmi EXCEPT !.sts = SmiSts]
    /\ UNCHANGED <<sci, enables, statuses, ecAsks, power>>

\* Mutant: the byte in the APM port is taken for a command on every SMI.
TakeApm_Replay(c) ==
    /\ OwnerStep(c, "apm", "events")
    /\ smi' = [smi EXCEPT !.apm = IF apmCnt = "finalize" THEN None ELSE apmCnt]
    /\ sci' = CASE apmCnt = "enable" -> TRUE
                [] apmCnt = "disable" -> FALSE
                [] OTHER -> sci
    /\ UNCHANGED <<enables, statuses, ecAsks, power>>

\* The command is read, and ACPI mode switched, only when the APM port raised
\* this SMI.  FINALIZE is not handed to the board.
TakeApm(c) ==
    /\ OwnerStep(c, "apm", "events")
    /\ IF "APM" \in smi.sts
       THEN /\ smi' = [smi EXCEPT !.apm = IF apmCnt = "finalize" THEN None ELSE apmCnt]
            /\ sci' = CASE apmCnt = "enable" -> TRUE
                        [] apmCnt = "disable" -> FALSE
                        [] OTHER -> sci
       ELSE UNCHANGED <<smi, sci>>
    /\ UNCHANGED <<enables, statuses, ecAsks, power>>

\* Of the other sources that this SMI reports, the status is read: GPE0 and the
\* alternate GPIs.  The registers are independent, so one step stands for both
\* reads.  The TCO command is data for the dock and left out.
TakeEvents(c) ==
    /\ OwnerStep(c, "events", "gpiAck")
    /\ smi' = [smi EXCEPT
                 !.gpe = IF "GPE0" \in smi.sts THEN gpeSts ELSE {},
                 !.status = IF "GPI" \in smi.sts THEN gpiSts ELSE {}]
    /\ UNCHANGED <<sci, enables, statuses, ecAsks, power>>

\* Mutant: all bits are cleared.
AckGpi_All(c) ==
    /\ OwnerStep(c, "gpiAck", "board")
    /\ gpiSts' = IF "GPI" \in smi.sts THEN {} ELSE gpiSts
    /\ smi' = [smi EXCEPT !.gpi = smi.status \cap gpiEn]
    /\ UNCHANGED <<sci, enables, smiSts, pm1Sts, gpeSts, ecAsks, power>>

\* The bits that were read are cleared, the enabled ones reported.
AckGpi(c) ==
    /\ OwnerStep(c, "gpiAck", "board")
    /\ gpiSts' = gpiSts \ smi.status
    /\ smi' = [smi EXCEPT !.gpi = smi.status \cap gpiEn]
    /\ UNCHANGED <<sci, enables, smiSts, pm1Sts, gpeSts, ecAsks, power>>

-----------------------------------------------------------------------------
(* The board's handler. *)

\* acpi_switch: route_gpi moves the controller's pin to SCI or to SMI, with
\* the enables off first.
AcpiSwitch ==
    /\ CASE smi.apm = "enable" ->
              /\ gpiEn' = gpiEn \ {EC} /\ gpeEn' = gpeEn \cup {EC}
              /\ UNCHANGED smiEn
         [] smi.apm = "disable" ->
              /\ gpiEn' = gpiEn \cup {EC} /\ gpeEn' = gpeEn \ {EC}
              /\ smiEn' = smiEn \cup {"GPI"}
         [] OTHER -> UNCHANGED <<gpiEn, gpeEn, smiEn>>

\* handle_ec_event: the controller is asked for an event unless the OS owns it.
\* What it answers, if it answers in time, is left to it.
HandleEcEvent == EC \in smi.gpi \cup smi.gpe /\ ~sci

\* smi_handler: the switch, with reset_event_attention telling the controller to
\* discard its events, the dock's answer to a TCO command, the event.
Board(c) ==
    /\ OwnerStep(c, "board", "finish")
    /\ AcpiSwitch
    /\ ecAsks' = (ecAsks /\ smi.apm = None /\ ~HandleEcEvent)
    /\ UNCHANGED <<sci, pm1En, statuses, smi, power>>

-----------------------------------------------------------------------------
(* PendingSmi::finish. *)

\* legacy_pm1_smi: a PM1 event raised this SMI and SCI_EN, read now, is clear.
LegacyPm1Smi == "PM1" \in smi.sts /\ ~sci

\* reset_pm1_status, in legacy mode only: PM1_STS is read.
ReadPm1(c) ==
    /\ OwnerStep(c, "finish", "ack")
    /\ smi' = [smi EXCEPT !.pm1 = IF LegacyPm1Smi THEN pm1Sts ELSE {}]
    /\ UNCHANGED <<sci, enables, statuses, ecAsks, power>>

\* Mutant: all of PM1_STS is cleared.
AckSources_All(c) ==
    /\ pc[c] = "ack"
    /\ pm1Sts' = IF smi.pm1 # {} THEN {} ELSE pm1Sts
    /\ IF "PWRBTN" \in smi.pm1
       THEN power' = "off" /\ UNCHANGED <<pc, gpeSts>>
       ELSE /\ pc' = [pc EXCEPT ![c] = "stsAck"]
            /\ gpeSts' = IF "GPE0" \in smi.sts THEN {} ELSE gpeSts
            /\ UNCHANGED power
    /\ UNCHANGED <<owner, latched, setup, previous, apmCnt, raised, sci, enables,
                   smiSts, gpiSts, ecAsks, smi>>

\* The status registers of the sources are cleared: of PM1 the bits that were
\* read, and all of GPE0 (Gpe0Block::clear_status writes all ones).  A press of
\* the power button turns the machine off, and then nothing follows.
AckSources(c) ==
    /\ pc[c] = "ack"
    /\ pm1Sts' = pm1Sts \ smi.pm1
    /\ IF "PWRBTN" \in smi.pm1
       THEN power' = "off" /\ UNCHANGED <<pc, gpeSts>>
       ELSE /\ pc' = [pc EXCEPT ![c] = "stsAck"]
            /\ gpeSts' = IF "GPE0" \in smi.sts THEN {} ELSE gpeSts
            /\ UNCHANGED power
    /\ UNCHANGED <<owner, latched, setup, previous, apmCnt, raised, sci, enables,
                   smiSts, gpiSts, ecAsks, smi>>

\* SMI_STS is acknowledged and SMI_EN read, to set EOS in it.
AckStatus(c) ==
    /\ OwnerStep(c, "stsAck", "eos")
    /\ smiSts' = smiSts \ smi.sts
    /\ smi' = [smi EXCEPT !.en = smiEn]
    /\ UNCHANGED <<sci, enables, pm1Sts, gpeSts, gpiSts, ecAsks, power>>

\* Mutant: EOS is not set.
SetEos_Forgotten(c) ==
    /\ OwnerStep(c, "eos", "leave")
    /\ smi' = NoSmi
    /\ UNCHANGED <<sci, enables, statuses, ecAsks, power>>

\* SMI_EN is written back: the chipset may assert SMI# again while this CPU
\* still owns the word.  A late CPU's EnableGate may have come between.
SetEos(c) ==
    /\ OwnerStep(c, "eos", "leave")
    /\ smiEn' = smi.en \cup {"EOS"}
    /\ smi' = NoSmi
    /\ UNCHANGED <<sci, pm1En, gpeEn, gpiEn, statuses, ecAsks, power>>

-----------------------------------------------------------------------------
Dispatch(c) ==
    \/ TakeStatus(c) \/ TakeApm(c) \/ TakeEvents(c) \/ AckGpi(c)
    \/ Board(c)
    \/ ReadPm1(c) \/ AckSources(c) \/ AckStatus(c) \/ SetEos(c)

\* A CPU's own steps inside SMM; the board has no enter_cpu.
IchStep(c) ==
    /\ power = "on"
    /\ \/ Dispatch(c)
       \/ /\ Rendezvous(c) \/ EnterCpu(c)
          /\ UNCHANGED <<chipset, power, raised>>

ChipsetEvents ==
    \/ \E c \in CPU : SelfSmi(c) \/ \E command \in Command : WriteApm(c, command)
    \/ RaiseTco
    \/ \E event \in Pm1Event : RaisePm1(event)
    \/ \E p \in Pin : RaisePin(p)

Installer ==
    /\ power = "on"
    /\ Quiesce \/ (\E resume \in BOOLEAN : EnableSources(resume)) \/ EnableGate

IchNext ==
    \/ \E c \in CPU : IchStep(c)
    \/ AssertSmi
    \/ ChipsetEvents
    \/ Installer

IchSpec == IchInit /\ [][IchNext]_ichVars

\* Every CPU runs and takes the SMIs that are latched, and the chipset asserts
\* SMI# when it can.
FairIchSpec ==
    /\ IchSpec
    /\ \A c \in CPU : WF_ichVars(IchStep(c))
    /\ WF_ichVars(AssertSmi)

-----------------------------------------------------------------------------
\* When the embedded controller pulls its pin while the pin is routed to SMI, the
\* handler asks it for an event afterwards, unless the OS takes the controller
\* over: the activation is lost neither between the reading and the clearing of
\* a status register nor when SMI# is asserted while the last owner is leaving
\* (smi.rs take and finish, x60 handle_ec_event).
EcQueried ==
    (ecAsks /\ EC \in gpiEn /\ "GPI" \in smiEn /\ ~sci /\ setup = "on")
        ~> (~ecAsks \/ sci \/ power = "off")

\* A press of the power button in legacy mode turns the machine off unless the
\* OS takes PM1 over first (smi.rs finish).
PowerButtonServed ==
    ("PWRBTN" \in pm1Sts /\ ~sci /\ setup = "on") ~> (power = "off" \/ sci)

\* A PM1 status is cleared only in legacy mode, though ACPI mode may have been
\* off when the SMI began and another CPU may be about to handle the next one,
\* and the power button's only together with the power: a press between the
\* reading of PM1_STS and its acknowledgement is kept for the next SMI, or for
\* the OS (smi.rs finish, pmio_ich.rs reset_pm1_status).
Pm1Kept ==
    [][setup = "on" /\ ~(pm1Sts \subseteq pm1Sts') =>
         ~sci /\ ("PWRBTN" \in pm1Sts \ pm1Sts' => power' = "off")]_ichVars

\* ACPI mode changes only for a command whose status is still set: the byte
\* that stays in the APM port is never replayed by an unrelated SMI (smi.rs
\* take).
NoReplay ==
    [][setup # "quiet" /\ sci' # sci => "APM" \in smiSts]_ichVars

\* "Clear the handled sources": an enabled GPE0 event whose status finish
\* clears was reported to the board by take.
GpeReported ==
    [][setup = "on" => (gpeSts \ gpeSts') \cap gpeEn \subseteq smi.gpe]_ichVars
=============================================================================
