------------------------------- MODULE Sp3Smm -------------------------------
(***************************************************************************)
(* The SP3 SMI handler with the machine-check observer (platform-sp3       *)
(* smm/ras.rs): every CPU that enters SMM inspects its own local SMI       *)
(* status, pushes one record per valid bank into a journal behind a        *)
(* try-lock, and arranges for the native #MC on return; the owner of the   *)
(* rendezvous forwards at most one record, or the diagnostic probe, to the *)
(* BMC.  The policy is the one with observe_mce and a SEL transport;       *)
(* without either flush returns at once and nothing is sent.               *)
(***************************************************************************)
EXTENDS SmmRendezvous, Integers, Sequences, FiniteSets

CONSTANTS
    ProbeEvent,         \* the benign event of the diagnostic probe
    RECORDS,            \* slots of the journal
    MAX_SEL_ATTEMPTS,   \* error reports per boot
    MaxBanks,           \* bound: valid banks of one SMI, when there are any
    MaxEvents           \* bound: SMIs other than the polls for the probe

ASSUME LimitsAssumption ==
    /\ RECORDS \in Nat \ {0} /\ MAX_SEL_ATTEMPTS \in Nat
    /\ MaxBanks \in Nat /\ MaxEvents \in Nat
    /\ ProbeEvent \notin CPU \X (1 .. MaxBanks)
    /\ IsFiniteSet(CPU)

VARIABLES
    cpuState,   \* CPU_STATE: "new", "armed" or "refused"
    local,      \* per CPU: what its local SMI status and save state report
    onExit,     \* MCE_ON_EXIT: CPUs that get the native #MC on return
    journal,    \* JOURNAL
    probe,      \* PROBE
    selFailed,  \* SEL_FAILED
    message,    \* the event the owner is about to send
    sel,        \* the transfers to the BMC and their results, external
    offered,    \* records that banks have offered so far, for the properties
    events      \* SMIs so far

rasVars == <<cpuState, local, onExit, journal, probe, selFailed, message, sel, offered>>
vars == <<rendezvousVars, rasVars, events>>

\* The local cause of an SMI: a redirected machine check with so many valid
\* banks, an intercepted WRMSR that is not a zero status clear (such a clear is
\* replayed and changes nothing here), and a diagnostic request for the probe.
Cause == [mce : BOOLEAN, banks : 0 .. MaxBanks, wrmsr : BOOLEAN, request : BOOLEAN]
NoCause == [mce |-> FALSE, banks |-> 0, wrmsr |-> FALSE, request |-> FALSE]

\* A record says which bank of which CPU it is from.
Record == CPU \X (1 .. MaxBanks)

\* attempts counts together with pending and is not kept apart.
Journal == [locked : BOOLEAN, records : Seq(Record), pending : Nat, dropped : Nat]

TypeOK ==
    /\ pc \in [CPU -> {"run", "enter", "push", "store", "drop", "wrmsr", "claim", "wait",
                       "dispatch", "next", "probe", "send", "leave"}]
    /\ owner \in CPU \cup {NoCpu}
    /\ latched \subseteq CPU
    /\ cpuState \in [CPU -> {"new", "armed", "refused"}]
    /\ local \in [CPU -> Cause]
    /\ onExit \subseteq CPU
    /\ journal \in Journal /\ Len(journal.records) <= RECORDS
    /\ probe \in {"idle", "queued", "running", "success", "failure"}
    /\ selFailed \in BOOLEAN
    /\ message \in Record \cup {ProbeEvent}
    /\ sel \in Seq([event : Record \cup {ProbeEvent}, ok : BOOLEAN])
    /\ offered \in Nat /\ events \in 0 .. MaxEvents

Init ==
    /\ RendezvousInit
    /\ cpuState = [c \in CPU |-> "new"]
    /\ local = [c \in CPU |-> NoCause]
    /\ onExit = {}
    /\ journal = [locked |-> FALSE, records |-> <<>>, pending |-> 0, dropped |-> 0]
    /\ probe = "idle" /\ selFailed = FALSE /\ message = ProbeEvent
    /\ sel = <<>>
    /\ offered = 0 /\ events = 0

-----------------------------------------------------------------------------
(* The machine, external.  A local cause is there when its CPU enters SMM. *)

Event ==
    /\ events < MaxEvents
    /\ events' = events + 1
    /\ UNCHANGED <<pc, owner, cpuState, onExit, journal, probe, selFailed,
                   message, sel, offered>>

\* A source of the FCH, or a write to the SMI command port, reaches every CPU.
Smi == Event /\ latched' = CPU /\ UNCHANGED local

\* A machine check or an intercepted WRMSR, or both, on a CPU that is armed;
\* the redirected #MC also writes the SMI command port.
Trap(c, n, w) ==
    /\ Event
    /\ pc[c] = "run" /\ cpuState[c] = "armed" /\ local[c] = NoCause
    /\ \/ /\ local' = [local EXCEPT ![c] = [mce |-> TRUE, banks |-> n, wrmsr |-> w,
                                           request |-> FALSE]]
          /\ latched' = CPU
       \/ /\ n = 0 /\ w
          /\ local' = [local EXCEPT ![c] = [NoCause EXCEPT !.wrmsr = w]]
          /\ latched' = latched \cup {c}

\* The OS asks for the probe, and then reads its result until there is one.
Request(c) ==
    /\ Event
    /\ pc[c] = "run" /\ local[c] = NoCause
    /\ local' = [local EXCEPT ![c] = [NoCause EXCEPT !.request = TRUE]]
    /\ latched' = CPU

Poll ==
    /\ probe \in {"queued", "running"}
    /\ latched = {} /\ \E c \in CPU : pc[c] = "run"
    /\ latched' = CPU
    /\ UNCHANGED <<pc, owner, rasVars, events>>

-----------------------------------------------------------------------------
(* enter_enabled, on every CPU and before the rendezvous. *)

Local(c, here, next) ==
    /\ At(c, here, next)
    /\ UNCHANGED <<owner, latched, selFailed, message, sel, events>>

\* Where a CPU goes once its records are stored or dropped.
AfterPush(c) == IF local[c].wrmsr THEN "wrmsr" ELSE "claim"

\* The first SMI of a CPU arms it or refuses; a refused one does no more.  On
\* an armed one diagnostics may queue the probe, and observe sets MCE_ON_EXIT
\* before it looks at the banks.  But for PROBE this is all the CPU's own.
Enter(c) ==
    \E result \in IF cpuState[c] = "new" THEN {"armed", "refused"} ELSE {cpuState[c]} :
        /\ cpuState' = [cpuState EXCEPT ![c] = result]
        /\ IF result = "armed"
           THEN /\ Local(c, "enter", IF local[c].banks > 0 THEN "push" ELSE AfterPush(c))
                /\ probe' = IF local[c].request /\ probe = "idle" THEN "queued" ELSE probe
                /\ onExit' = IF local[c].mce THEN onExit \cup {c} ELSE onExit
           ELSE Local(c, "enter", "claim") /\ UNCHANGED <<probe, onExit>>
        /\ UNCHANGED <<local, journal, offered>>

\* Journal::push of one bank's record.  The lock is tried once.
PushLock(c) ==
    /\ Local(c, "push", IF journal.locked THEN "drop" ELSE "store")
    /\ journal' = [journal EXCEPT !.locked = TRUE]
    /\ offered' = offered + 1
    /\ UNCHANGED <<cpuState, local, onExit, probe>>

\* A record is stored or dropped: on to the next bank.
Pushed(c, here) ==
    /\ Local(c, here, IF local[c].banks > 1 THEN "push" ELSE AfterPush(c))
    /\ local' = [local EXCEPT ![c].banks = @ - 1]

\* Mutant: a full journal is not counted.
PushStore_Silent(c) ==
    /\ Pushed(c, "store")
    /\ journal' = IF Len(journal.records) < RECORDS
                  THEN [journal EXCEPT !.locked = FALSE,
                                       !.records = Append(@, <<c, local[c].banks>>)]
                  ELSE [journal EXCEPT !.locked = FALSE]
    /\ UNCHANGED <<cpuState, onExit, probe, offered>>

\* With the lock held: the record is stored if there is a slot, and the lock
\* is free again.
PushStore(c) ==
    /\ IF Len(journal.records) < RECORDS
       THEN /\ Pushed(c, "store")
            /\ journal' = [journal EXCEPT !.locked = FALSE, !.records = Append(@, <<c, local[c].banks>>)]
       ELSE /\ Local(c, "store", "drop")
            /\ journal' = [journal EXCEPT !.locked = FALSE]
            /\ UNCHANGED local
    /\ UNCHANGED <<cpuState, onExit, probe, offered>>

PushDrop(c) ==
    /\ Pushed(c, "drop")
    /\ journal' = [journal EXCEPT !.dropped = @ + 1]
    /\ UNCHANGED <<cpuState, onExit, probe, offered>>

\* Mutant: the CPU is disarmed though a #MC is to be handed off.
Wrmsr_Always(c) ==
    /\ Local(c, "wrmsr", "claim")
    /\ cpuState' = [cpuState EXCEPT ![c] = "refused"]
    /\ onExit' = onExit \ {c}
    /\ UNCHANGED <<local, journal, probe, offered>>

\* The intercepted WRMSR is left to the OS: the CPU is disarmed, unless a #MC is
\* to be handed off first.
Wrmsr(c) ==
    /\ Local(c, "wrmsr", "claim")
    /\ IF ~local[c].mce
       THEN /\ cpuState' = [cpuState EXCEPT ![c] = "refused"]
            /\ onExit' = onExit \ {c}
       ELSE UNCHANGED <<cpuState, onExit>>
    /\ UNCHANGED <<local, journal, probe, offered>>

EnterSp3(c) ==
    Enter(c) \/ PushLock(c) \/ PushStore(c) \/ PushDrop(c) \/ Wrmsr(c)

-----------------------------------------------------------------------------
(* flush_enabled and dispatch, on the owner of the rendezvous. *)

Owner(c, here, next) ==
    /\ At(c, here, next)
    /\ UNCHANGED <<owner, latched, cpuState, local, onExit, offered, events>>

\* Mutant: the breaker returns without an answer to the probe.
FlushBroken_Silent(c) ==
    /\ selFailed
    /\ Owner(c, "dispatch", "leave")
    /\ UNCHANGED <<journal, probe, selFailed, message, sel>>

\* After a failure nothing is sent: a queued probe fails at once.
FlushBroken(c) ==
    /\ selFailed
    /\ Owner(c, "dispatch", "leave")
    /\ probe' = IF probe = "queued" THEN "failure" ELSE probe
    /\ UNCHANGED <<journal, selFailed, message, sel>>

\* Journal::next.  When the lock is taken there is no record this time.
NextLock(c) ==
    /\ ~selFailed
    /\ Owner(c, "dispatch", IF journal.locked THEN "probe" ELSE "next")
    /\ journal' = [journal EXCEPT !.locked = TRUE]
    /\ UNCHANGED <<probe, selFailed, message, sel>>

NextRecord(c) ==
    /\ IF journal.pending < Len(journal.records) /\ journal.pending < MAX_SEL_ATTEMPTS
       THEN /\ Owner(c, "next", "send")
            /\ message' = journal.records[journal.pending + 1]
            /\ journal' = [journal EXCEPT !.locked = FALSE, !.pending = @ + 1]
       ELSE /\ Owner(c, "next", "probe")
            /\ journal' = [journal EXCEPT !.locked = FALSE]
            /\ UNCHANGED message
    /\ UNCHANGED <<probe, selFailed, sel>>

\* With no record to send the probe gets its turn.
StartProbe(c) ==
    /\ IF probe = "queued"
       THEN /\ Owner(c, "probe", "send")
            /\ probe' = "running"
            /\ message' = ProbeEvent
       ELSE Owner(c, "probe", "leave") /\ UNCHANGED <<probe, message>>
    /\ UNCHANGED <<journal, selFailed, sel>>

\* Mutant: a failure does not trip the breaker.
AddSel_Retry(c, success) ==
    /\ Owner(c, "send", "leave")
    /\ sel' = Append(sel, [event |-> message, ok |-> success])
    /\ probe' = IF message # ProbeEvent THEN probe ELSE IF success THEN "success" ELSE "failure"
    /\ message' = ProbeEvent
    /\ UNCHANGED <<journal, selFailed>>

\* Kcs::add_sel, whose polling is bounded, and what is made of its result.
AddSel(c, success) ==
    /\ Owner(c, "send", "leave")
    /\ sel' = Append(sel, [event |-> message, ok |-> success])
    /\ selFailed' = ~success
    /\ probe' = CASE message # ProbeEvent -> probe
                  [] success -> "success"
                  [] OTHER -> "failure"
    /\ message' = ProbeEvent
    /\ UNCHANGED journal

Flush(c) ==
    \/ FlushBroken(c) \/ NextLock(c) \/ NextRecord(c) \/ StartProbe(c)
    \/ \E success \in BOOLEAN : AddSel(c, success)

-----------------------------------------------------------------------------
\* The owner has dispatched the other sources, which touch nothing of this
\* module, and set EOS.  RSM: the native #MC is delivered and the local status is gone.
Return(c) ==
    /\ AwaitOwner(c) \/ Leave(c)
    /\ local' = [local EXCEPT ![c] = NoCause]
    /\ onExit' = onExit \ {c}
    /\ UNCHANGED <<cpuState, journal, probe, selFailed, message, sel, offered, events>>

SmmStep(c) ==
    \/ EnterSp3(c) \/ Flush(c) \/ Return(c)
    \/ /\ TakeSmi(c) \/ ClaimWon(c) \/ ClaimLost(c)
       /\ UNCHANGED <<rasVars, events>>

Environment ==
    \/ Smi
    \/ \E c \in CPU : \/ \E n \in {0, MaxBanks}, w \in BOOLEAN : Trap(c, n, w)
                      \/ Request(c)

Next ==
    \/ \E c \in CPU : SmmStep(c)
    \/ Environment
    \/ Poll

Spec == Init /\ [][Next]_vars

\* Every CPU runs and takes the SMIs that are latched, and the OS goes on
\* polling for the result of the probe.
FairSpec ==
    /\ Spec
    /\ \A c \in CPU : WF_vars(SmmStep(c))
    /\ WF_vars(Poll)

-----------------------------------------------------------------------------
\* A CPU that has taken an SMI returns from it: losers of the race are not
\* kept by the next owner, and none waits for the journal (handler.rs
\* enter_rendezvous, ras.rs with).
EveryoneReturns == \A c \in CPU : pc[c] # "run" ~> pc[c] = "run"

\* Every record that a bank has offered is in the journal, is counted as
\* dropped, or is just being pushed (ras.rs push).
Accounted ==
    offered = Len(journal.records) + journal.dropped
              + Cardinality({c \in CPU : pc[c] \in {"store", "drop"}})

\* The journal keeps the first records, reports them in order and once, sends
\* one probe, and nothing after a failure (ras.rs flush).
Promise == INSTANCE SelLog WITH
    Probe <- ProbeEvent, Capacity <- RECORDS, MaxReports <- MAX_SEL_ATTEMPTS,
    stored <- journal.records, lost <- journal.dropped
SelSpec == Promise!Spec

\* A probe that has been queued gets its result, though the reports go first,
\* the breaker may trip and a push may hold the journal (ras.rs flush_enabled,
\* so with a SEL in the policy; without one a queued probe stays queued).
ProbeEnds == probe = "queued" ~> probe \in {"success", "failure"}

\* A CPU that entered SMM with a redirected #MC leaves it with the native #MC
\* to come, whatever else it had to do (driver-amd ccx/ras.rs observe).
NativeHandoff ==
    [][\A c \in CPU : pc[c] # "run" /\ pc'[c] = "run" /\ local[c].mce => c \in onExit]_vars
=============================================================================
