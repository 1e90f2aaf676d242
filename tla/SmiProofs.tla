----------------------------- MODULE SmiProofs -----------------------------
(***************************************************************************)
(* Proofs about what the CPUs do inside an SMI, on both chipsets that      *)
(* extend SmmRendezvous.                                                   *)
(*                                                                         *)
(* Sp3Smm, for any finite set of CPUs and any limits: every offered record *)
(* is accounted for, every redirected #MC is handed on, and the journal    *)
(* and its reports implement SelLog.  CpuInv ties a CPU's place in the     *)
(* handler to the shared words, LockInv says who holds the journal, SelInv *)
(* what has been sent and what is about to be.                             *)
(*                                                                         *)
(* IchSmi, for any set of CPUs and pins: no PM1 event is lost and no       *)
(* command replayed.  Since only the owner dispatches, the APM status that *)
(* its SMI_STS showed is still set when it reads the command, and ACPI     *)
(* mode still off when it clears the PM1 bits it has read.                 *)
(***************************************************************************)
EXTENDS Sp3Smm, IchSmi, FiniteSetTheorems, TLAPS

-----------------------------------------------------------------------------
(* The SP3 *)

OwnerPlace == {"dispatch", "next", "probe", "send", "leave"}
Holding == {"store", "next"}

CpuInv(c) ==
    /\ owner = c <=> pc[c] \in OwnerPlace
    /\ pc[c] \in {"push", "store", "drop"} => local[c].banks > 0
    /\ local[c].mce => cpuState[c] = "armed"
    /\ local[c].mce /\ pc[c] \notin {"run", "enter"} => c \in onExit
    /\ pc[c] \in {"next", "probe", "send"} => ~selFailed
    /\ pc[c] = "send" => message # ProbeEvent \/ probe = "running"

\* The try-lock of the journal has one holder while it is taken.
LockInv ==
    /\ journal.locked <=> \E c \in CPU : pc[c] \in Holding
    /\ \A c, d \in CPU : pc[c] \in Holding /\ pc[d] \in Holding => c = d

SelInv ==
    /\ journal.pending <= Len(journal.records) /\ journal.pending <= MAX_SEL_ATTEMPTS
    /\ journal.pending = Promise!Reports + IF message = ProbeEvent THEN 0 ELSE 1
    /\ message # ProbeEvent =>
         /\ \E c \in CPU : pc[c] = "send"
         /\ journal.pending > 0 /\ message = journal.records[journal.pending]
    /\ selFailed \/ \A i \in DOMAIN sel : sel[i].ok
    /\ Promise!ProbeSent => probe \in {"success", "failure"}

RasInv == TypeOK /\ (\A c \in CPU : CpuInv(c)) /\ LockInv /\ SelInv

-----------------------------------------------------------------------------
(* The records of the model *)

\* The causes of an SMI (ccx/ras.rs).
LEMMA NoCauseShape == NoCause \in Cause /\ ~NoCause.mce /\ NoCause.banks = 0
  BY LimitsAssumption DEF Cause, NoCause

\* The cause a redirected #MC leaves, with or without an intercepted WRMSR.
LEMMA TrapShape ==
    ASSUME NEW n \in {0, MaxBanks}, NEW w \in BOOLEAN
    PROVE  LET x == [mce |-> TRUE, banks |-> n, wrmsr |-> w, request |-> FALSE]
           IN  x \in Cause /\ x.mce /\ x.banks = n
  BY LimitsAssumption DEF Cause

\* A WRMSR that is the only cause.
LEMMA WrmsrShape ==
    ASSUME NEW x \in Cause, NEW w \in BOOLEAN
    PROVE  LET y == [x EXCEPT !.wrmsr = w]
           IN  y \in Cause /\ y.mce = x.mce /\ y.banks = x.banks
  BY Zenon, LimitsAssumption DEF Cause

\* A request for the probe.
LEMMA RequestShape ==
    ASSUME NEW x \in Cause
    PROVE  LET y == [x EXCEPT !.request = TRUE]
           IN  y \in Cause /\ y.mce = x.mce /\ y.banks = x.banks
  BY Zenon, LimitsAssumption DEF Cause

\* One bank less to push.
LEMMA PushedShape ==
    ASSUME NEW x \in Cause, x.banks > 0
    PROVE  LET y == [x EXCEPT !.banks = @ - 1]
           IN  y \in Cause /\ y.mce = x.mce /\ y.banks = x.banks - 1
  BY LimitsAssumption DEF Cause

\* The journal, taken and released (ras.rs Journal).
LEMMA JournalShape ==
    ASSUME NEW j \in Journal
    PROVE  /\ j.locked \in BOOLEAN /\ j.records \in Seq(Record)
           /\ j.pending \in Nat /\ j.dropped \in Nat
  BY Zenon DEF Journal

\* Taking or releasing the lock changes nothing else.
LEMMA LockedShape ==
    ASSUME NEW j \in Journal, NEW b \in BOOLEAN
    PROVE  LET k == [j EXCEPT !.locked = b]
           IN  /\ k \in Journal /\ k.locked = b
               /\ k.records = j.records /\ k.pending = j.pending /\ k.dropped = j.dropped
  BY Zenon DEF Journal

\* A record is stored and the lock released.
LEMMA StoredShape ==
    ASSUME NEW j \in Journal, NEW r \in Record
    PROVE  LET k == [j EXCEPT !.locked = FALSE, !.records = Append(@, r)]
           IN  /\ k \in Journal /\ k.locked = FALSE
               /\ k.records = Append(j.records, r)
               /\ k.pending = j.pending /\ k.dropped = j.dropped
<1> DEFINE rs == Append(j.records, r)
<1>1. rs \in Seq(Record)
  BY DEF Journal
<1> HIDE DEF rs
<1>2. LET k == [j EXCEPT !.locked = FALSE, !.records = rs]
      IN  /\ k \in Journal /\ k.locked = FALSE /\ k.records = rs
          /\ k.pending = j.pending /\ k.dropped = j.dropped
  BY Zenon, <1>1 DEF Journal
<1> QED
  BY Zenon, <1>2 DEF rs

\* A record is counted as dropped, with no lock held.
LEMMA DroppedShape ==
    ASSUME NEW j \in Journal
    PROVE  LET k == [j EXCEPT !.dropped = @ + 1]
           IN  /\ k \in Journal /\ k.dropped = j.dropped + 1 /\ k.locked = j.locked
               /\ k.records = j.records /\ k.pending = j.pending
  BY DEF Journal

\* Journal::next moves the cursor and releases the lock.
LEMMA NextShape ==
    ASSUME NEW j \in Journal
    PROVE  LET k == [j EXCEPT !.locked = FALSE, !.pending = @ + 1]
           IN  /\ k \in Journal /\ k.locked = FALSE /\ k.pending = j.pending + 1
               /\ k.records = j.records /\ k.dropped = j.dropped
<1> DEFINE p == j.pending + 1
<1>1. p \in Nat
  BY DEF Journal
<1> HIDE DEF p
<1>2. LET k == [j EXCEPT !.locked = FALSE, !.pending = p]
      IN  /\ k \in Journal /\ k.locked = FALSE /\ k.pending = p
          /\ k.records = j.records /\ k.dropped = j.dropped
  BY Zenon, <1>1 DEF Journal
<1> QED
  BY Zenon, <1>2 DEF p

\* A longer sequence of records starts with the shorter one.
LEMMA AppendShape ==
    ASSUME NEW s \in Seq(Record), NEW r \in Record
    PROVE  /\ Append(s, r) \in Seq(Record) /\ Len(Append(s, r)) = Len(s) + 1
           /\ \A i \in 1 .. Len(s) : Append(s, r)[i] = s[i]
  OBVIOUS

-----------------------------------------------------------------------------
(* The inductive invariant *)

\* Every CPU runs, the journal is empty and free, nothing was sent (ras.rs).
LEMMA InitInv == Init => RasInv
<1> SUFFICES ASSUME Init PROVE RasInv
  OBVIOUS
<1> USE LimitsAssumption, NoCpuAssumption DEF Init, RendezvousInit
<1>1. TypeOK
  <2>1. journal \in Journal /\ Len(journal.records) = 0
    BY DEF Journal
  <2>2. sel \in Seq([event : Record \cup {ProbeEvent}, ok : BOOLEAN])
    OBVIOUS
  <2>3. /\ local \in [CPU -> Cause] /\ cpuState \in [CPU -> {"new", "armed", "refused"}]
    BY Zenon, NoCauseShape
  <2>4. Len(journal.records) <= RECORDS /\ events \in 0 .. MaxEvents /\ offered \in Nat
    BY <2>1
  <2>5. /\ pc \in [CPU -> {"run"}] /\ owner \in CPU \cup {NoCpu}
        /\ message \in Record \cup {ProbeEvent}
    OBVIOUS
  <2> QED
    BY Zenon, <2>1, <2>2, <2>3, <2>4, <2>5 DEF TypeOK
<1>2. \A c \in CPU : CpuInv(c)
  BY Zenon DEF CpuInv, OwnerPlace, NoCause
<1>3. LockInv
  BY Zenon DEF LockInv, Holding
<1>4. SelInv
  BY DEF SelInv, Promise!Reports, Promise!ProbeSent
<1> QED
  BY Zenon, <1>1, <1>2, <1>3, <1>4 DEF RasInv

\* What is sent and what is pending stay related as long as the journal keeps
\* its records and its cursor and the sender stays where it is (ras.rs flush).
LEMMA SelFrame ==
    ASSUME RasInv,
           journal'.records = journal.records, journal'.pending = journal.pending,
           UNCHANGED <<message, sel, selFailed>>,
           \A c \in CPU : pc[c] = "send" => pc'[c] = "send",
           probe \in {"success", "failure"} => probe' = probe
    PROVE  SelInv'
<1>1. Promise!Reports' = Promise!Reports /\ Promise!ProbeSent' = Promise!ProbeSent
  BY Zenon DEF Promise!Reports, Promise!ProbeSent
<1> QED
  BY Zenon, <1>1 DEF RasInv, SelInv

\* One CPU moves; the others stay where they are.
LEMMA Moves ==
    ASSUME RasInv, NEW c \in CPU, NEW x, pc' = [pc EXCEPT ![c] = x]
    PROVE  pc'[c] = x /\ \A d \in CPU : d # c => pc'[d] = pc[d]
<1>1. pc \in [CPU -> {"run", "enter", "push", "store", "drop", "wrmsr", "claim", "wait",
                      "dispatch", "next", "probe", "send", "leave"}]
  BY Zenon DEF RasInv, TypeOK
<1> QED
  BY <1>1

\* A CPU that does not hold the journal leaves its holder alone.
LEMMA LockFrame ==
    ASSUME RasInv, NEW c \in CPU, NEW x, pc' = [pc EXCEPT ![c] = x],
           pc[c] \notin Holding, x \notin Holding, journal'.locked = journal.locked
    PROVE  LockInv'
<1>1. \A d \in CPU : pc'[d] \in Holding <=> pc[d] \in Holding
  BY Zenon, Moves
<1> QED
  BY Zenon, <1>1 DEF RasInv, LockInv

\* A CPU that stays where it is, and is the owner or not as before.
LEMMA CpuFrame ==
    ASSUME NEW d \in CPU, CpuInv(d), (owner' = d) <=> (owner = d),
           pc'[d] = pc[d], local'[d] = local[d], cpuState'[d] = cpuState[d],
           d \in onExit => d \in onExit', selFailed' = selFailed,
           pc[d] = "send" => message' = message,
           probe = "running" => probe' = "running"
    PROVE  CpuInv(d)'
BY Zenon DEF CpuInv

\* An SMI for every CPU, or a poll for the probe.
LEMMA SmiInv ==
    ASSUME RasInv, Smi \/ Poll
    PROVE  RasInv'
<1> USE LimitsAssumption, NoCpuAssumption DEF Smi, Poll, Event, rasVars
<1>1. TypeOK'
  BY DEF RasInv, TypeOK, CpuInv
<1>2. ASSUME NEW d \in CPU PROVE CpuInv(d)'
  BY DEF RasInv, TypeOK, CpuInv, LockInv, SelInv, OwnerPlace, Cause, NoCause
<1>3. LockInv'
  BY Zenon DEF RasInv, TypeOK, CpuInv, LockInv, Holding, OwnerPlace, Journal
<1>4. SelInv'
  BY Zenon, SelFrame
<1> QED
  BY <1>1, <1>2, <1>3, <1>4 DEF RasInv

\* A machine check or an intercepted WRMSR.
LEMMA TrapInv ==
    ASSUME RasInv, NEW c \in CPU, NEW n \in {0, MaxBanks}, NEW w \in BOOLEAN, Trap(c, n, w)
    PROVE  RasInv'
<1> USE LimitsAssumption, NoCpuAssumption DEF Trap, Event
<1>1. TypeOK'
  BY NoCauseShape, TrapShape, WrmsrShape DEF RasInv, TypeOK, CpuInv
<1>2. ASSUME NEW d \in CPU PROVE CpuInv(d)'
  BY ZenonT(40) DEF RasInv, TypeOK, CpuInv, LockInv, SelInv, OwnerPlace, Cause, NoCause
<1>3. LockInv'
  BY Zenon DEF RasInv, TypeOK, CpuInv, LockInv, Holding, OwnerPlace, Journal
<1>4. SelInv'
  BY Zenon, SelFrame
<1> QED
  BY <1>1, <1>2, <1>3, <1>4 DEF RasInv

\* The request for the probe.
LEMMA RequestInv ==
    ASSUME RasInv, NEW c \in CPU, Request(c)
    PROVE  RasInv'
<1> USE LimitsAssumption, NoCpuAssumption DEF Request, Event
<1>1. TypeOK'
  BY NoCauseShape, RequestShape DEF RasInv, TypeOK, CpuInv
<1>2. ASSUME NEW d \in CPU PROVE CpuInv(d)'
  BY DEF RasInv, TypeOK, CpuInv, LockInv, SelInv, OwnerPlace, Cause, NoCause
<1>3. LockInv'
  BY Zenon DEF RasInv, TypeOK, CpuInv, LockInv, Holding, OwnerPlace, Journal
<1>4. SelInv'
  BY Zenon, SelFrame
<1> QED
  BY <1>1, <1>2, <1>3, <1>4 DEF RasInv

\* The owner word.
LEMMA RendezvousInv ==
    ASSUME RasInv, NEW c \in CPU, TakeSmi(c) \/ ClaimWon(c) \/ ClaimLost(c),
           UNCHANGED <<rasVars, events>>
    PROVE  RasInv'
<1> USE LimitsAssumption, NoCpuAssumption DEF TakeSmi, ClaimWon, ClaimLost, At, rasVars
<1>1. TypeOK'
  BY DEF RasInv, TypeOK, CpuInv
<1>2. ASSUME NEW d \in CPU PROVE CpuInv(d)'
  BY DEF RasInv, TypeOK, CpuInv, LockInv, SelInv, OwnerPlace, Cause, NoCause
<1>3. LockInv'
  BY DEF RasInv, TypeOK, CpuInv, LockInv, Holding, OwnerPlace, Journal
<1>4. SelInv'
  BY Zenon, SelFrame DEF RasInv, TypeOK
<1> QED
  BY <1>1, <1>2, <1>3, <1>4 DEF RasInv

\* enter_enabled up to the banks.
LEMMA EnterInv ==
    ASSUME RasInv, NEW c \in CPU, Enter(c)
    PROVE  RasInv'
<1> USE LimitsAssumption, NoCpuAssumption DEF Enter, Local, At, AfterPush
<1>1. TypeOK'
  BY DEF RasInv, TypeOK, CpuInv
<1>2. ASSUME NEW d \in CPU PROVE CpuInv(d)'
  <2>1. TypeOK /\ CpuInv(c) /\ CpuInv(d)
    BY Zenon DEF RasInv
  <2>2. CASE d = c
    BY <2>1, <2>2 DEF TypeOK, CpuInv, OwnerPlace
  <2>3. CASE d # c
    <3>1. /\ pc'[d] = pc[d] /\ cpuState'[d] = cpuState[d]
          /\ UNCHANGED <<owner, local, selFailed, message>>
      BY <2>1, <2>3 DEF TypeOK
    <3>2. (d \in onExit => d \in onExit') /\ (probe = "running" => probe' = "running")
      OBVIOUS
    <3> QED
      BY Zenon, <2>1, <3>1, <3>2, CpuFrame
  <2> QED
    BY Zenon, <2>2, <2>3
<1>3. LockInv'
  BY DEF RasInv, TypeOK, CpuInv, LockInv, Holding, OwnerPlace, Journal
<1>4. SelInv'
  <2>1. /\ UNCHANGED <<journal, message, sel, selFailed>>
        /\ \A d \in CPU : pc[d] = "send" => pc'[d] = "send"
    BY DEF RasInv, TypeOK
  <2>2. probe \in {"success", "failure"} => probe' = probe
    OBVIOUS
  <2> QED
    BY Zenon, <2>1, <2>2 DEF RasInv, SelInv, Promise!Reports, Promise!ProbeSent
<1> QED
  BY <1>1, <1>2, <1>3, <1>4 DEF RasInv

\* Journal::push tries the lock.
LEMMA PushLockInv ==
    ASSUME RasInv, NEW c \in CPU, PushLock(c)
    PROVE  RasInv'
<1> USE LimitsAssumption, NoCpuAssumption DEF PushLock, Local, At
<1>1. TypeOK'
  <2>1. journal' \in Journal /\ journal'.records = journal.records
    BY Zenon, LockedShape DEF RasInv, TypeOK
  <2> QED
    BY <2>1 DEF RasInv, TypeOK
<1>2. ASSUME NEW d \in CPU PROVE CpuInv(d)'
  BY DEF RasInv, TypeOK, CpuInv, LockInv, SelInv, OwnerPlace, Cause, NoCause
<1>3. LockInv'
  BY DEF RasInv, TypeOK, CpuInv, LockInv, Holding, OwnerPlace, Journal
<1>4. SelInv'
  <2>1. journal'.records = journal.records /\ journal'.pending = journal.pending
    BY Zenon, LockedShape DEF RasInv, TypeOK
  <2>2. \A d \in CPU : pc[d] = "send" => pc'[d] = "send"
    BY Zenon DEF RasInv, TypeOK
  <2> QED
    BY Zenon, <2>1, <2>2, SelFrame
<1> QED
  BY <1>1, <1>2, <1>3, <1>4 DEF RasInv

\* Journal::push with the lock held.
LEMMA PushStoreInv ==
    ASSUME RasInv, NEW c \in CPU, PushStore(c)
    PROVE  RasInv'
<1> USE LimitsAssumption, NoCpuAssumption DEF Local, At
<1> DEFINE r == <<c, local[c].banks>>
<1>1. r \in Record /\ local[c] \in Cause /\ local[c].banks > 0 /\ pc[c] = "store"
  BY DEF RasInv, TypeOK, CpuInv, Record, Cause, PushStore, Pushed
<1> HIDE DEF r
<1>2. /\ journal' \in Journal /\ ~journal'.locked /\ Len(journal'.records) <= RECORDS
      /\ journal'.pending = journal.pending /\ journal'.dropped = journal.dropped
      /\ Len(journal.records) <= Len(journal'.records)
      /\ \A i \in 1 .. Len(journal.records) : journal'.records[i] = journal.records[i]
  <2>1. CASE Len(journal.records) < RECORDS
    <3>1. journal' = [journal EXCEPT !.locked = FALSE, !.records = Append(@, r)]
      BY Zenon, <2>1 DEF PushStore, r
    <3>2. journal \in Journal /\ journal.records \in Seq(Record) /\ Len(journal.records) \in Nat
      BY JournalShape DEF RasInv, TypeOK
    <3>3. /\ journal' \in Journal /\ ~journal'.locked
          /\ journal'.records = Append(journal.records, r)
          /\ journal'.pending = journal.pending /\ journal'.dropped = journal.dropped
      BY Zenon, <1>1, <3>1, <3>2, StoredShape
    <3> QED
      BY <1>1, <2>1, <3>2, <3>3, AppendShape
  <2>2. CASE ~(Len(journal.records) < RECORDS)
    <3>1. journal' = [journal EXCEPT !.locked = FALSE]
      BY Zenon, <2>2 DEF PushStore
    <3>2. journal \in Journal /\ Len(journal.records) \in Nat /\ Len(journal.records) <= RECORDS
      BY JournalShape DEF RasInv, TypeOK
    <3>3. /\ journal' \in Journal /\ ~journal'.locked /\ journal'.records = journal.records
          /\ journal'.pending = journal.pending /\ journal'.dropped = journal.dropped
      BY Zenon, <3>1, <3>2, LockedShape
    <3> QED
      BY <3>2, <3>3
  <2> QED
    BY Zenon, <2>1, <2>2
<1>3. /\ local' \in [CPU -> Cause]
      /\ \A d \in CPU : local'[d].mce = local[d].mce /\ (d # c => local'[d] = local[d])
      /\ pc' = [pc EXCEPT ![c] = pc'[c]] /\ pc'[c] \in {"push", "drop", "wrmsr", "claim"}
      /\ pc'[c] \in {"push", "drop"} => local'[c].banks > 0
  <2>1. CASE Len(journal.records) < RECORDS
    <3> DEFINE y == [local[c] EXCEPT !.banks = @ - 1]
    <3>1. /\ local' = [local EXCEPT ![c] = y]
          /\ pc' = [pc EXCEPT ![c] = IF local[c].banks > 1 THEN "push" ELSE AfterPush(c)]
      BY Zenon, <2>1 DEF PushStore, Pushed
    <3>2. y \in Cause /\ y.mce = local[c].mce /\ y.banks = local[c].banks - 1
      BY Zenon, <1>1, PushedShape
    <3>3. local[c].banks \in Int
      BY <1>1 DEF Cause
    <3> HIDE DEF y
    <3> QED
      BY <3>1, <3>2, <3>3 DEF RasInv, TypeOK, AfterPush
  <2>2. CASE ~(Len(journal.records) < RECORDS)
    BY Zenon, <1>1, <2>2 DEF RasInv, TypeOK, PushStore
  <2> QED
    BY Zenon, <2>1, <2>2
<1>4. UNCHANGED <<owner, latched, cpuState, onExit, probe, selFailed, message, sel, offered,
                  events>>
  BY Zenon DEF PushStore, Pushed
<1>5. TypeOK'
  <2>1. pc' \in [CPU -> {"run", "enter", "push", "store", "drop", "wrmsr", "claim", "wait",
                        "dispatch", "next", "probe", "send", "leave"}]
    BY <1>3 DEF RasInv, TypeOK
  <2> QED
    BY ZenonT(30), <1>2, <1>3, <1>4, <2>1 DEF RasInv, TypeOK
<1>6. ASSUME NEW d \in CPU PROVE CpuInv(d)'
  BY <1>1, <1>3, <1>4 DEF RasInv, TypeOK, CpuInv, OwnerPlace
<1>7. LockInv'
  <2>1. pc'[c] \notin Holding
    BY Zenon, <1>3 DEF Holding
  <2>2. PICK x : pc' = [pc EXCEPT ![c] = x]
    BY Zenon, <1>3
  <2>3. pc[c] \in Holding
    BY Zenon, <1>1 DEF Holding
  <2>4. \A d \in CPU : d # c => pc[d] \notin Holding
    BY Zenon, <2>3 DEF RasInv, LockInv
  <2>5. \A d \in CPU : d # c => pc'[d] = pc[d]
    BY Zenon, <2>2, Moves
  <2> QED
    BY Zenon, <1>2, <2>1, <2>4, <2>5 DEF LockInv
<1>8. SelInv'
  <2>1. \A d \in CPU : pc[d] = "send" => pc'[d] = "send"
    BY <1>1, <1>3 DEF RasInv, TypeOK
  <2>2. Promise!Reports' = Promise!Reports /\ Promise!ProbeSent' = Promise!ProbeSent
    BY Zenon, <1>4 DEF Promise!Reports, Promise!ProbeSent
  <2>3. journal.pending \in Nat /\ Len(journal.records) \in Nat /\ Len(journal'.records) \in Nat
    BY <1>2, JournalShape DEF RasInv, TypeOK
  <2>4. SelInv
    BY Zenon DEF RasInv
  <2> QED
    BY SMTT(30), <1>2, <1>4, <2>1, <2>2, <2>3, <2>4 DEF SelInv
<1> QED
  BY Zenon, <1>5, <1>6, <1>7, <1>8 DEF RasInv

\* A record is dropped.
LEMMA PushDropInv ==
    ASSUME RasInv, NEW c \in CPU, PushDrop(c)
    PROVE  RasInv'
<1> USE LimitsAssumption, NoCpuAssumption DEF PushDrop, Pushed, Local, At, AfterPush
<1>1. TypeOK'
  BY PushedShape, DroppedShape DEF RasInv, TypeOK, CpuInv
<1>2. ASSUME NEW d \in CPU PROVE CpuInv(d)'
  BY DEF RasInv, TypeOK, CpuInv, LockInv, SelInv, OwnerPlace, Cause, NoCause
<1>3. LockInv'
  BY DEF RasInv, TypeOK, CpuInv, LockInv, Holding, OwnerPlace, Journal
<1>4. SelInv'
  <2>1. journal'.records = journal.records /\ journal'.pending = journal.pending
    BY DroppedShape DEF RasInv, TypeOK
  <2>2. \A d \in CPU : pc[d] = "send" => pc'[d] = "send"
    BY Zenon DEF RasInv, TypeOK
  <2> QED
    BY Zenon, <2>1, <2>2, SelFrame
<1> QED
  BY Zenon, <1>1, <1>2, <1>3, <1>4 DEF RasInv

\* The intercepted WRMSR.
LEMMA WrmsrInv ==
    ASSUME RasInv, NEW c \in CPU, Wrmsr(c)
    PROVE  RasInv'
<1> USE LimitsAssumption, NoCpuAssumption DEF Wrmsr, Local, At
<1>1. TypeOK'
  BY DEF RasInv, TypeOK, CpuInv
<1>2. ASSUME NEW d \in CPU PROVE CpuInv(d)'
  BY DEF RasInv, TypeOK, CpuInv, LockInv, SelInv, OwnerPlace, Cause, NoCause
<1>3. LockInv'
  BY DEF RasInv, TypeOK, CpuInv, LockInv, Holding, OwnerPlace, Journal
<1>4. SelInv'
  BY Zenon, SelFrame DEF RasInv, TypeOK
<1> QED
  BY <1>1, <1>2, <1>3, <1>4 DEF RasInv

\* The breaker.
LEMMA FlushBrokenInv ==
    ASSUME RasInv, NEW c \in CPU, FlushBroken(c)
    PROVE  RasInv'
<1> USE LimitsAssumption, NoCpuAssumption DEF FlushBroken, Owner, At
<1>1. TypeOK'
  BY Zenon DEF RasInv, TypeOK, CpuInv
<1>2. ASSUME NEW d \in CPU PROVE CpuInv(d)'
  <2>1. CpuInv(c) /\ CpuInv(d)
    BY Zenon DEF RasInv
  <2>2. pc'[c] = "leave" /\ (d # c => pc'[d] = pc[d])
    BY Zenon, Moves
  <2>3. /\ UNCHANGED <<owner, cpuState, local, onExit, selFailed, message>>
        /\ pc[c] = "dispatch" /\ (probe = "running" => probe' = "running")
    BY Zenon
  <2>4. CASE d = c
    BY ZenonT(30), <2>1, <2>2, <2>3, <2>4 DEF CpuInv, OwnerPlace
  <2>5. CASE d # c
    BY Zenon, <2>1, <2>2, <2>3, <2>5, CpuFrame
  <2> QED
    BY Zenon, <2>4, <2>5
<1>3. LockInv'
  BY Zenon, LockFrame DEF Holding
<1>4. SelInv'
  BY Zenon DEF RasInv, TypeOK, CpuInv, SelInv, OwnerPlace, Promise!Reports,
     Promise!ProbeSent, Journal
<1> QED
  BY <1>1, <1>2, <1>3, <1>4 DEF RasInv

\* Journal::next tries the lock.
LEMMA NextLockInv ==
    ASSUME RasInv, NEW c \in CPU, NextLock(c)
    PROVE  RasInv'
<1> USE LimitsAssumption, NoCpuAssumption DEF NextLock, Owner, At
<1>1. TypeOK'
  BY Zenon, LockedShape DEF RasInv, TypeOK, CpuInv
<1>2. ASSUME NEW d \in CPU PROVE CpuInv(d)'
  BY DEF RasInv, TypeOK, CpuInv, LockInv, SelInv, OwnerPlace, Cause, NoCause
<1>3. LockInv'
  BY DEF RasInv, TypeOK, CpuInv, LockInv, Holding, OwnerPlace, Journal
<1>4. SelInv'
  BY Zenon DEF RasInv, TypeOK, CpuInv, SelInv, OwnerPlace, Promise!Reports,
     Promise!ProbeSent, Journal
<1> QED
  BY <1>1, <1>2, <1>3, <1>4 DEF RasInv

\* Journal::next with the lock held.
LEMMA NextRecordInv ==
    ASSUME RasInv, NEW c \in CPU, NextRecord(c)
    PROVE  RasInv'
<1> USE LimitsAssumption, NoCpuAssumption DEF Owner, At
<1>1. /\ pc[c] = "next" /\ owner = c /\ message = ProbeEvent /\ ~selFailed
      /\ \A d \in CPU : pc[d] # "send"
  BY DEF NextRecord, RasInv, CpuInv, SelInv, OwnerPlace
<1>2. /\ pc' = [pc EXCEPT ![c] = pc'[c]]
      /\ UNCHANGED <<owner, latched, cpuState, local, onExit, probe, selFailed, sel, offered,
                     events>>
  BY Zenon DEF NextRecord
<1>3. /\ journal' \in Journal /\ ~journal'.locked
      /\ journal'.records = journal.records /\ journal'.dropped = journal.dropped
  <2>1. journal \in Journal
    BY Zenon DEF RasInv, TypeOK
  <2>2. \/ journal' = [journal EXCEPT !.locked = FALSE, !.pending = @ + 1]
        \/ journal' = [journal EXCEPT !.locked = FALSE]
    BY Zenon DEF NextRecord
  <2>3. CASE journal' = [journal EXCEPT !.locked = FALSE, !.pending = @ + 1]
    BY Zenon, <2>1, <2>3, NextShape
  <2>4. CASE journal' = [journal EXCEPT !.locked = FALSE]
    BY Zenon, <2>1, <2>4, LockedShape
  <2> QED
    BY Zenon, <2>2, <2>3, <2>4
<1>4. \/ /\ pc'[c] = "send" /\ journal'.pending = journal.pending + 1
         /\ journal.pending < Len(journal.records) /\ journal.pending < MAX_SEL_ATTEMPTS
         /\ message' = journal.records[journal.pending + 1]
      \/ pc'[c] = "probe" /\ journal'.pending = journal.pending /\ message' = message
  BY ZenonT(30), LockedShape, NextShape DEF NextRecord, RasInv, TypeOK
<1>5. pc'[c] = "send" => message' \in Record /\ message' # ProbeEvent
  <2> SUFFICES ASSUME pc'[c] = "send" PROVE message' \in Record /\ message' # ProbeEvent
    OBVIOUS
  <2>1. journal.records \in Seq(Record) /\ journal.pending \in Nat
    BY Zenon, JournalShape DEF RasInv, TypeOK
  <2>2. /\ journal.pending < Len(journal.records)
        /\ message' = journal.records[journal.pending + 1]
    BY Zenon, <1>4
  <2>3. message' \in Record
    BY <2>1, <2>2
  <2> QED
    BY Zenon, <2>3 DEF Record
<1>6. TypeOK'
  BY <1>1, <1>2, <1>3, <1>4, <1>5 DEF RasInv, TypeOK
<1>7. ASSUME NEW d \in CPU PROVE CpuInv(d)'
  BY <1>1, <1>2, <1>4, <1>5 DEF RasInv, TypeOK, CpuInv, OwnerPlace
<1>8. LockInv'
  BY <1>1, <1>2, <1>3, <1>4 DEF RasInv, TypeOK, LockInv, Holding
<1>9. SelInv'
  <2>1. Promise!Reports' = Promise!Reports /\ Promise!ProbeSent' = Promise!ProbeSent
    BY <1>2 DEF Promise!Reports, Promise!ProbeSent
  <2>2. Promise!Reports \in Int /\ journal.pending = Promise!Reports
    BY <1>1, JournalShape DEF RasInv, SelInv, TypeOK, Promise!Reports
  <2>3. journal'.pending = Promise!Reports + IF message' = ProbeEvent THEN 0 ELSE 1
    BY <1>1, <1>4, <1>5, <2>2
  <2>4. /\ journal'.pending <= Len(journal'.records)
        /\ journal'.pending <= MAX_SEL_ATTEMPTS
    <3>1. journal.pending <= Len(journal.records) /\ journal.pending <= MAX_SEL_ATTEMPTS
      BY Zenon DEF RasInv, SelInv
    <3>2. journal.pending \in Nat /\ Len(journal.records) \in Nat
      BY JournalShape DEF RasInv, TypeOK
    <3> QED
      BY <1>3, <1>4, <3>1, <3>2
  <2>5. message' # ProbeEvent =>
            /\ \E d \in CPU : pc'[d] = "send"
            /\ journal'.pending > 0 /\ message' = journal'.records[journal'.pending]
    <3>1. message' # ProbeEvent =>
              /\ pc'[c] = "send" /\ journal'.pending = journal.pending + 1
              /\ message' = journal.records[journal.pending + 1]
      BY Zenon, <1>1, <1>4
    <3>2. journal.pending \in Nat
      BY Zenon, JournalShape DEF RasInv, TypeOK
    <3>3. journal.pending + 1 > 0
      BY <3>2
    <3> QED
      BY Zenon, <1>3, <3>1, <3>3
  <2>6. /\ selFailed' \/ \A i \in DOMAIN sel' : sel'[i].ok
        /\ Promise!ProbeSent' => probe' \in {"success", "failure"}
    BY Zenon, <1>2, <2>1 DEF RasInv, SelInv
  <2> QED
    BY Zenon, <2>1, <2>3, <2>4, <2>5, <2>6 DEF SelInv
<1> QED
  BY Zenon, <1>6, <1>7, <1>8, <1>9 DEF RasInv

\* The probe's turn.
LEMMA StartProbeInv ==
    ASSUME RasInv, NEW c \in CPU, StartProbe(c)
    PROVE  RasInv'
<1>1. /\ pc[c] = "probe"
      /\ UNCHANGED <<owner, latched, cpuState, local, onExit, offered, events, journal,
                     selFailed, sel>>
  BY Zenon DEF StartProbe, Owner, At
<1>2. PICK x \in {"send", "leave"} :
          /\ pc' = [pc EXCEPT ![c] = x]
          /\ \/ x = "send" /\ probe = "queued" /\ probe' = "running" /\ message' = ProbeEvent
             \/ x = "leave" /\ UNCHANGED <<probe, message>>
  BY Zenon DEF StartProbe, Owner, At
<1>3. pc'[c] = x /\ \A d \in CPU : d # c => pc'[d] = pc[d]
  BY Zenon, <1>2, Moves
<1>4. ASSUME NEW d \in CPU, d # c
      PROVE  pc[d] # "send"
  BY Zenon, <1>1, <1>4 DEF RasInv, CpuInv, OwnerPlace
<1>5. message = ProbeEvent
  BY Zenon, <1>1, <1>4 DEF RasInv, SelInv
<1>6. TypeOK'
  <2>1. pc' \in [CPU -> {"run", "enter", "push", "store", "drop", "wrmsr", "claim", "wait",
                        "dispatch", "next", "probe", "send", "leave"}]
    BY <1>2 DEF RasInv, TypeOK
  <2> QED
    BY ZenonT(30), <1>1, <1>2, <2>1 DEF RasInv, TypeOK
<1>7. ASSUME NEW d \in CPU PROVE CpuInv(d)'
  <2>1. CpuInv(c) /\ CpuInv(d)
    BY Zenon DEF RasInv
  <2>2. CASE d = c
    BY Zenon, <1>1, <1>2, <1>3, <2>1, <2>2 DEF CpuInv, OwnerPlace
  <2>3. CASE d # c
    BY Zenon, <1>1, <1>2, <1>3, <1>4, <2>1, <2>3, CpuFrame
  <2> QED
    BY Zenon, <2>2, <2>3
<1>8. LockInv'
  <2>1. pc[c] \notin Holding /\ x \notin Holding
    BY Zenon, <1>1, <1>2 DEF Holding
  <2> QED
    BY Zenon, <1>1, <1>2, <2>1, LockFrame
<1>9. SelInv'
  <2>1. \A d \in CPU : pc[d] = "send" => pc'[d] = "send"
    BY Zenon, <1>1, <1>3
  <2>2. UNCHANGED message /\ (probe \in {"success", "failure"} => probe' = probe)
    BY Zenon, <1>2, <1>5
  <2> QED
    BY Zenon, <1>1, <2>1, <2>2, SelFrame
<1> QED
  BY Zenon, <1>6, <1>7, <1>8, <1>9 DEF RasInv

\* A transfer to the BMC.
LEMMA AddSelInv ==
    ASSUME RasInv, NEW c \in CPU, NEW success \in BOOLEAN, AddSel(c, success)
    PROVE  RasInv'
<1> USE LimitsAssumption, NoCpuAssumption DEF AddSel, Owner, At
<1>1. TypeOK'
  <2>1. [event |-> message, ok |-> success] \in [event : Record \cup {ProbeEvent}, ok : BOOLEAN]
    BY Zenon DEF RasInv, TypeOK
  <2>2. sel' \in Seq([event : Record \cup {ProbeEvent}, ok : BOOLEAN])
    BY <2>1 DEF RasInv, TypeOK
  <2> QED
    BY <2>2 DEF RasInv, TypeOK
<1>2. ASSUME NEW d \in CPU PROVE CpuInv(d)'
  BY DEF RasInv, TypeOK, CpuInv, LockInv, SelInv, OwnerPlace, Cause, NoCause
<1>3. LockInv'
  BY DEF RasInv, TypeOK, CpuInv, LockInv, Holding, OwnerPlace, Journal
<1>4. SelInv'
  <2> DEFINE t == [event |-> message, ok |-> success]
  <2>1. /\ t \in [event : Record \cup {ProbeEvent}, ok : BOOLEAN]
        /\ t.event = message /\ t.ok = success
    BY Zenon DEF RasInv, TypeOK
  <2>2. /\ sel' = Append(sel, t) /\ message' = ProbeEvent
        /\ journal' = journal /\ selFailed' = ~success
    OBVIOUS
  <2> HIDE DEF t
  <2>3. /\ Len(sel') = Len(sel) + 1 /\ sel'[Len(sel) + 1] = t
        /\ \A i \in 1 .. Len(sel) : sel'[i] = sel[i]
        /\ DOMAIN sel = 1 .. Len(sel) /\ DOMAIN sel' = 1 .. Len(sel) + 1 /\ Len(sel) \in Nat
    BY <2>1, <2>2 DEF RasInv, TypeOK
  <2>4. ~selFailed /\ (message = ProbeEvent => probe = "running")
    BY Zenon DEF RasInv, CpuInv
  <2>5. Promise!ProbeSent' <=> Promise!ProbeSent \/ message = ProbeEvent
    BY <2>1, <2>3 DEF Promise!ProbeSent
  <2>6. message = ProbeEvent => ~Promise!ProbeSent
    BY Zenon, <2>4 DEF RasInv, SelInv
  <2>7. Promise!Reports' = Promise!Reports + IF message = ProbeEvent THEN 0 ELSE 1
    <3>1. CASE message = ProbeEvent
      BY <2>3, <2>5, <2>6, <3>1 DEF Promise!Reports
    <3>2. CASE message # ProbeEvent
      BY <2>3, <2>5, <3>2 DEF Promise!Reports
    <3> QED
      BY <3>1, <3>2
  <2>8. \A i \in DOMAIN sel' : i = Len(sel) + 1 \/ i \in DOMAIN sel
    BY <2>3
  <2>9. selFailed' \/ \A i \in DOMAIN sel' : sel'[i].ok
    BY Zenon, <2>1, <2>2, <2>3, <2>4, <2>8 DEF RasInv, SelInv
  <2>10. Promise!ProbeSent' => probe' \in {"success", "failure"}
    BY Zenon, <2>4, <2>5 DEF RasInv, SelInv
  <2>11. journal.pending \in Nat /\ journal.pending = Promise!Reports'
    BY <2>7, JournalShape DEF RasInv, TypeOK, SelInv
  <2> QED
    BY <2>2, <2>9, <2>10, <2>11 DEF RasInv, SelInv
<1> QED
  BY <1>1, <1>2, <1>3, <1>4 DEF RasInv

\* RSM.
LEMMA ReturnInv ==
    ASSUME RasInv, NEW c \in CPU, Return(c)
    PROVE  RasInv'
<1> USE LimitsAssumption, NoCpuAssumption DEF Return, AwaitOwner, Leave, At
<1>1. TypeOK'
  BY NoCauseShape DEF RasInv, TypeOK, CpuInv
<1>2. ASSUME NEW d \in CPU PROVE CpuInv(d)'
  <2>1. TypeOK /\ CpuInv(c) /\ CpuInv(d)
    BY Zenon DEF RasInv
  <2>2. pc' = [pc EXCEPT ![c] = "run"] /\ local' = [local EXCEPT ![c] = NoCause]
    OBVIOUS
  <2>3. UNCHANGED <<cpuState, selFailed, message, probe>> /\ onExit' = onExit \ {c}
    OBVIOUS
  <2>4. \/ pc[c] = "wait" /\ owner = NoCpu /\ owner' = owner
        \/ pc[c] = "leave" /\ owner' = NoCpu
    OBVIOUS
  <2>5. owner' # d
    BY <2>4
  <2>6. CASE d = c
    BY <2>1, <2>2, <2>5, <2>6, NoCauseShape DEF TypeOK, CpuInv, OwnerPlace
  <2>7. CASE d # c
    <3>1. owner # d
      BY Zenon, <2>1, <2>4, <2>7 DEF CpuInv, OwnerPlace
    <3>2. pc'[d] = pc[d] /\ local'[d] = local[d]
      BY <2>1, <2>2, <2>7 DEF TypeOK
    <3> QED
      BY Zenon, <2>1, <2>3, <2>5, <2>7, <3>1, <3>2, CpuFrame
  <2> QED
    BY <2>6, <2>7
<1>3. LockInv'
  <2>1. pc[c] \in {"wait", "leave"} /\ pc' = [pc EXCEPT ![c] = "run"]
    OBVIOUS
  <2>2. journal'.locked = journal.locked
    OBVIOUS
  <2>3. pc[c] \notin Holding /\ "run" \notin Holding
    BY Zenon, <2>1 DEF Holding
  <2> QED
    BY Zenon, <2>1, <2>2, <2>3, LockFrame
<1>4. SelInv'
  <2>1. pc[c] # "send" /\ pc' = [pc EXCEPT ![c] = "run"]
    OBVIOUS
  <2>2. \A d \in CPU : pc[d] = "send" => pc'[d] = "send"
    BY Zenon, <2>1, Moves
  <2>3. UNCHANGED <<journal, message, sel, selFailed, probe>>
    OBVIOUS
  <2> QED
    BY Zenon, <2>2, <2>3, SelFrame
<1> QED
  BY <1>1, <1>2, <1>3, <1>4 DEF RasInv

\* Every step keeps the invariant.
LEMMA NextInv == RasInv /\ [Next]_vars => RasInv'
<1> SUFFICES ASSUME RasInv, [Next]_vars PROVE RasInv'
  OBVIOUS
<1>1. ASSUME NEW c \in CPU, EnterSp3(c) PROVE RasInv'
  BY <1>1, EnterInv, PushLockInv, PushStoreInv, PushDropInv, WrmsrInv DEF EnterSp3
<1>2. ASSUME NEW c \in CPU, Flush(c) PROVE RasInv'
  BY <1>2, FlushBrokenInv, NextLockInv, NextRecordInv, StartProbeInv, AddSelInv DEF
     Flush
<1>3. ASSUME NEW c \in CPU, Return(c) PROVE RasInv'
  BY <1>3, ReturnInv
<1>4. ASSUME NEW c \in CPU, TakeSmi(c) \/ ClaimWon(c) \/ ClaimLost(c),
             UNCHANGED <<rasVars, events>>
      PROVE  RasInv'
  BY <1>4, RendezvousInv
<1>5. CASE Environment
  BY <1>5, SmiInv, TrapInv, RequestInv DEF Environment
<1>6. CASE Poll
  BY <1>6, SmiInv
<1>7. CASE UNCHANGED vars
  <2> USE <1>7 DEF vars, rendezvousVars, rasVars
  <2>1. TypeOK'
    BY Zenon DEF RasInv, TypeOK
  <2>2. \A c \in CPU : CpuInv(c)'
    BY Zenon DEF RasInv, CpuInv
  <2>3. LockInv' /\ SelInv'
    BY Zenon DEF RasInv, LockInv, SelInv, Promise!Reports, Promise!ProbeSent
  <2> QED
    BY <2>1, <2>2, <2>3 DEF RasInv
<1> QED
  BY Zenon, <1>1, <1>2, <1>3, <1>4, <1>5, <1>6, <1>7 DEF Next, SmmStep

\* The invariant of the handler (handler.rs enter_rendezvous, ras.rs).
THEOREM RasCorrect == Spec => []RasInv
  BY InitInv, NextInv, PTL DEF Spec

\* The journal's try-lock keeps out every CPU but one, and whenever it is taken
\* its holder is about to release it (ras.rs Journal::with).
THEOREM JournalExclusive == Spec => []LockInv
<1>1. RasInv => LockInv
  BY Zenon DEF RasInv
<1> QED
  BY <1>1, RasCorrect, PTL

-----------------------------------------------------------------------------
(* The native #MC *)

\* A CPU that returns from SMM with a redirected #MC has it in MCE_ON_EXIT.
LEMMA HandoffStep ==
    ASSUME RasInv, [Next]_vars, NEW c \in CPU,
           pc[c] # "run", pc'[c] = "run", local[c].mce
    PROVE  c \in onExit
<1>1. pc[c] # "enter"
  <2>1. CASE UNCHANGED vars
    BY Zenon, <2>1 DEF vars, rendezvousVars
  <2>2. CASE Environment \/ Poll
    BY Zenon, <2>2 DEF Environment, Smi, Trap, Request, Poll, Event
  <2>3. ASSUME NEW d \in CPU, SmmStep(d), pc[c] = "enter" PROVE FALSE
    <3> USE <2>3 DEF RasInv, TypeOK, At
    <3>1. CASE EnterSp3(d)
      BY <3>1 DEF EnterSp3, Enter, PushLock, PushStore, PushDrop, Wrmsr, Pushed, Local,
         AfterPush
    <3>2. CASE Flush(d)
      BY Zenon, <3>2 DEF Flush, FlushBroken, NextLock, NextRecord, StartProbe,
         AddSel, Owner
    <3>3. CASE Return(d)
      BY Zenon, <3>3 DEF Return, AwaitOwner, Leave
    <3>4. CASE TakeSmi(d) \/ ClaimWon(d) \/ ClaimLost(d)
      BY Zenon, <3>4 DEF TakeSmi, ClaimWon, ClaimLost
    <3> QED
      BY <3>1, <3>2, <3>3, <3>4 DEF SmmStep
  <2> QED
    BY <2>1, <2>2, <2>3 DEF Next
<1> QED
  BY Zenon, <1>1 DEF RasInv, CpuInv

\* A CPU that entered SMM with a redirected #MC leaves it with the native #MC to
\* come (driver-amd ccx/ras.rs observe).
THEOREM HandoffHolds == Spec => NativeHandoff
<1>1. RasInv /\ [Next]_vars =>
        [\A c \in CPU : pc[c] # "run" /\ pc'[c] = "run" /\ local[c].mce => c \in onExit]_vars
  BY Zenon, HandoffStep
<1> QED
  BY <1>1, RasCorrect, PTL DEF Spec, NativeHandoff

-----------------------------------------------------------------------------
(* Counting the records *)

\* CPUs with a record on its way into the journal.
InPush == {c \in CPU : pc[c] \in {"store", "drop"}}

\* The steps that neither store nor drop a record.
QuietLocal(c) == Enter(c) \/ Wrmsr(c) \/ Return(c)
QuietOwner(c) == FlushBroken(c) \/ NextLock(c) \/ NextRecord(c) \/ StartProbe(c)

\* Such a step leaves the records and their counts alone.
LEMMA QuietStep ==
    ASSUME RasInv, NEW c \in CPU,
           \/ QuietLocal(c) \/ QuietOwner(c) \/ \E success \in BOOLEAN : AddSel(c, success)
           \/ (TakeSmi(c) \/ ClaimWon(c) \/ ClaimLost(c)) /\ UNCHANGED <<rasVars, events>>
    PROVE  /\ journal'.records = journal.records /\ journal'.dropped = journal.dropped
           /\ offered' = offered /\ InPush' = InPush
<1>1. CASE QuietLocal(c)
  BY ZenonT(40), <1>1 DEF QuietLocal, Enter, Wrmsr, Return, Local, At, AwaitOwner,
     Leave, AfterPush, InPush, RasInv, TypeOK
<1>2. CASE QuietOwner(c)
  <2>1. journal \in Journal /\ offered' = offered
    BY Zenon, <1>2 DEF RasInv, TypeOK, QuietOwner, FlushBroken, NextLock,
       NextRecord, StartProbe, Owner
  <2>2. \/ journal' = journal
        \/ journal' = [journal EXCEPT !.locked = TRUE]
        \/ journal' = [journal EXCEPT !.locked = FALSE, !.pending = @ + 1]
        \/ journal' = [journal EXCEPT !.locked = FALSE]
    BY Zenon, <1>2 DEF QuietOwner, FlushBroken, NextLock, NextRecord, StartProbe
  <2>3. journal'.records = journal.records /\ journal'.dropped = journal.dropped
    <3>1. CASE journal' = [journal EXCEPT !.locked = FALSE, !.pending = @ + 1]
      BY Zenon, <2>1, <3>1, NextShape
    <3>2. ASSUME NEW b \in BOOLEAN, journal' = [journal EXCEPT !.locked = b]
          PROVE  journal'.records = journal.records /\ journal'.dropped = journal.dropped
      BY <2>1, <3>2, LockedShape
    <3> QED
      BY Zenon, <2>2, <3>1, <3>2
  <2>4. InPush' = InPush
    BY <1>2 DEF QuietOwner, FlushBroken, NextLock, NextRecord, StartProbe, Owner, At,
       InPush, RasInv, TypeOK
  <2> QED
    BY Zenon, <2>1, <2>3, <2>4
<1>3. CASE \E success \in BOOLEAN : AddSel(c, success)
  BY <1>3 DEF AddSel, Owner, At, InPush, RasInv, TypeOK
<1>4. CASE (TakeSmi(c) \/ ClaimWon(c) \/ ClaimLost(c)) /\ UNCHANGED <<rasVars, events>>
  BY <1>4 DEF TakeSmi, ClaimWon, ClaimLost, At, rasVars, InPush, RasInv, TypeOK
<1> QED
  BY <1>1, <1>2, <1>3, <1>4

\* Nor do the steps of the machine.
LEMMA QuietMachine ==
    ASSUME Environment \/ Poll \/ UNCHANGED vars
    PROVE  UNCHANGED <<journal, sel, offered, InPush>>
  BY Zenon DEF Environment, Smi, Trap, Request, Event, Poll, vars,
     rendezvousVars, rasVars, InPush

\* What PushStore does: it keeps the record or leaves it to be dropped.
LEMMA StoreCases ==
    ASSUME RasInv, NEW c \in CPU, PushStore(c)
    PROVE  /\ UNCHANGED <<sel, offered>> /\ c \in InPush
           /\ journal'.dropped = journal.dropped
           /\ \/ /\ Len(journal.records) < RECORDS /\ InPush' = InPush \ {c}
                 /\ \E r \in Record : journal'.records = Append(journal.records, r)
              \/ journal'.records = journal.records /\ InPush' = InPush
<1> USE DEF Local, At
<1>1. journal \in Journal /\ <<c, local[c].banks>> \in Record /\ pc[c] = "store"
  BY DEF RasInv, TypeOK, CpuInv, Record, Cause, PushStore, Pushed
<1>2. UNCHANGED <<sel, offered>> /\ c \in InPush
  BY Zenon, <1>1 DEF PushStore, Pushed, InPush
<1>3. CASE Len(journal.records) < RECORDS
  <2>1. journal' = [journal EXCEPT !.locked = FALSE,
                                   !.records = Append(@, <<c, local[c].banks>>)]
    BY Zenon, <1>3 DEF PushStore
  <2>2. journal'.records = Append(journal.records, <<c, local[c].banks>>)
        /\ journal'.dropped = journal.dropped
    BY Zenon, <1>1, <2>1, StoredShape
  <2>3. InPush' = InPush \ {c}
    BY <1>1, <1>3 DEF PushStore, Pushed, AfterPush, InPush, RasInv, TypeOK
  <2> QED
    BY Zenon, <1>1, <1>2, <1>3, <2>2, <2>3
<1>4. CASE ~(Len(journal.records) < RECORDS)
  <2>1. journal'.records = journal.records /\ journal'.dropped = journal.dropped
    BY Zenon, <1>1, <1>4, LockedShape DEF PushStore
  <2>2. InPush' = InPush
    BY <1>1, <1>4 DEF PushStore, InPush, RasInv, TypeOK
  <2> QED
    BY <1>2, <2>1, <2>2
<1> QED
  BY Zenon, <1>3, <1>4

\* What PushLock and PushDrop do.
LEMMA LockCounts ==
    ASSUME RasInv, NEW c \in CPU, PushLock(c)
    PROVE  /\ sel' = sel /\ offered' = offered + 1
           /\ journal'.records = journal.records /\ journal'.dropped = journal.dropped
           /\ c \notin InPush /\ InPush' = InPush \cup {c}
<1>1. journal'.records = journal.records /\ journal'.dropped = journal.dropped
  BY LockedShape DEF RasInv, TypeOK, PushLock
<1>2. c \notin InPush /\ InPush' = InPush \cup {c}
  BY Zenon DEF PushLock, Local, At, InPush, RasInv, TypeOK
<1> QED
  BY <1>1, <1>2 DEF PushLock, Local

\* A dropped record leaves the CPUs in push and is counted.
LEMMA DropCounts ==
    ASSUME RasInv, NEW c \in CPU, PushDrop(c)
    PROVE  /\ UNCHANGED <<sel, offered>>
           /\ journal'.records = journal.records /\ journal'.dropped = journal.dropped + 1
           /\ c \in InPush /\ InPush' = InPush \ {c}
<1>1. journal'.records = journal.records /\ journal'.dropped = journal.dropped + 1
  BY DroppedShape DEF RasInv, TypeOK, PushDrop
<1>2. c \in InPush /\ InPush' = InPush \ {c}
  BY DEF PushDrop, Pushed, AfterPush, Local, At, InPush, RasInv, TypeOK
<1> QED
  BY <1>1, <1>2 DEF PushDrop, Pushed, Local

\* A step of Sp3Smm by what it does to the records.
LEMMA StepKinds ==
    ASSUME [Next]_vars
    PROVE  \/ Environment \/ Poll \/ UNCHANGED vars
           \/ \E c \in CPU :
                \/ PushLock(c) \/ PushStore(c) \/ PushDrop(c) \/ QuietLocal(c) \/ QuietOwner(c)
                \/ \E success \in BOOLEAN : AddSel(c, success)
                \/ (TakeSmi(c) \/ ClaimWon(c) \/ ClaimLost(c)) /\ UNCHANGED <<rasVars, events>>
<1>1. ASSUME NEW c \in CPU, SmmStep(c)
      PROVE  \/ PushLock(c) \/ PushStore(c) \/ PushDrop(c) \/ QuietLocal(c) \/ QuietOwner(c)
             \/ \E success \in BOOLEAN : AddSel(c, success)
             \/ (TakeSmi(c) \/ ClaimWon(c) \/ ClaimLost(c)) /\ UNCHANGED <<rasVars, events>>
  BY <1>1 DEF SmmStep, EnterSp3, Flush, QuietLocal, QuietOwner
<1> QED
  BY <1>1 DEF Next

\* What leaves the CPUs in push is counted as dropped (ras.rs Journal::push).
LEMMA DroppedOne ==
    ASSUME NEW a \in Nat, NEW b \in Nat, NEW n \in Nat
    PROVE  a + b + n = a + (b + 1) + (n - 1)
  OBVIOUS

\* No step loses count of a record.
LEMMA AccountedStep == Accounted /\ RasInv /\ [Next]_vars => Accounted'
<1> SUFFICES ASSUME Accounted, RasInv, [Next]_vars PROVE Accounted'
  OBVIOUS
<1>1. /\ IsFiniteSet(InPush) /\ Cardinality(InPush) \in Nat
      /\ offered = Len(journal.records) + journal.dropped + Cardinality(InPush)
      /\ journal.records \in Seq(Record) /\ Len(journal.records) \in Nat /\ journal.dropped \in Nat
  <2>1. IsFiniteSet(InPush)
    BY Zenon, LimitsAssumption, FS_Subset DEF InPush
  <2> QED
    BY <2>1, FS_CardinalityType, JournalShape DEF Accounted, InPush, RasInv, TypeOK
<1> SUFFICES offered' = Len(journal'.records) + journal'.dropped + Cardinality(InPush')
  BY Zenon DEF Accounted, InPush
<1>2. CASE Environment \/ Poll \/ UNCHANGED vars
  BY <1>1, <1>2, QuietMachine
<1>3. ASSUME NEW c \in CPU, PushLock(c)
      PROVE  offered' = Len(journal'.records) + journal'.dropped + Cardinality(InPush')
  <2>1. Cardinality(InPush') = Cardinality(InPush) + 1
    BY <1>1, <1>3, LockCounts, FS_AddElement
  <2>2. /\ offered' = offered + 1 /\ journal'.dropped = journal.dropped
        /\ journal'.records = journal.records
    BY Zenon, <1>3, LockCounts
  <2> QED
    BY <1>1, <2>1, <2>2
<1>4. ASSUME NEW c \in CPU, PushStore(c)
      PROVE  offered' = Len(journal'.records) + journal'.dropped + Cardinality(InPush')
  <2>1. c \in InPush => Cardinality(InPush \ {c}) = Cardinality(InPush) - 1
    BY Zenon, <1>1, FS_RemoveElement
  <2>2. \A r \in Record : Len(Append(journal.records, r)) = Len(journal.records) + 1
    BY <1>1, AppendShape
  <2>3. offered' = offered /\ journal'.dropped = journal.dropped /\ c \in InPush
    BY <1>4, StoreCases
  <2>4. \/ InPush' = InPush \ {c} /\ Len(journal'.records) = Len(journal.records) + 1
        \/ InPush' = InPush /\ Len(journal'.records) = Len(journal.records)
    BY <1>4, <2>2, StoreCases
  <2>5. CASE InPush' = InPush \ {c} /\ Len(journal'.records) = Len(journal.records) + 1
    BY <1>1, <2>1, <2>3, <2>5
  <2>6. CASE InPush' = InPush /\ Len(journal'.records) = Len(journal.records)
    BY <1>1, <2>3, <2>6
  <2> QED
    BY Zenon, <2>4, <2>5, <2>6
<1>5. ASSUME NEW c \in CPU, PushDrop(c)
      PROVE  offered' = Len(journal'.records) + journal'.dropped + Cardinality(InPush')
  <2>1. c \in InPush => Cardinality(InPush \ {c}) = Cardinality(InPush) - 1
    BY Zenon, <1>1, FS_RemoveElement
  <2>2. /\ offered' = offered /\ journal'.records = journal.records
        /\ journal'.dropped = journal.dropped + 1 /\ c \in InPush /\ InPush' = InPush \ {c}
    BY <1>5, DropCounts
  <2>3. Cardinality(InPush') = Cardinality(InPush) - 1
    BY Zenon, <2>1, <2>2
  <2>4. /\ Len(journal'.records) = Len(journal.records)
        /\ offered = Len(journal.records) + journal.dropped + Cardinality(InPush)
        /\ Len(journal.records) \in Nat /\ journal.dropped \in Nat
        /\ Cardinality(InPush) \in Nat
    BY Zenon, <1>1, <2>2
  <2>5. offered' = offered /\ journal'.dropped = journal.dropped + 1
    BY Zenon, <2>2
  <2>6. Len(journal.records) + journal.dropped + Cardinality(InPush) =
            Len(journal.records) + (journal.dropped + 1) + (Cardinality(InPush) - 1)
    BY Zenon, <2>4, DroppedOne
  <2> QED
    BY Zenon, <2>3, <2>4, <2>5, <2>6
<1> QED
  BY Zenon, <1>1, <1>2, <1>3, <1>4, <1>5, StepKinds, QuietStep

\* Every record that a bank has offered is in the journal, is counted as dropped,
\* or is just being pushed, whatever CPUs push at a time (ras.rs push).
THEOREM AccountedHolds == Spec => []Accounted
<1>1. ASSUME Init PROVE Accounted
  <2>1. InPush = {}
    BY <1>1 DEF Init, RendezvousInit, InPush
  <2>2. offered = 0 /\ Len(journal.records) = 0 /\ journal.dropped = 0
    BY <1>1 DEF Init
  <2>3. Cardinality(InPush) = 0
    BY <2>1, FS_EmptySet
  <2>4. offered = Len(journal.records) + journal.dropped + Cardinality(InPush)
    BY <2>2, <2>3
  <2> QED
    BY <2>4 DEF Accounted, InPush
<1> QED
  BY <1>1, AccountedStep, RasCorrect, PTL DEF Spec

-----------------------------------------------------------------------------
(* The journal and its reports implement SelLog *)

\* A transfer is of the next record, or of the one probe, and comes before any
\* failure.
LEMMA AddSelSends ==
    ASSUME RasInv, NEW c \in CPU, NEW success \in BOOLEAN, AddSel(c, success)
    PROVE  Promise!Report \/ Promise!SendProbe
<1>1. /\ pc[c] = "send" /\ ~selFailed /\ (message = ProbeEvent => probe = "running")
      /\ \A i \in DOMAIN sel : sel[i].ok
  BY DEF AddSel, Owner, At, RasInv, CpuInv, SelInv
<1>2. Promise!Send(message)
  BY <1>1 DEF AddSel, Promise!Send
<1>3. CASE message = ProbeEvent
  BY <1>1, <1>2, <1>3 DEF Promise!SendProbe, RasInv, SelInv
<1>4. CASE message # ProbeEvent
  <2>1. /\ journal.pending \in Nat /\ Len(journal.records) \in Nat /\ Promise!Reports \in Int
        /\ journal.pending = Promise!Reports + 1
        /\ journal.pending <= Len(journal.records) /\ journal.pending <= MAX_SEL_ATTEMPTS
        /\ message = journal.records[journal.pending]
    <3>1. journal \in Journal /\ SelInv
      BY Zenon DEF RasInv, TypeOK
    <3>2. Promise!Reports \in Int
      BY DEF RasInv, TypeOK, Promise!Reports
    <3> QED
      BY <1>4, <3>1, <3>2, JournalShape DEF SelInv
  <2> QED
    BY <1>2, <2>1, LimitsAssumption DEF Promise!Report
<1> QED
  BY <1>3, <1>4

\* Every step is a step of SelLog or leaves it alone.
LEMMA SelStep == RasInv /\ [Next]_vars => [Promise!Next]_Promise!vars
<1> SUFFICES ASSUME RasInv, [Next]_vars PROVE [Promise!Next]_Promise!vars
  OBVIOUS
<1>1. CASE Environment \/ Poll \/ UNCHANGED vars
  BY <1>1, QuietMachine DEF Promise!vars
<1>2. ASSUME NEW c \in CPU, PushLock(c) PROVE UNCHANGED Promise!vars
  BY <1>2, LockCounts DEF Promise!vars
<1>3. ASSUME NEW c \in CPU, PushStore(c) PROVE [Promise!Next]_Promise!vars
  BY <1>3, StoreCases DEF Promise!vars, Promise!Next, Promise!Keep
<1>4. ASSUME NEW c \in CPU, PushDrop(c) PROVE [Promise!Next]_Promise!vars
  BY <1>4, DropCounts DEF Promise!Next, Promise!Lose
<1>5. ASSUME NEW c \in CPU,
             \/ QuietLocal(c) \/ QuietOwner(c)
             \/ (TakeSmi(c) \/ ClaimWon(c) \/ ClaimLost(c)) /\ UNCHANGED <<rasVars, events>>
      PROVE  UNCHANGED Promise!vars
  <2>1. sel' = sel
    BY <1>5 DEF QuietLocal, QuietOwner, Enter, Wrmsr, Return, FlushBroken, NextLock,
       NextRecord,
       StartProbe, Local, Owner, rasVars
  <2> QED
    BY <1>5, <2>1, QuietStep DEF Promise!vars
<1>6. ASSUME NEW c \in CPU, NEW success \in BOOLEAN, AddSel(c, success) PROVE Promise!Next
  BY <1>6, AddSelSends DEF Promise!Next
<1> QED
  BY Zenon, <1>1, <1>2, <1>3, <1>4, <1>5, <1>6, StepKinds

\* The journal keeps the first records, reports them in order and once, sends one
\* probe, and nothing after a failure, for any number of CPUs (ras.rs flush).
THEOREM SelRefined == Spec => SelSpec
<1>1. Init => Promise!Init
  BY DEF Init, Promise!Init
<1>2. Spec => Promise!Init /\ [][Promise!Next]_Promise!vars
  BY <1>1, SelStep, RasCorrect, PTL DEF Spec
<1> QED
  BY <1>2 DEF SelSpec, Promise!Spec

-----------------------------------------------------------------------------
(* The ICH southbridge *)

Dispatching == {"dispatch", "apm", "events", "gpiAck", "board", "finish", "ack", "stsAck",
                "eos", "leave"}

\* One CPU dispatches, the one in the owner word; the APM status comes only with
\* the OS, and stays set while a CPU that has seen it has yet to read the command.
IchInv ==
    /\ IchTypeOK
    /\ \A c \in CPU : owner = c <=> pc[c] \in Dispatching
    /\ setup # "on" => "APM" \notin smiSts /\ "APM" \notin smi.sts
    /\ \A c \in CPU : pc[c] = "apm" /\ "APM" \in smi.sts => "APM" \in smiSts

\* No source is pending (smi.rs PendingSmi).
LEMMA NoSmiShape == NoSmi \in PendingSmi /\ NoSmi.sts = {}
  BY Zenon DEF NoSmi, PendingSmi

\* What take and finish fill in later leaves the sources alone (smi.rs).
LEMMA PendingShape ==
    ASSUME NEW s \in PendingSmi
    PROVE  /\ \A a \in Command \cup {None} :
                [s EXCEPT !.apm = a] \in PendingSmi /\ [s EXCEPT !.apm = a].sts = s.sts
           /\ \A g \in SUBSET Pin :
                [s EXCEPT !.gpi = g] \in PendingSmi /\ [s EXCEPT !.gpi = g].sts = s.sts
           /\ \A e \in SUBSET Pm1Event :
                [s EXCEPT !.pm1 = e] \in PendingSmi /\ [s EXCEPT !.pm1 = e].sts = s.sts
           /\ \A e \in SUBSET SmiEnable :
                [s EXCEPT !.en = e] \in PendingSmi /\ [s EXCEPT !.en = e].sts = s.sts
           /\ s.en \in SUBSET SmiEnable
           /\ s.sts \in SUBSET Source /\ s.status \in SUBSET Pin
  BY Zenon DEF PendingSmi

\* The statuses that take reads (smi.rs take).
LEMMA PendingStatus ==
    ASSUME NEW s \in PendingSmi, NEW g \in SUBSET Pin, NEW t \in SUBSET Pin
    PROVE  /\ [s EXCEPT !.gpe = g, !.status = t] \in PendingSmi
           /\ [s EXCEPT !.gpe = g, !.status = t].sts = s.sts
  BY Zenon DEF PendingSmi

\* A read of SMI_STS.
LEMMA StatusShape ==
    ASSUME IchTypeOK
    PROVE  /\ [NoSmi EXCEPT !.sts = SmiSts] \in PendingSmi
           /\ [NoSmi EXCEPT !.sts = SmiSts].sts = SmiSts
           /\ "APM" \in SmiSts <=> "APM" \in smiSts
<1>1. SmiSts \in SUBSET Source
  BY Zenon DEF SmiSts, Source, IchTypeOK
<1>2. "APM" \in SmiSts <=> "APM" \in smiSts
  BY DEF SmiSts
<1> QED
  BY <1>1, <1>2 DEF NoSmi, PendingSmi

\* The installer starts with every CPU outside SMM and no status set.
LEMMA IchInitInv == IchInit => IchInv
<1> SUFFICES ASSUME IchInit PROVE IchInv
  OBVIOUS
<1>1. NoEnables \in Enables
  BY DEF NoEnables, Enables, Pm1Event
<1>2. sci \in BOOLEAN /\ ecAsks \in BOOLEAN
  BY Zenon DEF IchInit
<1>3. /\ pc \in [CPU -> {"run"}] /\ owner \in CPU \cup {NoCpu} /\ latched \subseteq CPU
      /\ smi \in PendingSmi /\ apmCnt \in Command /\ raised \in 0 .. MaxRaised
  BY NoSmiShape, MaxRaisedAssumption DEF IchInit, RendezvousInit, Command
<1>4. IchTypeOK
  BY <1>1, <1>2, <1>3, BootAssumption DEF IchInit, IchTypeOK
<1> QED
  BY <1>4, NoSmiShape, NoCpuAssumption DEF IchInit, RendezvousInit, IchInv, Dispatching

\* The rendezvous alone: the owner word follows the CPU that dispatches
\* (handler.rs enter_rendezvous, leave_rendezvous).
LEMMA IchRendezvous ==
    ASSUME IchInv, NEW c \in CPU, Rendezvous(c) \/ EnterCpu(c),
           UNCHANGED <<chipset, power, raised>>
    PROVE  IchInv'
<1>1. /\ pc' \in [CPU -> {"run", "enter", "claim", "wait", "dispatch", "apm", "events",
                          "gpiAck", "board", "finish", "ack", "stsAck", "eos", "leave"}]
      /\ owner' \in CPU \cup {NoCpu} /\ latched' \subseteq CPU
  BY DEF IchInv, IchTypeOK, Rendezvous, TakeSmi, ClaimWon, ClaimLost, AwaitOwner, Leave,
     EnterCpu, At
<1>2. IchTypeOK'
  BY Zenon, <1>1 DEF IchInv, IchTypeOK, chipset, enables, statuses
<1>3. \A d \in CPU : owner' = d <=> pc'[d] \in Dispatching
  <2>0. /\ pc \in [CPU -> {"run", "enter", "claim", "wait", "dispatch", "apm", "events",
                           "gpiAck", "board", "finish", "ack", "stsAck", "eos", "leave"}]
        /\ \A d \in CPU : owner = d <=> pc[d] \in Dispatching
    BY Zenon DEF IchInv, IchTypeOK
  <2>1. CASE TakeSmi(c) \/ EnterCpu(c) \/ ClaimLost(c)
    BY <2>0, <2>1 DEF TakeSmi, EnterCpu, ClaimLost, At, Dispatching
  <2>2. CASE ClaimWon(c)
    BY <2>0, <2>2, NoCpuAssumption DEF ClaimWon, At, Dispatching
  <2>3. CASE AwaitOwner(c) \/ Leave(c)
    BY <2>0, <2>3, NoCpuAssumption DEF AwaitOwner, Leave, At, Dispatching
  <2> QED
    BY Zenon, <2>1, <2>2, <2>3 DEF Rendezvous
<1>4. \A d \in CPU : pc'[d] = "apm" => pc[d] = "apm"
  BY DEF IchInv, IchTypeOK, Rendezvous, TakeSmi, ClaimWon, ClaimLost, AwaitOwner, Leave,
     EnterCpu, At
<1> QED
  BY <1>2, <1>3, <1>4 DEF IchInv, chipset, enables, statuses

\* A step of the owner moves only itself, to another place of the dispatch.
LEMMA OwnerMoves ==
    ASSUME IchInv, NEW c \in CPU, NEW here \in Dispatching, NEW next \in Dispatching,
           OwnerStep(c, here, next)
    PROVE  /\ pc' \in [CPU -> {"run", "enter", "claim", "wait", "dispatch", "apm", "events",
                               "gpiAck", "board", "finish", "ack", "stsAck", "eos", "leave"}]
           /\ owner' = owner /\ latched' = latched /\ setup' = setup
           /\ previous' = previous /\ apmCnt' = apmCnt /\ raised' = raised
           /\ \A d \in CPU : owner' = d <=> pc'[d] \in Dispatching
           /\ \A d \in CPU : pc'[d] = "apm" => d = c /\ next = "apm"
  BY DEF OwnerStep, At, IchInv, IchTypeOK, Dispatching

\* The steps of take keep the invariant (smi.rs take).
LEMMA TakeInv ==
    ASSUME IchInv, NEW c \in CPU,
           TakeStatus(c) \/ TakeApm(c) \/ TakeEvents(c) \/ AckGpi(c)
    PROVE  IchInv'
<1>1. IchTypeOK
  BY DEF IchInv
<1>2. CASE TakeStatus(c)
  <2>1. OwnerStep(c, "dispatch", "apm")
    BY <1>2 DEF TakeStatus
  <2>2. smi' \in PendingSmi /\ ("APM" \in smi'.sts <=> "APM" \in smiSts)
    BY <1>1, <1>2, StatusShape DEF TakeStatus
  <2>3. UNCHANGED <<sci, enables, statuses, ecAsks, power>>
    BY <1>2 DEF TakeStatus
  <2>4. IchTypeOK'
    BY ZenonT(30), <1>1, <2>1, <2>2, <2>3, OwnerMoves DEF IchTypeOK, enables,
       statuses, Dispatching
  <2> QED
    BY ZenonT(30), <2>1, <2>2, <2>3, <2>4, OwnerMoves DEF IchInv, statuses, Dispatching
<1>3. CASE TakeApm(c)
  <2>1. OwnerStep(c, "apm", "events")
    BY Zenon, <1>3 DEF TakeApm
  <2>2. smi' \in PendingSmi /\ smi'.sts = smi.sts
    <3> DEFINE a == IF apmCnt = "finalize" THEN None ELSE apmCnt
    <3>1. a \in Command \cup {None}
      BY <1>1 DEF IchTypeOK
    <3>2. smi \in PendingSmi
      BY <1>1 DEF IchTypeOK
    <3>3. CASE "APM" \in smi.sts
      <4>1. smi' = [smi EXCEPT !.apm = a]
        BY <1>3, <3>3 DEF TakeApm
      <4> HIDE DEF a
      <4> QED
        BY <3>1, <3>2, <4>1, PendingShape
    <3>4. CASE "APM" \notin smi.sts
      BY <1>3, <3>2, <3>4 DEF TakeApm
    <3> QED
      BY <3>3, <3>4
  <2>3. sci' \in BOOLEAN
    BY Zenon, <1>1, <1>3 DEF TakeApm, IchTypeOK
  <2>4. UNCHANGED <<enables, statuses, ecAsks, power>>
    BY <1>3 DEF TakeApm
  <2>5. IchTypeOK'
    BY ZenonT(30), <1>1, <2>1, <2>2, <2>3, <2>4, OwnerMoves
       DEF IchTypeOK, enables, statuses, Dispatching
  <2> QED
    BY ZenonT(30), <2>1, <2>2, <2>4, <2>5, OwnerMoves DEF IchInv, statuses, Dispatching
<1>4. CASE TakeEvents(c)
  <2>1. OwnerStep(c, "events", "gpiAck")
    BY Zenon, <1>4 DEF TakeEvents
  <2>2. smi' \in PendingSmi /\ smi'.sts = smi.sts
    <3> DEFINE g == IF "GPE0" \in smi.sts THEN gpeSts ELSE {}
               t == IF "GPI" \in smi.sts THEN gpiSts ELSE {}
    <3>1. g \in SUBSET Pin /\ t \in SUBSET Pin /\ smi \in PendingSmi
      BY <1>1 DEF IchTypeOK
    <3>2. smi' = [smi EXCEPT !.gpe = g, !.status = t]
      BY <1>4 DEF TakeEvents
    <3> HIDE DEF g, t
    <3> QED
      BY Zenon, <3>1, <3>2, PendingStatus
  <2>3. UNCHANGED <<sci, enables, statuses, ecAsks, power>>
    BY <1>4 DEF TakeEvents
  <2>4. IchTypeOK'
    BY ZenonT(30), <1>1, <2>1, <2>2, <2>3, OwnerMoves DEF IchTypeOK, enables, statuses,
       Dispatching
  <2> QED
    BY ZenonT(30), <2>1, <2>2, <2>3, <2>4, OwnerMoves DEF IchInv, statuses, Dispatching
<1>5. CASE AckGpi(c)
  <2>1. OwnerStep(c, "gpiAck", "board")
    BY Zenon, <1>5 DEF AckGpi
  <2>2. smi' \in PendingSmi /\ smi'.sts = smi.sts /\ gpiSts' \subseteq Pin
    BY <1>1, <1>5, PendingShape DEF AckGpi, IchTypeOK
  <2>3. UNCHANGED <<sci, enables, smiSts, pm1Sts, gpeSts, ecAsks, power>>
    BY <1>5 DEF AckGpi
  <2>4. IchTypeOK'
    BY ZenonT(30), <1>1, <2>1, <2>2, <2>3, OwnerMoves DEF IchTypeOK, enables,
       Dispatching
  <2> QED
    BY ZenonT(30), <2>1, <2>2, <2>3, <2>4, OwnerMoves DEF IchInv, Dispatching
<1> QED
  BY Zenon, <1>2, <1>3, <1>4, <1>5

\* The board's handler and finish keep the invariant (x60 smi_handler, smi.rs
\* finish).
LEMMA FinishInv ==
    ASSUME IchInv, NEW c \in CPU,
           Board(c) \/ ReadPm1(c) \/ AckSources(c) \/ AckStatus(c) \/ SetEos(c)
    PROVE  IchInv'
<1>1. IchTypeOK
  BY Zenon DEF IchInv
<1>2. CASE Board(c)
  <2>1. OwnerStep(c, "board", "finish")
    BY Zenon, <1>2 DEF Board
  <2>2. /\ gpiEn' \subseteq Pin /\ gpeEn' \subseteq Pin
        /\ smiEn' \subseteq SmiEnable
    BY <1>1, <1>2, ECAssumption DEF Board, AcpiSwitch, IchTypeOK, SmiEnable
  <2>3. ecAsks' \in BOOLEAN
    BY Zenon, <1>2 DEF Board
  <2>4. UNCHANGED <<sci, pm1En, statuses, smi, power>>
    BY <1>2 DEF Board
  <2>5. IchTypeOK'
    BY ZenonT(30), <1>1, <2>1, <2>2, <2>3, <2>4, OwnerMoves DEF IchTypeOK, statuses,
       Dispatching
  <2> QED
    BY ZenonT(30), <2>1, <2>4, <2>5, OwnerMoves DEF IchInv, statuses, Dispatching
<1>3. CASE AckSources(c)
  <2>1. /\ pm1Sts' \subseteq Pm1Event /\ gpeSts' \subseteq Pin /\ power' \in {"on", "off"}
        /\ UNCHANGED <<owner, latched, setup, previous, apmCnt, raised, sci, enables,
                       smiSts, gpiSts, ecAsks, smi>>
    BY Zenon, <1>1, <1>3 DEF AckSources, IchTypeOK
  <2>2. /\ pc' \in [CPU -> {"run", "enter", "claim", "wait", "dispatch", "apm", "events",
                            "gpiAck", "board", "finish", "ack", "stsAck", "eos", "leave"}]
        /\ \A d \in CPU : owner = d <=> pc'[d] \in Dispatching
        /\ \A d \in CPU : pc'[d] = "apm" => pc[d] = "apm"
    BY Zenon, <1>1, <1>3 DEF AckSources, IchTypeOK, IchInv, Dispatching
  <2>3. IchTypeOK'
    BY Zenon, <1>1, <2>1, <2>2 DEF IchTypeOK, enables
  <2> QED
    BY Zenon, <2>1, <2>2, <2>3 DEF IchInv
<1>4. CASE AckStatus(c)
  <2>1. OwnerStep(c, "stsAck", "eos")
    BY Zenon, <1>4 DEF AckStatus
  <2>2. /\ smiSts' \subseteq smiSts /\ smi' = [smi EXCEPT !.en = smiEn]
        /\ UNCHANGED <<sci, enables, pm1Sts, gpeSts, gpiSts, ecAsks, power>>
    BY Zenon, <1>4 DEF AckStatus
  <2>0. smi' \in PendingSmi /\ smi'.sts = smi.sts
    BY Zenon, <1>1, <2>2, PendingShape DEF IchTypeOK
  <2>3. smiSts' \subseteq {"APM", "TCO"}
    BY <1>1, <2>2 DEF IchTypeOK
  <2>4. IchTypeOK'
    BY ZenonT(30), <1>1, <2>0, <2>1, <2>2, <2>3, OwnerMoves DEF IchTypeOK, enables,
       Dispatching
  <2> QED
    BY ZenonT(30), <2>0, <2>1, <2>2, <2>4, OwnerMoves DEF IchInv, Dispatching
<1>5. CASE SetEos(c)
  <2>1. OwnerStep(c, "eos", "leave")
    BY <1>5 DEF SetEos
  <2>2. smiEn' \subseteq SmiEnable
    <3>1. smi.en \in SUBSET SmiEnable
      BY Zenon, <1>1, PendingShape DEF IchTypeOK
    <3> QED
      BY Zenon, <1>5, <3>1 DEF SetEos, SmiEnable
  <2>3. smi' = NoSmi /\ UNCHANGED <<sci, pm1En, gpeEn, gpiEn, statuses, ecAsks, power>>
    BY <1>5 DEF SetEos
  <2>4. IchTypeOK'
    BY ZenonT(30), <1>1, <2>1, <2>2, <2>3, NoSmiShape, OwnerMoves
       DEF IchTypeOK, statuses, Dispatching
  <2> QED
    BY ZenonT(30), <2>1, <2>3, <2>4, NoSmiShape, OwnerMoves DEF IchInv, statuses,
       Dispatching
<1>6. CASE ReadPm1(c)
  <2>1. OwnerStep(c, "finish", "ack")
    BY Zenon, <1>6 DEF ReadPm1
  <2>2. smi' \in PendingSmi /\ smi'.sts = smi.sts
    <3> DEFINE e == IF LegacyPm1Smi THEN pm1Sts ELSE {}
    <3>1. e \in SUBSET Pm1Event /\ smi \in PendingSmi
      BY <1>1 DEF IchTypeOK
    <3>2. smi' = [smi EXCEPT !.pm1 = e]
      BY Zenon, <1>6 DEF ReadPm1
    <3> HIDE DEF e
    <3> QED
      BY Zenon, <3>1, <3>2, PendingShape
  <2>3. UNCHANGED <<sci, enables, statuses, ecAsks, power>>
    BY Zenon, <1>6 DEF ReadPm1
  <2>4. IchTypeOK'
    BY ZenonT(30), <1>1, <2>1, <2>2, <2>3, OwnerMoves DEF IchTypeOK, enables, statuses,
       Dispatching
  <2> QED
    BY ZenonT(30), <2>1, <2>2, <2>3, <2>4, OwnerMoves DEF IchInv, statuses, Dispatching
<1> QED
  BY Zenon, <1>2, <1>3, <1>4, <1>5, <1>6

\* The installer clears statuses only before APM commands are possible (smi.rs
\* quiesce_for_relocation, enable_permanent_smi).
LEMMA InstallerInv ==
    ASSUME IchInv, Installer
    PROVE  IchInv'
<1>1. IchTypeOK
  BY Zenon DEF IchInv
<1>2. CASE Quiesce
  <2>1. [pm1 |-> pm1En, gpe0 |-> gpeEn, alt_gp |-> gpiEn] \in Enables
    BY <1>1 DEF IchTypeOK, Enables
  <2>2. /\ previous' \in Enables /\ pm1En' = {} /\ gpeEn' = {} /\ gpiEn' = {}
        /\ smiSts' = {} /\ pm1Sts' = {} /\ gpeSts' = {} /\ gpiSts' = {}
        /\ smiEn' = {"GBL", "EOS"} /\ setup = "boot" /\ setup' = "quiet"
        /\ UNCHANGED <<pc, owner, latched, sci, apmCnt, ecAsks, smi, power, raised>>
    BY <1>2, <2>1 DEF Quiesce, ClearStatus, rendezvousVars
  <2>3. IchTypeOK'
    BY <1>1, <2>2 DEF IchTypeOK, SmiEnable
  <2> QED
    BY <2>2, <2>3 DEF IchInv
<1>3. ASSUME NEW resume \in BOOLEAN, EnableSources(resume) PROVE IchInv'
  <2>1. /\ previous.pm1 \subseteq Pm1Event
        /\ previous.gpe0 \subseteq Pin /\ previous.alt_gp \subseteq Pin
    BY <1>1 DEF IchTypeOK, Enables
  <2>2. /\ pm1En' \subseteq Pm1Event /\ gpeEn' \subseteq Pin /\ gpiEn' \subseteq Pin
        /\ smiSts' = {} /\ pm1Sts' = {} /\ gpeSts' = {} /\ gpiSts' = {}
        /\ setup = "quiet" /\ setup' = "enabling" /\ previous' = NoEnables
        /\ UNCHANGED <<pc, owner, latched, smiEn, apmCnt, ecAsks, smi, power, raised>>
    BY Zenon, <1>3, <2>1 DEF EnableSources, ClearStatus, rendezvousVars, Pm1Event
  <2>3. sci' \in BOOLEAN /\ NoEnables \in Enables
    BY Zenon, <1>3 DEF EnableSources, NoEnables, Enables
  <2>4. IchTypeOK'
    BY <1>1, <2>2, <2>3 DEF IchTypeOK
  <2> QED
    BY Zenon, <2>2, <2>4 DEF IchInv
<1>4. CASE EnableGate
  <2>1. /\ smiEn' = {"TCO", "APMC", "GBL", "EOS"} /\ setup' = "on" /\ setup = "enabling"
        /\ UNCHANGED <<pc, owner, latched, previous, sci, pm1En, gpeEn, gpiEn, smiSts, pm1Sts,
                       gpeSts, gpiSts, apmCnt, ecAsks, smi, power, raised>>
    BY <1>4 DEF EnableGate, rendezvousVars, statuses
  <2>2. IchTypeOK'
    BY <1>1, <2>1 DEF IchTypeOK, SmiEnable
  <2> QED
    BY <2>1, <2>2 DEF IchInv
<1> QED
  BY Zenon, <1>2, <1>3, <1>4 DEF Installer

\* The hardware's side keeps the invariant.
LEMMA HardwareInv ==
    ASSUME IchInv, AssertSmi \/ ChipsetEvents
    PROVE  IchInv'
<1>1. IchTypeOK
  BY Zenon DEF IchInv
<1>2. /\ UNCHANGED <<pc, owner, setup, previous, sci, pm1En, gpeEn, gpiEn, smi, power>>
      /\ latched' \subseteq CPU /\ smiEn' \subseteq smiEn /\ raised' \in 0 .. MaxRaised
  <2>1. CASE AssertSmi
    BY Zenon, <1>1, <2>1 DEF AssertSmi, IchTypeOK
  <2>2. CASE ChipsetEvents
    <3>1. Raise /\ latched' \subseteq CPU
      BY Zenon, <1>1, <2>2 DEF ChipsetEvents, SelfSmi, WriteApm, RaiseTco, RaisePm1,
         RaisePin, IchTypeOK
    <3>2. /\ UNCHANGED <<pc, owner, setup, previous, sci, pm1En, gpeEn, gpiEn, smi, power>>
          /\ smiEn' = smiEn /\ raised' = raised + 1 /\ raised < MaxRaised
      BY Zenon, <3>1 DEF Raise, enables
    <3>3. raised' \in 0 .. MaxRaised
      BY <1>1, <3>2, MaxRaisedAssumption DEF IchTypeOK
    <3> QED
      BY Zenon, <3>1, <3>2, <3>3
  <2> QED
    BY <2>1, <2>2
<1>3. /\ smiSts \subseteq smiSts' /\ smiSts' \subseteq {"APM", "TCO"}
      /\ pm1Sts' \subseteq Pm1Event /\ gpeSts' \subseteq Pin /\ gpiSts' \subseteq Pin
      /\ apmCnt' \in Command
      /\ "APM" \in smiSts' => "APM" \in smiSts \/ setup = "on"
  BY Zenon, <1>1 DEF AssertSmi, ChipsetEvents, SelfSmi, WriteApm, RaiseTco, RaisePm1,
     RaisePin, statuses, IchTypeOK
<1>4. ecAsks' \in BOOLEAN
  BY Zenon, <1>1 DEF AssertSmi, ChipsetEvents, SelfSmi, WriteApm, RaiseTco, RaisePm1,
     RaisePin, IchTypeOK
<1>5. IchTypeOK'
  <2>1. smiEn' \subseteq SmiEnable
    BY <1>1, <1>2 DEF IchTypeOK
  <2> QED
    BY Zenon, <1>1, <1>2, <1>3, <1>4, <2>1 DEF IchTypeOK
<1> QED
  BY <1>2, <1>3, <1>5 DEF IchInv

\* Every step preserves the invariant.
LEMMA IchStepInv == IchInv /\ [IchNext]_ichVars => IchInv'
<1>1. ASSUME IchInv, IchNext PROVE IchInv'
  <2>1. ASSUME NEW c \in CPU, IchStep(c) PROVE IchInv'
    BY <1>1, <2>1, IchRendezvous, TakeInv, FinishInv DEF IchStep, Dispatch
  <2> QED
    BY <1>1, <2>1, InstallerInv, HardwareInv DEF IchNext
<1>2. ASSUME IchInv, UNCHANGED ichVars PROVE IchInv'
  <2>1. /\ pc' = pc /\ owner' = owner /\ latched' = latched /\ setup' = setup
        /\ previous' = previous /\ sci' = sci /\ smiEn' = smiEn /\ pm1En' = pm1En
        /\ gpeEn' = gpeEn /\ gpiEn' = gpiEn /\ smiSts' = smiSts /\ pm1Sts' = pm1Sts
        /\ gpeSts' = gpeSts /\ gpiSts' = gpiSts /\ apmCnt' = apmCnt /\ ecAsks' = ecAsks
        /\ smi' = smi /\ power' = power /\ raised' = raised
    BY Zenon, <1>2 DEF ichVars, rendezvousVars, chipset, enables, statuses
  <2>2. IchTypeOK'
    BY Zenon, <1>2, <2>1 DEF IchInv, IchTypeOK
  <2> QED
    BY <1>2, <2>1, <2>2 DEF IchInv
<1> QED
  BY <1>1, <1>2

\* Only the CPU in the owner word dispatches, and the APM status it has seen is
\* still set when it reads the command (handler.rs enter_rendezvous, smi.rs take).
THEOREM IchCorrect == IchSpec => []IchInv
  BY IchInitInv, IchStepInv, PTL DEF IchSpec

\* Before the sources are enabled there is no SMI; afterwards PM1 bits that a
\* CPU has read and not yet acknowledged were read in legacy mode, which lasts.
LegacyInv ==
    /\ setup \in {"boot", "quiet"} =>
         /\ \A c \in CPU : pc[c] = "run"
         /\ latched = {}
         /\ smiEn \subseteq {"GBL", "EOS"} /\ (setup = "boot" => smiEn = {})
         /\ setup = "quiet" => pm1En = {} /\ gpeEn = {}
    /\ \A c \in CPU : pc[c] = "ack" /\ smi.pm1 # {} => ~sci

\* A step of the owner at another place than those of PM1 and of the APM command.
LEMMA LegacyDispatch ==
    ASSUME IchInv, LegacyInv, NEW c \in CPU, Dispatch(c)
    PROVE  LegacyInv'
<1>1. pc \in [CPU -> {"run", "enter", "claim", "wait", "dispatch", "apm", "events",
                      "gpiAck", "board", "finish", "ack", "stsAck", "eos", "leave"}]
  BY Zenon DEF IchInv, IchTypeOK
<1>2. setup' = setup /\ pc[c] \in Dispatching
  BY Zenon DEF Dispatch, TakeStatus, TakeApm, TakeEvents, AckGpi, Board, ReadPm1,
     AckSources, AckStatus, SetEos, OwnerStep, At, Dispatching
<1>3. pc[c] # "run"
  BY Zenon, <1>2 DEF Dispatching
<1>4. setup \notin {"boot", "quiet"}
  BY Zenon, <1>3 DEF LegacyInv
<1>5. \A d \in CPU : d # c => pc[d] # "ack"
  BY Zenon, <1>2 DEF IchInv, Dispatching
<1>6. \A d \in CPU : d # c => pc'[d] = pc[d]
  BY Zenon, <1>1 DEF Dispatch, TakeStatus, TakeApm, TakeEvents, AckGpi, Board, ReadPm1,
     AckSources, AckStatus, SetEos, OwnerStep, At
<1>7. pc'[c] = "ack" /\ smi'.pm1 # {} => ~sci'
  <2>1. CASE ReadPm1(c)
    <3>1. smi \in PendingSmi /\ sci' = sci
      BY Zenon, <2>1 DEF ReadPm1, IchInv, IchTypeOK
    <3>2. smi'.pm1 = IF LegacyPm1Smi THEN pm1Sts ELSE {}
      BY <2>1, <3>1 DEF ReadPm1, PendingSmi
    <3> QED
      BY Zenon, <3>1, <3>2 DEF LegacyPm1Smi
  <2>2. CASE AckSources(c)
    <3>1. UNCHANGED <<sci, smi>> /\ pc[c] = "ack"
      BY Zenon, <2>2 DEF AckSources
    <3> QED
      BY Zenon, <3>1 DEF LegacyInv
  <2>3. CASE ~ReadPm1(c) /\ ~AckSources(c)
    <3>1. pc'[c] # "ack"
      BY Zenon, <1>1, <2>3 DEF Dispatch, TakeStatus, TakeApm, TakeEvents, AckGpi, Board,
         AckStatus, SetEos, OwnerStep, At
    <3> QED
      BY Zenon, <3>1
  <2> QED
    BY Zenon, <2>1, <2>2, <2>3
<1> QED
  BY Zenon, <1>2, <1>4, <1>5, <1>6, <1>7 DEF LegacyInv

\* The rendezvous does not touch the chipset.
LEMMA LegacyRendezvous ==
    ASSUME IchInv, LegacyInv, NEW c \in CPU, Rendezvous(c) \/ EnterCpu(c),
           UNCHANGED <<chipset, power, raised>>
    PROVE  LegacyInv'
<1>1. UNCHANGED <<setup, smi, sci>>
  BY Zenon DEF chipset
<1>2. setup \notin {"boot", "quiet"}
  BY Zenon DEF LegacyInv, Rendezvous, TakeSmi, ClaimWon, ClaimLost, AwaitOwner, Leave,
     EnterCpu, At
<1>3. \A d \in CPU : pc'[d] = "ack" => pc[d] = "ack"
  BY Zenon DEF IchInv, IchTypeOK, Rendezvous, TakeSmi, ClaimWon, ClaimLost,
     AwaitOwner, Leave, EnterCpu, At
<1> QED
  BY Zenon, <1>1, <1>2, <1>3 DEF LegacyInv

\* No SMI before the installer enables the sources (smi.rs quiesce_for_relocation).
LEMMA NoEarlySmi ==
    ASSUME IchInv, LegacyInv, AssertSmi
    PROVE  setup \notin {"boot", "quiet"}
<1> SUFFICES ASSUME setup \in {"boot", "quiet"} PROVE FALSE
  OBVIOUS
<1>1. smiEn \subseteq {"GBL", "EOS"} /\ "GBL" \in smiEn /\ smiEn # {}
  BY Zenon DEF LegacyInv, AssertSmi
<1>2. setup = "quiet" /\ pm1En = {} /\ gpeEn = {}
  BY Zenon, <1>1 DEF LegacyInv
<1>3. PICK source \in SmiSts : Enabled(source)
  BY Zenon DEF AssertSmi
<1>4. "APMC" \notin smiEn /\ "TCO" \notin smiEn /\ "GPI" \notin smiEn
  BY Zenon, <1>1
<1>5. "APM" # source /\ "TCO" # source /\ "GPI" # source
  BY <1>3, <1>4 DEF Enabled
<1>6. source \in smiSts \/ source = "PM1" \/ source = "GPE0" \/ source = "GPI"
  BY Zenon, <1>3 DEF SmiSts
<1>7. source # "PM1" /\ source # "GPE0"
  <2>1. smiSts \subseteq {"APM", "TCO"}
    BY Zenon DEF IchInv, IchTypeOK
  <2> QED
    BY <1>2, <1>3, <2>1 DEF SmiSts
<1>8. source \notin smiSts
  BY <1>5 DEF IchInv, IchTypeOK
<1> QED
  BY Zenon, <1>5, <1>6, <1>7, <1>8

\* The hardware raises no SMI before the sources are enabled, and changes neither
\* the mode nor what a CPU has read.
LEMMA LegacyHardware ==
    ASSUME IchInv, LegacyInv, AssertSmi \/ ChipsetEvents
    PROVE  LegacyInv'
<1>1. CASE AssertSmi
  <2>1. UNCHANGED <<pc, setup, sci, smi>>
    BY Zenon, <1>1 DEF AssertSmi
  <2>2. setup \notin {"boot", "quiet"}
    BY Zenon, <1>1, NoEarlySmi
  <2> QED
    BY Zenon, <2>1, <2>2 DEF LegacyInv
<1>2. CASE ChipsetEvents
  <2>1. Raise /\ (latched' = latched \/ setup = "on")
    BY Zenon, <1>2 DEF ChipsetEvents, SelfSmi, WriteApm, RaiseTco, RaisePm1, RaisePin
  <2>2. UNCHANGED <<pc, setup, sci, smiEn, pm1En, gpeEn, smi>>
    BY Zenon, <2>1 DEF Raise, enables
  <2>3. setup = "on" => setup \notin {"boot", "quiet"}
    OBVIOUS
  <2> QED
    BY Zenon, <2>1, <2>2, <2>3 DEF LegacyInv
<1> QED
  BY Zenon, <1>1, <1>2

\* The installer sets the mode while no CPU is in SMM (smi.rs set_acpi_mode).
LEMMA LegacyInstaller ==
    ASSUME LegacyInv, Installer
    PROVE  LegacyInv'
<1>1. CASE Quiesce
  <2>1. /\ setup = "boot" /\ smiEn' = {"GBL", "EOS"} /\ pm1En' = {} /\ gpeEn' = {}
        /\ setup' = "quiet" /\ pc' = pc /\ latched' = latched
    BY Zenon, <1>1 DEF Quiesce, rendezvousVars
  <2>2. \A c \in CPU : pc'[c] = "run"
    BY Zenon, <2>1 DEF LegacyInv
  <2>3. latched' = {}
    BY Zenon, <2>1 DEF LegacyInv
  <2> QED
    BY <2>1, <2>2, <2>3 DEF LegacyInv
<1>2. ASSUME NEW resume \in BOOLEAN, EnableSources(resume) PROVE LegacyInv'
  <2>1. setup = "quiet" /\ setup' = "enabling" /\ pc' = pc
    BY Zenon, <1>2 DEF EnableSources, rendezvousVars
  <2>2. \A c \in CPU : pc'[c] = "run"
    BY Zenon, <2>1 DEF LegacyInv
  <2> QED
    BY <2>1, <2>2 DEF LegacyInv
<1>3. CASE EnableGate
  <2>1. setup' = "on" /\ UNCHANGED <<pc, smi, sci>>
    BY Zenon, <1>3 DEF EnableGate, rendezvousVars
  <2> QED
    BY <2>1 DEF LegacyInv
<1> QED
  BY Zenon, <1>1, <1>2, <1>3 DEF Installer

\* Every step preserves it, by way of IchInv: a single CPU dispatches.
LEMMA LegacyStepInv == IchInv /\ LegacyInv /\ [IchNext]_ichVars => LegacyInv'
<1>1. ASSUME IchInv, LegacyInv, IchNext PROVE LegacyInv'
  <2>1. ASSUME NEW c \in CPU, IchStep(c) PROVE LegacyInv'
    BY Zenon, <1>1, <2>1, LegacyDispatch, LegacyRendezvous DEF IchStep
  <2> QED
    BY Zenon, <1>1, <2>1, LegacyHardware, LegacyInstaller DEF IchNext
<1>2. ASSUME LegacyInv, UNCHANGED ichVars PROVE LegacyInv'
  <2>1. /\ pc' = pc /\ latched' = latched /\ setup' = setup /\ sci' = sci /\ smiEn' = smiEn
        /\ pm1En' = pm1En /\ gpeEn' = gpeEn /\ smi' = smi
    BY Zenon, <1>2 DEF ichVars, rendezvousVars, chipset, enables
  <2> QED
    BY Zenon, <1>2, <2>1 DEF LegacyInv
<1> QED
  BY Zenon, <1>1, <1>2

\* ACPI mode stays off from the reading of PM1_STS to its acknowledgement, on
\* whichever CPU the two happen (smi.rs finish, legacy_pm1_smi).
THEOREM LegacyHolds == IchSpec => []LegacyInv
<1>1. IchInit => LegacyInv
  BY DEF IchInit, RendezvousInit, LegacyInv
<1> QED
  BY <1>1, LegacyStepInv, IchCorrect, PTL DEF IchSpec

\* A step that clears a bit of PM1_STS is finish's acknowledgement of what it has
\* read (pmio_ich.rs reset_pm1_status).
LEMMA Pm1Step ==
    ASSUME LegacyInv, IchNext, setup = "on", ~(pm1Sts \subseteq pm1Sts')
    PROVE  ~sci /\ ("PWRBTN" \in pm1Sts \ pm1Sts' => power' = "off")
<1>1. ~(AssertSmi \/ ChipsetEvents)
  BY Zenon DEF AssertSmi, ChipsetEvents, SelfSmi, WriteApm, RaiseTco, RaisePm1,
     RaisePin, statuses
<1>2. ~Installer
  BY Zenon DEF Installer, Quiesce, EnableSources, EnableGate
<1>3. PICK c \in CPU : IchStep(c)
  BY Zenon, <1>1, <1>2 DEF IchNext
<1>4. Dispatch(c)
  BY Zenon, <1>3 DEF IchStep, chipset, statuses
<1>5. AckSources(c)
  BY Zenon, <1>4 DEF Dispatch, TakeStatus, TakeApm, TakeEvents, AckGpi, Board, ReadPm1,
     AckStatus, SetEos, statuses
<1>6. pc[c] = "ack" /\ pm1Sts' = pm1Sts \ smi.pm1
  BY Zenon, <1>5 DEF AckSources
<1>7. smi.pm1 # {}
  BY Zenon, <1>6
<1>8. ~sci
  BY Zenon, <1>6, <1>7 DEF LegacyInv
<1>9. "PWRBTN" \in pm1Sts \ pm1Sts' => "PWRBTN" \in smi.pm1
  BY Zenon, <1>6
<1> QED
  BY Zenon, <1>5, <1>8, <1>9 DEF AckSources

\* A PM1 status is cleared only in legacy mode, and the power button's only with
\* the power: no press is lost (smi.rs finish, pmio_ich.rs reset_pm1_status).
THEOREM Pm1KeptHolds == IchSpec => Pm1Kept
<1>1. LegacyInv /\ [IchNext]_ichVars =>
        [setup = "on" /\ ~(pm1Sts \subseteq pm1Sts') =>
           ~sci /\ ("PWRBTN" \in pm1Sts \ pm1Sts' => power' = "off")]_ichVars
  BY Zenon, Pm1Step
<1> QED
  BY <1>1, LegacyHolds, PTL DEF IchSpec, Pm1Kept

\* SCI_EN changes when the installer sets the mode, or with a command in the port
\* whose status is set (smi.rs take).
LEMMA SciStep ==
    ASSUME IchInv, IchNext, setup # "quiet", sci' # sci
    PROVE  "APM" \in smiSts
<1>1. PICK c \in CPU : TakeApm(c)
  <2>1. ~Installer
    BY Zenon DEF Installer, Quiesce, EnableSources, EnableGate
  <2>2. ~AssertSmi /\ ~ChipsetEvents
    BY Zenon DEF AssertSmi, ChipsetEvents, SelfSmi, WriteApm, RaiseTco,
       RaisePm1, RaisePin, Raise
  <2>3. PICK c \in CPU : IchStep(c)
    BY <2>1, <2>2 DEF IchNext
  <2>4. TakeApm(c)
    BY <2>3 DEF IchStep, Dispatch, TakeStatus, TakeEvents, AckGpi, Board, ReadPm1,
       AckSources, AckStatus, SetEos, chipset
  <2> QED
    BY <2>4
<1>2. "APM" \in smi.sts /\ pc[c] = "apm"
  BY Zenon, <1>1 DEF TakeApm, OwnerStep, At
<1> QED
  BY <1>2 DEF IchInv

\* The byte that stays in the APM port is never replayed by an unrelated SMI
\* (smi.rs take).
THEOREM NoReplayHolds == IchSpec => NoReplay
<1>1. IchInv /\ [IchNext]_ichVars =>
        [setup # "quiet" /\ sci' # sci => "APM" \in smiSts]_ichVars
  BY Zenon, SciStep
<1> QED
  BY <1>1, IchCorrect, PTL DEF IchSpec, NoReplay

=============================================================================
