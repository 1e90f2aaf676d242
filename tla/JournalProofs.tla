--------------------------- MODULE JournalProofs ---------------------------
(***************************************************************************)
(* Proofs about the journal and the boots that use it.                     *)
(*                                                                         *)
(* The journal keeps its promises for any set of keys and payloads and any *)
(* range of sequence numbers.  The argument: while a save writes, the bank *)
(* it writes is not the one a load returns, and the number it will carry   *)
(* follows the other bank's; the commit word is the only write that makes  *)
(* a bank count, and when it is programmed the bank is complete.           *)
(*                                                                         *)
(* A resume replays the training the suspended OS was written with, for    *)
(* any firmware images, modules and training results.  From the moment S3  *)
(* is offered until the OS is resumed, the journal holds that training or, *)
(* after an update, nothing: no step in between writes a record.           *)
(***************************************************************************)
EXTENDS MemoryCache, TLAPS

USE JournalAssumption

Writing == {"erase", "header", "payload", "verify", "commit", "confirm"}

\* The save's number follows the number of the bank it keeps.
Follows ==
    op \in Writing /\ Committed(1 - dest) =>
        seq = wrapping_inc(bank[1 - dest].header.seq)

\* The bank about to be erased is not the one a load returns.
ErasesInactive ==
    op = "erase" /\ Committed(dest) =>
        Committed(1 - dest) /\ active = 1 - dest

\* Until the commit word is programmed the bank being written does not count.
Uncommitted ==
    op \in {"header", "payload", "verify", "commit"} => bank[dest].commit = "ones"

\* What the commit word completes is the record of this save.
Complete ==
    /\ op = "commit" => bank[dest].header = header /\ read_bank(dest, "ones")
    /\ op = "confirm" => bank[dest].header = header

JInv ==
    /\ TypeOK
    /\ Consecutive
    /\ Follows
    /\ ErasesInactive
    /\ Uncommitted
    /\ Complete

-----------------------------------------------------------------------------
(* Sequence numbers *)

\* The number after s is one ahead of s, and s is SEQ - 1 ahead of it.
LEMMA IncSub ==
    ASSUME NEW s \in 0..(SEQ - 1)
    PROVE  /\ wrapping_inc(s) \in 0..(SEQ - 1)
           /\ wrapping_sub(wrapping_inc(s), s) = 1
           /\ wrapping_sub(s, wrapping_inc(s)) = SEQ - 1
BY DEF wrapping_inc, wrapping_sub

\* newer holds of the number after s and not the other way round.
LEMMA IncNewer ==
    ASSUME NEW s \in 0..(SEQ - 1)
    PROVE  /\ newer(wrapping_inc(s), s)
           /\ ~newer(s, wrapping_inc(s))
<1>1. wrapping_sub(wrapping_inc(s), s) = 1 /\ wrapping_sub(s, wrapping_inc(s)) = SEQ - 1
  BY Zenon, IncSub
<1>2. 2 * 1 < SEQ /\ ~(2 * (SEQ - 1) < SEQ)
  OBVIOUS
<1> QED
  BY <1>1, <1>2 DEF newer

-----------------------------------------------------------------------------
(* The banks *)

\* A committed bank holds a complete header.
LEMMA CommittedHeader ==
    ASSUME TypeOK, NEW b \in Bank, Committed(b)
    PROVE  /\ bank[b].header.state = "full"
           /\ bank[b].header.rec \in Record
           /\ bank[b].header.seq \in 0..(SEQ - 1)
           /\ bank[b].commit = "zero"
<1>1. bank[b].header \in Header /\ bank[b].header.state = "full" /\ bank[b].commit = "zero"
  BY Zenon DEF TypeOK, Committed, read_bank
<1> QED
  BY Zenon, <1>1 DEF Header

\* The bank a load returns is committed.
LEMMA ActiveCommitted ==
    ASSUME TypeOK, ~Miss
    PROVE  active \in Bank /\ Committed(active)
BY Zenon DEF Miss, active, Bank

\* While a save writes, up to its commit word, a load returns the other bank.
LEMMA ActiveOther ==
    ASSUME JInv, op \in {"erase", "header", "payload", "verify", "commit"}, ~Miss
    PROVE  active = 1 - dest /\ Committed(1 - dest)
<1> dest \in {0, 1}
  BY Zenon DEF JInv, TypeOK, Bank
<1>1. CASE op = "erase"
  <2>1. CASE Committed(dest)
    BY Zenon, <1>1, <2>1 DEF JInv, ErasesInactive
  <2>2. CASE ~Committed(dest)
    BY <2>2 DEF Miss, active
  <2> QED
    BY Zenon, <2>1, <2>2
<1>2. CASE op \in {"header", "payload", "verify", "commit"}
  <2>1. ~Committed(dest)
    BY Zenon, <1>2 DEF JInv, Uncommitted, Committed, read_bank
  <2> QED
    BY <2>1 DEF Miss, active
<1> QED
  BY Zenon, <1>1, <1>2

\* Once its bank counts, a load returns the record of the save.
LEMMA ActiveNew ==
    ASSUME TypeOK, NEW d \in Bank, Committed(d),
           Committed(1 - d) => bank[d].header.seq = wrapping_inc(bank[1 - d].header.seq)
    PROVE  active = d
<1>1. CASE Committed(1 - d)
  <2> DEFINE s == bank[1 - d].header.seq
  <2>1. 1 - d \in Bank
    BY DEF Bank
  <2>2. s \in 0..(SEQ - 1)
    BY Zenon, <1>1, <2>1, CommittedHeader
  <2>3. newer(bank[d].header.seq, s) /\ ~newer(s, bank[d].header.seq)
    BY Zenon, <1>1, <2>2, IncNewer
  <2>4. CASE d = 0
    BY <1>1, <2>3, <2>4 DEF active
  <2>5. CASE d = 1
    BY <1>1, <2>3, <2>5 DEF active
  <2> QED
    BY Zenon, <2>4, <2>5 DEF Bank
<1>2. CASE ~Committed(1 - d)
  BY <1>2 DEF active, Bank
<1> QED
  BY Zenon, <1>1, <1>2

-----------------------------------------------------------------------------
(* The invariant is inductive *)

\* The invariant holds of an erased flash.
THEOREM InitInv == Init => JInv
<1> SUFFICES ASSUME Init PROVE JInv
  OBVIOUS
<1>1. TypeOK
  <2>1. ErasedBank \in [header : Header, body : Body, commit : {"ones", "torn", "zero"}]
    BY Zenon DEF ErasedBank, Header, Body, erased
  <2> QED
    BY <2>1 DEF Init, TypeOK, Bank
<1>2. ~Committed(0) /\ ~Committed(1)
  BY Zenon DEF Init, Committed, read_bank, ErasedBank, Bank
<1> QED
  BY Zenon, <1>1, <1>2 DEF Init, JInv, Consecutive, Follows, ErasesInactive,
     Uncommitted, Complete, Writing

\* Nothing but Write touches a bank, and it touches only the one being written.
LEMMA WriteBank ==
    ASSUME JInv, NEW b \in [header : Header, body : Body, commit : {"ones", "torn", "zero"}],
           Write(b)
    PROVE  /\ bank' \in [Bank -> [header : Header, body : Body,
                                  commit : {"ones", "torn", "zero"}]]
           /\ bank'[dest] = b
           /\ bank'[1 - dest] = bank[1 - dest]
           /\ Committed(1 - dest)' = Committed(1 - dest)
           /\ dest' = dest /\ seq' = seq /\ rec' = rec
           /\ dest \in Bank /\ 1 - dest \in Bank /\ dest # 1 - dest
<1>1. dest \in Bank /\ 1 - dest \in Bank /\ dest # 1 - dest
  BY DEF JInv, TypeOK, Bank
<1>2. bank' = [bank EXCEPT ![dest] = b] /\ dest' = dest /\ seq' = seq /\ rec' = rec
  BY Zenon DEF Write
<1>3. bank'[dest] = b /\ bank'[1 - dest] = bank[1 - dest]
  BY Zenon, <1>1, <1>2 DEF JInv, TypeOK
<1>4. Committed(1 - dest)' = Committed(1 - dest)
  BY Zenon, <1>2, <1>3 DEF Committed, read_bank
<1> QED
  BY Zenon, <1>1, <1>2, <1>3, <1>4 DEF JInv, TypeOK

\* The load at the start of a save, which picks the bank and the number, keeps the invariant.
LEMMA LoadInv == JInv /\ Load => JInv'
<1> SUFFICES ASSUME JInv, Load PROVE JInv'
  OBVIOUS
<1> USE DEF JInv
<1>1. bank' = bank /\ rec' = rec
  BY Zenon DEF Load
<1>2. /\ \A b : Committed(b)' = Committed(b)
      /\ active' = active /\ Miss' = Miss
  BY Zenon, <1>1 DEF Committed, read_bank, active, Miss, newer, wrapping_sub
<1>3. Consecutive'
  BY Zenon, <1>1, <1>2 DEF Consecutive, wrapping_sub
<1>4. CASE Finish("err") /\ UNCHANGED <<dest, seq>>
  BY Zenon, <1>1, <1>3, <1>4 DEF Finish, TypeOK, Follows, ErasesInactive,
     Uncommitted, Complete, Writing
<1>5. CASE Finish("current") /\ UNCHANGED <<dest, seq>>
  BY Zenon, <1>1, <1>3, <1>5 DEF Finish, TypeOK, Follows, ErasesInactive,
     Uncommitted, Complete, Writing
<1>6. CASE /\ ~Miss
           /\ dest' = 1 - active /\ seq' = wrapping_inc(bank[active].header.seq)
           /\ op' = "erase" /\ UNCHANGED result
  <2>1. active \in Bank /\ Committed(active) /\ 1 - active \in Bank
    BY <1>6, ActiveCommitted DEF Bank
  <2>2. seq' \in 0..(SEQ - 1)
    BY Zenon, <1>6, <2>1, CommittedHeader, IncSub
  <2>3. TypeOK'
    BY Zenon, <1>1, <1>6, <2>1, <2>2 DEF TypeOK
  <2>4. 1 - dest' = active
    BY <1>6, <2>1 DEF Bank
  <2>5. Follows' /\ ErasesInactive'
    BY Zenon, <1>1, <1>2, <1>6, <2>1, <2>4 DEF Follows, ErasesInactive,
       wrapping_inc
  <2> QED
    BY Zenon, <1>3, <1>6, <2>3, <2>5 DEF Uncommitted, Complete
<1>7. CASE Miss /\ dest' = 0 /\ seq' = 0 /\ op' = "erase" /\ UNCHANGED result
  <2>1. TypeOK'
    BY <1>1, <1>7 DEF TypeOK, Bank
  <2>2. ~Committed(0)' /\ ~Committed(1)'
    BY Zenon, <1>2, <1>7 DEF Miss
  <2>3. ~Committed(dest)' /\ ~Committed(1 - dest)'
    BY <1>7, <2>2
  <2> QED
    BY Zenon, <1>3, <1>7, <2>1, <2>3 DEF Follows, ErasesInactive, Uncommitted,
       Complete
<1> QED
  BY Zenon, <1>4, <1>5, <1>6, <1>7 DEF Load

\* Between saves only types and sequence numbers are left to check.
LEMMA IdleInv == TypeOK' /\ Consecutive' /\ op' = "idle" => JInv'
BY Zenon DEF JInv, Follows, ErasesInactive, Uncommitted, Complete, Writing

\* A step that writes no bank keeps what is said of the banks.
LEMMA SameBanks ==
    ASSUME JInv, bank' = bank, dest' = dest, seq' = seq, rec' = rec
    PROVE  /\ Consecutive'
           /\ \A b, c : read_bank(b, c)' = read_bank(b, c)
           /\ \A b : Committed(b)' = Committed(b)
           /\ header' = header
BY Zenon DEF JInv, Consecutive, wrapping_sub, Committed, read_bank, header

\* Erasing the inactive bank, in full or in part, keeps the invariant.
LEMMA EraseInv == JInv /\ Erase => JInv'
<1> SUFFICES ASSUME JInv, Erase PROVE JInv'
  OBVIOUS
<1> USE DEF JInv
<1>0. op = "erase" /\ dest \in Bank /\ bank[dest] \in
         [header : Header, body : Body, commit : {"ones", "torn", "zero"}]
  BY Zenon DEF Erase, TypeOK
<1>1. CASE /\ \E h \in {bank[dest].header, erased, torn},
                 p \in {bank[dest].body, erased, torn},
                 c \in {bank[dest].commit, "ones", "torn"} :
                Write([header |-> h, body |-> p, commit |-> c])
           /\ Finish("err")
  <2>1. PICK h \in {bank[dest].header, erased, torn},
             p \in {bank[dest].body, erased, torn},
             c \in {bank[dest].commit, "ones", "torn"} :
               Write([header |-> h, body |-> p, commit |-> c])
    BY Zenon, <1>1
  <2> DEFINE new == [header |-> h, body |-> p, commit |-> c]
  <2>2. new \in [header : Header, body : Body, commit : {"ones", "torn", "zero"}]
    BY <1>0 DEF Header, Body, erased, torn
  <2>3. /\ bank' \in [Bank -> [header : Header, body : Body, commit : {"ones", "torn", "zero"}]]
        /\ bank'[dest] = new
        /\ bank'[1 - dest] = bank[1 - dest]
        /\ dest' = dest /\ seq' = seq /\ rec' = rec
        /\ dest # 1 - dest /\ 1 - dest \in Bank
    BY Zenon, <2>1, <2>2, WriteBank
  <2>4. TypeOK' /\ op' = "idle"
    BY Zenon, <1>1, <2>3 DEF TypeOK, Finish
  <2>5. CASE Committed(dest)'
    <3>1. h.state = "full" /\ p.state = "full" /\ c = "zero"
      BY <2>3, <2>5 DEF Committed, read_bank
    <3>2. h = bank[dest].header /\ p = bank[dest].body /\ c = bank[dest].commit
      BY <3>1 DEF erased, torn
    <3>3. bank'[dest] = bank[dest]
      BY Zenon, <1>0, <2>3, <3>2
    <3>4. bank' = bank
      BY <2>3, <3>3 DEF Bank, TypeOK
    <3> QED
      BY Zenon, <2>3, <2>4, <3>4, SameBanks, IdleInv
  <2>6. CASE ~Committed(dest)'
    <3>1. Consecutive'
      BY Zenon, <1>0, <2>3, <2>6 DEF Consecutive, Bank
    <3> QED
      BY Zenon, <2>4, <3>1, IdleInv
  <2> QED
    BY Zenon, <2>5, <2>6
<1>2. CASE Write(ErasedBank) /\ op' = "header" /\ UNCHANGED result
  <2>1. ErasedBank \in [header : Header, body : Body, commit : {"ones", "torn", "zero"}]
    BY Zenon DEF ErasedBank, Header, Body, erased
  <2>2. /\ bank' \in [Bank -> [header : Header, body : Body, commit : {"ones", "torn", "zero"}]]
        /\ bank'[dest] = ErasedBank
        /\ bank'[1 - dest] = bank[1 - dest]
        /\ Committed(1 - dest)' = Committed(1 - dest)
        /\ dest' = dest /\ seq' = seq /\ rec' = rec
    BY Zenon, <1>2, <2>1, WriteBank
  <2>3. TypeOK'
    BY Zenon, <1>2, <2>2 DEF TypeOK
  <2>4. ~Committed(dest)' /\ bank'[dest].commit = "ones"
    BY <2>2 DEF Committed, read_bank, ErasedBank
  <2>5. Consecutive'
    BY Zenon, <1>0, <2>2, <2>4 DEF Consecutive, Bank
  <2>6. Follows'
    BY Zenon, <1>0, <1>2, <2>2 DEF Follows, Writing, wrapping_inc
  <2> QED
    BY Zenon, <1>2, <2>2, <2>3, <2>4, <2>5, <2>6 DEF ErasesInactive,
       Uncommitted, Complete
<1> QED
  BY Zenon, <1>1, <1>2 DEF Erase

\* Programming the header or the payload leaves the commit word erased.
LEMMA ProgramInv ==
    ASSUME JInv, NEW next \in {"payload", "verify"}, op \in {"header", "payload"}, GoOn(next),
           NEW b \in [header : Header, body : Body, commit : {"ones", "torn", "zero"}],
           b.commit = bank[dest].commit, Write(b)
    PROVE  JInv'
<1> USE DEF JInv
<1>1. /\ bank' \in [Bank -> [header : Header, body : Body, commit : {"ones", "torn", "zero"}]]
      /\ bank'[dest] = b
      /\ bank'[1 - dest] = bank[1 - dest]
      /\ Committed(1 - dest)' = Committed(1 - dest)
      /\ dest' = dest /\ seq' = seq /\ rec' = rec /\ dest \in Bank
  BY Zenon, WriteBank
<1>2. TypeOK'
  BY Zenon, <1>1 DEF TypeOK, GoOn, Finish
<1>3. bank'[dest].commit = "ones" /\ ~Committed(dest)'
  BY Zenon, <1>1 DEF Uncommitted, Committed, read_bank
<1>4. Consecutive'
  BY Zenon, <1>1, <1>3 DEF Consecutive, Bank
<1>5. CASE op' = "idle"
  BY Zenon, <1>2, <1>4, <1>5, IdleInv
<1>6. CASE op' = next
  <2>1. Follows'
    BY Zenon, <1>1, <1>6 DEF Follows, Writing, wrapping_inc
  <2> QED
    BY Zenon, <1>1, <1>2, <1>3, <1>4, <1>6, <2>1 DEF ErasesInactive,
       Uncommitted, Complete
<1> QED
  BY Zenon, <1>5, <1>6 DEF GoOn, Finish

\* Programming the header keeps the invariant, whatever part of it takes effect.
LEMMA ProgramHeaderInv == JInv /\ ProgramHeader => JInv'
<1> SUFFICES ASSUME JInv, ProgramHeader PROVE JInv'
  OBVIOUS
<1>1. PICK h \in {bank[dest].header, torn, header} : Write([bank[dest] EXCEPT !.header = h])
  BY Zenon DEF ProgramHeader
<1>2. bank[dest] \in [header : Header, body : Body, commit : {"ones", "torn", "zero"}]
  BY Zenon DEF JInv, TypeOK
<1>3. h \in Header
  BY <1>2 DEF JInv, TypeOK, Header, header, torn
<1>4. /\ [bank[dest] EXCEPT !.header = h] \in
         [header : Header, body : Body, commit : {"ones", "torn", "zero"}]
      /\ [bank[dest] EXCEPT !.header = h].commit = bank[dest].commit
  BY Zenon, <1>2, <1>3
<1> QED
  BY Zenon, <1>1, <1>4, ProgramInv DEF ProgramHeader

\* Programming the payload keeps the invariant, whatever part of it takes effect.
LEMMA ProgramPayloadInv == JInv /\ ProgramPayload => JInv'
<1> SUFFICES ASSUME JInv, ProgramPayload PROVE JInv'
  OBVIOUS
<1>1. PICK p \in {bank[dest].body, torn, body} : Write([bank[dest] EXCEPT !.body = p])
  BY Zenon DEF ProgramPayload
<1>2. bank[dest] \in [header : Header, body : Body, commit : {"ones", "torn", "zero"}]
  BY Zenon DEF JInv, TypeOK
<1>3. p \in Body
  BY <1>2 DEF JInv, TypeOK, Body, body, torn, Record
<1>4. /\ [bank[dest] EXCEPT !.body = p] \in
         [header : Header, body : Body, commit : {"ones", "torn", "zero"}]
      /\ [bank[dest] EXCEPT !.body = p].commit = bank[dest].commit
  BY Zenon, <1>2, <1>3
<1> QED
  BY Zenon, <1>1, <1>4, ProgramInv DEF ProgramPayload

\* The readback lets only a complete bank reach its commit word.
LEMMA VerifyInv == JInv /\ Verify => JInv'
<1> SUFFICES ASSUME JInv, Verify PROVE JInv'
  OBVIOUS
<1> USE DEF JInv
<1>1. bank' = bank /\ dest' = dest /\ seq' = seq /\ rec' = rec /\ op = "verify"
  BY Zenon DEF Verify
<1>2. TypeOK'
  BY Zenon, <1>1 DEF TypeOK, Verify, GoOn, Finish
<1>3. CASE op' = "idle"
  BY Zenon, <1>1, <1>2, <1>3, SameBanks, IdleInv
<1>4. CASE op' = "commit" /\ read_bank(dest, "ones") /\ bank[dest].header = header
  <2>1. Complete'
    BY Zenon, <1>1, <1>4, SameBanks DEF Complete
  <2>2. Follows'
    BY Zenon, <1>1, <1>4, SameBanks DEF Follows, Writing, wrapping_inc
  <2> QED
    BY Zenon, <1>1, <1>2, <1>4, <2>1, <2>2, SameBanks DEF ErasesInactive,
       Uncommitted
<1> QED
  BY Zenon, <1>3, <1>4 DEF Verify, GoOn, Finish

\* Only the commit word changes, over a header that carries the next number.
LEMMA ProgramCommitInv == JInv /\ ProgramCommit => JInv'
<1> SUFFICES ASSUME JInv, ProgramCommit PROVE JInv'
  OBVIOUS
<1> USE DEF JInv
<1>1. PICK c \in {bank[dest].commit, "torn", "zero"} : Write([bank[dest] EXCEPT !.commit = c])
  BY Zenon DEF ProgramCommit
<1> DEFINE new == [bank[dest] EXCEPT !.commit = c]
<1>2. bank[dest] \in [header : Header, body : Body, commit : {"ones", "torn", "zero"}]
  BY Zenon DEF TypeOK
<1>3. new \in [header : Header, body : Body, commit : {"ones", "torn", "zero"}]
  BY Zenon, <1>2
<1>4. /\ bank' \in [Bank -> [header : Header, body : Body, commit : {"ones", "torn", "zero"}]]
      /\ bank'[dest] = new
      /\ bank'[1 - dest] = bank[1 - dest]
      /\ Committed(1 - dest)' = Committed(1 - dest)
      /\ dest' = dest /\ seq' = seq /\ rec' = rec
      /\ dest \in Bank /\ 1 - dest \in Bank
  BY Zenon, <1>1, <1>3, WriteBank
<1>5. op = "commit" /\ bank'[dest].header = header /\ header' = header
  BY Zenon, <1>2, <1>4 DEF ProgramCommit, Complete, header
<1>6. TypeOK'
  BY Zenon, <1>4 DEF TypeOK, ProgramCommit, GoOn, Finish
<1>7. Consecutive'
  <2>1. CASE Committed(dest)' /\ Committed(1 - dest)'
    <3>1. bank'[dest].header.seq = seq
      BY <1>5 DEF header
    <3>2. seq = wrapping_inc(bank[1 - dest].header.seq)
      BY Zenon, <1>4, <1>5, <2>1 DEF Follows, Writing
    <3> DEFINE s == bank[1 - dest].header.seq
    <3>3. s \in 0..(SEQ - 1)
      BY Zenon, <1>4, <2>1, CommittedHeader
    <3>4. /\ wrapping_sub(bank'[dest].header.seq, bank'[1 - dest].header.seq) = 1
          /\ wrapping_sub(bank'[1 - dest].header.seq, bank'[dest].header.seq) = SEQ - 1
      BY <1>4, <3>1, <3>2, <3>3, IncSub
    <3>5. CASE dest = 0
      BY <3>4, <3>5 DEF Consecutive, wrapping_sub
    <3>6. CASE dest = 1
      BY <3>4, <3>6 DEF Consecutive, wrapping_sub
    <3> QED
      BY Zenon, <1>4, <3>5, <3>6 DEF Bank
  <2>2. CASE ~(Committed(dest)' /\ Committed(1 - dest)')
    BY Zenon, <1>4, <2>2 DEF Consecutive, Bank
  <2> QED
    BY Zenon, <2>1, <2>2
<1>8. CASE op' = "idle"
  BY Zenon, <1>6, <1>7, <1>8, IdleInv
<1>9. CASE op' = "confirm"
  <2>1. Follows'
    BY Zenon, <1>4, <1>5, <1>9 DEF Follows, Writing, wrapping_inc
  <2> QED
    BY Zenon, <1>4, <1>5, <1>6, <1>7, <1>9, <2>1 DEF ErasesInactive,
       Uncommitted, Complete
<1> QED
  BY Zenon, <1>8, <1>9 DEF ProgramCommit, GoOn, Finish

\* Steps that end a save without a write, and the call that begins one.
LEMMA QuietInv ==
    ASSUME JInv,
           Confirm \/ PowerCut \/ \E r \in Record, boot \in {"Normal", "S3Resume"} : save(r, boot)
    PROVE  JInv'
<1> USE DEF JInv
<1>1. bank' = bank /\ dest' = dest /\ seq' = seq
  BY Zenon DEF Confirm, PowerCut, save
<1>2. TypeOK'
  BY Zenon, <1>1 DEF TypeOK, Confirm, PowerCut, save, Finish
<1>3. Consecutive'
  BY Zenon, <1>1 DEF Consecutive, wrapping_sub, Committed, read_bank
<1>4. op' \in {"idle", "load"}
  BY Zenon DEF Confirm, PowerCut, save, Finish
<1> QED
  BY Zenon, <1>2, <1>3, <1>4 DEF Follows, ErasesInactive, Uncommitted, Complete,
     Writing

\* The invariant is inductive.
THEOREM NextInv == JInv /\ [Next]_vars => JInv'
<1> SUFFICES ASSUME JInv, [Next]_vars PROVE JInv'
  OBVIOUS
<1>1. CASE SaveStep
  BY Zenon, <1>1, LoadInv, EraseInv, ProgramHeaderInv, ProgramPayloadInv,
     VerifyInv, ProgramCommitInv, QuietInv DEF SaveStep
<1>2. CASE PowerCut \/ \E r \in Record, boot \in {"Normal", "S3Resume"} : save(r, boot)
  BY Zenon, <1>2, QuietInv
<1>3. CASE UNCHANGED vars
  <2>1. TypeOK'
    BY Zenon, <1>3 DEF vars, JInv, TypeOK
  <2>2. Consecutive' /\ Follows'
    BY Zenon, <1>3 DEF vars, JInv, Consecutive, Follows, Committed, read_bank,
       wrapping_sub, wrapping_inc
  <2>3. ErasesInactive'
    BY <1>3 DEF vars, JInv, ErasesInactive, Committed, read_bank, active, newer,
       wrapping_sub
  <2>4. Uncommitted' /\ Complete'
    BY Zenon, <1>3 DEF vars, JInv, Uncommitted, Complete, read_bank, header
  <2> QED
    BY Zenon, <2>1, <2>2, <2>3, <2>4 DEF JInv
<1> QED
  BY Zenon, <1>1, <1>2, <1>3 DEF Next

\* JInv holds in every state the journal reaches.
THEOREM Invariance == Spec => []JInv
BY InitInv, NextInv, PTL DEF Spec

\* The journal's variables keep their types: sequence numbers stay below SEQ.
THEOREM TypeSafety == Spec => []TypeOK
BY Invariance, PTL DEF JInv

\* Two committed banks always carry consecutive sequence numbers.
THEOREM ConsecutiveHolds == Spec => []Consecutive
BY Invariance, PTL DEF JInv

\* No step of any save, complete, failing or interrupted, writes to the bank a
\* load would return.
THEOREM ActiveKeptHolds == Spec => ActiveKept
<1>1. JInv /\ [Next]_vars => [~Miss => bank'[active] = bank[active]]_vars
  <2> SUFFICES ASSUME JInv, Next, ~Miss PROVE bank'[active] = bank[active]
    BY Zenon DEF Next
  <2>1. CASE bank' = bank
    BY Zenon, <2>1
  <2>2. CASE Erase \/ ProgramHeader \/ ProgramPayload \/ ProgramCommit
    <3>1. op \in {"erase", "header", "payload", "commit"} /\ \E b : Write(b)
      BY Zenon, <2>2 DEF Erase, ProgramHeader, ProgramPayload, ProgramCommit
    <3>2. active = 1 - dest /\ dest \in Bank
      BY Zenon, <3>1, ActiveOther DEF JInv, TypeOK
    <3>3. bank'[1 - dest] = bank[1 - dest]
      BY <3>1, <3>2 DEF Write, JInv, TypeOK, Bank
    <3> QED
      BY Zenon, <3>2, <3>3
  <2> QED
    BY Zenon, <2>1, <2>2 DEF Next, SaveStep, Load, Verify, Confirm, PowerCut,
       save
<1> QED
  BY <1>1, Invariance, PTL DEF Spec, ActiveKept

-----------------------------------------------------------------------------
(* The journal implements AtomicCell *)

\* A record is not the mark of an empty journal.
LEMMA RecordIsValue == ASSUME NEW r \in Record PROVE r # NoValue
<1>1. DOMAIN r = {"key", "payload"}
  BY Zenon DEF Record
<1>2. DOMAIN NoValue = {"state"}
  BY Zenon DEF NoValue
<1> QED
  BY Zenon, <1>1, <1>2

\* What a load returns depends on the banks alone.
LEMMA SameValue == bank' = bank => value' = value
BY DEF value, Miss, active, Committed, read_bank, newer, wrapping_sub

\* A write that leaves its bank uncommitted leaves the value alone.
LEMMA ValueKept ==
    ASSUME JInv, op \in {"erase", "header", "payload", "verify", "commit"},
           bank'[1 - dest] = bank[1 - dest],
           Committed(1 - dest)' = Committed(1 - dest), ~Committed(dest)', dest' = dest
    PROVE  value' = value
<1> dest \in {0, 1}
  BY Zenon DEF JInv, TypeOK, Bank
<1>1. CASE Committed(1 - dest)
  <2>1. ~Miss /\ ~Miss'
    BY <1>1 DEF Miss
  <2>2. active = 1 - dest
    BY Zenon, <2>1, ActiveOther
  <2>3. active' = 1 - dest
    BY <1>1 DEF active
  <2> QED
    BY Zenon, <2>1, <2>2, <2>3 DEF value
<1>2. CASE ~Committed(1 - dest)
  <2>1. Miss'
    BY <1>2 DEF Miss
  <2>2. Miss
    BY Zenon, <1>2, ActiveOther
  <2> QED
    BY Zenon, <2>1, <2>2 DEF value
<1> QED
  BY Zenon, <1>1, <1>2

\* An erase does not change what a load returns.
LEMMA EraseValue == JInv /\ Erase => value' = value
<1> SUFFICES ASSUME JInv, Erase PROVE value' = value
  OBVIOUS
<1>0. op = "erase" /\ dest \in Bank /\ bank[dest] \in
         [header : Header, body : Body, commit : {"ones", "torn", "zero"}]
  BY Zenon DEF Erase, JInv, TypeOK
<1>1. PICK h \in {bank[dest].header, erased, torn},
           p \in {bank[dest].body, erased, torn},
           c \in {bank[dest].commit, "ones", "torn"} :
             Write([header |-> h, body |-> p, commit |-> c])
  BY Zenon DEF Erase, ErasedBank
<1> DEFINE new == [header |-> h, body |-> p, commit |-> c]
<1>2. new \in [header : Header, body : Body, commit : {"ones", "torn", "zero"}]
  BY <1>0 DEF Header, Body, erased, torn
<1>3. /\ bank' \in [Bank -> [header : Header, body : Body, commit : {"ones", "torn", "zero"}]]
      /\ bank'[dest] = new
      /\ bank'[1 - dest] = bank[1 - dest]
      /\ Committed(1 - dest)' = Committed(1 - dest)
      /\ dest' = dest
  BY Zenon, <1>1, <1>2, WriteBank
<1>4. CASE Committed(dest)'
  <2>0. bank'[dest].header = h /\ bank'[dest].body = p /\ bank'[dest].commit = c
    BY <1>3
  <2>1. h.state = "full" /\ p.state = "full" /\ c = "zero"
    BY Zenon, <1>3, <1>4, <2>0 DEF Committed, read_bank
  <2>2. h = bank[dest].header /\ p = bank[dest].body /\ c = bank[dest].commit
    BY <2>1 DEF erased, torn
  <2>3. bank'[dest] = bank[dest]
    BY Zenon, <1>0, <1>3, <2>2
  <2>4. bank' = bank
    BY <1>0, <1>3, <2>3 DEF Bank, JInv, TypeOK
  <2> QED
    BY Zenon, <2>4, SameValue
<1>5. CASE ~Committed(dest)'
  BY Zenon, <1>0, <1>3, <1>5, ValueKept
<1> QED
  BY Zenon, <1>4, <1>5

\* Programming header or payload does not change what a load returns.
LEMMA ProgramValue == JInv /\ (ProgramHeader \/ ProgramPayload) => value' = value
<1> SUFFICES ASSUME JInv, ProgramHeader \/ ProgramPayload PROVE value' = value
  OBVIOUS
<1>0. op \in {"header", "payload"} /\ dest \in Bank /\ bank[dest] \in
         [header : Header, body : Body, commit : {"ones", "torn", "zero"}]
  BY Zenon DEF ProgramHeader, ProgramPayload, JInv, TypeOK
<1>1. CASE ProgramHeader
  <2>1. PICK h \in {bank[dest].header, torn, header} : Write([bank[dest] EXCEPT !.header = h])
    BY Zenon, <1>1 DEF ProgramHeader
  <2>2. h \in Header
    BY <1>0 DEF JInv, TypeOK, Header, header, torn
  <2>3. [bank[dest] EXCEPT !.header = h] \in
         [header : Header, body : Body, commit : {"ones", "torn", "zero"}]
    BY Zenon, <1>0, <2>2
  <2>4. /\ bank'[dest] = [bank[dest] EXCEPT !.header = h]
        /\ bank'[1 - dest] = bank[1 - dest]
        /\ Committed(1 - dest)' = Committed(1 - dest)
        /\ dest' = dest
    BY Zenon, <2>1, <2>3, WriteBank
  <2>5. ~Committed(dest)'
    BY Zenon, <1>0, <2>4 DEF JInv, Uncommitted, Committed, read_bank
  <2> QED
    BY Zenon, <1>0, <2>4, <2>5, ValueKept
<1>2. CASE ProgramPayload
  <2>1. PICK p \in {bank[dest].body, torn, body} : Write([bank[dest] EXCEPT !.body = p])
    BY Zenon, <1>2 DEF ProgramPayload
  <2>2. p \in Body
    BY <1>0 DEF JInv, TypeOK, Body, body, torn, Record
  <2>3. [bank[dest] EXCEPT !.body = p] \in
         [header : Header, body : Body, commit : {"ones", "torn", "zero"}]
    BY Zenon, <1>0, <2>2
  <2>4. /\ bank'[dest] = [bank[dest] EXCEPT !.body = p]
        /\ bank'[1 - dest] = bank[1 - dest]
        /\ Committed(1 - dest)' = Committed(1 - dest)
        /\ dest' = dest
    BY Zenon, <2>1, <2>3, WriteBank
  <2>5. ~Committed(dest)'
    BY Zenon, <1>0, <2>4 DEF JInv, Uncommitted, Committed, read_bank
  <2> QED
    BY Zenon, <1>0, <2>4, <2>5, ValueKept
<1> QED
  BY Zenon, <1>1, <1>2

\* The commit word replaces the value by the record of the save, or does not.
LEMMA CommitValue == JInv /\ ProgramCommit => value' \in {value, rec}
<1> SUFFICES ASSUME JInv, ProgramCommit PROVE value' \in {value, rec}
  OBVIOUS
<1>0. /\ op = "commit" /\ dest \in Bank /\ 1 - dest \in Bank
      /\ bank[dest] \in [header : Header, body : Body, commit : {"ones", "torn", "zero"}]
  BY DEF ProgramCommit, JInv, TypeOK, Bank
<1>1. PICK c \in {bank[dest].commit, "torn", "zero"} : Write([bank[dest] EXCEPT !.commit = c])
  BY Zenon DEF ProgramCommit
<1>2. [bank[dest] EXCEPT !.commit = c] \in
         [header : Header, body : Body, commit : {"ones", "torn", "zero"}]
  BY Zenon, <1>0
<1>3. /\ bank'[dest] = [bank[dest] EXCEPT !.commit = c]
      /\ bank'[1 - dest] = bank[1 - dest]
      /\ Committed(1 - dest)' = Committed(1 - dest)
      /\ dest' = dest
  BY Zenon, <1>1, <1>2, WriteBank
<1>4. bank'[dest].header = header
  BY Zenon, <1>0, <1>3 DEF JInv, Complete
<1>5. CASE Committed(dest)'
  <2>1. active' = dest
    <3>1. CASE Committed(1 - dest)'
      <4> DEFINE s == bank[1 - dest].header.seq
      <4>1. s \in 0..(SEQ - 1) /\ seq = wrapping_inc(s)
        BY Zenon, <1>0, <1>3, <3>1, CommittedHeader DEF JInv, Follows, Writing
      <4>2. newer(seq, s) /\ ~newer(s, seq)
        BY Zenon, <4>1, IncNewer
      <4>3. bank'[dest].header.seq = seq /\ bank'[1 - dest].header.seq = s
        BY <1>3, <1>4 DEF header
      <4>4. Committed(0)' /\ Committed(1)'
        BY <1>0, <1>3, <1>5, <3>1 DEF Bank
      <4>5. active' = IF newer(bank'[1].header.seq, bank'[0].header.seq) THEN 1 ELSE 0
        BY Zenon, <4>4 DEF active, newer, wrapping_sub
      <4>6. CASE dest = 0
        BY <4>2, <4>3, <4>5, <4>6
      <4>7. CASE dest = 1
        BY <4>2, <4>3, <4>5, <4>7
      <4> QED
        BY Zenon, <1>0, <4>6, <4>7 DEF Bank
    <3>2. CASE ~Committed(1 - dest)'
      BY Zenon, <1>0, <1>3, <1>5, <3>2 DEF active, Bank
    <3> QED
      BY Zenon, <3>1, <3>2
  <2>2. ~Miss'
    BY Zenon, <1>0, <1>3, <1>5 DEF Miss, Bank
  <2>3. value' = rec
    BY <1>4, <2>1, <2>2 DEF value, header
  <2> QED
    BY Zenon, <2>3
<1>6. CASE ~Committed(dest)'
  BY Zenon, <1>0, <1>3, <1>6, ValueKept
<1> QED
  BY Zenon, <1>5, <1>6

\* Every step of the journal is a step of the cell, or leaves it alone.
LEMMA StepCell == JInv /\ [Next]_vars => [Cell!Next]_(Cell!vars)
<1> SUFFICES ASSUME JInv, [Next]_vars PROVE [Cell!Next]_(Cell!vars)
  OBVIOUS
<1> USE DEF Cell!Next, Cell!vars
<1>0. rec # NoValue /\ rec \in Record
  BY Zenon, RecordIsValue DEF JInv, TypeOK
<1>1. ASSUME NEW r \in Record, NEW boot \in {"Normal", "S3Resume"}, save(r, boot)
      PROVE  Cell!Next
  <2>1. pending = NoValue /\ value' = value
    BY Zenon, <1>1, SameValue DEF save, pending
  <2>2. CASE boot = "S3Resume"
    BY Zenon, <1>1, <2>1, <2>2 DEF save, Finish, pending, Cell!Refuse
  <2>3. CASE boot = "Normal"
    BY Zenon, <1>1, <2>1, <2>3 DEF save, pending, Cell!Begin
  <2> QED
    BY Zenon, <1>1, <2>2, <2>3
<1>2. ASSUME op # "idle", rec' = rec, op' # "idle", result' = result, value' \in {value, rec}
      PROVE  [Cell!Next]_(Cell!vars)
  BY Zenon, <1>0, <1>2 DEF pending, Cell!Commit
<1>3. ASSUME op # "idle", op' = "idle", value' \in {value, rec},
             result' \in {"saved", "current", "err", "none"},
             result' \in {"saved", "current"} => value' = rec
      PROVE  Cell!Next
  BY Zenon, <1>0, <1>3 DEF pending, Cell!End
<1>4. CASE Load
  <2>1. value' = value /\ op = "load" /\ rec' = rec
    BY Zenon, <1>4, SameValue DEF Load
  <2>2. CASE op' = "erase" /\ result' = result
    BY Zenon, <1>2, <2>1, <2>2
  <2>3. CASE op' = "idle" /\ result' = "err"
    BY Zenon, <1>3, <2>1, <2>3
  <2>4. CASE ~Miss /\ bank[active].header.rec = rec /\ op' = "idle" /\ result' = "current"
    BY Zenon, <1>3, <2>1, <2>4 DEF value
  <2> QED
    BY Zenon, <1>4, <2>2, <2>3, <2>4 DEF Load, Finish
<1>5. CASE Erase \/ ProgramHeader \/ ProgramPayload \/ Verify
  <2>1. value' = value /\ op # "idle" /\ rec' = rec
    BY Zenon, <1>5, EraseValue, ProgramValue, SameValue DEF Erase,
       ProgramHeader, ProgramPayload, Verify, Write
  <2>2. (op' # "idle" /\ result' = result) \/ (op' = "idle" /\ result' = "err")
    BY Zenon, <1>5 DEF Erase, ProgramHeader, ProgramPayload, Verify, GoOn,
       Finish
  <2> QED
    BY Zenon, <1>2, <1>3, <2>1, <2>2
<1>6. CASE ProgramCommit
  <2>1. value' \in {value, rec} /\ op # "idle" /\ rec' = rec
    BY Zenon, <1>6, CommitValue DEF ProgramCommit, Write
  <2>2. (op' # "idle" /\ result' = result) \/ (op' = "idle" /\ result' = "err")
    BY Zenon, <1>6 DEF ProgramCommit, GoOn, Finish
  <2> QED
    BY Zenon, <1>2, <1>3, <2>1, <2>2
<1>7. CASE Confirm
  <2>1. value' = value /\ op = "confirm" /\ op' = "idle"
    BY Zenon, <1>7, SameValue DEF Confirm, Finish
  <2>2. CASE Committed(dest) /\ result' = "saved"
    <3>1. dest \in Bank /\ bank[dest].header = header
      BY Zenon, <2>1 DEF JInv, TypeOK, Complete
    <3>2. Committed(1 - dest) => bank[dest].header.seq = wrapping_inc(bank[1 - dest].header.seq)
      BY <2>1, <3>1 DEF JInv, Follows, Writing, header
    <3>3. active = dest
      BY Zenon, <2>2, <3>1, <3>2, ActiveNew DEF JInv
    <3>4. ~Miss
      BY Zenon, <2>2, <3>1 DEF Miss, Bank
    <3>5. value = rec
      BY <3>1, <3>3, <3>4 DEF value, header
    <3> QED
      BY Zenon, <1>3, <2>1, <2>2, <3>5
  <2>3. CASE result' = "err"
    BY Zenon, <1>3, <2>1, <2>3
  <2> QED
    BY Zenon, <1>7, <2>2, <2>3 DEF Confirm, Finish
<1>8. CASE PowerCut
  <2>1. value' = value /\ op # "idle" /\ op' = "idle" /\ result' = "none"
    BY Zenon, <1>8, SameValue DEF PowerCut, Finish
  <2> QED
    BY Zenon, <1>3, <2>1
<1>9. CASE UNCHANGED vars
  BY Zenon, <1>9, SameValue DEF vars, pending
<1> QED
  BY Zenon, <1>1, <1>4, <1>5, <1>6, <1>7, <1>8, <1>9 DEF Next, SaveStep

\* The journal is an atomic cell: loads return the last record committed, and
\* a save, whatever fails and whenever the power is cut, replaces it in one
\* step or not at all.
THEOREM Refinement == Spec => CellSpec
<1>1. Init => Cell!Init
  BY DEF Init, Cell!Init, value, pending, Miss, Committed, read_bank, ErasedBank, Bank
<1> QED
  BY <1>1, StepCell, Invariance, PTL DEF Spec, CellSpec, Cell!Spec

-----------------------------------------------------------------------------
(* Memory training across boots and S3 *)

HIDE JournalAssumption
USE MemoryCacheAssumption

\* A load returns the training t under this boot's key or, after an update,
\* nothing.
Recorded(t) ==
    /\ t \in Training
    /\ value \in {NoValue, [key |-> key, payload |-> t.payload]}
    /\ ~updated => value # NoValue /\ key = fw

\* The commit in progress is of the training in force, and a success it has
\* reported is true.
Filed ==
    stage = "commit" =>
        /\ setting \in Training
        /\ path = "Normal" /\ key = fw
        /\ rec = [key |-> key, payload |-> setting.payload]
        /\ op # "idle" => result = "none"
        /\ op = "idle" /\ result \in {"saved", "current"} => value = rec

\* The memory is in self-refresh and holds an OS that was offered S3.
Resumable == s3 /\ Recorded(image) /\ setting = None

Offered ==
    /\ stage \in {"handoff", "os"} /\ s3 => Recorded(setting)
    /\ stage = "sleep" => Resumable

\* The chipset's indication of a resume outlives the wake only until the boot
\* path is known, and then only when the boot stopped before.
Indicated ==
    wakSts /\ slpTyp /\ stage # "sleep" => stage \in {"early", "halt"} /\ Resumable

Resuming ==
    path = "S3Resume" =>
        /\ stage = "bootblock" => Resumable
        /\ stage \in Trained => s3 /\ setting = image /\ Recorded(setting)

MInv ==
    /\ BootTypeOK
    /\ JInv
    /\ stage # "commit" => op = "idle"
    /\ stage \in Trained => setting \in Training
    /\ Filed
    /\ Offered
    /\ Indicated
    /\ Resuming

-----------------------------------------------------------------------------

\* The invariant holds of a machine that is off, with an erased flash.
LEMMA BootInitInv == BootInit => MInv
<1> SUFFICES ASSUME BootInit PROVE MInv
  OBVIOUS
<1>1. JInv /\ TypeOK
  BY Zenon, InitInv DEF BootInit, JInv
<1>2. BootTypeOK
  BY Zenon, <1>1 DEF BootInit, BootTypeOK
<1> QED
  BY Zenon, <1>1, <1>2 DEF BootInit, Init, MInv, Filed, Offered, Indicated,
     Resuming, Trained

\* A step that leaves the journal alone.
LEMMA StillInv ==
    ASSUME MInv, UNCHANGED vars
    PROVE  JInv' /\ TypeOK' /\ value' = value
<1>1. JInv'
  BY Zenon, NextInv DEF MInv
<1>2. value' = value
  BY Zenon, SameValue DEF vars
<1> QED
  BY Zenon, <1>1, <1>2 DEF JInv

\* What a load returns is a committed record.
LEMMA ValueRecord ==
    ASSUME TypeOK, ~Miss
    PROVE  value = bank[active].header.rec /\ value \in Record /\ value # NoValue
<1>1. value = bank[active].header.rec
  BY Zenon DEF value
<1>2. bank[active].header.rec \in Record
  BY Zenon, ActiveCommitted, CommittedHeader
<1> QED
  BY Zenon, <1>1, <1>2, RecordIsValue

\* dram_init keeps the invariant: a resume replays the record of the suspended OS.
LEMMA DramInitInv == MInv /\ dram_init => MInv'
<1> SUFFICES ASSUME MInv, dram_init PROVE MInv'
  OBVIOUS
<1>0. /\ JInv' /\ TypeOK' /\ value' = value
      /\ stage = "bootblock" /\ stage' = "dram" /\ key' = fw
      /\ UNCHANGED <<path, wakSts, slpTyp, fw, dimm>> /\ op' = op
  BY Zenon, StillInv DEF dram_init, vars, pm1
<1>1. Filed' /\ Indicated' /\ (stage' # "commit" => op' = "idle")
  BY Zenon, <1>0 DEF MInv, Filed, Indicated
<1>2. CASE /\ path = "S3Resume" /\ Replayable
           /\ setting' = trained(bank[active].header.rec.payload)
           /\ UNCHANGED <<image, s3, updated>>
  <2>1. value = bank[active].header.rec /\ value \in Record /\ value # NoValue
    BY Zenon, <1>2, ValueRecord DEF Replayable, Usable, MInv, JInv
  <2>2. value.key = fw /\ setting' = trained(value.payload)
    BY Zenon, <1>2, <2>1 DEF Replayable, Usable
  <2>3. image \in Training /\ value = [key |-> key, payload |-> image.payload] /\ s3
    BY Zenon, <1>0, <1>2, <2>1 DEF MInv, Resuming, Resumable, Recorded
  <2>4. setting' = image
    BY Zenon, <2>2, <2>3 DEF trained, Training
  <2>5. key' = key
    BY Zenon, <1>0, <2>2, <2>3
  <2>6. Recorded(setting)'
    BY Zenon, <1>0, <2>1, <2>3, <2>4, <2>5 DEF Recorded
  <2>7. BootTypeOK'
    BY Zenon, <1>0, <1>2, <2>3, <2>4 DEF MInv, BootTypeOK
  <2>8. Offered' /\ Resuming' /\ setting' \in Training
    BY Zenon, <1>0, <1>2, <2>3, <2>4, <2>6 DEF Offered, Resuming
  <2> QED
    BY Zenon, <1>0, <1>1, <2>7, <2>8 DEF MInv
<1>3. CASE /\ path = "Normal"
           /\ \E p \in Payload : dimm_of[p] = dimm /\ setting' = trained(p)
           /\ image' = None /\ s3' = FALSE /\ updated' = FALSE
  <2>1. setting' \in Training
    BY <1>3 DEF trained, Training
  <2>2. BootTypeOK'
    BY Zenon, <1>0, <1>3, <2>1 DEF MInv, BootTypeOK
  <2>3. Offered' /\ Resuming'
    BY Zenon, <1>0, <1>3 DEF Offered, Resuming
  <2> QED
    BY Zenon, <1>0, <1>1, <2>1, <2>2, <2>3 DEF MInv
<1> QED
  BY Zenon, <1>2, <1>3 DEF dram_init

\* commit_pending keeps the invariant: it starts a save of the training in force.
LEMMA CommitPendingInv == MInv /\ commit_pending => MInv'
<1> SUFFICES ASSUME MInv, commit_pending PROVE MInv'
  OBVIOUS
<1>0. /\ stage = "ramstage" /\ path = "Normal" /\ setting \in Training
      /\ UNCHANGED <<path, wakSts, slpTyp, fw, dimm, key, setting, image, updated>>
  BY Zenon DEF commit_pending, pm1, MInv, Trained
<1>1. CASE /\ key = fw
           /\ save([key |-> key, payload |-> setting.payload], "Normal")
           /\ stage' = "commit" /\ UNCHANGED s3
  <2>1. [key |-> key, payload |-> setting.payload] \in Record
    BY Zenon, <1>0 DEF MInv, BootTypeOK, Training, Record
  <2>2. JInv'
    BY Zenon, <1>1, <2>1, QuietInv DEF MInv
  <2>3. op' = "load" /\ result' = "none" /\ rec' = [key |-> key, payload |-> setting.payload]
    BY Zenon, <1>1 DEF save
  <2>4. Filed'
    BY Zenon, <1>0, <1>1, <2>3 DEF Filed
  <2>5. Offered' /\ Indicated' /\ Resuming'
    BY Zenon, <1>0, <1>1 DEF MInv, Offered, Indicated, Resuming
  <2> QED
    BY Zenon, <1>0, <1>1, <2>2, <2>4, <2>5 DEF MInv, BootTypeOK, JInv, Trained
<1>2. CASE stage' = "handoff" /\ s3' = FALSE /\ UNCHANGED vars
  <2>1. JInv' /\ TypeOK' /\ op' = op
    BY Zenon, <1>2, StillInv DEF vars
  <2>2. Filed' /\ Offered' /\ Indicated' /\ Resuming'
    BY Zenon, <1>0, <1>2 DEF MInv, Filed, Offered, Indicated, Resuming
  <2> QED
    BY Zenon, <1>0, <1>2, <2>1, <2>2 DEF MInv, BootTypeOK
<1> QED
  BY Zenon, <1>1, <1>2 DEF commit_pending

\* A save that ends well has made its record the value: a step of the cell.
LEMMA SavingInv == MInv /\ Saving => MInv'
<1> SUFFICES ASSUME MInv, Saving PROVE MInv'
  OBVIOUS
<1>0. /\ stage = "commit" /\ SaveStep /\ op # "idle"
      /\ UNCHANGED <<stage, path, wakSts, slpTyp, fw, dimm, key, setting, image, s3, updated>>
  BY Zenon DEF Saving, SaveStep, Load, Erase, ProgramHeader, ProgramPayload, Verify,
     ProgramCommit, Confirm, bootVars, pm1
<1>1. JInv' /\ [Cell!Next]_(Cell!vars)
  BY Zenon, <1>0, NextInv, StepCell DEF MInv, Next
<1>2. rec' = rec /\ result = "none"
  BY Zenon, <1>0 DEF MInv, Filed, SaveStep, Load, Erase, ProgramHeader,
     ProgramPayload, Verify, ProgramCommit, Confirm, Write
<1>3. op' # "idle" => result' = "none"
  BY Zenon, <1>0, <1>2 DEF SaveStep, Load, Erase, ProgramHeader, ProgramPayload,
     Verify, ProgramCommit, Confirm, GoOn, Finish
<1>4. op' = "idle" /\ result' \in {"saved", "current"} => value' = rec
  <2> SUFFICES ASSUME op' = "idle", result' \in {"saved", "current"} PROVE value' = rec
    OBVIOUS
  <2>1. pending = rec /\ rec # NoValue
    BY Zenon, <1>0, RecordIsValue DEF pending, MInv, JInv, TypeOK
  <2>2. result' # result
    BY Zenon, <1>2
  <2> QED
    BY Zenon, <1>1, <2>1, <2>2 DEF Cell!Next, Cell!vars, Cell!Begin,
       Cell!Commit, Cell!End, Cell!Refuse
<1>5. Filed'
  BY Zenon, <1>0, <1>2, <1>3, <1>4 DEF MInv, Filed
<1>6. BootTypeOK'
  BY Zenon, <1>0, <1>1 DEF MInv, BootTypeOK, JInv
<1>7. Offered' /\ Indicated' /\ Resuming' /\ stage' \notin Trained
  BY Zenon, <1>0 DEF MInv, Offered, Indicated, Resuming, Trained
<1> QED
  BY Zenon, <1>0, <1>1, <1>5, <1>6, <1>7 DEF MInv

\* commit_memory_cache keeps the invariant: it offers S3 for a record that is there.
LEMMA CommitMemoryCacheInv == MInv /\ commit_memory_cache => MInv'
<1> SUFFICES ASSUME MInv, commit_memory_cache PROVE MInv'
  OBVIOUS
<1>0. /\ JInv' /\ TypeOK' /\ value' = value
      /\ stage = "commit" /\ stage' = "handoff" /\ op = "idle" /\ op' = op
      /\ UNCHANGED <<path, wakSts, slpTyp, fw, dimm, key, setting, image, updated>>
  BY Zenon, StillInv DEF commit_memory_cache, vars, pm1
<1>1. s3' \in BOOLEAN /\ (s3' => result \in {"saved", "current"})
  BY Zenon DEF commit_memory_cache
<1>2. rec # NoValue
  BY Zenon, RecordIsValue DEF MInv, JInv, TypeOK
<1>3. s3' => Recorded(setting)'
  BY Zenon, <1>0, <1>1, <1>2 DEF MInv, Filed, Recorded
<1>4. Filed' /\ Offered' /\ Indicated' /\ Resuming'
  BY Zenon, <1>0, <1>3 DEF MInv, Filed, Offered, Indicated, Resuming
<1> QED
  BY Zenon, <1>0, <1>1, <1>4 DEF MInv, BootTypeOK, Filed

\* A reset: the indication is gone, or the boot stopped before it was read and
\* nothing has touched the memory.
LEMMA ResetInv ==
    ASSUME MInv, system_reset,
           stage \in {"bootblock", "dram", "postcar", "ramstage", "handoff", "os", "halt"}
    PROVE  MInv'
<1>0. /\ JInv' /\ TypeOK' /\ value' = value /\ stage' = "early" /\ path' = "Normal"
      /\ setting' = None /\ op' = op /\ op = "idle"
      /\ UNCHANGED <<wakSts, slpTyp, fw, dimm, key>>
  BY Zenon, StillInv DEF system_reset, enter, vars, pm1, MInv
<1>1. s3' \in BOOLEAN /\ updated' \in BOOLEAN /\ image' \in {image, None}
  BY Zenon DEF system_reset
<1>2. BootTypeOK'
  BY Zenon, <1>0, <1>1 DEF MInv, BootTypeOK
<1>3. ASSUME wakSts, slpTyp PROVE Resumable'
  <2>1. Resumable
    BY Zenon, <1>3 DEF MInv, Indicated
  <2>2. setting = None
    BY Zenon, <2>1 DEF Resumable
  <2>3. UNCHANGED <<image, s3, updated>>
    BY Zenon, <2>2 DEF system_reset, MInv, BootTypeOK
  <2> QED
    BY Zenon, <1>0, <2>1, <2>3 DEF Resumable, Recorded
<1>4. Filed' /\ Offered' /\ Resuming' /\ Indicated' /\ stage' \notin Trained
  BY Zenon, <1>0, <1>3 DEF Filed, Offered, Resuming, Indicated, Trained
<1> QED
  BY Zenon, <1>0, <1>2, <1>4 DEF MInv

\* A halt leaves everything as it is.
LEMMA HaltInv ==
    ASSUME MInv, halt,
           stage \in {"early", "bootblock", "dram", "postcar", "ramstage", "handoff"}
    PROVE  MInv'
<1>0. /\ JInv' /\ TypeOK' /\ value' = value /\ stage' = "halt" /\ op' = op /\ op = "idle"
      /\ UNCHANGED <<path, wakSts, slpTyp, fw, dimm, key, setting, image, s3, updated>>
  BY Zenon, StillInv DEF halt, vars, pm1, MInv
<1>1. BootTypeOK'
  BY Zenon, <1>0 DEF MInv, BootTypeOK
<1>2. Resumable => Resumable'
  BY Zenon, <1>0 DEF Resumable, Recorded
<1>3. Indicated'
  BY Zenon, <1>0, <1>2 DEF MInv, Indicated
<1>4. Filed' /\ Offered' /\ Resuming' /\ stage' \notin Trained
  BY Zenon, <1>0 DEF Filed, Offered, Resuming, Trained
<1> QED
  BY Zenon, <1>0, <1>1, <1>3, <1>4 DEF MInv

\* A boot that is taken for a resume finds the suspended OS in memory.
LEMMA DetectInv == MInv /\ detect_s3_resume => MInv'
<1> SUFFICES ASSUME MInv, detect_s3_resume PROVE MInv'
  OBVIOUS
<1>0. /\ JInv' /\ TypeOK' /\ value' = value /\ op' = op /\ op = "idle"
      /\ stage = "early" /\ stage' = "bootblock"
      /\ UNCHANGED <<wakSts, fw, dimm, key, setting, image, s3, updated>>
  BY Zenon, StillInv DEF detect_s3_resume, vars, MInv
<1>1. /\ path' \in {"Normal", "S3Resume"} /\ slpTyp' \in BOOLEAN
      /\ path' = "S3Resume" => wakSts /\ slpTyp
      /\ ~(wakSts' /\ slpTyp')
  <2>1. path' \in {"Normal", "S3Resume"} /\ (path' = "S3Resume" => wakSts /\ slpTyp)
    BY Zenon DEF detect_s3_resume
  <2>2. slpTyp' = (slpTyp /\ ~wakSts) /\ wakSts' = wakSts
    BY Zenon DEF detect_s3_resume
  <2> QED
    BY Zenon, <2>1, <2>2
<1>2. BootTypeOK'
  BY Zenon, <1>0, <1>1 DEF MInv, BootTypeOK
<1>3. Resumable => Resumable'
  BY Zenon, <1>0 DEF Resumable, Recorded
<1>4. path' = "S3Resume" => Resumable'
  BY Zenon, <1>0, <1>1, <1>3 DEF MInv, Indicated
<1>5. Filed' /\ Offered' /\ Indicated' /\ Resuming' /\ stage' \notin Trained
  BY Zenon, <1>0, <1>1, <1>4 DEF Filed, Offered, Indicated, Resuming, Trained
<1> QED
  BY Zenon, <1>0, <1>2, <1>5 DEF MInv

\* The stages that only hand over to the next one.
LEMMA AdvanceInv ==
    ASSUME MInv, load_postcar \/ load_ramstage \/ memory_map
    PROVE  MInv'
<1>0. /\ JInv' /\ TypeOK' /\ value' = value /\ op' = op /\ op = "idle"
      /\ stage \in {"dram", "postcar", "ramstage"} /\ stage' \in {"postcar", "ramstage", "handoff"}
      /\ stage' = "handoff" => path = "S3Resume"
      /\ UNCHANGED <<path, wakSts, slpTyp, fw, dimm, key, setting, image, s3, updated>>
  BY Zenon, StillInv DEF load_postcar, load_ramstage, memory_map, Advance, vars,
     pm1, MInv
<1>1. BootTypeOK'
  BY Zenon, <1>0 DEF MInv, BootTypeOK
<1>2. stage \in Trained /\ stage' \in Trained
  BY Zenon, <1>0 DEF Trained
<1>3. Recorded(setting) => Recorded(setting)'
  BY Zenon, <1>0 DEF Recorded
<1>4. path = "S3Resume" => s3' /\ setting' = image' /\ Recorded(setting)'
  BY Zenon, <1>0, <1>2, <1>3 DEF MInv, Resuming
<1>5. Offered' /\ Resuming'
  BY Zenon, <1>0, <1>4 DEF Offered, Resuming
<1>6. Filed' /\ Indicated' /\ setting' \in Training
  BY Zenon, <1>0, <1>2 DEF MInv, Filed, Indicated
<1> QED
  BY Zenon, <1>0, <1>1, <1>5, <1>6 DEF MInv

\* boot hands the memory to the OS.
LEMMA BootInv == MInv /\ Boot => MInv'
<1> SUFFICES ASSUME MInv, Boot PROVE MInv'
  OBVIOUS
<1>0. /\ JInv' /\ TypeOK' /\ value' = value /\ op' = op /\ op = "idle"
      /\ stage = "handoff" /\ stage' = "os" /\ image' = None
      /\ UNCHANGED <<path, wakSts, slpTyp, fw, dimm, key, setting, s3, updated>>
  BY Zenon, StillInv DEF Boot, vars, pm1, MInv
<1>1. BootTypeOK'
  BY Zenon, <1>0 DEF MInv, BootTypeOK
<1>2. s3 => Recorded(setting)'
  BY Zenon, <1>0 DEF MInv, Offered, Recorded
<1>3. Filed' /\ Offered' /\ Resuming' /\ stage' \notin Trained
  BY Zenon, <1>0, <1>2 DEF Filed, Offered, Resuming, Trained
<1>4. Indicated'
  BY Zenon, <1>0 DEF MInv, Indicated
<1> QED
  BY Zenon, <1>0, <1>1, <1>3, <1>4 DEF MInv

\* The environment's steps that leave the journal alone.
LEMMA StillStepInv ==
    ASSUME MInv, PowerOn \/ Exchange \/ Suspend \/ Wake
    PROVE  MInv'
<1>0. /\ JInv' /\ TypeOK' /\ value' = value /\ op' = op /\ op = "idle"
      /\ stage \notin {"commit"} \cup Trained /\ stage' \notin {"commit"} \cup Trained
      /\ UNCHANGED <<fw, key, s3, updated>>
  BY Zenon, StillInv DEF PowerOn, Exchange, Suspend, Wake, enter, vars, MInv, Trained
<1>1. Filed'
  BY Zenon, <1>0 DEF Filed
<1>2. CASE PowerOn
  <2>1. /\ stage = "off" /\ stage' = "early" /\ path' = "Normal"
        /\ UNCHANGED <<wakSts, slpTyp, dimm, setting, image>>
    BY Zenon, <1>2 DEF PowerOn, enter, pm1
  <2>2. BootTypeOK'
    BY Zenon, <1>0, <2>1 DEF MInv, BootTypeOK
  <2>3. Offered' /\ Indicated' /\ Resuming'
    BY Zenon, <2>1 DEF MInv, Offered, Indicated, Resuming
  <2> QED
    BY Zenon, <1>0, <1>1, <2>2, <2>3 DEF MInv
<1>3. CASE Exchange
  <2>1. /\ stage \in {"off", "sleep"} /\ dimm' \in Dimm
        /\ UNCHANGED <<stage, path, wakSts, slpTyp, setting, image>>
    BY Zenon, <1>3 DEF Exchange, pm1
  <2>2. BootTypeOK'
    BY Zenon, <1>0, <2>1 DEF MInv, BootTypeOK
  <2>3. Resumable => Resumable'
    BY Zenon, <1>0, <2>1 DEF Resumable, Recorded
  <2>4. Offered' /\ Indicated' /\ Resuming'
    BY Zenon, <1>0, <2>1, <2>3 DEF MInv, Offered, Indicated, Resuming
  <2> QED
    BY Zenon, <1>0, <1>1, <2>2, <2>4 DEF MInv
<1>4. CASE Suspend
  <2>1. /\ stage = "os" /\ s3 /\ stage' = "sleep" /\ slpTyp' = TRUE
        /\ image' = setting /\ setting' = None /\ UNCHANGED <<path, wakSts, dimm>>
    BY Zenon, <1>4 DEF Suspend
  <2>2. BootTypeOK'
    BY Zenon, <1>0, <2>1 DEF MInv, BootTypeOK
  <2>3. Resumable'
    BY Zenon, <1>0, <2>1 DEF MInv, Offered, Recorded, Resumable
  <2>4. Offered' /\ Indicated' /\ Resuming'
    BY Zenon, <1>0, <2>1, <2>3 DEF Offered, Indicated, Resuming
  <2> QED
    BY Zenon, <1>0, <1>1, <2>2, <2>4 DEF MInv
<1>5. CASE Wake
  <2>1. /\ stage = "sleep" /\ stage' = "early" /\ path' = "Normal" /\ wakSts' = TRUE
        /\ UNCHANGED <<slpTyp, dimm, setting, image>>
    BY Zenon, <1>5 DEF Wake, enter
  <2>2. BootTypeOK'
    BY Zenon, <1>0, <2>1 DEF MInv, BootTypeOK
  <2>3. Resumable'
    BY Zenon, <1>0, <2>1 DEF MInv, Offered, Recorded, Resumable
  <2>4. Offered' /\ Indicated' /\ Resuming'
    BY Zenon, <1>0, <2>1, <2>3 DEF Offered, Indicated, Resuming
  <2> QED
    BY Zenon, <1>0, <1>1, <2>2, <2>4 DEF MInv
<1> QED
  BY Zenon, <1>2, <1>3, <1>4, <1>5

\* An update leaves the journal as it is or blank.
LEMMA UpdateInv == MInv /\ Update => MInv'
<1> SUFFICES ASSUME MInv, Update PROVE MInv'
  OBVIOUS
<1>0. /\ stage = "os" /\ fw' \in Key /\ UNCHANGED <<op, rec, dest, seq, result>>
      /\ UNCHANGED <<stage, path, wakSts, slpTyp, dimm, key, setting, image, s3>>
      /\ updated' = TRUE /\ op' = "idle"
  BY Zenon DEF Update, MInv, pm1
<1>1. JInv' /\ TypeOK' /\ value' \in {NoValue, value}
  <2>1. CASE bank' = bank
    BY Zenon, <1>0, <2>1, StillInv DEF vars
  <2>2. CASE bank' = [b \in Bank |-> ErasedBank]
    <3>1. ErasedBank \in [header : Header, body : Body, commit : {"ones", "torn", "zero"}]
      BY Zenon DEF ErasedBank, Header, Body, erased
    <3>2. TypeOK'
      BY Zenon, <1>0, <2>2, <3>1 DEF MInv, JInv, TypeOK
    <3>3. ~Committed(0)' /\ ~Committed(1)'
      BY Zenon, <2>2 DEF Committed, read_bank, ErasedBank, Bank
    <3>4. JInv' /\ value' = NoValue
      BY Zenon, <1>0, <3>2, <3>3, IdleInv DEF Consecutive, value, Miss
    <3> QED
      BY Zenon, <3>2, <3>4
  <2> QED
    BY Zenon, <2>1, <2>2 DEF Update
<1>2. BootTypeOK'
  BY Zenon, <1>0, <1>1 DEF MInv, BootTypeOK
<1>3. s3 => Recorded(setting)'
  BY Zenon, <1>0, <1>1 DEF MInv, Offered, Recorded
<1>4. Filed' /\ Offered' /\ Resuming' /\ stage' \notin Trained
  BY Zenon, <1>0, <1>3 DEF Filed, Offered, Resuming, Trained
<1>5. Indicated'
  BY Zenon, <1>0 DEF MInv, Indicated
<1> QED
  BY Zenon, <1>0, <1>1, <1>2, <1>4, <1>5 DEF MInv

\* A power loss at any moment keeps the invariant.
LEMMA PowerLossInv == MInv /\ PowerLoss => MInv'
<1> SUFFICES ASSUME MInv, PowerLoss PROVE MInv'
  OBVIOUS
<1>1. JInv'
  BY Zenon, NextInv DEF MInv, PowerLoss, Next
<1>2. op' = "idle"
  BY Zenon DEF PowerLoss, PowerCut, Finish, vars
<1>3. /\ stage' = "off" /\ path' = "Normal" /\ wakSts' = FALSE
      /\ setting' = None /\ image' = None /\ s3' = FALSE /\ updated' = FALSE
      /\ UNCHANGED <<slpTyp, fw, dimm, key>>
  BY Zenon DEF PowerLoss
<1>4. BootTypeOK'
  BY Zenon, <1>1, <1>3 DEF MInv, BootTypeOK, JInv
<1>5. Filed' /\ Offered' /\ Indicated' /\ Resuming' /\ stage' \notin Trained
  BY Zenon, <1>3 DEF Filed, Offered, Indicated, Resuming, Trained
<1> QED
  BY Zenon, <1>1, <1>2, <1>4, <1>5 DEF MInv

\* A phase that fails halts or resets, where it may do either.
LEMMA FailInv ==
    ASSUME MInv,
           \/ enter_Fails \/ raminit_Resets \/ load_ramstage_Fails
           \/ ramstage_Halts \/ Boot_Resets \/ Fail \/ Reboot
    PROVE  MInv'
<1>1. CASE halt
  BY Zenon, <1>1, HaltInv DEF enter_Fails, raminit_Resets, load_ramstage_Fails,
     ramstage_Halts, Boot_Resets, Fail, fail, Reboot, system_reset, enter, halt
<1>2. CASE system_reset
  BY Zenon, <1>2, ResetInv DEF enter_Fails, raminit_Resets, load_ramstage_Fails,
     ramstage_Halts, Boot_Resets, Fail, fail, Reboot, system_reset, enter, halt
<1> QED
  BY Zenon, <1>1, <1>2 DEF enter_Fails, raminit_Resets, load_ramstage_Fails,
     ramstage_Halts, Boot_Resets, Fail, fail, Reboot

\* The invariant is inductive.
LEMMA BootNextInv == MInv /\ [BootNext]_allVars => MInv'
<1> SUFFICES ASSUME MInv, [BootNext]_allVars PROVE MInv'
  OBVIOUS
<1>1. CASE Firmware
  BY Zenon, <1>1, DetectInv, DramInitInv, AdvanceInv, CommitPendingInv, SavingInv,
     CommitMemoryCacheInv, BootInv, FailInv DEF Firmware
<1>2. CASE Environment
  BY Zenon, <1>2, UpdateInv, PowerLossInv, StillStepInv, FailInv DEF Environment
<1>3. CASE UNCHANGED allVars
  <2>1. UNCHANGED vars /\ UNCHANGED bootVars
    BY Zenon, <1>3 DEF allVars
  <2>2. UNCHANGED <<stage, path, wakSts, slpTyp, fw, dimm, key, setting, image, s3, updated>>
    BY Zenon, <2>1 DEF bootVars, pm1
  <2>3. JInv' /\ TypeOK' /\ value' = value /\ UNCHANGED <<op, rec, result>>
    BY Zenon, <2>1, StillInv DEF vars
  <2>4. BootTypeOK'
    BY Zenon, <2>2, <2>3 DEF MInv, BootTypeOK
  <2>5. Filed' /\ (stage' # "commit" => op' = "idle")
    BY Zenon, <2>2, <2>3 DEF MInv, Filed
  <2>6. /\ Recorded(setting) => Recorded(setting)'
        /\ Resumable => Resumable'
    BY Zenon, <2>2, <2>3 DEF Recorded, Resumable
  <2>7. Offered' /\ Indicated' /\ Resuming'
    BY Zenon, <2>2, <2>6 DEF MInv, Offered, Indicated, Resuming
  <2> QED
    BY Zenon, <2>2, <2>3, <2>4, <2>5, <2>7 DEF MInv
<1> QED
  BY Zenon, <1>1, <1>2, <1>3 DEF BootNext

\* MInv holds in every state of every history of boots.
THEOREM BootInvariance == BootSpec => []MInv
BY BootInitInv, BootNextInv, PTL DEF BootSpec

\* The machine's variables keep their types.
THEOREM BootTypeSafety == BootSpec => []BootTypeOK
BY BootInvariance, PTL DEF MInv

\* A resume that gets past dram_init drives the memory with the training
\* the suspended OS was written with.
THEOREM RetainedReadableHolds == BootSpec => []RetainedReadable
<1>1. MInv => RetainedReadable
  BY Zenon DEF MInv, Resuming, RetainedReadable
<1> QED
  BY <1>1, BootInvariance, PTL

\* While S3 is offered and the flash has not been updated, a load returns the
\* training in force.
THEOREM OfferIsRecordedHolds == BootSpec => []OfferIsRecorded
<1>1. MInv => OfferIsRecorded
  <2> SUFFICES ASSUME MInv, stage \in {"os", "sleep"}, s3, ~updated
               PROVE  /\ ~Miss
                      /\ bank[active].header.rec.key = fw
                      /\ trained(bank[active].header.rec.payload)
                           = IF stage = "os" THEN setting ELSE image
    BY Zenon DEF OfferIsRecorded
  <2> DEFINE t == IF stage = "os" THEN setting ELSE image
  <2>1. Recorded(t)
    BY Zenon DEF MInv, Offered, Resumable
  <2>2. t \in Training /\ value = [key |-> key, payload |-> t.payload] /\ value # NoValue /\ key = fw
    BY Zenon, <2>1 DEF Recorded
  <2>3. ~Miss /\ value = bank[active].header.rec
    BY Zenon, <2>2 DEF value
  <2> HIDE DEF t
  <2>4. value.key = key /\ value.payload = t.payload
    BY Zenon, <2>2
  <2>5. trained(t.payload) = t
    BY Zenon, <2>2 DEF trained, Training
  <2>6. bank[active].header.rec.key = fw /\ trained(bank[active].header.rec.payload) = t
    BY Zenon, <2>2, <2>3, <2>4, <2>5
  <2> QED
    BY Zenon, <2>3, <2>6 DEF t
<1> QED
  BY <1>1, BootInvariance, PTL

=============================================================================
