------------------------------ MODULE Journal ------------------------------
(***************************************************************************)
(* The two-bank flash journal of memory_cache.rs, which keeps the newest   *)
(* training record across firmware updates, failed writes and power cuts.  *)
(*                                                                         *)
(* A bank is a header, a payload and a commit word.  A program operation   *)
(* may have any part of its effect and then report success or failure; a   *)
(* power cut at any point loses everything but the flash.                  *)
(***************************************************************************)
EXTENDS Integers

CONSTANTS Key,        \* identities of firmware and memory topology
          Payload,    \* training results
          SEQ         \* sequence numbers wrap at SEQ, which is 2^32 in the code

ASSUME JournalAssumption == SEQ \in Nat /\ SEQ >= 4

VARIABLES bank,       \* the two banks
          op,         \* where save is
          rec,        \* the record being saved
          dest,       \* the bank it is written to
          seq,        \* the sequence number it gets
          result      \* what the last save returned

vars == <<bank, op, rec, dest, seq, result>>

Bank == {0, 1}
Record == [key : Key, payload : Payload]

\* The contents of a bank.  A torn part is neither erased nor complete.
Header == [state : {"erased", "torn"}]
            \cup [state : {"full"}, rec : Record, seq : 0..(SEQ - 1)]
Body == [state : {"erased", "torn"}] \cup [state : {"full"}, payload : Payload]

erased == [state |-> "erased"]
torn == [state |-> "torn"]
ErasedBank == [header |-> erased, body |-> erased, commit |-> "ones"]

\* Where the record of the current save goes.
header == [state |-> "full", rec |-> rec, seq |-> seq]
body == [state |-> "full", payload |-> rec.payload]

TypeOK ==
    /\ bank \in [Bank -> [header : Header, body : Body,
                          commit : {"ones", "torn", "zero"}]]
    /\ op \in {"idle", "load", "erase", "header", "payload", "verify", "commit",
               "confirm"}
    /\ rec \in Record
    /\ dest \in Bank
    /\ seq \in 0..(SEQ - 1)
    /\ result \in {"none", "saved", "current", "err"}

-----------------------------------------------------------------------------
(* Reading *)

\* read_bank: the digest covers the header before it and the payload, so only
\* a complete header with its own payload is accepted.
read_bank(b, commit) ==
    /\ bank[b].commit = commit
    /\ bank[b].header.state = "full"
    /\ bank[b].body.state = "full"
    /\ bank[b].body.payload = bank[b].header.rec.payload

Committed(b) == read_bank(b, "zero")

wrapping_inc(s) == IF s = SEQ - 1 THEN 0 ELSE s + 1
wrapping_sub(s, t) == IF s >= t THEN s - t ELSE s - t + SEQ

\* The wrapped difference is positive as a signed integer.
newer(candidate, reference) ==
    LET d == wrapping_sub(candidate, reference) IN 0 < d /\ 2 * d < SEQ

\* The bank load returns when a bank is committed.
active ==
    IF Committed(0) /\ Committed(1)
    THEN IF newer(bank[1].header.seq, bank[0].header.seq) THEN 1 ELSE 0
    ELSE IF Committed(1) THEN 1 ELSE 0

Miss == ~Committed(0) /\ ~Committed(1)

-----------------------------------------------------------------------------
(* Saving *)

Init ==
    /\ bank = [b \in Bank |-> ErasedBank]
    /\ op = "idle"
    /\ rec \in Record
    /\ dest = 0
    /\ seq = 0
    /\ result = "none"

Finish(r) == op' = "idle" /\ result' = r

\* An operation goes on with the next, or reports an error that ends the save.
GoOn(next) == \/ op' = next /\ UNCHANGED result
              \/ Finish("err")

\* save refuses to run on the S3 resume path.
save(r, boot) ==
    /\ op = "idle"
    /\ rec' = r
    /\ IF boot = "S3Resume" THEN Finish("err") ELSE op' = "load" /\ result' = "none"
    /\ UNCHANGED <<bank, dest, seq>>

\* Mutant: the new record replaces the active one in place.
Load_InPlace ==
    /\ op = "load"
    /\ \/ Finish("err") /\ UNCHANGED <<dest, seq>>
       \/ /\ ~Miss /\ bank[active].header.rec = rec
          /\ Finish("current") /\ UNCHANGED <<dest, seq>>
       \/ /\ ~Miss /\ bank[active].header.rec # rec
          /\ dest' = active
          /\ seq' = wrapping_inc(bank[active].header.seq)
          /\ op' = "erase" /\ UNCHANGED result
       \/ /\ Miss
          /\ dest' = 0 /\ seq' = 0
          /\ op' = "erase" /\ UNCHANGED result
    /\ UNCHANGED <<bank, rec>>

\* Mutant: the sequence number saturates instead of wrapping.
Load_Saturating ==
    /\ op = "load"
    /\ \/ Finish("err") /\ UNCHANGED <<dest, seq>>
       \/ /\ ~Miss /\ bank[active].header.rec = rec
          /\ Finish("current") /\ UNCHANGED <<dest, seq>>
       \/ /\ ~Miss /\ bank[active].header.rec # rec
          /\ dest' = 1 - active
          /\ seq' = IF bank[active].header.seq = SEQ - 1 THEN SEQ - 1
                  ELSE bank[active].header.seq + 1
          /\ op' = "erase" /\ UNCHANGED result
       \/ /\ Miss
          /\ dest' = 0 /\ seq' = 0
          /\ op' = "erase" /\ UNCHANGED result
    /\ UNCHANGED <<bank, rec>>

\* A read may fail, which is not a miss.
Load ==
    /\ op = "load"
    /\ \/ Finish("err") /\ UNCHANGED <<dest, seq>>
       \/ /\ ~Miss /\ bank[active].header.rec = rec
          /\ Finish("current") /\ UNCHANGED <<dest, seq>>
       \/ /\ ~Miss /\ bank[active].header.rec # rec
          /\ dest' = 1 - active
          /\ seq' = wrapping_inc(bank[active].header.seq)
          /\ op' = "erase" /\ UNCHANGED result
       \/ /\ Miss
          /\ dest' = 0 /\ seq' = 0
          /\ op' = "erase" /\ UNCHANGED result
    /\ UNCHANGED <<bank, rec>>

Write(b) ==
    /\ bank' = [bank EXCEPT ![dest] = b]
    /\ UNCHANGED <<rec, dest, seq>>

\* An erase that fails may leave any part as it was, erased or torn.  One that
\* succeeds has erased the bank: save does not read an erased bank back.
Erase ==
    /\ op = "erase"
    /\ \/ /\ \E h \in {bank[dest].header, erased, torn},
                p \in {bank[dest].body, erased, torn},
                c \in {bank[dest].commit, "ones", "torn"} :
               Write([header |-> h, body |-> p, commit |-> c])
          /\ Finish("err")
       \/ Write(ErasedBank) /\ op' = "header" /\ UNCHANGED result

\* Programming clears bits: over an erased part it may complete, over any other
\* it leaves what was there or a mixture.
ProgramHeader ==
    /\ op = "header"
    /\ \E h \in {bank[dest].header, torn} \cup IF bank[dest].header = erased
                                               THEN {header} ELSE {} :
         Write([bank[dest] EXCEPT !.header = h])
    /\ GoOn("payload")

ProgramPayload ==
    /\ op = "payload"
    /\ \E p \in {bank[dest].body, torn} \cup IF bank[dest].body = erased
                                             THEN {body} ELSE {} :
         Write([bank[dest] EXCEPT !.body = p])
    /\ GoOn("verify")

\* Mutant: a bad readback starts over.
Verify_Retry ==
    /\ op = "verify"
    /\ \/ read_bank(dest, "ones") /\ bank[dest].header = header /\ GoOn("commit")
       \/ /\ ~(read_bank(dest, "ones") /\ bank[dest].header = header)
          /\ op' = "erase" /\ UNCHANGED result
    /\ UNCHANGED <<bank, rec, dest, seq>>

\* The uncached readback of what was written, before the commit word.
Verify ==
    /\ op = "verify"
    /\ \/ read_bank(dest, "ones") /\ bank[dest].header = header /\ GoOn("commit")
       \/ ~(read_bank(dest, "ones") /\ bank[dest].header = header) /\ Finish("err")
    /\ UNCHANGED <<bank, rec, dest, seq>>

ProgramCommit ==
    /\ op = "commit"
    /\ \E c \in {bank[dest].commit, "torn", "zero"} :
         Write([bank[dest] EXCEPT !.commit = c])
    /\ GoOn("confirm")

\* Mutant: the commit word is not read back.
Confirm_Unread ==
    /\ op = "confirm"
    /\ Finish("saved")
    /\ UNCHANGED <<bank, rec, dest, seq>>

\* The readback of the committed bank, which may itself fail.
Confirm ==
    /\ op = "confirm"
    /\ \/ Committed(dest) /\ Finish("saved")
       \/ Finish("err")
    /\ UNCHANGED <<bank, rec, dest, seq>>

\* The power fails during a save.  What an interrupted operation did to the
\* flash is what a failing one may do.
PowerCut ==
    /\ op # "idle"
    /\ Finish("none")
    /\ UNCHANGED <<bank, rec, dest, seq>>

SaveStep ==
    \/ Load \/ Erase \/ ProgramHeader \/ ProgramPayload \/ Verify
    \/ ProgramCommit \/ Confirm

Next ==
    \/ \E r \in Record, boot \in {"Normal", "S3Resume"} : save(r, boot)
    \/ SaveStep
    \/ PowerCut

Spec == Init /\ [][Next]_vars

\* save keeps running while the power is on.
FairSpec == Spec /\ WF_vars(SaveStep)

-----------------------------------------------------------------------------
(* Properties *)

NoValue == [state |-> "no record"]
value == IF Miss THEN NoValue ELSE bank[active].header.rec
pending == IF op = "idle" THEN NoValue ELSE rec

Cell == INSTANCE AtomicCell WITH Value <- Record

\* The journal implements AtomicCell: a load always returns the last record
\* committed, a save replaces it in one step or not at all, and a save that
\* reports success has replaced it.
CellSpec == Cell!Spec

\* Two committed banks carry consecutive sequence numbers, which is what makes
\* `newer` right across the wrap from u32::MAX to 0.
Consecutive ==
    Committed(0) /\ Committed(1) =>
        wrapping_sub(bank[1].header.seq, bank[0].header.seq) \in {1, SEQ - 1}

\* save's documentation, "Commit into the inactive bank, preserving the active
\* one on any error": no step writes to the bank a load would return.
ActiveKept == [][~Miss => bank'[active] = bank[active]]_vars

\* Every save ends.
SaveEnds == op # "idle" ~> op = "idle"

============================================================================
