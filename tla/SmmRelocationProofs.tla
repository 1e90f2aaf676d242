------------------------ MODULE SmmRelocationProofs ------------------------
(***************************************************************************)
(* The relocation of SMBASE is safe for any number of CPUs, wherever a     *)
(* call fails or times out and however late an SMI is taken.  The          *)
(* argument: a CPU is engaged from the moment it holds the bridge until    *)
(* its SMI has left the default window, which may be long after it gave    *)
(* up waiting.  While some CPU is engaged the bridge is not free, so there *)
(* is only one, and what it published is still there when its callback     *)
(* runs.                                                                   *)
(***************************************************************************)
EXTENDS SmmRelocation, TLAPS

USE HandleAssumption

Engaged(c) == pc[c] \in Holding \/ InWindow(c)

\* The bridge has one owner, and is not free while it has one.
Exclusive ==
    /\ \A c, d \in CPU : Engaged(c) /\ Engaged(d) => c = d
    /\ \A c \in CPU : Engaged(c) => phase # "UNLOCKED" /\ stub

\* What the owner has published stays until its callback has returned.
Published ==
    \A c \in CPU :
        /\ pc[c] \in Publishing \ {"expect"} => expected = c
        /\ pc[c] \in Publishing \ {"expect", "target"} => target = c
        /\ InWindow(c) => expected = c /\ target = c

\* The save state in the window is the one of the CPU whose callback runs.
Callback ==
    \A c \in CPU :
        /\ ~Running(c) => /\ smbase[c] = DEFAULT /\ ~smi[c]
                          /\ saved \in {DEFAULT, c}
        /\ smm[c] = "write" => read[c] = c
        /\ smm[c] = "smrr" => saved = c
        /\ smm[c] \in {"store", "count", "rsm"} /\ code[c] = "OK" => saved = c
        /\ smm[c] = "count" => result = code[c]

\* A CPU that has not sent its SMI has not moved.
Unsent ==
    \A c \in CPU :
        pc[c] \in Publishing \cup {"idle", "lock"} =>
            smbase[c] = DEFAULT /\ ~smi[c] /\ Running(c)

\* A change of `done` is the doing of the callback waited for.
Answered ==
    \A c \in CPU :
        /\ pc[c] = "send" => done = before[c]
        /\ pc[c] = "wait" /\ done # before[c] =>
               /\ ~smi[c] /\ smm[c] \in {"out", "rsm"}
               /\ result = "OK" => IF Running(c) THEN smbase[c] = c ELSE saved = c
        /\ pc[c] \in {"result", "finish"} => ~smi[c] /\ Running(c)
        /\ pc[c] = "result" /\ result = "OK" => smbase[c] = c
        /\ pc[c] = "finish" /\ outcome[c] = "OK" => smbase[c] = c

\* Ok is reported for a CPU that has moved, and an error is not forgotten.
Reported ==
    \A c \in CPU :
        /\ pc[c] = "expired" => outcome[c] \in Error
        /\ pc[c] \in {"report", "returned"} => outcome[c] \in Error \cup {"Ok"}
        /\ pc[c] \in {"report", "returned"} /\ outcome[c] = "Ok" => smbase[c] = c
        /\ pc[c] = "returned" /\ outcome[c] # "Ok" => last_error # NoError

\* Where the boot CPU is in install, and what it has established by then.
Stages ==
    /\ install \in {"start", "open", "stub"} => \A c \in CPU : pc[c] = "idle"
    /\ install \in {"aps", "bsp"} => stub
    /\ install = "bsp" => \A c \in CPU \ {BSP} : pc[c] = "returned"
    /\ install = "aps" => pc[BSP] = "idle"
    /\ \A c \in CPU : pc[c] \notin {"idle", "returned"} => install \in {"aps", "bsp"}
    /\ install \in {"erase", "lock", "enable", "smoke", "Ok"} =>
           \A c \in CPU : pc[c] = "returned" /\ smbase[c] = c
    /\ install = "lock" => smram # "open"
    /\ install \in {"enable", "smoke"} => smram = "locked"
    /\ sources = "permanent" => \A c \in CPU : pc[c] = "returned"

IInv ==
    /\ TypeOK
    /\ OwnSmbase
    /\ SmiOnlyWhenReady
    /\ HiddenOnReturn
    /\ Exclusive
    /\ Published
    /\ Callback
    /\ Unsent
    /\ Answered
    /\ Reported
    /\ Stages

-----------------------------------------------------------------------------
(* The invariant is inductive *)

USE DEF bridge, handler, caller, machine

\* What does not move the installation or an SMBASE leaves their invariants.
LEMMA MachineFrame ==
    ASSUME IInv, UNCHANGED <<install, smram, sources, smbase>>
    PROVE  OwnSmbase' /\ SmiOnlyWhenReady' /\ HiddenOnReturn'
BY Zenon DEF IInv, OwnSmbase, SmiOnlyWhenReady, HiddenOnReturn

\* The owner of the bridge is known from its place, its SMI and its SMBASE.
LEMMA OwnerFrame ==
    ASSUME IInv, UNCHANGED <<pc, phase, stub, expected, target, smi, smbase>>,
           \A c \in CPU : Running(c)' <=> Running(c)
    PROVE  Exclusive' /\ Published'
BY Zenon DEF IInv, Exclusive, Published, Engaged, InWindow

\* A step outside SMM that leaves the result and the SMIs leaves the callback.
LEMMA CallbackFrame ==
    ASSUME IInv, UNCHANGED <<result, smi, smm, read, code, saved, smbase>>
    PROVE  Callback'
BY Zenon DEF IInv, Callback, Running

\* A CPU that has not sent its SMI is known by its place, SMI and SMBASE.
LEMMA UnsentFrame ==
    ASSUME IInv, UNCHANGED <<pc, smi, smbase>>,
           \A c \in CPU : Running(c)' <=> Running(c)
    PROVE  Unsent'
BY Zenon DEF IInv, Unsent

\* Nothing a CPU that waits relies on has changed.
LEMMA SmiFrame ==
    ASSUME IInv, UNCHANGED <<pc, before, outcome, done, result, smi, smm, saved, smbase>>
    PROVE  Unsent' /\ Answered'
BY Zenon DEF IInv, Unsent, Answered, Running

\* What a CPU has reported changes with its place, outcome and SMBASE only.
LEMMA ReportFrame ==
    ASSUME IInv, UNCHANGED <<pc, outcome, last_error, smbase>>
    PROVE  Reported'
BY Zenon DEF IInv, Reported

\* A step in SMM that moves no SMBASE leaves the stages of the installation.
LEMMA StageFrame ==
    ASSUME IInv, UNCHANGED <<install, smram, sources, stub, pc, smbase>>
    PROVE  Stages'
BY Zenon DEF IInv, Stages

\* The new place of one CPU.
LEMMA PlaceStep ==
    ASSUME IInv, NEW k \in CPU, NEW x, pc' = [pc EXCEPT ![k] = x]
    PROVE  pc'[k] = x /\ \A d \in CPU : d # k => pc'[d] = pc[d]
<1>1. pc \in [CPU -> Holding \cup {"idle", "lock", "expired", "report", "returned"}]
  BY Zenon DEF IInv, TypeOK
<1> QED
  BY Zenon, <1>1

\* A CPU that leaves the bridge, or holds it on after its SMI, leaves it to no
\* second owner.
LEMMA HolderFrame ==
    ASSUME IInv, NEW k \in CPU, NEW x, pc' = [pc EXCEPT ![k] = x],
           x \notin Publishing, x \in Holding => pc[k] \in Holding,
           phase' = phase \/ phase' # "UNLOCKED",
           UNCHANGED <<stub, expected, target, smi, smm, smbase>>
    PROVE  Exclusive' /\ Published'
<1>1. pc'[k] = x /\ \A d \in CPU : d # k => pc'[d] = pc[d]
  BY Zenon, PlaceStep
<1>2. \A c \in CPU : InWindow(c)' <=> InWindow(c)
  BY Zenon DEF InWindow, Running
<1>3. \A c \in CPU : Engaged(c)' => Engaged(c)
  BY Zenon, <1>1, <1>2 DEF Engaged
<1>4. Exclusive'
  BY Zenon, <1>3 DEF IInv, Exclusive
<1>5. Published'
  BY Zenon, <1>1, <1>2 DEF IInv, Published
<1> QED
  BY Zenon, <1>4, <1>5

\* When every CPU has returned with its own SMBASE, an SMI finds no CPU in the
\* default window.
LEMMA MovedFrame ==
    ASSUME IInv, \A c \in CPU : pc[c] = "returned" /\ smbase[c] = c,
           UNCHANGED <<pc, smm, smbase>>
    PROVE  Exclusive' /\ Published' /\ Callback' /\ Unsent' /\ Answered'
<1>1. \A c \in CPU : c # DEFAULT
  BY DEF CPU, DEFAULT
<1>2. \A c \in CPU : ~InWindow(c)'
  BY Zenon, <1>1 DEF InWindow
<1>3. "returned" \notin Holding \cup {"idle", "lock", "send", "wait", "result", "finish"}
  BY Zenon DEF Holding, Publishing
<1>4. \A c \in CPU : ~Engaged(c)'
  BY Zenon, <1>2, <1>3 DEF Engaged
<1>5. ASSUME NEW c \in CPU
      PROVE  smm'[c] = "out"
  <2>1. smbase[c] # DEFAULT
    BY Zenon, <1>1
  <2> QED
    BY Zenon, <2>1 DEF IInv, Callback, Running
<1>6. Exclusive'
  BY Zenon, <1>4 DEF Exclusive
<1>7. Published' /\ Unsent'
  BY Zenon, <1>2, <1>3 DEF Published, Unsent, Holding
<1>8. Callback'
  BY Zenon, <1>5 DEF Callback, Running
<1>9. Answered'
  BY Zenon, <1>3 DEF Answered
<1> QED
  BY Zenon, <1>6, <1>7, <1>8, <1>9

\* smram_close leaves SMRAM hidden, and locked if it was.
LEMMA ClosedHides ==
    Closed \in {"closed", "locked"} /\ (smram = "locked" => Closed = "locked")
BY Zenon DEF Closed

\* Before the APs start no CPU has left its place or its SMBASE.
LEMMA Untouched ==
    ASSUME IInv, install \in {"start", "open", "stub"}
    PROVE  /\ \A c \in CPU : pc[c] = "idle" /\ ~InWindow(c) /\ smm[c] = "out"
           /\ sources # "permanent"
<1>1. \A c \in CPU : pc[c] = "idle"
  BY Zenon DEF IInv, Stages
<1>2. \A c \in CPU : ~InWindow(c) /\ smm[c] = "out"
  BY Zenon, <1>1 DEF IInv, Unsent, Running, InWindow
<1>3. BSP \in CPU
  BY DEF BSP, CPU
<1>4. sources # "permanent"
  BY Zenon, <1>1, <1>3 DEF IInv, Stages
<1> QED
  BY Zenon, <1>1, <1>2, <1>4

\* Opening SMRAM, and closing it again when that fails, keeps the invariant.
LEMMA OpenStep ==
    ASSUME IInv, Open
    PROVE  IInv'
<1>1. /\ install = "start"
      /\ \/ install' = "open" /\ smram' = "open"
         \/ install' = "Err" /\ smram' \in {"closed", "locked"}
      /\ UNCHANGED <<sources, stub, bridge, caller, smi, handler>>
  BY Zenon, ClosedHides DEF Open
<1>2. TypeOK'
  BY <1>1 DEF IInv, TypeOK
<1>3. sources # "permanent"
  BY Zenon, <1>1, Untouched
<1>4. OwnSmbase' /\ SmiOnlyWhenReady' /\ HiddenOnReturn'
  BY Zenon, <1>1, <1>3 DEF IInv, OwnSmbase, SmiOnlyWhenReady, HiddenOnReturn
<1>5. Stages'
  BY Zenon, <1>1 DEF IInv, Stages
<1> QED
  BY Zenon, <1>1, <1>2, <1>4, <1>5, OwnerFrame, CallbackFrame, SmiFrame, ReportFrame
     DEF IInv, Running

\* Preparing a fresh bridge keeps the invariant: no CPU is engaged yet.
LEMMA PrepareStep ==
    ASSUME IInv, Prepare
    PROVE  IInv'
<1>1. /\ install = "open"
      /\ \/ install' = "stub" /\ sources' = "quiet"
         \/ /\ install' = "Err" /\ smram' \in {"closed", "locked"}
            /\ UNCHANGED <<sources, expected, target, pair, done, result, last_error>>
      /\ UNCHANGED <<stub, phase, caller, smi, handler>>
  BY Zenon, ClosedHides DEF Prepare
<1>2. TypeOK'
  <2>1. pair' \in BOOLEAN
    BY Zenon DEF IInv, TypeOK, Prepare
  <2>2. smram' \in {"closed", "open", "locked"}
    BY Zenon, ClosedHides DEF IInv, TypeOK, Prepare
  <2> QED
    BY <2>1, <2>2 DEF IInv, TypeOK, Prepare, Result
<1>3. /\ \A c \in CPU : pc[c] = "idle" /\ ~InWindow(c) /\ smm[c] = "out"
      /\ sources # "permanent"
  BY Zenon, <1>1, Untouched
<1>4. OwnSmbase' /\ SmiOnlyWhenReady' /\ HiddenOnReturn'
  BY Zenon, <1>1, <1>3 DEF IInv, OwnSmbase, SmiOnlyWhenReady, HiddenOnReturn
<1>5. "idle" \notin Holding
  BY Zenon DEF Holding, Publishing
<1>6. \A c \in CPU : ~InWindow(c)' /\ ~Engaged(c)' /\ pc'[c] \notin Publishing
  BY Zenon, <1>1, <1>3, <1>5 DEF InWindow, Running, Engaged, Holding
<1>7. Exclusive' /\ Published'
  BY Zenon, <1>6 DEF Exclusive, Published
<1>8. Callback'
  BY Zenon, <1>1, <1>3 DEF Callback, Running
<1>9. Unsent'
  BY Zenon, <1>1, UnsentFrame DEF Running
<1>10. Answered' /\ Reported'
  BY Zenon, <1>1, <1>3 DEF Answered, Reported
<1>11. Stages'
  BY Zenon, <1>1, <1>3 DEF IInv, Stages
<1> QED
  BY Zenon, <1>2, <1>4, <1>7, <1>8, <1>9, <1>10, <1>11 DEF IInv

\* Writing the stub and starting the APs keeps the invariant.
LEMMA InstallStubStep ==
    ASSUME IInv, InstallStub
    PROVE  IInv'
<1>1. /\ install = "stub"
      /\ \/ /\ install' = "aps" /\ stub' = TRUE /\ UNCHANGED smram
            /\ pc' = [c \in CPU |-> IF c = BSP THEN "idle" ELSE "lock"]
         \/ install' = "Err" /\ smram' \in {"closed", "locked"} /\ UNCHANGED <<stub, pc>>
      /\ UNCHANGED <<sources, bridge, before, outcome, smi, handler>>
  BY Zenon, ClosedHides DEF InstallStub
<1>2. /\ \A c \in CPU : pc[c] = "idle" /\ ~InWindow(c) /\ smm[c] = "out"
      /\ sources # "permanent"
  BY Zenon, <1>1, Untouched
<1>3. BSP \in CPU
  BY DEF BSP, CPU
<1>4. /\ \A c \in CPU : pc'[c] \in {"idle", "lock"}
      /\ install' = "aps" => pc'[BSP] = "idle"
      /\ install' # "aps" => UNCHANGED pc
  BY Zenon, <1>1, <1>2, <1>3
<1>5. TypeOK'
  <2>1. stub' \in BOOLEAN
    BY Zenon, <1>1 DEF IInv, TypeOK
  <2>2. pc' \in [CPU -> Holding \cup {"idle", "lock", "expired", "report", "returned"}]
    BY Zenon, <1>1 DEF IInv, TypeOK
  <2> QED
    BY <1>1, <2>1, <2>2 DEF IInv, TypeOK
<1>6. OwnSmbase' /\ SmiOnlyWhenReady' /\ HiddenOnReturn'
  BY Zenon, <1>1, <1>2 DEF IInv, OwnSmbase, SmiOnlyWhenReady, HiddenOnReturn
<1>7. "idle" \notin Holding /\ "lock" \notin Holding
  BY Zenon DEF Holding, Publishing
<1>8. \A c \in CPU : ~InWindow(c)' /\ pc'[c] \notin Holding
  BY Zenon, <1>1, <1>2, <1>4, <1>7 DEF InWindow, Running
<1>9. Exclusive' /\ Published'
  BY Zenon, <1>8 DEF Exclusive, Published, Engaged, Holding
<1>10. Unsent'
  BY Zenon, <1>1, <1>2 DEF IInv, Unsent, Running
<1>11. Answered' /\ Reported'
  BY Zenon, <1>4 DEF Answered, Reported
<1>12. Stages'
  BY Zenon, <1>1, <1>2, <1>4 DEF IInv, Stages
<1> QED
  BY Zenon, <1>1, <1>5, <1>6, <1>9, <1>10, <1>11, <1>12, CallbackFrame DEF IInv

\* The boot CPU's turn keeps the invariant.
LEMMA BspTurnStep ==
    ASSUME IInv, BspTurn
    PROVE  IInv'
<1>1. /\ install = "aps" /\ install' = "bsp" /\ pc' = [pc EXCEPT ![BSP] = "lock"]
      /\ \A c \in CPU \ {BSP} : pc[c] = "returned"
      /\ UNCHANGED <<smram, sources, stub, bridge, before, outcome, smi, handler>>
  BY Zenon DEF BspTurn
<1>2. BSP \in CPU
  BY DEF BSP, CPU
<1>3. pc[BSP] = "idle" /\ stub
  BY Zenon, <1>1 DEF IInv, Stages
<1>4. pc'[BSP] = "lock" /\ \A d \in CPU : d # BSP => pc'[d] = pc[d]
  BY Zenon, <1>1, <1>2, PlaceStep
<1>5. TypeOK'
  <2>1. pc' \in [CPU -> Holding \cup {"idle", "lock", "expired", "report", "returned"}]
    BY Zenon, <1>1 DEF IInv, TypeOK
  <2> QED
    BY <1>1, <2>1 DEF IInv, TypeOK
<1>6. OwnSmbase' /\ SmiOnlyWhenReady' /\ HiddenOnReturn'
  BY Zenon, <1>1 DEF IInv, OwnSmbase, SmiOnlyWhenReady, HiddenOnReturn
<1>7. Exclusive' /\ Published'
  <2>1. "lock" \notin Holding
    BY Zenon DEF Holding, Publishing
  <2>2. "lock" \notin Publishing
    BY Zenon DEF Publishing
  <2> QED
    BY Zenon, <1>1, <1>2, <2>1, <2>2, HolderFrame
<1>8. Unsent'
  BY Zenon, <1>1, <1>2, <1>3, <1>4 DEF IInv, Unsent, Running
<1>9. Answered'
  BY Zenon, <1>1, <1>4 DEF IInv, Answered, Running
<1>10. Reported'
  BY Zenon, <1>1, <1>4 DEF IInv, Reported
<1>11. Stages'
  <2>1. sources # "permanent"
    BY Zenon, <1>2, <1>3 DEF IInv, Stages
  <2> QED
    BY Zenon, <1>1, <1>3, <1>4, <2>1 DEF Stages
<1> QED
  BY Zenon, <1>1, <1>5, <1>6, <1>7, <1>8, <1>9, <1>10, <1>11, CallbackFrame DEF IInv

\* Checking the errors keeps the invariant: without one every CPU has moved.
LEMMA CheckErrorsStep ==
    ASSUME IInv, CheckErrors
    PROVE  IInv'
<1>1. /\ install = "bsp" /\ pc[BSP] = "returned"
      /\ \/ last_error = NoError /\ install' = "erase" /\ UNCHANGED smram
         \/ /\ install' = "Err" /\ smram' \in {"closed", "locked"}
            /\ smram = "locked" => smram' = "locked"
      /\ UNCHANGED <<sources, stub, bridge, caller, smi, handler>>
  BY Zenon, ClosedHides DEF CheckErrors
<1>2. \A c \in CPU : pc[c] = "returned"
  BY Zenon, <1>1 DEF IInv, Stages
<1>3. TypeOK'
  BY <1>1 DEF IInv, TypeOK
<1>4. OwnSmbase' /\ SmiOnlyWhenReady' /\ HiddenOnReturn'
  BY Zenon, <1>1 DEF IInv, OwnSmbase, SmiOnlyWhenReady, HiddenOnReturn
<1>5. last_error = NoError => \A c \in CPU : smbase[c] = c
  BY Zenon, <1>2 DEF IInv, Reported
<1>6. Stages'
  BY Zenon, <1>1, <1>2, <1>5 DEF Stages
<1> QED
  BY Zenon, <1>1, <1>3, <1>4, <1>6, OwnerFrame, CallbackFrame, SmiFrame, ReportFrame
     DEF IInv, Running

\* Erasing the stub, locking SMRAM, enabling the SMI and the smoke test come
\* when every CPU has moved, so nobody is in the default window.
LEMMA LastSteps ==
    ASSUME IInv, Erase \/ LockSmram \/ EnableSmi \/ Smoke
    PROVE  IInv'
<1>1. /\ install \in {"erase", "lock", "enable", "smoke"}
      /\ UNCHANGED <<bridge, caller, handler>>
  BY Zenon DEF Erase, LockSmram, EnableSmi, Smoke
<1>2. \A c \in CPU : pc[c] = "returned" /\ smbase[c] = c
  BY Zenon, <1>1 DEF IInv, Stages
<1>3. Exclusive' /\ Published' /\ Callback' /\ Unsent' /\ Answered'
  BY Zenon, <1>1, <1>2, MovedFrame
<1>4. Reported'
  BY Zenon, <1>1, ReportFrame
<1>5. /\ install' \in {"lock", "enable", "smoke", "Ok", "Err"}
      /\ smram' \in {smram, Closed, "locked"}
      /\ sources' \in {sources, "permanent"}
      /\ stub' \in {stub, FALSE}
  BY Zenon DEF Erase, LockSmram, EnableSmi, Smoke
<1>6. smi' \in [CPU -> BOOLEAN]
  BY Zenon DEF IInv, TypeOK, Erase, LockSmram, EnableSmi, Smoke
<1>7. stub' \in BOOLEAN
  BY Zenon, <1>5 DEF IInv, TypeOK
<1>8. TypeOK'
  BY <1>1, <1>5, <1>6, <1>7, ClosedHides DEF IInv, TypeOK
<1>9. /\ install' = "lock" => smram' # "open"
      /\ install' \in {"enable", "smoke", "Ok"} => smram' = "locked"
      /\ install' = "Err" => smram' # "open"
      /\ smram = "locked" => smram' = "locked"
      /\ sources' = "permanent" => sources = "permanent" \/ smram' = "locked"
  BY Zenon, ClosedHides DEF IInv, Stages, Erase, LockSmram, EnableSmi, Smoke
<1>10. OwnSmbase' /\ SmiOnlyWhenReady' /\ HiddenOnReturn'
  BY Zenon, <1>1, <1>2, <1>9 DEF IInv, OwnSmbase, SmiOnlyWhenReady, HiddenOnReturn
<1>11. Stages'
  BY Zenon, <1>1, <1>2, <1>5, <1>9 DEF Stages
<1> QED
  BY Zenon, <1>3, <1>4, <1>8, <1>10, <1>11 DEF IInv

\* Every step of install on the boot CPU keeps the invariant.
LEMMA InstallerStep ==
    ASSUME IInv, Installer
    PROVE  IInv'
BY Zenon, OpenStep, PrepareStep, InstallStubStep, BspTurnStep, CheckErrorsStep,
   LastSteps DEF Installer


\* finish_relocation frees the bridge only for an owner that has moved.
LEMMA FinishStep ==
    ASSUME IInv, NEW k \in CPU, finish_relocation(k)
    PROVE  IInv'
<1>1. TypeOK'
  BY DEF IInv, TypeOK, Holding, Publishing, Error, NoError, Result, DEFAULT,
     NOBODY, finish_relocation, ErrorOf
<1>2. Exclusive' /\ Published'
  BY DEF IInv, TypeOK, Exclusive, Published, Engaged, InWindow, Running,
     Holding, Publishing, finish_relocation, ErrorOf, Answered
<1>3. Unsent' /\ Answered'
  BY DEF IInv, TypeOK, Unsent, Answered, Running, Publishing,
     finish_relocation, ErrorOf
<1>4. Reported'
  BY DEF IInv, TypeOK, Reported, Error, NoError, finish_relocation, ErrorOf,
     Answered, Result
<1>5. Stages'
  BY DEF IInv, TypeOK, Stages, finish_relocation, ErrorOf
<1> QED
  BY Zenon, <1>1, <1>2, <1>3, <1>4, <1>5, MachineFrame, CallbackFrame DEF IInv,
     finish_relocation, ErrorOf

\* Every step of relocate_one on any CPU keeps the invariant.
LEMMA ClosureStep ==
    ASSUME IInv, NEW k \in CPU, Closure(k)
    PROVE  IInv'
<1>1. CASE Unusable(k)
  <2>1. TypeOK'
    BY <1>1 DEF IInv, TypeOK, Holding, Publishing, Error, NoError, Result,
       DEFAULT, NOBODY, Unusable
  <2>2. Exclusive' /\ Published'
    BY Zenon, <1>1, HolderFrame DEF Holding, Publishing, Unusable
  <2>3. Unsent' /\ Answered'
    BY <1>1 DEF IInv, TypeOK, Unsent, Answered, Running, Publishing, Unusable
  <2>4. Reported'
    BY <1>1 DEF IInv, TypeOK, Reported, Error, NoError, Unusable
  <2>5. Stages'
    BY <1>1 DEF IInv, TypeOK, Stages, Unusable
  <2> QED
    BY Zenon, <1>1, <2>1, <2>2, <2>3, <2>4, <2>5, MachineFrame, CallbackFrame
       DEF IInv, Unusable
<1>2. CASE Lock(k)
  <2>1. TypeOK'
    BY <1>2 DEF IInv, TypeOK, Holding, Publishing, Error, NoError, Result,
       DEFAULT, NOBODY, Lock
  <2>2. Exclusive' /\ Published'
    <3>1. \A c \in CPU : ~Engaged(c)
      BY Zenon, <1>2 DEF IInv, Exclusive, Lock
    <3>2. stub' /\ phase' # "UNLOCKED"
      BY Zenon, <1>2 DEF IInv, Stages, Lock
    <3>3. pc'[k] = "expect" /\ \A d \in CPU : d # k => pc'[d] = pc[d]
      BY Zenon, <1>2, PlaceStep DEF Lock
    <3>4. \A c \in CPU : ~InWindow(c)' /\ (c # k => pc'[c] \notin Holding)
      BY Zenon, <1>2, <3>1, <3>3 DEF Engaged, InWindow, Running, Lock
    <3> QED
      BY Zenon, <3>2, <3>3, <3>4 DEF Exclusive, Published, Engaged, Holding
  <2>3. Unsent' /\ Answered'
    BY <1>2 DEF IInv, TypeOK, Unsent, Answered, Running, Publishing, Lock
  <2>4. Reported'
    BY Zenon, <1>2 DEF IInv, TypeOK, Reported, Error, NoError, Lock
  <2>5. Stages'
    BY <1>2 DEF IInv, TypeOK, Stages, Lock
  <2> QED
    BY Zenon, <1>2, <2>1, <2>2, <2>3, <2>4, <2>5, MachineFrame, CallbackFrame
       DEF IInv, Lock
<1>3. CASE LockExpires(k)
  <2>1. TypeOK'
    BY <1>3 DEF IInv, TypeOK, Holding, Publishing, Error, NoError, Result,
       DEFAULT, NOBODY, LockExpires
  <2>2. Exclusive' /\ Published'
    BY Zenon, <1>3, HolderFrame DEF Holding, Publishing, LockExpires
  <2>3. Unsent' /\ Answered'
    BY <1>3 DEF IInv, TypeOK, Unsent, Answered, Running, Publishing,
       LockExpires
  <2>4. Reported'
    BY <1>3 DEF IInv, TypeOK, Reported, Error, NoError, LockExpires
  <2>5. Stages'
    BY <1>3 DEF IInv, TypeOK, Stages, LockExpires
  <2> QED
    BY Zenon, <1>3, <2>1, <2>2, <2>3, <2>4, <2>5, MachineFrame, CallbackFrame
       DEF IInv, LockExpires
<1>4. CASE PublishExpected(k)
  <2>1. TypeOK'
    BY <1>4 DEF IInv, TypeOK, Holding, Publishing, Error, NoError, Result,
       DEFAULT, NOBODY, PublishExpected
  <2>2. Exclusive' /\ Published'
    BY <1>4 DEF IInv, TypeOK, Exclusive, Published, Engaged, InWindow, Running,
       Holding, Publishing, PublishExpected, Unsent
  <2>3. Unsent' /\ Answered'
    BY <1>4 DEF IInv, TypeOK, Unsent, Answered, Running, Publishing,
       PublishExpected
  <2>4. Reported'
    BY Zenon, <1>4 DEF IInv, TypeOK, Reported, Error, NoError, PublishExpected
  <2>5. Stages'
    BY <1>4 DEF IInv, TypeOK, Stages, PublishExpected
  <2> QED
    BY Zenon, <1>4, <2>1, <2>2, <2>3, <2>4, <2>5, MachineFrame, CallbackFrame
       DEF IInv, PublishExpected
<1>5. CASE PublishTarget(k)
  <2>1. TypeOK'
    BY <1>5 DEF IInv, TypeOK, Holding, Publishing, Error, NoError, Result,
       DEFAULT, NOBODY, PublishTarget
  <2>2. Exclusive' /\ Published'
    BY <1>5 DEF IInv, TypeOK, Exclusive, Published, Engaged, InWindow, Running,
       Holding, Publishing, PublishTarget, Unsent
  <2>3. Unsent' /\ Answered'
    BY <1>5 DEF IInv, TypeOK, Unsent, Answered, Running, Publishing,
       PublishTarget
  <2>4. Reported'
    BY Zenon, <1>5 DEF IInv, TypeOK, Reported, Error, NoError, PublishTarget
  <2>5. Stages'
    BY <1>5 DEF IInv, TypeOK, Stages, PublishTarget
  <2> QED
    BY Zenon, <1>5, <2>1, <2>2, <2>3, <2>4, <2>5, MachineFrame, CallbackFrame
       DEF IInv, PublishTarget
<1>6. CASE PublishPair(k)
  <2>1. TypeOK'
    BY <1>6 DEF IInv, TypeOK, Holding, Publishing, Error, NoError, Result,
       DEFAULT, NOBODY, PublishPair
  <2>2. Exclusive' /\ Published'
    BY <1>6 DEF IInv, TypeOK, Exclusive, Published, Engaged, InWindow, Running,
       Holding, Publishing, PublishPair
  <2>3. Unsent' /\ Answered'
    BY <1>6 DEF IInv, TypeOK, Unsent, Answered, Running, Publishing,
       PublishPair
  <2>4. Reported'
    BY Zenon, <1>6 DEF IInv, TypeOK, Reported, Error, NoError, PublishPair
  <2>5. Stages'
    BY <1>6 DEF IInv, TypeOK, Stages, PublishPair
  <2> QED
    BY Zenon, <1>6, <2>1, <2>2, <2>3, <2>4, <2>5, MachineFrame, CallbackFrame
       DEF IInv, PublishPair
<1>7. CASE ClearResult(k)
  <2>1. TypeOK'
    BY <1>7 DEF IInv, TypeOK, Holding, Publishing, Error, NoError, Result,
       DEFAULT, NOBODY, ClearResult
  <2>2. Exclusive' /\ Published'
    BY <1>7 DEF IInv, TypeOK, Exclusive, Published, Engaged, InWindow, Running,
       Holding, Publishing, ClearResult
  <2>3. Callback'
    BY Zenon, <1>7 DEF IInv, TypeOK, Callback, Running, ClearResult, Exclusive,
       Engaged, InWindow, Holding, Publishing, Unsent
  <2>4. Unsent' /\ Answered'
    BY <1>7 DEF IInv, TypeOK, Unsent, Answered, Running, Publishing,
       ClearResult, Exclusive, Engaged, InWindow, Holding
  <2>5. Reported'
    BY Zenon, <1>7 DEF IInv, TypeOK, Reported, Error, NoError, ClearResult
  <2>6. Stages'
    BY <1>7 DEF IInv, TypeOK, Stages, ClearResult
  <2> QED
    BY Zenon, <1>7, <2>1, <2>2, <2>3, <2>4, <2>5, <2>6, MachineFrame DEF IInv,
       ClearResult
<1>8. CASE send_smi_self(k)
  <2>1. TypeOK'
    BY <1>8 DEF IInv, TypeOK, Holding, Publishing, Error, NoError, Result,
       DEFAULT, NOBODY, send_smi_self
  <2>2. Exclusive' /\ Published'
    BY <1>8 DEF IInv, TypeOK, Exclusive, Published, Engaged, InWindow, Running,
       Holding, Publishing, send_smi_self, Unsent
  <2>3. Callback'
    BY <1>8 DEF IInv, TypeOK, Callback, Running, send_smi_self, Unsent,
       Publishing
  <2>4. Unsent' /\ Answered'
    BY <1>8 DEF IInv, TypeOK, Unsent, Answered, Running, Publishing,
       send_smi_self
  <2>5. Reported'
    BY Zenon, <1>8 DEF IInv, TypeOK, Reported, Error, NoError, send_smi_self
  <2>6. Stages'
    BY <1>8 DEF IInv, TypeOK, Stages, send_smi_self
  <2> QED
    BY Zenon, <1>8, <2>1, <2>2, <2>3, <2>4, <2>5, <2>6, MachineFrame DEF IInv,
       send_smi_self
<1>9. CASE SeeDone(k)
  <2>1. TypeOK'
    BY <1>9 DEF IInv, TypeOK, Holding, Publishing, Error, NoError, Result,
       DEFAULT, NOBODY, SeeDone
  <2>2. Exclusive' /\ Published'
    BY Zenon, <1>9, HolderFrame DEF Holding, Publishing, SeeDone
  <2>3. Unsent' /\ Answered'
    BY <1>9 DEF IInv, TypeOK, Unsent, Answered, Running, Publishing, SeeDone
  <2>4. Reported'
    BY Zenon, <1>9 DEF IInv, TypeOK, Reported, Error, NoError, SeeDone
  <2>5. Stages'
    BY <1>9 DEF IInv, TypeOK, Stages, SeeDone
  <2> QED
    BY Zenon, <1>9, <2>1, <2>2, <2>3, <2>4, <2>5, MachineFrame, CallbackFrame
       DEF IInv, SeeDone
<1>10. CASE LoadResult(k)
  <2>1. TypeOK'
    BY <1>10 DEF IInv, TypeOK, Holding, Publishing, Error, NoError, Result,
       DEFAULT, NOBODY, LoadResult
  <2>2. Exclusive' /\ Published'
    BY Zenon, <1>10, HolderFrame DEF Holding, Publishing, LoadResult
  <2>3. Unsent' /\ Answered'
    BY <1>10 DEF IInv, TypeOK, Unsent, Answered, Running, Publishing,
       LoadResult
  <2>4. Reported'
    BY <1>10 DEF IInv, TypeOK, Reported, Error, NoError, LoadResult
  <2>5. Stages'
    BY <1>10 DEF IInv, TypeOK, Stages, LoadResult
  <2> QED
    BY Zenon, <1>10, <2>1, <2>2, <2>3, <2>4, <2>5, MachineFrame, CallbackFrame
       DEF IInv, LoadResult
<1>11. CASE DoneExpires(k)
  <2>1. TypeOK'
    BY <1>11 DEF IInv, TypeOK, Holding, Publishing, Error, NoError, Result,
       DEFAULT, NOBODY, DoneExpires
  <2>2. Exclusive' /\ Published'
    BY Zenon, <1>11, HolderFrame DEF Holding, Publishing, DoneExpires
  <2>3. Unsent' /\ Answered'
    BY <1>11 DEF IInv, TypeOK, Unsent, Answered, Running, Publishing,
       DoneExpires
  <2>4. Reported'
    BY <1>11 DEF IInv, TypeOK, Reported, Error, NoError, DoneExpires
  <2>5. Stages'
    BY <1>11 DEF IInv, TypeOK, Stages, DoneExpires
  <2> QED
    BY Zenon, <1>11, <2>1, <2>2, <2>3, <2>4, <2>5, MachineFrame, CallbackFrame
       DEF IInv, DoneExpires
<1>12. CASE Poison(k)
  <2>1. TypeOK'
    BY <1>12 DEF IInv, TypeOK, Holding, Publishing, Error, NoError, Result,
       DEFAULT, NOBODY, Poison
  <2>2. Exclusive' /\ Published'
    BY Zenon, <1>12, HolderFrame DEF Holding, Publishing, Poison
  <2>3. Unsent' /\ Answered'
    BY <1>12 DEF IInv, TypeOK, Unsent, Answered, Running, Publishing, Poison
  <2>4. Reported'
    BY Zenon, <1>12 DEF IInv, TypeOK, Reported, Error, NoError, Poison
  <2>5. Stages'
    BY <1>12 DEF IInv, TypeOK, Stages, Poison
  <2> QED
    BY Zenon, <1>12, <2>1, <2>2, <2>3, <2>4, <2>5, MachineFrame, CallbackFrame
       DEF IInv, Poison
<1>13. CASE Report(k)
  <2>1. TypeOK'
    <3>1. last_error' \in Error \cup {NoError}
      BY Zenon, <1>13 DEF IInv, TypeOK, Reported, Report
    <3>2. pc' \in [CPU -> Holding \cup {"idle", "lock", "expired", "report", "returned"}]
      BY Zenon, <1>13 DEF IInv, TypeOK, Report
    <3> QED
      BY <1>13, <3>1, <3>2 DEF IInv, TypeOK, Report
  <2>2. Exclusive' /\ Published'
    BY Zenon, <1>13, HolderFrame DEF Holding, Publishing, Report
  <2>3. Unsent' /\ Answered'
    BY <1>13 DEF IInv, TypeOK, Unsent, Answered, Running, Publishing, Report
  <2>4. Reported'
    BY <1>13 DEF IInv, TypeOK, Reported, Error, NoError, Report
  <2>5. Stages'
    BY <1>13 DEF IInv, TypeOK, Stages, Report
  <2> QED
    BY Zenon, <1>13, <2>1, <2>2, <2>3, <2>4, <2>5, MachineFrame, CallbackFrame
       DEF IInv, Report
<1> QED
  BY Zenon, <1>1, <1>2, <1>3, <1>4, <1>5, <1>6, <1>7, <1>8, <1>9, <1>10, <1>11,
     <1>12, <1>13, FinishStep DEF Closure

\* A CPU in the callback is alone: the bridge is its own, and every other CPU
\* runs outside the window and does not hold the bridge.
LEMMA Alone ==
    ASSUME IInv, NEW k \in CPU, ~Running(k)
    PROVE  /\ smbase[k] = DEFAULT /\ ~smi[k] /\ expected = k /\ target = k
           /\ saved \in {DEFAULT, k}
           /\ pc[k] \notin Publishing \cup {"idle", "lock", "result", "finish"}
           /\ \A d \in CPU \ {k} : Running(d) /\ pc[d] \notin Holding
<1>1. smbase[k] = DEFAULT /\ ~smi[k] /\ saved \in {DEFAULT, k}
  BY Zenon DEF IInv, Callback
<1>2. InWindow(k)
  BY Zenon, <1>1 DEF InWindow
<1>3. expected = k /\ target = k
  BY Zenon, <1>2 DEF IInv, Published
<1>4. pc[k] \notin Publishing \cup {"idle", "lock", "result", "finish"}
  BY Zenon DEF IInv, Unsent, Answered
<1>5. ASSUME NEW d \in CPU, d # k
      PROVE  ~Engaged(d)
  BY Zenon, <1>2, <1>5 DEF IInv, Exclusive, Engaged
<1>6. ASSUME NEW d \in CPU, d # k
      PROVE  Running(d) /\ pc[d] \notin Holding
  <2>1. Running(d) \/ smbase[d] = DEFAULT
    BY Zenon DEF IInv, Callback
  <2> QED
    BY Zenon, <1>5, <1>6, <2>1 DEF Engaged, InWindow
<1> QED
  BY Zenon, <1>1, <1>3, <1>4, <1>6

\* A step of the callback before it counts itself done disturbs nothing but the
\* state of the callback.
LEMMA InsideFrame ==
    ASSUME IInv, NEW k \in CPU, NEW x, x # "out", smm[k] \notin {"out", "rsm"},
           smm' = [smm EXCEPT ![k] = x],
           UNCHANGED <<install, smram, sources, stub, phase, expected, target, done,
                       last_error, pc, before, outcome, smi, smbase>>
    PROVE  /\ OwnSmbase' /\ SmiOnlyWhenReady' /\ HiddenOnReturn' /\ Exclusive'
           /\ Published' /\ Unsent' /\ Answered' /\ Reported' /\ Stages'
<1>1. smm \in [CPU -> {"out", "check", "load", "write", "smrr", "store", "count",
                       "rsm"}]
  BY Zenon DEF IInv, TypeOK
<1>2. \A c \in CPU : Running(c)' <=> Running(c)
  BY Zenon, <1>1 DEF Running
<1>3. OwnSmbase' /\ SmiOnlyWhenReady' /\ HiddenOnReturn' /\ Reported' /\ Stages'
  BY Zenon, MachineFrame, ReportFrame, StageFrame
<1>4. Exclusive' /\ Published'
  BY Zenon, <1>2, OwnerFrame
<1>5. Unsent'
  BY Zenon, <1>2, UnsentFrame
<1>6. ASSUME NEW c \in CPU
      PROVE  /\ pc[c] \notin {"send", "result", "finish"}
             /\ pc[c] = "wait" => done = before[c]
  <2>1. CASE c = k
    <3>1. ~Running(k)
      BY Zenon DEF Running
    <3>2. pc[k] \notin {"send", "result", "finish"}
      BY Zenon, <3>1, Alone DEF Publishing
    <3> QED
      BY Zenon, <2>1, <3>2 DEF IInv, Answered
  <2>2. CASE c # k
    <3>1. ~Running(k)
      BY Zenon DEF Running
    <3> QED
      BY Zenon, <2>2, <3>1, Alone DEF Holding, Publishing
  <2> QED
    BY Zenon, <2>1, <2>2
<1>7. Answered'
  BY Zenon, <1>6 DEF Answered
<1> QED
  BY Zenon, <1>3, <1>4, <1>5, <1>7

\* Taking an SMI keeps the invariant: with SMBASE still at its default the CPU
\* stays in the window, and otherwise it never was there.
LEMMA TakeSmiStep ==
    ASSUME IInv, NEW k \in CPU, TakeSmi(k)
    PROVE  IInv'
<1>0. /\ smm \in [CPU -> {"out", "check", "load", "write", "smrr", "store", "count",
                          "rsm"}]
      /\ smi \in [CPU -> BOOLEAN]
  BY Zenon DEF IInv, TypeOK
<1>1. TypeOK'
  <2>1. smm' \in [CPU -> {"out", "check", "load", "write", "smrr", "store", "count",
                          "rsm"}]
    BY Zenon, <1>0 DEF TakeSmi
  <2>2. smi' \in [CPU -> BOOLEAN]
    BY Zenon, <1>0 DEF TakeSmi
  <2>3. saved' \in CPU \cup {DEFAULT}
    BY Zenon DEF IInv, TypeOK, TakeSmi
  <2> QED
    BY <2>1, <2>2, <2>3 DEF IInv, TypeOK, TakeSmi
<1>2. \A c \in CPU : c # k => smi'[c] = smi[c] /\ smm'[c] = smm[c]
  BY Zenon, <1>0 DEF TakeSmi
<1>3. /\ smi[k] /\ ~smi'[k] /\ smm[k] = "out"
      /\ smbase[k] = DEFAULT => smm'[k] = "check" /\ saved' = DEFAULT
      /\ smbase[k] # DEFAULT => smm'[k] = "out" /\ saved' = saved
  BY Zenon, <1>0 DEF TakeSmi, Running
<1>4. UNCHANGED <<pc, before, outcome, phase, stub, expected, target, done, result,
                  read, code, smbase>>
  BY Zenon DEF TakeSmi
<1>5. \A c \in CPU : InWindow(c)' <=> InWindow(c)
  BY Zenon, <1>2, <1>3, <1>4 DEF InWindow, Running
<1>6. Exclusive' /\ Published'
  BY Zenon, <1>4, <1>5 DEF IInv, Exclusive, Published, Engaged
<1>7. pc[k] \notin Publishing \cup {"idle", "lock", "result", "finish"}
  BY Zenon, <1>3 DEF IInv, Unsent, Answered
<1>8. ASSUME NEW d \in CPU, d # k, smbase[k] = DEFAULT
      PROVE  Running(d) /\ pc[d] \notin Holding
  <2>1. InWindow(k)
    BY Zenon, <1>3, <1>8 DEF InWindow
  <2>2. ~Engaged(d)
    BY Zenon, <1>8, <2>1 DEF IInv, Exclusive, Engaged
  <2>3. Running(d) \/ smbase[d] = DEFAULT
    BY Zenon DEF IInv, Callback
  <2> QED
    BY Zenon, <2>2, <2>3 DEF Engaged, InWindow
<1>9. Callback'
  <2>1. CASE smbase[k] = DEFAULT
    <3>1. ASSUME NEW d \in CPU, d # k PROVE smm'[d] = "out"
      BY Zenon, <1>2, <1>8, <2>1, <3>1 DEF Running
    <3> QED
      BY Zenon, <1>3, <1>4, <2>1, <3>1 DEF Callback, Running
  <2>2. CASE smbase[k] # DEFAULT
    <3>1. \A c \in CPU : smm'[c] = smm[c]
      BY Zenon, <1>2, <1>3, <2>2
    <3>2. \A c \in CPU : ~Running(c) => c # k
      BY Zenon, <1>3 DEF Running
    <3>3. saved' = saved
      BY Zenon, <1>3, <2>2
    <3> QED
      BY Zenon, <1>2, <1>4, <3>1, <3>2, <3>3 DEF IInv, Callback, Running
  <2> QED
    BY Zenon, <2>1, <2>2
<1>10. Unsent'
  BY Zenon, <1>2, <1>4, <1>7 DEF IInv, Unsent, Running
<1>11. Answered'
  <2>1. ASSUME NEW c \in CPU, c # k, pc[c] \in Holding
        PROVE  saved' = saved
    BY Zenon, <1>3, <1>8, <2>1
  <2>2. pc[k] = "wait" => done = before[k]
    BY Zenon, <1>3 DEF IInv, Answered
  <2>3. pc[k] \notin {"send", "result", "finish"}
    BY Zenon, <1>7 DEF Publishing
  <2>4. \A c \in CPU : pc[c] \in {"send", "wait", "result", "finish"} =>
                           pc[c] \in Holding
    BY Zenon DEF Holding, Publishing
  <2> QED
    BY Zenon, <1>2, <1>4, <2>1, <2>2, <2>3, <2>4 DEF IInv, Answered, Running
<1>12. OwnSmbase' /\ SmiOnlyWhenReady' /\ HiddenOnReturn' /\ Reported' /\ Stages'
  BY Zenon, MachineFrame, ReportFrame, StageFrame DEF TakeSmi
<1> QED
  BY Zenon, <1>1, <1>6, <1>9, <1>10, <1>11, <1>12 DEF IInv

\* Every step of the callback up to the store of its result keeps the invariant.
LEMMA InsideStep ==
    ASSUME IInv, NEW k \in CPU,
           \/ CheckCpu(k) \/ LoadTarget(k) \/ WriteSmbase(k) \/ ProgramSmrr(k)
           \/ StoreResult(k)
    PROVE  IInv'
<1> DEFINE Place == {"out", "check", "load", "write", "smrr", "store", "count", "rsm"}
<1>0. /\ smm \in [CPU -> Place] /\ code \in [CPU -> Result]
      /\ read \in [CPU -> CPU \cup {DEFAULT}]
  BY Zenon DEF IInv, TypeOK
<1>1. smm[k] \in {"check", "load", "write", "smrr", "store"}
  BY Zenon DEF CheckCpu, LoadTarget, WriteSmbase, ProgramSmrr, StoreResult
<1>2. ~Running(k)
  BY Zenon, <1>1 DEF Running
<1>3. PICK x \in {"load", "write", "smrr", "store", "count"} :
          smm' = [smm EXCEPT ![k] = x]
  BY Zenon DEF CheckCpu, LoadTarget, WriteSmbase, ProgramSmrr, StoreResult, Finish
<1>4. smm' \in [CPU -> Place] /\ smm'[k] = x
  BY Zenon, <1>0, <1>3
<1>5. ASSUME NEW d \in CPU, d # k
      PROVE  smm'[d] = "out"
  <2>1. Running(d)
    BY Zenon, <1>2, <1>5, Alone
  <2> QED
    BY Zenon, <1>0, <1>3, <1>5, <2>1 DEF Running
<1>6. UNCHANGED <<install, smram, sources, stub, phase, expected, target, pair, done,
                  last_error, pc, before, outcome, smi, smbase>>
  BY Zenon DEF CheckCpu, LoadTarget, WriteSmbase, ProgramSmrr, StoreResult
<1>7. /\ OwnSmbase' /\ SmiOnlyWhenReady' /\ HiddenOnReturn' /\ Exclusive'
      /\ Published' /\ Unsent' /\ Answered' /\ Reported' /\ Stages'
  <2>1. x # "out" /\ smm[k] \notin {"out", "rsm"}
    BY Zenon, <1>1, <1>3
  <2> QED
    BY Zenon, <1>3, <1>6, <2>1, InsideFrame
<1>8. /\ smm[k] = "write" => read[k] = k
      /\ smm[k] = "smrr" => saved = k
      /\ smm[k] = "store" /\ code[k] = "OK" => saved = k
      /\ smbase[k] = DEFAULT /\ ~smi[k] /\ saved \in {DEFAULT, k}
      /\ expected = k /\ target = k
  BY Zenon, <1>2, Alone DEF IInv, Callback
<1>9. /\ code' \in [CPU -> Result] /\ read' \in [CPU -> CPU \cup {DEFAULT}]
      /\ result' \in Result /\ saved' \in {DEFAULT, k}
      /\ x = "write" => read'[k] = k
      /\ x = "smrr" => saved' = k
      /\ x \in {"store", "count"} /\ code'[k] = "OK" => saved' = k
      /\ x = "count" => result' = code'[k]
  <2>1. CASE CheckCpu(k)
    <3>1. result \in Result
      BY Zenon DEF IInv, TypeOK
    <3> QED
      BY Zenon, <1>0, <1>4, <1>8, <2>1, <3>1 DEF CheckCpu, Finish, Result
  <2>2. CASE LoadTarget(k)
    <3>1. result \in Result
      BY Zenon DEF IInv, TypeOK
    <3> QED
      BY Zenon, <1>0, <1>4, <1>8, <2>2, <3>1 DEF LoadTarget, Result
  <2>3. CASE WriteSmbase(k)
    <3>1. result \in Result
      BY Zenon DEF IInv, TypeOK
    <3> QED
      BY <1>0, <1>4, <1>8, <2>3, <3>1 DEF WriteSmbase, Finish, Result
  <2>4. CASE ProgramSmrr(k)
    <3>1. result \in Result
      BY Zenon DEF IInv, TypeOK
    <3> QED
      BY <1>0, <1>4, <1>8, <2>4, <3>1 DEF ProgramSmrr, Finish, Result
  <2>5. CASE StoreResult(k)
    <3>1. result \in Result
      BY Zenon DEF IInv, TypeOK
    <3> QED
      BY Zenon, <1>0, <1>4, <1>8, <2>5, <3>1 DEF StoreResult, Result
  <2> QED
    BY Zenon, <2>1, <2>2, <2>3, <2>4, <2>5
<1>10. TypeOK'
  BY <1>4, <1>6, <1>9 DEF IInv, TypeOK
<1>11. Callback'
  BY <1>3, <1>4, <1>5, <1>6, <1>8, <1>9 DEF Callback, Running
<1> QED
  BY Zenon, <1>7, <1>10, <1>11 DEF IInv

\* Counting the callback done keeps the invariant: by then its result is stored.
LEMMA CountDoneStep ==
    ASSUME IInv, NEW k \in CPU, CountDone(k)
    PROVE  IInv'
<1> DEFINE Place == {"out", "check", "load", "write", "smrr", "store", "count", "rsm"}
<1>0. smm \in [CPU -> Place] /\ done \in Nat /\ before \in [CPU -> Nat]
  BY Zenon DEF IInv, TypeOK
<1>1. smm[k] = "count" /\ smm' = [smm EXCEPT ![k] = "rsm"]
  BY Zenon DEF CountDone
<1>2. ~Running(k)
  BY Zenon, <1>1 DEF Running
<1>3. /\ smm' \in [CPU -> Place] /\ smm'[k] = "rsm"
      /\ \A c \in CPU : Running(c)' <=> Running(c)
      /\ \A d \in CPU \ {k} : smm'[d] = smm[d]
  BY Zenon, <1>0, <1>1 DEF Running
<1>4. done' \in Nat
  BY <1>0 DEF CountDone
<1>5. UNCHANGED <<install, smram, sources, stub, phase, expected, target, pair, result,
                  last_error, pc, before, outcome, smi, read, code, saved, smbase>>
  BY Zenon DEF CountDone
<1>6. TypeOK'
  BY <1>3, <1>4, <1>5 DEF IInv, TypeOK
<1>7. OwnSmbase' /\ SmiOnlyWhenReady' /\ HiddenOnReturn' /\ Reported' /\ Stages'
  BY Zenon, <1>5, MachineFrame, ReportFrame, StageFrame
<1>8. Exclusive' /\ Published' /\ Unsent'
  BY Zenon, <1>3, <1>5, OwnerFrame, UnsentFrame
<1>9. /\ code[k] = "OK" => saved = k
      /\ result = code[k] /\ ~smi[k]
  BY Zenon, <1>1, <1>2, Alone DEF IInv, Callback
<1>10. \A d \in CPU \ {k} : smm'[d] = "out"
  BY Zenon, <1>2, <1>3, Alone DEF Running
<1>11. Callback'
  BY Zenon, <1>3, <1>5, <1>9, <1>10 DEF IInv, Callback, Running
<1>12. Answered'
  <2>1. pc[k] \notin {"send", "result", "finish"}
    BY Zenon, <1>2, Alone DEF Publishing
  <2>2. \A d \in CPU \ {k} : pc[d] \notin {"send", "wait", "result", "finish"}
    BY Zenon, <1>2, Alone DEF Holding, Publishing
  <2> QED
    BY Zenon, <1>3, <1>5, <1>9, <2>1, <2>2 DEF Answered, Running
<1> QED
  BY Zenon, <1>6, <1>7, <1>8, <1>11, <1>12 DEF IInv

\* Leaving the callback keeps the invariant: the CPU leaves with its own SMBASE,
\* or is still at the default one and then has not been told OK.
LEMMA RsmStep ==
    ASSUME IInv, NEW k \in CPU, Rsm(k)
    PROVE  IInv'
<1> DEFINE Place == {"out", "check", "load", "write", "smrr", "store", "count", "rsm"}
<1>0. smm \in [CPU -> Place] /\ smbase \in [CPU -> CPU \cup {DEFAULT}]
  BY Zenon DEF IInv, TypeOK
<1>1. /\ smm[k] = "rsm" /\ smm' = [smm EXCEPT ![k] = "out"]
      /\ smbase' = [smbase EXCEPT ![k] = saved]
  BY Zenon DEF Rsm
<1>2. ~Running(k)
  BY Zenon, <1>1 DEF Running
<1>3. /\ smbase[k] = DEFAULT /\ ~smi[k] /\ expected = k /\ target = k
      /\ saved \in {DEFAULT, k}
      /\ pc[k] \notin Publishing \cup {"idle", "lock", "result", "finish"}
      /\ \A d \in CPU \ {k} : Running(d) /\ pc[d] \notin Holding
  BY Zenon, <1>2, Alone
<1>4. /\ smm' \in [CPU -> Place] /\ smbase' \in [CPU -> CPU \cup {DEFAULT}]
      /\ smbase'[k] = saved
      /\ \A d \in CPU \ {k} : smbase'[d] = smbase[d]
      /\ \A c \in CPU : smm'[c] = "out"
  BY Zenon, <1>0, <1>1, <1>3 DEF Running
<1>5. UNCHANGED <<install, smram, sources, stub, phase, expected, target, pair, done,
                  result, last_error, pc, before, outcome, smi, read, code, saved>>
  BY Zenon DEF Rsm
<1>6. TypeOK'
  BY <1>4, <1>5 DEF IInv, TypeOK
<1>7. OwnSmbase' /\ SmiOnlyWhenReady' /\ HiddenOnReturn'
  <2>1. sources # "permanent"
    BY <1>3 DEF IInv, SmiOnlyWhenReady, CPU, BSP, DEFAULT
  <2> QED
    BY Zenon, <1>3, <1>4, <1>5, <2>1 DEF IInv, OwnSmbase, SmiOnlyWhenReady,
       HiddenOnReturn
<1>8. Exclusive' /\ Published'
  <2>1. \A c \in CPU : Engaged(c)' => Engaged(c)
    BY Zenon, <1>3, <1>4, <1>5 DEF Engaged, InWindow, Running
  <2>2. \A c \in CPU : InWindow(c)' => InWindow(c)
    BY Zenon, <1>3, <1>4, <1>5 DEF InWindow, Running
  <2> QED
    BY Zenon, <1>5, <2>1, <2>2 DEF IInv, Exclusive, Published
<1>9. Callback'
  BY Zenon, <1>4 DEF Callback, Running
<1>10. Unsent'
  BY Zenon, <1>3, <1>4, <1>5 DEF IInv, Unsent, Running
<1>11. Answered'
  <2>1. \A d \in CPU \ {k} : pc[d] \notin {"send", "wait", "result", "finish"}
    BY Zenon, <1>3 DEF Holding, Publishing
  <2>2. pc[k] \notin {"send", "result", "finish"}
    BY Zenon, <1>3 DEF Publishing
  <2>3. pc[k] = "wait" /\ done # before[k] /\ result = "OK" => saved = k
    BY Zenon, <1>2 DEF IInv, Answered
  <2> QED
    BY Zenon, <1>3, <1>4, <1>5, <2>1, <2>2, <2>3 DEF Answered, Running
<1>12. ASSUME NEW c \in CPU, smbase[c] = c
       PROVE  smbase'[c] = c
  <2>1. c # k
    BY <1>3, <1>12 DEF CPU, DEFAULT
  <2> QED
    BY Zenon, <1>4, <1>12, <2>1
<1>13. Reported' /\ Stages'
  BY Zenon, <1>5, <1>12 DEF IInv, Reported, Stages
<1> QED
  BY Zenon, <1>6, <1>7, <1>8, <1>9, <1>10, <1>11, <1>13 DEF IInv

\* Taking an SMI and every step of the callback keep the invariant.
LEMMA HandlerStep ==
    ASSUME IInv, NEW k \in CPU, TakeSmi(k) \/ Handler(k)
    PROVE  IInv'
BY Zenon, TakeSmiStep, InsideStep, CountDoneStep, RsmStep DEF Handler

\* The invariant holds before the installation.
LEMMA InitInv == Init => IInv
<1>1. Init => stub \in BOOLEAN /\ pair \in BOOLEAN
  BY Zenon DEF Init
<1>2. Init => TypeOK
  BY <1>1 DEF Init, TypeOK, Holding, Publishing, Error, NoError, Result, DEFAULT, NOBODY
<1>3. Init => OwnSmbase /\ SmiOnlyWhenReady /\ HiddenOnReturn
  BY Zenon DEF Init, OwnSmbase, SmiOnlyWhenReady, HiddenOnReturn
<1>4. Init => Exclusive /\ Published /\ Callback
  BY DEF Init, Exclusive, Published, Callback, Engaged, InWindow, Running, Holding,
     Publishing
<1>5. Init => Unsent /\ Answered /\ Reported /\ Stages
  BY DEF Init, Unsent, Answered, Reported, Stages, Running, Publishing
<1> QED
  BY Zenon, <1>2, <1>3, <1>4, <1>5 DEF IInv

\* A chipset SMI reaches CPUs that have all moved.
LEMMA ChipsetStep ==
    ASSUME IInv, ChipsetSmi
    PROVE  IInv'
<1>1. \A c \in CPU : pc[c] = "returned" /\ smbase[c] = c
  BY Zenon DEF IInv, Stages, SmiOnlyWhenReady, ChipsetSmi
<1>2. Exclusive' /\ Published' /\ Callback' /\ Unsent' /\ Answered'
  BY Zenon, <1>1, MovedFrame DEF ChipsetSmi
<1>3. smi' \in [CPU -> BOOLEAN]
  BY Zenon DEF ChipsetSmi
<1>4. TypeOK'
  BY <1>3 DEF IInv, TypeOK, ChipsetSmi
<1> QED
  BY Zenon, <1>2, <1>4, MachineFrame, ReportFrame, StageFrame DEF IInv, ChipsetSmi

\* The invariant is inductive.
LEMMA NextInv == IInv /\ [Next]_vars => IInv'
<1> SUFFICES ASSUME IInv, [Next]_vars
             PROVE  IInv'
  OBVIOUS
<1>1. CASE UNCHANGED vars
  <2>1. TypeOK'
    BY <1>1 DEF IInv, TypeOK, vars
  <2> QED
    BY Zenon, <1>1, <2>1, MachineFrame, OwnerFrame, CallbackFrame, SmiFrame,
       ReportFrame, StageFrame DEF IInv, Running, vars
<1> QED
  BY Zenon, <1>1, InstallerStep, ClosureStep, HandlerStep, ChipsetStep DEF Next

\* The strengthened invariant holds in every state of an installation.
THEOREM Invariance == Spec => []IInv
BY InitInv, NextInv, PTL DEF Spec

-----------------------------------------------------------------------------
(* What follows from it *)

\* Every variable of the installation stays in its type, on any machine.
THEOREM TypeSafety == Spec => []TypeOK
<1>1. IInv => TypeOK
  BY Zenon DEF IInv
<1> QED
  BY <1>1, Invariance, PTL

\* No CPU ever takes the SMBASE the layout gives another one, for any number
\* of CPUs and however late a timed-out callback runs.
THEOREM OwnSmbaseHolds == Spec => []OwnSmbase
<1>1. IInv => OwnSmbase
  BY Zenon DEF IInv
<1> QED
  BY <1>1, Invariance, PTL

\* The default window, with its one save state and one stack, never has two
\* CPUs in it or on their way to it.
THEOREM OneInWindowHolds == Spec => []OneInWindow
<1>1. IInv => OneInWindow
  BY Zenon DEF IInv, OneInWindow, Exclusive, Engaged
<1> QED
  BY <1>1, Invariance, PTL

\* No SMI ever reaches the default window without the stub in it, also after
\* an installation that failed.
THEOREM StubThereHolds == Spec => []StubThere
<1>1. IInv => StubThere
  BY Zenon DEF IInv, StubThere, Exclusive, Engaged
<1> QED
  BY <1>1, Invariance, PTL

\* Chipset SMIs are enabled only with SMRAM locked and every CPU moved.
THEOREM SmiOnlyWhenReadyHolds == Spec => []SmiOnlyWhenReady
<1>1. IInv => SmiOnlyWhenReady
  BY Zenon DEF IInv
<1> QED
  BY <1>1, Invariance, PTL

\* install returns with SMRAM hidden on every path, and Ok with it locked.
THEOREM HiddenOnReturnHolds == Spec => []HiddenOnReturn
<1>1. IInv => HiddenOnReturn
  BY Zenon DEF IInv
<1> QED
  BY <1>1, Invariance, PTL

\* No step takes the bridge out of POISONED.
THEOREM PoisonSticksHolds == Spec => PoisonSticks
<1>1. Installer /\ phase = "POISONED" => phase' = "POISONED"
  BY Zenon DEF Installer, Open, Prepare, InstallStub, BspTurn, CheckErrors,
     Erase, LockSmram, EnableSmi, Smoke
<1>2. ASSUME NEW c \in CPU, Closure(c) PROVE phase = "POISONED" => phase' = "POISONED"
  BY Zenon, <1>2 DEF Closure, Unusable, Lock, LockExpires, PublishExpected,
     PublishTarget, PublishPair, ClearResult, send_smi_self, SeeDone,
     LoadResult, DoneExpires, Poison, finish_relocation, Report
<1>3. ASSUME NEW c \in CPU, TakeSmi(c) \/ Handler(c)
      PROVE  phase = "POISONED" => phase' = "POISONED"
  BY Zenon, <1>3 DEF TakeSmi, Handler, CheckCpu, LoadTarget, WriteSmbase,
     ProgramSmrr, StoreResult, CountDone, Rsm
<1>4. ChipsetSmi /\ phase = "POISONED" => phase' = "POISONED"
  BY Zenon DEF ChipsetSmi
<1>5. [Next]_vars => [phase = "POISONED" => phase' = "POISONED"]_vars
  BY Zenon, <1>1, <1>2, <1>3, <1>4 DEF Next
<1> QED
  BY <1>5, PTL DEF Spec, PoisonSticks

=============================================================================
