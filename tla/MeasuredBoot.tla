---------------------------- MODULE MeasuredBoot ----------------------------
(***************************************************************************)
(* Measured boot (fstart-tcg) from the start of the TPM to the payload:    *)
(* every TPM command may fail, with or without having taken effect, and    *)
(* the event log may be too small.  The caller is the boot flow of one CPU *)
(* (STATE is never found busy): it starts the TPM, measures the root of    *)
(* trust and the firmware, hands over in one of three ways and, when it    *)
(* boots Linux itself, measures the kernel and the command line after it.  *)
(*                                                                         *)
(* A PCR is the sequence of what was extended into it.  PCRs 0 .. Caps - 1 *)
(* stand for PCR 0-7, which a failure caps; PCR Caps is one beyond them.   *)
(***************************************************************************)
EXTENDS Naturals, Sequences

CONSTANTS
    Caps,       \* number of PCRs that are capped
    MaxLog      \* bound: size of the log area, in separators

ASSUME BoundsAssumption == Caps \in Nat \ {0} /\ MaxLog \in Nat

VARIABLES
    pc,         \* where the boot flow is
    kind,       \* Handoff, fixed by the payload: "open", "locked" or "final"
    family,     \* what startup returned: "tpm12", "tpm20" or, for an error, "none"
    on,         \* STATE is Some
    failed, capFailed,          \* of State
    capacity,   \* size of the log area
    log,        \* EventLog: sequence of <<pcr, event>>
    todo,       \* what the current call has still to send
    caps,       \* PCRs fail has still to cap
    next,       \* where the flow goes on after the measurements in todo
    safe,       \* ok of hide_tpm20
    pcrs,       \* the TPM's PCRs: what was extended, in order
    guarded,    \* what the TPM withholds from software without the secret
    taken       \* the payload has the PayloadTpm

start == <<family, on, safe>>
record == <<failed, capFailed, log, caps>>
tpm == <<pcrs, guarded>>
flow == <<pc, todo, next>>
fixed == <<kind, capacity>>
vars == <<flow, fixed, start, record, tpm, taken>>

PCR == 0 .. Caps
Event == {"version", "stage", "firmware", "kernel", "cmdline", "separator", "error"}
Hierarchy == {"endorsement", "owner", "platform"}
Entry == PCR \X Event

\* hide_tpm20's commands for a hierarchy, in one list with its extends.
Disable(hierarchy) == <<Caps, hierarchy>>
Command == PCR \X (Event \cup Hierarchy)

\* What the firmware measures before the handoff, and what it measures after
\* it when it boots Linux itself.
BootEvents == <<<<0, "version">>, <<0, "stage">>, <<0, "firmware">>>>
LinuxEvents == <<<<Caps - 1, "kernel">>, <<Caps, "cmdline">>>>

\* One event for each of PCR 0-7.
Each(event) == [i \in 1 .. Caps |-> <<i - 1, event>>]

TypeOK ==
    /\ pc \in {"startup", "prepare", "hide", "presence", "record", "cap", "handoff",
               "lock", "check", "recheck", "take", "payload", "halt"}
    /\ next \in {"handoff", "lock", "recheck"}
    /\ kind \in {"open", "locked", "final"}
    /\ family \in {"none", "tpm12", "tpm20"}
    /\ on \in BOOLEAN /\ safe \in BOOLEAN /\ taken \in BOOLEAN
    /\ failed \in BOOLEAN /\ capFailed \in BOOLEAN
    /\ capacity \in 0 .. MaxLog
    /\ log \in Seq(Entry)
    /\ todo \in Seq(Command)
    /\ caps \in Seq(Entry)
    /\ pcrs \in [PCR -> Seq(Event)]
    /\ guarded \subseteq Hierarchy \cup {"presence"}

Init ==
    /\ pc = "startup" /\ next = "handoff" /\ todo = <<>>
    /\ kind \in {"open", "locked", "final"}
    /\ capacity \in 0 .. MaxLog
    /\ family = "none" /\ on = FALSE /\ safe = TRUE
    /\ failed = FALSE /\ capFailed = FALSE /\ log = <<>> /\ caps = <<>>
    /\ pcrs = [p \in PCR |-> <<>>] /\ guarded = {}
    /\ taken = FALSE

-----------------------------------------------------------------------------
\* The TPM's side.  A command that reports success has taken effect; one that
\* failed or timed out may have.
Extend(entry, ok) ==
    /\ \/ pcrs' = [pcrs EXCEPT ![entry[1]] = Append(@, entry[2])]
       \/ ~ok /\ UNCHANGED pcrs
    /\ UNCHANGED guarded

Protect(what, ok) ==
    /\ \/ guarded' = guarded \cup {what}
       \/ ~ok /\ UNCHANGED guarded
    /\ UNCHANGED pcrs

\* EventLog::reserve: a separator's four bytes against an event with a blob
\* description or a string.
Size(entry) == IF entry[2] \in {"separator", "error"} THEN 1 ELSE 2

Used == LET used[i \in 0 .. Len(log)] == IF i = 0 THEN 0 ELSE used[i - 1] + Size(log[i])
        IN  used[Len(log)]

Fits(entry) == Used + Size(entry) <= capacity

-----------------------------------------------------------------------------
\* startup.  When it reports an error the TPM is left as it is, started or not
\* (the command may have timed out with effect), and measured boot stays off.
\* The platform goes on booting; whether the OS is told of the TPM is not
\* modelled (SP3 hides it, QEMU's own ACPI tables describe it).
Startup ==
    /\ pc = "startup"
    /\ \/ family' \in {"tpm12", "tpm20"} /\ pc' = "prepare"
       \/ family' = "none" /\ pc' = "handoff"
    /\ UNCHANGED <<todo, next, fixed, on, safe, record, tpm, taken>>

\* prepare succeeds only with room for the log's first event (not counted in
\* Used), and start then stores the state; the root of trust is measured next.
Prepared ==
    /\ pc = "prepare" /\ capacity > 0
    /\ on' = TRUE
    /\ pc' = "record" /\ todo' = BootEvents /\ next' = "handoff"
    /\ UNCHANGED <<fixed, family, safe, record, tpm, taken>>

\* What hide_tpm20 sends, in its order.
HideCommands ==
    <<Disable("endorsement"), Disable("owner")>> \o Each("separator") \o <<Disable("platform")>>

\* On any error of prepare a TPM 2.0 is hidden, the presence of a 1.2 locked.
NotPrepared ==
    /\ pc = "prepare"
    /\ IF family = "tpm20"
       THEN /\ pc' = "hide"
            /\ todo' = HideCommands
       ELSE pc' = "presence" /\ todo' = <<>>
    /\ UNCHANGED <<next, fixed, start, record, tpm, taken>>

\* Mutant: the last command decides.
Hide_LastCounts ==
    /\ pc = "hide" /\ todo # <<>>
    /\ \E ok \in BOOLEAN :
          /\ IF Head(todo)[2] \in Hierarchy
             THEN Protect(Head(todo)[2], ok)
             ELSE Extend(Head(todo), ok)
          /\ safe' = ok
    /\ todo' = Tail(todo)
    /\ UNCHANGED <<pc, next, fixed, family, on, record, taken>>

\* hide_tpm20 sends every command, whatever the earlier ones returned.  The
\* platform hierarchy gets a random authorization or else is turned off.
Hide ==
    /\ pc = "hide" /\ todo # <<>>
    /\ \E ok \in BOOLEAN :
          /\ IF Head(todo)[2] \in Hierarchy
             THEN Protect(Head(todo)[2], ok)
             ELSE Extend(Head(todo), ok)
          /\ safe' = (safe /\ ok)
    /\ todo' = Tail(todo)
    /\ UNCHANGED <<pc, next, fixed, family, on, record, taken>>

\* Unprotected: the platform halts.  With any other error it boots without
\* measured boot.
Hidden ==
    /\ pc = "hide" /\ todo = <<>>
    /\ pc' = IF safe THEN "handoff" ELSE "halt"
    /\ UNCHANGED <<todo, next, fixed, start, record, tpm, taken>>

LockPresence ==
    /\ pc = "presence"
    /\ \E ok \in BOOLEAN :
          /\ Protect("presence", ok)
          /\ pc' = IF ok THEN "handoff" ELSE "halt"
    /\ UNCHANGED <<todo, next, fixed, start, record, taken>>

-----------------------------------------------------------------------------
\* fail, entered with the loop over PCR 0-7 before it.
Fail ==
    /\ failed' = TRUE
    /\ pc' = "cap"
    /\ caps' = Each("error")
    /\ UNCHANGED capFailed

\* Mutant: an event that does not fit is dropped, the boot goes on.
Record_DropsEvent ==
    /\ pc = "record" /\ todo # <<>> /\ ~failed
    /\ todo' = Tail(todo)
    /\ \E ok \in BOOLEAN :
          /\ Extend(Head(todo), ok)
          /\ \/ ok /\ Fits(Head(todo)) /\ log' = Append(log, Head(todo))
                /\ UNCHANGED <<pc, failed, capFailed, caps>>
             \/ ok /\ ~Fits(Head(todo)) /\ UNCHANGED <<pc, log, failed, capFailed, caps>>
             \/ ~ok /\ UNCHANGED log /\ Fail
    /\ UNCHANGED <<next, fixed, start, taken>>

\* record: extend, then append; either failing fails measured boot.  An extend
\* that is refused without effect also stands for measurement_error, when the
\* image of the root of trust is not found.
Record ==
    /\ pc = "record" /\ todo # <<>> /\ ~failed
    /\ todo' = Tail(todo)
    /\ \E ok \in BOOLEAN :
          /\ Extend(Head(todo), ok)
          /\ IF ok /\ Fits(Head(todo))
             THEN log' = Append(log, Head(todo)) /\ UNCHANGED <<pc, failed, capFailed, caps>>
             ELSE UNCHANGED log /\ Fail
    /\ UNCHANGED <<next, fixed, start, taken>>

\* The calls that are left: none, or nothing but early returns.
Recorded ==
    /\ pc = "record" /\ (todo = <<>> \/ failed)
    /\ pc' = next /\ todo' = <<>>
    /\ UNCHANGED <<next, fixed, start, record, tpm, taken>>

\* fail's loop: a separator that does not fit is not logged.
Cap ==
    /\ pc = "cap" /\ caps # <<>>
    /\ \E ok \in BOOLEAN :
          /\ Extend(Head(caps), ok)
          /\ capFailed' = (capFailed \/ ~ok)
    /\ log' = IF Fits(Head(caps)) THEN Append(log, Head(caps)) ELSE log
    /\ caps' = Tail(caps)
    /\ UNCHANGED <<flow, fixed, start, failed, taken>>

Capped ==
    /\ pc = "cap" /\ caps = <<>>
    /\ pc' = "record"
    /\ UNCHANGED <<todo, next, fixed, start, record, tpm, taken>>

-----------------------------------------------------------------------------
\* handoff: nothing to do when measured boot is off.
Handoff ==
    /\ pc = "handoff"
    /\ \/ ~on /\ pc' = "payload" /\ UNCHANGED <<todo, next>>
       \/ on /\ kind = "open" /\ pc' = "check" /\ UNCHANGED <<todo, next>>
       \/ on /\ kind = "locked" /\ pc' = "lock" /\ UNCHANGED <<todo, next>>
       \/ on /\ kind = "final" /\ pc' = "record" /\ todo' = Each("separator") /\ next' = "lock"
    /\ UNCHANGED <<fixed, start, record, tpm, taken>>

\* Mutant: an error of the last command is not an error of lock.
Lock_Ignored ==
    /\ pc = "lock"
    /\ \E ok \in BOOLEAN :
          /\ Protect(IF family = "tpm20" THEN "platform" ELSE "presence", ok)
          /\ pc' = "check"
    /\ UNCHANGED <<todo, next, fixed, start, record, taken>>

\* lock: Ok when one of its ways has worked.  An error refuses the payload.
Lock ==
    /\ pc = "lock"
    /\ \E ok \in BOOLEAN :
          /\ Protect(IF family = "tpm20" THEN "platform" ELSE "presence", ok)
          /\ pc' = IF ok THEN "check" ELSE "halt"
    /\ UNCHANGED <<todo, next, fixed, start, record, taken>>

\* check at the end of handoff.
Check ==
    /\ pc = "check"
    /\ \/ capFailed /\ pc' = "halt" /\ UNCHANGED <<todo, next>>
       \/ ~capFailed /\ kind = "open" /\ pc' = "payload" /\ UNCHANGED <<todo, next>>
       \/ ~capFailed /\ kind = "locked" /\ pc' = "take" /\ UNCHANGED <<todo, next>>
       \/ /\ ~capFailed /\ kind = "final"
          /\ pc' = "record" /\ todo' = LinuxEvents /\ next' = "recheck"
    /\ UNCHANGED <<fixed, start, record, tpm, taken>>

\* Mutant: Linux starts without the second check.
Recheck_Skipped ==
    /\ pc = "recheck"
    /\ pc' = "payload"
    /\ UNCHANGED <<todo, next, fixed, start, record, tpm, taken>>

\* check after the kernel and the command line.
Recheck ==
    /\ pc = "recheck"
    /\ pc' = IF capFailed THEN "halt" ELSE "payload"
    /\ UNCHANGED <<todo, next, fixed, start, record, tpm, taken>>

\* take_for_payload: only a boot that has not failed is handed on.
Take ==
    /\ pc = "take"
    /\ taken' = ~failed
    /\ on' = failed
    /\ pc' = "payload"
    /\ UNCHANGED <<todo, next, fixed, family, safe, record, tpm>>

Next ==
    \/ Startup \/ Prepared \/ NotPrepared \/ Hide \/ Hidden \/ LockPresence
    \/ Record \/ Recorded \/ Cap \/ Capped
    \/ Handoff \/ Lock \/ Check \/ Recheck \/ Take

Spec == Init /\ [][Next]_vars
-----------------------------------------------------------------------------
\* The events of PCR p in a list, in their order: f names the entry of each
\* event and leaves none of p's entries out.
EventsOf(p, list, events) ==
    \E f \in [1 .. Len(events) -> 1 .. Len(list)] :
        /\ \A j \in 1 .. Len(events) : list[f[j]] = <<p, events[j]>>
        /\ \A j, k \in 1 .. Len(events) : j < k => f[j] < f[k]
        /\ \A i \in 1 .. Len(list) : list[i][1] = p => \E j \in 1 .. Len(events) : f[j] = i

\* A verifier that replays the log gets the value of PCR p.
Replays(p) == EventsOf(p, log, pcrs[p])

Expected ==
    IF kind = "final" THEN BootEvents \o Each("separator") \o LinuxEvents ELSE BootEvents

\* The verifier sees the whole chain of what has run.
Attested == log = Expected /\ \A p \in PCR : Replays(p)

\* No value an intact boot could produce is left in PCR 0-7.
Withdrawn == \A p \in 0 .. Caps - 1 : \E i \in 1 .. Len(pcrs[p]) : pcrs[p][i] = "error"

\* A payload runs on a TPM that vouches for the complete boot or for none of
\* it: the log replays to every PCR and names all that was measured, or every
\* PCR of 0-7 holds the error separator, or measured boot is off and the TPM
\* was hidden or its presence locked, or startup reported an error and the
\* firmware measured nothing.  It holds although any extend, capping extend or
\* hiding command may fail or fail halfway, and although measurements go on
\* after the handoff (record, fail, check, handoff, start).
VouchesForAllOrNothing ==
    pc = "payload" =>
        \/ (on \/ taken) /\ ~failed /\ Attested
        \/ on /\ failed /\ Withdrawn
        \/ ~on /\ family = "none"
        \/ ~on /\ family = "tpm12" /\ "presence" \in guarded
        \/ /\ ~on /\ family = "tpm20" /\ Hierarchy \subseteq guarded
           /\ \A p \in 0 .. Caps - 1 : pcrs[p] # <<>>

\* A UEFI payload and a kernel that fstart boots itself find the platform
\* hierarchy, or physical presence, out of their reach, whether measured boot
\* worked, failed on the way or could not be started on a TPM that answered
\* (handoff with Locked or Final, lock, start).
OsFindsTpmLocked ==
    pc = "payload" /\ kind # "open" /\ family # "none" =>
        (IF family = "tpm20" THEN "platform" ELSE "presence") \in guarded

\* Once measured boot has failed the log takes error separators only, and no
\* PCR takes anything else: nothing vouches for what runs after it (record,
\* fail).
FailureIsFinal ==
    [][failed => /\ log' # log => log'[Len(log')][2] = "error"
                 /\ \A p \in PCR : pcrs'[p] # pcrs[p] => pcrs'[p][Len(pcrs'[p])] = "error"]_vars
=============================================================================
