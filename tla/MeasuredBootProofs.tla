------------------------ MODULE MeasuredBootProofs -------------------------
(***************************************************************************)
(* A payload finds a TPM that vouches for the whole boot or for none of    *)
(* it, for any number of capped PCRs and any size of the log.  Up to a     *)
(* failure the log and what is left to send make up the chain of the       *)
(* current phase, and the log replays to every PCR.  A failure leaves an   *)
(* error separator in every capped PCR, or still to send, or capFailed;    *)
(* the hiding of an unusable TPM leaves each of its commands carried out,  *)
(* still to send, or safe false.                                           *)
(***************************************************************************)
EXTENDS MeasuredBoot, SequenceTheorems, TLAPS

USE BoundsAssumption

\* The log at the end of the measurements after which the flow goes to n.
Reached(n) ==
    IF n = "handoff" THEN BootEvents
    ELSE IF n = "lock" THEN BootEvents \o Each("separator")
    ELSE BootEvents \o Each("separator") \o LinuxEvents

LockOf(f) == IF f = "tpm20" THEN "platform" ELSE "presence"

Capped07 == 0 .. Caps - 1
Pending(list, e) == \E i \in 1 .. Len(list) : list[i] = e
HasError(p) == \E i \in 1 .. Len(pcrs[p]) : pcrs[p][i] = "error"

\* Before measured boot is on.
Starting ==
    /\ pc \in {"startup", "prepare", "hide", "presence"} => ~on /\ ~taken
    /\ pc = "startup" => family = "none"
    /\ pc = "prepare" => family # "none"
    /\ pc \in {"startup", "prepare"} =>
           safe /\ log = <<>> /\ \A p \in PCR : pcrs[p] = <<>>
    /\ pc = "hide" => family = "tpm20"
    /\ pc = "presence" => family = "tpm12"

\* Each command of hide_tpm20 is carried out or still to send while safe.
Hiding ==
    pc = "hide" /\ safe =>
        /\ \A h \in Hierarchy : h \in guarded \/ Pending(todo, Disable(h))
        /\ \A p \in Capped07 : pcrs[p] # <<>> \/ Pending(todo, <<p, "separator">>)

\* A TPM that measured boot does not use.
Unused ==
    \/ family = "none"
    \/ family = "tpm12" /\ "presence" \in guarded
    \/ family = "tpm20" /\ Hierarchy \subseteq guarded /\ \A p \in Capped07 : pcrs[p] # <<>>

\* Where the flow can be with measured boot off, on and handed over.
Running ==
    /\ pc \in {"record", "cap", "lock", "check", "recheck", "take"} => on /\ ~taken
    /\ pc = "handoff" => ~taken
    /\ pc \in {"handoff", "payload"} /\ ~on /\ ~taken => Unused
    /\ on \/ taken => family # "none"
    /\ taken => ~failed
    /\ failed => on
    /\ pc = "take" => kind = "locked"
    /\ pc = "recheck" => kind = "final"
    /\ pc \in {"record", "cap"} => todo \in Seq(Entry) /\ (next # "handoff" => kind = "final")

\* The chain of what was measured, before a failure.
Chain ==
    ~failed =>
        /\ pc = "record" => log \o todo = Reached(next)
        /\ pc = "handoff" /\ on => log = BootEvents
        /\ pc \in {"lock", "check"} =>
               log = Reached(IF kind = "final" THEN "lock" ELSE "handoff")
        /\ pc = "take" => log = BootEvents
        /\ pc = "recheck" => log = Reached("recheck")
        /\ pc = "payload" /\ (on \/ taken) => log = Expected

\* The log replays to the PCRs, before a failure.
Replayed == (on \/ taken) /\ ~failed => \A p \in PCR : Replays(p)

\* A failure is capped, about to be, or known to be uncapped.
Failing ==
    /\ pc = "cap" => failed /\ \A i \in 1 .. Len(caps) : caps[i][2] = "error"
    /\ pc = "cap" /\ ~capFailed => \A p \in Capped07 : HasError(p) \/ Pending(caps, <<p, "error">>)
    /\ pc # "cap" /\ failed /\ ~capFailed => Withdrawn
    /\ pc = "take" => ~capFailed
    /\ pc = "payload" /\ on => ~capFailed

\* What lock has done.
Locked ==
    /\ pc \in {"check", "take", "recheck"} /\ kind # "open" => LockOf(family) \in guarded
    /\ pc \in {"record", "cap"} /\ next = "recheck" => LockOf(family) \in guarded
    /\ pc = "payload" /\ kind # "open" /\ family # "none" => LockOf(family) \in guarded

IInv == TypeOK /\ Starting /\ Hiding /\ Running /\ Chain /\ Replayed /\ Failing /\ Locked

-----------------------------------------------------------------------------
(* Lists *)

\* Moving the first element of one list to the end of another keeps their
\* concatenation.
LEMMA MoveHead ==
    ASSUME NEW S, NEW a \in Seq(S), NEW b \in Seq(S), b # <<>>
    PROVE  Append(a, Head(b)) \o Tail(b) = a \o b
<1>1. Head(b) \in S /\ Tail(b) \in Seq(S) /\ Len(b) \in Nat \ {0} /\ Len(Tail(b)) = Len(b) - 1
  BY Zenon, HeadTailProperties, EmptySeq, LenProperties
<1>2. Append(a, Head(b)) \in Seq(S) /\ Len(Append(a, Head(b))) = Len(a) + 1
  BY <1>1, AppendProperties
<1>3. /\ Append(a, Head(b)) \o Tail(b) \in Seq(S) /\ a \o b \in Seq(S)
      /\ Len(Append(a, Head(b)) \o Tail(b)) = Len(a \o b)
  BY <1>1, <1>2, ConcatProperties
<1>4. \A i \in 1 .. Len(a \o b) : (Append(a, Head(b)) \o Tail(b))[i] = (a \o b)[i]
  BY <1>1, <1>2, <1>3, SMTT(30)
<1> QED
  BY Zenon, <1>3, <1>4, SeqEqual

\* What is pending in a list is its head or pending in its tail.
LEMMA PendingHead ==
    ASSUME NEW S, NEW list \in Seq(S), list # <<>>, NEW e, Pending(list, e)
    PROVE  Head(list) = e \/ Pending(Tail(list), e)
<1>1. PICK i \in 1 .. Len(list) : list[i] = e
  BY Zenon DEF Pending
<1>2. CASE i = 1
  BY <1>1, <1>2
<1>3. CASE i # 1
  <2>1. i - 1 \in 1 .. Len(Tail(list)) /\ Tail(list)[i - 1] = e
    BY <1>1, <1>3
  <2> QED
    BY Zenon, <2>1 DEF Pending
<1> QED
  BY Zenon, <1>2, <1>3

\* The lists of the flow are well formed.
LEMMA Lists ==
    /\ \A event \in Event : /\ Each(event) \in Seq(Entry)
                            /\ \A i \in 1 .. Len(Each(event)) : Each(event)[i][2] = event
                            /\ \A p \in Capped07 : Pending(Each(event), <<p, event>>)
    /\ BootEvents \in Seq(Entry) /\ LinuxEvents \in Seq(Entry)
<1>1. ASSUME NEW event \in Event
      PROVE  /\ Each(event) \in Seq(Entry) /\ Len(Each(event)) = Caps
             /\ \A i \in 1 .. Caps : Each(event)[i] = <<i - 1, event>>
  BY DEF Each, Entry, PCR
<1>2. ASSUME NEW event \in Event, NEW p \in Capped07
      PROVE  Pending(Each(event), <<p, event>>)
  <2>1. p + 1 \in 1 .. Caps /\ Each(event)[p + 1] = <<p, event>>
    BY <1>1 DEF Capped07
  <2> QED
    BY Zenon, <1>1, <2>1 DEF Pending
<1>3. BootEvents \in Seq(Entry) /\ LinuxEvents \in Seq(Entry)
  BY DEF BootEvents, LinuxEvents, Entry, PCR, Event
<1> QED
  BY <1>1, <1>2, <1>3

\* hide_tpm20 has a command for every hierarchy and an extend for every PCR.
LEMMA HideList ==
    /\ HideCommands \in Seq(Command)
    /\ \A h \in Hierarchy : Pending(HideCommands, Disable(h))
    /\ \A p \in Capped07 : Pending(HideCommands, <<p, "separator">>)
<1> DEFINE first == <<Disable("endorsement"), Disable("owner")>>
           each == Each("separator")
           last == <<Disable("platform")>>
<1>1. first \in Seq(Command) /\ Len(first) = 2 /\ last \in Seq(Command) /\ Len(last) = 1
  BY DEF Disable, Command, PCR, Hierarchy
<1>2. each \in Seq(Command) /\ Len(each) = Caps /\ \A i \in 1 .. Caps : each[i] = <<i - 1, "separator">>
  BY DEF Each, Command, PCR, Event
<1>3. HideCommands = (first \o each) \o last
  BY Zenon DEF HideCommands
<1>4. /\ HideCommands \in Seq(Command)
      /\ Len(HideCommands) = Caps + 3
      /\ \A i \in 1 .. Caps + 3 : HideCommands[i] = IF i <= 2 THEN first[i]
                                                    ELSE IF i <= Caps + 2 THEN each[i - 2]
                                                    ELSE last[1]
  <2> HIDE DEF first, each, last
  <2>1. /\ first \o each \in Seq(Command) /\ Len(first \o each) = Caps + 2
        /\ \A i \in 1 .. Caps + 2 : (first \o each)[i] = IF i <= 2 THEN first[i] ELSE each[i - 2]
    <3>1. /\ first \o each \in Seq(Command) /\ Len(first \o each) = Len(first) + Len(each)
          /\ \A i \in 1 .. Len(first) + Len(each) :
                 (first \o each)[i] = IF i <= Len(first) THEN first[i] ELSE each[i - Len(first)]
      BY <1>1, <1>2, ConcatProperties, Zenon
    <3>2. Len(first) + Len(each) = Caps + 2
      BY <1>1, <1>2
    <3> QED
      BY Zenon, <1>1, <3>1, <3>2
  <2> DEFINE head == first \o each
  <2> HIDE DEF head
  <2>2. head \in Seq(Command) /\ Len(head) = Caps + 2 /\ HideCommands = head \o last
    BY Zenon, <2>1, <1>3 DEF head
  <2>3. /\ head \o last \in Seq(Command) /\ Len(head \o last) = Caps + 3
        /\ \A i \in 1 .. Caps + 3 : (head \o last)[i] = IF i <= Caps + 2 THEN head[i] ELSE last[i - (Caps + 2)]
    <3>1. /\ head \o last \in Seq(Command) /\ Len(head \o last) = Len(head) + Len(last)
          /\ \A i \in 1 .. Len(head) + Len(last) :
                 (head \o last)[i] = IF i <= Len(head) THEN head[i] ELSE last[i - Len(head)]
      BY <1>1, <2>2, ConcatProperties, ZenonT(40)
    <3>2. Len(head) + Len(last) = Caps + 3
      BY <1>1, <2>2
    <3> QED
      BY Zenon, <2>2, <3>1, <3>2
  <2>4. \A i \in 1 .. Caps + 2 : head[i] = IF i <= 2 THEN first[i] ELSE each[i - 2]
    BY Zenon, <2>1 DEF head
  <2> QED
    BY <2>2, <2>3, <2>4
<1>5. \A h \in Hierarchy : Pending(HideCommands, Disable(h))
  <2>1. HideCommands[1] = Disable("endorsement") /\ HideCommands[2] = Disable("owner")
    BY <1>4
  <2>2. HideCommands[Caps + 3] = Disable("platform")
    BY <1>4
  <2> QED
    BY <1>4, <2>1, <2>2 DEF Pending, Hierarchy
<1>6. ASSUME NEW p \in Capped07 PROVE Pending(HideCommands, <<p, "separator">>)
  <2> HIDE DEF first, each, last
  <2>1. p + 3 \in 1 .. Caps + 3 /\ ~(p + 3 <= 2) /\ p + 3 <= Caps + 2 /\ (p + 3) - 2 = p + 1
    BY DEF Capped07
  <2>2. HideCommands[p + 3] = each[p + 1]
    BY Zenon, <1>4, <2>1
  <2>3. p + 1 \in 1 .. Caps /\ (p + 1) - 1 = p
    BY DEF Capped07
  <2>4. each[p + 1] = <<p, "separator">>
    BY Zenon, <1>2, <2>3
  <2> QED
    BY Zenon, <1>4, <2>1, <2>2, <2>4 DEF Pending
<1> QED
  BY Zenon, <1>4, <1>5, <1>6

\* An event of another PCR is added to the list.
LEMMA ReplayOther ==
    ASSUME NEW p, NEW list \in Seq(Entry), NEW events \in Seq(Event), NEW e \in Entry,
           EventsOf(p, list, events), e[1] # p
    PROVE  EventsOf(p, Append(list, e), events)
<1> DEFINE N == Len(events)
           L == Len(list)
           new == Append(list, e)
<1>1. PICK f \in [1 .. N -> 1 .. L] :
          /\ \A j \in 1 .. N : list[f[j]] = <<p, events[j]>>
          /\ \A j, k \in 1 .. N : j < k => f[j] < f[k]
          /\ \A i \in 1 .. L : list[i][1] = p => \E j \in 1 .. N : f[j] = i
  BY Zenon DEF EventsOf
<1>2. /\ N \in Nat /\ L \in Nat /\ Len(new) = L + 1 /\ new[L + 1] = e
      /\ \A i \in 1 .. L : new[i] = list[i]
  OBVIOUS
<1> HIDE DEF N, L, new
<1>3. f \in [1 .. N -> 1 .. L + 1]
  BY <1>1, <1>2
<1>4. \A j \in 1 .. N : new[f[j]] = <<p, events[j]>>
  BY Zenon, <1>1, <1>2
<1>5. ASSUME NEW i \in 1 .. L + 1, new[i][1] = p
      PROVE  \E j \in 1 .. N : f[j] = i
  <2>1. i # L + 1
    BY Zenon, <1>2, <1>5
  <2>2. i \in 1 .. L
    BY <1>2, <2>1
  <2>3. list[i][1] = p
    BY Zenon, <1>2, <1>5, <2>2
  <2> QED
    BY Zenon, <1>1, <2>2, <2>3
<1>6. EventsOf(p, new, events)
  <2>1. \A i \in 1 .. L + 1 : new[i][1] = p => \E j \in 1 .. N : f[j] = i
    BY Zenon, <1>5
  <2>2. /\ f \in [1 .. Len(events) -> 1 .. Len(new)]
        /\ \A j \in 1 .. Len(events) : new[f[j]] = <<p, events[j]>>
        /\ \A j, k \in 1 .. Len(events) : j < k => f[j] < f[k]
        /\ \A i \in 1 .. Len(new) : new[i][1] = p => \E j \in 1 .. Len(events) : f[j] = i
    <3>1. Len(new) = L + 1
      BY Zenon, <1>2
    <3> QED
      BY <1>1, <1>3, <1>4, <2>1, <3>1, Zenon DEF N
  <2> QED
    BY <2>2, Zenon DEF EventsOf
<1> QED
  BY Zenon, <1>6 DEF new

\* The event is one of p's.
LEMMA ReplayMine ==
    ASSUME NEW p, NEW list \in Seq(Entry), NEW events \in Seq(Event), NEW e \in Entry,
           EventsOf(p, list, events), e[1] = p
    PROVE  EventsOf(p, Append(list, e), Append(events, e[2]))
<1> DEFINE N == Len(events)
           L == Len(list)
           new == Append(list, e)
           more == Append(events, e[2])
<1>1. PICK f \in [1 .. N -> 1 .. L] :
          /\ \A j \in 1 .. N : list[f[j]] = <<p, events[j]>>
          /\ \A j, k \in 1 .. N : j < k => f[j] < f[k]
          /\ \A i \in 1 .. L : list[i][1] = p => \E j \in 1 .. N : f[j] = i
  BY Zenon DEF EventsOf
<1>2. /\ N \in Nat /\ L \in Nat /\ Len(new) = L + 1 /\ new[L + 1] = e
      /\ \A i \in 1 .. L : new[i] = list[i]
  OBVIOUS
<1>3. e[2] \in Event /\ e = <<p, e[2]>>
  BY DEF Entry
<1>4. /\ Len(more) = N + 1 /\ more[N + 1] = e[2]
      /\ \A j \in 1 .. N : more[j] = events[j]
  BY <1>3
<1> DEFINE g == [j \in 1 .. N + 1 |-> IF j = N + 1 THEN L + 1 ELSE f[j]]
<1> HIDE DEF N, L, new, more
<1>5. /\ g \in [1 .. N + 1 -> 1 .. L + 1] /\ g[N + 1] = L + 1
      /\ \A j \in 1 .. N : g[j] = f[j] /\ f[j] \in 1 .. L
  BY <1>1, <1>2
<1> HIDE DEF g
<1>6. \A j \in 1 .. N + 1 : j \in 1 .. N \/ j = N + 1
  BY <1>2
<1>7. \A j \in 1 .. N + 1 : new[g[j]] = <<p, more[j]>>
  <2>1. ASSUME NEW j \in 1 .. N PROVE new[g[j]] = <<p, more[j]>>
    <3>1. g[j] = f[j] /\ f[j] \in 1 .. L
      BY Zenon, <1>5
    <3>2. new[f[j]] = list[f[j]] /\ more[j] = events[j]
      BY Zenon, <1>2, <1>4, <3>1
    <3>3. list[f[j]] = <<p, events[j]>>
      BY Zenon, <1>1
    <3> QED
      BY <3>1, <3>2, <3>3, Zenon
  <2>2. new[g[N + 1]] = <<p, more[N + 1]>>
    BY Zenon, <1>2, <1>3, <1>4, <1>5
  <2> QED
    BY Zenon, <1>6, <2>1, <2>2
<1>8. ASSUME NEW j \in 1 .. N + 1, NEW k \in 1 .. N + 1, j < k
      PROVE  g[j] < g[k]
  <2>1. j \in 1 .. N
    BY <1>2, <1>8
  <2>2. CASE k = N + 1
    BY <1>2, <1>5, <2>1, <2>2
  <2>3. CASE k \in 1 .. N
    BY Zenon, <1>1, <1>5, <1>8, <2>1, <2>3
  <2> QED
    BY Zenon, <1>6, <2>2, <2>3
<1>9. ASSUME NEW i \in 1 .. L + 1, new[i][1] = p
      PROVE  \E j \in 1 .. N + 1 : g[j] = i
  <2>1. CASE i = L + 1
    <3>1. N + 1 \in 1 .. N + 1
      BY <1>2
    <3> QED
      BY Zenon, <1>5, <2>1, <3>1
  <2>2. CASE i \in 1 .. L
    <3>1. PICK j \in 1 .. N : f[j] = i
      BY Zenon, <1>1, <1>2, <1>9, <2>2
    <3>2. j \in 1 .. N + 1
      BY <1>2
    <3> QED
      BY Zenon, <1>5, <3>1, <3>2
  <2> QED
    BY <1>2, <2>1, <2>2
<1>10. EventsOf(p, new, more)
  <2>1. \A j, k \in 1 .. N + 1 : j < k => g[j] < g[k]
    BY Zenon, <1>8
  <2>2. \A i \in 1 .. L + 1 : new[i][1] = p => \E j \in 1 .. N + 1 : g[j] = i
    BY Zenon, <1>9
  <2>3. /\ g \in [1 .. Len(more) -> 1 .. Len(new)]
        /\ \A j \in 1 .. Len(more) : new[g[j]] = <<p, more[j]>>
        /\ \A j, k \in 1 .. Len(more) : j < k => g[j] < g[k]
        /\ \A i \in 1 .. Len(new) : new[i][1] = p => \E j \in 1 .. Len(more) : g[j] = i
    <3>1. Len(new) = L + 1 /\ Len(more) = N + 1
      BY Zenon, <1>2, <1>4
    <3> QED
      BY <1>5, <1>7, <2>1, <2>2, <3>1, Zenon
  <2> QED
    BY <2>3, Zenon DEF EventsOf
<1> QED
  BY Zenon, <1>10 DEF new, more

\* An event that is extended and logged keeps every PCR replayed.
LEMMA ReplayStep ==
    ASSUME log \in Seq(Entry), pcrs \in [PCR -> Seq(Event)], NEW e \in Entry,
           log' = Append(log, e),
           pcrs' = [pcrs EXCEPT ![e[1]] = Append(@, e[2])],
           NEW p \in PCR, Replays(p)
    PROVE  Replays(p)'
<1>1. e[1] \in PCR /\ pcrs[p] \in Seq(Event)
  BY Zenon DEF Entry
<1>2. CASE e[1] # p
  <2>1. pcrs'[p] = pcrs[p]
    BY Zenon, <1>1, <1>2
  <2> QED
    BY Zenon, <1>1, <1>2, <2>1, ReplayOther DEF Replays
<1>3. CASE e[1] = p
  <2>1. pcrs'[p] = Append(pcrs[p], e[2])
    BY Zenon, <1>1, <1>3
  <2> QED
    BY Zenon, <1>1, <1>3, <2>1, ReplayMine DEF Replays
<1> QED
  BY Zenon, <1>2, <1>3

-----------------------------------------------------------------------------
(* The invariant is inductive *)

\* The chain of each phase is a list of entries, and extends the one before.
LEMMA Phases ==
    /\ \A n \in {"handoff", "lock", "recheck"} : Reached(n) \in Seq(Entry)
    /\ Reached("handoff") = BootEvents
    /\ Reached("handoff") \o Each("separator") = Reached("lock")
    /\ Reached("lock") \o LinuxEvents = Reached("recheck")
    /\ Expected = Reached(IF kind = "final" THEN "recheck" ELSE "handoff")
<1>1. /\ BootEvents \in Seq(Entry) /\ LinuxEvents \in Seq(Entry) /\ Each("separator") \in Seq(Entry)
  BY Zenon, Lists DEF Event
<1>2. BootEvents \o Each("separator") \in Seq(Entry)
  BY <1>1, ConcatProperties, Zenon
<1>3. (BootEvents \o Each("separator")) \o LinuxEvents \in Seq(Entry)
  BY <1>1, <1>2, ConcatProperties, Zenon
<1> QED
  BY Zenon, <1>1, <1>2, <1>3 DEF Reached, Expected

\* The fields of an entry, and what tells a command for a hierarchy from one.
LEMMA EntryFacts ==
    /\ Entry \subseteq Command
    /\ \A e \in Command : e[1] \in PCR /\ e[2] \in Event \cup Hierarchy
    /\ \A e \in Entry : e[1] \in PCR /\ e[2] \in Event
    /\ Event \cap Hierarchy = {}
    /\ \A list \in Seq(Entry) : list \in Seq(Command)
  BY DEF Entry, Command, Event, Hierarchy

\* A list of errors without its first one.
LEMMA ErrorsTail ==
    ASSUME NEW list \in Seq(Entry), list # <<>>, \A i \in 1 .. Len(list) : list[i][2] = "error"
    PROVE  /\ Head(list) \in Entry /\ Tail(list) \in Seq(Entry)
           /\ \A i \in 1 .. Len(Tail(list)) : Tail(list)[i][2] = "error"
<1>1. Head(list) \in Entry /\ Tail(list) \in Seq(Entry)
  OBVIOUS
<1>2. ASSUME NEW i \in 1 .. Len(Tail(list)) PROVE Tail(list)[i] = list[i + 1] /\ i + 1 \in 1 .. Len(list)
  OBVIOUS
<1> QED
  BY <1>1, <1>2

\* What an extend does to the PCRs.
LEMMA ExtendFacts ==
    ASSUME pcrs \in [PCR -> Seq(Event)], NEW e, e[1] \in PCR, e[2] \in Event,
           NEW ok \in BOOLEAN, Extend(e, ok)
    PROVE  /\ pcrs' \in [PCR -> Seq(Event)]
           /\ guarded' = guarded
           /\ ok => pcrs' = [pcrs EXCEPT ![e[1]] = Append(@, e[2])]
           /\ \A p \in PCR : /\ pcrs[p] # <<>> => pcrs'[p] # <<>>
                             /\ HasError(p) => HasError(p)'
                             /\ pcrs'[p] # pcrs[p] => pcrs'[p][Len(pcrs'[p])] = e[2]
           /\ ok => pcrs'[e[1]] # <<>> /\ (e[2] = "error" => HasError(e[1])')
<1>1. CASE pcrs' = pcrs
  <2>1. ~ok \/ pcrs' = [pcrs EXCEPT ![e[1]] = Append(@, e[2])]
    BY Zenon DEF Extend
  <2>2. Len(Append(pcrs[e[1]], e[2])) = Len(pcrs[e[1]]) + 1 /\ Len(pcrs[e[1]]) \in Nat
    OBVIOUS
  <2>3. ~ok
    BY <1>1, <2>1, <2>2
  <2> QED
    BY Zenon, <1>1, <2>3 DEF HasError, Extend
<1>2. CASE pcrs' = [pcrs EXCEPT ![e[1]] = Append(@, e[2])]
  <2>1. pcrs' \in [PCR -> Seq(Event)]
    BY <1>2
  <2>2. ASSUME NEW p \in PCR, p # e[1] PROVE pcrs'[p] = pcrs[p]
    BY Zenon, <1>2, <2>2
  <2> DEFINE old == pcrs[e[1]]
             new == pcrs'[e[1]]
  <2>3. old \in Seq(Event) /\ new = Append(old, e[2])
    BY Zenon, <1>2
  <2>4. /\ Len(old) \in Nat /\ Len(new) = Len(old) + 1 /\ new[Len(new)] = e[2] /\ new # <<>>
        /\ \A i \in 1 .. Len(old) : new[i] = old[i]
    <3> HIDE DEF old, new
    <3>1. Len(old) \in Nat /\ Len(new) = Len(old) + 1 /\ \A i \in 1 .. Len(old) : new[i] = old[i]
      BY <2>3
    <3>2. new[Len(old) + 1] = e[2]
      BY <2>3
    <3>3. new # <<>>
      BY <3>1
    <3> QED
      BY Zenon, <3>1, <3>2, <3>3
  <2>5. HasError(e[1]) => HasError(e[1])'
    <3>1. \A i \in 1 .. Len(old) : i \in 1 .. Len(new)
      BY <2>4
    <3> QED
      BY <2>4, <3>1, Zenon DEF HasError
  <2>6. e[2] = "error" => HasError(e[1])'
    <3>1. Len(new) \in 1 .. Len(new)
      BY <2>4
    <3> QED
      BY <2>4, <3>1, Zenon DEF HasError
  <2>7. ASSUME NEW p \in PCR, p # e[1], HasError(p) PROVE HasError(p)'
    BY Zenon, <2>2, <2>7 DEF HasError
  <2> QED
    BY Zenon, <1>2, <2>1, <2>2, <2>4, <2>5, <2>6, <2>7 DEF Extend
<1> QED
  BY Zenon, <1>1, <1>2 DEF Extend

USE DEF IInv, TypeOK, Starting, Running, Chain, Failing, Locked

\* It holds at the start of the TPM.
LEMMA InitHolds == Init => IInv
<1> SUFFICES ASSUME Init PROVE IInv
  OBVIOUS
<1>1. TypeOK
  BY DEF Init, PCR
<1> QED
  BY <1>1, SMTT(30) DEF Init, Hiding, Replayed, Withdrawn

\* A TPM is found or not.
LEMMA StartupStep == IInv /\ Startup => IInv'
<1> SUFFICES ASSUME IInv, Startup PROVE IInv'
  OBVIOUS
<1>1. TypeOK'
  BY Zenon DEF Startup, Hiding, Replayed, Unused, Withdrawn, Replays, record,
     tpm, fixed
<1>2. Starting' /\ Hiding'
  BY Zenon DEF Startup, Hiding, Replayed, Unused, Withdrawn, Replays, record,
     tpm, fixed
<1>3. Running'
  BY Zenon DEF Startup, Hiding, Replayed, Unused, Withdrawn, Replays, record,
     tpm, fixed
<1>4. Chain'
  BY Zenon DEF Startup, Hiding, Replayed, Unused, Withdrawn, Replays, record,
     tpm, fixed
<1>5. Replayed' /\ Failing'
  BY Zenon DEF Startup, Hiding, Replayed, Unused, Withdrawn, Replays, record,
     tpm, fixed
<1>6. Locked'
  BY DEF Startup, Hiding, Replayed, Unused, Withdrawn, Replays, record, tpm, fixed
<1> QED
  BY <1>1, <1>2, <1>3, <1>4, <1>5, <1>6

\* Nothing has been logged or extended when measured boot is turned on.
LEMMA PreparedStep == IInv /\ Prepared => IInv'
<1> SUFFICES ASSUME IInv, Prepared PROVE IInv'
  OBVIOUS
<1>1. /\ BootEvents \in Seq(Entry) /\ BootEvents \in Seq(Command)
      /\ <<>> \o BootEvents = Reached("handoff")
  BY Zenon, Lists, Phases, EntryFacts, ConcatEmptySeq
<1>2. ASSUME NEW p \in PCR PROVE Replays(p)'
  <2>1. log' = <<>> /\ pcrs'[p] = <<>>
    BY Zenon, <1>2 DEF Prepared, record, tpm
  <2>2. EventsOf(p, <<>>, <<>>)
    <3>1. [x \in 1 .. 0 |-> 0] \in [1 .. Len(<<>>) -> 1 .. Len(<<>>)]
      OBVIOUS
    <3>2. \A x \in 1 .. Len(<<>>) : FALSE
      OBVIOUS
    <3> QED
      BY <3>1, <3>2, Zenon DEF EventsOf
  <2> QED
    BY Zenon, <2>1, <2>2 DEF Replays
<1> QED
  <2>1. TypeOK'
    BY Zenon, <1>1, <1>2 DEF Prepared, Hiding, Replayed, Withdrawn, record, tpm,
       fixed
  <2>2. Starting' /\ Hiding'
    BY Zenon, <1>1, <1>2 DEF Prepared, Hiding, Replayed, Withdrawn, record, tpm,
       fixed
  <2>3. Running'
    BY Zenon, <1>1, <1>2 DEF Prepared, Hiding, Replayed, Withdrawn, record, tpm,
       fixed
  <2>4. Chain'
    BY Zenon, <1>1, <1>2 DEF Prepared, Hiding, Replayed, Withdrawn, record, tpm,
       fixed
  <2>5. Replayed' /\ Failing'
    BY Zenon, <1>1, <1>2 DEF Prepared, Hiding, Replayed, Withdrawn, record, tpm,
       fixed
  <2>6. Locked'
    BY <1>1, <1>2 DEF Prepared, Hiding, Replayed, Withdrawn, record, tpm, fixed
  <2> QED
    BY Zenon, <2>1, <2>2, <2>3, <2>4, <2>5, <2>6

\* hide_tpm20 begins with all its commands to send.
LEMMA NotPreparedStep == IInv /\ NotPrepared => IInv'
<1> SUFFICES ASSUME IInv, NotPrepared PROVE IInv'
  OBVIOUS
<1>1. CASE family = "tpm20"
  <2>1. Hiding'
    BY <1>1, HideList DEF Hiding, NotPrepared, start, tpm
  <2> QED
    <3>1. TypeOK'
      BY Zenon, <1>1, <2>1, HideList DEF NotPrepared, Replayed, Withdrawn,
         Replays, start, record, tpm, fixed
    <3>2. Starting' /\ Hiding'
      BY Zenon, <1>1, <2>1, HideList DEF NotPrepared, Replayed, Withdrawn,
         Replays, start, record, tpm, fixed
    <3>3. Running'
      BY Zenon, <1>1, <2>1, HideList DEF NotPrepared, Replayed, Withdrawn,
         Replays, start, record, tpm, fixed
    <3>4. Chain'
      BY Zenon, <1>1, <2>1, HideList DEF NotPrepared, Replayed, Withdrawn,
         Replays, start, record, tpm, fixed
    <3>5. Replayed' /\ Failing'
      BY Zenon, <1>1, <2>1, HideList DEF NotPrepared, Replayed, Withdrawn,
         Replays, start, record, tpm, fixed
    <3>6. Locked'
      BY Zenon, <1>1, <2>1, HideList DEF NotPrepared, Replayed, Withdrawn,
         Replays, start, record, tpm, fixed
    <3> QED
      BY Zenon, <3>1, <3>2, <3>3, <3>4, <3>5, <3>6
<1>2. CASE family # "tpm20"
  <2>1. TypeOK'
    BY <1>2, SMTT(30) DEF NotPrepared, Hiding, Replayed, Withdrawn, Replays, start,
       record, tpm, fixed
  <2>2. Starting' /\ Hiding'
    BY Zenon, <1>2 DEF NotPrepared, Hiding, Replayed, Withdrawn, Replays, start,
       record, tpm, fixed
  <2>3. Running'
    BY Zenon, <1>2 DEF NotPrepared, Hiding, Replayed, Withdrawn, Replays, start,
       record, tpm, fixed
  <2>4. Chain'
    BY Zenon, <1>2 DEF NotPrepared, Hiding, Replayed, Withdrawn, Replays, start,
       record, tpm, fixed
  <2>5. Replayed' /\ Failing'
    BY Zenon, <1>2 DEF NotPrepared, Hiding, Replayed, Withdrawn, Replays, start,
       record, tpm, fixed
  <2>6. Locked'
    BY Zenon, <1>2 DEF NotPrepared, Hiding, Replayed, Withdrawn, Replays, start,
       record, tpm, fixed
  <2> QED
    BY Zenon, <2>1, <2>2, <2>3, <2>4, <2>5, <2>6
<1> QED
  BY <1>1, <1>2

\* A command that is sent is carried out, or safe becomes false.
LEMMA HideStep == IInv /\ Hide => IInv'
<1> SUFFICES ASSUME IInv, Hide PROVE IInv'
  OBVIOUS
<1>1. PICK ok \in BOOLEAN :
          /\ IF Head(todo)[2] \in Hierarchy
             THEN Protect(Head(todo)[2], ok)
             ELSE Extend(Head(todo), ok)
          /\ safe' = (safe /\ ok)
  BY Zenon DEF Hide
<1>2. /\ pc = "hide" /\ todo # <<>> /\ todo' = Tail(todo)
      /\ UNCHANGED <<pc, next, kind, capacity, family, on, failed, capFailed, log, caps, taken>>
  BY Zenon DEF Hide, fixed, record
<1>3. Head(todo) \in Command /\ Tail(todo) \in Seq(Command)
  BY <1>2
<1>4. safe' \in BOOLEAN /\ (safe' => safe /\ ok)
  BY <1>1, Zenon
<1>5. guarded' \subseteq Hierarchy \cup {"presence"} /\ guarded \subseteq guarded'
  BY Zenon, <1>1, <1>3 DEF Protect, Extend
<1>6. pcrs' \in [PCR -> Seq(Event)] /\ \A p \in PCR : pcrs[p] # <<>> => pcrs'[p] # <<>>
  <2>1. CASE Head(todo)[2] \in Hierarchy
    BY Zenon, <1>1, <2>1 DEF Protect
  <2>2. CASE Head(todo)[2] \notin Hierarchy
    <3>1. Head(todo)[1] \in PCR /\ Head(todo)[2] \in Event
      BY Zenon, <1>3, <2>2, EntryFacts
    <3> QED
      BY Zenon, <1>1, <2>2, <3>1, ExtendFacts
  <2> QED
    BY Zenon, <2>1, <2>2
<1>7. TypeOK'
  BY <1>2, <1>3, <1>4, <1>5, <1>6
<1>8. Hiding'
  <2>1. SUFFICES ASSUME safe' PROVE /\ \A h \in Hierarchy : h \in guarded' \/ Pending(todo', Disable(h))
                                    /\ \A p \in Capped07 : pcrs'[p] # <<>> \/ Pending(todo', <<p, "separator">>)
    BY Zenon DEF Hiding
  <2>2. safe /\ ok
    BY Zenon, <1>4, <2>1
  <2>3. ASSUME NEW h \in Hierarchy, h \notin guarded' PROVE Pending(todo', Disable(h))
    <3>1. Pending(todo, Disable(h))
      BY Zenon, <1>2, <1>5, <2>2, <2>3 DEF Hiding
    <3>2. CASE Head(todo) = Disable(h)
      <4>1. Head(todo)[2] = h
        BY <3>2 DEF Disable
      <4> QED
        BY Zenon, <1>1, <2>2, <2>3, <4>1 DEF Protect
    <3> QED
      BY Zenon, <1>2, <3>1, <3>2, PendingHead
  <2>4. ASSUME NEW p \in Capped07, pcrs'[p] = <<>> PROVE Pending(todo', <<p, "separator">>)
    <3>1. p \in PCR
      BY DEF PCR, Capped07
    <3>2. Pending(todo, <<p, "separator">>)
      BY Zenon, <1>2, <1>6, <2>2, <2>4, <3>1 DEF Hiding
    <3>3. CASE Head(todo) = <<p, "separator">>
      <4>1. Head(todo)[1] = p /\ Head(todo)[2] = "separator" /\ "separator" \notin Hierarchy
        BY <3>3 DEF Hierarchy
      <4>2. pcrs'[p] = Append(pcrs[p], "separator")
        BY Zenon, <1>1, <2>2, <3>1, <4>1 DEF Extend
      <4> QED
        BY <2>4, <3>1, <4>2, SMTT(30) DEF Event
    <3> QED
      BY Zenon, <1>2, <3>2, <3>3, PendingHead
  <2> QED
    BY Zenon, <2>3, <2>4
<1> QED
  BY <1>2, <1>7, <1>8 DEF Replayed, Withdrawn

\* With nothing left to send and safe, the TPM is hidden.
LEMMA HiddenStep == IInv /\ Hidden => IInv'
<1> SUFFICES ASSUME IInv, Hidden PROVE IInv'
  OBVIOUS
<1>1. safe => Hierarchy \subseteq guarded /\ \A p \in Capped07 : pcrs[p] # <<>>
  BY SMTT(30) DEF Hidden, Hiding, Pending
<1> QED
  <2>1. TypeOK'
    BY Zenon, <1>1 DEF Hidden, Hiding, Replayed, Unused, Withdrawn, Replays,
       start, record, tpm, fixed
  <2>2. Starting' /\ Hiding'
    BY Zenon, <1>1 DEF Hidden, Hiding, Replayed, Unused, Withdrawn, Replays,
       start, record, tpm, fixed
  <2>3. Running'
    BY Zenon, <1>1 DEF Hidden, Hiding, Replayed, Unused, Withdrawn, Replays,
       start, record, tpm, fixed
  <2>4. Chain'
    BY Zenon, <1>1 DEF Hidden, Hiding, Replayed, Unused, Withdrawn, Replays,
       start, record, tpm, fixed
  <2>5. Replayed' /\ Failing'
    BY Zenon, <1>1 DEF Hidden, Hiding, Replayed, Unused, Withdrawn, Replays,
       start, record, tpm, fixed
  <2>6. Locked'
    BY <1>1 DEF Hidden, Hiding, Replayed, Unused, Withdrawn, Replays, start, record,
       tpm, fixed
  <2> QED
    BY Zenon, <2>1, <2>2, <2>3, <2>4, <2>5, <2>6

\* A TPM 1.2 is left with its presence locked, or the machine halts.
LEMMA LockPresenceStep == IInv /\ LockPresence => IInv'
<1> SUFFICES ASSUME IInv, LockPresence PROVE IInv'
  OBVIOUS
<1>1. TypeOK'
  BY DEF LockPresence, Protect, Hiding, Replayed, Unused, Withdrawn, Replays, start,
     record, fixed
<1>2. Starting' /\ Hiding'
  BY Zenon DEF LockPresence, Protect, Hiding, Replayed, Unused, Withdrawn,
     Replays, start, record, fixed
<1>3. Running'
  BY Zenon DEF LockPresence, Protect, Hiding, Replayed, Unused, Withdrawn,
     Replays, start, record, fixed
<1>4. Chain'
  BY Zenon DEF LockPresence, Protect, Hiding, Replayed, Unused, Withdrawn,
     Replays, start, record, fixed
<1>5. Replayed' /\ Failing'
  BY Zenon DEF LockPresence, Protect, Hiding, Replayed, Unused, Withdrawn,
     Replays, start, record, fixed
<1>6. Locked'
  BY Zenon DEF LockPresence, Protect, Hiding, Replayed, Unused, Withdrawn,
     Replays, start, record, fixed
<1> QED
  BY Zenon, <1>1, <1>2, <1>3, <1>4, <1>5, <1>6

\* Before a failure the log and the PCRs grow together.
LEMMA RecordStep == IInv /\ Record => IInv'
<1> SUFFICES ASSUME IInv, Record PROVE IInv'
  OBVIOUS
<1>1. /\ pc = "record" /\ todo # <<>> /\ ~failed /\ todo' = Tail(todo)
      /\ UNCHANGED <<next, kind, capacity, family, on, safe, taken>>
  BY Zenon DEF Record, fixed, start
<1>2. PICK ok \in BOOLEAN :
          /\ Extend(Head(todo), ok)
          /\ IF ok /\ Fits(Head(todo))
             THEN log' = Append(log, Head(todo)) /\ UNCHANGED <<pc, failed, capFailed, caps>>
             ELSE UNCHANGED log /\ Fail
  BY Zenon DEF Record
<1>3. todo \in Seq(Entry) /\ Head(todo) \in Entry /\ Tail(todo) \in Seq(Entry)
  BY <1>1
<1>4. Head(todo)[1] \in PCR /\ Head(todo)[2] \in Event /\ Tail(todo) \in Seq(Command)
  BY Zenon, <1>3, EntryFacts
<1>5. pcrs' \in [PCR -> Seq(Event)] /\ guarded' = guarded
  BY Zenon, <1>2, <1>4, ExtendFacts
<1>6. CASE ok /\ Fits(Head(todo))
  <2>1. log' = Append(log, Head(todo)) /\ UNCHANGED <<pc, failed, capFailed, caps>>
    BY Zenon, <1>2, <1>6
  <2>2. log' \in Seq(Entry) /\ log' \o todo' = log \o todo
    <3>1. log \in Seq(Entry) /\ Append(log, Head(todo)) \in Seq(Entry)
      BY <1>3, SMTT(30)
    <3>2. Append(log, Head(todo)) \o Tail(todo) = log \o todo
      BY <1>1, <1>3, <3>1, MoveHead, ZenonT(60)
    <3> QED
      BY <1>1, <2>1, <3>1, <3>2
  <2>3. pcrs' = [pcrs EXCEPT ![Head(todo)[1]] = Append(@, Head(todo)[2])]
    BY <1>2, <1>4, <1>6, ExtendFacts
  <2>4. \A p \in PCR : Replays(p)'
    BY Zenon, <1>1, <1>3, <2>1, <2>3, ReplayStep DEF Replayed
  <2>5. log' \o todo' = Reached(next')
    BY Zenon, <1>1, <2>2 DEF Reached
  <2> QED
    BY <1>1, <1>3, <1>4, <1>5, <2>1, <2>2, <2>4, <2>5 DEF Hiding, Replayed, Withdrawn
<1>7. CASE ~(ok /\ Fits(Head(todo)))
  <2>1. log' = log /\ failed' = TRUE /\ pc' = "cap" /\ caps' = Each("error") /\ capFailed' = capFailed
    BY Zenon, <1>2, <1>7 DEF Fail
  <2>2. /\ caps' \in Seq(Entry)
        /\ \A i \in 1 .. Len(caps') : caps'[i][2] = "error"
        /\ \A p \in Capped07 : Pending(caps', <<p, "error">>)
    BY Zenon, <2>1, Lists DEF Event
  <2> QED
    BY <1>1, <1>3, <1>4, <1>5, <2>1, <2>2 DEF Hiding, Replayed, Withdrawn
<1> QED
  BY <1>6, <1>7

\* With nothing left to send the log is the chain of its phase.
LEMMA RecordedStep == IInv /\ Recorded => IInv'
<1> SUFFICES ASSUME IInv, Recorded PROVE IInv'
  OBVIOUS
<1>1. /\ pc = "record" /\ pc' = next /\ todo' = <<>> /\ (todo = <<>> \/ failed)
      /\ UNCHANGED <<next, kind, capacity, family, on, safe, failed, capFailed, log, caps, pcrs, guarded, taken>>
  BY Zenon DEF Recorded, fixed, start, record, tpm
<1>2. ~failed => log = Reached(next)
  BY Zenon, <1>1, ConcatEmptySeq
<1>3. \A p \in PCR : Replays(p)' = Replays(p)
  BY Zenon, <1>1 DEF Replays
<1>4. Replayed' /\ Hiding'
  BY Zenon, <1>1, <1>3 DEF Replayed, Hiding
<1>5. Withdrawn' = Withdrawn
  BY Zenon, <1>1 DEF Withdrawn
<1> QED
  <2>1. TypeOK'
    <3>1. todo' \in Seq(Command)
      BY Zenon, <1>1, EmptySeq
    <3>2. pc' \in {"handoff", "lock", "recheck"}
      BY Zenon, <1>1
    <3> QED
      BY ZenonT(30), <1>1, <3>1, <3>2
  <2>2. Starting' /\ Hiding'
    BY Zenon, <1>1, <1>2, <1>4, <1>5, Phases
  <2>3. Running'
    BY Zenon, <1>1, <1>2, <1>4, <1>5, Phases
  <2>4. Chain'
    BY Zenon, <1>1, <1>2, <1>4, <1>5, Phases
  <2>5. Replayed' /\ Failing'
    BY <1>1, <1>2, <1>4, <1>5, Phases
  <2>6. Locked'
    BY <1>1, <1>2, <1>4, <1>5, Phases
  <2> QED
    BY Zenon, <2>1, <2>2, <2>3, <2>4, <2>5, <2>6

\* A capping extend is made, or capFailed becomes true.
LEMMA CapStep == IInv /\ Cap => IInv'
<1> SUFFICES ASSUME IInv, Cap PROVE IInv'
  OBVIOUS
<1>1. /\ pc = "cap" /\ caps # <<>> /\ caps' = Tail(caps) /\ failed
      /\ UNCHANGED <<pc, todo, next, kind, capacity, family, on, safe, failed, taken>>
      /\ log' = IF Fits(Head(caps)) THEN Append(log, Head(caps)) ELSE log
  BY Zenon DEF Cap, flow, fixed, start
<1>2. PICK ok \in BOOLEAN : Extend(Head(caps), ok) /\ capFailed' = (capFailed \/ ~ok)
  BY Zenon DEF Cap
<1>3. capFailed' \in BOOLEAN /\ (~capFailed' => ~capFailed /\ ok)
  BY <1>2, Zenon
<1>4. Head(caps) \in Entry /\ Tail(caps) \in Seq(Entry) /\ log' \in Seq(Entry)
  <2>1. caps \in Seq(Entry) /\ log \in Seq(Entry) /\ \A i \in 1 .. Len(caps) : caps[i][2] = "error"
    BY <1>1, Zenon
  <2>2. Head(caps) \in Entry /\ Tail(caps) \in Seq(Entry)
    BY <1>1, <2>1, ErrorsTail, Zenon
  <2>3. Append(log, Head(caps)) \in Seq(Entry)
    BY <2>1, <2>2, AppendProperties, Zenon
  <2> QED
    BY <1>1, <2>1, <2>2, <2>3, Zenon
<1>5. Head(caps)[1] \in PCR /\ Head(caps)[2] \in Event
  BY <1>4, EntryFacts
<1>6. PICK e : e = Head(caps)
  OBVIOUS
<1>7. /\ pcrs' \in [PCR -> Seq(Event)] /\ guarded' = guarded
      /\ \A p \in PCR : HasError(p) => HasError(p)'
      /\ ok /\ e[2] = "error" => HasError(e[1])'
  <2>1. Extend(e, ok) /\ e[1] \in PCR /\ e[2] \in Event
    BY Zenon, <1>2, <1>5, <1>6
  <2> QED
    BY <2>1, ExtendFacts
<1>8. \A i \in 1 .. Len(caps') : caps'[i][2] = "error"
  <2>1. caps \in Seq(Entry) /\ \A i \in 1 .. Len(caps) : caps[i][2] = "error"
    BY <1>1, Zenon
  <2>2. \A i \in 1 .. Len(Tail(caps)) : Tail(caps)[i][2] = "error"
    BY <1>1, <2>1, ErrorsTail, Zenon
  <2> QED
    BY <1>1, <2>2, Zenon
<1>9. ASSUME ~capFailed', NEW p \in Capped07 PROVE HasError(p)' \/ Pending(caps', <<p, "error">>)
  <2>1. p \in PCR
    BY DEF PCR, Capped07
  <2>2. HasError(p) \/ Pending(caps, <<p, "error">>)
    BY <1>1, <1>3, <1>9
  <2>3. CASE HasError(p)
    BY <1>7, <2>1, <2>3
  <2>4. CASE Pending(caps, <<p, "error">>)
    <3>1. CASE Head(caps) = <<p, "error">>
      <4>1. e[1] = p /\ e[2] = "error"
        BY <1>6, <3>1, SMTT(30)
      <4> QED
        BY <1>3, <1>7, <1>9, <4>1
    <3> QED
      BY <1>1, <2>4, <3>1, PendingHead
  <2> QED
    BY <2>2, <2>3, <2>4
<1>10. Failing'
  BY <1>1, <1>8, <1>9
<1>11. TypeOK'
  BY <1>1, <1>3, <1>4, <1>7
<1> QED
  BY <1>1, <1>7, <1>10, <1>11 DEF Hiding, Replayed

\* With nothing left to cap every PCR holds an error, or capFailed is true.
LEMMA CappedStep == IInv /\ Capped => IInv'
<1> SUFFICES ASSUME IInv, Capped PROVE IInv'
  OBVIOUS
<1>1. /\ pc = "cap" /\ caps = <<>> /\ pc' = "record"
      /\ UNCHANGED <<todo, next, kind, capacity, family, on, safe, failed, capFailed, log, caps, pcrs, guarded, taken>>
  BY Zenon DEF Capped, fixed, start, record, tpm
<1>2. ~capFailed => Withdrawn'
  BY <1>1 DEF Withdrawn, Pending, HasError, Capped07
<1> QED
  BY <1>1, <1>2 DEF Hiding, Replayed

\* The separators of the last handoff follow the firmware's events.
LEMMA HandoffStep == IInv /\ Handoff => IInv'
<1> SUFFICES ASSUME IInv, Handoff PROVE IInv'
  OBVIOUS
<1>1. /\ pc = "handoff"
      /\ UNCHANGED <<kind, capacity, family, on, safe, failed, capFailed, log, caps, pcrs, guarded, taken>>
  BY Zenon DEF Handoff, fixed, start, record, tpm
<1>2. Each("separator") \in Seq(Entry) /\ Each("separator") \in Seq(Command)
  BY Lists, EntryFacts DEF Event
<1>3. Replayed' /\ Hiding' /\ Unused' = Unused /\ Withdrawn' = Withdrawn
  <2>1. Replayed'
    BY Zenon, <1>1 DEF Replayed, Replays
  <2>2. Hiding'
    BY <1>1 DEF Handoff, Hiding
  <2>3. Unused' = Unused /\ Withdrawn' = Withdrawn
    BY <1>1 DEF Unused, Withdrawn
  <2> QED
    BY <2>1, <2>2, <2>3
<1>4. CASE ~on
  <2>1. pc' = "payload" /\ UNCHANGED <<todo, next>>
    BY Zenon, <1>4 DEF Handoff
  <2>2. TypeOK'
    BY <1>1, <1>3, <1>4, <2>1 DEF Unused, LockOf, Hierarchy
  <2>3. Starting' /\ Hiding'
    BY <1>1, <1>3, <1>4, <2>1 DEF Unused, LockOf, Hierarchy
  <2>4. Running'
    BY <1>1, <1>3, <1>4, <2>1 DEF Unused, LockOf, Hierarchy
  <2>5. Chain'
    BY <1>1, <1>3, <1>4, <2>1 DEF Unused, LockOf, Hierarchy
  <2>6. Replayed' /\ Failing'
    BY <1>1, <1>3, <1>4, <2>1 DEF Unused, LockOf, Hierarchy
  <2>7. Locked'
    BY <1>1, <1>3, <1>4, <2>1 DEF Unused, LockOf, Hierarchy
  <2> QED
    BY Zenon, <2>2, <2>3, <2>4, <2>5, <2>6, <2>7
<1>5. CASE on /\ kind = "open"
  <2>1. pc' = "check" /\ UNCHANGED <<todo, next>>
    BY Zenon, <1>5 DEF Handoff
  <2>2. TypeOK'
    BY <1>1, <1>3, <1>5, Phases, <2>1
  <2>3. Starting' /\ Hiding'
    BY <1>1, <1>3, <1>5, Phases, <2>1
  <2>4. Running'
    BY <1>1, <1>3, <1>5, Phases, <2>1
  <2>5. Chain'
    BY <1>1, <1>3, <1>5, Phases, <2>1
  <2>6. Replayed' /\ Failing'
    BY <1>1, <1>3, <1>5, Phases, <2>1
  <2>7. Locked'
    BY <1>1, <1>3, <1>5, Phases, <2>1
  <2> QED
    BY Zenon, <2>2, <2>3, <2>4, <2>5, <2>6, <2>7
<1>6. CASE on /\ kind = "locked"
  <2>1. pc' = "lock" /\ UNCHANGED <<todo, next>>
    BY Zenon, <1>6 DEF Handoff
  <2>2. TypeOK'
    BY <1>1, <1>3, <1>6, Phases, <2>1
  <2>3. Starting' /\ Hiding'
    BY <1>1, <1>3, <1>6, Phases, <2>1
  <2>4. Running'
    BY <1>1, <1>3, <1>6, Phases, <2>1
  <2>5. Chain'
    BY <1>1, <1>3, <1>6, Phases, <2>1
  <2>6. Replayed' /\ Failing'
    BY <1>1, <1>3, <1>6, Phases, <2>1
  <2>7. Locked'
    BY <1>1, <1>3, <1>6, Phases, <2>1
  <2> QED
    BY Zenon, <2>2, <2>3, <2>4, <2>5, <2>6, <2>7
<1>7. CASE on /\ kind = "final"
  <2>1. pc' = "record" /\ todo' = Each("separator") /\ next' = "lock"
    BY <1>7 DEF Handoff
  <2>2. ~failed => log' \o todo' = Reached(next')
    BY <1>1, <1>7, <2>1, Phases
  <2> QED
    BY <1>1, <1>2, <1>3, <1>7, <2>1, <2>2
<1> QED
  BY Zenon, <1>4, <1>5, <1>6, <1>7

\* lock succeeds only with the TPM locked.
LEMMA LockStep == IInv /\ Lock => IInv'
<1> SUFFICES ASSUME IInv, Lock PROVE IInv'
  OBVIOUS
<1>1. /\ pc = "lock" /\ pc' \in {"check", "halt"}
      /\ guarded \subseteq guarded' /\ guarded' \subseteq Hierarchy \cup {"presence"}
      /\ pc' = "check" => LockOf(family) \in guarded'
      /\ UNCHANGED <<todo, next, kind, capacity, family, on, safe, failed, capFailed, log, caps, pcrs, taken>>
  BY Zenon DEF Lock, Protect, LockOf, Hierarchy, fixed, start, record
<1>2. Replayed' /\ Hiding' /\ Withdrawn' = Withdrawn
  BY <1>1 DEF Replayed, Replays, Hiding, Withdrawn
<1> QED
  <2>1. TypeOK'
    BY <1>1, <1>2 DEF Reached
  <2>2. Starting' /\ Hiding'
    BY Zenon, <1>1, <1>2 DEF Reached
  <2>3. Running'
    BY Zenon, <1>1, <1>2 DEF Reached
  <2>4. Chain'
    BY <1>1, <1>2 DEF Reached
  <2>5. Replayed' /\ Failing'
    BY <1>1, <1>2 DEF Reached
  <2>6. Locked'
    BY <1>1, <1>2 DEF Reached
  <2> QED
    BY Zenon, <2>1, <2>2, <2>3, <2>4, <2>5, <2>6

\* check lets nobody pass with a capping extend that failed.
LEMMA CheckStep == IInv /\ Check => IInv'
<1> SUFFICES ASSUME IInv, Check PROVE IInv'
  OBVIOUS
<1>1. /\ pc = "check"
      /\ UNCHANGED <<kind, capacity, family, on, safe, failed, capFailed, log, caps, pcrs, guarded, taken>>
  BY Zenon DEF Check, fixed, start, record, tpm
<1>2. LinuxEvents \in Seq(Entry) /\ LinuxEvents \in Seq(Command)
  BY Lists, EntryFacts
<1>3. Replayed' /\ Hiding' /\ Withdrawn' = Withdrawn
  BY <1>1 DEF Check, Replayed, Replays, Hiding, Withdrawn
<1>4. CASE capFailed
  <2>1. pc' = "halt" /\ UNCHANGED <<todo, next>>
    BY Zenon, <1>4 DEF Check
  <2>2. TypeOK'
    BY <1>1, <1>3, <1>4, <2>1
  <2>3. Starting' /\ Hiding'
    BY <1>1, <1>3, <1>4, <2>1
  <2>4. Running'
    BY <1>1, <1>3, <1>4, <2>1
  <2>5. Chain'
    BY <1>1, <1>3, <1>4, <2>1
  <2>6. Replayed' /\ Failing'
    BY <1>1, <1>3, <1>4, <2>1
  <2>7. Locked'
    BY <1>1, <1>3, <1>4, <2>1
  <2> QED
    BY Zenon, <2>2, <2>3, <2>4, <2>5, <2>6, <2>7
<1>5. CASE ~capFailed /\ kind # "final"
  <2>1. pc' = (IF kind = "open" THEN "payload" ELSE "take") /\ UNCHANGED <<todo, next>>
    BY <1>5 DEF Check
  <2>2. TypeOK'
    BY <1>1, <1>3, <1>5, Phases, <2>1 DEF Expected
  <2>3. Starting' /\ Hiding'
    BY <1>1, <1>3, <1>5, Phases, <2>1 DEF Expected
  <2>4. Running'
    BY <1>1, <1>3, <1>5, Phases, <2>1 DEF Expected
  <2>5. Chain'
    BY <1>1, <1>3, <1>5, Phases, <2>1 DEF Expected
  <2>6. Replayed' /\ Failing'
    BY <1>1, <1>3, <1>5, Phases, <2>1 DEF Expected
  <2>7. Locked'
    BY <1>1, <1>3, <1>5, Phases, <2>1 DEF Expected
  <2> QED
    BY Zenon, <2>2, <2>3, <2>4, <2>5, <2>6, <2>7
<1>6. CASE ~capFailed /\ kind = "final"
  <2>1. pc' = "record" /\ todo' = LinuxEvents /\ next' = "recheck"
    BY <1>6 DEF Check
  <2>2. ~failed => log' \o todo' = Reached(next')
    BY <1>1, <1>6, <2>1, Phases
  <2> QED
    BY <1>1, <1>2, <1>3, <1>6, <2>1, <2>2
<1> QED
  BY <1>4, <1>5, <1>6

\* Neither does the second check.
LEMMA RecheckStep == IInv /\ Recheck => IInv'
<1> SUFFICES ASSUME IInv, Recheck PROVE IInv'
  OBVIOUS
<1>1. /\ pc = "recheck" /\ pc' = IF capFailed THEN "halt" ELSE "payload"
      /\ UNCHANGED <<todo, next, kind, capacity, family, on, safe, failed, capFailed, log, caps, pcrs, guarded, taken>>
  BY Zenon DEF Recheck, fixed, start, record, tpm
<1>2. Replayed' /\ Hiding' /\ Withdrawn' = Withdrawn /\ Expected' = Expected
  BY <1>1 DEF Replayed, Replays, Hiding, Withdrawn, Expected
<1> QED
  BY <1>1, <1>2, Phases

\* A TPM that failed is not handed on.
LEMMA TakeStep == IInv /\ Take => IInv'
<1> SUFFICES ASSUME IInv, Take PROVE IInv'
  OBVIOUS
<1>1. /\ pc = "take" /\ pc' = "payload"
      /\ UNCHANGED <<todo, next, kind, capacity, family, safe, failed, capFailed, log, caps, pcrs, guarded>>
  BY Zenon DEF Take, fixed, record, tpm
<1>2. taken' \in BOOLEAN /\ on' \in BOOLEAN /\ (taken' <=> ~failed) /\ (on' <=> failed)
  BY Zenon DEF Take
<1>3. Replayed' /\ Hiding' /\ Withdrawn' = Withdrawn /\ Expected' = Expected
  BY <1>1, <1>2 DEF Replayed, Replays, Hiding, Withdrawn, Expected
<1> QED
  BY <1>1, <1>2, <1>3, Phases

HIDE DEF IInv, TypeOK, Starting, Running, Chain, Failing, Locked

\* Nothing happens.
LEMMA StutterStep == IInv /\ UNCHANGED vars => IInv'
<1> SUFFICES ASSUME IInv, UNCHANGED vars PROVE IInv'
  OBVIOUS
<1>1. UNCHANGED <<pc, todo, next, kind, capacity, family, on, safe, failed, capFailed, log, caps, pcrs, guarded, taken>>
  BY Zenon DEF vars, flow, fixed, start, record, tpm
<1>2. TypeOK'
  BY <1>1 DEF IInv, TypeOK
<1>3. Starting' /\ Hiding' /\ Running'
  BY Zenon, <1>1 DEF IInv, Starting, Hiding, Running, Unused
<1>4. Chain' /\ Replayed'
  BY Zenon, <1>1 DEF IInv, Chain, Replayed, Replays, Expected
<1>5. Failing' /\ Locked'
  BY Zenon, <1>1 DEF IInv, Failing, Locked, HasError, Withdrawn
<1> QED
  BY Zenon, <1>2, <1>3, <1>4, <1>5 DEF IInv

-----------------------------------------------------------------------------
(* The theorems *)

\* The strengthening holds in every behaviour.
THEOREM Inductive == Spec => []IInv
<1>1. ASSUME IInv, [Next]_vars PROVE IInv'
  BY <1>1, StartupStep, PreparedStep, NotPreparedStep, HideStep, HiddenStep,
     LockPresenceStep, RecordStep, RecordedStep, CapStep, CappedStep, HandoffStep,
     LockStep, CheckStep, RecheckStep, TakeStep, StutterStep, Zenon DEF Next
<1> QED
  BY <1>1, InitHolds, PTL DEF Spec

\* Whatever the TPM answers and however small the log area is, a payload runs
\* on a TPM that vouches for the complete boot or for none of it (start,
\* record, fail, check, handoff).
THEOREM Vouches == Spec => []VouchesForAllOrNothing
<1>1. IInv => VouchesForAllOrNothing
  <2> SUFFICES ASSUME IInv, pc = "payload"
               PROVE  \/ (on \/ taken) /\ ~failed /\ Attested
                      \/ on /\ failed /\ Withdrawn
                      \/ ~on /\ ~taken /\ Unused
    BY Zenon DEF VouchesForAllOrNothing, Unused, Capped07
  <2>1. CASE (on \/ taken) /\ ~failed
    BY Zenon, <2>1 DEF IInv, Chain, Replayed, Attested
  <2>2. CASE failed
    BY Zenon, <2>2 DEF IInv, Running, Failing
  <2>3. CASE ~on /\ ~taken
    BY Zenon, <2>3 DEF IInv, Running
  <2> QED
    BY Zenon, <2>1, <2>2, <2>3
<1> QED
  BY <1>1, Inductive, PTL

\* A payload that fstart has to lock the TPM for finds it locked (lock, start,
\* handoff).
THEOREM Locks == Spec => []OsFindsTpmLocked
<1>1. IInv => OsFindsTpmLocked
  BY Zenon DEF IInv, Locked, LockOf, OsFindsTpmLocked
<1> QED
  BY <1>1, Inductive, PTL

\* Nothing but error separators is logged or extended after a failure
\* (record, fail).
THEOREM Final == Spec => FailureIsFinal
<1> DEFINE Step == failed => /\ log' # log => log'[Len(log')][2] = "error"
                             /\ \A p \in PCR : pcrs'[p] # pcrs[p] => pcrs'[p][Len(pcrs'[p])] = "error"
<1>1. ASSUME IInv, failed, Next PROVE Step
  <2>1. CASE Cap
    <3>1. PICK e : e = Head(caps)
      OBVIOUS
    <3>2. /\ pcrs \in [PCR -> Seq(Event)] /\ log \in Seq(Entry)
          /\ caps \in Seq(Entry) /\ caps # <<>> /\ pc = "cap"
      BY Zenon, <1>1, <2>1 DEF Cap, IInv, TypeOK
    <3>3. e \in Entry /\ e = caps[1] /\ 1 \in 1 .. Len(caps)
      BY <3>1, <3>2
    <3>4. e[1] \in PCR /\ e[2] = "error" /\ "error" \in Event
      BY Zenon, <1>1, <3>2, <3>3, EntryFacts DEF IInv, Failing, Event
    <3>5. \E ok \in BOOLEAN : Extend(e, ok)
      BY Zenon, <2>1, <3>1 DEF Cap
    <3>6. \A p \in PCR : pcrs'[p] # pcrs[p] => pcrs'[p][Len(pcrs'[p])] = "error"
      BY <3>2, <3>4, <3>5, ExtendFacts
    <3>7. log' = log \/ log' = Append(log, e)
      BY Zenon, <2>1, <3>1 DEF Cap
    <3>8. Append(log, e)[Len(Append(log, e))] = e
      BY <3>2, <3>3
    <3> QED
      BY Zenon, <3>4, <3>6, <3>7, <3>8
  <2>2. CASE ~Cap
    <3>1. pc # "hide"
      BY Zenon, <1>1 DEF IInv, Running, Starting
    <3>2. log' = log /\ pcrs' = pcrs
      BY <1>1, <2>2, <3>1 DEF Next, Startup, Prepared, NotPrepared, Hide, Hidden,
         LockPresence, Record, Recorded, Capped, Handoff, Lock, Check, Recheck,
         Take, Protect, record, tpm
    <3> QED
      BY Zenon, <3>2
  <2> QED
    BY Zenon, <2>1, <2>2
<1>2. ASSUME IInv, [Next]_vars PROVE [Step]_vars
  BY Zenon, <1>1, <1>2
<1> QED
  BY <1>2, Inductive, PTL DEF Spec, FailureIsFinal
=============================================================================
