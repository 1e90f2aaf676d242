---------------------------- MODULE MpDispatch ----------------------------
(***************************************************************************)
(* The mailboxes through which the boot CPU hands work to the APs after    *)
(* bring-up: the methods of Scope, ap_mailbox_loop, and the two calls that *)
(* park the APs before a payload starts.                                   *)
(*                                                                         *)
(* Mailbox m belongs to AP m + 1.  A store or a load of a mailbox field is *)
(* one step; the release store of func and the acquire load of it order    *)
(* data around them, so steps interleave without reordering.               *)
(***************************************************************************)
EXTENDS MpHandle

CONSTANT MaxCalls      \* bound: the scope methods called in one boot

ASSUME DispatchAssumption == MaxCalls \in Nat

Mailbox == 0..(num_aps - 1)
Closure == 1..MaxCalls
NoWork == 0
Method == {"broadcast", "scatter", "rendezvous", "run_on"}

VARIABLES
    bsp,       \* where the boot CPU is
    calls,     \* the number of scope methods called, which names the closure
    kind,      \* the method each closure is given to
    target,    \* the mailboxes the current method addresses
    todo,      \* those the loop the boot CPU is in still has to visit
    parked,    \* outcome of the last parking call: "no" before the first
    func,      \* ApMailbox::func: "idle", "trampoline" or "park_cpu"
    data,      \* ApMailbox::data: a closure, 0 when null
    ap,        \* where the AP of each mailbox is
    apFunc,    \* the func that AP has loaded
    apData,    \* the data that AP has loaded
    arrived    \* the CPUs that have arrived inside a rendezvous closure

bspVars == <<bsp, calls, kind, target, todo, parked>>
apVars == <<ap, apFunc, apData>>
vars == <<bsp, calls, kind, target, todo, parked, func, data, ap, apFunc, apData,
          arrived>>

Loop == {"data", "func", "wait", "wait_again"}
InCall == Loop \cup {"self", "run", "meet"}

TypeOK ==
    /\ bsp \in InCall \cup {"idle", "park", "park_wait", "handoff",
                            "handoff_wait", "payload"}
    /\ calls \in 0..MaxCalls
    /\ kind \in [Closure -> Method]
    /\ target \subseteq Mailbox /\ todo \subseteq Mailbox
    /\ parked \in {"no", "true", "false"}
    /\ func \in [Mailbox -> {"idle", "trampoline", "park_cpu"}]
    /\ data \in [Mailbox -> 0..MaxCalls]
    /\ ap \in [Mailbox -> {"poll", "got", "call", "run", "meet", "done", "hlt"}]
    /\ apFunc \in [Mailbox -> {"idle", "trampoline", "park_cpu"}]
    /\ apData \in [Mailbox -> 0..MaxCalls]
    /\ arrived \in Nat

\* mp_init has returned Ok: every AP polls its own empty mailbox.
Init ==
    /\ bsp = "idle"
    /\ calls = 0
    /\ kind \in [Closure -> Method]
    /\ target = {} /\ todo = {}
    /\ parked = "no"
    /\ func = [m \in Mailbox |-> "idle"]
    /\ data = [m \in Mailbox |-> 0]
    /\ ap = [m \in Mailbox |-> "poll"]
    /\ apFunc = [m \in Mailbox |-> "idle"]
    /\ apData = [m \in Mailbox |-> 0]
    /\ arrived = 0

-----------------------------------------------------------------------------
(* The boot CPU: the methods of Scope *)

\* Enter a loop over the mailboxes of T, or go on when there are none.
Enter(loop, T, next) ==
    /\ bsp' = IF T = {} THEN next ELSE loop
    /\ todo' = T

\* The loop's next mailbox, in index order.
First(m) == m \in todo /\ \A n \in todo : m <= n

\* Visit m; after the last mailbox the loop over T called `loop` comes next.
Visit(m, loop, T) ==
    IF todo = {m} THEN Enter(loop, T, loop)
    ELSE bsp' = bsp /\ todo' = todo \ {m}

\* A method is called with a closure of its own.  Scope methods are called
\* before the APs are parked.
Call(T, next) ==
    /\ bsp = "idle" /\ parked = "no" /\ calls < MaxCalls
    /\ calls' = calls + 1
    /\ target' = T
    /\ Enter("data", T, next)
    /\ arrived' = 0
    /\ UNCHANGED <<kind, parked, func, data, apVars>>

broadcast ==
    /\ calls < MaxCalls /\ kind[calls + 1] = "broadcast"
    /\ Call(Mailbox, "idle")

scatter ==
    /\ calls < MaxCalls /\ kind[calls + 1] = "scatter"
    /\ Call(Mailbox, "self")

rendezvous ==
    /\ calls < MaxCalls /\ kind[calls + 1] = "rendezvous"
    /\ Call(Mailbox, "self")

\* An AP number out of range makes the call return at once.
run_on(n) ==
    /\ calls < MaxCalls /\ kind[calls + 1] = "run_on"
    /\ Call({n - 1} \cap Mailbox, "idle")

\* start_all's first loop.
StoreData(m) ==
    /\ bsp = "data" /\ First(m)
    /\ data' = [data EXCEPT ![m] = calls]
    /\ Visit(m, "func", target)
    /\ UNCHANGED <<calls, kind, target, parked, func, apVars, arrived>>

\* Mutant: rendezvous goes through dispatch_all, as scatter does.
StoreFunc_WaitFirst(m) ==
    /\ bsp = "func" /\ First(m)
    /\ func' = [func EXCEPT ![m] = "trampoline"]
    /\ Visit(m, "wait", target)
    /\ UNCHANGED <<calls, kind, target, parked, data, apVars, arrived>>

\* start_all's second loop.  A rendezvous then joins in, the others wait.
StoreFunc(m) ==
    /\ bsp = "func" /\ First(m)
    /\ func' = [func EXCEPT ![m] = "trampoline"]
    /\ IF kind[calls] = "rendezvous" THEN Visit(m, "self", {}) ELSE Visit(m, "wait", target)
    /\ UNCHANGED <<calls, kind, target, parked, data, apVars, arrived>>

\* The next mailbox is idle.  The last one ends a broadcast or run_on, and lets
\* the boot CPU take its own turn in a scatter.
Waited(m) ==
    IF bsp = "wait" THEN Visit(m, IF kind[calls] = "scatter" THEN "self" ELSE "idle", {})
    ELSE bsp' = bsp /\ todo' = todo \ {m}

\* Mutant: wait_all looks at each mailbox once.
WaitIdle_Once(m) ==
    /\ bsp \in {"wait", "wait_again"} /\ First(m)
    /\ Waited(m)
    /\ UNCHANGED <<calls, kind, target, parked, func, data, apVars, arrived>>

\* wait_all spins on one mailbox after the other.
WaitIdle(m) ==
    /\ bsp \in {"wait", "wait_again"} /\ First(m)
    /\ func[m] = "idle"
    /\ Waited(m)
    /\ UNCHANGED <<calls, kind, target, parked, func, data, apVars, arrived>>

\* The boot CPU calls f(0) itself.
BspBegin ==
    /\ bsp = "self"
    /\ bsp' = "run"
    /\ UNCHANGED <<calls, kind, target, todo, parked, func, data, apVars, arrived>>

BspArrive ==
    /\ bsp = "run" /\ kind[calls] = "rendezvous"
    /\ bsp' = "meet"
    /\ arrived' = arrived + 1
    /\ UNCHANGED <<calls, kind, target, todo, parked, func, data, apVars>>

BspEnd ==
    /\ \/ bsp = "run" /\ kind[calls] # "rendezvous"
       \/ bsp = "meet" /\ arrived = num_aps + 1
    /\ bsp' = "wait_again" /\ todo' = Mailbox
    /\ UNCHANGED <<calls, kind, target, parked, func, data, apVars, arrived>>

\* scatter and rendezvous return, at once when there are no APs.
Returned ==
    /\ bsp = "wait_again" /\ todo = {}
    /\ bsp' = "idle"
    /\ UNCHANGED <<calls, kind, target, todo, parked, func, data, apVars, arrived>>

-----------------------------------------------------------------------------
(* The boot CPU: parking *)

park_aps ==
    /\ bsp = "idle" /\ parked = "no"
    /\ IF num_aps = 0 THEN bsp' = "idle" /\ parked' = "true"
       ELSE bsp' = "park" /\ UNCHANGED parked
    /\ todo' = Mailbox
    /\ UNCHANGED <<calls, kind, target, func, data, apVars, arrived>>

park_aps_for_payload ==
    /\ bsp = "idle"
    /\ IF num_aps = 0 THEN bsp' = "payload" /\ parked' = "true"
       ELSE bsp' = "handoff" /\ UNCHANGED parked
    /\ todo' = Mailbox
    /\ UNCHANGED <<calls, kind, target, func, data, apVars, arrived>>

\* Mutant: the parking loop starts at mailbox 1.
StorePark_FromOne(m) ==
    /\ bsp \in {"park", "handoff"} /\ First(m)
    /\ func' = IF m = 0 THEN func ELSE [func EXCEPT ![m] = "park_cpu"]
    /\ Visit(m, IF bsp = "park" THEN "park_wait" ELSE "handoff_wait", {})
    /\ UNCHANGED <<calls, kind, target, parked, data, apVars, arrived>>

\* data and then func are stored; nobody reads data while func is idle.
StorePark(m) ==
    /\ bsp \in {"park", "handoff"} /\ First(m)
    /\ data' = [data EXCEPT ![m] = 0]
    /\ func' = [func EXCEPT ![m] = "park_cpu"]
    /\ Visit(m, IF bsp = "park" THEN "park_wait" ELSE "handoff_wait", {})
    /\ UNCHANGED <<calls, kind, target, parked, apVars, arrived>>

\* Mutant: one idle mailbox is taken for all.
wait_for_aps_parked_Any ==
    /\ bsp \in {"park_wait", "handoff_wait"}
    /\ \/ (\E m \in Mailbox : func[m] = "idle") /\ parked' = "true"
       \/ (\E m \in Mailbox : func[m] # "idle") /\ parked' = "false"
    /\ bsp' = IF bsp = "park_wait" THEN "idle" ELSE "payload"
    /\ UNCHANGED <<calls, kind, target, todo, func, data, apVars, arrived>>

\* wait_for_aps_parked: the scan finds every mailbox idle, or time runs out.
wait_for_aps_parked ==
    /\ bsp \in {"park_wait", "handoff_wait"}
    /\ \/ (\A m \in Mailbox : func[m] = "idle") /\ parked' = "true"
       \/ (\E m \in Mailbox : func[m] # "idle") /\ parked' = "false"
    /\ bsp' = IF bsp = "park_wait" THEN "idle" ELSE "payload"
    /\ UNCHANGED <<calls, kind, target, todo, func, data, apVars, arrived>>

-----------------------------------------------------------------------------
(* An AP: ap_mailbox_loop *)

Move(m, from, to) == ap[m] = from /\ ap' = [ap EXCEPT ![m] = to]

LoadFunc(m) ==
    /\ func[m] # "idle"
    /\ Move(m, "poll", "got")
    /\ apFunc' = [apFunc EXCEPT ![m] = func[m]]
    /\ UNCHANGED <<bspVars, func, data, apData, arrived>>

LoadData(m) ==
    /\ Move(m, "got", "call")
    /\ apData' = [apData EXCEPT ![m] = data[m]]
    /\ UNCHANGED <<bspVars, func, data, apFunc, arrived>>

\* trampoline_void and trampoline_indexed call the closure.
ApBegin(m) ==
    /\ apFunc[m] = "trampoline"
    /\ Move(m, "call", "run")
    /\ UNCHANGED <<bspVars, func, data, apFunc, apData, arrived>>

ApArrive(m) ==
    /\ Move(m, "run", "meet")
    /\ kind[apData[m]] = "rendezvous"
    /\ arrived' = arrived + 1
    /\ UNCHANGED <<bspVars, func, data, apFunc, apData>>

ApEnd(m) ==
    /\ \/ ap[m] = "run" /\ kind[apData[m]] # "rendezvous"
       \/ ap[m] = "meet" /\ arrived = num_aps + 1
    /\ ap' = [ap EXCEPT ![m] = "done"]
    /\ UNCHANGED <<bspVars, func, data, apFunc, apData, arrived>>

\* Mutant: the completion store is forgotten.
Complete_Silent(m) ==
    /\ Move(m, "done", "poll")
    /\ UNCHANGED <<bspVars, func, data, apFunc, apData, arrived>>

Complete(m) ==
    /\ Move(m, "done", "poll")
    /\ func' = [func EXCEPT ![m] = "idle"]
    /\ UNCHANGED <<bspVars, data, apFunc, apData, arrived>>

\* park_cpu acknowledges for itself, since it never returns to the loop.
park_cpu(m) ==
    /\ apFunc[m] = "park_cpu"
    /\ Move(m, "call", "hlt")
    /\ func' = [func EXCEPT ![m] = "idle"]
    /\ UNCHANGED <<bspVars, data, apFunc, apData, arrived>>

-----------------------------------------------------------------------------

Methods ==
    \/ broadcast \/ scatter \/ rendezvous
    \/ \E n \in 0..(num_aps + 1) : run_on(n)
    \/ park_aps \/ park_aps_for_payload

BspStep ==
    \/ \E m \in Mailbox : StoreData(m) \/ StoreFunc(m) \/ WaitIdle(m) \/ StorePark(m)
    \/ BspBegin \/ BspArrive \/ BspEnd \/ Returned
    \/ wait_for_aps_parked

ApNext(m) ==
    \/ LoadFunc(m) \/ LoadData(m) \/ ApBegin(m) \/ ApArrive(m) \/ ApEnd(m)
    \/ Complete(m) \/ park_cpu(m)

Next == Methods \/ BspStep \/ \E m \in Mailbox : ApNext(m)

Spec == Init /\ [][Next]_vars

\* Every CPU keeps executing instructions inside a call, and closures return.
\* Nothing makes the boot CPU call another method.
FairSpec == Spec /\ WF_vars(BspStep) /\ \A m \in Mailbox : WF_vars(ApNext(m))

-----------------------------------------------------------------------------
(* Properties *)

\* The scope as its callers see it.
work == IF bsp \in InCall THEN calls ELSE NoWork

\* A CPU has yet to begin: its store is still to come, or it has not called
\* the trampoline it was sent.
Pending(m) ==
    /\ m \in target
    /\ \/ bsp = "data"
       \/ bsp = "func" /\ m \in todo
       \/ func[m] = "trampoline" /\ ap[m] \in {"poll", "got", "call"}

left ==
    {c \in CPU :
        IF c = BSP
        THEN /\ bsp \in {"data", "func", "wait", "self"}
             /\ kind[calls] \in {"scatter", "rendezvous"}
        ELSE bsp \in InCall /\ Pending(c - 1)}

running ==
    [c \in CPU |->
        IF c = BSP THEN IF bsp \in {"run", "meet"} THEN calls ELSE NoWork
        ELSE IF ap[c - 1] \in {"run", "meet"} THEN apData[c - 1] ELSE NoWork]

Scope == INSTANCE ScopeWork
         WITH kind <- IF bsp \in InCall THEN kind[calls] ELSE "none"

\* Scope's documentation, "All dispatched work completes before `scope`
\* returns" (mp.rs): the mailboxes implement ScopeWork, so every addressed CPU
\* runs the closure of the current call exactly once, no other CPU runs it,
\* and the boot CPU runs a scatter's closure last.
ScopeSpec == Scope!Spec

\* An AP past its load of func holds what the boot CPU sent it, and the boot
\* CPU still waits for it: neither a closure whose call has returned nor the
\* data of another call can reach a trampoline.
BorrowEnds ==
    \A m \in Mailbox :
        /\ ap[m] \in {"got", "call", "run", "meet", "done"} => func[m] = apFunc[m]
        /\ ap[m] \in {"call", "run", "meet"} => apData[m] = data[m]
        /\ func[m] = "trampoline" => bsp \in InCall /\ data[m] = calls

\* When a parking call reports success every AP has left the mailbox loop for
\* good, which is what the payload's own INIT/SIPI sequence relies on.
ParkedMeansHalted ==
    parked = "true" => \A m \in Mailbox : ap[m] = "hlt"

\* Every method of Scope and both parking calls return.
MethodsReturn == bsp # "idle" ~> bsp \in {"idle", "payload"}

\* A parking call that timed out is still obeyed by the slow APs.
LateApsHalt == parked # "no" ~> \A m \in Mailbox : ap[m] = "hlt"

=============================================================================
