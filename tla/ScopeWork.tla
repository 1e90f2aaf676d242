----------------------------- MODULE ScopeWork -----------------------------
(***************************************************************************)
(* What MpHandle::scope promises its callers: one closure at a time is     *)
(* handed out, every CPU the call addresses runs it exactly once, and the  *)
(* call returns only when nobody can touch the closure any more.           *)
(***************************************************************************)
EXTENDS Naturals

CONSTANTS CPU,       \* the logical CPUs, the boot CPU included
          BSP,       \* the boot CPU
          Closure    \* the closures handed to the scope, numbered from 1

NoWork == 0

Kind == {"broadcast", "scatter", "rendezvous", "run_on"}

VARIABLES work,      \* the closure the scope has lent out, or NoWork
          kind,      \* the method that lent it, "none" between calls
          left,      \* the CPUs that still have to run it
          running    \* the closure each CPU is running, or NoWork

vars == <<work, kind, left, running>>

Init ==
    /\ work = NoWork
    /\ kind = "none"
    /\ left = {}
    /\ running = [c \in CPU |-> NoWork]

\* The CPUs a method may address.
Addressed(k) ==
    CASE k = "broadcast" -> {CPU \ {BSP}}
      [] k \in {"scatter", "rendezvous"} -> {CPU}
      [] k = "run_on" -> {{c} : c \in CPU \ {BSP}}

Lend(f, k) ==
    /\ work = NoWork
    /\ \E T \in Addressed(k) : left' = T
    /\ work' = f
    /\ kind' = k
    /\ UNCHANGED running

\* In a scatter the boot CPU comes last, after every AP has finished.
Begin(c) ==
    /\ c \in left
    /\ kind = "scatter" /\ c = BSP
         => left = {BSP} /\ \A d \in CPU : running[d] = NoWork
    /\ left' = left \ {c}
    /\ running' = [running EXCEPT ![c] = work]
    /\ UNCHANGED <<work, kind>>

Finish(c) ==
    /\ running[c] # NoWork
    /\ running' = [running EXCEPT ![c] = NoWork]
    /\ UNCHANGED <<work, kind, left>>

Return ==
    /\ work # NoWork
    /\ left = {}
    /\ \A c \in CPU : running[c] = NoWork
    /\ work' = NoWork
    /\ kind' = "none"
    /\ UNCHANGED <<left, running>>

Next ==
    \/ \E f \in Closure, k \in Kind : Lend(f, k)
    \/ \E c \in CPU : Begin(c) \/ Finish(c)
    \/ Return

Spec == Init /\ [][Next]_vars

============================================================================
