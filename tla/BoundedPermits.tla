--------------------------- MODULE BoundedPermits ---------------------------
(***************************************************************************)
(* What the Nervus Kernel relies on when it guards Turns, ModelCalls and   *)
(* ToolCalls with a Semaphore (docs/ARCHITECTURE.md, section 15): at most  *)
(* Limit holders, no permit idle while somebody waits, and a freed permit  *)
(* goes to a waiter, never to a newcomer.  The order in which waiters are  *)
(* served and the way the permits are counted are left to Semaphore.tla.   *)
(***************************************************************************)
EXTENDS Naturals, FiniteSets

CONSTANTS Callers, Limit

VARIABLES waiting, holding

vars == <<waiting, holding>>

Full == Cardinality(holding) >= Limit

Init == waiting = {} /\ holding = {}

\* A caller is admitted at once while a permit is free; nobody waits then.
Admit(c) ==
  /\ c \notin waiting \cup holding
  /\ ~Full
  /\ waiting = {}
  /\ holding' = holding \cup {c}
  /\ UNCHANGED waiting

Enqueue(c) ==
  /\ c \notin waiting \cup holding
  /\ Full
  /\ waiting' = waiting \cup {c}
  /\ UNCHANGED holding

\* A waiter gives up: it never holds the permit it asked for.
Withdraw(c) ==
  /\ c \in waiting
  /\ waiting' = waiting \ {c}
  /\ UNCHANGED holding

\* The permit of c passes to the waiter d in one step.
HandOver(c, d) ==
  /\ c \in holding
  /\ d \in waiting
  /\ holding' = (holding \ {c}) \cup {d}
  /\ waiting' = waiting \ {d}

Leave(c) ==
  /\ c \in holding
  /\ waiting = {}
  /\ holding' = holding \ {c}
  /\ UNCHANGED waiting

Next ==
  \E c \in Callers :
    \/ Admit(c)
    \/ Enqueue(c)
    \/ Withdraw(c)
    \/ Leave(c)
    \/ \E d \in Callers : HandOver(c, d)

Spec == Init /\ [][Next]_vars
=============================================================================
