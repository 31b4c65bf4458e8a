-------------------------- MODULE NumberAllocator --------------------------
(***************************************************************************)
(* What the object reference store promises (docs/adr/0011): every device  *)
(* object gets one number, no number ever stands for two objects, and a    *)
(* number that somebody was told is never forgotten.                       *)
(***************************************************************************)
EXTENDS Integers

CONSTANT IDs    \* device objects

VARIABLES
    assigned,   \* the pairs <<number, id>> in force
    next,       \* the next number to hand out
    issued      \* the pairs somebody was told

allocatorVars == <<assigned, next, issued>>

AllocatorInit == assigned = {} /\ next = 0 /\ issued = {}

\* New objects get numbers that were never used.
Reserve ==
    /\ assigned \subseteq assigned' /\ next' \in Nat /\ next <= next'
    /\ \A p \in assigned' \ assigned : next <= p[1] /\ p[1] < next' /\ p[2] \in IDs
    /\ \A p, q \in assigned' : p[1] = q[1] <=> p[2] = q[2]
    /\ UNCHANGED issued

Tell ==
    /\ issued \subseteq issued' /\ issued' \subseteq assigned
    /\ UNCHANGED <<assigned, next>>

AllocatorNext == Reserve \/ Tell

AllocatorSpec == AllocatorInit /\ [][AllocatorNext]_allocatorVars
=============================================================================
