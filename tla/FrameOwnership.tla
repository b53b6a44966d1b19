--------------------------- MODULE FrameOwnership ---------------------------
(***************************************************************************)
(* What the page allocator promises the rest of the kernel: every physical *)
(* frame is reserved, free or owned by one address space.  The kernel and  *)
(* a task are granted free frames, never another owner's; the kernel gives *)
(* back frames one by one; a task's frames become free all together, when  *)
(* its address space is destroyed, and not before.                         *)
(***************************************************************************)
EXTENDS Naturals, FiniteSets

CONSTANTS Frames, Reserved, Kernel, Spaces, MaxGrant

VARIABLES
    free,       \* the frames nobody has
    owned       \* the frames of each address space

vars == <<free, owned>>

Owners == Spaces \cup {Kernel}

Init ==
    /\ free = Frames \ Reserved
    /\ owned = [a \in Owners |-> {}]

\* A call grants at most a page and the tables that lead to it.
Grant(a) ==
    LET granted == free \ free'
    IN  /\ Cardinality(granted) \in 1 .. MaxGrant
        /\ free' = free \ granted
        /\ owned' = [owned EXCEPT ![a] = @ \cup granted]

GiveBack ==
    \E f \in owned[Kernel] :
        /\ free' = free \cup {f}
        /\ owned' = [owned EXCEPT ![Kernel] = @ \ {f}]

Release(a) ==
    /\ free' = free \cup owned[a]
    /\ owned' = [owned EXCEPT ![a] = {}]

Next ==
    \/ \E a \in Owners : Grant(a)
    \/ GiveBack
    \/ \E a \in Spaces : Release(a)

Spec == Init /\ [][Next]_vars
=============================================================================
