------------------------------- MODULE MCTasks ------------------------------
(***************************************************************************)
(* Small instances of the task manager.  An image has no segment, or one   *)
(* that takes a page; it is accepted or refused after that page is mapped. *)
(***************************************************************************)
EXTENDS Tasks

MCBootPages == {1, 2, 3, 4}
MCMbiReserved == {7, 8, 9, 10, 11}
MCSpaces2 == 1 .. 2
MCPage == <<1, 1, 1>>
MCStack == <<1, 1, 0>>
MCFault == {<<1, 0, 0>>}

\* Every kind of image.
MCImages == {[page |-> NullPtr, good |-> TRUE],
             [page |-> MCPage, good |-> TRUE],
             [page |-> MCPage, good |-> FALSE]}
=============================================================================
