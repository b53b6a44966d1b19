------------------------------- MODULE MCHeap -------------------------------
(***************************************************************************)
(* Small heaps.  A page has 8 units and a header 1 (512 and 1 words in the *)
(* kernel); the smallest chunk has 4, as there.                            *)
(***************************************************************************)
EXTENDS Heap

\* A chunk of minimal size, and one that with its header has the size of a page.
MCSmall == {2, 7}

\* A chunk of minimal size, and one that with its header has the size of two pages:
\* the heap grows by several pages at once, meets a stack between two of them, and
\* behind a stack needs a header more than it has counted with.
MCLarge == {2, 15}

=============================================================================
