------------------------------ MODULE MCPaging ------------------------------
(***************************************************************************)
(* A machine of 18 frames: 6 reserved by the kernel, 3 by the memory map,  *)
(* 7 that the allocator finds, and 2 in the last, partial byte of the      *)
(* bitmap.  Two address spaces and a user page of one of them take all 7.  *)
(***************************************************************************)
EXTENDS Paging, TLC

CONSTANTS A, B

MCBootPages == {1, 2, 3, 4}
MCMbiReserved == {7, 8, 9}
MCSpaces == {A, B}
Symmetry == Permutations(MCSpaces)
MCUserPages == {<<1, 0, 0>>, <<1, 1, 0>>}
MCHeapPages == {<<0, 1, 0>>}
=============================================================================
