------------------------------ MODULE MCSwitch ------------------------------
(* Instances of Switch: two task slots, so that each can be switched away    *)
(* from, exit and be loaded again while the other waits in a system call.    *)
EXTENDS Switch
=============================================================================
