------------------------------ MODULE DiskReads -----------------------------
(***************************************************************************)
(* What diskRead (kernel/disk/disk.cpp) promises to the file system: a     *)
(* request is answered once, with the bytes that are on the disk, or with  *)
(* a failure, or, when the drive reported an error while it was served,    *)
(* with any bytes.  Module Ata is the driver that keeps this promise.      *)
(***************************************************************************)
CONSTANTS
    Readers,        \* who calls diskRead: boot() and the tasks in system calls
    Bytes(_)        \* what is on the disk where a request says

VARIABLES
    asked,          \* the request of each reader that is not answered yet, or Nothing
    answer,         \* the last answer to each reader
    driveErr        \* the readers during whose request the drive reported an error

diskVars == <<asked, answer, driveErr>>

Nothing == [none |-> TRUE]
Failure == [ok |-> FALSE]
Success(b) == [ok |-> TRUE, bytes |-> b]

DiskInit ==
    /\ asked = [t \in Readers |-> Nothing]
    /\ answer = [t \in Readers |-> Failure]
    /\ driveErr = {}

Ask(t, r) ==
    /\ asked[t] = Nothing
    /\ asked' = [asked EXCEPT ![t] = r]
    /\ driveErr' = driveErr \ {t}
    /\ UNCHANGED answer

DriveError(t) ==
    /\ asked[t] # Nothing
    /\ driveErr' = driveErr \cup {t}
    /\ UNCHANGED <<asked, answer>>

\* The answer is a.
Answer(t, a) ==
    /\ asked[t] # Nothing
    /\ a = Success(Bytes(asked[t])) \/ a = Failure \/ (t \in driveErr /\ a.ok)
    /\ asked' = [asked EXCEPT ![t] = Nothing]
    /\ answer' = [answer EXCEPT ![t] = a]
    /\ UNCHANGED driveErr

=============================================================================
