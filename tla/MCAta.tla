-------------------------------- MODULE MCAta -------------------------------
(* Instances of Ata: sectors of two words; the driver accepts the first four, *)
(* the registers address eight, and an int counts from -8 to 7.               *)
EXTENDS Ata

\* Across a sector boundary, a whole sector, inside one, beyond the sectors that the
\* driver accepts, and at the first and the last sector of which the int is negative.
MCRequests ==
    {[offset |-> 1, count |-> 2], [offset |-> 2, count |-> 2],
     [offset |-> 7, count |-> 1], [offset |-> 7, count |-> 2],
     [offset |-> 16, count |-> 1], [offset |-> 31, count |-> 2]}

=============================================================================
