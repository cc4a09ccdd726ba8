----------------------------- MODULE ByteStream -----------------------------
(***************************************************************************)
(* What a program that copies a file through other processes promises: the *)
(* output is at every moment the beginning of the file, no more than       *)
(* Window elements are on their way, and success is reported only when all *)
(* of them have arrived.                                                   *)
(***************************************************************************)
EXTENDS Integers, Sequences

CONSTANTS File, Window

VARIABLES
    taken,   \* elements read from the file
    out,     \* the output
    done     \* has some process reported success?

vars == <<taken, out, done>>

Init == taken = 0 /\ out = <<>> /\ done = FALSE

Take ==
    /\ taken' \in taken + 1 .. Len(File)
    /\ taken' - Len(out) <= Window
    /\ UNCHANGED <<out, done>>

Emit ==
    /\ \E k \in 1 .. taken - Len(out) : out' = SubSeq(File, 1, Len(out) + k)
    /\ UNCHANGED <<taken, done>>

Finish ==
    /\ out = File
    /\ done' = TRUE
    /\ UNCHANGED <<taken, out>>

Next == Take \/ Emit \/ Finish

Spec == Init /\ [][Next]_vars
=============================================================================
