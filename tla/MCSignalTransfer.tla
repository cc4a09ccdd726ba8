-------------------------- MODULE MCSignalTransfer --------------------------
(***************************************************************************)
(* Small files for SignalTransfer.  With SizeBits = 2 the buffer holds     *)
(* three bytes, so five bytes make a full block, a short one and the empty *)
(* one that ends the transfer.                                             *)
(***************************************************************************)
EXTENDS SignalTransfer

\* Five bytes of two bits; the second block repeats no bit of the first in
\* its place, so that a bit left over from the first would show.
FiveBytes == <<1, 0, 1, 1, 0, 0, 0, 1, 0, 1>>
=============================================================================
