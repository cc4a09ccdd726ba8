----------------------------- MODULE MCFifoSend -----------------------------
(***************************************************************************)
(* Small instances of FifoSend: two files, one of them longer than a FIFO. *)
(***************************************************************************)
EXTENDS FifoSend, TLC

CONSTANTS s1, s2, c1, c2

Files == s1 :> 2 @@ s2 :> 1
=============================================================================
