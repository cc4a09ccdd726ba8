--------------------------- MODULE MCSemTransfer ---------------------------
(***************************************************************************)
(* Small instances of SemTransfer: the lengths of the files sent.          *)
(***************************************************************************)
EXTENDS SemTransfer, TLC

CONSTANTS s1, s2, c1, c2

TwoFiles  == (s1 :> 2) @@ (s2 :> 1)
OneChunk  == (s1 :> 1)
EmptyFile == (s1 :> 0)
=============================================================================
