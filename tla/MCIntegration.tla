--------------------------- MODULE MCIntegration ---------------------------
(* Small instances of Integration.                                          *)
EXTENDS Integration, TLC

CONSTANTS c1, c2, w1, w2

Unequal == w1 :> 1 @@ w2 :> 2
One     == w1 :> 1

\* The broadcast of c2 stays in the network of w1.
Near    == c1 :> {w1, w2} @@ c2 :> {w1}
Only    == c1 :> {w1}
=============================================================================
