----------------------------- MODULE MCPipeline -----------------------------
(***************************************************************************)
(* Small pipelines.  As in the program, buffers get smaller towards the    *)
(* end, and with four children the first is larger than PIPE_BUF.          *)
(***************************************************************************)
EXTENDS Pipeline, TLC

FiveBytes == <<1, 2, 3, 4, 5>>
ThreeBytes == <<1, 2, 3>>

SmallBuffers == 0 :> 2 @@ 1 :> 1
FourBuffers  == 0 :> 2 @@ 1 :> 1 @@ 2 :> 1

\* Behaviours without faults.
QuietSpec == Init /\ ~faults /\ [][Next]_vars
=============================================================================
