---------------------------- MODULE MCNProcesses ----------------------------
(* Two runs of different lengths that share the queue.                      *)
EXTENDS NProcesses

MCRuns == {"long", "short"}
MCn == [r \in MCRuns |-> IF r = "long" THEN 4 ELSE 3]
=============================================================================
