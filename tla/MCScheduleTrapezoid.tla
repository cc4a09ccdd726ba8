------------------------ MODULE MCScheduleTrapezoid ------------------------
(* Every way in which the CPUs of a machine may share cores.                *)
EXTENDS ScheduleTrapezoid

CONSTANT MaxCpus

CoresOf(x) ==
    {m \in [0 .. x - 1 -> 0 .. x - 1] : \A id \in DOMAIN m : m[id] <= id /\ m[m[id]] = m[id]}

AllMachines == UNION {CoresOf(x) : x \in 1 .. MaxCpus}
=============================================================================
