--------------------------- MODULE SerialDelivery ---------------------------
(***************************************************************************)
(* What semaphores/ promises when write() takes all it is given: the       *)
(* clients print the chunks of one server after those of another, each     *)
(* file in order and from its start, nothing twice and nothing left out    *)
(* before a chunk that is printed.  A client prints for one server only,   *)
(* and a process succeeds only when its whole file has been printed.       *)
(*                                                                         *)
(* Which client prints a chunk is left open: a client may take over from   *)
(* one that has died.                                                      *)
(***************************************************************************)
EXTENDS Naturals, Sequences, FiniteSets

CONSTANTS Servers, Clients, FileLen

VARIABLES
    prints,  \* the chunks printed, in order, as [by, from, chunk]
    done     \* the processes that have succeeded

vars == <<prints, done>>

From(s) == {i \in DOMAIN prints : prints[i].from = s}

Printed(s) == Cardinality(From(s))

\* Nothing of another server was printed since the first chunk of s.
IsCurrent(s) == From(s) = {} \/ prints[Len(prints)].from = s

\* The client has printed for s only.
ServesOnly(c, s) == \A i \in DOMAIN prints : prints[i].by = c => prints[i].from = s

Init == prints = <<>> /\ done = {}

PrintChunk(s, c) ==
    /\ s \notin done /\ c \notin done
    /\ Printed(s) < FileLen[s]
    /\ IsCurrent(s)
    /\ ServesOnly(c, s)
    /\ prints' = Append(prints, [by |-> c, from |-> s, chunk |-> Printed(s) + 1])
    /\ UNCHANGED done

ServerSucceeds(s) ==
    /\ Printed(s) = FileLen[s]
    /\ done' = done \cup {s}
    /\ UNCHANGED prints

ClientSucceeds(c) ==
    /\ \E s \in Servers : Printed(s) = FileLen[s] /\ ServesOnly(c, s)
    /\ done' = done \cup {c}
    /\ UNCHANGED prints

Next ==
    \/ \E s \in Servers, c \in Clients : PrintChunk(s, c)
    \/ \E s \in Servers : ServerSucceeds(s)
    \/ \E c \in Clients : ClientSucceeds(c)

Spec == Init /\ [][Next]_vars
=============================================================================
