----------------------------- MODULE NProcesses -----------------------------
(***************************************************************************)
(* nprocesses/nprocesses.c: n children print their numbers in order, each  *)
(* woken by a message from the one before it.                              *)
(*                                                                         *)
(* The queue belongs to the name of the source file and not to a run: runs *)
(* started at the same time, or after one that was interrupted, share it   *)
(* and take each other's messages.  fork() may fail, and the run goes on   *)
(* with the children it has.  A message has a type and no content, so the  *)
(* queue is how many there are of each type.                               *)
(***************************************************************************)
EXTENDS Integers, FiniteSets

CONSTANTS
    Runs,    \* the runs of the program
    n        \* n[r]: the argument of run r

ASSUME ConstAssumption == IsFiniteSet(Runs) /\ n \in [Runs -> Nat \ {0}]

Numbers(r) == 0 .. n[r] - 1
Types      == UNION {1 .. n[r] : r \in Runs}

VARIABLES
    q,       \* q[t]: messages of type t in the queue
    parent,  \* what the parent of each run does next
    i,       \* its counter
    last,    \* its last
    child,   \* what each child does next; "unborn" before the fork
    printed  \* printed[k]: how often k was printed

vars == <<q, parent, i, last, child, printed>>

Goto(r, k, label) == child' = [child EXCEPT ![r][k] = label]

Take(t) == q[t] > 0 /\ q' = [q EXCEPT ![t] = @ - 1]

-----------------------------------------------------------------------------
(* Mistakes.                                                               *)

\* msgrcv() with type zero: any message will do.
recieveAny(r, k) ==
    /\ child[r][k] = "recieve"
    /\ \E t \in Types : Take(t)
    /\ Goto(r, k, "print")
    /\ UNCHANGED <<parent, i, last, printed>>

\* The last child has no one to wake.
sendToChild(r, k) ==
    /\ child[r][k] = "send"
    /\ q' = IF k + 1 < n[r] THEN [q EXCEPT ![k + 1] = @ + 1] ELSE q
    /\ Goto(r, k, "exit")
    /\ UNCHANGED <<parent, i, last, printed>>

-----------------------------------------------------------------------------
forkChild(r) ==
    /\ parent[r] = "fork" /\ i[r] < n[r]
    /\ Goto(r, i[r], IF i[r] = 0 THEN "print" ELSE "recieve")
    /\ last' = [last EXCEPT ![r] = i[r] + 1]
    /\ i' = [i EXCEPT ![r] = @ + 1]
    /\ UNCHANGED <<q, parent, printed>>

\* The loop ends when all are forked, or earlier when fork() fails.
endOfLoop(r) ==
    /\ parent[r] = "fork"
    /\ parent' = [parent EXCEPT ![r] = "wait"]
    /\ UNCHANGED <<q, i, last, child, printed>>

\* run() waits for the last child there is, if there is one.
waitForLast(r) ==
    /\ parent[r] = "wait"
    /\ IF last[r] = 0 THEN UNCHANGED q ELSE Take(last[r])
    /\ parent' = [parent EXCEPT ![r] = "returned"]
    /\ UNCHANGED <<i, last, child, printed>>

recieve(r, k) ==
    /\ child[r][k] = "recieve"
    /\ Take(k)
    /\ Goto(r, k, "print")
    /\ UNCHANGED <<parent, i, last, printed>>

print(r, k) ==
    /\ child[r][k] = "print"
    /\ printed' = [printed EXCEPT ![k] = @ + 1]
    /\ Goto(r, k, "send")
    /\ UNCHANGED <<q, parent, i, last>>

send(r, k) ==
    /\ child[r][k] = "send"
    /\ q' = [q EXCEPT ![k + 1] = @ + 1]
    /\ Goto(r, k, "exit")
    /\ UNCHANGED <<parent, i, last, printed>>

parentStep(r)   == forkChild(r) \/ endOfLoop(r) \/ waitForLast(r)
childStep(r, k) == recieve(r, k) \/ print(r, k) \/ send(r, k)

\* Ctrl-C kills the parent and its children; their messages stay.
interrupt(r) ==
    /\ parent[r] \in {"fork", "wait"}
    /\ parent' = [parent EXCEPT ![r] = "killed"]
    /\ child' = [child EXCEPT ![r] = [k \in Numbers(r) |-> "exit"]]
    /\ UNCHANGED <<q, i, last, printed>>

Init ==
    /\ q = [t \in Types |-> 0]
    /\ parent = [r \in Runs |-> "fork"]
    /\ i = [r \in Runs |-> 0] /\ last = [r \in Runs |-> 0]
    /\ child = [r \in Runs |-> [k \in Numbers(r) |-> "unborn"]]
    /\ printed = [k \in {t - 1 : t \in Types} |-> 0]

Next ==
    \E r \in Runs :
        parentStep(r) \/ interrupt(r) \/ \E k \in Numbers(r) : childStep(r, k)

Spec == Init /\ [][Next]_vars

\* Every process is scheduled, and no message waits for a process that never
\* gets to run.
Fairness ==
    \A r \in Runs : WF_vars(parentStep(r)) /\ \A k \in Numbers(r) : WF_vars(childStep(r, k))

FairSpec == Spec /\ Fairness

-----------------------------------------------------------------------------
Returned(k) == Cardinality({r \in Runs : parent[r] = "returned" /\ last[r] = k})

\* However the runs share the queue, and whichever are interrupted, number t is
\* printed, or a run of t numbers returns, only after a t - 1 that nothing else
\* has followed.  For a run alone: it prints its numbers in order and returns
\* after the last (msgrcv in the child and in run()).
InOrder ==
    \A t \in Types :
        printed[t - 1] >= Returned(t) + (IF t \in DOMAIN printed THEN printed[t] ELSE 0)

\* If none is interrupted, all runs return, whatever they take from each other
\* and wherever fork() fails, and nothing is left in the queue for a later one.
AllReturn ==
    ([](\A r \in Runs : parent[r] # "killed")) =>
        <>[](/\ \A r \in Runs : parent[r] = "returned"
             /\ \A t \in Types : q[t] = 0
             /\ \A r \in Runs : \A k \in Numbers(r) : child[r][k] \in {"unborn", "exit"})
=============================================================================
