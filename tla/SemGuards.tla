----------------------------- MODULE SemGuards -----------------------------
(***************************************************************************)
(* The System V semaphore set shared by the programs of semaphores/ and    *)
(* what each of their semop() calls waits for.                             *)
(*                                                                         *)
(* A semop() array is executed atomically: either every operation of it    *)
(* can be done in order and all are, or none is.  The arrays of common.c   *)
(* use the idiom {-1, 0, +1} on one semaphore, which leaves its value      *)
(* alone and can only be executed when that value is exactly one.  The     *)
(* predicates below are what the arrays come to; module SemOps holds the   *)
(* arrays themselves and the check that the two agree on every value.      *)
(***************************************************************************)
EXTENDS Integers

SERVER == "server"    \* There is a server in this block if this is one
CLIENT == "client"    \* There is a client in this block if this is one
FULL   == "full"      \* Number of buffers that can be read from
EMPTY  == "empty"     \* Number of buffers that can be written to
INITED == "init"      \* Server has set everything up

SemIds == {SERVER, CLIENT, FULL, EMPTY, INITED}

\* The effect of {-1, 0, +1} on semaphore i: a test that its value is one.
IsOne(v, i) == v[i] = 1

\* acquireServer(): no server and no client in the block.
BlockIsFree(v) == v[SERVER] = 0 /\ v[CLIENT] = 0

\* acquireClient(): one server and no client in the block.
ServerIsAlone(v) == IsOne(v, SERVER) /\ v[CLIENT] = 0

\* waitForClient() and the peer test of copyIntoSharedMemory().
ClientIsPresent(v) == IsOne(v, CLIENT)

\* The peer test of copyFromSharedMemory().
ServerIsPresent(v) == IsOne(v, SERVER)

\* waitForServer().
ServerIsReady(v) == IsOne(v, INITED)

\* The last operation of the two loops' semop(): one buffer of kind i.
CanTake(v, i) == v[i] > 0
=============================================================================
