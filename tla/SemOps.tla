------------------------------- MODULE SemOps -------------------------------
(***************************************************************************)
(* The semop() arrays of semaphores/common.c, as they stand in the source, *)
(* how the kernel executes them, and what that comes to: AgreesOn(v) says  *)
(* of the values v that executing each array does what the predicates of   *)
(* SemGuards, and the effects SemTransfer gives its actions, say of it.    *)
(***************************************************************************)
EXTENDS SemGuards, Sequences

\* One struct sembuf: sem_num, sem_op and whether sem_flg has IPC_NOWAIT.
Op(i, n)     == [num |-> i, op |-> n, nowait |-> FALSE]
OpNow(i, n)  == [num |-> i, op |-> n, nowait |-> TRUE]

\* A mistake an array could have: the buffer is waited for with IPC_NOWAIT.
takeEmptyOpsNow ==
    <<OpNow(CLIENT, -1), OpNow(CLIENT, 0), Op(CLIENT, 1), OpNow(EMPTY, -1)>>

acquireServerOps == <<Op(SERVER, 0), Op(CLIENT, 0), Op(SERVER, 1)>>

finalizeOps == <<Op(INITED, 1)>>

acquireClientOps ==
    <<Op(SERVER, -1), Op(SERVER, 0), Op(SERVER, 1), Op(CLIENT, 0), Op(CLIENT, 1)>>

waitForClientOps == <<Op(CLIENT, -1), Op(CLIENT, 0), Op(CLIENT, 1)>>

waitForServerOps == <<Op(INITED, -1), Op(INITED, 0), Op(INITED, 1)>>

takeEmptyOps == <<OpNow(CLIENT, -1), OpNow(CLIENT, 0), Op(CLIENT, 1), Op(EMPTY, -1)>>

takeFullOps == <<OpNow(SERVER, -1), OpNow(SERVER, 0), Op(SERVER, 1), Op(FULL, -1)>>

writeOp == <<Op(FULL, 1)>>

readOp == <<Op(EMPTY, 1)>>

-----------------------------------------------------------------------------
(* The kernel: the operations in order on a copy of the values; the first  *)
(* that cannot be done decides between sleeping and EAGAIN.  No array of   *)
(* the program has more than five operations.                              *)

Blocks(w, o) == (o.op = 0 /\ w[o.num] # 0) \/ (o.op < 0 /\ w[o.num] + o.op < 0)

Plus(w, i, n) == [w EXCEPT ![i] = @ + n]

\* How a call stands: everything done so far, or what it fails with.
Ok(w)       == [how |-> "done", vals |-> w]
Fail(o, w)  == [how |-> IF o.nowait THEN "EAGAIN" ELSE "sleep", vals |-> w]

\* What operation k, if there is one, makes of the outcome so far.
Perform(out, ops, k) ==
    IF k > Len(ops) \/ out.how # "done" THEN out
    ELSE IF Blocks(out.vals, ops[k]) THEN Fail(ops[k], out.vals)
    ELSE Ok(Plus(out.vals, ops[k].num, ops[k].op))

FirstThree(w, ops) == Perform(Perform(Perform(Ok(w), ops, 1), ops, 2), ops, 3)

semop(w, ops) == Perform(Perform(FirstThree(w, ops), ops, 4), ops, 5)

-----------------------------------------------------------------------------
\* An array without IPC_NOWAIT is executed with effect w exactly when guard
\* holds, and puts the caller to sleep otherwise.
Sleeps(v, ops, guard, w) ==
    LET r == semop(v, ops)
    IN  IF guard THEN r.how = "done" /\ r.vals = w ELSE r.how = "sleep"

\* An array of the two loops: EAGAIN, which common.c:278 and :348 take for the
\* death of the peer, exactly when the peer is not there and never because of
\* the state of the buffer.
Tests(v, ops, peer, i) ==
    LET r == semop(v, ops)
    IN  IF ~peer THEN r.how = "EAGAIN"
        ELSE IF CanTake(v, i) THEN r.how = "done" /\ r.vals = Plus(v, i, -1)
        ELSE r.how = "sleep"

ArraysAgree(v) ==
    /\ Sleeps(v, acquireServerOps, BlockIsFree(v), Plus(v, SERVER, 1))
    /\ Sleeps(v, acquireClientOps, ServerIsAlone(v), Plus(v, CLIENT, 1))
    /\ Sleeps(v, waitForClientOps, ClientIsPresent(v), v)
    /\ Sleeps(v, waitForServerOps, ServerIsReady(v), v)
    /\ Tests(v, takeEmptyOps, ClientIsPresent(v), EMPTY)
    /\ Tests(v, takeFullOps, ServerIsPresent(v), FULL)
    /\ Sleeps(v, finalizeOps, TRUE, Plus(v, INITED, 1))
    /\ Sleeps(v, writeOp, TRUE, Plus(v, FULL, 1))
    /\ Sleeps(v, readOp, TRUE, Plus(v, EMPTY, 1))
=============================================================================
