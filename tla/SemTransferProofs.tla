------------------------- MODULE SemTransferProofs -------------------------
(***************************************************************************)
(* For all values of the semaphores, executing the semop() arrays of       *)
(* semaphores/common.c does what the guards and effects of SemTransfer     *)
(* say.  Then the two inductive invariants of SemTransfer, and what        *)
(* follows from them, for any number of servers and clients, any files and *)
(* any faults.                                                             *)
(*                                                                         *)
(* IInv says who has which role and where the token of the buffer is.  It  *)
(* is preserved for three reasons, one for each kind of step.  Most steps  *)
(* change no role, that is, who is in the block and what the kernel would  *)
(* undo (SameRoles): they only move the token of the buffer or walk on.    *)
(* The end of a process takes its role and its undo away together          *)
(* (ExitIInv).  The four remaining steps take a role, and their guards say *)
(* why nobody else has it.                                                 *)
(*                                                                         *)
(* Sessions says whom the client in the block is served by, and relates    *)
(* what was printed to how far that server has read.  It is inductive      *)
(* relative to IInv, gives what success and failure mean, and is what the  *)
(* refinement of SerialDelivery rests on.                                  *)
(***************************************************************************)
EXTENDS SemTransfer, FiniteSetTheorems, TLAPS

-----------------------------------------------------------------------------
(* The arrays of semaphores/common.c.  The three that begin with           *)
(* {-1, 0, +1} on one semaphore share lemma OnesTest: the idiom tests that *)
(* the value is exactly one.                                               *)

\* An operation beyond the end of the array, or after a failure, does nothing.
LEMMA Skips ==
    ASSUME NEW out, NEW ops, NEW k \in 1 .. 5, k > Len(ops) \/ out.how # "done"
    PROVE  Perform(out, ops, k) = out
BY DEF Perform

\* An operation that cannot be done ends the call.
LEMMA Stops ==
    ASSUME NEW w, NEW ops, NEW k \in 1 .. 5, ~(k > Len(ops)), Blocks(w, ops[k])
    PROVE  /\ Perform(Ok(w), ops, k) = Fail(ops[k], w)
           /\ Fail(ops[k], w).how = IF ops[k].nowait THEN "EAGAIN" ELSE "sleep"
           /\ Fail(ops[k], w).how # "done"
BY DEF Perform, Ok, Fail

\* An operation that can be done is added to its semaphore.
LEMMA Goes ==
    ASSUME NEW w, NEW ops, NEW k \in 1 .. 5, ~(k > Len(ops)), ~Blocks(w, ops[k])
    PROVE  Perform(Ok(w), ops, k) = Ok(Plus(w, ops[k].num, ops[k].op))
BY DEF Perform, Ok

\* Adding to one semaphore keeps the type and the other values.
LEMMA PlusFacts ==
    ASSUME NEW v \in [SemIds -> Int], NEW i \in SemIds, NEW n \in Int
    PROVE  /\ Plus(v, i, n) \in [SemIds -> Int]
           /\ Plus(v, i, n)[i] = v[i] + n
           /\ \A j \in SemIds : j # i => Plus(v, i, n)[j] = v[j]
BY DEF Plus

\* An operation 0 that does not wait changes nothing.
LEMMA PlusNothing ==
    ASSUME NEW v \in [SemIds -> Int], NEW i \in SemIds
    PROVE  Plus(v, i, 0) = v
<1>1. v[i] + 0 = v[i]
  OBVIOUS
<1>2. QED
  BY <1>1 DEF Plus

\* {-1, ..., +1} puts back what it took.
LEMMA PlusUndone ==
    ASSUME NEW v \in [SemIds -> Int], NEW i \in SemIds
    PROVE  Plus(Plus(v, i, -1), i, 1) = v
<1> DEFINE w == Plus(v, i, -1)
<1>1. w \in [SemIds -> Int] /\ w[i] = v[i] - 1 /\ \A j \in SemIds : j # i => w[j] = v[j]
  BY PlusFacts
<1> HIDE DEF w
<1>2. /\ Plus(w, i, 1) \in [SemIds -> Int] /\ Plus(w, i, 1)[i] = w[i] + 1
      /\ \A j \in SemIds : j # i => Plus(w, i, 1)[j] = w[j]
  BY <1>1, PlusFacts
<1>3. \A j \in SemIds : Plus(w, i, 1)[j] = v[j]
  BY <1>1, <1>2
<1>4. Plus(w, i, 1) = v
  BY <1>2, <1>3
<1>5. QED
  BY <1>4 DEF w

\* {-1, 0, +1} on semaphore i, the idiom of common.c: it tests that the
\* value is exactly one, leaves it alone, and otherwise sleeps or fails.
LEMMA OnesTest ==
    ASSUME NEW v \in [SemIds -> Nat], NEW i \in SemIds, NEW ops, NEW b \in BOOLEAN,
           NEW c \in BOOLEAN,
           Len(ops) \in Nat, Len(ops) >= 3,
           ops[1] = [num |-> i, op |-> -1, nowait |-> b],
           ops[2] = [num |-> i, op |-> 0, nowait |-> b],
           ops[3] = [num |-> i, op |-> 1, nowait |-> c]
    PROVE  /\ v[i] = 1 => FirstThree(v, ops) = Ok(v)
           /\ v[i] # 1 => FirstThree(v, ops).how = IF b THEN "EAGAIN" ELSE "sleep"
<1> DEFINE w == Plus(v, i, -1)
<1>0. v \in [SemIds -> Int] /\ v[i] \in Nat /\ -1 \in Int /\ v[i] + (-1) = v[i] - 1
  OBVIOUS
<1>1. w \in [SemIds -> Int] /\ w[i] = v[i] - 1
  BY <1>0, PlusFacts
<1>c. Plus(w, i, 0) = w /\ Plus(w, i, 1) = v
  BY <1>0, <1>1, PlusNothing, PlusUndone
<1>a. /\ 1 \in 1 .. 5 /\ 2 \in 1 .. 5 /\ 3 \in 1 .. 5
      /\ ~(1 > Len(ops)) /\ ~(2 > Len(ops)) /\ ~(3 > Len(ops))
  OBVIOUS
<1>b. /\ ops[1].num = i /\ ops[1].op = -1 /\ ops[1].nowait = b
      /\ ops[2].num = i /\ ops[2].op = 0 /\ ops[2].nowait = b
      /\ ops[3].num = i /\ ops[3].op = 1
  OBVIOUS
<1>2. CASE v[i] = 0
  <2>1. Blocks(v, ops[1])
    BY <1>0, <1>b, <1>2 DEF Blocks
  <2>2. Perform(Ok(v), ops, 1) = Fail(ops[1], v) /\ Fail(ops[1], v).how # "done"
        /\ Fail(ops[1], v).how = IF b THEN "EAGAIN" ELSE "sleep"
    BY <1>a, <1>b, <2>1, Stops
  <2>3. QED
    BY <1>2, <1>a, <2>2, Skips DEF FirstThree
<1>3. CASE v[i] > 0
  <2> HIDE DEF w
  <2>1. ~Blocks(v, ops[1])
    BY <1>0, <1>b, <1>3 DEF Blocks
  <2>2. Perform(Ok(v), ops, 1) = Ok(w)
    BY <1>a, <1>b, <2>1, Goes DEF w
  <2>3. CASE v[i] = 1
    <3>1. ~Blocks(w, ops[2]) /\ ~Blocks(w, ops[3])
      BY <1>0, <1>b, <1>1, <2>3 DEF Blocks
    <3>a. Perform(Ok(w), ops, 2) = Ok(Plus(w, i, 0))
      BY <1>a, <1>b, <3>1, Goes
    <3>b. Perform(Ok(w), ops, 3) = Ok(Plus(w, i, 1))
      BY <1>a, <1>b, <3>1, Goes
    <3>2. Perform(Ok(w), ops, 2) = Ok(w) /\ Perform(Ok(w), ops, 3) = Ok(v)
      BY <1>c, <3>a, <3>b DEF w
    <3>3. QED
      BY <2>2, <2>3, <3>2 DEF FirstThree
  <2>4. CASE v[i] > 1
    <3>1. Blocks(w, ops[2])
      BY <1>0, <1>b, <1>1, <2>4 DEF Blocks
    <3>2. Perform(Ok(w), ops, 2) = Fail(ops[2], w) /\ Fail(ops[2], w).how # "done"
          /\ Fail(ops[2], w).how = IF b THEN "EAGAIN" ELSE "sleep"
      BY <1>a, <1>b, <3>1, Stops
    <3>3. QED
      BY <2>2, <2>4, <1>a, <3>2, Skips DEF FirstThree
  <2>5. QED
    BY <1>3, <2>3, <2>4
<1>4. QED
  BY <1>2, <1>3

\* The arrays of a single +1 never wait.
LEMMA OneOp ==
    ASSUME NEW v \in [SemIds -> Nat], NEW i \in SemIds, NEW ops, ops = <<Op(i, 1)>>
    PROVE  Sleeps(v, ops, TRUE, Plus(v, i, 1))
<1> DEFINE r == Ok(Plus(v, i, 1))
<1>1. Len(ops) = 1 /\ ops[1].num = i /\ ops[1].op = 1
  BY DEF Op
<1>2. Perform(Ok(v), ops, 1) = r
  BY <1>1, Goes DEF Blocks
<1> HIDE DEF r
<1>a. 2 > Len(ops) /\ 3 > Len(ops) /\ 4 > Len(ops) /\ 5 > Len(ops)
      /\ 2 \in 1 .. 5 /\ 3 \in 1 .. 5 /\ 4 \in 1 .. 5 /\ 5 \in 1 .. 5
  BY <1>1
<1>3. Perform(r, ops, 2) = r /\ Perform(r, ops, 3) = r /\ Perform(r, ops, 4) = r
      /\ Perform(r, ops, 5) = r
  BY <1>a, Skips
<1>4. semop(v, ops) = r
  BY <1>2, <1>3 DEF semop, FirstThree
<1>5. QED
  BY <1>4 DEF Sleeps, Ok, r

\* The three arrays with the idiom and nothing after it.
LEMMA OnesTestOnly ==
    ASSUME NEW v \in [SemIds -> Nat], NEW i \in SemIds, NEW ops,
           ops = <<Op(i, -1), Op(i, 0), Op(i, 1)>>
    PROVE  Sleeps(v, ops, IsOne(v, i), v)
<1>1. /\ Len(ops) = 3
      /\ ops[1] = [num |-> i, op |-> -1, nowait |-> FALSE]
      /\ ops[2] = [num |-> i, op |-> 0, nowait |-> FALSE]
      /\ ops[3] = [num |-> i, op |-> 1, nowait |-> FALSE]
  BY DEF Op
<1>2. /\ 4 > Len(ops) /\ 5 > Len(ops) /\ 4 \in 1 .. 5 /\ 5 \in 1 .. 5
      /\ Len(ops) \in Nat /\ Len(ops) >= 3
  BY <1>1
<1>3. /\ v[i] = 1 => FirstThree(v, ops) = Ok(v)
      /\ v[i] # 1 => FirstThree(v, ops).how = "sleep"
  BY <1>1, <1>2, OnesTest
<1> DEFINE r == FirstThree(v, ops)
<1> HIDE DEF r
<1>a. Perform(r, ops, 4) = r /\ Perform(r, ops, 5) = r
  BY <1>2, Skips
<1>4. semop(v, ops) = FirstThree(v, ops)
  BY <1>a DEF semop, r
<1>5. Ok(v).how = "done" /\ Ok(v).vals = v
  BY DEF Ok
<1>6. CASE v[i] = 1
  <2>1. semop(v, ops) = Ok(v)
    BY <1>3, <1>4, <1>6
  <2>2. QED
    BY <1>5, <1>6, <2>1 DEF Sleeps, IsOne
<1>7. CASE v[i] # 1
  <2>1. semop(v, ops).how = "sleep"
    BY <1>3, <1>4, <1>7
  <2>2. QED
    BY <1>7, <2>1 DEF Sleeps, IsOne
<1>8. QED
  BY <1>6, <1>7

\* The arrays of the two loops.
LEMMA OnesTestAndTake ==
    ASSUME NEW v \in [SemIds -> Nat], NEW i \in SemIds, NEW j \in SemIds, NEW ops,
           ops = <<OpNow(i, -1), OpNow(i, 0), Op(i, 1), Op(j, -1)>>
    PROVE  Tests(v, ops, IsOne(v, i), j)
<1>1. /\ Len(ops) = 4
      /\ ops[1] = [num |-> i, op |-> -1, nowait |-> TRUE]
      /\ ops[2] = [num |-> i, op |-> 0, nowait |-> TRUE]
      /\ ops[3] = [num |-> i, op |-> 1, nowait |-> FALSE]
      /\ ops[4].num = j /\ ops[4].op = -1 /\ ops[4].nowait = FALSE
  BY DEF Op, OpNow
<1>2. /\ ~(4 > Len(ops)) /\ 5 > Len(ops) /\ 4 \in 1 .. 5 /\ 5 \in 1 .. 5
      /\ Len(ops) \in Nat /\ Len(ops) >= 3 /\ v[j] \in Nat
  BY <1>1
<1>3. /\ v[i] = 1 => FirstThree(v, ops) = Ok(v)
      /\ v[i] # 1 => FirstThree(v, ops).how = "EAGAIN"
  BY <1>1, <1>2, OnesTest
<1>4. CASE v[i] # 1
  <2>1. semop(v, ops) = FirstThree(v, ops)
    BY <1>2, <1>3, <1>4, Skips DEF semop
  <2>2. QED
    BY <1>3, <1>4, <2>1 DEF Tests, IsOne
<1>5. CASE v[i] = 1 /\ v[j] = 0
  <2>1. Blocks(v, ops[4])
    BY <1>1, <1>5 DEF Blocks
  <2>2. /\ Perform(Ok(v), ops, 4) = Fail(ops[4], v)
        /\ Fail(ops[4], v).how = "sleep"
        /\ Fail(ops[4], v).how # "done"
    BY <1>1, <1>2, <2>1, Stops
  <2>3. semop(v, ops) = Fail(ops[4], v)
    BY <1>2, <1>3, <1>5, <2>2, Skips DEF semop
  <2>4. QED
    BY <1>5, <2>2, <2>3 DEF Tests, IsOne, CanTake
<1>6. CASE v[i] = 1 /\ v[j] > 0
  <2>1. ~Blocks(v, ops[4])
    BY <1>1, <1>2, <1>6 DEF Blocks
  <2>2. Perform(Ok(v), ops, 4) = Ok(Plus(v, j, -1))
    BY <1>1, <1>2, <2>1, Goes
  <2> DEFINE r == Ok(Plus(v, j, -1))
  <2> HIDE DEF r
  <2>3. Perform(r, ops, 5) = r
    BY <1>2, Skips
  <2>4. semop(v, ops) = r
    BY <1>3, <1>6, <2>2, <2>3 DEF semop, r
  <2>5. QED
    BY <1>6, <2>4 DEF Tests, IsOne, CanTake, Ok, r
<1>7. QED
  BY <1>2, <1>4, <1>5, <1>6

\* acquireClient(), common.c:168-190: one server and no client.
LEMMA AcquireClientAgrees ==
    ASSUME NEW v \in [SemIds -> Nat]
    PROVE  Sleeps(v, acquireClientOps, ServerIsAlone(v), Plus(v, CLIENT, 1))
<1> DEFINE ops == acquireClientOps
<1>1. /\ Len(ops) = 5
      /\ ops[1] = [num |-> SERVER, op |-> -1, nowait |-> FALSE]
      /\ ops[2] = [num |-> SERVER, op |-> 0, nowait |-> FALSE]
      /\ ops[3] = [num |-> SERVER, op |-> 1, nowait |-> FALSE]
      /\ ops[4].num = CLIENT /\ ops[4].op = 0 /\ ops[4].nowait = FALSE
  BY DEF Op, acquireClientOps
<1>a. ops[5].num = CLIENT /\ ops[5].op = 1
  BY DEF Op, acquireClientOps
<1>b. 5 \in 1 .. 5 /\ ~(5 > Len(ops))
  BY <1>1
<1>2. /\ ~(4 > Len(ops)) /\ ~(5 > Len(ops)) /\ 4 \in 1 .. 5 /\ 5 \in 1 .. 5
      /\ Len(ops) \in Nat /\ Len(ops) >= 3
  BY <1>1
<1>3. SERVER \in SemIds /\ CLIENT \in SemIds /\ v[CLIENT] \in Nat
  BY DEF SemIds
<1> HIDE DEF ops
<1>4. /\ v[SERVER] = 1 => FirstThree(v, ops) = Ok(v)
      /\ v[SERVER] # 1 => FirstThree(v, ops).how = "sleep"
  BY <1>1, <1>2, <1>3, OnesTest
<1>5. CASE v[SERVER] # 1
  <2>1. semop(v, ops) = FirstThree(v, ops)
    BY <1>2, <1>4, <1>5, Skips DEF semop
  <2>2. QED
    BY <1>4, <1>5, <2>1 DEF Sleeps, ServerIsAlone, IsOne, ops
<1>6. CASE v[SERVER] = 1 /\ v[CLIENT] # 0
  <2>1. Blocks(v, ops[4])
    BY <1>1, <1>6 DEF Blocks
  <2>2. /\ Perform(Ok(v), ops, 4) = Fail(ops[4], v)
        /\ Fail(ops[4], v).how = "sleep"
        /\ Fail(ops[4], v).how # "done"
    BY <1>1, <1>2, <2>1, Stops
  <2>3. semop(v, ops) = Fail(ops[4], v)
    BY <1>2, <1>4, <1>6, <2>2, Skips DEF semop
  <2>4. QED
    BY <1>6, <2>2, <2>3 DEF Sleeps, ServerIsAlone, IsOne, ops
<1>7. CASE v[SERVER] = 1 /\ v[CLIENT] = 0
  <2>1. ~Blocks(v, ops[4]) /\ v \in [SemIds -> Int]
    BY <1>1, <1>7 DEF Blocks
  <2>a. ~Blocks(v, ops[5])
    BY <1>a DEF Blocks
  <2>2. Perform(Ok(v), ops, 4) = Ok(Plus(v, CLIENT, 0)) /\ Plus(v, CLIENT, 0) = v
    BY <1>1, <1>2, <1>3, <2>1, Goes, PlusNothing
  <2>b. Perform(Ok(v), ops, 5) = Ok(Plus(v, ops[5].num, ops[5].op))
    BY <1>b, <2>a, Goes
  <2>3. Perform(Ok(v), ops, 5) = Ok(Plus(v, CLIENT, 1))
    BY <1>a, <2>b
  <2>4. semop(v, ops) = Ok(Plus(v, CLIENT, 1))
    BY <1>4, <1>7, <2>2, <2>3 DEF semop
  <2>5. QED
    BY <1>7, <2>4 DEF Sleeps, ServerIsAlone, IsOne, Ok, ops
<1>8. QED
  BY <1>3, <1>5, <1>6, <1>7

\* acquireServer(), common.c:101-115: no server and no client.
LEMMA AcquireServerAgrees ==
    ASSUME NEW v \in [SemIds -> Nat]
    PROVE  Sleeps(v, acquireServerOps, BlockIsFree(v), Plus(v, SERVER, 1))
<1> DEFINE ops == acquireServerOps
<1>1. /\ Len(ops) = 3
      /\ ops[1].num = SERVER /\ ops[1].op = 0 /\ ops[1].nowait = FALSE
      /\ ops[2].num = CLIENT /\ ops[2].op = 0 /\ ops[2].nowait = FALSE
      /\ ops[3].num = SERVER /\ ops[3].op = 1
  BY DEF Op, acquireServerOps
<1>2. /\ 1 \in 1 .. 5 /\ 2 \in 1 .. 5 /\ 3 \in 1 .. 5 /\ 4 \in 1 .. 5 /\ 5 \in 1 .. 5
      /\ ~(1 > Len(ops)) /\ ~(2 > Len(ops)) /\ ~(3 > Len(ops))
      /\ 4 > Len(ops) /\ 5 > Len(ops)
  BY <1>1
<1>3. /\ SERVER \in SemIds /\ CLIENT \in SemIds /\ v \in [SemIds -> Int]
      /\ v[SERVER] \in Nat /\ v[CLIENT] \in Nat
  BY DEF SemIds
<1> HIDE DEF ops
<1>4. /\ Plus(v, SERVER, 0) = v /\ Plus(v, CLIENT, 0) = v
  BY <1>3, PlusNothing
<1>5. CASE v[SERVER] # 0
  <2>1. Blocks(v, ops[1])
    BY <1>1, <1>5 DEF Blocks
  <2>2. /\ Perform(Ok(v), ops, 1) = Fail(ops[1], v)
        /\ Fail(ops[1], v).how = "sleep"
        /\ Fail(ops[1], v).how # "done"
    BY <1>1, <1>2, <2>1, Stops
  <2>3. semop(v, ops) = Fail(ops[1], v)
    BY <1>2, <2>2, Skips DEF semop, FirstThree
  <2>4. QED
    BY <1>5, <2>2, <2>3 DEF Sleeps, BlockIsFree, ops
<1>6. CASE v[SERVER] = 0 /\ v[CLIENT] # 0
  <2>1. ~Blocks(v, ops[1]) /\ Blocks(v, ops[2])
    BY <1>1, <1>6 DEF Blocks
  <2>2. /\ Perform(Ok(v), ops, 1) = Ok(v)
        /\ Perform(Ok(v), ops, 2) = Fail(ops[2], v)
        /\ Fail(ops[2], v).how = "sleep"
        /\ Fail(ops[2], v).how # "done"
    BY <1>1, <1>2, <1>4, <2>1, Goes, Stops
  <2>3. semop(v, ops) = Fail(ops[2], v)
    BY <1>2, <2>2, Skips DEF semop, FirstThree
  <2>4. QED
    BY <1>6, <2>2, <2>3 DEF Sleeps, BlockIsFree, ops
<1>7. CASE v[SERVER] = 0 /\ v[CLIENT] = 0
  <2> DEFINE r == Ok(Plus(v, SERVER, 1))
  <2>1. ~Blocks(v, ops[1]) /\ ~Blocks(v, ops[2]) /\ ~Blocks(v, ops[3])
    BY <1>1, <1>3, <1>7 DEF Blocks
  <2>2. /\ Perform(Ok(v), ops, 1) = Ok(v)
        /\ Perform(Ok(v), ops, 2) = Ok(v)
        /\ Perform(Ok(v), ops, 3) = r
    BY <1>1, <1>2, <1>4, <2>1, Goes
  <2> HIDE DEF r
  <2>3. Perform(r, ops, 4) = r /\ Perform(r, ops, 5) = r
    BY <1>2, Skips
  <2>4. semop(v, ops) = r
    BY <2>2, <2>3 DEF semop, FirstThree
  <2>5. QED
    BY <1>7, <2>4 DEF Sleeps, BlockIsFree, Ok, ops, r
<1>8. QED
  BY <1>5, <1>6, <1>7

\* Every array of common.c is executed exactly when its guard in SemGuards
\* holds and with the effect SemTransfer gives it; the two loops' arrays fail
\* with EAGAIN exactly when the peer is gone, never because of the buffer.
THEOREM ArraysDoWhatTheGuardsSay ==
    ASSUME NEW v \in [SemIds -> Nat]
    PROVE  ArraysAgree(v)
<1>1. SERVER \in SemIds /\ CLIENT \in SemIds /\ FULL \in SemIds /\ EMPTY \in SemIds
      /\ INITED \in SemIds
  BY DEF SemIds
<1>2. Sleeps(v, waitForClientOps, ClientIsPresent(v), v)
  BY <1>1, OnesTestOnly DEF waitForClientOps, ClientIsPresent
<1>3. Sleeps(v, waitForServerOps, ServerIsReady(v), v)
  BY <1>1, OnesTestOnly DEF waitForServerOps, ServerIsReady
<1>4. Tests(v, takeEmptyOps, ClientIsPresent(v), EMPTY)
  BY <1>1, OnesTestAndTake DEF takeEmptyOps, ClientIsPresent
<1>5. Tests(v, takeFullOps, ServerIsPresent(v), FULL)
  BY <1>1, OnesTestAndTake DEF takeFullOps, ServerIsPresent
<1>6. Sleeps(v, finalizeOps, TRUE, Plus(v, INITED, 1))
  BY <1>1, OneOp DEF finalizeOps
<1>7. Sleeps(v, writeOp, TRUE, Plus(v, FULL, 1))
  BY <1>1, OneOp DEF writeOp
<1>8. Sleeps(v, readOp, TRUE, Plus(v, EMPTY, 1))
  BY <1>1, OneOp DEF readOp
<1>9. QED
  BY AcquireServerAgrees, AcquireClientAgrees, <1>2, <1>3, <1>4, <1>5, <1>6, <1>7, <1>8
     DEF ArraysAgree

-----------------------------------------------------------------------------
(* The protocol.                                                           *)

\* Constants and sets of labels, expanded throughout.
USE ConstAssumption
USE DEF SERVER, CLIENT, FULL, EMPTY, INITED, SemIds, Procs,
        SettingUp, ServerLoop, ServerLive, ClientLoop, ClientLive, Ended,
        Goto, LiveServer, LiveClient, ReadyServer

\* The step changes neither who is in the block, nor the semaphores that say
\* so, nor what is undone.
SameRoles ==
    /\ \A s \in Servers : /\ LiveServer(s)' <=> LiveServer(s)
                          /\ ReadyServer(s)' <=> ReadyServer(s)
    /\ \A c \in Clients : LiveClient(c)' <=> LiveClient(c)
    /\ undo' = undo
    /\ \A i \in {SERVER, CLIENT, INITED} : sem'[i] = sem[i]

-----------------------------------------------------------------------------
\* In the initial states nothing is acquired, so the invariant holds.
LEMMA InitIInv == Init => IInv
<1> SUFFICES ASSUME Init PROVE IInv
    OBVIOUS
<1>1. TypeOK
    BY DEF Init, TypeOK, Buffers, Writes, ServerLabels, ClientLabels
<1>2. UndoInv /\ SingleInv /\ PresenceInv
    BY DEF Init, UndoInv, SingleInv, PresenceInv
<1>3. TokenInv
    BY DEF Init, TokenInv, ServerHolds, ClientHolds
<1>4. ResetQuiescent
    BY DEF Init, ResetQuiescent
<1>. QED
    BY <1>1, <1>2, <1>3, <1>4 DEF IInv

\* A step that changes no role keeps what is said of roles.
LEMMA SameRolesLemma ==
    ASSUME UndoInv, SingleInv, PresenceInv, SameRoles
    PROVE  UndoInv' /\ SingleInv' /\ PresenceInv'
<1>1. UndoInv'
    BY DEF UndoInv, SameRoles
<1>2. SingleInv'
    BY DEF SingleInv, SameRoles
<1>3. PresenceInv'
    BY DEF PresenceInv, SameRoles
<1>. QED
    BY <1>1, <1>2, <1>3

-----------------------------------------------------------------------------
(* Steps that change no role: the server's.                                *)

\* The server only walks on.
LEMMA waitForClientIInv == ASSUME IInv, NEW s \in Servers, waitForClient(s) PROVE IInv'
<1> USE DEF IInv, waitForClient
<1>1. TypeOK'
    BY DEF TypeOK, ServerLabels, ClientLabels
<1>2. SameRoles
    BY DEF SameRoles, TypeOK
<1>3. UndoInv' /\ SingleInv' /\ PresenceInv'
    BY <1>2, SameRolesLemma
<1>4. TokenInv'
    BY DEF TypeOK, TokenInv, SingleInv, ServerHolds, ClientHolds
<1>5. ResetQuiescent'
    BY DEF TypeOK, ResetQuiescent
<1>. QED
    BY <1>1, <1>3, <1>4, <1>5

\* The token goes from EMPTY to the server.
LEMMA takeEmptyIInv == ASSUME IInv, NEW s \in Servers, takeEmpty(s) PROVE IInv'
<1> USE DEF IInv, takeEmpty, Add
<1>1. TypeOK'
  <2>1. sem' \in [SemIds -> 0 .. 1]
    BY DEF TypeOK, TokenInv, CanTake
  <2>. QED
    BY <2>1 DEF TypeOK, ServerLabels, ClientLabels
<1>2. SameRoles
    BY DEF SameRoles, TypeOK
<1>3. UndoInv' /\ SingleInv' /\ PresenceInv'
    BY <1>2, SameRolesLemma
<1>4. TokenInv'
    BY DEF TypeOK, TokenInv, SingleInv, ServerHolds, ClientHolds, CanTake
<1>5. ResetQuiescent'
    BY DEF TypeOK, ResetQuiescent
<1>. QED
    BY <1>1, <1>3, <1>4, <1>5

\* The server only walks on.
LEMMA clientHasDiedIInv == ASSUME IInv, NEW s \in Servers, clientHasDied(s) PROVE IInv'
<1> USE DEF IInv, clientHasDied
<1>1. TypeOK'
    BY DEF TypeOK, ServerLabels, ClientLabels
<1>2. SameRoles
    BY DEF SameRoles, TypeOK
<1>3. UndoInv' /\ SingleInv' /\ PresenceInv'
    BY <1>2, SameRolesLemma
<1>4. TokenInv'
    BY DEF TypeOK, TokenInv, SingleInv, ServerHolds, ClientHolds
<1>5. ResetQuiescent'
    BY DEF TypeOK, ResetQuiescent
<1>. QED
    BY <1>1, <1>3, <1>4, <1>5

\* The server fills the buffer and keeps the token.
LEMMA readChunkIInv == ASSUME IInv, NEW s \in Servers, readChunk(s) PROVE IInv'
<1> USE DEF IInv, readChunk
<1>1. TypeOK'
  <2>1. buf' \in Buffers
    BY DEF TypeOK, Buffers
  <2>2. pos' \in [Servers -> Nat] /\ \A t \in Servers : pos'[t] <= FileLen[t]
    BY DEF TypeOK
  <2>. QED
    BY <2>1, <2>2 DEF TypeOK, ServerLabels, ClientLabels
<1>2. SameRoles
    BY DEF SameRoles, TypeOK
<1>3. UndoInv' /\ SingleInv' /\ PresenceInv'
    BY <1>2, SameRolesLemma
<1>4. TokenInv'
    BY DEF TypeOK, TokenInv, SingleInv, ServerHolds, ClientHolds
<1>5. ResetQuiescent'
    BY DEF TypeOK, ResetQuiescent
<1>. QED
    BY <1>1, <1>3, <1>4, <1>5

\* The server gives up, and the token with it.
LEMMA readFailsIInv == ASSUME IInv, NEW s \in Servers, readFails(s) PROVE IInv'
<1> USE DEF IInv, readFails
<1>1. TypeOK'
  <2>1. buf' = [from |-> buf.from, chunk |-> buf.chunk, size |-> -1]
    BY DEF TypeOK, Buffers
  <2>2. /\ buf.from \in Servers \cup {NoServer}
        /\ buf.chunk \in Nat
        /\ -1 \in -1 .. ChunkSize
    BY DEF TypeOK, Buffers
  <2>3. buf' \in Buffers
    BY <2>1, <2>2 DEF Buffers
  <2>. QED
    BY <2>3 DEF TypeOK, ServerLabels, ClientLabels
<1>2. SameRoles
    BY DEF SameRoles, TypeOK
<1>3. UndoInv' /\ SingleInv' /\ PresenceInv'
    BY <1>2, SameRolesLemma
<1>4. TokenInv'
    BY DEF TypeOK, TokenInv, SingleInv, ServerHolds, ClientHolds
<1>5. ResetQuiescent'
    BY DEF TypeOK, ResetQuiescent
<1>. QED
    BY <1>1, <1>3, <1>4, <1>5

\* The token goes from the server to FULL.
LEMMA wakeClientIInv == ASSUME IInv, NEW s \in Servers, wakeClient(s) PROVE IInv'
<1> USE DEF IInv, wakeClient, Add
<1>1. TypeOK'
  <2>1. sem' \in [SemIds -> 0 .. 1]
    BY DEF TypeOK, TokenInv, ServerHolds
  <2>. QED
    BY <2>1 DEF TypeOK, ServerLabels, ClientLabels
<1>2. SameRoles
    BY DEF SameRoles, TypeOK
<1>3. UndoInv' /\ SingleInv' /\ PresenceInv'
    BY <1>2, SameRolesLemma
<1>4. TokenInv'
    BY DEF TypeOK, TokenInv, SingleInv, ServerHolds, ClientHolds
<1>5. ResetQuiescent'
    BY DEF TypeOK, ResetQuiescent
<1>. QED
    BY <1>1, <1>3, <1>4, <1>5

\* The server only walks on: it does not hold the token any more.
LEMMA testEofIInv == ASSUME IInv, NEW s \in Servers, testEof(s) PROVE IInv'
<1> USE DEF IInv, testEof
<1>1. TypeOK'
    BY DEF TypeOK, ServerLabels, ClientLabels
<1>2. SameRoles
    BY DEF SameRoles, TypeOK
<1>3. UndoInv' /\ SingleInv' /\ PresenceInv'
    BY <1>2, SameRolesLemma
<1>4. TokenInv'
    BY DEF TypeOK, TokenInv, SingleInv, ServerHolds, ClientHolds
<1>5. ResetQuiescent'
    BY DEF TypeOK, ResetQuiescent
<1>. QED
    BY <1>1, <1>3, <1>4, <1>5

-----------------------------------------------------------------------------
(* Steps that change no role: the client's.                                *)

\* The client enters its loop: a server is ready, so none is setting up.
LEMMA waitForServerIInv == ASSUME IInv, NEW c \in Clients, waitForServer(c) PROVE IInv'
<1> USE DEF IInv, waitForServer
<1>1. TypeOK'
    BY DEF TypeOK, ServerLabels, ClientLabels
<1>2. SameRoles
    BY DEF SameRoles, TypeOK
<1>3. UndoInv' /\ SingleInv' /\ PresenceInv'
    BY <1>2, SameRolesLemma
<1>4. TokenInv'
    BY DEF TypeOK, TokenInv, SingleInv, ServerHolds, ClientHolds
<1>5. ResetQuiescent'
    BY DEF TypeOK, ResetQuiescent, SingleInv, PresenceInv, ServerIsReady, IsOne
<1>. QED
    BY <1>1, <1>3, <1>4, <1>5

\* The token goes from FULL to the client.
LEMMA takeFullIInv == ASSUME IInv, NEW c \in Clients, takeFull(c) PROVE IInv'
<1> USE DEF IInv, takeFull, Add
<1>1. TypeOK'
  <2>1. sem' \in [SemIds -> 0 .. 1]
    BY DEF TypeOK, TokenInv, CanTake
  <2>. QED
    BY <2>1 DEF TypeOK, ServerLabels, ClientLabels
<1>2. SameRoles
    BY DEF SameRoles, TypeOK
<1>3. UndoInv' /\ SingleInv' /\ PresenceInv'
    BY <1>2, SameRolesLemma
<1>4. TokenInv'
    BY DEF TypeOK, TokenInv, SingleInv, ServerHolds, ClientHolds, CanTake
<1>5. ResetQuiescent'
    BY DEF TypeOK, ResetQuiescent
<1>. QED
    BY <1>1, <1>3, <1>4, <1>5

\* The client only walks on.
LEMMA serverHasDiedIInv == ASSUME IInv, NEW c \in Clients, serverHasDied(c) PROVE IInv'
<1> USE DEF IInv, serverHasDied
<1>1. TypeOK'
    BY DEF TypeOK, ServerLabels, ClientLabels
<1>2. SameRoles
    BY DEF SameRoles, TypeOK
<1>3. UndoInv' /\ SingleInv' /\ PresenceInv'
    BY <1>2, SameRolesLemma
<1>4. TokenInv'
    BY DEF TypeOK, TokenInv, SingleInv, ServerHolds, ClientHolds
<1>5. ResetQuiescent'
    BY DEF TypeOK, ResetQuiescent
<1>. QED
    BY <1>1, <1>3, <1>4, <1>5

\* The client keeps the token.
LEMMA seesChunkIInv == ASSUME IInv, NEW c \in Clients, seesChunk(c) PROVE IInv'
<1> USE DEF IInv, seesChunk
<1>1. TypeOK'
    BY DEF TypeOK, ServerLabels, ClientLabels
<1>2. SameRoles
    BY DEF SameRoles, TypeOK
<1>3. UndoInv' /\ SingleInv' /\ PresenceInv'
    BY <1>2, SameRolesLemma
<1>4. TokenInv'
    BY DEF TypeOK, TokenInv, SingleInv, ServerHolds, ClientHolds
<1>5. ResetQuiescent'
    BY DEF TypeOK, ResetQuiescent
<1>. QED
    BY <1>1, <1>3, <1>4, <1>5

\* The client keeps the token to its end, when it is lost.
LEMMA seesEofIInv == ASSUME IInv, NEW c \in Clients, seesEof(c) PROVE IInv'
<1> USE DEF IInv, seesEof
<1>1. TypeOK'
    BY DEF TypeOK, ServerLabels, ClientLabels
<1>2. SameRoles
    BY DEF SameRoles, TypeOK
<1>3. UndoInv' /\ SingleInv' /\ PresenceInv'
    BY <1>2, SameRolesLemma
<1>4. TokenInv'
    BY DEF TypeOK, TokenInv, SingleInv, ServerHolds, ClientHolds
<1>5. ResetQuiescent'
    BY DEF TypeOK, ResetQuiescent
<1>. QED
    BY <1>1, <1>3, <1>4, <1>5

\* The client writes and keeps the token.
LEMMA writeChunkIInv == ASSUME IInv, NEW c \in Clients, writeChunk(c) PROVE IInv'
<1> USE DEF IInv, writeChunk
<1>1. TypeOK'
  <2>1. PICK w \in 1 .. buf.size :
          /\ log' = Append(log, [by |-> c, from |-> buf.from, chunk |-> buf.chunk, at |-> 0, len |-> w])
          /\ total' = [total EXCEPT ![c] = @ + w]
          /\ Goto(c, IF total[c] + w < buf.size THEN "write" ELSE "wake")
    OBVIOUS
  <2>2. w \in 1 .. ChunkSize /\ total' \in [Clients -> Nat]
    BY <2>1 DEF TypeOK, Buffers
  <2>3. log' \in Seq(Writes)
    BY <2>1, <2>2 DEF TypeOK, Buffers, Writes
  <2>. QED
    BY <2>1, <2>2, <2>3 DEF TypeOK, ServerLabels, ClientLabels
<1>2. SameRoles
    BY DEF SameRoles, TypeOK
<1>3. UndoInv' /\ SingleInv' /\ PresenceInv'
    BY <1>2, SameRolesLemma
<1>4. TokenInv'
    BY DEF TypeOK, TokenInv, SingleInv, ServerHolds, ClientHolds
<1>5. ResetQuiescent'
    BY DEF TypeOK, ResetQuiescent
<1>. QED
    BY <1>1, <1>3, <1>4, <1>5

\* The client gives up, and the token with it.
LEMMA writeFailsIInv == ASSUME IInv, NEW c \in Clients, writeFails(c) PROVE IInv'
<1> USE DEF IInv, writeFails
<1>1. TypeOK'
    BY DEF TypeOK, ServerLabels, ClientLabels
<1>2. SameRoles
    BY DEF SameRoles, TypeOK
<1>3. UndoInv' /\ SingleInv' /\ PresenceInv'
    BY <1>2, SameRolesLemma
<1>4. TokenInv'
    BY DEF TypeOK, TokenInv, SingleInv, ServerHolds, ClientHolds
<1>5. ResetQuiescent'
    BY DEF TypeOK, ResetQuiescent
<1>. QED
    BY <1>1, <1>3, <1>4, <1>5

\* The token goes from the client to EMPTY.
LEMMA wakeServerIInv == ASSUME IInv, NEW c \in Clients, wakeServer(c) PROVE IInv'
<1> USE DEF IInv, wakeServer, Add
<1>1. TypeOK'
  <2>1. sem' \in [SemIds -> 0 .. 1]
    BY DEF TypeOK, TokenInv, ClientHolds
  <2>. QED
    BY <2>1 DEF TypeOK, ServerLabels, ClientLabels
<1>2. SameRoles
    BY DEF SameRoles, TypeOK
<1>3. UndoInv' /\ SingleInv' /\ PresenceInv'
    BY <1>2, SameRolesLemma
<1>4. TokenInv'
    BY DEF TypeOK, TokenInv, SingleInv, ServerHolds, ClientHolds
<1>5. ResetQuiescent'
    BY DEF TypeOK, ResetQuiescent
<1>. QED
    BY <1>1, <1>3, <1>4, <1>5

-----------------------------------------------------------------------------
(* Steps that take a role.                                                 *)

\* A server enters: SERVER and CLIENT are zero, so there is nobody else.
LEMMA acquireServerIInv == ASSUME IInv, NEW s \in Servers, acquireServer(s) PROVE IInv'
<1> USE DEF IInv, acquireServer, BlockIsFree, Add
<1>1. /\ \A t \in Servers : ~LiveServer(t)
      /\ \A c \in Clients : ~LiveClient(c)
    BY DEF TypeOK, PresenceInv
<1>2. TypeOK'
    BY DEF TypeOK, ServerLabels, ClientLabels
<1>3. UndoInv'
    BY <1>1 DEF TypeOK, UndoInv
<1>4. SingleInv'
    BY <1>1 DEF TypeOK, SingleInv
<1>5. PresenceInv'
    BY <1>1 DEF TypeOK, PresenceInv
<1>6. TokenInv' /\ ResetQuiescent'
    BY <1>1 DEF TypeOK, TokenInv, ResetQuiescent, ServerHolds, ClientHolds
<1>. QED
    BY <1>2, <1>3, <1>4, <1>5, <1>6

\* The counters are reset while no client is in its loop: the role is the
\* same, and a token left from the last session goes.
LEMMA setFullIInv == ASSUME IInv, NEW s \in Servers, setFull(s) PROVE IInv'
<1> USE DEF IInv, setFull, SetVal
<1>1. TypeOK'
    BY DEF TypeOK, ServerLabels, ClientLabels
<1>2. undo' = undo
  <2>1. \A p \in Procs : undo[p] \ {FULL} = undo[p]
    BY DEF UndoInv
  <2>. QED
    BY <2>1 DEF TypeOK
<1>3. SameRoles
    BY <1>2 DEF SameRoles, TypeOK
<1>4. UndoInv' /\ SingleInv' /\ PresenceInv'
    BY <1>3, SameRolesLemma
<1>5. TokenInv'
    BY DEF TypeOK, TokenInv, SingleInv, ServerHolds, ClientHolds
<1>6. ResetQuiescent'
    BY DEF TypeOK, ResetQuiescent
<1>. QED
    BY <1>1, <1>4, <1>5, <1>6

\* The token is made while nobody can hold one.
LEMMA setEmptyIInv == ASSUME IInv, NEW s \in Servers, setEmpty(s) PROVE IInv'
<1> USE DEF IInv, setEmpty, SetVal
<1>1. TypeOK'
    BY DEF TypeOK, ServerLabels, ClientLabels
<1>2. undo' = undo
  <2>1. \A p \in Procs : undo[p] \ {EMPTY} = undo[p]
    BY DEF UndoInv
  <2>. QED
    BY <2>1 DEF TypeOK
<1>3. SameRoles
    BY <1>2 DEF SameRoles, TypeOK
<1>4. UndoInv' /\ SingleInv' /\ PresenceInv'
    BY <1>3, SameRolesLemma
<1>5. TokenInv'
    BY DEF TypeOK, TokenInv, SingleInv, ResetQuiescent, ServerHolds, ClientHolds
<1>6. ResetQuiescent'
    BY DEF TypeOK, ResetQuiescent
<1>. QED
    BY <1>1, <1>4, <1>5, <1>6

\* The only server becomes ready, so INITED was zero.
LEMMA signalInitIInv == ASSUME IInv, NEW s \in Servers, signalInit(s) PROVE IInv'
<1> USE DEF IInv, signalInit, Add
<1>1. /\ \A t \in Servers : LiveServer(t) => t = s
      /\ sem[INITED] = 0
    BY DEF TypeOK, SingleInv, PresenceInv
<1>2. TypeOK'
    BY <1>1 DEF TypeOK, ServerLabels, ClientLabels
<1>3. UndoInv'
  <2>1. \A t \in Servers : undo'[t] = IF t = s THEN undo[s] \cup {INITED} ELSE undo[t]
    BY DEF TypeOK
  <2>2. \A c \in Clients : undo'[c] = undo[c]
    BY DEF TypeOK
  <2>3. undo[s] = {SERVER}
    BY DEF UndoInv
  <2>. QED
    BY <2>1, <2>2, <2>3 DEF TypeOK, UndoInv
<1>6. SingleInv'
    BY DEF TypeOK, SingleInv
<1>4. PresenceInv'
    BY <1>1 DEF TypeOK, PresenceInv
<1>5. TokenInv' /\ ResetQuiescent'
    BY DEF TypeOK, TokenInv, ResetQuiescent, ServerHolds, ClientHolds
<1>. QED
    BY <1>2, <1>3, <1>4, <1>5, <1>6

\* A client enters: CLIENT is zero, so there is no other.
LEMMA acquireClientIInv == ASSUME IInv, NEW c \in Clients, acquireClient(c) PROVE IInv'
<1> USE DEF IInv, acquireClient, ServerIsAlone, Add
<1>1. \A d \in Clients : ~LiveClient(d)
    BY DEF TypeOK, PresenceInv
<1>2. TypeOK'
    BY DEF TypeOK, ServerLabels, ClientLabels
<1>3. UndoInv' /\ SingleInv'
    BY <1>1 DEF TypeOK, UndoInv, SingleInv
<1>4. PresenceInv'
    BY <1>1 DEF TypeOK, PresenceInv
<1>5. TokenInv' /\ ResetQuiescent'
    BY DEF TypeOK, TokenInv, ResetQuiescent, ServerHolds, ClientHolds
<1>. QED
    BY <1>2, <1>3, <1>4, <1>5

-----------------------------------------------------------------------------
(* The end of a process.                                                   *)

\* What the kernel undoes is the role the process had, and the process was
\* the only one to have it.
LEMMA ExitIInv ==
    ASSUME IInv, NEW p \in Procs, NEW how \in Ended, pc[p] \notin Ended, Exit(p, how)
    PROVE  IInv'
<1> USE DEF IInv, Exit
<1>1. /\ sem' \in [SemIds -> 0 .. 1]
      /\ \A i \in SemIds : sem'[i] = IF i \in undo[p] THEN 0 ELSE sem[i]
    BY DEF TypeOK, Undone
<1>2. TypeOK'
    BY <1>1 DEF TypeOK, ServerLabels, ClientLabels
<1>3. UndoInv' /\ SingleInv'
    BY DEF TypeOK, UndoInv, SingleInv
<1>4. CASE p \in Servers
  <2>1. /\ SERVER \in undo[p] <=> LiveServer(p)
        /\ INITED \in undo[p] <=> ReadyServer(p)
        /\ undo[p] \subseteq {SERVER, INITED}
    BY <1>4 DEF UndoInv
  <2>2. PresenceInv'
    BY <1>1, <1>4, <2>1 DEF TypeOK, SingleInv, PresenceInv
  <2>3. TokenInv' /\ ResetQuiescent'
    BY <1>1, <1>4, <2>1 DEF TypeOK, TokenInv, ResetQuiescent, ServerHolds, ClientHolds
  <2>. QED
    BY <1>2, <1>3, <2>2, <2>3
<1>5. CASE p \in Clients
  <2>1. undo[p] = IF LiveClient(p) THEN {CLIENT} ELSE {}
    BY <1>5 DEF UndoInv
  <2>2. PresenceInv'
    BY <1>1, <1>5, <2>1 DEF TypeOK, SingleInv, PresenceInv
  <2>3. TokenInv' /\ ResetQuiescent'
    BY <1>1, <1>5, <2>1 DEF TypeOK, TokenInv, ResetQuiescent, ServerHolds, ClientHolds
  <2>. QED
    BY <1>2, <1>3, <2>2, <2>3
<1>. QED
    BY <1>4, <1>5

\* Every step of the program keeps the invariant.
LEMMA NextIInv == IInv /\ [Next]_vars => IInv'
<1> SUFFICES ASSUME IInv, [Next]_vars PROVE IInv'
    OBVIOUS
<1>1. ASSUME NEW s \in Servers, server(s) PROVE IInv'
  <2>1. CASE acquireServer(s)  BY <2>1, acquireServerIInv
  <2>2. CASE setFull(s)        BY <2>2, setFullIInv
  <2>3. CASE setEmpty(s)       BY <2>3, setEmptyIInv
  <2>4. CASE signalInit(s)     BY <2>4, signalInitIInv
  <2>5. CASE waitForClient(s)  BY <2>5, waitForClientIInv
  <2>6. CASE takeEmpty(s)      BY <2>6, takeEmptyIInv
  <2>7. CASE clientHasDied(s)  BY <2>7, clientHasDiedIInv
  <2>8. CASE readChunk(s)      BY <2>8, readChunkIInv
  <2>9. CASE wakeClient(s)     BY <2>9, wakeClientIInv
  <2>10. CASE testEof(s)       BY <2>10, testEofIInv
  <2>11. CASE serverExits(s)   BY <2>11, ExitIInv DEF serverExits
  <2>. QED
    BY <1>1, <2>1, <2>2, <2>3, <2>4, <2>5, <2>6, <2>7, <2>8, <2>9, <2>10, <2>11 DEF server
<1>2. ASSUME NEW c \in Clients, client(c) PROVE IInv'
  <2>1. CASE acquireClient(c)  BY <2>1, acquireClientIInv
  <2>2. CASE waitForServer(c)  BY <2>2, waitForServerIInv
  <2>3. CASE takeFull(c)       BY <2>3, takeFullIInv
  <2>4. CASE serverHasDied(c)  BY <2>4, serverHasDiedIInv
  <2>5. CASE seesChunk(c)      BY <2>5, seesChunkIInv
  <2>6. CASE seesEof(c)        BY <2>6, seesEofIInv
  <2>7. CASE writeChunk(c)     BY <2>7, writeChunkIInv
  <2>8. CASE wakeServer(c)     BY <2>8, wakeServerIInv
  <2>9. CASE clientExits(c)    BY <2>9, ExitIInv DEF clientExits
  <2>. QED
    BY <1>2, <2>1, <2>2, <2>3, <2>4, <2>5, <2>6, <2>7, <2>8, <2>9 DEF client
<1>3. ASSUME NEW s \in Servers, readFails(s) PROVE IInv'
    BY <1>3, readFailsIInv
<1>4. ASSUME NEW c \in Clients, writeFails(c) PROVE IInv'
    BY <1>4, writeFailsIInv
<1>5. ASSUME NEW p \in Procs, killed(p) PROVE IInv'
    BY <1>5, ExitIInv DEF killed
<1>6. CASE UNCHANGED vars
  <2>1. TypeOK' /\ UndoInv' /\ SingleInv' /\ PresenceInv'
    BY <1>6 DEF vars, IInv, TypeOK, UndoInv, SingleInv, PresenceInv
  <2>2. TokenInv' /\ ResetQuiescent'
    BY <1>6 DEF vars, IInv, TokenInv, ServerHolds, ClientHolds, ResetQuiescent
  <2>. QED
    BY <2>1, <2>2 DEF IInv
<1>. QED
    BY <1>1, <1>2, <1>3, <1>4, <1>5, <1>6 DEF Next

-----------------------------------------------------------------------------
\* The inductive invariant holds in every state, whatever is killed and
\* whatever the last session left in the semaphores.
THEOREM Invariance == Spec => []IInv
<1>1. Init => IInv
    BY InitIInv
<1>2. IInv /\ [Next]_vars => IInv'
    BY NextIInv
<1>. QED
    BY <1>1, <1>2, PTL DEF Spec

\* Every variable keeps its type: no semaphore ever exceeds one.
THEOREM TypeCorrect == Spec => []TypeOK
<1>1. IInv => TypeOK
    BY DEF IInv
<1>. QED
    BY <1>1, Invariance, PTL

\* SETVAL never meets a client that uses the counters (acquireServer()).
THEOREM ResetIsQuiescent == Spec => []ResetQuiescent
<1>1. IInv => ResetQuiescent
    BY DEF IInv
<1>. QED
    BY <1>1, Invariance, PTL

\* The shared buffer has one user at a time.
THEOREM Exclusion == Spec => []BufferExclusive
<1>1. IInv => BufferExclusive
    BY DEF IInv, SingleInv, TokenInv, ServerHolds, ClientHolds, BufferExclusive
<1>. QED
    BY <1>1, Invariance, PTL

\* The buffer does not change while somebody relies on what is in it.
THEOREM Stability == Spec => BufferStable
<1>1. ASSUME IInv, [Next]_vars, buf' # buf
      PROVE  /\ sem[FULL] = 0
             /\ \A c \in Clients : ~ClientHolds(c)
             /\ \A s \in Servers : pc[s] \notin {"wake", "eof"}
  <2>1. PICK s \in Servers : readChunk(s) \/ readFails(s)
    BY <1>1 DEF Next, vars, server, client, acquireServer, setFull, setEmpty, signalInit,
        waitForClient, takeEmpty, clientHasDied, wakeClient, testEof, serverExits,
        acquireClient, waitForServer, takeFull, serverHasDied, seesChunk, seesEof,
        writeChunk, wakeServer, clientExits, writeFails, killed, Exit
  <2>2. pc[s] = "read"
    BY <2>1 DEF readChunk, readFails
  <2>. QED
    BY <1>1, <2>2 DEF IInv, SingleInv, TokenInv, ServerHolds
<1>2. IInv /\ [Next]_vars =>
        [buf' # buf =>
          /\ sem[FULL] = 0
          /\ \A c \in Clients : ~ClientHolds(c)
          /\ \A s \in Servers : pc[s] \notin {"wake", "eof"}]_vars
    BY <1>1
<1>. QED
    BY <1>2, Invariance, PTL DEF Spec, BufferStable

\* In every state the semop() arrays do what the actions say of them.
THEOREM OpsAlwaysAgree == Spec => []OpsAgree
<1>1. TypeOK => sem \in [SemIds -> Nat]
    BY DEF TypeOK
<1>2. TypeOK => OpsAgree
    BY <1>1, ArraysDoWhatTheGuardsSay DEF OpsAgree
<1>. QED
    BY <1>2, TypeCorrect, PTL
-----------------------------------------------------------------------------
(* What was printed.  These speak of a log l, so that a step that does not *)
(* print leaves them alone.                                                *)

\* The writes of the file of s.
From(l, s) == {i \in DOMAIN l : l[i].from = s}

\* The first k chunks of s were printed; if writes are whole, nothing else of s.
Whole(l, s, k) ==
    /\ \A j \in 1 .. k : \E i \in From(l, s) : l[i].chunk = j
    /\ ~ShortWrites => Cardinality(From(l, s)) = k

\* What c has printed is of s.
Only(l, c, s) == \A i \in DOMAIN l : l[i].by = c => l[i].from = s

\* Nothing of another server was printed since the first chunk of s.
Current(l, s) == From(l, s) = {} \/ l[Len(l)].from = s

\* The buffer b has chunk k of s, which is the next one, or the end of its file.
Filled(b, l, s, k) ==
    /\ b.from = s
    /\ \/ b.size = ChunkSize /\ b.chunk = k /\ k > 0 /\ Whole(l, s, k - 1)
       \/ b.size = 0 /\ k = FileLen[s] /\ Whole(l, s, k)

-----------------------------------------------------------------------------
(* The sessions: where the next chunk is, and who was served by whom.      *)

\* A client looks at the buffer or writes it out.
InUse == \E c \in Clients : pc[c] \in {"look", "write"}

\* The token is back from the client, or on its way.
TokenBack(s) == sem[EMPTY] = 1 \/ pc[s] = "read" \/ \E c \in Clients : pc[c] = "wake"

\* A server that has not met a client has printed nothing, nothing waits for a
\* client, and a client waits for it.
Before(s) ==
    /\ pc[s] \in {"start", "waitForClient"} \union SettingUp =>
           pos[s] = 0 /\ From(log, s) = {}
    /\ pc[s] \in {"signalInit", "waitForClient"} => sem[FULL] = 0
    /\ pc[s] \in {"waitForClient"} \union SettingUp =>
           \A c \in Clients : LiveClient(c) => pc[c] \in {"waitForServer", "waitFull"}

\* A server that is ready: while the token is away, the buffer has what it read
\* last; when it is back, all that was read is printed.
During(s) ==
    /\ ReadyServer(s) => Current(log, s)
    /\ pc[s] = "wake" => Filled(buf, log, s, pos[s])
    /\ ReadyServer(s) /\ (sem[FULL] = 1 \/ InUse) => Filled(buf, log, s, pos[s])
    /\ pc[s] \in ServerLoop /\ TokenBack(s) => Whole(log, s, pos[s])
    /\ pc[s] = "eof" => /\ buf.size \in {0, ChunkSize}
                        /\ buf.size = 0 => Whole(log, s, FileLen[s])
    /\ pc[s] = "waitEmpty" /\ (sem[FULL] = 1 \/ InUse) => buf.size # 0

\* A server that has succeeded, or is about to.
After(s) == pc[s] \in {"returnOk", "ok"} => Whole(log, s, FileLen[s])

\* A client prints what the buffer has, also when the server is gone.
Printing ==
    InUse => \E s \in Servers : Filled(buf, log, s, pos[s]) /\ Current(log, s)

\* The server that c has met.
Met(c, s) ==
    /\ Only(log, c, s)
    /\ pc[s] \in (ServerLive \ SettingUp) \union Ended
    /\ \A t \in Servers : ReadyServer(t) => t = s
    /\ pc[c] \in {"look", "write"} => buf.from = s

\* A client prints for one server, and leaves when its file is printed.
Served(c) ==
    /\ pc[c] \in {"start", "waitForServer"} => \A i \in DOMAIN log : log[i].by # c
    /\ pc[c] \in ClientLoop => \E s \in Servers : Met(c, s)
    /\ pc[c] \in {"returnOk", "ok"} =>
           \E s \in Servers : Only(log, c, s) /\ Whole(log, s, FileLen[s])
    /\ faulty = {} /\ pc[c] \in {"returnFail", "failed"} =>
           \E s \in Servers : pc[s] = "ok" /\ Only(log, c, s)

\* Without faults no server fails, because its client waits for it.
Faultless ==
    faulty = {} =>
        /\ \A s \in Servers : pc[s] \notin {"returnFail", "failed", "killed"}
        /\ \A s \in Servers :
               pc[s] \in {"waitEmpty", "read", "wake"} \/ (pc[s] = "eof" /\ buf.size # 0) =>
                   \E c \in Clients : pc[c] \in {"waitForServer"} \union ClientLoop

Sessions ==
    /\ \A s \in Servers : Before(s) /\ During(s) /\ After(s)
    /\ Printing
    /\ \A c \in Clients : Served(c)
    /\ Faultless
-----------------------------------------------------------------------------
(* A log that grows by one write.                                          *)

\* The log l2 is l and the write e after it.
Grows(l, l2, e) ==
    /\ Len(l) \in Nat /\ Len(l2) = Len(l) + 1
    /\ DOMAIN l = 1 .. Len(l) /\ DOMAIN l2 = 1 .. (Len(l) + 1)
    /\ \A i \in 1 .. Len(l) : l2[i] = l[i]
    /\ l2[Len(l) + 1] = e

\* Append does that.
LEMMA AppendGrows ==
    ASSUME NEW l \in Seq(Writes), NEW e \in Writes, NEW l2, l2 = Append(l, e)
    PROVE  Grows(l, l2, e)
    BY DEF Grows

\* The new write counts for its own server only.
LEMMA FromGrows ==
    ASSUME NEW l, NEW l2, NEW e, Grows(l, l2, e), NEW s
    PROVE  /\ e.from = s => From(l2, s) = From(l, s) \union {Len(l) + 1}
           /\ e.from # s => From(l2, s) = From(l, s)
           /\ Len(l) + 1 \notin From(l, s)
           /\ IsFiniteSet(From(l, s))
           /\ \A i \in From(l, s) : l2[i] = l[i]
           /\ l2[Len(l) + 1] = e
<1>1. /\ DOMAIN l = 1 .. Len(l) /\ Len(l) \in Nat
      /\ DOMAIN l2 = 1 .. (Len(l) + 1)
      /\ \A i \in 1 .. Len(l) : l2[i] = l[i]
      /\ l2[Len(l) + 1] = e
    BY DEF Grows
<1>2. From(l, s) \subseteq 1 .. Len(l)
    BY <1>1 DEF From
<1>3. IsFiniteSet(From(l, s))
  <2>1. IsFiniteSet(1 .. Len(l))
    BY <1>1, FS_Interval
  <2>. QED
    BY <1>2, <2>1, FS_Subset
<1>4. /\ e.from = s => From(l2, s) = From(l, s) \union {Len(l) + 1}
      /\ e.from # s => From(l2, s) = From(l, s)
  <2>1. \A i : i \in From(l2, s) <=>
                   i \in From(l, s) \/ (i = Len(l) + 1 /\ e.from = s)
    BY <1>1 DEF From
  <2>. QED
    BY <2>1
<1>. QED
    BY <1>1, <1>2, <1>3, <1>4

\* A write of another file changes nothing of a file.
LEMMA OtherWrite ==
    ASSUME NEW l, NEW l2, NEW e, Grows(l, l2, e), NEW s, e.from # s, NEW k, Whole(l, s, k)
    PROVE  Whole(l2, s, k)
<1>1. /\ From(l2, s) = From(l, s)
      /\ \A i \in From(l, s) : l2[i] = l[i]
    BY FromGrows
<1>. QED
    BY <1>1 DEF Whole

\* A write never takes anything back.
LEMMA ShortWrite ==
    ASSUME NEW l, NEW l2, NEW e, Grows(l, l2, e), NEW s, ShortWrites, NEW k, Whole(l, s, k)
    PROVE  Whole(l2, s, k)
<1>1. /\ From(l, s) \subseteq From(l2, s)
      /\ \A i \in From(l, s) : l2[i] = l[i]
    BY FromGrows
<1>. QED
    BY <1>1 DEF Whole

\* The next chunk is printed.
LEMMA NextChunk ==
    ASSUME NEW l, NEW l2, NEW e, Grows(l, l2, e), NEW k \in Nat, k > 0,
           e.chunk = k, Whole(l, e.from, k - 1)
    PROVE  Whole(l2, e.from, k)
<1> DEFINE s == e.from
<1>1. /\ From(l2, s) = From(l, s) \union {Len(l) + 1}
      /\ Len(l) + 1 \notin From(l, s)
      /\ IsFiniteSet(From(l, s))
      /\ \A i \in From(l, s) : l2[i] = l[i]
      /\ l2[Len(l) + 1] = e
    BY FromGrows
<1>2. Cardinality(From(l2, s)) = Cardinality(From(l, s)) + 1
    BY <1>1, FS_AddElement
<1>3. \A j \in 1 .. k : \E i \in From(l2, s) : l2[i].chunk = j
  <2> SUFFICES ASSUME NEW j \in 1 .. k PROVE \E i \in From(l2, s) : l2[i].chunk = j
    OBVIOUS
  <2>1. CASE j = k
    BY <1>1, <2>1
  <2>. j = k \/ j \in 1 .. (k - 1)
    OBVIOUS
  <2>2. CASE j \in 1 .. (k - 1)
    <3>1. PICK i \in From(l, s) : l[i].chunk = j
      BY <2>2 DEF Whole
    <3>. QED
      BY <1>1, <3>1
  <2>. QED
    BY <2>1, <2>2
<1>4. ~ShortWrites => Cardinality(From(l2, s)) = k
    BY <1>2 DEF Whole
<1>. QED
    BY <1>3, <1>4 DEF Whole

\* What a client has printed for.
LEMMA OnlyGrows ==
    ASSUME NEW l, NEW l2, NEW e, Grows(l, l2, e), NEW c, NEW s
    PROVE  /\ Only(l2, c, s) <=> Only(l, c, s) /\ (e.by = c => e.from = s)
           /\ (\A i \in DOMAIN l2 : l2[i].by # c) <=>
                  (\A i \in DOMAIN l : l[i].by # c) /\ e.by # c
<1>1. /\ DOMAIN l = 1 .. Len(l) /\ Len(l) \in Nat
      /\ DOMAIN l2 = 1 .. (Len(l) + 1)
      /\ \A i \in 1 .. Len(l) : l2[i] = l[i]
      /\ l2[Len(l) + 1] = e
    BY DEF Grows
<1>2. \A i \in 1 .. Len(l) : i \in 1 .. (Len(l) + 1)
    BY <1>1
<1>3. Len(l) + 1 \in 1 .. (Len(l) + 1) /\ \A i \in 1 .. (Len(l) + 1) : i \in 1 .. Len(l) \/ i = Len(l) + 1
    BY <1>1
<1>. QED
    BY <1>1, <1>2, <1>3 DEF Only

\* The server of the last write is the current one.
LEMMA LastWrite ==
    ASSUME NEW l, NEW l2, NEW e, Grows(l, l2, e)
    PROVE  Current(l2, e.from)
    BY DEF Grows, Current

\* Nothing was printed.
LEMMA NothingPrinted ==
    ASSUME NEW l, NEW s, From(l, s) = {}
    PROVE  Whole(l, s, 0) /\ Current(l, s)
    BY FS_EmptySet DEF Whole, Current

-----------------------------------------------------------------------------
(* Who was served by whom.                                                 *)

\* A step of another process, that does not print, leaves a client served: no
\* server comes for it, and the server that it met does not start again.
LEMMA ServedStays ==
    ASSUME NEW c \in Clients, Served(c), UNCHANGED <<log, faulty>>, pc'[c] = pc[c],
           pc[c] \in {"look", "write"} => buf' = buf,
           \A s \in Servers : pc[s] = "ok" => pc'[s] = "ok",
           \A s \in Servers : pc[s] \in (ServerLive \ SettingUp) \union Ended
                                  => pc'[s] \in (ServerLive \ SettingUp) \union Ended,
           pc[c] \in ClientLoop => \A s \in Servers : ReadyServer(s)' => ReadyServer(s)
    PROVE  Served(c)'
<1>1. \A s \in Servers : pc[c] \in ClientLoop /\ Met(c, s) => Met(c, s)'
    BY DEF Met
<1>. QED
    BY <1>1 DEF Served

\* A server that enters the block has printed nothing and met nobody.
LEMMA acquireServerSessions ==
    ASSUME IInv, Sessions, NEW s \in Servers, acquireServer(s)
    PROVE  Sessions'
<1> USE DEF acquireServer, BlockIsFree, Add
<1>1. \A t \in Servers : Before(t)'
    BY DEF IInv, PresenceInv, Sessions, Before
<1>2. \A t \in Servers : During(t)'
    BY DEF Sessions, During, TokenBack, InUse
<1>3. \A t \in Servers : After(t)'
    BY DEF Sessions, After
<1>4. Printing'
    BY DEF Sessions, Printing, InUse
<1>5. \A d \in Clients : Served(d)'
    BY ServedStays DEF Sessions
<1>6. Faultless'
    BY DEF Sessions, Faultless
<1>. QED
    BY <1>1, <1>2, <1>3, <1>4, <1>5, <1>6 DEF Sessions

\* The buffer is closed before it is used.
LEMMA setFullSessions ==
    ASSUME IInv, Sessions, NEW s \in Servers, setFull(s)
    PROVE  Sessions'
<1> USE DEF setFull, SetVal
<1>1. \A t \in Servers : Before(t)'
    BY DEF Sessions, Before
<1>2. \A t \in Servers : During(t)'
    BY DEF Sessions, During, TokenBack, InUse
<1>3. \A t \in Servers : After(t)'
    BY DEF Sessions, After
<1>4. Printing'
    BY DEF Sessions, Printing, InUse
<1>5. \A d \in Clients : Served(d)'
    BY ServedStays DEF Sessions
<1>6. Faultless'
    BY DEF Sessions, Faultless
<1>. QED
    BY <1>1, <1>2, <1>3, <1>4, <1>5, <1>6 DEF Sessions

\* The server that resets EMPTY is the one at that place: it gives its own token.
LEMMA setEmptySessions ==
    ASSUME IInv, Sessions, NEW s \in Servers, setEmpty(s)
    PROVE  Sessions'
<1> USE DEF setEmpty, SetVal
<1>1. \A t \in Servers : Before(t)'
    BY DEF IInv, TokenInv, Sessions, Before
<1>2. \A t \in Servers : During(t)'
    BY DEF IInv, SingleInv, During
<1>3. \A t \in Servers : After(t)'
    BY DEF Sessions, After
<1>4. Printing'
    BY DEF Sessions, Printing, InUse
<1>5. \A d \in Clients : Served(d)'
    BY ServedStays DEF Sessions
<1>6. Faultless'
    BY DEF Sessions, Faultless
<1>. QED
    BY <1>1, <1>2, <1>3, <1>4, <1>5, <1>6 DEF Sessions

\* When INITED is raised nothing of this server was printed: its session starts.
LEMMA signalInitSessions ==
    ASSUME IInv, Sessions, NEW s \in Servers, signalInit(s)
    PROVE  Sessions'
<1> USE DEF signalInit, Add
<1>1. \A t \in Servers : Before(t)'
    BY DEF Sessions, Before
<1>2. \A t \in Servers : During(t)'
    BY NothingPrinted DEF Sessions, Before, During, TokenBack, InUse
<1>3. \A t \in Servers : After(t)'
    BY DEF Sessions, After
<1>4. Printing'
    BY DEF Sessions, Printing, InUse
<1>5. \A d \in Clients : Served(d)'
    BY ServedStays DEF IInv, ResetQuiescent, Sessions
<1>6. Faultless'
    BY DEF Sessions, Faultless
<1>. QED
    BY <1>1, <1>2, <1>3, <1>4, <1>5, <1>6 DEF Sessions

\* A server that goes on to its first chunk has printed none.
LEMMA waitForClientSessions ==
    ASSUME IInv, Sessions, NEW s \in Servers, waitForClient(s)
    PROVE  Sessions'
<1> USE DEF waitForClient, ClientIsPresent, IsOne
<1>1. \A t \in Servers : Before(t)'
    BY DEF Sessions, Before
<1>2. \A t \in Servers : During(t)'
    BY NothingPrinted DEF Sessions, Before, During, TokenBack, InUse
<1>3. \A t \in Servers : After(t)'
    BY DEF Sessions, After
<1>4. Printing'
    BY DEF Sessions, Printing, InUse
<1>5. \A d \in Clients : Served(d)'
    BY ServedStays DEF Sessions
<1>6. Faultless'
    BY DEF IInv, PresenceInv, Sessions, Before, Faultless
<1>. QED
    BY <1>1, <1>2, <1>3, <1>4, <1>5, <1>6 DEF Sessions

\* The server takes the token: the chunk before, if any, was printed.
LEMMA takeEmptySessions ==
    ASSUME IInv, Sessions, NEW s \in Servers, takeEmpty(s)
    PROVE  Sessions'
<1> USE DEF takeEmpty, CanTake, Add, ClientIsPresent, IsOne
<1>1. \A t \in Servers : Before(t)'
    BY DEF Sessions, Before
<1>2. \A t \in Servers : During(t)'
    BY DEF IInv, TypeOK, Sessions, During, TokenBack, InUse
<1>3. \A t \in Servers : After(t)'
    BY DEF Sessions, After
<1>4. Printing'
    BY DEF Sessions, Printing, InUse
<1>5. \A d \in Clients : Served(d)'
    BY ServedStays DEF Sessions
<1>6. Faultless'
    BY DEF Sessions, Faultless
<1>. QED
    BY <1>1, <1>2, <1>3, <1>4, <1>5, <1>6 DEF Sessions

\* A server that leaves the loop does not read again.
LEMMA clientHasDiedSessions ==
    ASSUME IInv, Sessions, NEW s \in Servers, clientHasDied(s)
    PROVE  Sessions'
<1> USE DEF clientHasDied, ClientIsPresent, IsOne
<1>1. \A t \in Servers : Before(t)'
    BY DEF Sessions, Before
<1>2. \A t \in Servers : During(t)'
    BY DEF Sessions, During, TokenBack, InUse
<1>3. \A t \in Servers : After(t)'
    BY DEF Sessions, After
<1>4. Printing'
    BY DEF Sessions, Printing, InUse
<1>5. \A d \in Clients : Served(d)'
    BY ServedStays DEF Sessions
<1>6. Faultless'
    BY DEF IInv, PresenceInv, Sessions, Faultless
<1>. QED
    BY <1>1, <1>2, <1>3, <1>4, <1>5, <1>6 DEF Sessions

\* A failed read leaves the buffer as it was.
LEMMA readFailsSessions ==
    ASSUME IInv, Sessions, NEW s \in Servers, readFails(s)
    PROVE  Sessions'
<1> USE DEF readFails
<1>1. \A t \in Servers : Before(t)'
    BY DEF Sessions, Before
<1>2. \A t \in Servers : During(t)'
    BY
       DEF IInv, SingleInv, TokenInv, ServerHolds, ClientHolds, Sessions, During,
           TokenBack, InUse
<1>3. \A t \in Servers : After(t)'
    BY DEF Sessions, After
<1>4. Printing'
    BY DEF IInv, TokenInv, ServerHolds, ClientHolds, Printing, InUse
<1>5. \A d \in Clients : Served(d)'
    BY ServedStays DEF IInv, TokenInv, ServerHolds, ClientHolds, Sessions
<1>6. Faultless'
    BY DEF Faultless
<1>. QED
    BY <1>1, <1>2, <1>3, <1>4, <1>5, <1>6 DEF Sessions

\* The next chunk of the file, or its end, goes into the buffer.
LEMMA readChunkSessions ==
    ASSUME IInv, Sessions, NEW s \in Servers, readChunk(s)
    PROVE  Sessions'
<1> USE DEF readChunk
<1>1. \A t \in Servers : Before(t)'
    BY DEF Sessions, Before
<1>2. \A t \in Servers : During(t)'
    BY
       DEF IInv, TypeOK, SingleInv, TokenInv, ServerHolds, ClientHolds, Sessions,
           During, TokenBack, Filled
<1>3. \A t \in Servers : After(t)'
    BY DEF Sessions, After
<1>4. Printing'
    BY DEF IInv, TokenInv, ServerHolds, ClientHolds, Printing, InUse
<1>5. \A d \in Clients : Served(d)'
    BY ServedStays DEF IInv, TokenInv, ServerHolds, ClientHolds, Sessions
<1>6. Faultless'
    BY DEF Sessions, Faultless
<1>. QED
    BY <1>1, <1>2, <1>3, <1>4, <1>5, <1>6 DEF Sessions

\* The token goes to the client with what was read.
LEMMA wakeClientSessions ==
    ASSUME IInv, Sessions, NEW s \in Servers, wakeClient(s)
    PROVE  Sessions'
<1> USE DEF wakeClient, Add
<1>1. \A t \in Servers : Before(t)'
    BY DEF IInv, SingleInv, Sessions, Before
<1>2. \A t \in Servers : During(t)'
    BY DEF IInv, SingleInv, Sessions, During, TokenBack, Filled
<1>3. \A t \in Servers : After(t)'
    BY DEF Sessions, After
<1>4. Printing'
    BY DEF Sessions, Printing, InUse
<1>5. \A d \in Clients : Served(d)'
    BY ServedStays DEF Sessions
<1>6. Faultless'
    BY DEF Sessions, Faultless
<1>. QED
    BY <1>1, <1>2, <1>3, <1>4, <1>5, <1>6 DEF Sessions

\* The server goes round, or returns with all of its file printed.
LEMMA testEofSessions ==
    ASSUME IInv, Sessions, NEW s \in Servers, testEof(s)
    PROVE  Sessions'
<1> USE DEF testEof
<1>1. \A t \in Servers : Before(t)'
    BY DEF Sessions, Before
<1>2. \A t \in Servers : During(t)'
    BY DEF Sessions, During, TokenBack, InUse
<1>3. \A t \in Servers : After(t)'
    BY DEF Sessions, During, After
<1>4. Printing'
    BY DEF Sessions, Printing, InUse
<1>5. \A d \in Clients : Served(d)'
    BY ServedStays DEF Sessions
<1>6. Faultless'
    BY DEF Sessions, Faultless
<1>. QED
    BY <1>1, <1>2, <1>3, <1>4, <1>5, <1>6 DEF Sessions

\* A client that enters the block has printed nothing and met nobody.
LEMMA acquireClientSessions ==
    ASSUME IInv, Sessions, NEW c \in Clients, acquireClient(c)
    PROVE  Sessions'
<1> USE DEF acquireClient, ServerIsAlone, IsOne, Add
<1>1. \A t \in Servers : Before(t)'
    BY DEF Sessions, Before
<1>2. \A t \in Servers : During(t)'
    BY DEF Sessions, During, TokenBack, InUse
<1>3. \A t \in Servers : After(t)'
    BY DEF Sessions, After
<1>4. Printing'
    BY DEF Sessions, Printing, InUse
<1>5. ASSUME NEW d \in Clients PROVE Served(d)'
  <2>1. CASE d # c
    BY <2>1, ServedStays DEF Sessions
  <2>2. CASE d = c
    BY <2>2 DEF Sessions, Served
  <2>. QED
    BY <2>1, <2>2
<1>6. Faultless'
    BY DEF Sessions, Faultless
<1>. QED
    BY <1>1, <1>2, <1>3, <1>4, <1>5, <1>6 DEF Sessions

\* The client meets the server whose INITED it read.
LEMMA waitForServerSessions ==
    ASSUME IInv, Sessions, NEW c \in Clients, waitForServer(c)
    PROVE  Sessions'
<1> USE DEF waitForServer, ServerIsReady, IsOne
<1>1. \A t \in Servers : Before(t)'
    BY DEF Sessions, Before
<1>2. \A t \in Servers : During(t)'
    BY DEF Sessions, During, TokenBack, InUse
<1>3. \A t \in Servers : After(t)'
    BY DEF Sessions, After
<1>4. Printing'
    BY DEF Sessions, Printing, InUse
<1>5. ASSUME NEW d \in Clients PROVE Served(d)'
  <2>1. CASE d # c
    BY <2>1, ServedStays DEF Sessions
  <2>2. CASE d = c
    BY <2>2 DEF IInv, SingleInv, PresenceInv, Sessions, Served, Met, Only
  <2>. QED
    BY <2>1, <2>2
<1>6. Faultless'
    BY DEF Sessions, Faultless
<1>. QED
    BY <1>1, <1>2, <1>3, <1>4, <1>5, <1>6 DEF Sessions

\* The client takes the token, and with it what the server filled.
LEMMA takeFullSessions ==
    ASSUME IInv, Sessions, NEW c \in Clients, takeFull(c)
    PROVE  Sessions'
<1> USE DEF takeFull, ServerIsPresent, IsOne, CanTake, Add
<1>1. \A t \in Servers : Before(t)'
    BY DEF IInv, ResetQuiescent, Sessions, Before
<1>2. \A t \in Servers : During(t)'
    BY DEF IInv, TypeOK, Sessions, During, TokenBack
<1>3. \A t \in Servers : After(t)'
    BY DEF Sessions, After
<1>4. Printing'
    BY DEF IInv, TypeOK, PresenceInv, ResetQuiescent, Sessions, During, Printing
<1>5. ASSUME NEW d \in Clients PROVE Served(d)'
  <2>1. CASE d # c
    BY <2>1, ServedStays DEF Sessions
  <2>2. CASE d = c
    BY <2>2
       DEF IInv, TypeOK, PresenceInv, ResetQuiescent, Sessions, During, Served,
           Met, Filled
  <2>. QED
    BY <2>1, <2>2
<1>6. Faultless'
    BY DEF Sessions, Faultless
<1>. QED
    BY <1>1, <1>2, <1>3, <1>4, <1>5, <1>6 DEF Sessions

\* A client that leaves the loop prints nothing more.
LEMMA serverHasDiedSessions ==
    ASSUME IInv, Sessions, NEW c \in Clients, serverHasDied(c)
    PROVE  Sessions'
<1> USE DEF serverHasDied, ServerIsPresent, IsOne
<1>1. \A t \in Servers : Before(t)'
    BY DEF IInv, PresenceInv, Sessions, Before
<1>2. \A t \in Servers : During(t)'
    BY DEF Sessions, During, TokenBack, InUse
<1>3. \A t \in Servers : After(t)'
    BY DEF Sessions, After
<1>4. Printing'
    BY DEF Sessions, Printing, InUse
<1>5. ASSUME NEW d \in Clients PROVE Served(d)'
  <2>1. CASE d # c
    BY <2>1, ServedStays DEF Sessions
  <2>2. CASE d = c
    BY <2>2 DEF IInv, PresenceInv, Sessions, Served, Met, Faultless
  <2>. QED
    BY <2>1, <2>2
<1>6. Faultless'
    BY DEF IInv, PresenceInv, Sessions, Faultless
<1>. QED
    BY <1>1, <1>2, <1>3, <1>4, <1>5, <1>6 DEF Sessions

\* The client found a chunk.
LEMMA seesChunkSessions ==
    ASSUME IInv, Sessions, NEW c \in Clients, seesChunk(c)
    PROVE  Sessions'
<1> USE DEF seesChunk
<1>1. \A t \in Servers : Before(t)'
    BY DEF Sessions, Before
<1>2. \A t \in Servers : During(t)'
    BY DEF Sessions, During, TokenBack, InUse
<1>3. \A t \in Servers : After(t)'
    BY DEF Sessions, After
<1>4. Printing'
    BY DEF Sessions, Printing, InUse
<1>5. ASSUME NEW d \in Clients PROVE Served(d)'
  <2>1. CASE d # c
    BY <2>1, ServedStays DEF Sessions
  <2>2. CASE d = c
    BY <2>2 DEF Sessions, Served, Met
  <2>. QED
    BY <2>1, <2>2
<1>6. Faultless'
    BY DEF Sessions, Faultless
<1>. QED
    BY <1>1, <1>2, <1>3, <1>4, <1>5, <1>6 DEF Sessions

\* The client found the end: all of that server's file was printed.
LEMMA seesEofSessions ==
    ASSUME IInv, Sessions, NEW c \in Clients, seesEof(c)
    PROVE  Sessions'
<1> USE DEF seesEof
<1>1. \A t \in Servers : Before(t)'
    BY DEF Sessions, Before
<1>2. \A t \in Servers : During(t)'
    BY DEF Sessions, During, InUse, Filled
<1>3. \A t \in Servers : After(t)'
    BY DEF Sessions, After
<1>4. Printing'
    BY DEF Sessions, Printing, InUse
<1>5. ASSUME NEW d \in Clients PROVE Served(d)'
  <2>1. CASE d # c
    BY <2>1, ServedStays DEF Sessions
  <2>2. CASE d = c
    BY <2>2 DEF Sessions, Printing, InUse, Served, Met, Filled
  <2>. QED
    BY <2>1, <2>2
<1>6. Faultless'
    BY
       DEF IInv, TokenInv, ServerHolds, ClientHolds, Sessions, During, InUse,
           Faultless, Filled
<1>. QED
    BY <1>1, <1>2, <1>3, <1>4, <1>5, <1>6 DEF Sessions

\* A failed write prints nothing.
LEMMA writeFailsSessions ==
    ASSUME IInv, Sessions, NEW c \in Clients, writeFails(c)
    PROVE  Sessions'
<1> USE DEF writeFails
<1>1. \A t \in Servers : Before(t)'
    BY DEF Sessions, Before
<1>2. \A t \in Servers : During(t)'
    BY DEF Sessions, During, TokenBack, InUse
<1>3. \A t \in Servers : After(t)'
    BY DEF Sessions, After
<1>4. Printing'
    BY DEF Sessions, Printing, InUse
<1>5. ASSUME NEW d \in Clients PROVE Served(d)'
  <2>1. CASE d # c
    BY <2>1, ServedStays DEF Sessions
  <2>2. CASE d = c
    BY <2>2 DEF Sessions, Served, Met
  <2>. QED
    BY <2>1, <2>2
<1>6. Faultless'
    BY DEF Faultless
<1>. QED
    BY <1>1, <1>2, <1>3, <1>4, <1>5, <1>6 DEF Sessions

\* The token goes back to the server: the chunk it filled was printed.
LEMMA wakeServerSessions ==
    ASSUME IInv, Sessions, NEW c \in Clients, wakeServer(c)
    PROVE  Sessions'
<1> USE DEF wakeServer, Add
<1>1. \A t \in Servers : Before(t)'
    BY DEF Sessions, Before
<1>2. \A t \in Servers : During(t)'
    BY DEF Sessions, During, TokenBack, InUse
<1>3. \A t \in Servers : After(t)'
    BY DEF Sessions, After
<1>4. Printing'
    BY DEF Sessions, Printing, InUse
<1>5. ASSUME NEW d \in Clients PROVE Served(d)'
  <2>1. CASE d # c
    BY <2>1, ServedStays DEF Sessions
  <2>2. CASE d = c
    BY <2>2 DEF Sessions, Served, Met
  <2>. QED
    BY <2>1, <2>2
<1>6. Faultless'
    BY DEF Sessions, Faultless
<1>. QED
    BY <1>1, <1>2, <1>3, <1>4, <1>5, <1>6 DEF Sessions

-----------------------------------------------------------------------------
(* A chunk is printed.                                                     *)

\* The write of client c.
Written(c, w) == [by |-> c, from |-> buf.from, chunk |-> buf.chunk, at |-> 0, len |-> w]

\* The client prints the next chunk of the server that it has met.
LEMMA PrintsNext ==
    ASSUME IInv, Sessions, NEW c \in Clients, writeChunk(c)
    PROVE  \E s \in Servers, w \in 1 .. ChunkSize :
              /\ buf.from = s /\ buf.size = ChunkSize /\ buf.chunk = pos[s] /\ pos[s] > 0
              /\ pc[s] # "start" /\ Met(c, s)
              /\ Whole(log, s, pos[s] - 1) /\ Current(log, s)
              /\ Written(c, w) \in Writes /\ log' = Append(log, Written(c, w))
              /\ pc' = [pc EXCEPT ![c] = IF total[c] + w < ChunkSize THEN "write" ELSE "wake"]
              /\ ShortWrites \/ w = ChunkSize
<1>1. pc[c] = "write"
    BY DEF writeChunk
<1>2. PICK s \in Servers : Filled(buf, log, s, pos[s]) /\ Current(log, s)
    BY <1>1 DEF Sessions, Printing, InUse
<1>3. PICK w \in 1 .. buf.size :
          /\ w = buf.size \/ ShortWrites
          /\ log' = Append(log, [by |-> c, from |-> buf.from, chunk |-> buf.chunk, at |-> 0, len |-> w])
          /\ Goto(c, IF total[c] + w < buf.size THEN "write" ELSE "wake")
    BY DEF writeChunk
<1>4. /\ buf.from = s /\ buf.size = ChunkSize /\ buf.chunk = pos[s] /\ pos[s] > 0
      /\ Whole(log, s, pos[s] - 1)
    BY <1>2, <1>3 DEF Filled
<1>5. Met(c, s) /\ pc[s] # "start"
    BY <1>1, <1>4 DEF Sessions, Served, Met
<1>6. w \in 1 .. ChunkSize
    BY <1>4
<1>7. Written(c, w) \in Writes
    BY <1>4, <1>6 DEF Written, Writes, IInv, TypeOK
<1>. QED
    BY <1>2, <1>3, <1>4, <1>5, <1>6, <1>7 DEF Written

\* It adds the write to what was printed of that server, and to nothing else;
\* a file that is whole stays so.
LEMMA PrintedGrows ==
    ASSUME IInv, Sessions, NEW c \in Clients, writeChunk(c), NEW s \in Servers, buf.from = s
    PROVE  /\ \A t \in Servers \ {s} : From(log', t) = From(log, t)
           /\ \A t \in Servers \ {s} : \A k : Whole(log, t, k) => Whole(log', t, k)
           /\ Whole(log', s, pos[s])
           /\ ShortWrites => Whole(log', s, pos[s] - 1)
           /\ \A t \in Servers : Whole(log, t, FileLen[t]) => Whole(log', t, FileLen[t])
           /\ \A d \in Clients \ {c}, t \in Servers : Only(log, d, t) => Only(log', d, t)
           /\ \A d \in Clients \ {c} : (\A i \in DOMAIN log : log[i].by # d) =>
                                           \A i \in DOMAIN log' : log'[i].by # d
           /\ Only(log', c, s)
           /\ Current(log', s)
<1>1. PICK w \in 1 .. ChunkSize :
          /\ buf.from = s /\ buf.size = ChunkSize /\ buf.chunk = pos[s] /\ pos[s] > 0
          /\ Met(c, s) /\ Whole(log, s, pos[s] - 1)
          /\ Written(c, w) \in Writes /\ log' = Append(log, Written(c, w))
    BY PrintsNext
<1>2. /\ log \in Seq(Writes) /\ pos[s] \in Nat /\ FileLen[s] \in Nat /\ pos[s] <= FileLen[s]
    BY DEF IInv, TypeOK
<1>3. PICK e : e = Written(c, w)
    OBVIOUS
<1>4. Grows(log, log', e)
    BY <1>1, <1>2, <1>3, AppendGrows
<1>5. e.from = s /\ e.by = c /\ e.chunk = pos[s]
    BY <1>1, <1>3 DEF Written
<1>6. /\ \A t \in Servers \ {s} : From(log', t) = From(log, t)
      /\ \A t \in Servers \ {s} : \A k : Whole(log, t, k) => Whole(log', t, k)
  <2>1. \A t \in Servers \ {s} : e.from # t
    BY <1>5
  <2>. QED
    BY <1>4, <2>1, FromGrows, OtherWrite
<1>7. Whole(log', s, pos[s])
    BY <1>1, <1>2, <1>4, <1>5, NextChunk
<1>8. ShortWrites => \A k : Whole(log, s, k) => Whole(log', s, k)
    BY <1>4, ShortWrite
<1>9. ~ShortWrites => ~Whole(log, s, FileLen[s])
    BY <1>1, <1>2 DEF Whole
<1>10. /\ \A d \in Clients \ {c}, t \in Servers : Only(log, d, t) => Only(log', d, t)
       /\ \A d \in Clients \ {c} : (\A i \in DOMAIN log : log[i].by # d) =>
                                       \A i \in DOMAIN log' : log'[i].by # d
  <2>1. \A d \in Clients \ {c} : e.by # d
    BY <1>5
  <2>. QED
    BY <1>4, <2>1, OnlyGrows
<1>11. Only(log', c, s)
  <2>1. Only(log, c, s)
    BY <1>1 DEF Met
  <2>. QED
    BY <1>4, <1>5, <2>1, OnlyGrows
<1>12. Current(log', s)
    BY <1>4, <1>5, LastWrite
<1>. QED
    BY <1>1, <1>6, <1>7, <1>8, <1>9, <1>10, <1>11, <1>12

\* The step of the session that prints.
LEMMA writeChunkSessions ==
    ASSUME IInv, Sessions, NEW c \in Clients, writeChunk(c)
    PROVE  Sessions'
<1>1. PICK s \in Servers, w \in 1 .. ChunkSize :
          /\ buf.from = s /\ buf.size = ChunkSize /\ buf.chunk = pos[s] /\ pos[s] > 0
          /\ pc[s] # "start" /\ Met(c, s)
          /\ pc' = [pc EXCEPT ![c] = IF total[c] + w < ChunkSize THEN "write" ELSE "wake"]
          /\ ShortWrites \/ w = ChunkSize
    BY PrintsNext
<1>2. /\ \A t \in Servers \ {s} : From(log', t) = From(log, t)
      /\ \A t \in Servers \ {s} : \A k : Whole(log, t, k) => Whole(log', t, k)
      /\ Whole(log', s, pos[s])
      /\ ShortWrites => Whole(log', s, pos[s] - 1)
      /\ \A t \in Servers : Whole(log, t, FileLen[t]) => Whole(log', t, FileLen[t])
      /\ \A d \in Clients \ {c}, t \in Servers : Only(log, d, t) => Only(log', d, t)
      /\ \A d \in Clients \ {c} : (\A i \in DOMAIN log : log[i].by # d) =>
                                      \A i \in DOMAIN log' : log'[i].by # d
      /\ Only(log', c, s)
      /\ Current(log', s)
    BY <1>1, PrintedGrows
<1>3. pc[c] = "write" /\ UNCHANGED <<sem, undo, buf, pos, faulty>>
    BY DEF writeChunk
<1>4. /\ pc' = [pc EXCEPT ![c] = pc'[c]] /\ pc'[c] \in {"write", "wake"}
      /\ pc'[c] = "write" => ShortWrites
  <2>1. total[c] \in Nat
    BY DEF IInv, TypeOK
  <2>. QED
    BY <1>1, <2>1 DEF IInv, TypeOK
<1>5. /\ \A p \in Procs \ {c} : pc'[p] = pc[p]
      /\ \A d \in Clients : LiveClient(d) => d = c
      /\ sem[FULL] = 0 /\ sem[EMPTY] = 0
      /\ \A t \in Servers : ReadyServer(t) => t = s
    BY <1>1, <1>3, <1>4 DEF IInv, TypeOK, SingleInv, TokenInv, ClientHolds, Met
<1>6. Filled(buf, log', s, pos[s]) \/ pc'[c] = "wake"
    BY <1>1, <1>2, <1>4 DEF Filled
<1>7. \A t \in Servers : Before(t)'
    BY <1>1, <1>2, <1>3, <1>4, <1>5 DEF Sessions, Before
<1>8. \A t \in Servers : During(t)'
    BY <1>1, <1>2, <1>3, <1>4, <1>5, <1>6
       DEF IInv, TokenInv, ServerHolds, ClientHolds, Sessions, During, InUse,
           TokenBack
<1>9. \A t \in Servers : After(t)'
    BY <1>2, <1>3, <1>4, <1>5 DEF Sessions, After
<1>10. Printing'
    BY <1>1, <1>2, <1>3, <1>4, <1>5, <1>6 DEF Printing, InUse
<1>11. ASSUME NEW d \in Clients PROVE Served(d)'
    BY <1>1, <1>2, <1>3, <1>4, <1>5 DEF Sessions, Served, Met
<1>12. Faultless'
    BY <1>1, <1>3, <1>4, <1>5 DEF Sessions, Faultless
<1>. QED
    BY <1>7, <1>8, <1>9, <1>10, <1>11, <1>12 DEF Sessions

-----------------------------------------------------------------------------
(* The end of a process.                                                   *)

\* A process that ends takes its presence with it and leaves the buffer alone.
LEMMA ExitSessions ==
    ASSUME IInv, Sessions, NEW p \in Procs, NEW how \in Ended, pc[p] \notin Ended, Exit(p, how),
           how = "ok" => pc[p] = "returnOk",
           faulty = {} => (how = "ok" \/ (how = "failed" /\ pc[p] = "returnFail"))
    PROVE  Sessions'
<1>1. /\ pc' = [pc EXCEPT ![p] = how]
      /\ UNCHANGED <<buf, pos, total, log, faulty>>
      /\ sem'[FULL] = sem[FULL] /\ sem'[EMPTY] = sem[EMPTY]
  <2>1. undo[p] \subseteq {SERVER, CLIENT, INITED}
    BY DEF IInv, UndoInv
  <2>2. FULL \notin undo[p] /\ EMPTY \notin undo[p]
    BY <2>1
  <2>. QED
    BY <2>2 DEF Exit, Undone
<1>2. /\ \A q \in Procs \ {p} : pc'[q] = pc[q]
      /\ pc'[p] = how
    BY <1>1 DEF IInv, TypeOK
<1>3. \A t \in Servers : Before(t)'
    BY <1>1, <1>2 DEF Sessions, Before
<1>4. \A t \in Servers : During(t)'
    BY <1>1, <1>2 DEF Sessions, During, InUse, TokenBack
<1>5. \A t \in Servers : After(t)'
    BY <1>1, <1>2 DEF Sessions, After
<1>6. Printing'
    BY <1>1, <1>2 DEF Sessions, Printing, InUse
<1>7. ASSUME NEW d \in Clients PROVE Served(d)'
  <2>1. CASE d # p
    BY <1>1, <1>2, <2>1, ServedStays DEF Sessions
  <2>2. CASE d = p
    BY <1>1, <1>2, <2>2 DEF Sessions, Served, Met
  <2>. QED
    BY <2>1, <2>2
<1>8. Faultless'
    BY <1>1, <1>2 DEF IInv, TypeOK, ServerLabels, ClientLabels, Sessions, Faultless
<1>. QED
    BY <1>3, <1>4, <1>5, <1>6, <1>7, <1>8 DEF Sessions

-----------------------------------------------------------------------------
(* All steps.                                                              *)

\* At the start nobody has printed.
LEMMA InitSessions == Init => Sessions
<1> SUFFICES ASSUME Init PROVE Sessions
    OBVIOUS
<1>1. \A s \in Servers : Before(s) /\ During(s) /\ After(s)
    BY DEF Init, Before, During, After, From
<1>2. Printing /\ Faultless
    BY DEF Init, Printing, InUse, Faultless
<1>3. \A c \in Clients : Served(c)
    BY DEF Init, Served
<1>. QED
    BY <1>1, <1>2, <1>3 DEF Sessions

\* Every step keeps the sessions right.
LEMMA NextSessions == IInv /\ Sessions /\ [Next]_vars => Sessions'
<1> SUFFICES ASSUME IInv, Sessions, [Next]_vars PROVE Sessions'
    OBVIOUS
<1>1. ASSUME NEW s \in Servers, server(s) PROVE Sessions'
  <2>1. CASE acquireServer(s)  BY <2>1, acquireServerSessions
  <2>2. CASE setFull(s)        BY <2>2, setFullSessions
  <2>3. CASE setEmpty(s)       BY <2>3, setEmptySessions
  <2>4. CASE signalInit(s)     BY <2>4, signalInitSessions
  <2>5. CASE waitForClient(s)  BY <2>5, waitForClientSessions
  <2>6. CASE takeEmpty(s)      BY <2>6, takeEmptySessions
  <2>7. CASE clientHasDied(s)  BY <2>7, clientHasDiedSessions
  <2>8. CASE readChunk(s)      BY <2>8, readChunkSessions
  <2>9. CASE wakeClient(s)     BY <2>9, wakeClientSessions
  <2>10. CASE testEof(s)       BY <2>10, testEofSessions
  <2>11. CASE serverExits(s)   BY <2>11, ExitSessions DEF serverExits
  <2>. QED
    BY <1>1, <2>1, <2>2, <2>3, <2>4, <2>5, <2>6, <2>7, <2>8, <2>9, <2>10, <2>11
       DEF server
<1>2. ASSUME NEW c \in Clients, client(c) PROVE Sessions'
  <2>1. CASE acquireClient(c)  BY <2>1, acquireClientSessions
  <2>2. CASE waitForServer(c)  BY <2>2, waitForServerSessions
  <2>3. CASE takeFull(c)       BY <2>3, takeFullSessions
  <2>4. CASE serverHasDied(c)  BY <2>4, serverHasDiedSessions
  <2>5. CASE seesChunk(c)      BY <2>5, seesChunkSessions
  <2>6. CASE seesEof(c)        BY <2>6, seesEofSessions
  <2>7. CASE writeChunk(c)     BY <2>7, writeChunkSessions
  <2>8. CASE wakeServer(c)     BY <2>8, wakeServerSessions
  <2>9. CASE clientExits(c)    BY <2>9, ExitSessions DEF clientExits
  <2>. QED
    BY <1>2, <2>1, <2>2, <2>3, <2>4, <2>5, <2>6, <2>7, <2>8, <2>9 DEF client
<1>3. ASSUME NEW s \in Servers, readFails(s) PROVE Sessions'
    BY <1>3, readFailsSessions
<1>4. ASSUME NEW c \in Clients, writeFails(c) PROVE Sessions'
    BY <1>4, writeFailsSessions
<1>5. ASSUME NEW p \in Procs, killed(p) PROVE Sessions'
    BY <1>5, ExitSessions DEF killed
<1>6. CASE UNCHANGED vars
  <2>1. \A s \in Servers : Before(s)' /\ During(s)' /\ After(s)'
    BY <1>6 DEF vars, Sessions, Before, During, After, InUse, TokenBack
  <2>2. Printing' /\ Faultless'
    BY <1>6 DEF vars, Sessions, Printing, InUse, Faultless
  <2>3. \A c \in Clients : Served(c)'
    BY <1>6, ServedStays DEF vars, Sessions
  <2>. QED
    BY <2>1, <2>2, <2>3 DEF Sessions
<1>. QED
    BY <1>1, <1>2, <1>3, <1>4, <1>5, <1>6 DEF Next

-----------------------------------------------------------------------------
(* What follows.                                                           *)

\* The sessions are right in every state.
THEOREM SessionsInvariance == Spec => []Sessions
<1>1. Init => Sessions
    BY InitSessions
<1>2. IInv /\ Sessions /\ [Next]_vars => Sessions'
    BY NextSessions
<1>. QED
    BY <1>1, <1>2, Invariance, PTL DEF Spec

\* A file that is whole is printed.
LEMMA WholeIsPrinted ==
    ASSUME NEW s \in Servers, Whole(log, s, FileLen[s])
    PROVE  AllPrinted(s)
    BY DEF Whole, AllPrinted, From

\* A server that returns success has had all of its file printed.
THEOREM SuccessIsPrinted == Spec => []OkMeansPrinted
<1>1. Sessions => OkMeansPrinted
    BY WholeIsPrinted DEF Sessions, After, OkMeansPrinted
<1>. QED
    BY <1>1, SessionsInvariance, PTL

\* A client that is told that its server has died, while nothing fails, has
\* lost nothing.
THEOREM FalseAlarm == Spec => []FalseAlarmIsHarmless
<1>1. Sessions => FalseAlarmIsHarmless
  <2> SUFFICES ASSUME Sessions, NEW c \in Clients, faulty = {}, pc[c] \in {"returnFail", "failed"}
               PROVE  \E s \in Servers : /\ pc[s] = "ok"
                                         /\ AllPrinted(s)
                                         /\ \A i \in DOMAIN log : log[i].by = c => log[i].from = s
    BY DEF FalseAlarmIsHarmless
  <2>1. PICK s \in Servers : pc[s] = "ok" /\ Only(log, c, s)
    BY DEF Sessions, Served
  <2>2. AllPrinted(s)
    BY <2>1, WholeIsPrinted DEF Sessions, After
  <2>. QED
    BY <2>1, <2>2 DEF Only
<1>. QED
    BY <1>1, SessionsInvariance, PTL

-----------------------------------------------------------------------------
(* The refinement.                                                         *)

\* The two speak of the same writes.
LEMMA SamePrints ==
    ASSUME NEW s, log \in Seq(Writes)
    PROVE  /\ Delivery!From(s) = From(log, s)
           /\ Delivery!Printed(s) = Cardinality(From(log, s))
           /\ Current(log, s) => Delivery!IsCurrent(s)
           /\ \A c : Delivery!ServesOnly(c, s) <=> Only(log, c, s)
<1>1. Delivery!From(s) = From(log, s)
    BY DEF Delivery!From, From
<1>2. Delivery!Printed(s) = Cardinality(From(log, s))
  <2>1. Delivery!Cardinality(From(log, s)) = Cardinality(From(log, s))
    BY DEF Delivery!Cardinality, Cardinality
  <2>. QED
    BY <1>1, <2>1 DEF Delivery!Printed
<1>3. Current(log, s) => Delivery!IsCurrent(s)
    BY <1>1 DEF Delivery!IsCurrent, Current, Writes, From
<1>4. \A c : Delivery!ServesOnly(c, s) <=> Only(log, c, s)
    BY DEF Delivery!ServesOnly, Only
<1>. QED
    BY <1>1, <1>2, <1>3, <1>4

\* A step that neither prints nor ends a process with success is not seen.
LEMMA NotSeen ==
    ASSUME log' = log, \A p \in Procs : pc'[p] = "ok" <=> pc[p] = "ok"
    PROVE  UNCHANGED Delivery!vars
<1>1. {p \in Procs : pc'[p] = "ok"} = {p \in Procs : pc[p] = "ok"}
    OBVIOUS
<1>. QED
    BY <1>1 DEF Delivery!vars

\* A write prints the next chunk of a file.
LEMMA WriteIsPrintChunk ==
    ASSUME ~ShortWrites, IInv, Sessions, NEW c \in Clients, writeChunk(c)
    PROVE  Delivery!Next
<1>1. PICK s \in Servers, w \in 1 .. ChunkSize :
          /\ buf.from = s /\ buf.size = ChunkSize /\ buf.chunk = pos[s] /\ pos[s] > 0
          /\ pc[s] # "start" /\ Met(c, s)
          /\ Whole(log, s, pos[s] - 1) /\ Current(log, s)
          /\ Written(c, w) \in Writes /\ log' = Append(log, Written(c, w))
          /\ pc' = [pc EXCEPT ![c] = IF total[c] + w < ChunkSize THEN "write" ELSE "wake"]
    BY PrintsNext
<1>2. /\ log \in Seq(Writes) /\ pos[s] \in Nat /\ FileLen[s] \in Nat /\ pos[s] <= FileLen[s]
      /\ pc[c] = "write" /\ pc \in [Procs -> ServerLabels \cup ClientLabels]
    BY DEF IInv, TypeOK, writeChunk
<1>3. Delivery!Printed(s) = pos[s] - 1
    BY <1>1, <1>2, SamePrints DEF Whole
<1>4. Delivery!IsCurrent(s) /\ Delivery!ServesOnly(c, s)
    BY <1>1, <1>2, SamePrints DEF Met
<1>5. pc[s] # "ok"
    BY <1>1, <1>2 DEF Sessions, After, Whole
<1>6. {p \in Procs : pc'[p] = "ok"} = {p \in Procs : pc[p] = "ok"}
    BY <1>1, <1>2
<1>7. [i \in DOMAIN log' |-> [by |-> log'[i].by, from |-> log'[i].from, chunk |-> log'[i].chunk]]
      = Append([i \in DOMAIN log |-> [by |-> log[i].by, from |-> log[i].from, chunk |-> log[i].chunk]],
               [by |-> c, from |-> s, chunk |-> Delivery!Printed(s) + 1])
  <2>1. PICK e \in Writes : e = Written(c, w)
    BY <1>1
  <2>2. Grows(log, log', e) /\ e.by = c /\ e.from = s /\ e.chunk = pos[s]
    BY <1>1, <1>2, <2>1, AppendGrows DEF Written
  <2>3. pos[s] = Delivery!Printed(s) + 1
    BY <1>2, <1>3
  <2>4. [i \in DOMAIN log' |-> [by |-> log'[i].by, from |-> log'[i].from, chunk |-> log'[i].chunk]]
        = Append([i \in DOMAIN log |-> [by |-> log[i].by, from |-> log[i].from, chunk |-> log[i].chunk]],
                 [by |-> c, from |-> s, chunk |-> pos[s]])
    BY <1>2, <2>2 DEF Grows
  <2>. QED
    BY <2>3, <2>4
<1>8. Delivery!PrintChunk(s, c)
  <2>1. Delivery!Printed(s) < FileLen[s]
    BY <1>2, <1>3
  <2>2. s \notin {p \in Procs : pc[p] = "ok"} /\ c \notin {p \in Procs : pc[p] = "ok"}
    BY <1>2, <1>5
  <2>. QED
    BY <1>4, <1>6, <1>7, <2>1, <2>2 DEF Delivery!PrintChunk
<1>. QED
    BY <1>8 DEF Delivery!Next

\* The end of a process is a success of the abstract specification, or is not seen.
LEMMA ExitIsSuccess ==
    ASSUME ~ShortWrites, IInv, Sessions, NEW p \in Procs, NEW how \in Ended, pc[p] \notin Ended,
           Exit(p, how), how = "ok" => pc[p] = "returnOk"
    PROVE  Delivery!Next \/ UNCHANGED Delivery!vars
<1>1. /\ log' = log /\ log \in Seq(Writes)
      /\ pc' = [pc EXCEPT ![p] = how]
      /\ pc \in [Procs -> ServerLabels \cup ClientLabels]
    BY DEF Exit, IInv, TypeOK
<1>2. CASE how # "ok"
    BY <1>1, <1>2, NotSeen
<1>3. CASE how = "ok"
  <2>1. {q \in Procs : pc'[q] = "ok"} = {q \in Procs : pc[q] = "ok"} \cup {p}
    BY <1>1, <1>3
  <2>2. CASE p \in Servers
    <3>1. Delivery!Printed(p) = FileLen[p]
      BY <1>1, <1>3, <2>2, SamePrints DEF Sessions, After, Whole
    <3>2. Delivery!ServerSucceeds(p)
      BY <1>1, <2>1, <3>1 DEF Delivery!ServerSucceeds
    <3>. QED
      BY <2>2, <3>2 DEF Delivery!Next
  <2>3. CASE p \in Clients
    <3>1. PICK s \in Servers : Only(log, p, s) /\ Whole(log, s, FileLen[s])
      BY <1>3, <2>3 DEF Sessions, Served
    <3>2. Delivery!Printed(s) = FileLen[s] /\ Delivery!ServesOnly(p, s)
      BY <1>1, <3>1, SamePrints DEF Whole
    <3>3. Delivery!ClientSucceeds(p)
      BY <1>1, <2>1, <3>2 DEF Delivery!ClientSucceeds
    <3>. QED
      BY <2>3, <3>3 DEF Delivery!Next
  <2>. QED
    BY <2>2, <2>3
<1>. QED
    BY <1>2, <1>3

\* Every other step of a server or a client goes from a label to another, and
\* neither is "ok".
LEMMA StepRefines ==
    ASSUME ~ShortWrites, IInv, Sessions, [Next]_vars
    PROVE  Delivery!Next \/ UNCHANGED Delivery!vars
<1>1. pc \in [Procs -> ServerLabels \cup ClientLabels]
    BY DEF IInv, TypeOK
<1>2. ASSUME NEW s \in Servers, server(s) \/ readFails(s)
      PROVE  Delivery!Next \/ UNCHANGED Delivery!vars
  <2>1. CASE serverExits(s)
    BY <2>1, ExitIsSuccess DEF serverExits
  <2>2. CASE ~serverExits(s)
    <3>1. log' = log /\ \A p \in Procs : pc'[p] = "ok" <=> pc[p] = "ok"
      BY <1>1, <1>2, <2>2
         DEF server, acquireServer, setFull, setEmpty, signalInit, waitForClient,
         takeEmpty, clientHasDied, readChunk, readFails, wakeClient, testEof
    <3>. QED
      BY <3>1, NotSeen
  <2>. QED
    BY <2>1, <2>2
<1>3. ASSUME NEW c \in Clients, client(c) \/ writeFails(c)
      PROVE  Delivery!Next \/ UNCHANGED Delivery!vars
  <2>1. CASE clientExits(c)
    BY <2>1, ExitIsSuccess DEF clientExits
  <2>2. CASE writeChunk(c)
    BY <2>2, WriteIsPrintChunk
  <2>3. CASE ~clientExits(c) /\ ~writeChunk(c)
    <3>1. log' = log /\ \A p \in Procs : pc'[p] = "ok" <=> pc[p] = "ok"
      BY <1>1, <1>3, <2>3
         DEF client, acquireClient, waitForServer, takeFull, serverHasDied,
         seesChunk, seesEof, writeFails, wakeServer
    <3>. QED
      BY <3>1, NotSeen
  <2>. QED
    BY <2>1, <2>2, <2>3
<1>4. ASSUME NEW p \in Procs, killed(p)
      PROVE  Delivery!Next \/ UNCHANGED Delivery!vars
    BY <1>4, ExitIsSuccess DEF killed
<1>5. CASE UNCHANGED vars
    BY <1>5, NotSeen DEF vars
<1>. QED
    BY <1>2, <1>3, <1>4, <1>5 DEF Next

\* With whole writes, sessions print one file after another, each in order, and
\* only a whole file counts as success.
THEOREM Refinement == ASSUME ~ShortWrites PROVE Spec => ImplementsDelivery
<1>1. Init => Delivery!Init
    BY DEF Init, Delivery!Init
<1>2. IInv /\ Sessions /\ [Next]_vars => [Delivery!Next]_(Delivery!vars)
    BY StepRefines
<1>. QED
    BY <1>1, <1>2, Invariance, SessionsInvariance, PTL
       DEF Spec, ImplementsDelivery, Delivery!Spec
====
