-------------------------- MODULE NProcessesProofs --------------------------
(***************************************************************************)
(* Numbers come in order, for any number of runs of any lengths.           *)
(*                                                                         *)
(* A number t is printed, and a run of t numbers returns, for a message of *)
(* type t, and such a message is sent after t - 1 was printed.  So every   *)
(* t - 1 that was printed is somewhere: with the child that has yet to     *)
(* send, in the queue, with the child that has taken the message and has   *)
(* yet to print, in the next number, in a run that returned, or lost with  *)
(* an interrupted run.                                                     *)
(***************************************************************************)
EXTENDS NProcesses, FiniteSetTheorems, TLAPS

USE ConstAssumption

Labels == {"unborn", "recieve", "print", "send", "exit"}

TypeOK ==
    /\ q \in [Types -> Nat]
    /\ parent \in [Runs -> {"fork", "wait", "returned", "killed"}]
    /\ i \in [Runs -> Nat] /\ \A r \in Runs : i[r] <= n[r]
    /\ last \in [Runs -> Nat] /\ \A r \in Runs : last[r] <= n[r]
    /\ DOMAIN child = Runs
    /\ \A r \in Runs : child[r] \in [Numbers(r) -> Labels]
    /\ printed \in [{t - 1 : t \in Types} -> Nat]

\* The runs whose child has taken a message of type t, and will print t.
Printing(t) == {r \in Runs : t \in Numbers(r) /\ child[r][t] = "print"}

\* The runs whose child has printed t - 1, and will send a message of type t.
Sending(t) == {r \in Runs : t - 1 \in Numbers(r) /\ child[r][t - 1] = "send"}

WaitedFor(t) == {r \in Runs : parent[r] = "returned" /\ last[r] = t}

PrintedNext(t) == IF t \in DOMAIN printed THEN printed[t] ELSE 0

\* What was printed is on its way.
Followed(t) ==
    printed[t - 1] >= Cardinality(Sending(t)) + q[t] + Cardinality(Printing(t))
                          + PrintedNext(t) + Cardinality(WaitedFor(t))

Flow == \A t \in Types : Followed(t)

\* The first child has nothing to wait for.
FirstPrints == \A r \in Runs : \A k \in Numbers(r) : child[r][k] = "recieve" => k # 0

IInv == TypeOK /\ FirstPrints /\ Flow

-----------------------------------------------------------------------------
\* A set of runs is counted, and one of them more or less is one more or less.
LEMMA CountRuns ==
    ASSUME NEW S \in SUBSET Runs, NEW T \in SUBSET Runs, NEW r \in Runs
    PROVE  /\ Cardinality(S) \in Nat /\ Cardinality(T) \in Nat
           /\ T \subseteq S => Cardinality(T) <= Cardinality(S)
           /\ T \subseteq S \cup {r} => Cardinality(T) <= Cardinality(S) + 1
           /\ r \in S /\ T \subseteq S \ {r} => Cardinality(T) + 1 <= Cardinality(S)
<1>1. IsFiniteSet(S) /\ IsFiniteSet(T) /\ IsFiniteSet(S \cup {r}) /\ IsFiniteSet(S \ {r})
    BY FS_Subset
<1>2. /\ Cardinality(S) \in Nat /\ Cardinality(T) \in Nat
      /\ Cardinality(S \cup {r}) \in Nat /\ Cardinality(S \ {r}) \in Nat
    BY <1>1, FS_CardinalityType
<1>3. Cardinality(S \cup {r}) <= Cardinality(S) + 1
    BY <1>1, <1>2, FS_AddElement
<1>4. r \in S => Cardinality(S \ {r}) = Cardinality(S) - 1
    BY <1>1, FS_RemoveElement
<1>5. T \subseteq S => Cardinality(T) <= Cardinality(S)
    BY <1>1, FS_Subset
<1>6. T \subseteq S \cup {r} => Cardinality(T) <= Cardinality(S \cup {r})
    BY <1>1, FS_Subset
<1>7. T \subseteq S \ {r} => Cardinality(T) <= Cardinality(S \ {r})
    BY <1>1, FS_Subset
<1>. QED
    BY <1>2, <1>3, <1>4, <1>5, <1>6, <1>7

\* The sums of Flow are sums of natural numbers.
LEMMA Counts ==
    ASSUME TypeOK, NEW t \in Types
    PROVE  /\ t \in Nat \ {0} /\ t - 1 \in DOMAIN printed
           /\ printed[t - 1] \in Nat /\ q[t] \in Nat /\ PrintedNext(t) \in Nat
           /\ Cardinality(Sending(t)) \in Nat /\ Cardinality(Printing(t)) \in Nat
           /\ Cardinality(WaitedFor(t)) \in Nat
<1>1. t \in Nat \ {0}
    BY DEF Types
<1>2. t - 1 \in DOMAIN printed /\ printed[t - 1] \in Nat /\ q[t] \in Nat
    BY DEF TypeOK
<1>3. PrintedNext(t) \in Nat
    BY DEF TypeOK, PrintedNext
<1>4. /\ Sending(t) \in SUBSET Runs /\ Printing(t) \in SUBSET Runs
      /\ WaitedFor(t) \in SUBSET Runs
    BY DEF Sending, Printing, WaitedFor
<1>5. /\ Cardinality(Sending(t)) \in Nat /\ Cardinality(Printing(t)) \in Nat
      /\ Cardinality(WaitedFor(t)) \in Nat
    BY <1>4, FS_Subset, FS_CardinalityType
<1>. QED
    BY <1>1, <1>2, <1>3, <1>5

\* Goto() moves one child.
LEMMA GotoMoves ==
    ASSUME TypeOK, NEW r \in Runs, NEW k \in Numbers(r), NEW label \in Labels,
           Goto(r, k, label)
    PROVE  /\ DOMAIN child' = Runs
           /\ \A s \in Runs : child'[s] \in [Numbers(s) -> Labels]
           /\ \A s \in Runs : \A j \in Numbers(s) :
                 child'[s][j] = IF s = r /\ j = k THEN label ELSE child[s][j]
<1>1. child' = [child EXCEPT ![r] = [child[r] EXCEPT ![k] = label]]
    BY DEF Goto
<1>2. child[r] \in [Numbers(r) -> Labels] /\ DOMAIN child = Runs
    BY DEF TypeOK
<1>3. child'[r] = [child[r] EXCEPT ![k] = label] /\ DOMAIN child' = Runs
    BY <1>1, <1>2
<1>4. \A s \in Runs : s # r => child'[s] = child[s]
    BY <1>1, <1>2
<1>. QED
    BY <1>2, <1>3, <1>4 DEF TypeOK

-----------------------------------------------------------------------------
\* At the start the queue of the message channel is empty and nothing runs.
LEMMA InitIInv == Init => IInv
<1> SUFFICES ASSUME Init PROVE IInv
    OBVIOUS
<1>1. TypeOK
    BY DEF Init, TypeOK, Labels
<1>2. ASSUME NEW t \in Types PROVE Followed(t)
  <2>1. Sending(t) = {} /\ Printing(t) = {} /\ WaitedFor(t) = {}
    BY DEF Init, Sending, Printing, WaitedFor
  <2>2. t - 1 \in DOMAIN printed /\ printed[t - 1] = 0 /\ q[t] = 0 /\ PrintedNext(t) = 0
    BY DEF Init, PrintedNext
  <2>. QED
    BY <2>1, <2>2, FS_EmptySet DEF Followed
<1>3. FirstPrints
    BY DEF Init, FirstPrints
<1>. QED
    BY <1>1, <1>2, <1>3 DEF IInv, Flow

\* A step after which no more is under way than before.
LEMMA NothingSent ==
    ASSUME IInv, NEW t \in Types,
           Sending(t)' \subseteq Sending(t), Printing(t)' \subseteq Printing(t),
           WaitedFor(t)' \subseteq WaitedFor(t), q' = q, printed' = printed
    PROVE  Followed(t)'
<1>1. /\ Sending(t) \in SUBSET Runs /\ Printing(t) \in SUBSET Runs
      /\ WaitedFor(t) \in SUBSET Runs
    BY DEF Sending, Printing, WaitedFor
<1>2. /\ Cardinality(Sending(t)') <= Cardinality(Sending(t)) /\ Cardinality(Sending(t)') \in Nat
      /\ Cardinality(Printing(t)') <= Cardinality(Printing(t)) /\ Cardinality(Printing(t)') \in Nat
      /\ Cardinality(WaitedFor(t)') <= Cardinality(WaitedFor(t))
      /\ Cardinality(WaitedFor(t)') \in Nat
    BY <1>1, FS_Subset, FS_CardinalityType
<1>3. PrintedNext(t)' = PrintedNext(t)
    BY DEF PrintedNext
<1>. QED
    BY <1>2, <1>3, Counts DEF IInv, Flow, Followed

\* A child is forked: it waits, or it is the first and has nothing to wait for.
LEMMA forkChildIInv == ASSUME IInv, NEW r \in Runs, forkChild(r) PROVE IInv'
<1>1. i[r] \in Numbers(r)
    BY DEF IInv, TypeOK, forkChild, Numbers
<1>2. PICK label \in {"print", "recieve"} :
          Goto(r, i[r], label) /\ (i[r] # 0 <=> label = "recieve")
    BY DEF forkChild
<1>3. /\ DOMAIN child' = Runs
      /\ \A s \in Runs : child'[s] \in [Numbers(s) -> Labels]
      /\ \A s \in Runs : \A j \in Numbers(s) :
            child'[s][j] = IF s = r /\ j = i[r] THEN label ELSE child[s][j]
    BY <1>1, <1>2, GotoMoves DEF IInv, Labels
<1>4. TypeOK'
    BY <1>3 DEF IInv, TypeOK, forkChild
<1>5. ASSUME NEW t \in Types PROVE Followed(t)'
  <2>1. t # 0
    BY Counts DEF IInv
  <2>2. Sending(t)' \subseteq Sending(t) /\ Printing(t)' \subseteq Printing(t)
    BY <1>2, <1>3, <2>1 DEF Sending, Printing
  <2>3. WaitedFor(t)' \subseteq WaitedFor(t)
    BY DEF IInv, TypeOK, forkChild, WaitedFor
  <2>. QED
    BY <2>2, <2>3, NothingSent DEF forkChild
<1>6. FirstPrints'
    BY <1>2, <1>3 DEF IInv, FirstPrints
<1>. QED
    BY <1>4, <1>5, <1>6 DEF IInv, Flow

\* The end of the loop of forks changes nothing that is counted.
LEMMA endOfLoopIInv == ASSUME IInv, NEW r \in Runs, endOfLoop(r) PROVE IInv'
<1>1. TypeOK'
    BY DEF IInv, TypeOK, endOfLoop
<1>2. ASSUME NEW t \in Types PROVE Followed(t)'
  <2>1. Sending(t)' = Sending(t) /\ Printing(t)' = Printing(t)
    BY DEF endOfLoop, Sending, Printing
  <2>2. WaitedFor(t)' \subseteq WaitedFor(t)
    BY DEF IInv, TypeOK, endOfLoop, WaitedFor
  <2>. QED
    BY <2>1, <2>2, NothingSent DEF endOfLoop
<1>3. FirstPrints'
    BY DEF IInv, FirstPrints, endOfLoop
<1>. QED
    BY <1>1, <1>2, <1>3 DEF IInv, Flow

\* The children of an interrupted run are lost with what they had taken.
LEMMA interruptIInv == ASSUME IInv, NEW r \in Runs, interrupt(r) PROVE IInv'
<1>1. TypeOK'
  <2>1. child' = [child EXCEPT ![r] = [k \in Numbers(r) |-> "exit"]]
    BY DEF interrupt
  <2>2. \A s \in Runs : child'[s] \in [Numbers(s) -> Labels]
    BY <2>1 DEF IInv, TypeOK, Labels
  <2>. QED
    BY <2>1, <2>2 DEF IInv, TypeOK, interrupt
<1>2. ASSUME NEW t \in Types PROVE Followed(t)'
  <2>1. Sending(t)' \subseteq Sending(t) /\ Printing(t)' \subseteq Printing(t)
    BY DEF IInv, TypeOK, interrupt, Sending, Printing
  <2>2. WaitedFor(t)' \subseteq WaitedFor(t)
    BY DEF IInv, TypeOK, interrupt, WaitedFor
  <2>. QED
    BY <2>1, <2>2, NothingSent DEF interrupt
<1>3. FirstPrints'
    BY DEF IInv, TypeOK, FirstPrints, interrupt
<1>. QED
    BY <1>1, <1>2, <1>3 DEF IInv, Flow

\* The message that the parent takes stands for the run that returns.
LEMMA waitForLastIInv == ASSUME IInv, NEW r \in Runs, waitForLast(r) PROVE IInv'
<1>1. /\ q' \in [Types -> Nat]
      /\ \A t \in Types : q'[t] = IF t = last[r] THEN q[t] - 1 ELSE q[t]
  <2>1. CASE last[r] = 0
    BY <2>1, Counts DEF IInv, TypeOK, waitForLast
  <2>2. CASE last[r] # 0
    <3>1. last[r] \in Types
      BY <2>2 DEF IInv, TypeOK, Types
    <3>. QED
      BY <2>2, <3>1 DEF IInv, TypeOK, waitForLast, Take
  <2>. QED
    BY <2>1, <2>2
<1>2. TypeOK'
    BY <1>1 DEF IInv, TypeOK, waitForLast
<1>3. ASSUME NEW t \in Types PROVE Followed(t)'
  <2>1. /\ Sending(t)' = Sending(t) /\ Printing(t)' = Printing(t)
        /\ PrintedNext(t)' = PrintedNext(t) /\ printed' = printed
    BY DEF waitForLast, Sending, Printing, PrintedNext
  <2>2. /\ WaitedFor(t) \in SUBSET Runs /\ WaitedFor(t)' \in SUBSET Runs
        /\ WaitedFor(t)' \subseteq WaitedFor(t) \cup {r}
        /\ t # last[r] => WaitedFor(t)' \subseteq WaitedFor(t)
    BY DEF IInv, TypeOK, waitForLast, WaitedFor
  <2>3. /\ Cardinality(WaitedFor(t)') \in Nat
        /\ Cardinality(WaitedFor(t)') <= Cardinality(WaitedFor(t)) + 1
        /\ t # last[r] => Cardinality(WaitedFor(t)') <= Cardinality(WaitedFor(t))
    BY <2>2, CountRuns
  <2>. QED
    BY <1>1, <2>1, <2>3, Counts DEF IInv, Flow, Followed
<1>4. FirstPrints'
    BY DEF IInv, FirstPrints, waitForLast
<1>. QED
    BY <1>2, <1>3, <1>4 DEF IInv, Flow

\* The message that a child takes stands for what the child will print.
LEMMA recieveIInv ==
    ASSUME IInv, NEW r \in Runs, NEW k \in Numbers(r), recieve(r, k) PROVE IInv'
<1>1. k \in Types
    BY DEF IInv, FirstPrints, recieve, Numbers, Types
<1>2. \A s \in Runs : \A j \in Numbers(s) :
          child'[s][j] = IF s = r /\ j = k THEN "print" ELSE child[s][j]
    BY GotoMoves DEF IInv, Labels, recieve
<1>3. /\ DOMAIN child' = Runs
      /\ \A s \in Runs : child'[s] \in [Numbers(s) -> Labels]
    BY GotoMoves DEF IInv, Labels, recieve
<1>4. /\ q' \in [Types -> Nat]
      /\ \A t \in Types : q'[t] = IF t = k THEN q[t] - 1 ELSE q[t]
    BY <1>1 DEF IInv, TypeOK, recieve, Take
<1>5. TypeOK'
    BY <1>2, <1>3, <1>4 DEF IInv, TypeOK, recieve
<1>6. ASSUME NEW t \in Types PROVE Followed(t)'
  <2>1. /\ WaitedFor(t)' = WaitedFor(t) /\ PrintedNext(t)' = PrintedNext(t)
        /\ printed' = printed
    BY DEF recieve, WaitedFor, PrintedNext
  <2>2. /\ Sending(t) \in SUBSET Runs /\ Sending(t)' \in SUBSET Runs
        /\ Sending(t)' \subseteq Sending(t)
    BY <1>2 DEF Sending
  <2>3. /\ Printing(t) \in SUBSET Runs /\ Printing(t)' \in SUBSET Runs
        /\ Printing(t)' \subseteq Printing(t) \cup {r}
        /\ t # k => Printing(t)' \subseteq Printing(t)
    BY <1>2 DEF Printing
  <2>4. /\ Cardinality(Sending(t)') \in Nat
        /\ Cardinality(Sending(t)') <= Cardinality(Sending(t))
    BY <2>2, CountRuns
  <2>5. /\ Cardinality(Printing(t)') \in Nat
        /\ Cardinality(Printing(t)') <= Cardinality(Printing(t)) + 1
        /\ t # k => Cardinality(Printing(t)') <= Cardinality(Printing(t))
    BY <2>3, CountRuns
  <2>. QED
    BY <1>4, <2>1, <2>4, <2>5, Counts DEF IInv, Flow, Followed
<1>7. FirstPrints'
    BY <1>2 DEF IInv, FirstPrints
<1>. QED
    BY <1>5, <1>6, <1>7 DEF IInv, Flow

\* What is printed follows the message that was taken for it, and is yet to
\* be followed.
LEMMA printIInv ==
    ASSUME IInv, NEW r \in Runs, NEW k \in Numbers(r), print(r, k) PROVE IInv'
<1>1. k \in DOMAIN printed /\ k + 1 \in Types /\ k \in Nat
  <2>1. k + 1 \in Types
    BY DEF Numbers, Types
  <2>. QED
    BY <2>1 DEF IInv, TypeOK, Numbers
<1>2. \A s \in Runs : \A j \in Numbers(s) :
          child'[s][j] = IF s = r /\ j = k THEN "send" ELSE child[s][j]
    BY GotoMoves DEF IInv, Labels, print
<1>3. /\ DOMAIN child' = Runs
      /\ \A s \in Runs : child'[s] \in [Numbers(s) -> Labels]
    BY GotoMoves DEF IInv, Labels, print
<1>4. /\ printed' \in [DOMAIN printed -> Nat]
      /\ \A j \in DOMAIN printed : printed'[j] = IF j = k THEN printed[j] + 1 ELSE printed[j]
    BY <1>1 DEF IInv, TypeOK, print
<1>5. TypeOK'
    BY <1>2, <1>3, <1>4 DEF IInv, TypeOK, print
<1>6. ASSUME NEW t \in Types PROVE Followed(t)'
  <2>1. WaitedFor(t)' = WaitedFor(t) /\ q' = q
    BY DEF print, WaitedFor
  <2>2. PrintedNext(t)' = IF t = k THEN PrintedNext(t) + 1 ELSE PrintedNext(t)
    BY <1>1, <1>4 DEF PrintedNext
  <2>3. /\ Sending(t) \in SUBSET Runs /\ Sending(t)' \in SUBSET Runs
        /\ Sending(t)' \subseteq Sending(t) \cup {r}
        /\ t # k + 1 => Sending(t)' \subseteq Sending(t)
    <3>1. t # k + 1 => t - 1 # k
      BY <1>1, Counts DEF IInv
    <3>. QED
      BY <1>2, <3>1 DEF Sending
  <2>4. /\ Printing(t) \in SUBSET Runs /\ Printing(t)' \in SUBSET Runs
        /\ Printing(t)' \subseteq Printing(t)
        /\ t = k => r \in Printing(t) /\ Printing(t)' \subseteq Printing(t) \ {r}
    BY <1>2 DEF print, Printing
  <2>5. /\ Cardinality(Sending(t)') \in Nat
        /\ Cardinality(Sending(t)') <= Cardinality(Sending(t)) + 1
        /\ t # k + 1 => Cardinality(Sending(t)') <= Cardinality(Sending(t))
    BY <2>3, CountRuns
  <2>6. /\ Cardinality(Printing(t)') \in Nat
        /\ Cardinality(Printing(t)') <= Cardinality(Printing(t))
        /\ t = k => Cardinality(Printing(t)') + 1 <= Cardinality(Printing(t))
    BY <2>4, CountRuns
  <2>7. /\ t \in Nat \ {0} /\ t - 1 \in DOMAIN printed
        /\ printed'[t - 1] = IF t = k + 1 THEN printed[t - 1] + 1 ELSE printed[t - 1]
    BY <1>1, <1>4, Counts DEF IInv
  <2>. QED
    BY <1>1, <2>1, <2>2, <2>5, <2>6, <2>7, Counts DEF IInv, Flow, Followed
<1>7. FirstPrints'
    BY <1>2 DEF IInv, FirstPrints
<1>. QED
    BY <1>5, <1>6, <1>7 DEF IInv, Flow

\* The message stands for what the child has printed.
LEMMA sendIInv ==
    ASSUME IInv, NEW r \in Runs, NEW k \in Numbers(r), send(r, k) PROVE IInv'
<1>1. k + 1 \in Types /\ k \in Nat
    BY DEF Numbers, Types
<1>2. \A s \in Runs : \A j \in Numbers(s) :
          child'[s][j] = IF s = r /\ j = k THEN "exit" ELSE child[s][j]
    BY GotoMoves DEF IInv, Labels, send
<1>3. /\ DOMAIN child' = Runs
      /\ \A s \in Runs : child'[s] \in [Numbers(s) -> Labels]
    BY GotoMoves DEF IInv, Labels, send
<1>4. /\ q' \in [Types -> Nat]
      /\ \A t \in Types : q'[t] = IF t = k + 1 THEN q[t] + 1 ELSE q[t]
    BY <1>1 DEF IInv, TypeOK, send
<1>5. TypeOK'
    BY <1>2, <1>3, <1>4 DEF IInv, TypeOK, send
<1>6. ASSUME NEW t \in Types PROVE Followed(t)'
  <2>1. /\ WaitedFor(t)' = WaitedFor(t) /\ PrintedNext(t)' = PrintedNext(t)
        /\ printed' = printed
    BY DEF send, WaitedFor, PrintedNext
  <2>2. /\ Sending(t) \in SUBSET Runs /\ Sending(t)' \in SUBSET Runs
        /\ Sending(t)' \subseteq Sending(t)
        /\ t = k + 1 => r \in Sending(t) /\ Sending(t)' \subseteq Sending(t) \ {r}
    <3>1. t = k + 1 => t - 1 = k
        BY <1>1
    <3>2. \A s \in Sending(t)' : s \in Sending(t) /\ (s = r => t # k + 1)
        BY <1>2, <3>1 DEF Sending
    <3>3. t = k + 1 => r \in Sending(t)
        BY <3>1 DEF send, Sending
    <3>. QED
        BY <3>2, <3>3 DEF Sending
  <2>3. /\ Printing(t) \in SUBSET Runs /\ Printing(t)' \in SUBSET Runs
        /\ Printing(t)' \subseteq Printing(t)
    BY <1>2 DEF Printing
  <2>4. /\ Cardinality(Sending(t)') \in Nat
        /\ Cardinality(Sending(t)') <= Cardinality(Sending(t))
        /\ t = k + 1 => Cardinality(Sending(t)') + 1 <= Cardinality(Sending(t))
    BY <2>2, CountRuns
  <2>5. /\ Cardinality(Printing(t)') \in Nat
        /\ Cardinality(Printing(t)') <= Cardinality(Printing(t))
    BY <2>3, CountRuns
  <2>. QED
    BY <1>4, <2>1, <2>4, <2>5, Counts DEF IInv, Flow, Followed
<1>7. FirstPrints'
    BY <1>2 DEF IInv, FirstPrints
<1>. QED
    BY <1>5, <1>6, <1>7 DEF IInv, Flow

\* Every step preserves the inductive invariant.
LEMMA NextIInv == IInv /\ [Next]_vars => IInv'
<1> SUFFICES ASSUME IInv, [Next]_vars PROVE IInv'
    OBVIOUS
<1>1. ASSUME NEW r \in Runs, parentStep(r) PROVE IInv'
    BY <1>1, forkChildIInv, endOfLoopIInv, waitForLastIInv DEF parentStep
<1>2. ASSUME NEW r \in Runs, NEW k \in Numbers(r), childStep(r, k) PROVE IInv'
    BY <1>2, recieveIInv, printIInv, sendIInv DEF childStep
<1>3. ASSUME NEW r \in Runs, interrupt(r) PROVE IInv'
    BY <1>3, interruptIInv
<1>4. CASE UNCHANGED vars
  <2>1. TypeOK'
    BY <1>4 DEF vars, IInv, TypeOK
  <2>2. ASSUME NEW t \in Types PROVE Followed(t)'
    BY <1>4, <2>2, NothingSent DEF vars, Sending, Printing, WaitedFor
  <2>3. FirstPrints'
    BY <1>4 DEF vars, IInv, FirstPrints
  <2>. QED
    BY <2>1, <2>2, <2>3 DEF IInv, Flow
<1>. QED
    BY <1>1, <1>2, <1>3, <1>4 DEF Next

-----------------------------------------------------------------------------
\* The inductive invariant holds in every state, with any number of runs on the
\* queue, wherever fork() fails and whichever are interrupted.
THEOREM Invariance == Spec => []IInv
<1>1. Init => IInv
    BY InitIInv
<1>2. IInv /\ [Next]_vars => IInv'
    BY NextIInv
<1>. QED
    BY <1>1, <1>2, PTL DEF Spec

\* Nothing is printed, and no run returns, without a predecessor of its own
\* (msgrcv in the child and in run()).
THEOREM NumbersInOrder == Spec => []InOrder
<1>1. IInv => InOrder
  <2> SUFFICES ASSUME IInv, NEW t \in Types
               PROVE  printed[t - 1] >= Returned(t) + PrintedNext(t)
      BY DEF InOrder, PrintedNext
  <2>1. Returned(t) = Cardinality(WaitedFor(t))
      BY DEF Returned, WaitedFor
  <2>. QED
      BY <2>1, Counts DEF IInv, Flow, Followed
<1>. QED
    BY <1>1, Invariance, PTL
=============================================================================
