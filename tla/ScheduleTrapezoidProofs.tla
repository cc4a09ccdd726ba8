---------------------- MODULE ScheduleTrapezoidProofs ----------------------
(***************************************************************************)
(* Why there is a piece of work for every thread, why threads go to the    *)
(* cores before they go to hyperthreads, and why the sum misses less than  *)
(* a step for each thread, on machines of any topology, for any number of  *)
(* threads and of steps.                                                   *)
(*                                                                         *)
(* Most of this is about distributeWork(): its list is the concatenation   *)
(* of a block of equal pieces for each core of the topology, whose places  *)
(* and weights are given in closed form (Position, Weighed).  The          *)
(* inductive invariant says that the list keeps that layout (Lists), and   *)
(* that the pieces of the threads that were launched are consecutive       *)
(* intervals, whose lengths are in the list (Work).                        *)
(***************************************************************************)
EXTENDS ScheduleTrapezoid, FiniteSetTheorems, WellFoundedInduction, TLAPS

-----------------------------------------------------------------------------
(* The inductive invariant.                                                *)

\* The cores of the topology, those with hyperthreads first: their threads and weights.
ThreadsOf(e) == IF e < smt_count THEN smtThreads(e) ELSE coreThreads(e - smt_count)
WeightOf(e)  == IF e < smt_count THEN smtWeight(e) ELSE 10

ItemOf(ids, threads, weight) ==
    [ids |-> ids, work |-> (weight * n) \div (total_weight * threads)]

SmtIds(c)  == {topology.smt[c + 1].id, topology.smt[c + 1].sibling}
CoreIds(c) == {topology.cpus[c + 1]}

\* The CPUs of a core, and its pieces.
IdsOf(e)   == IF e < smt_count THEN SmtIds(e) ELSE CoreIds(e - smt_count)
PieceOf(e) == ItemOf(IdsOf(e), ThreadsOf(e), WeightOf(e))

\* The pieces of core e follow place pos[e] of the list q.
Listed(q, S, C, pos) ==
    /\ Len(q) = n_threads /\ DOMAIN q = 1 .. n_threads
    /\ \A e \in 0 .. S + C - 1 : \A k \in 1 .. ThreadsOf(e) :
          pos[e] + k \in 1 .. n_threads /\ q[pos[e] + k] = PieceOf(e)

\* Those places, one after the other.
Placed(S, C, pos) ==
    /\ pos \in [0 .. S + C -> Nat]
    /\ pos[0] = 0 /\ pos[S + C] = n_threads
    /\ \A e \in 0 .. S + C - 1 : ThreadsOf(e) \in Nat /\ pos[e + 1] = pos[e] + ThreadsOf(e)

Laid(pos) == Placed(smt_count, core_count, pos) /\ Listed(dist, smt_count, core_count, pos)

Inputs == machine \in Machines /\ sysfs \in BOOLEAN /\ n \in Nat /\ n_threads \in Nat

\* The topology is what was read, and the list of pieces is laid out in its blocks.
Lists ==
    /\ pc \in {"read", "distribute", "create", "join", "returned", "thrown"}
    /\ pc # "read" => topology = getSysCPUs
    /\ Distributed => \E pos : Laid(pos)

Early == ~Distributed => i = 1 /\ current_n = 0 /\ thread = <<>> /\ s = <<>>

Threads == 1 .. n_threads

Arrays ==
    Distributed =>
        /\ thread \in [Threads -> {"none", "running", "ended"}]
        /\ piece \in [Threads -> SUBSET Int] /\ results \in [Threads -> SUBSET Int]
        /\ current_n \in Nat /\ i \in Nat

\* The first k pieces follow each other, up to step m.
Consecutive(k, m) ==
    \E h \in [0 .. k -> Nat] :
        /\ h[0] = 0 /\ h[k] = m
        /\ \A t \in 1 .. k :
              h[t] = h[t - 1] + dist[t].work /\ piece[t] = h[t - 1] .. h[t] - 1

\* Threads that were launched, and those whose results were added up.
Launched == IF pc = "create" THEN i - 1 ELSE n_threads
Added    == IF pc = "create" THEN 0 ELSE i - 1

Work ==
    Distributed /\ pc # "thrown" =>
        /\ Launched \in 0 .. n_threads /\ Consecutive(Launched, current_n)
        /\ \A t \in Threads : thread[t] # "none" <=> t <= Launched
        /\ \A t \in Threads : thread[t] = "ended" => results[t] = piece[t]
        /\ Added \in 0 .. n_threads /\ s \in [1 .. Added -> SUBSET Int]
        /\ \A t \in 1 .. Added : thread[t] = "ended" /\ s[t] = piece[t]
        /\ pc = "returned" => Added = n_threads

IInv == Inputs /\ Lists /\ Early /\ Arrays /\ Work

-----------------------------------------------------------------------------
(* Numbers.                                                                *)

\* A set of natural numbers with 0 and with the successor of each is Nat.
LEMMA NatSetInduction ==
    ASSUME NEW S, 0 \in S, \A k \in Nat : k \in S => k + 1 \in S
    PROVE  Nat \subseteq S
<1> DEFINE R == OpToRel(<, Nat)
           T == Nat \ S
<1>1. IsWellFoundedOn(R, Nat)
    BY NatLessThanWellFounded
<1>2. \A x, y \in Nat : x < y => <<x, y>> \in R
    BY DEF OpToRel
<1> HIDE DEF R
<1> SUFFICES ASSUME T # {} PROVE FALSE
    OBVIOUS
<1>3. PICK x \in T : \A y \in T : ~(<<y, x>> \in R)
    BY <1>1, WFMin
<1>4. x \in Nat /\ x \notin S
    OBVIOUS
<1>5. x - 1 \in Nat /\ x - 1 < x /\ x = (x - 1) + 1
    BY <1>4
<1>6. x - 1 \in S
    BY <1>2, <1>3, <1>4, <1>5, Zenon
<1>. QED
    BY <1>4, <1>5, <1>6

\* The minimum of a set is what it has and nothing in it is less than.
LEMMA MinIs ==
    ASSUME NEW S \in SUBSET Int, NEW a \in S, \A b \in S : a <= b
    PROVE  Min(S) = a
<1>1. \A b \in S : (\A c \in S : b <= c) => b = a
  <2>1. ASSUME NEW b \in S, \A c \in S : b <= c PROVE b = a
    <3>1. b <= a /\ a <= b /\ a \in Int /\ b \in Int
      BY <2>1
    <3>. QED
      BY <3>1
  <2>. QED
    BY <2>1
<1>. QED
    BY <1>1 DEF Min

\* The lesser of two numbers.
Low(a, b) == IF a <= b THEN a ELSE b

\* Min() of two is that.
LEMMA MinOfTwo ==
    ASSUME NEW a \in Nat, NEW b \in Nat
    PROVE  Min({a, b}) = Low(a, b)
<1>1. {a, b} \in SUBSET Int
    OBVIOUS
<1>2. CASE a <= b
  <2>1. \A c \in {a, b} : a <= c
    BY <1>2
  <2>. QED
    BY <1>1, <1>2, <2>1, MinIs DEF Low
<1>3. CASE ~(a <= b)
  <2>1. \A c \in {a, b} : b <= c
    BY <1>3
  <2>. QED
    BY <1>1, <1>3, <2>1, MinIs DEF Low
<1>. QED
    BY <1>2, <1>3

\* Division with a remainder.
LEMMA Division ==
    ASSUME NEW N \in Nat, NEW w \in Nat \ {0}
    PROVE  /\ N \div w \in Nat /\ N % w \in Nat /\ N % w < w
           /\ N = w * (N \div w) + (N % w)
<1> DEFINE q == N \div w
           r == N - w * q
<1>1. q \in Nat /\ w * q <= N /\ N < w * q + w
    OBVIOUS
<1> HIDE DEF q
<1>2. w * q \in Nat
    BY <1>1
<1>3. r \in Nat /\ r < w /\ N = w * q + r
    BY <1>1, <1>2
<1> HIDE DEF r
<1>4. N % w = r
    BY <1>1, <1>3
<1>. QED
    BY <1>1, <1>3, <1>4 DEF q

\* A number that is less has the quotient 0.
LEMMA SmallDivision ==
    ASSUME NEW N \in Nat, NEW w \in Nat \ {0}, N < w
    PROVE  N \div w = 0 /\ N % w = N
<1>1. N = w * 0 + N /\ 0 \in Nat
    OBVIOUS
<1>2. \A q, r \in Nat : r < w /\ N = w * q + r => N \div w = q /\ N % w = r
    OBVIOUS
<1>. QED
    BY <1>1, <1>2

-----------------------------------------------------------------------------
(* How many threads go where.  S is the number of cores with hyperthreads, *)
(* and C of those without.                                                 *)

\* d gives t threads first to the cores with hyperthreads, then to those without.
Spread(d, S, C, t) ==
    /\ d.smt \in 0 .. S /\ d.cores \in 0 .. C /\ d.hthreads \in Nat
    /\ d.smt + d.cores + d.hthreads = t
    /\ d.cores > 0 => d.smt = S
    /\ d.hthreads > 0 => d.smt = S /\ d.cores = C

Counts(S, C) ==
    /\ S \in Nat /\ C \in Nat /\ smt_count = S /\ core_count = C /\ S + C > 0
    /\ n \in Nat /\ n_threads \in Nat

\* distribute() does.
LEMMA Distributes ==
    ASSUME NEW S, NEW C, Counts(S, C), NEW t \in Nat
    PROVE  Spread(distribute(t), S, C, t)
<1>1. S \in Nat /\ C \in Nat /\ smt_count = S /\ core_count = C
    BY DEF Counts
<1> DEFINE a == Low(t, S)
           b == Low(t - a, C)
<1>2. a \in 0 .. S /\ t - a \in Nat /\ (t - a > 0 => a = S)
    BY <1>1 DEF Low
<1>3. Min({t, smt_count}) = a
    BY <1>1, MinOfTwo
<1> HIDE DEF a
<1>4. b \in 0 .. C /\ t - a - b \in Nat /\ (b > 0 => t - a > 0) /\ (t - a - b > 0 => b = C /\ t - a > 0)
    BY <1>1, <1>2 DEF Low
<1>5. Min({t - a, core_count}) = b
    BY <1>1, <1>2, MinOfTwo
<1> HIDE DEF b
<1>6. distribute(t) = [smt |-> a, cores |-> b, hthreads |-> t - a - b]
    BY <1>3, <1>5 DEF distribute
<1>7. a + b + (t - a - b) = t
    BY <1>2, <1>4
<1>. QED
    BY <1>2, <1>4, <1>6, <1>7 DEF Spread

\* What the cores get: every core in use has threads, and more if there are more
\* threads than CPUs.
Many(S, C, A, L, b) ==
    /\ n_threads >= C + 2 * S /\ b \in Nat \ {0}
    /\ A.smt = S /\ A.cores = C /\ A.hthreads = S
    /\ \E r \in Nat : r < C + 2 * S /\ n_threads = (C + 2 * S) * b + r /\ Spread(L, S, C, r)

Few(S, C, A, L, b) ==
    n_threads < C + 2 * S /\ b = 0 /\ A = L /\ Spread(L, S, C, n_threads)

\* There are two cases.
LEMMA ManyOrFew ==
    ASSUME NEW S, NEW C, Counts(S, C)
    PROVE  Many(S, C, active, leftover, base) \/ Few(S, C, active, leftover, base)
<1> DEFINE T == C + 2 * S
           r == n_threads % T
<1>1. T \in Nat \ {0} /\ thread_count = T /\ n_threads \in Nat /\ S \in Nat /\ C \in Nat
    BY DEF Counts, thread_count
<1>2. T = S + C + S
    BY <1>1
<1> HIDE DEF T
<1>3. /\ n_threads \div T \in Nat /\ r \in Nat /\ r < T
      /\ n_threads = T * (n_threads \div T) + r
    BY <1>1, Division
<1>4. base = n_threads \div T /\ leftover = distribute(r) /\ active = distribute(Low(n_threads, T))
    BY <1>1, MinOfTwo DEF base, leftover, active
<1>5. CASE n_threads < T
  <2>1. base = 0 /\ r = n_threads /\ Low(n_threads, T) = n_threads
    BY <1>1, <1>4, <1>5, SmallDivision DEF Low
  <2>2. Spread(distribute(n_threads), S, C, n_threads)
    BY <1>1, Distributes
  <2>. QED
    BY <1>4, <1>5, <2>1, <2>2 DEF Few, T
<1>6. CASE n_threads >= T
  <2> DEFINE q == n_threads \div T
  <2>1. Low(n_threads, T) = T
    BY <1>1, <1>6 DEF Low
  <2>2. Spread(active, S, C, T)
    BY <1>1, <1>4, <2>1, Distributes
  <2>3. active.smt = S /\ active.cores = C /\ active.hthreads = S
    BY <1>1, <1>2, <2>2 DEF Spread
  <2> HIDE DEF q, r
  <2>4. q \in Nat /\ r \in Nat /\ r < T /\ n_threads = T * q + r
    BY <1>3 DEF q
  <2>5. q # 0
    <3>1. ASSUME q = 0 PROVE n_threads < T
      BY <1>1, <2>4, <3>1
    <3>. QED
      BY <1>1, <1>6, <3>1
  <2>6. Spread(leftover, S, C, r)
    BY <1>4, <2>4, Distributes
  <2>7. base = q
    BY <1>4 DEF q
  <2>. QED
    BY <1>6, <2>3, <2>4, <2>5, <2>6, <2>7 DEF Many, T
<1>. QED
    BY <1>1, <1>5, <1>6

\* Nobody gets more than there are cores for.
LEMMA Leftovers ==
    ASSUME NEW S, NEW C, Counts(S, C)
    PROVE  /\ base \in Nat
           /\ leftover.smt \in 0 .. S /\ leftover.cores \in 0 .. C /\ leftover.hthreads \in 0 .. S
           /\ n_threads = (C + 2 * S) * base + leftover.smt + leftover.hthreads + leftover.cores
<1>1. S \in Nat /\ C \in Nat /\ n_threads \in Nat
    BY DEF Counts
<1>2. ASSUME NEW r \in Nat, r < C + 2 * S, Spread(leftover, S, C, r)
      PROVE  /\ leftover.smt \in 0 .. S /\ leftover.cores \in 0 .. C /\ leftover.hthreads \in 0 .. S
             /\ r = leftover.smt + leftover.hthreads + leftover.cores
    BY <1>1, <1>2 DEF Spread
<1>3. CASE Many(S, C, active, leftover, base)
  <2>1. PICK r \in Nat : /\ r < C + 2 * S /\ n_threads = (C + 2 * S) * base + r
                         /\ Spread(leftover, S, C, r)
    BY <1>3 DEF Many
  <2>2. base \in Nat
    BY <1>3 DEF Many
  <2> DEFINE m == (C + 2 * S) * base
  <2>3. m \in Nat
    BY <1>1, <2>2
  <2> HIDE DEF m
  <2>4. n_threads = m + r
    BY <2>1 DEF m
  <2>5. n_threads = m + leftover.smt + leftover.hthreads + leftover.cores
    BY <1>2, <2>1, <2>3, <2>4
  <2>. QED
    BY <1>2, <2>1, <2>2, <2>5 DEF m
<1>4. CASE Few(S, C, active, leftover, base)
  <2>1. n_threads < C + 2 * S /\ base = 0 /\ Spread(leftover, S, C, n_threads)
    BY <1>4 DEF Few
  <2>2. (C + 2 * S) * base = 0
    BY <1>1, <2>1
  <2>. QED
    BY <1>1, <1>2, <2>1, <2>2
<1>. QED
    BY <1>3, <1>4, ManyOrFew

\* Their threads.
LEMMA EntryThreads ==
    \A e : ThreadsOf(e) = IF e < smt_count THEN smtThreads(e) ELSE coreThreads(e - smt_count)
    BY DEF ThreadsOf

\* There are places for the blocks, which end with the number of threads.
LEMMA Position ==
    ASSUME NEW S, NEW C, Counts(S, C)
    PROVE  \E pos : Placed(S, C, pos)
<1> DEFINE x == leftover.smt
           y == leftover.hthreads
           z == leftover.cores
           b == base
           F(e) == 2 * b * e + Low(e, x) + Low(e, y)
           G(d) == F(S) + b * d + Low(d, z)
           pos == [e \in 0 .. S + C |-> IF e <= S THEN F(e) ELSE G(e - S)]
<1>1. /\ S \in Nat /\ C \in Nat /\ smt_count = S
      /\ b \in Nat /\ x \in 0 .. S /\ y \in 0 .. S /\ z \in 0 .. C
      /\ n_threads = (C + 2 * S) * b + x + y + z
    BY Leftovers DEF Counts
<1>0. S \in Nat /\ C \in Nat /\ smt_count = S /\ x \in 0 .. S /\ y \in 0 .. S /\ z \in 0 .. C
    BY <1>1
<1>2. /\ \A c \in 0 .. S - 1 : ThreadsOf(c) = 2 * b + One(c < x) + One(c < y)
      /\ \A d \in 0 .. C - 1 : ThreadsOf(S + d) = b + One(d < z)
  <2>1. ASSUME NEW c \in 0 .. S - 1 PROVE ThreadsOf(c) = 2 * b + One(c < x) + One(c < y)
    BY <1>1 DEF ThreadsOf, smtThreads
  <2>2. ASSUME NEW d \in 0 .. C - 1 PROVE ThreadsOf(S + d) = b + One(d < z)
    <3>1. ~(S + d < smt_count) /\ S + d - smt_count = d
      BY <1>0
    <3>2. ThreadsOf(S + d) = coreThreads(S + d - smt_count)
      BY <1>0, <3>1, EntryThreads
    <3>3. coreThreads(S + d - smt_count) = coreThreads(d)
      BY <3>1, Zenon
    <3>. QED
      BY <3>2, <3>3 DEF coreThreads
  <2>. QED
    BY <2>1, <2>2
<1> HIDE DEF b, x, y, z
<1>3. \A c \in Nat : b * c \in Nat /\ b * (c + 1) = b * c + b /\ 2 * b * c = 2 * (b * c)
    BY <1>1
<1>4. \A c \in Nat : F(c) \in Nat /\ F(c + 1) = F(c) + (2 * b + One(c < x) + One(c < y))
  <2>1. ASSUME NEW c \in Nat PROVE F(c) \in Nat /\ F(c + 1) = F(c) + (2 * b + One(c < x) + One(c < y))
    <3>1. /\ b * c \in Nat /\ 2 * b * c = 2 * (b * c) /\ 2 * b * (c + 1) = 2 * (b * c) + 2 * b
      <4>1. c + 1 \in Nat
        OBVIOUS
      <4>2. b * (c + 1) = b * c + b /\ 2 * b * (c + 1) = 2 * (b * (c + 1))
        BY <1>3, <4>1
      <4>. QED
        BY <1>1, <1>3, <4>2
    <3>2. /\ Low(c, x) \in Nat /\ Low(c + 1, x) = Low(c, x) + One(c < x) /\ One(c < x) \in 0 .. 1
          /\ Low(c, y) \in Nat /\ Low(c + 1, y) = Low(c, y) + One(c < y) /\ One(c < y) \in 0 .. 1
      BY <1>0 DEF One, Low
    <3>. QED
      BY <1>1, <3>1, <3>2
  <2>. QED
    BY <2>1
<1>5. F(0) = 0 /\ F(S) = 2 * (b * S) + x + y
  <2>1. Low(0, x) = 0 /\ Low(0, y) = 0 /\ Low(S, x) = x /\ Low(S, y) = y
    BY <1>0 DEF One, Low
  <2>. QED
    BY <1>1, <1>3, <2>1
<1> HIDE DEF F
<1>6. \A d \in Nat : G(d) \in Nat /\ G(d + 1) = G(d) + (b + One(d < z))
  <2>1. ASSUME NEW d \in Nat PROVE G(d) \in Nat /\ G(d + 1) = G(d) + (b + One(d < z))
    <3>1. Low(d, z) \in Nat /\ Low(d + 1, z) = Low(d, z) + One(d < z) /\ One(d < z) \in 0 .. 1
      BY <1>0 DEF One, Low
    <3>2. b * d \in Nat /\ b * (d + 1) = b * d + b /\ F(S) \in Nat
      BY <1>1, <1>3, <1>4
    <3>. QED
      BY <1>1, <3>1, <3>2
  <2>. QED
    BY <2>1
<1>7. G(0) = F(S) /\ G(C) = n_threads
  <2>1. Low(0, z) = 0 /\ Low(C, z) = z
    BY <1>0 DEF One, Low
  <2>2. b * 0 = 0 /\ F(S) \in Nat /\ b * S \in Nat /\ b * C \in Nat
    BY <1>1, <1>4
  <2>3. (C + 2 * S) * b = b * C + 2 * (b * S)
    BY <1>1
  <2>. QED
    BY <1>1, <1>5, <2>1, <2>2, <2>3
<1> HIDE DEF G
<1>8. \A e \in 0 .. S + C : pos[e] = IF e <= S THEN F(e) ELSE G(e - S)
    OBVIOUS
<1>9. pos \in [0 .. S + C -> Nat]
  <2>1. ASSUME NEW e \in 0 .. S + C PROVE (IF e <= S THEN F(e) ELSE G(e - S)) \in Nat
    <3>1. e \in Nat /\ (~(e <= S) => e - S \in Nat)
      BY <1>1
    <3>. QED
      BY <1>4, <1>6, <3>1
  <2>. QED
    BY <2>1
<1> HIDE DEF pos
<1>10. pos[0] = 0 /\ pos[S + C] = n_threads
  <2>1. /\ 0 \in 0 .. S + C /\ 0 <= S /\ S + C \in 0 .. S + C /\ S + C - S = C
        /\ S + C <= S => C = 0 /\ S + C = S
    BY <1>1
  <2>. QED
    BY <1>1, <1>5, <1>7, <1>8, <2>1
<1>11. ASSUME NEW e \in 0 .. S + C - 1
       PROVE  ThreadsOf(e) \in Nat /\ pos[e + 1] = pos[e] + ThreadsOf(e)
  <2>0. e \in 0 .. S + C /\ e + 1 \in 0 .. S + C
    BY <1>1
  <2>1. CASE e < S
    <3>1. e \in 0 .. S - 1 /\ e <= S /\ e + 1 <= S /\ e \in Nat
      BY <1>1, <2>1
    <3>2. ThreadsOf(e) = 2 * b + One(e < x) + One(e < y)
      BY <1>2, <3>1
    <3>3. One(e < x) \in 0 .. 1 /\ One(e < y) \in 0 .. 1
      BY <1>0, <3>1 DEF One, Low
    <3>. QED
      BY <1>1, <1>4, <1>8, <2>0, <3>1, <3>2, <3>3
  <2>2. CASE ~(e < S)
    <3> DEFINE d == e - S
    <3>1. d \in 0 .. C - 1 /\ d \in Nat /\ e = S + d /\ ~(e + 1 <= S) /\ e + 1 - S = d + 1
      BY <1>1, <2>2
    <3>2. pos[e] = G(d)
      <4>1. e <= S => e = S /\ d = 0
        BY <1>1, <2>2
      <4>. QED
        BY <1>7, <1>8, <2>0, <4>1
    <3> HIDE DEF d
    <3>3. ThreadsOf(e) = b + One(d < z) /\ One(d < z) \in 0 .. 1
      BY <1>0, <1>2, <3>1 DEF One, Low
    <3>. QED
      BY <1>1, <1>6, <1>8, <2>0, <3>1, <3>2, <3>3
  <2>. QED
    BY <2>1, <2>2
<1>. QED
    BY <1>9, <1>10, <1>11 DEF Placed

\* The cores in use are the first ones of each kind, and hyperthreads come last.
LEMMA Activity ==
    ASSUME NEW S, NEW C, Counts(S, C)
    PROVE  /\ active.smt \in 0 .. S /\ active.cores \in 0 .. C /\ active.hthreads \in 0 .. S
           /\ active.hthreads > 0 => active.smt = S
           /\ n_threads > 0 => active.smt + active.cores > 0
           /\ \A c \in 0 .. S - 1 : smtThreads(c) \in Nat /\ (smtThreads(c) = 0 <=> active.smt <= c)
           /\ \A d \in 0 .. C - 1 : coreThreads(d) \in Nat /\ (coreThreads(d) = 0 <=> active.cores <= d)
<1>1. /\ S \in Nat /\ C \in Nat /\ n_threads \in Nat /\ S + C > 0 /\ base \in Nat
      /\ leftover.smt \in 0 .. S /\ leftover.cores \in 0 .. C /\ leftover.hthreads \in 0 .. S
    BY Leftovers DEF Counts
<1>2. CASE Many(S, C, active, leftover, base)
  <2>1. active.smt = S /\ active.cores = C /\ active.hthreads = S /\ base \in Nat \ {0}
    BY <1>2 DEF Many
  <2>2. ASSUME NEW c \in 0 .. S - 1 PROVE smtThreads(c) \in Nat /\ smtThreads(c) # 0 /\ ~(S <= c)
    BY <1>1, <2>1 DEF smtThreads, One
  <2>3. ASSUME NEW d \in 0 .. C - 1 PROVE coreThreads(d) \in Nat /\ coreThreads(d) # 0 /\ ~(C <= d)
    BY <1>1, <2>1 DEF coreThreads, One
  <2>. QED
    BY <1>1, <2>1, <2>2, <2>3
<1>3. CASE Few(S, C, active, leftover, base)
  <2>1. active = leftover /\ base = 0 /\ Spread(leftover, S, C, n_threads)
    BY <1>3 DEF Few
  <2>2. /\ leftover.hthreads > 0 => leftover.smt = S
        /\ n_threads > 0 => leftover.smt + leftover.cores > 0
    BY <1>1, <2>1 DEF Spread
  <2>3. ASSUME NEW c \in 0 .. S - 1
        PROVE  smtThreads(c) \in Nat /\ (smtThreads(c) = 0 <=> leftover.smt <= c)
    BY <1>1, <2>1, <2>2 DEF smtThreads, One
  <2>4. ASSUME NEW d \in 0 .. C - 1
        PROVE  coreThreads(d) \in Nat /\ (coreThreads(d) = 0 <=> leftover.cores <= d)
    BY <1>1, <2>1, <2>2 DEF coreThreads, One
  <2>. QED
    BY <1>1, <2>1, <2>2, <2>3, <2>4
<1>. QED
    BY <1>2, <1>3, ManyOrFew

\* The weights of the cores in use.
Adding(S, C, cw) ==
    /\ cw \in [0 .. S + C -> Nat]
    /\ cw[0] = 0 /\ cw[S + C] = total_weight
    /\ \A e \in 0 .. S + C - 1 :
          /\ WeightOf(e) \in Nat
          /\ ThreadsOf(e) = 0 => cw[e + 1] = cw[e]
          /\ ThreadsOf(e) # 0 => cw[e + 1] = cw[e] + WeightOf(e)

\* They add up to the total.
LEMMA Weighed ==
    ASSUME NEW S, NEW C, Counts(S, C)
    PROVE  (\E cw : Adding(S, C, cw)) /\ total_weight \in Nat /\ (n_threads > 0 => total_weight > 0)
<1> DEFINE x == active.smt
           y == active.hthreads
           z == active.cores
           F(e) == 10 * Low(e, x) + 3 * Low(e, y)
           G(d) == F(S) + 10 * Low(d, z)
           cw == [e \in 0 .. S + C |-> IF e <= S THEN F(e) ELSE G(e - S)]
<1>1. /\ S \in Nat /\ C \in Nat /\ smt_count = S /\ n_threads \in Nat
      /\ x \in 0 .. S /\ y \in 0 .. S /\ z \in 0 .. C
      /\ y > 0 => x = S
      /\ n_threads > 0 => x + z > 0
    BY Activity DEF Counts
<1>2. total_weight = 10 * (x + z) + 3 * y
    BY DEF total_weight
<1>3. \A c \in 0 .. S - 1 : /\ ThreadsOf(c) = 0 <=> x <= c
                            /\ WeightOf(c) = 10 + 3 * (IF c < y THEN 1 ELSE 0)
  <2>1. ASSUME NEW c \in 0 .. S - 1
        PROVE  /\ ThreadsOf(c) = 0 <=> x <= c
               /\ WeightOf(c) = 10 + 3 * (IF c < y THEN 1 ELSE 0)
    <3>1. c < smt_count
      BY <1>1
    <3>2. ThreadsOf(c) = smtThreads(c) /\ WeightOf(c) = smtWeight(c)
      BY <3>1, EntryThreads DEF WeightOf
    <3>. QED
      BY <3>2, Activity DEF smtWeight, One
  <2>. QED
    BY <2>1
<1>4. \A d \in 0 .. C - 1 : (ThreadsOf(S + d) = 0 <=> z <= d) /\ WeightOf(S + d) = 10
  <2>1. ASSUME NEW d \in 0 .. C - 1
        PROVE  (ThreadsOf(S + d) = 0 <=> z <= d) /\ WeightOf(S + d) = 10
    <3>1. ~(S + d < smt_count) /\ S + d - smt_count = d
      BY <1>1
    <3>2. ThreadsOf(S + d) = coreThreads(S + d - smt_count) /\ WeightOf(S + d) = 10
      BY <1>1, <3>1, EntryThreads DEF WeightOf
    <3>3. coreThreads(S + d - smt_count) = coreThreads(d)
      BY <3>1, Zenon
    <3>. QED
      BY <3>2, <3>3, Activity
  <2>. QED
    BY <2>1
<1> HIDE DEF x, y, z
<1>5. /\ \A c \in Nat : F(c) \in Nat
      /\ \A c \in 0 .. S - 1 : F(c + 1) = IF x <= c THEN F(c) ELSE F(c) + 10 + 3 * (IF c < y THEN 1 ELSE 0)
      /\ F(0) = 0 /\ F(S) = 10 * x + 3 * y
    BY <1>1 DEF Low
<1> HIDE DEF F
<1>6. /\ \A d \in Nat : G(d) \in Nat
      /\ \A d \in 0 .. C - 1 : G(d + 1) = IF z <= d THEN G(d) ELSE G(d) + 10
      /\ G(0) = F(S) /\ G(C) = F(S) + 10 * z
    BY <1>1, <1>5 DEF Low
<1> HIDE DEF G
<1>7. \A e \in 0 .. S + C : cw[e] = IF e <= S THEN F(e) ELSE G(e - S)
    OBVIOUS
<1>8. cw \in [0 .. S + C -> Nat]
  <2>1. ASSUME NEW e \in 0 .. S + C PROVE (IF e <= S THEN F(e) ELSE G(e - S)) \in Nat
    <3>1. e \in Nat /\ (~(e <= S) => e - S \in Nat)
      BY <1>1
    <3>. QED
      BY <1>5, <1>6, <3>1
  <2>. QED
    BY <2>1
<1> HIDE DEF cw
<1>9. cw[0] = 0 /\ cw[S + C] = total_weight
  <2>1. /\ 0 \in 0 .. S + C /\ 0 <= S /\ S + C \in 0 .. S + C /\ S + C - S = C
        /\ S + C <= S => C = 0 /\ S + C = S
    BY <1>1
  <2>2. G(C) = total_weight
    BY <1>1, <1>2, <1>5, <1>6
  <2>. QED
    BY <1>1, <1>5, <1>6, <1>7, <2>1, <2>2
<1>10. ASSUME NEW e \in 0 .. S + C - 1
       PROVE  /\ WeightOf(e) \in Nat
              /\ ThreadsOf(e) = 0 => cw[e + 1] = cw[e]
              /\ ThreadsOf(e) # 0 => cw[e + 1] = cw[e] + WeightOf(e)
  <2>0. e \in 0 .. S + C /\ e + 1 \in 0 .. S + C
    BY <1>1
  <2>1. CASE e < S
    <3>1. e \in 0 .. S - 1 /\ e <= S /\ e + 1 <= S /\ e \in Nat
      BY <1>1, <2>1
    <3>. QED
      BY <1>1, <1>3, <1>5, <1>7, <2>0, <3>1
  <2>2. CASE ~(e < S)
    <3> DEFINE d == e - S
    <3>1. d \in 0 .. C - 1 /\ d \in Nat /\ e = S + d /\ ~(e + 1 <= S) /\ e + 1 - S = d + 1
      BY <1>1, <2>2
    <3>2. cw[e] = G(d)
      <4>1. e <= S => e = S /\ d = 0
        BY <1>1, <2>2
      <4>. QED
        BY <1>6, <1>7, <2>0, <4>1
    <3> HIDE DEF d
    <3>. QED
      BY <1>1, <1>4, <1>6, <1>7, <2>0, <3>1, <3>2
  <2>. QED
    BY <2>1, <2>2
<1>11. total_weight \in Nat /\ (n_threads > 0 => total_weight > 0)
    BY <1>1, <1>2
<1>. QED
    BY <1>8, <1>9, <1>10, <1>11 DEF Adding

-----------------------------------------------------------------------------
(* A list of blocks.  The c-th block has th[c] elements it[c]; the list    *)
(* ends before the first block without elements.                           *)

Joined(r, a, b, V) ==
    /\ r \in Seq(V) /\ Len(r) = Len(a) + Len(b)
    /\ \A k \in 1 .. Len(a) : r[k] = a[k]
    /\ \A k \in 1 .. Len(b) : r[Len(a) + k] = b[k]

\* Two sequences one after the other.
LEMMA ConcatIs ==
    ASSUME NEW V, NEW a \in Seq(V), NEW b \in Seq(V)
    PROVE  Joined(a \o b, a, b, V)
    BY DEF Joined

\* A block.
LEMMA BlockIs ==
    ASSUME NEW V, NEW v \in V, NEW m \in Nat
    PROVE  LET q == [x \in 1 .. m |-> v]
           IN  q \in Seq(V) /\ Len(q) = m /\ \A k \in 1 .. m : q[k] = v
    OBVIOUS

Rest(g, th, it, N, c) ==
    IF c = N \/ th[c] = 0 THEN <<>> ELSE [x \in 1 .. th[c] |-> it[c]] \o g[c + 1]

Chain(g, th, it, N, k) == g = [c \in (N - k) .. N |-> Rest(g, th, it, N, c)]

\* Such lists exist.
LEMMA Chained ==
    ASSUME NEW N \in Nat, NEW th, NEW it
    PROVE  \E g : Chain(g, th, it, N, N)
<1> DEFINE T == {k \in Nat : k <= N => \E g : Chain(g, th, it, N, k)}
<1>1. 0 \in T
  <2> DEFINE h == [c \in N .. N |-> <<>>]
  <2>1. h = [c \in N .. N |-> Rest(h, th, it, N, c)]
    BY DEF Rest
  <2>2. Chain(h, th, it, N, 0)
    BY <2>1 DEF Chain
  <2>. QED
    BY <2>2
<1>2. ASSUME NEW k \in Nat, k \in T PROVE k + 1 \in T
  <2>. SUFFICES ASSUME k + 1 <= N PROVE \E g : Chain(g, th, it, N, k + 1)
    OBVIOUS
  <2>1. PICK g : Chain(g, th, it, N, k)
    BY <1>2
  <2> DEFINE a == N - (k + 1)
             h == [c \in a .. N |-> IF c = a THEN Rest(g, th, it, N, c) ELSE g[c]]
  <2>2. a \in Nat /\ N - k = a + 1 /\ a < N
    OBVIOUS
  <2> HIDE DEF a
  <2>3. g = [c \in (a + 1) .. N |-> Rest(g, th, it, N, c)]
    BY <2>1, <2>2 DEF Chain
  <2>4. /\ h[a] = Rest(g, th, it, N, a)
        /\ \A c \in (a + 1) .. N : h[c] = g[c]
    BY <2>2
  <2>5. h = [c \in a .. N |-> h[c]]
    OBVIOUS
  <2> HIDE DEF h
  <2>6. ASSUME NEW c \in a .. N PROVE h[c] = Rest(h, th, it, N, c)
    <3>1. c = N \/ h[c + 1] = g[c + 1]
      <4>1. c # N => c + 1 \in (a + 1) .. N
        BY <2>2
      <4>. QED
        BY <2>4, <4>1
    <3>2. Rest(h, th, it, N, c) = Rest(g, th, it, N, c)
      BY <3>1 DEF Rest
    <3>3. CASE c = a
      BY <2>4, <3>2, <3>3
    <3>4. CASE c # a
      <4>1. c \in (a + 1) .. N
        BY <2>2, <3>4
      <4>2. g[c] = Rest(g, th, it, N, c)
        BY <2>3, <4>1
      <4>. QED
        BY <2>4, <3>2, <4>1, <4>2
    <3>. QED
      BY <3>3, <3>4
  <2>7. h = [c \in a .. N |-> Rest(h, th, it, N, c)]
    BY <2>5, <2>6
  <2>. QED
    BY <2>7 DEF Chain, a
<1> HIDE DEF T
<1>3. N \in T
    BY <1>1, <1>2, NatSetInduction
<1>. QED
    BY <1>3 DEF T

\* Block d of the list q that starts with block c is at pos[d].
Tiled(q, V, pos, th, it, N, c) ==
    /\ q \in Seq(V) /\ Len(q) = pos[N] - pos[c]
    /\ \A d \in c .. N - 1 :
          /\ pos[c] <= pos[d] /\ pos[d] + th[d] <= pos[N]
          /\ \A k \in 1 .. th[d] : q[pos[d] - pos[c] + k] = it[d]

\* Threads of one kind of cores: the first cores have them.
Blocks(V, pos, th, it, N) ==
    /\ N \in Nat /\ pos \in [0 .. N -> Nat]
    /\ th \in [0 .. N - 1 -> Nat] /\ it \in [0 .. N - 1 -> V]
    /\ \A c \in 0 .. N - 1 : pos[c + 1] = pos[c] + th[c]
    /\ \A c \in 0 .. N - 1 : c + 1 < N /\ th[c] = 0 => th[c + 1] = 0

\* One block more.
LEMMA OneBlock ==
    ASSUME NEW V, NEW pos, NEW th, NEW it, NEW N, Blocks(V, pos, th, it, N),
           NEW g, Chain(g, th, it, N, N),
           NEW c \in 0 .. N - 1, Tiled(g[c + 1], V, pos, th, it, N, c + 1)
    PROVE  Tiled(g[c], V, pos, th, it, N, c)
<1>1. /\ N \in Nat /\ c \in 0 .. N /\ c + 1 \in 0 .. N
      /\ pos[c] \in Nat /\ pos[c + 1] \in Nat /\ pos[N] \in Nat /\ th[c] \in Nat /\ it[c] \in V
      /\ pos[c + 1] = pos[c] + th[c]
    BY DEF Blocks
<1>2. \A d \in 0 .. N - 1 : pos[d] \in Nat /\ th[d] \in Nat
    BY <1>1 DEF Blocks
<1>3. \A d \in 0 .. N : g[d] = Rest(g, th, it, N, d)
    BY <1>1 DEF Chain
<1> DEFINE q == g[c + 1]
           l == Len(q)
<1>4. q \in Seq(V) /\ l \in Nat /\ l = pos[N] - pos[c + 1]
    BY DEF Tiled
<1>5. \A d \in c + 1 .. N - 1 :
          /\ pos[c + 1] <= pos[d] /\ pos[d] + th[d] <= pos[N]
          /\ \A k \in 1 .. th[d] : q[pos[d] - pos[c + 1] + k] = it[d]
    BY DEF Tiled
<1>6. \A d \in c .. N - 1 : pos[c] <= pos[d] /\ pos[d] + th[d] <= pos[N]
  <2>1. ASSUME NEW d \in c .. N - 1 PROVE pos[c] <= pos[d] /\ pos[d] + th[d] <= pos[N]
    <3>1. CASE d = c
      BY <1>1, <1>4, <3>1
    <3>2. CASE d # c
      <4>1. d \in c + 1 .. N - 1 /\ d \in 0 .. N - 1
        BY <1>1, <3>2
      <4>2. pos[c + 1] <= pos[d] /\ pos[d] + th[d] <= pos[N] /\ pos[d] \in Nat
        BY <1>2, <1>5, <4>1
      <4>. QED
        BY <1>1, <4>2
    <3>. QED
      BY <3>1, <3>2
  <2>. QED
    BY <2>1
<1>7. CASE th[c] = 0
  <2>1. g[c] = <<>>
    BY <1>1, <1>3, <1>7 DEF Rest
  <2>2. q = <<>>
    <3>1. c + 1 = N \/ th[c + 1] = 0
      BY <1>1, <1>7 DEF Blocks
    <3>. QED
      BY <1>1, <1>3, <3>1 DEF Rest
  <2>3. pos[N] = pos[c]
    BY <1>1, <1>4, <1>7, <2>2
  <2>4. ASSUME NEW d \in c .. N - 1 PROVE th[d] = 0
    <3>1. d \in 0 .. N - 1 /\ pos[c] <= pos[d] /\ pos[d] + th[d] <= pos[N]
      BY <1>1, <1>6
    <3>. QED
      BY <1>1, <1>2, <2>3, <3>1
  <2>5. g[c] \in Seq(V) /\ Len(g[c]) = pos[N] - pos[c]
    BY <1>1, <2>1, <2>3
  <2>6. \A d \in c .. N - 1 : \A k \in 1 .. th[d] : g[c][pos[d] - pos[c] + k] = it[d]
    BY <2>4
  <2>. QED
    BY <1>6, <2>5, <2>6 DEF Tiled
<1>8. CASE th[c] # 0
  <2> DEFINE m == th[c]
             b == [x \in 1 .. m |-> it[c]]
  <2>1. b \in Seq(V) /\ Len(b) = m /\ \A k \in 1 .. m : b[k] = it[c]
    BY <1>1, BlockIs
  <2>2. g[c] = b \o q
    <3>1. c # N /\ g[c] = Rest(g, th, it, N, c)
      BY <1>1, <1>3
    <3>. QED
      BY <1>8, <3>1, Zenon DEF Rest
  <2>m. m \in Nat /\ pos[c + 1] = pos[c] + m
    BY <1>1
  <2> HIDE DEF b, q, l, m
  <2>3. /\ g[c] \in Seq(V) /\ Len(g[c]) = m + l
        /\ \A k \in 1 .. m : g[c][k] = it[c]
        /\ \A k \in 1 .. l : g[c][m + k] = q[k]
    <3>1. Joined(b \o q, b, q, V)
      BY <1>4, <2>1, ConcatIs
    <3>2. Len(b) = m /\ Len(q) = l
      BY <2>1 DEF l
    <3>. QED
      BY <2>1, <2>2, <3>1, <3>2 DEF Joined
  <2>4. ASSUME NEW d \in c .. N - 1, NEW k \in 1 .. th[d]
        PROVE  g[c][pos[d] - pos[c] + k] = it[d]
    <3>1. CASE d = c
      <4>1. pos[d] - pos[c] + k = k /\ k \in 1 .. m
        BY <1>1, <3>1 DEF m
      <4>. QED
        BY <2>3, <3>1, <4>1
    <3>2. CASE d # c
      <4>1. d \in c + 1 .. N - 1 /\ d \in 0 .. N - 1
        BY <1>1, <3>2
      <4>2. /\ pos[c + 1] <= pos[d] /\ pos[d] + th[d] <= pos[N] /\ pos[d] \in Nat /\ th[d] \in Nat
            /\ q[pos[d] - pos[c + 1] + k] = it[d]
        BY <1>2, <1>5, <4>1
      <4> DEFINE j == pos[d] - pos[c + 1] + k
      <4>3. j \in 1 .. l /\ pos[d] - pos[c] + k = m + j
        <5>1. /\ pos[d] \in Nat /\ pos[c] \in Nat /\ pos[c + 1] \in Nat /\ pos[N] \in Nat /\ th[d] \in Nat
              /\ pos[c + 1] <= pos[d] /\ pos[d] + th[d] <= pos[N] /\ k \in Nat /\ 1 <= k /\ k <= th[d]
          BY <1>1, <4>2
        <5>2. l \in Nat /\ l = pos[N] - pos[c + 1]
          BY <1>4
        <5>3. j \in Nat /\ 1 <= j /\ j <= l
          BY <5>1, <5>2
        <5>4. pos[d] - pos[c] + k = m + j
          BY <2>m, <5>1
        <5>. QED
          BY <5>2, <5>3, <5>4
      <4> HIDE DEF j
      <4>4. q[j] = it[d]
        BY <4>2 DEF j
      <4>. QED
        BY <2>3, <4>3, <4>4
    <3>. QED
      BY <3>1, <3>2
  <2>5. Len(g[c]) = pos[N] - pos[c]
    <3>1. pos[N] \in Int /\ pos[c] \in Int /\ pos[c + 1] \in Int
      BY <1>1
    <3>2. l = pos[N] - pos[c + 1] /\ pos[c + 1] = pos[c] + m
      BY <1>4, <2>m
    <3>3. l + m = pos[N] - pos[c]
      BY <2>m, <3>1, <3>2
    <3>. QED
      BY <2>m, <2>3, <3>1, <3>2
  <2>. QED
    BY <1>6, <2>3, <2>4, <2>5 DEF Tiled
<1>. QED
    BY <1>7, <1>8

\* The list is laid out like that.
LEMMA Layout ==
    ASSUME NEW V, NEW pos, NEW th, NEW it, NEW N, Blocks(V, pos, th, it, N),
           NEW g, Chain(g, th, it, N, N)
    PROVE  Tiled(g[0], V, pos, th, it, N, 0)
<1> DEFINE L(c) == Tiled(g[c], V, pos, th, it, N, c)
           T == {k \in Nat : k <= N => L(N - k)}
<1>1. N \in Nat /\ pos[N] \in Nat
    BY DEF Blocks
<1>2. 0 \in T
  <2>1. g[N] = <<>>
    BY <1>1 DEF Chain, Rest
  <2>2. g[N] \in Seq(V) /\ Len(g[N]) = pos[N] - pos[N]
    BY <1>1, <2>1
  <2>3. N .. N - 1 = {} /\ N - 0 = N
    BY <1>1
  <2>4. Tiled(g[N], V, pos, th, it, N, N)
    BY <2>2, <2>3 DEF Tiled
  <2>. QED
    BY <2>3, <2>4
<1>3. ASSUME NEW k \in Nat, k \in T PROVE k + 1 \in T
  <2>. SUFFICES ASSUME k + 1 <= N PROVE L(N - (k + 1))
    OBVIOUS
  <2> DEFINE c == N - (k + 1)
  <2>1. c \in 0 .. N - 1 /\ N - k = c + 1 /\ k <= N
    BY <1>1
  <2>2. L(N - k)
    BY <1>3, <2>1
  <2> HIDE DEF c
  <2>3. L(c + 1)
    BY <2>1, <2>2
  <2>4. L(c)
    BY <2>1, <2>3, OneBlock
  <2>. QED
    BY <2>4 DEF c
<1> HIDE DEF T
<1>4. N \in T
    BY <1>1, <1>2, <1>3, NatSetInduction
<1>5. N - N = 0 /\ N <= N
    BY <1>1
<1>. QED
    BY <1>4, <1>5 DEF T

-----------------------------------------------------------------------------
(* distributeWork().                                                       *)

SmtItems  == [c \in 0 .. smt_count - 1 |-> ItemOf(SmtIds(c), smtThreads(c), smtWeight(c))]
CoreItems == [c \in 0 .. core_count - 1 |-> ItemOf(CoreIds(c), coreThreads(c), 10)]

SmtCounts  == [c \in 0 .. smt_count - 1 |-> smtThreads(c)]
CoreCounts == [c \in 0 .. core_count - 1 |-> coreThreads(c)]

\* The pieces of the cores with hyperthreads.
LEMMA SmtChain ==
    ASSUME NEW S \in Nat, smt_count = S
    PROVE  Chain(SmtPieces, SmtCounts, SmtItems, S, S)
<1> DEFINE B(g, c) == IF c = smt_count \/ smtThreads(c) = 0 THEN <<>>
                      ELSE LET cpu == topology.smt[c + 1]
                           IN  Pieces({cpu.id, cpu.sibling}, smtThreads(c), smtWeight(c)) \o g[c + 1]
           F(g) == [c \in 0 .. smt_count |-> B(g, c)]
<1>1. ASSUME NEW g, NEW c \in 0 .. S PROVE B(g, c) = Rest(g, SmtCounts, SmtItems, S, c)
  <2>1. CASE c = S
    BY <2>1 DEF Rest
  <2>2. CASE c # S
    <3>1. c \in 0 .. smt_count - 1
      BY <2>2
    <3>2. SmtCounts[c] = smtThreads(c) /\ SmtItems[c] = ItemOf(SmtIds(c), smtThreads(c), smtWeight(c))
      BY <3>1 DEF SmtCounts, SmtItems
    <3>3. Pieces(SmtIds(c), smtThreads(c), smtWeight(c)) =
              [x \in 1 .. SmtCounts[c] |-> SmtItems[c]]
      BY <3>2, Zenon DEF Pieces, ItemOf
    <3>4. B(g, c) = IF smtThreads(c) = 0 THEN <<>>
                    ELSE Pieces(SmtIds(c), smtThreads(c), smtWeight(c)) \o g[c + 1]
      BY <2>2, Zenon DEF SmtIds
    <3>. QED
      BY <2>2, <3>2, <3>3, <3>4, Zenon DEF Rest
  <2>. QED
    BY <2>1, <2>2
<1> HIDE DEF B
<1>2. ASSUME NEW g PROVE F(g) = [c \in (S - S) .. S |-> Rest(g, SmtCounts, SmtItems, S, c)]
    BY <1>1
<1>3. PICK g : Chain(g, SmtCounts, SmtItems, S, S)
    BY Chained
<1>4. g = F(g)
    BY <1>2, <1>3 DEF Chain
<1>5. SmtPieces = F(SmtPieces)
    BY <1>4 DEF SmtPieces, B
<1>. QED
    BY <1>2, <1>5 DEF Chain

\* The pieces of the other cores.
LEMMA CoreChain ==
    ASSUME NEW C \in Nat, core_count = C
    PROVE  Chain(CorePieces, CoreCounts, CoreItems, C, C)
<1> DEFINE B(g, c) == IF c = core_count \/ coreThreads(c) = 0 THEN <<>>
                      ELSE Pieces({topology.cpus[c + 1]}, coreThreads(c), 10) \o g[c + 1]
           F(g) == [c \in 0 .. core_count |-> B(g, c)]
<1>1. ASSUME NEW g, NEW c \in 0 .. C PROVE B(g, c) = Rest(g, CoreCounts, CoreItems, C, c)
  <2>1. CASE c = C
    BY <2>1 DEF Rest
  <2>2. CASE c # C
    <3>1. c \in 0 .. core_count - 1
      BY <2>2
    <3>2. CoreCounts[c] = coreThreads(c) /\ CoreItems[c] = ItemOf(CoreIds(c), coreThreads(c), 10)
      BY <3>1 DEF CoreCounts, CoreItems
    <3>3. Pieces(CoreIds(c), coreThreads(c), 10) = [x \in 1 .. CoreCounts[c] |-> CoreItems[c]]
      BY <3>2, Zenon DEF Pieces, ItemOf
    <3>4. B(g, c) = IF coreThreads(c) = 0 THEN <<>>
                    ELSE Pieces(CoreIds(c), coreThreads(c), 10) \o g[c + 1]
      BY <2>2, Zenon DEF CoreIds
    <3>. QED
      BY <2>2, <3>2, <3>3, <3>4, Zenon DEF Rest
  <2>. QED
    BY <2>1, <2>2
<1> HIDE DEF B
<1>2. ASSUME NEW g PROVE F(g) = [c \in (C - C) .. C |-> Rest(g, CoreCounts, CoreItems, C, c)]
    BY <1>1
<1>3. PICK g : Chain(g, CoreCounts, CoreItems, C, C)
    BY Chained
<1>4. g = F(g)
    BY <1>2, <1>3 DEF Chain
<1>5. CorePieces = F(CorePieces)
    BY <1>4 DEF CorePieces, B
<1>. QED
    BY <1>2, <1>5 DEF Chain

\* The blocks of the cores with hyperthreads in the list of their pieces.
LEMMA SmtBlocks ==
    ASSUME NEW S, NEW C, Counts(S, C), NEW pos, Placed(S, C, pos),
           NEW V, NEW p, p = [c \in 0 .. S |-> pos[c]],
           \A c \in 0 .. S - 1 : SmtItems[c] \in V
    PROVE  Blocks(V, p, SmtCounts, SmtItems, S)
<1>1. S \in Nat /\ C \in Nat /\ smt_count = S
    BY DEF Counts
<1>2. /\ pos \in [0 .. S + C -> Nat]
      /\ \A e \in 0 .. S + C - 1 : ThreadsOf(e) \in Nat /\ pos[e + 1] = pos[e] + ThreadsOf(e)
    BY DEF Placed
<1>3. ASSUME NEW c \in 0 .. S - 1
      PROVE  SmtCounts[c] = smtThreads(c) /\ smtThreads(c) = ThreadsOf(c) /\ SmtItems[c] \in V
    BY <1>1, EntryThreads DEF SmtCounts
<1>4. p \in [0 .. S -> Nat]
    BY <1>1, <1>2
<1>5. SmtCounts \in [0 .. S - 1 -> Nat]
  <2>1. \A c \in 0 .. S - 1 : smtThreads(c) \in Nat
    BY Activity
  <2>. QED
    BY <1>1, <2>1 DEF SmtCounts
<1>6. SmtItems \in [0 .. S - 1 -> V]
    BY <1>1, <1>3 DEF SmtItems
<1>7. ASSUME NEW c \in 0 .. S - 1 PROVE p[c + 1] = p[c] + SmtCounts[c]
  <2>1. c \in 0 .. S /\ c + 1 \in 0 .. S /\ c \in 0 .. S + C - 1
    BY <1>1
  <2>. QED
    BY <1>2, <1>3, <2>1
<1>8. ASSUME NEW c \in 0 .. S - 1, c + 1 < S, SmtCounts[c] = 0 PROVE SmtCounts[c + 1] = 0
  <2>1. c + 1 \in 0 .. S - 1
    BY <1>1, <1>8
  <2>2. smtThreads(c) = 0 /\ SmtCounts[c + 1] = smtThreads(c + 1)
    BY <1>3, <1>8, <2>1
  <2>3. active.smt \in 0 .. S /\ active.smt <= c
    BY <2>2, Activity
  <2>4. active.smt <= c + 1
    BY <1>1, <2>3
  <2>. QED
    BY <2>1, <2>2, <2>4, Activity
<1>. QED
    BY <1>1, <1>4, <1>5, <1>6, <1>7, <1>8 DEF Blocks

\* The same of the cores without.
LEMMA CoreBlocks ==
    ASSUME NEW S, NEW C, Counts(S, C), NEW pos, Placed(S, C, pos),
           NEW V, NEW p, p = [d \in 0 .. C |-> pos[S + d]],
           \A d \in 0 .. C - 1 : CoreItems[d] \in V
    PROVE  Blocks(V, p, CoreCounts, CoreItems, C)
<1>1. S \in Nat /\ C \in Nat /\ smt_count = S /\ core_count = C
    BY DEF Counts
<1>2. /\ pos \in [0 .. S + C -> Nat]
      /\ \A e \in 0 .. S + C - 1 : ThreadsOf(e) \in Nat /\ pos[e + 1] = pos[e] + ThreadsOf(e)
    BY DEF Placed
<1>3. ASSUME NEW d \in 0 .. C - 1
      PROVE  CoreCounts[d] = coreThreads(d) /\ coreThreads(d) = ThreadsOf(S + d) /\ CoreItems[d] \in V
  <2>1. ~(S + d < smt_count) /\ S + d - smt_count = d
    BY <1>1
  <2>2. ThreadsOf(S + d) = coreThreads(S + d - smt_count)
    BY <1>1, <2>1, EntryThreads
  <2>3. coreThreads(S + d - smt_count) = coreThreads(d)
    BY <2>1, Zenon
  <2>. QED
    BY <1>1, <2>2, <2>3 DEF CoreCounts
<1>4. p \in [0 .. C -> Nat]
  <2>1. \A d \in 0 .. C : S + d \in 0 .. S + C
    BY <1>1
  <2>. QED
    BY <1>2, <2>1
<1>5. CoreCounts \in [0 .. C - 1 -> Nat]
  <2>1. \A d \in 0 .. C - 1 : coreThreads(d) \in Nat
    BY Activity
  <2>. QED
    BY <1>1, <2>1 DEF CoreCounts
<1>6. CoreItems \in [0 .. C - 1 -> V]
    BY <1>1, <1>3 DEF CoreItems
<1>7. ASSUME NEW d \in 0 .. C - 1 PROVE p[d + 1] = p[d] + CoreCounts[d]
  <2>1. d \in 0 .. C /\ d + 1 \in 0 .. C /\ S + d \in 0 .. S + C - 1 /\ S + (d + 1) = (S + d) + 1
    BY <1>1
  <2>2. p[d] = pos[S + d] /\ p[d + 1] = pos[(S + d) + 1]
    BY <2>1
  <2>. QED
    BY <1>2, <1>3, <2>1, <2>2
<1>8. ASSUME NEW d \in 0 .. C - 1, d + 1 < C, CoreCounts[d] = 0 PROVE CoreCounts[d + 1] = 0
  <2>1. d + 1 \in 0 .. C - 1
    BY <1>1, <1>8
  <2>2. coreThreads(d) = 0 /\ CoreCounts[d + 1] = coreThreads(d + 1)
    BY <1>3, <1>8, <2>1
  <2>3. active.cores \in 0 .. C /\ active.cores <= d
    BY <2>2, Activity
  <2>4. active.cores <= d + 1
    BY <1>1, <2>3
  <2>. QED
    BY <2>1, <2>2, <2>4, Activity
<1>. QED
    BY <1>1, <1>4, <1>5, <1>6, <1>7, <1>8 DEF Blocks

\* distributeWork() makes a list with the pieces of every core where they belong.
LEMMA Distribution ==
    ASSUME NEW S, NEW C, Counts(S, C), NEW pos, Placed(S, C, pos)
    PROVE  Listed(distributeWork, S, C, pos)
<1> DEFINE p1 == [c \in 0 .. S |-> pos[c]]
           p2 == [d \in 0 .. C |-> pos[S + d]]
           V  == {SmtItems[c] : c \in 0 .. S - 1} \cup {CoreItems[d] : d \in 0 .. C - 1}
           q1 == SmtPieces[0]
           q2 == CorePieces[0]
           l1 == Len(q1)
           l2 == Len(q2)
<1>1. S \in Nat /\ C \in Nat /\ smt_count = S /\ core_count = C /\ n_threads \in Nat
    BY DEF Counts
<1>2. /\ pos \in [0 .. S + C -> Nat] /\ pos[0] = 0 /\ pos[S + C] = n_threads
      /\ \A e \in 0 .. S + C - 1 : ThreadsOf(e) \in Nat
    BY DEF Placed
<1>3. (\A c \in 0 .. S - 1 : SmtItems[c] \in V) /\ (\A d \in 0 .. C - 1 : CoreItems[d] \in V)
    OBVIOUS
<1>4. /\ \A c \in 0 .. S : p1[c] = pos[c]
      /\ \A d \in 0 .. C : p2[d] = pos[S + d]
    OBVIOUS
<1>5. Tiled(q1, V, p1, SmtCounts, SmtItems, S, 0)
  <2>1. Blocks(V, p1, SmtCounts, SmtItems, S)
    BY <1>3, SmtBlocks
  <2>2. Chain(SmtPieces, SmtCounts, SmtItems, S, S)
    BY <1>1, SmtChain
  <2> HIDE DEF p1, V
  <2>. QED
    BY <2>1, <2>2, Layout
<1>6. Tiled(q2, V, p2, CoreCounts, CoreItems, C, 0)
  <2>1. Blocks(V, p2, CoreCounts, CoreItems, C)
    BY <1>3, CoreBlocks
  <2>2. Chain(CorePieces, CoreCounts, CoreItems, C, C)
    BY <1>1, CoreChain
  <2> HIDE DEF p2, V
  <2>. QED
    BY <2>1, <2>2, Layout
<1> HIDE DEF p1, p2, V, q1, q2
<1>7. 0 \in 0 .. S /\ S \in 0 .. S /\ 0 \in 0 .. C /\ C \in 0 .. C /\ S \in 0 .. S + C /\ S + 0 = S
    BY <1>1
<1>8. pos[S] \in Nat /\ p1[S] = pos[S] /\ p1[0] = 0 /\ p2[0] = pos[S] /\ p2[C] = n_threads
    BY <1>2, <1>4, <1>7
<1>9. q1 \in Seq(V) /\ l1 = pos[S] /\ q2 \in Seq(V) /\ l2 = n_threads - pos[S] /\ l2 \in Nat
    BY <1>1, <1>5, <1>6, <1>8 DEF Tiled
<1> DEFINE q == q1 \o q2
<1>10. distributeWork = q
    BY DEF distributeWork, q1, q2
<1>11. Joined(q, q1, q2, V)
    BY <1>9, ConcatIs
<1> HIDE DEF l1, l2, q
<1>12. /\ q \in Seq(V) /\ Len(q) = l1 + l2
       /\ \A k \in 1 .. l1 : q[k] = q1[k]
       /\ \A k \in 1 .. l2 : q[l1 + k] = q2[k]
    BY <1>11 DEF Joined, l1, l2
<1>13. Len(q) = n_threads /\ DOMAIN q = 1 .. n_threads
    BY <1>1, <1>8, <1>9, <1>12
<1>14. ASSUME NEW e \in 0 .. S + C - 1, NEW k \in 1 .. ThreadsOf(e)
       PROVE  pos[e] + k \in 1 .. n_threads /\ q[pos[e] + k] = PieceOf(e)
  <2>1. ThreadsOf(e) \in Nat /\ pos[e] \in Nat /\ k \in Nat /\ 1 <= k /\ k <= ThreadsOf(e)
    <3>1. e \in 0 .. S + C
      BY <1>1
    <3>. QED
      BY <1>2, <3>1
  <2>2. CASE e < S
    <3>1. e \in 0 .. S - 1 /\ e \in 0 .. S /\ e < smt_count
      BY <1>1, <2>2
    <3>2. ThreadsOf(e) = smtThreads(e) /\ WeightOf(e) = smtWeight(e) /\ IdsOf(e) = SmtIds(e)
      BY <3>1, EntryThreads DEF WeightOf, IdsOf
    <3>3. SmtCounts[e] = ThreadsOf(e) /\ SmtItems[e] = PieceOf(e)
      BY <1>1, <3>1, <3>2 DEF SmtCounts, SmtItems, PieceOf
    <3>4. p1[e] = pos[e] /\ p1[e] - p1[0] + k = pos[e] + k
      BY <1>4, <1>8, <2>1, <3>1
    <3>5. p1[e] + SmtCounts[e] <= p1[S] /\ q1[p1[e] - p1[0] + k] = SmtItems[e]
      BY <1>5, <3>1, <3>3 DEF Tiled
    <3>6. pos[e] + k \in 1 .. l1
      BY <1>8, <1>9, <2>1, <3>3, <3>4, <3>5
    <3>7. q[pos[e] + k] = PieceOf(e)
      BY <1>12, <3>3, <3>4, <3>5, <3>6
    <3>8. l1 \in Nat /\ l1 <= n_threads
      BY <1>1, <1>8, <1>9
    <3>9. pos[e] + k \in 1 .. n_threads
      BY <1>1, <2>1, <3>6, <3>8
    <3>. QED
      BY <3>7, <3>9
  <2>3. CASE ~(e < S)
    <3> DEFINE d == e - S
               j == pos[e] - pos[S] + k
    <3>1. d \in 0 .. C - 1 /\ d \in 0 .. C /\ e = S + d /\ ~(e < smt_count) /\ e - smt_count = d
      BY <1>1, <2>3
    <3> HIDE DEF d
    <3>2. /\ ThreadsOf(e) = coreThreads(d) /\ WeightOf(e) = 10 /\ IdsOf(e) = CoreIds(d)
      BY <3>1, EntryThreads DEF WeightOf, IdsOf
    <3>3. CoreCounts[d] = ThreadsOf(e) /\ CoreItems[d] = PieceOf(e)
      BY <1>1, <3>1, <3>2 DEF CoreCounts, CoreItems, PieceOf
    <3>4. p2[d] = pos[e] /\ p2[0] = pos[S]
      BY <1>4, <1>8, <3>1
    <3>5. /\ p2[0] <= p2[d] /\ p2[d] + CoreCounts[d] <= p2[C]
          /\ q2[p2[d] - p2[0] + k] = CoreItems[d]
      BY <1>6, <3>1, <3>3 DEF Tiled
    <3>6. pos[S] <= pos[e] /\ pos[e] + ThreadsOf(e) <= n_threads /\ q2[j] = PieceOf(e)
      BY <1>8, <3>3, <3>4, <3>5
    <3>7. j \in 1 .. l2 /\ pos[e] + k = l1 + j
      <4>1. /\ pos[S] <= pos[e] /\ pos[e] + ThreadsOf(e) <= n_threads
            /\ pos[S] \in Nat /\ pos[e] \in Nat /\ ThreadsOf(e) \in Nat /\ n_threads \in Nat
            /\ k \in Nat /\ 1 <= k /\ k <= ThreadsOf(e)
        BY <1>1, <1>8, <2>1, <3>6
      <4>2. l1 = pos[S] /\ l2 = n_threads - pos[S]
        BY <1>9
      <4>3. j \in Nat /\ 1 <= j /\ j <= l2 /\ l2 \in Nat
        BY <4>1, <4>2
      <4>4. pos[e] + k = l1 + j
        BY <4>1, <4>2
      <4>. QED
        BY <4>3, <4>4
    <3> HIDE DEF j
    <3>8. q[l1 + j] = q2[j]
      BY <1>12, <3>7
    <3>. QED
      BY <1>1, <2>1, <3>6, <3>7, <3>8
  <2>. QED
    BY <2>2, <2>3
<1>. QED
    BY <1>10, <1>13, <1>14 DEF Listed

-----------------------------------------------------------------------------
(* The topology.                                                           *)

\* A set of natural numbers that is not empty has a minimum.
LEMMA MinOfSet ==
    ASSUME NEW T \in SUBSET Nat, T # {}
    PROVE  Min(T) \in T /\ \A b \in T : Min(T) <= b
<1> DEFINE R == OpToRel(<, Nat)
<1>1. IsWellFoundedOn(R, Nat)
    BY NatLessThanWellFounded
<1>2. \A x, y \in Nat : x < y => <<x, y>> \in R
    BY DEF OpToRel
<1> HIDE DEF R
<1>3. PICK x \in T : \A y \in T : ~(<<y, x>> \in R)
    BY <1>1, WFMin
<1>4. ASSUME NEW y \in T PROVE x <= y
  <2>1. x \in Nat /\ y \in Nat /\ ~(y < x)
    BY <1>2, <1>3
  <2>. QED
    BY <2>1
<1>. QED
    BY <1>4 DEF Min

\* One with a bound has a maximum.
LEMMA MaxOfSet ==
    ASSUME NEW N \in Nat, NEW T \in SUBSET (0 .. N), T # {}
    PROVE  Max(T) \in T /\ \A b \in T : b <= Max(T)
<1> DEFINE U == {N - b : b \in T}
<1>1. U \in SUBSET Nat /\ U # {}
  <2>1. \A b \in T : N - b \in Nat
    OBVIOUS
  <2>2. PICK b \in T : TRUE
    OBVIOUS
  <2>3. N - b \in U
    OBVIOUS
  <2>. QED
    BY <2>1, <2>3
<1>2. Min(U) \in U /\ \A b \in U : Min(U) <= b
    BY <1>1, MinOfSet
<1>3. PICK a \in T : Min(U) = N - a
    BY <1>2
<1>4. ASSUME NEW b \in T PROVE a >= b
  <2>1. N - a <= N - b
    BY <1>2, <1>3
  <2>. QED
    BY <2>1
<1>5. \A b \in T : Max(T) >= b /\ Max(T) \in T
    BY <1>4 DEF Max
<1>. QED
    BY <1>5

\* How many of the ids are up to id.
Rank(ids, id) == Cardinality({b \in ids : b <= id})

\* Ranks count from 1 and tell the ids apart.
LEMMA Ranks ==
    ASSUME NEW ids \in SUBSET Nat, IsFiniteSet(ids)
    PROVE  /\ \A id \in ids : Rank(ids, id) \in 1 .. Cardinality(ids)
           /\ \A a, b \in ids : Rank(ids, a) = Rank(ids, b) => a = b
<1> DEFINE B(id) == {b \in ids : b <= id}
<1>1. ASSUME NEW id \in ids
      PROVE  /\ IsFiniteSet(B(id)) /\ Rank(ids, id) = Cardinality(B(id))
             /\ Rank(ids, id) \in 1 .. Cardinality(ids)
  <2>1. B(id) \in SUBSET ids /\ id \in B(id)
    OBVIOUS
  <2>2. IsFiniteSet(B(id)) /\ Cardinality(B(id)) <= Cardinality(ids)
    BY <2>1, FS_Subset
  <2>3. Cardinality(B(id)) \in Nat /\ Cardinality(ids) \in Nat /\ Cardinality(B(id)) # 0
    BY <2>1, <2>2, FS_CardinalityType, FS_EmptySet
  <2>. QED
    BY <2>2, <2>3 DEF Rank
<1>2. ASSUME NEW a \in ids, NEW b \in ids, a < b PROVE Rank(ids, a) # Rank(ids, b)
  <2>1. B(a) \in SUBSET B(b) /\ b \in B(b) /\ b \notin B(a)
    <3>1. a \in Nat /\ b \in Nat /\ ~(b <= a) /\ b <= b
      BY <1>2
    <3>2. \A x \in ids : x <= a => x <= b
      BY <1>2, <3>1
    <3>. QED
      BY <3>1, <3>2
  <2>2. Cardinality(B(b)) # Cardinality(B(a))
    BY <1>1, <2>1, FS_Subset
  <2>. QED
    BY <1>1, <2>2
<1>3. ASSUME NEW a \in ids, NEW b \in ids, Rank(ids, a) = Rank(ids, b) PROVE a = b
  <2>1. a \in Nat /\ b \in Nat /\ ~(a < b) /\ ~(b < a)
    BY <1>2, <1>3
  <2>. QED
    BY <2>1
<1>. QED
    BY <1>1, <1>3

\* A sequence that has each of the ids once.
Enumerates(q, ids) ==
    /\ Cardinality(ids) \in Nat /\ q \in [1 .. Cardinality(ids) -> ids]
    /\ \A x, y \in 1 .. Cardinality(ids) : q[x] = q[y] => x = y
    /\ \A id \in ids : \E x \in 1 .. Cardinality(ids) : q[x] = id

\* InOrder() does.
LEMMA Ordered ==
    ASSUME NEW ids \in SUBSET Nat, IsFiniteSet(ids)
    PROVE  Enumerates(InOrder(ids), ids)
<1> DEFINE M == Cardinality(ids)
           f == [id \in ids |-> Rank(ids, id)]
           q == [x \in 1 .. M |-> CHOOSE id \in ids : Rank(ids, id) = x]
<1>1. M \in Nat
    BY FS_CardinalityType
<1>2. f \in Injection(ids, 1 .. M)
    BY Ranks DEF Injection, IsInjective
<1>3. f \in Surjection(ids, 1 .. M)
  <2>1. IsFiniteSet(1 .. M) /\ Cardinality(1 .. M) = M
    <3>1. Cardinality(1 .. M) = IF 1 > M THEN 0 ELSE M - 1 + 1
      BY <1>1, FS_Interval
    <3>. QED
      BY <1>1, <3>1, FS_Interval
  <2>. QED
    BY <1>2, <2>1, FS_Injection
<1>4. \A x \in 1 .. M : \E id \in ids : Rank(ids, id) = x
    BY <1>3 DEF Surjection
<1>5. \A x \in 1 .. M : q[x] \in ids /\ Rank(ids, q[x]) = x
    BY <1>4
<1>6. InOrder(ids) = q
    BY DEF InOrder, Rank
<1>7. q \in [1 .. M -> ids]
    BY <1>5
<1> HIDE DEF q
<1>8. \A x, y \in 1 .. M : q[x] = q[y] => x = y
    BY <1>5
<1>9. ASSUME NEW id \in ids PROVE \E x \in 1 .. M : q[x] = id
  <2>1. Rank(ids, id) \in 1 .. M
    BY Ranks
  <2>2. Rank(ids, q[Rank(ids, id)]) = Rank(ids, id) /\ q[Rank(ids, id)] \in ids
    BY <1>5, <2>1
  <2>3. q[Rank(ids, id)] = id
    <3>1. \A a, b \in ids : Rank(ids, a) = Rank(ids, b) => a = b
      BY Ranks
    <3>. QED
      BY <2>2, <3>1, Zenon
  <2>. QED
    BY <2>1, <2>3
<1>. QED
    BY <1>1, <1>6, <1>7, <1>8, <1>9 DEF Enumerates

\* CPUs are numbered from 0, a core by the first of its CPUs.
Numbered(X) ==
    /\ X \in Nat \ {0} /\ Cpus = 0 .. X - 1 /\ 2 * X < Wrap /\ Wrap \in Nat
    /\ machine \in [Cpus -> Cpus]
    /\ \A id \in Cpus : machine[id] <= id /\ machine[machine[id]] = machine[id]

\* So are those of every machine.
LEMMA MachineIs ==
    ASSUME Inputs
    PROVE  \E X : Numbered(X)
<1> DEFINE X == Cardinality(DOMAIN machine)
<1>1. /\ X \in Nat \ {0} /\ 2 * X < Wrap /\ machine \in [0 .. X - 1 -> 0 .. X - 1]
      /\ \A id \in DOMAIN machine : machine[id] <= id /\ machine[machine[id]] = machine[id]
    BY ConstAssumption DEF Inputs
<1>2. Cpus = DOMAIN machine /\ Wrap \in Nat
    BY ConstAssumption DEF Cpus
<1> HIDE DEF X
<1>3. Cpus = 0 .. X - 1
    BY <1>1, <1>2
<1>. QED
    BY <1>1, <1>2, <1>3 DEF Numbered

\* A core and its first CPU.
LEMMA CoreIs ==
    ASSUME NEW X, Numbered(X), NEW id \in Cpus
    PROVE  /\ Core(id) \in SUBSET Cpus /\ id \in Core(id) /\ machine[id] \in Core(id)
           /\ Min(Core(id)) = machine[id] /\ IsFiniteSet(Core(id))
<1>1. /\ X \in Nat /\ Cpus = 0 .. X - 1 /\ machine[id] \in Cpus
      /\ machine[machine[id]] = machine[id]
    BY DEF Numbered
<1>2. Core(id) \in SUBSET Cpus /\ id \in Core(id) /\ machine[id] \in Core(id)
    BY <1>1 DEF Core
<1>3. \A b \in Core(id) : machine[id] <= b
    BY DEF Core, Numbered
<1>4. Core(id) \in SUBSET Int
    BY <1>1, <1>2
<1>5. IsFiniteSet(Core(id))
  <2>1. IsFiniteSet(0 .. X - 1)
    BY <1>1, FS_Interval
  <2>. QED
    BY <1>1, <1>2, <2>1, FS_Subset
<1>. QED
    BY <1>2, <1>3, <1>4, <1>5, MinIs

\* The second number of thread_siblings_list is another CPU of the core, or none at
\* all, unless the core has only one CPU.
LEMMA SecondIs ==
    ASSUME NEW X, Numbered(X), NEW id \in Cpus
    PROVE  LET K == Core(id)
               a == machine[id]
           IN  /\ K = {a} => second(K) = a
               /\ K # {a} => second(K) # a /\ (second(K) \in Cpus => second(K) \in K)
               /\ Cardinality(K) = 2 /\ a + 1 \notin K => K = {a, second(K)}
<1> DEFINE K == Core(id)
           a == machine[id]
           T == {b \in K : a .. b \subseteq K}
           run == Max(T)
<1>1. X \in Nat \ {0} /\ Cpus = 0 .. X - 1 /\ 2 * X < Wrap /\ Wrap \in Nat
    BY DEF Numbered
<1>2. K \in SUBSET Cpus /\ a \in K /\ Min(K) = a /\ IsFiniteSet(K) /\ a \in Nat
    BY <1>1, CoreIs
<1>3. second(K) = IF K = {a} THEN a ELSE IF run > a THEN Wrap - run ELSE Min(K \ {a})
    BY <1>2 DEF second
<1> HIDE DEF K, a
<1>4. run \in K /\ a .. run \subseteq K /\ a <= run /\ run \in 0 .. X - 1
  <2>1. a .. a = {a}
    BY <1>2
  <2>2. a \in T /\ T \in SUBSET (0 .. X - 1) /\ X - 1 \in Nat
    <3>1. a \in K /\ a .. a \subseteq K
      BY <1>2, <2>1
    <3>2. K \in SUBSET (0 .. X - 1)
      BY <1>1, <1>2
    <3>3. a \in T
      BY <3>1
    <3>4. T \in SUBSET (0 .. X - 1)
      BY <3>2
    <3>. QED
      BY <1>1, <3>3, <3>4
  <2>3. Max(T) \in T /\ \A b \in T : b <= Max(T)
    BY <2>2, MaxOfSet
  <2>. QED
    BY <2>2, <2>3
<1> HIDE DEF run
<1>5. ASSUME K # {a}
      PROVE  /\ second(K) # a /\ (second(K) \in Cpus => second(K) \in K)
             /\ Cardinality(K) = 2 /\ a + 1 \notin K => K = {a, second(K)}
  <2>1. CASE run > a
    <3>1. second(K) = Wrap - run
      BY <1>3, <1>5, <2>1
    <3>2. Wrap - run > X
      BY <1>1, <1>4
    <3>3. a \in 0 .. X - 1 /\ a + 1 \in a .. run
      BY <1>1, <1>2, <1>4, <2>1
    <3>. QED
      BY <1>1, <1>4, <3>1, <3>2, <3>3
  <2>2. CASE ~(run > a)
    <3> DEFINE Q == K \ {a}
    <3>1. Q \in SUBSET Nat /\ Q # {}
      BY <1>1, <1>2, <1>5
    <3>2. Min(Q) \in Q
      BY <3>1, MinOfSet
    <3>3. second(K) = Min(Q)
      BY <1>3, <1>5, <2>2
    <3>4. ASSUME Cardinality(K) = 2 PROVE K = {a, second(K)}
      <4>1. IsFiniteSet(Q) /\ Cardinality(Q) = 1
        BY <1>2, <3>4, FS_RemoveElement
      <4>2. PICK b : Q = {b}
        BY <4>1, FS_Singleton
      <4>. QED
        BY <1>2, <3>2, <3>3, <4>2
    <3>. QED
      BY <3>2, <3>3, <3>4
  <2>. QED
    BY <2>1, <2>2
<1>6. ASSUME K = {a} PROVE Cardinality(K) # 2
  <2>1. Cardinality({a}) = 1
    BY FS_Singleton
  <2>. QED
    BY <1>6, <2>1
<1>7. K = {a} => second(K) = a
    BY <1>3
<1>. QED
    BY <1>5, <1>6, <1>7 DEF K, a

\* The CPUs that stand for a core, and the core they stand for, as far as /sys tells.
Mains     == {id \in Cpus : sysfs => machine[id] = id}
CoreOf(m) == IF sysfs THEN Core(m) ELSE {m}

\* Those with a sibling.
Siblings == {id \in Mains : sysfs /\ Core(id) # {id}}

\* What getSysCPUs() takes to be cores.
LEMMA Kinds ==
    ASSUME NEW X, Numbered(X), sysfs \in BOOLEAN
    PROVE  /\ {id \in Cpus : ~is_smt(id)} = Mains \ Siblings
           /\ {id \in Cpus : is_smt(id) /\ is_main(id)} = Siblings
           /\ \A id \in Siblings : siblings(id).second = second(Core(id))
<1>1. ASSUME NEW id \in Cpus, sysfs
      PROVE  /\ siblings(id).first = machine[id] /\ siblings(id).second = second(Core(id))
             /\ is_smt(id) <=> Core(id) # {machine[id]}
             /\ is_main(id) <=> id = machine[id]
             /\ id \in Core(id)
  <2>1. siblings(id).first = machine[id] /\ siblings(id).second = second(Core(id)) /\ id \in Core(id)
    BY <1>1, CoreIs DEF siblings
  <2>2. is_smt(id) <=> Core(id) # {machine[id]}
    BY <2>1, SecondIs DEF is_smt
  <2>. QED
    BY <2>1, <2>2 DEF is_main
<1>2. ASSUME NEW id \in Cpus, ~sysfs PROVE ~is_smt(id)
    BY <1>2 DEF is_smt, siblings
<1>3. ASSUME NEW id \in Cpus
      PROVE  /\ ~is_smt(id) <=> id \in Mains \ Siblings
             /\ is_smt(id) /\ is_main(id) <=> id \in Siblings
             /\ id \in Siblings => siblings(id).second = second(Core(id))
  <2>1. CASE sysfs
    <3>1. id \in Mains <=> id = machine[id]
      BY <2>1 DEF Mains
    <3>2. id \in Siblings <=> id = machine[id] /\ Core(id) # {id}
      BY <2>1, <3>1 DEF Siblings
    <3>3. ~is_smt(id) => id = machine[id]
      BY <1>1, <2>1
    <3>. QED
      BY <1>1, <2>1, <3>1, <3>2, <3>3
  <2>2. CASE ~sysfs
    BY <1>2, <2>2 DEF Mains, Siblings
  <2>. QED
    BY <2>1, <2>2
<1>4. Mains \in SUBSET Cpus /\ Siblings \in SUBSET Cpus
    BY DEF Mains, Siblings
<1>. QED
    BY <1>3, <1>4

\* The CPU that stands for a core of the topology.
MainOf(e) == IF e < smt_count THEN topology.smt[e + 1].id ELSE topology.cpus[e - smt_count + 1]

\* What a reader of the topology may rely on.
Read(S, C) ==
    /\ Counts(S, C)
    /\ \A e \in 0 .. S + C - 1 :
          /\ MainOf(e) \in Mains /\ (e < S <=> MainOf(e) \in Siblings)
          /\ IdsOf(e) = {MainOf(e)} \cup (IF e < S THEN {second(Core(MainOf(e)))} ELSE {})
    /\ \A e, f \in 0 .. S + C - 1 : MainOf(e) = MainOf(f) => e = f
    /\ \A m \in Mains : \E e \in 0 .. S + C - 1 : MainOf(e) = m

\* What getSysCPUs() returns.
LEMMA TopologyRead ==
    ASSUME Inputs, topology = getSysCPUs
    PROVE  \E S, C : Read(S, C)
<1>1. PICK X : Numbered(X)
    BY MachineIs
<1>2. /\ X \in Nat \ {0} /\ Cpus = 0 .. X - 1 /\ sysfs \in BOOLEAN /\ n \in Nat /\ n_threads \in Nat
      /\ \A id \in Cpus : machine[id] \in Cpus /\ machine[id] <= id
    BY <1>1 DEF Numbered, Inputs
<1> DEFINE P == Mains \ Siblings
           S == Cardinality(Siblings)
           C == Cardinality(P)
           q == InOrder(Siblings)
           r == InOrder(P)
<1>3. Enumerates(q, Siblings) /\ Enumerates(r, P)
  <2>1. Siblings \in SUBSET Cpus /\ P \in SUBSET Cpus
    BY DEF Mains, Siblings
  <2>2. IsFiniteSet(0 .. X - 1) /\ 0 .. X - 1 \in SUBSET Nat
    BY <1>2, FS_Interval
  <2>3. IsFiniteSet(Siblings) /\ IsFiniteSet(P) /\ Siblings \in SUBSET Nat /\ P \in SUBSET Nat
    BY <1>2, <2>1, <2>2, FS_Subset
  <2>. QED
    BY <2>3, Ordered
<1> HIDE DEF P, S, C, q, r
<1>4. /\ S \in Nat /\ q \in [1 .. S -> Siblings]
      /\ \A x, y \in 1 .. S : q[x] = q[y] => x = y
      /\ \A id \in Siblings : \E x \in 1 .. S : q[x] = id
    BY <1>3 DEF Enumerates, S
<1>5. /\ C \in Nat /\ r \in [1 .. C -> P]
      /\ \A x, y \in 1 .. C : r[x] = r[y] => x = y
      /\ \A id \in P : \E x \in 1 .. C : r[x] = id
    BY <1>3 DEF Enumerates, C
<1>6. /\ topology.cpus = r
      /\ topology.smt = [x \in DOMAIN q |-> [id |-> q[x], sibling |-> siblings(q[x]).second]]
  <2>1. {id \in Cpus : ~is_smt(id)} = P /\ {id \in Cpus : is_smt(id) /\ is_main(id)} = Siblings
    BY <1>1, <1>2, Kinds DEF P
  <2>. QED
    BY <2>1, Zenon DEF getSysCPUs, q, r
<1>7. /\ smt_count = S /\ core_count = C
      /\ \A x \in 1 .. S : topology.smt[x] = [id |-> q[x], sibling |-> siblings(q[x]).second]
  <2>1. DOMAIN q = 1 .. S /\ DOMAIN r = 1 .. C
    BY <1>4, <1>5
  <2>2. Len(r) = C
    BY <1>5
  <2>3. Len(topology.smt) = S
    BY <1>4, <1>6, <2>1
  <2>. QED
    BY <1>6, <2>1, <2>2, <2>3 DEF smt_count, core_count
<1>8. \A e \in 0 .. S - 1 :
          /\ MainOf(e) = q[e + 1] /\ e + 1 \in 1 .. S
          /\ IdsOf(e) = {q[e + 1], second(Core(q[e + 1]))}
  <2>1. ASSUME NEW e \in 0 .. S - 1
        PROVE  /\ MainOf(e) = q[e + 1] /\ e + 1 \in 1 .. S
               /\ IdsOf(e) = {q[e + 1], second(Core(q[e + 1]))}
    <3>1. e + 1 \in 1 .. S /\ e < smt_count
      BY <1>4, <1>7
    <3>2. q[e + 1] \in Siblings
      BY <1>4, <3>1
    <3>3. siblings(q[e + 1]).second = second(Core(q[e + 1]))
      BY <1>1, <1>2, <3>2, Kinds
    <3>4. topology.smt[e + 1].id = q[e + 1] /\ topology.smt[e + 1].sibling = second(Core(q[e + 1]))
      <4>1. topology.smt[e + 1] = [id |-> q[e + 1], sibling |-> siblings(q[e + 1]).second]
        BY <1>7, <3>1, Zenon
      <4>. QED
        BY <3>3, <4>1
    <3>. QED
      BY <3>1, <3>4 DEF MainOf, IdsOf, SmtIds
  <2>. QED
    BY <2>1
<1>9. \A e \in S .. S + C - 1 :
          /\ MainOf(e) = r[e - S + 1] /\ e - S + 1 \in 1 .. C
          /\ IdsOf(e) = {r[e - S + 1]}
  <2>1. ASSUME NEW e \in S .. S + C - 1
        PROVE  /\ MainOf(e) = r[e - S + 1] /\ e - S + 1 \in 1 .. C
               /\ IdsOf(e) = {r[e - S + 1]}
    <3>1. e - S + 1 \in 1 .. C /\ ~(e < smt_count) /\ e - smt_count = e - S
      BY <1>4, <1>5, <1>7
    <3>. QED
      BY <1>6, <3>1 DEF MainOf, IdsOf, CoreIds
  <2>. QED
    BY <2>1
<1>10. Siblings \in SUBSET Mains /\ P \in SUBSET Mains /\ P \cup Siblings = Mains /\ P \cap Siblings = {}
    BY DEF Siblings, P
<1>11. ASSUME NEW e \in 0 .. S + C - 1
       PROVE  /\ MainOf(e) \in Mains /\ (e < S <=> MainOf(e) \in Siblings)
              /\ IdsOf(e) = {MainOf(e)} \cup (IF e < S THEN {second(Core(MainOf(e)))} ELSE {})
  <2>1. CASE e < S
    <3>1. e \in 0 .. S - 1
      BY <1>4, <1>5, <2>1
    <3>2. q[e + 1] \in Siblings
      BY <1>4, <1>8, <3>1
    <3>. QED
      BY <1>8, <1>10, <2>1, <3>1, <3>2
  <2>2. CASE ~(e < S)
    <3>1. e \in S .. S + C - 1
      BY <1>4, <1>5, <2>2
    <3>2. r[e - S + 1] \in P
      BY <1>5, <1>9, <3>1
    <3>. QED
      BY <1>9, <1>10, <2>2, <3>1, <3>2
  <2>. QED
    BY <2>1, <2>2
<1>12. ASSUME NEW e \in 0 .. S + C - 1, NEW f \in 0 .. S + C - 1, MainOf(e) = MainOf(f) PROVE e = f
  <2>1. e < S <=> f < S
    BY <1>11, <1>12
  <2>2. CASE e < S
    <3>1. e \in 0 .. S - 1 /\ f \in 0 .. S - 1
      BY <1>4, <1>5, <2>1, <2>2
    <3>2. e + 1 = f + 1
      BY <1>4, <1>8, <1>12, <3>1
    <3>. QED
      BY <3>1, <3>2
  <2>3. CASE ~(e < S)
    <3>1. e \in S .. S + C - 1 /\ f \in S .. S + C - 1
      BY <1>4, <1>5, <2>1, <2>3
    <3>2. e - S + 1 = f - S + 1
      BY <1>5, <1>9, <1>12, <3>1
    <3>. QED
      BY <1>4, <3>1, <3>2
  <2>. QED
    BY <2>2, <2>3
<1>13. ASSUME NEW m \in Mains PROVE \E e \in 0 .. S + C - 1 : MainOf(e) = m
  <2>1. CASE m \in Siblings
    <3>1. PICK x \in 1 .. S : q[x] = m
      BY <1>4, <2>1
    <3>2. x - 1 \in 0 .. S - 1 /\ x - 1 \in 0 .. S + C - 1 /\ (x - 1) + 1 = x
      BY <1>4, <1>5
    <3>. QED
      BY <1>8, <3>1, <3>2
  <2>2. CASE m \notin Siblings
    <3>1. m \in P
      BY <1>10, <2>2
    <3>2. PICK x \in 1 .. C : r[x] = m
      BY <1>5, <3>1
    <3> DEFINE e == S + x - 1
    <3>3. e \in S .. S + C - 1 /\ e \in 0 .. S + C - 1 /\ e - S + 1 = x
      BY <1>4, <1>5
    <3> HIDE DEF e
    <3>4. MainOf(e) = m
      BY <1>9, <3>2, <3>3
    <3>. QED
      BY <3>3, <3>4
  <2>. QED
    BY <2>1, <2>2
<1>14. S + C > 0
  <2>1. 0 \in Cpus
    BY <1>2
  <2>2. machine[0] \in Nat /\ machine[0] <= 0
    BY <1>2, <2>1
  <2>3. 0 \in Mains
    BY <2>1, <2>2 DEF Mains
  <2>4. PICK e \in 0 .. S + C - 1 : TRUE
    BY <1>13, <2>3
  <2>. QED
    BY <1>4, <1>5, <2>4
<1>15. Counts(S, C)
    BY <1>2, <1>4, <1>5, <1>7, <1>14 DEF Counts
<1>. QED
    BY <1>11, <1>12, <1>13, <1>15 DEF Read

-----------------------------------------------------------------------------
(* Where the pieces are.                                                   *)

\* Every place in the list is in the block of a core.
LEMMA EveryPlace ==
    ASSUME NEW S, NEW C, Counts(S, C), NEW pos, Placed(S, C, pos), NEW t \in 1 .. n_threads
    PROVE  \E e \in 0 .. S + C - 1 : \E k \in 1 .. ThreadsOf(e) : t = pos[e] + k
<1>1. S \in Nat /\ C \in Nat /\ n_threads \in Nat
    BY DEF Counts
<1>2. /\ pos \in [0 .. S + C -> Nat] /\ pos[0] = 0 /\ pos[S + C] = n_threads
      /\ \A e \in 0 .. S + C - 1 : ThreadsOf(e) \in Nat /\ pos[e + 1] = pos[e] + ThreadsOf(e)
    BY DEF Placed
<1> DEFINE H(e) == \E k \in 1 .. ThreadsOf(e) : t = pos[e] + k
           T == {j \in Nat : j <= S + C /\ t <= pos[j] => \E e \in 0 .. S + C - 1 : H(e)}
<1>3. 0 \in T
    BY <1>1, <1>2
<1>4. ASSUME NEW j \in Nat, j \in T PROVE j + 1 \in T
  <2>. SUFFICES ASSUME j + 1 <= S + C, t <= pos[j + 1] PROVE \E e \in 0 .. S + C - 1 : H(e)
    OBVIOUS
  <2>1. j \in 0 .. S + C - 1 /\ j \in 0 .. S + C /\ j <= S + C
    BY <1>1
  <2>2. /\ pos[j] \in Nat /\ ThreadsOf(j) \in Nat /\ pos[j + 1] = pos[j] + ThreadsOf(j)
        /\ t \in Nat
    BY <1>1, <1>2, <2>1
  <2>3. CASE t <= pos[j]
    BY <1>4, <2>1, <2>3
  <2>4. CASE ~(t <= pos[j])
    <3> DEFINE k == t - pos[j]
    <3>1. k \in 1 .. ThreadsOf(j) /\ t = pos[j] + k
      BY <2>2, <2>4
    <3>2. H(j)
      BY <3>1
    <3>. QED
      BY <2>1, <3>2
  <2>. QED
    BY <2>3, <2>4
<1> HIDE DEF T
<1>5. S + C \in T
    BY <1>1, <1>3, <1>4, NatSetInduction
<1>6. S + C <= S + C /\ t <= pos[S + C]
    BY <1>1, <1>2
<1>. QED
    BY <1>5, <1>6 DEF T

\* The core of a CPU that stands for it.
LEMMA CoreOfMain ==
    ASSUME NEW X, Numbered(X), NEW m \in Mains
    PROVE  /\ m \in Nat /\ m \in CoreOf(m) /\ Min(CoreOf(m)) = m /\ CoreOf(m) \in SUBSET Cpus
           /\ Cardinality(CoreOf(m)) \in Nat \ {0}
           /\ m \in Siblings => Cardinality(CoreOf(m)) >= 2
           /\ m \notin Siblings => CoreOf(m) = {m}
<1>1. m \in Cpus /\ X \in Nat /\ Cpus = 0 .. X - 1
    BY DEF Mains, Numbered
<1>2. CASE sysfs
  <2>1. CoreOf(m) = Core(m) /\ machine[m] = m
    BY <1>2 DEF CoreOf, Mains
  <2>2. /\ m \in CoreOf(m) /\ Min(CoreOf(m)) = m /\ CoreOf(m) \in SUBSET Cpus
        /\ IsFiniteSet(CoreOf(m))
    BY <1>1, <2>1, CoreIs
  <2>3. Cardinality(CoreOf(m)) \in Nat \ {0}
    BY <2>2, FS_CardinalityType, FS_EmptySet
  <2>4. m \in Siblings <=> CoreOf(m) # {m}
    BY <1>2, <2>1 DEF Siblings
  <2>5. ASSUME CoreOf(m) # {m} PROVE Cardinality(CoreOf(m)) # 1
    <3>1. ASSUME Cardinality(CoreOf(m)) = 1 PROVE FALSE
      <4>1. PICK x : CoreOf(m) = {x}
        BY <2>2, <3>1, FS_Singleton
      <4>. QED
        BY <2>2, <2>5, <4>1
    <3>. QED
      BY <3>1
  <2>. QED
    BY <1>1, <2>2, <2>3, <2>4, <2>5
<1>3. CASE ~sysfs
  <2>1. CoreOf(m) = {m} /\ m \notin Siblings
    BY <1>3 DEF CoreOf, Siblings
  <2>2. Cardinality({m}) = 1
    BY FS_Singleton
  <2>3. Min({m}) = m
    <3>1. {m} \in SUBSET Int /\ m \in {m} /\ \A b \in {m} : m <= b
      BY <1>1
    <3>. QED
      BY <3>1, MinIs
  <2>. QED
    BY <1>1, <2>1, <2>2, <2>3
<1>. QED
    BY <1>2, <1>3

\* The CPUs in a piece: the one that stands for the core, and perhaps another one of
\* the same core, or none at all.
LEMMA IdsAre ==
    ASSUME NEW X, Numbered(X), NEW S, NEW C, Read(S, C), NEW e \in 0 .. S + C - 1,
           NEW m, m = MainOf(e)
    PROVE  /\ m \in Mains /\ m \in IdsOf(e)
           /\ \A b \in Mains : b \in IdsOf(e) => b = m
           /\ IdsOf(e) \cap Cpus \in SUBSET CoreOf(m)
           /\ Cardinality(CoreOf(m)) = 2 /\ m + 1 \notin CoreOf(m) => IdsOf(e) \cap Cpus = CoreOf(m)
           /\ e < S => Cardinality(CoreOf(m)) >= 2
           /\ ~(e < S) => Cardinality(CoreOf(m)) = 1
<1>1. /\ m \in Mains /\ (e < S <=> m \in Siblings)
      /\ IdsOf(e) = {m} \cup (IF e < S THEN {second(Core(m))} ELSE {})
    BY DEF Read
<1>2. /\ m \in CoreOf(m) /\ CoreOf(m) \in SUBSET Cpus
      /\ m \in Siblings => Cardinality(CoreOf(m)) >= 2
      /\ m \notin Siblings => CoreOf(m) = {m}
    BY <1>1, CoreOfMain
<1>3. CASE m \in Siblings
  <2>1. m \in Cpus /\ sysfs /\ machine[m] = m /\ CoreOf(m) = Core(m) /\ Core(m) # {m}
    BY <1>3 DEF Siblings, Mains, CoreOf
  <2> DEFINE d == second(Core(m))
  <2>2. IdsOf(e) = {m, d}
    BY <1>1, <1>3
  <2>3. /\ d # m /\ (d \in Cpus => d \in Core(m))
        /\ Cardinality(Core(m)) = 2 /\ m + 1 \notin Core(m) => Core(m) = {m, d}
    BY <2>1, SecondIs
  <2> HIDE DEF d
  <2>4. ASSUME NEW b \in Mains, b \in IdsOf(e) PROVE b = m
    <3>1. b \in Cpus /\ machine[b] = b
      BY <2>1, <2>4 DEF Mains
    <3>2. b \in Core(m)
      BY <1>2, <2>1, <2>2, <2>3, <2>4, <3>1
    <3>. QED
      BY <2>1, <3>1, <3>2 DEF Core
  <2>. QED
    BY <1>1, <1>2, <1>3, <2>1, <2>2, <2>3, <2>4
<1>4. CASE m \notin Siblings
  <2>1. IdsOf(e) = {m} /\ ~(e < S) /\ CoreOf(m) = {m}
    BY <1>1, <1>2, <1>4
  <2>2. m \in Cpus
    BY <1>1 DEF Mains
  <2>3. Cardinality({m}) = 1
    BY FS_Singleton
  <2>. QED
    BY <1>1, <2>1, <2>2, <2>3
<1>. QED
    BY <1>3, <1>4

\* The cores as far as /sys tells are those of the topology.
LEMMA CoresAre ==
    ASSUME NEW X, Numbered(X), sysfs \in BOOLEAN, NEW S, NEW C, Read(S, C)
    PROVE  /\ \A co \in Cores : \E e \in 0 .. S + C - 1 : co = CoreOf(MainOf(e))
           /\ \A e \in 0 .. S + C - 1 : CoreOf(MainOf(e)) \in Cores
           /\ Cardinality(Cores) = S + C
<1>1. /\ S \in Nat /\ C \in Nat
      /\ \A e \in 0 .. S + C - 1 : MainOf(e) \in Mains
      /\ \A e, f \in 0 .. S + C - 1 : MainOf(e) = MainOf(f) => e = f
      /\ \A m \in Mains : \E e \in 0 .. S + C - 1 : MainOf(e) = m
    BY DEF Read, Counts
<1>2. \A co \in Cores : \E m \in Mains : co = CoreOf(m)
  <2>1. CASE sysfs
    <3>1. ASSUME NEW id \in Cpus PROVE machine[id] \in Mains /\ Core(id) = Core(machine[id])
      <4>1. machine[id] \in Cpus /\ machine[machine[id]] = machine[id]
        BY DEF Numbered
      <4>. QED
        BY <2>1, <4>1 DEF Mains, Core
    <3>. QED
      BY <2>1, <3>1 DEF Cores, CoreOf
  <2>2. CASE ~sysfs
    BY <2>2 DEF Cores, CoreOf, Mains
  <2>. QED
    BY <2>1, <2>2
<1>3. \A m \in Mains : CoreOf(m) \in Cores
    BY DEF Cores, CoreOf, Mains
<1>4. \A co \in Cores : \E e \in 0 .. S + C - 1 : co = CoreOf(MainOf(e))
    BY <1>1, <1>2
<1>5. \A m \in Mains : Min(CoreOf(m)) = m
    BY CoreOfMain
<1> DEFINE N == S + C
           f == [x \in 1 .. N |-> CoreOf(MainOf(x - 1))]
<1>6. \A x \in 1 .. N : x - 1 \in 0 .. N - 1 /\ MainOf(x - 1) \in Mains /\ f[x] = CoreOf(MainOf(x - 1))
    BY <1>1
<1>7. f \in [1 .. N -> Cores]
    BY <1>3, <1>6
<1> HIDE DEF f
<1>8. ASSUME NEW x \in 1 .. N, NEW y \in 1 .. N, f[x] = f[y] PROVE x = y
  <2>1. MainOf(x - 1) = MainOf(y - 1)
    BY <1>5, <1>6, <1>8
  <2>2. x - 1 = y - 1
    BY <1>1, <1>6, <2>1
  <2>. QED
    BY <1>1, <2>2
<1>9. ASSUME NEW y \in Cores PROVE \E x \in 1 .. N : f[x] = y
  <2>1. PICK e \in 0 .. N - 1 : y = CoreOf(MainOf(e))
    <3>1. S \in Nat /\ C \in Nat
      BY <1>1
    <3>. QED
      BY <1>4, <3>1
  <2>2. e + 1 \in 1 .. N /\ (e + 1) - 1 = e
    BY <1>1
  <2>. QED
    BY <1>6, <2>1, <2>2
<1>10. f \in Bijection(1 .. N, Cores)
  <2>1. IsInjective(f)
    BY <1>7, <1>8 DEF IsInjective
  <2>. QED
    BY <1>7, <1>9, <2>1 DEF Bijection, Injection, Surjection
<1>11. Cardinality(Cores) = N
  <2>1. ExistsBijection(1 .. N, Cores) /\ N \in Nat
    BY <1>1, <1>10 DEF ExistsBijection
  <2>. QED
    BY <2>1, FS_CountingElements
<1>. QED
    BY <1>1, <1>3, <1>4, <1>11

\* How many threads a core gets: none has two before each has one, and hyperthreads
\* are the last to be used.
LEMMA ThreadLimits ==
    ASSUME NEW S, NEW C, Counts(S, C), NEW e \in 0 .. S + C - 1
    PROVE  /\ ThreadsOf(e) \in Nat
           /\ n_threads <= S + C => ThreadsOf(e) <= 1
           /\ n_threads >= S + C => ThreadsOf(e) >= 1
           /\ n_threads <= C + 2 * S => ThreadsOf(e) <= (IF e < S THEN 2 ELSE 1)
<1> DEFINE x == leftover.smt
           y == leftover.hthreads
           z == leftover.cores
           b == base
<1>1. /\ S \in Nat /\ C \in Nat /\ smt_count = S /\ n_threads \in Nat /\ b \in Nat
      /\ x \in 0 .. S /\ y \in 0 .. S /\ z \in 0 .. C
    BY Leftovers DEF Counts
<1>2. \/ e < S /\ ThreadsOf(e) = 2 * b + (IF e < x THEN 1 ELSE 0) + (IF e < y THEN 1 ELSE 0)
      \/ ~(e < S) /\ ThreadsOf(e) = b + (IF e - S < z THEN 1 ELSE 0) /\ e - S \in 0 .. C - 1
  <2>1. CASE e < S
    <3>1. ThreadsOf(e) = smtThreads(e)
      BY <1>1, <2>1, EntryThreads
    <3>. QED
      BY <2>1, <3>1 DEF smtThreads, One
  <2>2. CASE ~(e < S)
    <3>1. ThreadsOf(e) = coreThreads(e - smt_count) /\ e - smt_count = e - S /\ e - S \in 0 .. C - 1
      BY <1>1, <2>2, EntryThreads
    <3>2. ThreadsOf(e) = coreThreads(e - S)
      BY <3>1, Zenon
    <3>. QED
      BY <2>2, <3>1, <3>2 DEF coreThreads, One
  <2>. QED
    BY <2>1, <2>2
<1>3. CASE Many(S, C, active, leftover, base)
  <2>1. /\ b \in Nat \ {0} /\ n_threads >= C + 2 * S
        /\ \E r \in Nat : r < C + 2 * S /\ n_threads = (C + 2 * S) * b + r /\ Spread(leftover, S, C, r)
    BY <1>3 DEF Many
  <2>2. PICK r \in Nat : r < C + 2 * S /\ n_threads = (C + 2 * S) * b + r /\ Spread(leftover, S, C, r)
    BY <2>1
  <2>3. ASSUME n_threads <= C + 2 * S PROVE b = 1 /\ x = 0 /\ y = 0 /\ z = 0
    <3> DEFINE T == C + 2 * S
    <3>1. T \in Nat /\ r < T /\ n_threads = T * b + r /\ n_threads <= T
      BY <1>1, <2>2, <2>3
    <3>2. x + z + y = r
      BY <2>2 DEF Spread
    <3> HIDE DEF T, b, x, y, z
    <3>3. ASSUME b >= 2 PROVE FALSE
      <4>1. T * b >= 2 * T
        BY <1>1, <3>1, <3>3
      <4>. QED
        BY <1>1, <2>2, <3>1, <4>1
    <3>4. b = 1
      BY <1>1, <2>1, <3>3
    <3>5. r = 0
      BY <3>1, <3>4
    <3>. QED
      BY <1>1, <3>2, <3>4, <3>5
  <2> HIDE DEF b, x, y, z
  <2>. QED
    BY <1>1, <1>2, <2>1, <2>3
<1>4. CASE Few(S, C, active, leftover, base)
  <2>1. b = 0 /\ n_threads < C + 2 * S /\ Spread(leftover, S, C, n_threads)
    BY <1>4 DEF Few
  <2>2. x + z + y = n_threads /\ (z > 0 => x = S) /\ (y > 0 => x = S /\ z = C)
    BY <2>1 DEF Spread
  <2> HIDE DEF b, x, y, z
  <2>3. n_threads <= S + C => y = 0
    BY <1>1, <2>2
  <2>4. n_threads >= S + C => x = S /\ z = C
    BY <1>1, <2>2
  <2>. QED
    BY <1>1, <1>2, <2>1, <2>3, <2>4
<1>. QED
    BY <1>3, <1>4, ManyOrFew

\* No core without hyperthreads has a thread before all those with them have.
LEMMA SmtCoresFirst ==
    ASSUME NEW S, NEW C, Counts(S, C), NEW e \in 0 .. S + C - 1, NEW f \in 0 .. S + C - 1,
           f < S, ~(e < S), ThreadsOf(e) >= 1
    PROVE  ThreadsOf(f) >= 1
<1> DEFINE x == leftover.smt
           y == leftover.hthreads
           z == leftover.cores
<1>1. /\ S \in Nat /\ C \in Nat /\ smt_count = S /\ n_threads \in Nat /\ base \in Nat
      /\ x \in 0 .. S /\ y \in 0 .. S /\ z \in 0 .. C
    BY Leftovers DEF Counts
<1>2. CASE n_threads >= S + C
    BY <1>2, ThreadLimits
<1>3. CASE n_threads < S + C
  <2>1. ~Many(S, C, active, leftover, base)
    BY <1>1, <1>3 DEF Many
  <2>2. Few(S, C, active, leftover, base)
    BY <2>1, ManyOrFew
  <2>3. base = 0 /\ (z > 0 => x = S)
    BY <2>2 DEF Few, Spread
  <2>4. ThreadsOf(e) = base + (IF e - S < z THEN 1 ELSE 0) /\ e - S \in 0 .. C - 1
    <3>1. ThreadsOf(e) = coreThreads(e - smt_count) /\ e - smt_count = e - S /\ e - S \in 0 .. C - 1
      BY <1>1, EntryThreads
    <3>2. ThreadsOf(e) = coreThreads(e - S)
      BY <3>1, Zenon
    <3>. QED
      BY <3>1, <3>2 DEF coreThreads, One
  <2>5. ThreadsOf(f) = 2 * base + (IF f < x THEN 1 ELSE 0) + (IF f < y THEN 1 ELSE 0)
    <3>1. ThreadsOf(f) = smtThreads(f)
      BY <1>1, EntryThreads
    <3>. QED
      BY <3>1 DEF smtThreads, One
  <2> HIDE DEF x, y, z
  <2>6. z > 0
    BY <1>1, <2>3, <2>4
  <2>. QED
    BY <1>1, <2>3, <2>5, <2>6
<1>. QED
    BY <1>1, <1>2, <1>3

\* The threads of a core are those of its block.
LEMMA LoadIs ==
    ASSUME NEW X, Numbered(X), NEW S, NEW C, Read(S, C),
           NEW pos, Placed(S, C, pos), Listed(dist, S, C, pos),
           NEW e \in 0 .. S + C - 1
    PROVE  Load(CoreOf(MainOf(e))) = ThreadsOf(e)
<1>1. Counts(S, C) /\ S \in Nat /\ C \in Nat /\ n_threads \in Nat
    BY DEF Read, Counts
<1>3. /\ DOMAIN dist = 1 .. n_threads
      /\ \A f \in 0 .. S + C - 1 : \A k \in 1 .. ThreadsOf(f) :
            pos[f] + k \in 1 .. n_threads /\ dist[pos[f] + k] = PieceOf(f)
    BY DEF Listed
<1> DEFINE m == MainOf(e)
           L == {t \in DOMAIN dist : m \in dist[t].ids}
           a == pos[e]
           k0 == ThreadsOf(e)
<1>4. /\ m \in Mains /\ m \in IdsOf(e)
      /\ Min(CoreOf(m)) = m
  <2>1. m \in Mains /\ m \in IdsOf(e)
    BY IdsAre
  <2>. QED
    BY <2>1, CoreOfMain
<1>5. \A f \in 0 .. S + C - 1 : PieceOf(f).ids = IdsOf(f)
    BY DEF PieceOf, ItemOf
<1>6. \A f \in 0 .. S + C - 1 : m \in IdsOf(f) => f = e
  <2>1. ASSUME NEW f \in 0 .. S + C - 1, m \in IdsOf(f) PROVE f = e
    <3>1. m = MainOf(f)
      BY <1>4, <2>1, IdsAre
    <3>. QED
      BY <1>1, <3>1 DEF Read
  <2>. QED
    BY <2>1
<1>7. a \in Nat /\ k0 \in Nat
  <2>1. e \in 0 .. S + C
    BY <1>1
  <2>. QED
    BY <1>1, <2>1 DEF Placed
<1> HIDE DEF m, a, k0
<1>8. L = a + 1 .. a + k0
  <2>1. ASSUME NEW t \in L PROVE t \in a + 1 .. a + k0
    <3>1. t \in 1 .. n_threads /\ m \in dist[t].ids
      BY <1>3
    <3>2. PICK f \in 0 .. S + C - 1 : \E k \in 1 .. ThreadsOf(f) : t = pos[f] + k
      BY <1>1, <3>1, EveryPlace
    <3>3. PICK k \in 1 .. ThreadsOf(f) : t = pos[f] + k
      BY <3>2
    <3>4. dist[t] = PieceOf(f)
      BY <1>3, <3>3
    <3>5. f = e
      BY <1>5, <1>6, <3>1, <3>4
    <3>6. t = a + k /\ k \in 1 .. k0
      BY <3>3, <3>5 DEF a, k0
    <3>. QED
      BY <1>7, <3>6
  <2>2. ASSUME NEW t \in a + 1 .. a + k0 PROVE t \in L
    <3> DEFINE k == t - a
    <3>1. k \in 1 .. k0 /\ t = a + k
      BY <1>7
    <3> HIDE DEF k
    <3>2. t \in 1 .. n_threads /\ dist[t] = PieceOf(e)
      BY <1>3, <3>1 DEF a, k0
    <3>3. dist[t].ids = IdsOf(e)
      BY <1>5, <3>2
    <3>. QED
      BY <1>3, <1>4, <3>2, <3>3
  <2>. QED
    BY <2>1, <2>2
<1>9. Load(CoreOf(m)) = Cardinality(L)
    BY <1>4 DEF Load
<1> HIDE DEF L
<1>10. Cardinality(a + 1 .. a + k0) = k0
  <2>1. Cardinality(a + 1 .. a + k0) = IF a + 1 > a + k0 THEN 0 ELSE (a + k0) - (a + 1) + 1
    BY <1>7, FS_Interval
  <2>. QED
    BY <1>7, <2>1
<1>. QED
    BY <1>8, <1>9, <1>10 DEF m, k0

\* Placement holds of the list that distributeWork() returns.
LEMMA WellPlaced ==
    ASSUME Inputs, topology = getSysCPUs, NEW pos, Laid(pos)
    PROVE  Placement
<1>1. PICK X : Numbered(X)
    BY MachineIs
<1>2. PICK S, C : Read(S, C)
    BY TopologyRead
<1>3. Counts(S, C) /\ S \in Nat /\ C \in Nat /\ n_threads \in Nat /\ thread_count = C + 2 * S
    BY <1>2 DEF Read, Counts, thread_count
<1>p. Placed(S, C, pos) /\ Listed(dist, S, C, pos)
    BY <1>2 DEF Read, Counts, Laid
<1>4. /\ \A co \in Cores : \E e \in 0 .. S + C - 1 : co = CoreOf(MainOf(e))
      /\ \A e \in 0 .. S + C - 1 : CoreOf(MainOf(e)) \in Cores
      /\ Cardinality(Cores) = S + C
    BY <1>1, <1>2, CoresAre DEF Inputs
<1>5. ASSUME NEW co \in Cores
      PROVE  /\ n_threads <= Cardinality(Cores) => Load(co) <= 1
             /\ n_threads >= Cardinality(Cores) => Load(co) >= 1
             /\ n_threads <= thread_count => Load(co) <= Min({2, Cardinality(co)})
  <2>1. PICK e \in 0 .. S + C - 1 : co = CoreOf(MainOf(e))
    BY <1>3, <1>4
  <2> DEFINE m == MainOf(e)
  <2>2. Load(co) = ThreadsOf(e)
    BY <1>1, <1>2, <1>p, <2>1, LoadIs
  <2>3. /\ ThreadsOf(e) \in Nat
        /\ n_threads <= S + C => ThreadsOf(e) <= 1
        /\ n_threads >= S + C => ThreadsOf(e) >= 1
        /\ n_threads <= C + 2 * S => ThreadsOf(e) <= (IF e < S THEN 2 ELSE 1)
    BY <1>3, ThreadLimits
  <2>4. m \in Mains /\ (e < S => Cardinality(CoreOf(m)) >= 2)
    BY <1>1, <1>2, IdsAre
  <2>5. Cardinality(CoreOf(m)) \in Nat \ {0}
    BY <1>1, <2>4, CoreOfMain
  <2> DEFINE c == Cardinality(co)
  <2>6. c \in Nat \ {0} /\ (e < S => c >= 2)
    BY <2>1, <2>4, <2>5
  <2> HIDE DEF c
  <2>7. Min({2, c}) = Low(2, c)
    BY <2>6, MinOfTwo
  <2>8. Low(2, c) >= (IF e < S THEN 2 ELSE 1) /\ Low(2, c) \in Nat
    BY <2>6 DEF Low
  <2>9. n_threads <= thread_count => ThreadsOf(e) <= Low(2, c)
    BY <1>3, <2>3, <2>8
  <2>. QED
    BY <1>3, <1>4, <2>2, <2>3, <2>7, <2>9 DEF c
<1>6. ASSUME n <= 10 * thread_count, NEW t \in DOMAIN dist
      PROVE  \E co \in Cores :
                /\ Min(co) \in affinity(t) /\ affinity(t) \subseteq co
                /\ Cardinality(co) = 2 /\ Min(co) + 1 \notin co => affinity(t) = co
  <2>2. /\ DOMAIN dist = 1 .. n_threads
        /\ \A f \in 0 .. S + C - 1 : \A k \in 1 .. ThreadsOf(f) :
              pos[f] + k \in 1 .. n_threads /\ dist[pos[f] + k] = PieceOf(f)
    BY <1>p DEF Listed
  <2>3. PICK e \in 0 .. S + C - 1 : \E k \in 1 .. ThreadsOf(e) : t = pos[e] + k
    <3>1. t \in 1 .. n_threads
      BY <2>2
    <3>. QED
      BY <1>3, <1>p, <3>1, EveryPlace
  <2>4. dist[t] = PieceOf(e)
    BY <2>2, <2>3
  <2> DEFINE m == MainOf(e)
             co == CoreOf(m)
  <2>5. affinity(t) = IdsOf(e) \cap Cpus
    <3>1. dist[t].ids = IdsOf(e)
      BY <2>4 DEF PieceOf, ItemOf
    <3>2. n <= thread_count * 10
      BY <1>3, <1>6
    <3>. QED
      BY <3>1, <3>2 DEF affinity
  <2>6. /\ m \in Mains /\ m \in IdsOf(e)
        /\ IdsOf(e) \cap Cpus \in SUBSET co
        /\ Cardinality(co) = 2 /\ m + 1 \notin co => IdsOf(e) \cap Cpus = co
    BY <1>1, <1>2, IdsAre
  <2>7. Min(co) = m /\ m \in Cpus
    BY <1>1, <2>6, CoreOfMain DEF Mains
  <2>8. co \in Cores
    BY <1>3, <1>4
  <2> HIDE DEF m, co
  <2>. QED
    BY <2>5, <2>6, <2>7, <2>8
<1>7. ASSUME NEW co \in Cores, NEW other \in Cores,
             Cardinality(co) > 1, Cardinality(other) = 1, Load(other) >= 1
      PROVE  Load(co) >= 1
  <2>1. PICK e \in 0 .. S + C - 1 : other = CoreOf(MainOf(e))
    BY <1>3, <1>4
  <2>2. PICK f \in 0 .. S + C - 1 : co = CoreOf(MainOf(f))
    BY <1>3, <1>4
  <2>3. Load(other) = ThreadsOf(e) /\ Load(co) = ThreadsOf(f)
    BY <1>1, <1>2, <1>p, <2>1, <2>2, LoadIs
  <2>4. ~(e < S)
    <3>1. e < S => Cardinality(other) >= 2
      BY <1>1, <1>2, <2>1, IdsAre
    <3>. QED
      BY <1>7, <3>1
  <2>5. f < S
    <3>1. ~(f < S) => Cardinality(co) = 1
      BY <1>1, <1>2, <2>2, IdsAre
    <3>. QED
      BY <1>7, <3>1
  <2>6. ThreadsOf(e) >= 1
    BY <1>7, <2>3
  <2>7. ThreadsOf(f) >= 1
    BY <1>3, <2>4, <2>5, <2>6, SmtCoresFirst
  <2>. QED
    BY <2>3, <2>7
<1>. QED
    BY <1>5, <1>6, <1>7 DEF Placement

-----------------------------------------------------------------------------
(* How much work is in the pieces.                                         *)

\* A block of th pieces with the weight W makes up for W of the weights T, but for
\* less than a step in each piece.
LEMMA BlockBounds ==
    ASSUME NEW T \in Nat \ {0}, NEW th \in Nat \ {0}, NEW W \in Nat, NEW N \in Nat,
           NEW h \in Nat, NEW p \in Nat, NEW c \in Nat,
           T * h <= N * c, N * c <= T * (h + p),
           NEW q, q = (W * N) \div (T * th)
    PROVE  /\ q \in Nat
           /\ T * (h + th * q) <= N * (c + W)
           /\ N * (c + W) < T * ((h + th * q) + (p + th))
<1> DEFINE a == W * N
           d == T * th
<1>1. a \in Nat /\ d \in Nat \ {0} /\ q = a \div d
    OBVIOUS
<1> HIDE DEF a, d
<1>2. q \in Nat /\ d * q <= a /\ a < d * q + d
  <2>1. a \div d \in Nat /\ d * (a \div d) <= a /\ a < d * (a \div d) + d
    BY <1>1
  <2>. QED
    BY <1>1, <2>1
<1> DEFINE x == T * h
           y == T * p
           z == N * c
           u == d * q
<1>3. T * (h + th * q) = x + u
  <2>1. T * (h + th * q) = T * h + T * (th * q) /\ T * (th * q) = (T * th) * q
    BY <1>2
  <2>. QED
    BY <2>1 DEF d
<1>4. N * (c + W) = z + a
    BY DEF a
<1>5. T * ((h + th * q) + (p + th)) = x + u + y + d
  <2> DEFINE b == th * q
  <2>1. b \in Nat /\ T * b = u
    <3>1. th * q \in Nat
      BY <1>2
    <3>2. T * (th * q) = (T * th) * q
      BY <1>2
    <3>. QED
      BY <3>1, <3>2 DEF d
  <2> HIDE DEF b, u
  <2>2. T * ((h + b) + (p + th)) = T * h + T * b + T * p + T * th
    BY <2>1
  <2>. QED
    BY <2>1, <2>2 DEF b, d
<1>6. T * (h + p) = x + y
    OBVIOUS
<1>7. x \in Nat /\ y \in Nat /\ z \in Nat /\ u \in Nat
    BY <1>1, <1>2
<1> HIDE DEF x, y, z, u
<1>8. x <= z /\ z <= x + y
    BY <1>6 DEF x, z
<1>9. u <= a /\ a < u + d
    BY <1>2 DEF u
<1>. QED
    BY <1>1, <1>2, <1>3, <1>4, <1>5, <1>7, <1>8, <1>9

\* The steps of a piece are a number.
LEMMA WorkIs ==
    ASSUME NEW S, NEW C, Counts(S, C), NEW pos, Placed(S, C, pos), Listed(dist, S, C, pos),
           NEW t \in 1 .. n_threads
    PROVE  dist[t].work \in Nat
<1>2. PICK e \in 0 .. S + C - 1 : \E k \in 1 .. ThreadsOf(e) : t = pos[e] + k
    BY EveryPlace
<1>3. PICK k \in 1 .. ThreadsOf(e) : t = pos[e] + k
    BY <1>2
<1>4. dist[t] = PieceOf(e)
  <2>1. \A f \in 0 .. S + C - 1 : \A j \in 1 .. ThreadsOf(f) : dist[pos[f] + j] = PieceOf(f)
    BY DEF Listed
  <2>. QED
    BY <1>3, <2>1
<1>5. n_threads \in Nat \ {0} /\ n \in Nat /\ total_weight \in Nat \ {0}
  <2>1. n_threads \in Nat /\ n \in Nat
    BY DEF Counts
  <2>2. n_threads > 0
    BY <2>1
  <2>. QED
    BY <2>1, <2>2, Weighed
<1>6. ThreadsOf(e) \in Nat \ {0}
  <2>1. ThreadsOf(e) \in Nat
    BY DEF Placed
  <2>. QED
    BY <1>3, <2>1
<1>7. WeightOf(e) \in Nat
    BY Weighed DEF Adding
<1> DEFINE a == WeightOf(e) * n
           d == total_weight * ThreadsOf(e)
<1>8. a \in Nat /\ d \in Nat \ {0}
    BY <1>5, <1>6, <1>7
<1>9. dist[t].work = a \div d
    BY <1>4 DEF PieceOf, ItemOf
<1> HIDE DEF a, d
<1>. QED
    BY <1>8, <1>9

\* h adds up the work of the pieces.
Adds(h) ==
    /\ h \in [0 .. n_threads -> Nat] /\ h[0] = 0
    /\ \A t \in 1 .. n_threads : h[t] = h[t - 1] + dist[t].work

Even(p, th, q) == \A k \in 1 .. th : dist[p + k].work = q

\* In a block it grows evenly.
LEMMA InBlock ==
    ASSUME NEW h, Adds(h), NEW p \in Nat, NEW th \in Nat, NEW q \in Nat,
           n_threads \in Nat, p + th <= n_threads, Even(p, th, q)
    PROVE  h[p + th] = h[p] + th * q
<1> DEFINE T == {k \in Nat : k <= th => h[p + k] = h[p] + k * q}
<1>1. h \in [0 .. n_threads -> Nat] /\ \A t \in 1 .. n_threads : h[t] = h[t - 1] + dist[t].work
    BY DEF Adds
<1>2. 0 \in T
  <2>1. p \in 0 .. n_threads /\ p + 0 = p /\ 0 * q = 0
    OBVIOUS
  <2>2. h[p] \in Nat
    BY <1>1, <2>1
  <2>3. h[p + 0] = h[p] + 0 * q
    BY <2>1, <2>2
  <2>. QED
    BY <2>3
<1>3. ASSUME NEW k \in Nat, k \in T PROVE k + 1 \in T
  <2>. SUFFICES ASSUME k + 1 <= th PROVE h[p + (k + 1)] = h[p] + (k + 1) * q
    OBVIOUS
  <2> DEFINE t == p + (k + 1)
  <2>1. /\ t \in 1 .. n_threads /\ t - 1 = p + k /\ p + k \in 0 .. n_threads
        /\ p \in 0 .. n_threads /\ k + 1 \in 1 .. th
    OBVIOUS
  <2>2. dist[p + (k + 1)].work = q
    BY <2>1 DEF Even
  <2>3. h[p + k] = h[p] + k * q
    BY <1>3, <2>1
  <2> HIDE DEF t
  <2>4. h[t] = h[t - 1] + dist[t].work
    BY <1>1, <2>1
  <2>5. h[t] = h[p + k] + q /\ h[p] \in Nat
    BY <1>1, <2>1, <2>2, <2>4 DEF t
  <2>6. (k + 1) * q = k * q + q /\ k * q \in Nat
    OBVIOUS
  <2>7. h[t] = h[p] + (k + 1) * q
    BY <2>3, <2>5, <2>6
  <2>. QED
    BY <2>7 DEF t
<1> HIDE DEF T
<1>4. th \in T
    BY <1>2, <1>3, NatSetInduction
<1>. QED
    BY <1>4 DEF T

\* All the pieces together miss less than one step each.
LEMMA Accounts ==
    ASSUME NEW S, NEW C, Counts(S, C), NEW pos, Placed(S, C, pos), Listed(dist, S, C, pos),
           n_threads > 0, NEW h, Adds(h)
    PROVE  h[n_threads] <= n /\ n < h[n_threads] + n_threads
<1>1. S \in Nat /\ C \in Nat /\ n_threads \in Nat /\ n \in Nat /\ total_weight \in Nat \ {0}
    BY Weighed DEF Counts
<1>3. PICK cw : Adding(S, C, cw)
    BY Weighed
<1>4. /\ pos \in [0 .. S + C -> Nat] /\ pos[0] = 0 /\ pos[S + C] = n_threads
      /\ \A e \in 0 .. S + C - 1 : ThreadsOf(e) \in Nat /\ pos[e + 1] = pos[e] + ThreadsOf(e)
    BY DEF Placed
<1>5. /\ cw \in [0 .. S + C -> Nat] /\ cw[0] = 0 /\ cw[S + C] = total_weight
      /\ \A e \in 0 .. S + C - 1 :
            /\ WeightOf(e) \in Nat
            /\ ThreadsOf(e) = 0 => cw[e + 1] = cw[e]
            /\ ThreadsOf(e) # 0 => cw[e + 1] = cw[e] + WeightOf(e)
    BY <1>3 DEF Adding
<1>6. \A e \in 0 .. S + C - 1 : \A k \in 1 .. ThreadsOf(e) :
          pos[e] + k \in 1 .. n_threads /\ dist[pos[e] + k] = PieceOf(e)
    BY DEF Listed
<1>7. h \in [0 .. n_threads -> Nat] /\ h[0] = 0
    BY DEF Adds
<1> DEFINE T == total_weight
           Bound(e) ==
               /\ pos[e] \in 0 .. n_threads
               /\ T * h[pos[e]] <= n * cw[e] /\ n * cw[e] <= T * (h[pos[e]] + pos[e])
               /\ pos[e] > 0 => n * cw[e] < T * (h[pos[e]] + pos[e])
           G == {e \in Nat : e <= S + C => Bound(e)}
<1>8. 0 \in G
    BY <1>1, <1>4, <1>5, <1>7
<1>9. ASSUME NEW e \in Nat, e \in G PROVE e + 1 \in G
  <2>. SUFFICES ASSUME e + 1 <= S + C PROVE Bound(e + 1)
    OBVIOUS
  <2>1. e \in 0 .. S + C - 1 /\ e \in 0 .. S + C /\ e <= S + C
    BY <1>1
  <2>2. Bound(e)
    BY <1>9, <2>1
  <2> DEFINE th == ThreadsOf(e)
  <2>3. CASE th = 0
    <3>1. pos[e + 1] = pos[e] /\ cw[e + 1] = cw[e]
      BY <1>4, <1>5, <2>1, <2>3
    <3>. QED
      BY <2>2, <3>1
  <2>4. CASE th # 0
    <3> DEFINE p == pos[e]
               c == cw[e]
               W == WeightOf(e)
               q == (W * n) \div (T * th)
    <3>1. /\ th \in Nat \ {0} /\ p \in Nat /\ c \in Nat /\ W \in Nat
          /\ pos[e + 1] = p + th /\ cw[e + 1] = c + W
      BY <1>4, <1>5, <2>1, <2>4
    <3>2. /\ p \in 0 .. n_threads /\ h[p] \in Nat
          /\ T * h[p] <= n * c /\ n * c <= T * (h[p] + p)
      BY <1>7, <2>2
    <3>3. \A k \in 1 .. th : p + k \in 1 .. n_threads /\ dist[p + k].work = q
      <4>1. PieceOf(e).work = q
        BY DEF PieceOf, ItemOf
      <4>2. \A k \in 1 .. th : p + k \in 1 .. n_threads /\ dist[p + k] = PieceOf(e)
        BY <1>6, <2>1
      <4> HIDE DEF q, p, th
      <4>. QED
        BY <4>1, <4>2
    <3>4. p + th \in 0 .. n_threads
      <4>1. th \in 1 .. th
        BY <3>1
      <4>2. p + th \in 1 .. n_threads
        BY <3>3, <4>1
      <4>. QED
        BY <1>1, <4>2
    <3> HIDE DEF p, c, W, q, th, T
    <3>5. /\ q \in Nat
          /\ T * (h[p] + th * q) <= n * (c + W)
          /\ n * (c + W) < T * ((h[p] + th * q) + (p + th))
      <4> DEFINE hp == h[p]
      <4>1. T \in Nat \ {0} /\ hp \in Nat /\ T * hp <= n * c /\ n * c <= T * (hp + p)
        BY <1>1, <3>2 DEF T
      <4>2. q = (W * n) \div (T * th)
        BY DEF q
      <4> HIDE DEF hp
      <4>3. /\ q \in Nat
            /\ T * (hp + th * q) <= n * (c + W)
            /\ n * (c + W) < T * ((hp + th * q) + (p + th))
        BY <1>1, <3>1, <4>1, <4>2, BlockBounds
      <4>. QED
        BY <4>3 DEF hp
    <3>6. h[p + th] = h[p] + th * q
      <4>1. th \in Nat /\ p + th <= n_threads /\ Even(p, th, q)
        BY <1>1, <3>1, <3>3, <3>4 DEF Even
      <4>. QED
        BY <1>1, <3>1, <3>5, <4>1, InBlock
    <3>7. /\ T * h[p + th] <= n * (c + W)
          /\ n * (c + W) < T * (h[p + th] + (p + th))
      BY <3>5, <3>6
    <3>8. /\ T * h[pos[e + 1]] <= n * cw[e + 1]
          /\ n * cw[e + 1] < T * (h[pos[e + 1]] + pos[e + 1])
      BY <3>1, <3>7
    <3>9. n * cw[e + 1] \in Nat /\ T * (h[pos[e + 1]] + pos[e + 1]) \in Nat
      <4>1. cw[e + 1] \in Nat /\ pos[e + 1] \in Nat /\ h[pos[e + 1]] \in Nat
        BY <1>7, <3>1, <3>4
      <4>. QED
        BY <1>1, <4>1 DEF T
    <3>10. n * cw[e + 1] <= T * (h[pos[e + 1]] + pos[e + 1])
      BY <3>8, <3>9
    <3>. QED
      BY <3>1, <3>4, <3>8, <3>10
  <2>. QED
    BY <2>3, <2>4
<1> HIDE DEF G
<1>10. S + C \in G
    BY <1>1, <1>8, <1>9, NatSetInduction
<1>11. Bound(S + C)
    BY <1>1, <1>10 DEF G
<1>12. T * h[n_threads] <= n * T /\ n * T < T * (h[n_threads] + n_threads)
    BY <1>1, <1>4, <1>5, <1>11
<1>13. h[n_threads] \in Nat /\ T \in Nat \ {0}
    BY <1>1, <1>7
<1> HIDE DEF T
<1>14. ASSUME NEW a \in Nat, NEW b \in Nat, T * a <= n * T, n * T < T * (a + b) PROVE a <= n /\ n < a + b
    BY <1>1, <1>13, <1>14
<1>. QED
    BY <1>1, <1>12, <1>13, <1>14

-----------------------------------------------------------------------------
(* The steps.  Most of them leave the arguments and the lists alone.       *)

SameInput == machine' = machine /\ sysfs' = sysfs /\ n' = n /\ n_threads' = n_threads

\* What is read of a machine is always the same.
LEMMA SameSys ==
    ASSUME SameInput
    PROVE  getSysCPUs' = getSysCPUs
<1>1. machine' = machine /\ sysfs' = sysfs
    BY DEF SameInput
<1>2. Cpus' = Cpus
    BY <1>1 DEF Cpus
<1>3. \A id : Core(id)' = Core(id)
    BY <1>1, <1>2 DEF Core
<1>4. \A id : siblings(id)' = siblings(id)
    BY <1>1, <1>3 DEF siblings
<1>5. \A id : (is_smt(id)' <=> is_smt(id)) /\ (is_main(id)' <=> is_main(id))
    BY <1>4 DEF is_smt, is_main
<1>6. /\ {id \in Cpus : ~is_smt(id)}' = {id \in Cpus : ~is_smt(id)}
      /\ {id \in Cpus : is_smt(id) /\ is_main(id)}' = {id \in Cpus : is_smt(id) /\ is_main(id)}
    BY <1>2, <1>5
<1>7. getSysCPUs' = getSysCPUs
    BY <1>4, <1>6 DEF getSysCPUs
<1>. QED
    BY <1>7

\* So is the layout of the pieces.
LEMMA SameLayout ==
    ASSUME SameInput, topology' = topology
    PROVE  /\ smt_count' = smt_count /\ core_count' = core_count
           /\ \A S, C, pos : Placed(S, C, pos)' <=> Placed(S, C, pos)
           /\ \A q, S, C, pos : Listed(q, S, C, pos)' <=> Listed(q, S, C, pos)
<1>1. n' = n /\ n_threads' = n_threads
    BY DEF SameInput
<1>2. smt_count' = smt_count /\ core_count' = core_count
    BY DEF smt_count, core_count
<1>3. thread_count' = thread_count
    BY <1>2 DEF thread_count
<1>4. \A t : distribute(t)' = distribute(t)
    BY <1>2 DEF distribute
<1>5. active' = active /\ leftover' = leftover /\ base' = base
    BY <1>1, <1>3, <1>4 DEF active, leftover, base
<1>6. total_weight' = total_weight
    BY <1>5 DEF total_weight
<1>7. \A c : /\ smtThreads(c)' = smtThreads(c) /\ coreThreads(c)' = coreThreads(c)
             /\ smtWeight(c)' = smtWeight(c)
    BY <1>5 DEF smtThreads, coreThreads, smtWeight
<1>8. \A e : ThreadsOf(e)' = ThreadsOf(e) /\ WeightOf(e)' = WeightOf(e) /\ IdsOf(e)' = IdsOf(e)
    BY <1>2, <1>7 DEF ThreadsOf, WeightOf, IdsOf, SmtIds, CoreIds
<1>9. \A e : PieceOf(e)' = PieceOf(e)
    BY <1>1, <1>6, <1>8 DEF PieceOf, ItemOf
<1>10. \A S, C, pos : Placed(S, C, pos)' <=> Placed(S, C, pos)
    BY <1>1, <1>8 DEF Placed
<1>11. \A q, S, C, pos : Listed(q, S, C, pos)' <=> Listed(q, S, C, pos)
    BY <1>1, <1>8, <1>9 DEF Listed
<1>. QED
    BY <1>2, <1>10, <1>11

LaterLabels == {"create", "join", "returned", "thrown"}

\* Once the work is distributed nothing changes the lists.
LEMMA ListsStay ==
    ASSUME IInv, Distributed, SameInput, topology' = topology, dist' = dist, pc' \in LaterLabels
    PROVE  Inputs' /\ Lists' /\ Distributed' /\ Early'
<1>1. Inputs' /\ pc' \notin {"read", "distribute"}
    BY DEF IInv, Inputs, SameInput, LaterLabels
<1>2. Distributed' /\ Early'
    BY <1>1 DEF Distributed, Early
<1>3. topology' = getSysCPUs'
    BY SameSys DEF IInv, Lists, Distributed
<1>4. PICK pos : Laid(pos)
    BY DEF IInv, Lists
<1>5. PICK S, C : S = smt_count /\ C = core_count
    OBVIOUS
<1>6. Placed(S, C, pos) /\ Listed(dist, S, C, pos)
    BY <1>4, <1>5 DEF Laid
<1>7. smt_count' = S /\ core_count' = C /\ Placed(S, C, pos)'
    BY <1>5, <1>6, SameLayout
<1>8. PICK q : q = dist
    OBVIOUS
<1>9. Listed(q, S, C, pos)'
    BY <1>6, <1>8, SameLayout
<1>10. Listed(dist, S, C, pos)'
    BY <1>8, <1>9 DEF Listed
<1>11. Laid(pos)'
  <2>1. Placed(smt_count, core_count, pos)'
    BY <1>7 DEF Placed
  <2>2. Listed(dist, smt_count, core_count, pos)'
    BY <1>7, <1>10 DEF Listed
  <2>. QED
    BY <2>1, <2>2 DEF Laid
<1>. QED
    BY <1>1, <1>2, <1>3, <1>11 DEF Lists, LaterLabels

\* What the list says of the numbers of threads and steps.
LEMMA ListIs ==
    ASSUME IInv, Distributed
    PROVE  /\ n_threads \in Nat /\ n \in Nat /\ Len(dist) = n_threads /\ DOMAIN dist = Threads
           /\ \A t \in Threads : dist[t].work \in Nat
<1>1. Inputs /\ topology = getSysCPUs
    BY DEF IInv, Lists, Distributed
<1>2. PICK S, C : Read(S, C)
    BY <1>1, TopologyRead
<1>3. Counts(S, C)
    BY <1>2 DEF Read
<1>4. PICK pos : Laid(pos)
    BY DEF IInv, Lists
<1>5. Placed(S, C, pos) /\ Listed(dist, S, C, pos)
    BY <1>3, <1>4 DEF Counts, Laid
<1>6. \A t \in Threads : dist[t].work \in Nat
    BY <1>3, <1>5, WorkIs DEF Threads
<1>. QED
    BY <1>1, <1>5, <1>6 DEF Inputs, Listed, Threads

\* The invariant holds at first.
LEMMA Initially ==
    ASSUME Init
    PROVE  IInv
<1>1. Inputs
    BY ConstAssumption DEF Init, Inputs
<1>. QED
    BY <1>1 DEF Init, IInv, Lists, Early, Arrays, Work, Distributed

\* The topology is read.
LEMMA ReadStep ==
    ASSUME IInv, getSysCPUTopology
    PROVE  IInv'
<1>1. SameInput /\ pc' = "distribute" /\ topology' = getSysCPUs /\ ~Distributed
    BY DEF getSysCPUTopology, input, SameInput, Distributed
<1>2. Inputs'
    BY <1>1 DEF IInv, Inputs, SameInput
<1>3. topology' = getSysCPUs'
    BY <1>1, SameSys
<1>4. Lists' /\ Early'
    BY <1>1, <1>3 DEF getSysCPUTopology, IInv, Lists, Early, Distributed
<1>. QED
    BY <1>1, <1>2, <1>4 DEF IInv, Arrays, Work, Distributed

\* The work is distributed.
LEMMA DistributeStep ==
    ASSUME IInv, Distribute
    PROVE  IInv'
<1>1. /\ SameInput /\ topology' = topology /\ dist' = distributeWork /\ pc = "distribute" /\ pc' = "create"
      /\ ~Distributed /\ Distributed'
    BY DEF Distribute, input, SameInput, Distributed
<1>2. Inputs /\ Inputs' /\ topology = getSysCPUs /\ topology' = getSysCPUs'
    BY <1>1, SameSys DEF IInv, Inputs, SameInput, Lists
<1>3. PICK S, C : Read(S, C)
    BY <1>2, TopologyRead
<1>4. Counts(S, C) /\ S = smt_count /\ C = core_count
    BY <1>3 DEF Read, Counts
<1>5. PICK pos : Placed(S, C, pos)
    BY <1>4, Position
<1>6. PICK q : q = distributeWork
    OBVIOUS
<1>7. Listed(q, S, C, pos)
    BY <1>4, <1>5, <1>6, Distribution
<1>8. Placed(S, C, pos)' /\ Listed(q, S, C, pos)' /\ smt_count' = S /\ core_count' = C
    BY <1>1, <1>4, <1>5, <1>7, SameLayout
<1>9. Laid(pos)'
  <2>1. Placed(smt_count, core_count, pos)'
    BY <1>8 DEF Placed
  <2>2. Listed(dist, smt_count, core_count, pos)'
    BY <1>1, <1>6, <1>8 DEF Listed
  <2>. QED
    BY <2>1, <2>2 DEF Laid
<1>10. Lists' /\ Early'
    BY <1>1, <1>2, <1>9 DEF Lists, Early
<1>11. n_threads \in Nat /\ n_threads' = n_threads /\ DOMAIN dist' = 1 .. n_threads
    BY <1>1, <1>2, <1>6, <1>7 DEF Inputs, SameInput, Listed
<1>12. /\ thread' = [t \in 1 .. n_threads |-> "none"] /\ piece' = [t \in 1 .. n_threads |-> {}]
       /\ results' = [t \in 1 .. n_threads |-> {}]
       /\ current_n' = 0 /\ i' = 1 /\ s' = <<>>
    BY <1>1, <1>11 DEF Distribute, IInv, Early
<1>13. Arrays'
    BY <1>11, <1>12 DEF Arrays, Threads
<1>14. Launched' = 0 /\ Added' = 0
    BY <1>1, <1>12 DEF Launched, Added
<1>15. Consecutive(0, 0)'
  <2> DEFINE h == [x \in 0 .. 0 |-> 0]
  <2>1. h \in [0 .. 0 -> Nat] /\ h[0] = 0 /\ 1 .. 0 = {}
    OBVIOUS
  <2> HIDE DEF h
  <2>. QED
    BY <2>1 DEF Consecutive
<1>16. Consecutive(Launched, current_n)'
    BY <1>12, <1>14, <1>15 DEF Consecutive
<1>17. s' \in [1 .. 0 -> SUBSET Int]
    BY <1>12
<1>18. Work'
    BY <1>1, <1>11, <1>12, <1>14, <1>16, <1>17 DEF Work, Threads
<1>. QED
    BY <1>2, <1>10, <1>13, <1>18 DEF IInv

\* One more piece follows the others.
LEMMA OneMore ==
    ASSUME NEW k \in Nat, NEW m \in Nat, Consecutive(k, m), k + 1 \in Threads, n_threads \in Nat,
           piece \in [Threads -> SUBSET Int], dist' = dist, dist[k + 1].work \in Nat,
           piece' = [piece EXCEPT ![k + 1] = m .. m + dist[k + 1].work - 1]
    PROVE  Consecutive(k + 1, m + dist[k + 1].work)'
<1>1. PICK h \in [0 .. k -> Nat] :
          /\ h[0] = 0 /\ h[k] = m
          /\ \A t \in 1 .. k : h[t] = h[t - 1] + dist[t].work /\ piece[t] = h[t - 1] .. h[t] - 1
    BY DEF Consecutive
<1>2. PICK w \in Nat : w = dist[k + 1].work
    OBVIOUS
<1> DEFINE g == [x \in 0 .. k + 1 |-> IF x = k + 1 THEN m + w ELSE h[x]]
<1>3. /\ g \in [0 .. k + 1 -> Nat] /\ g[k + 1] = m + w
      /\ \A x \in 0 .. k : g[x] = h[x]
    BY <1>1
<1> HIDE DEF g
<1>4. g[0] = 0 /\ g[k] = m
    BY <1>1, <1>3
<1>5. ASSUME NEW t \in 1 .. k + 1
      PROVE  g[t] = g[t - 1] + dist[t].work /\ piece'[t] = g[t - 1] .. g[t] - 1
  <2>1. CASE t = k + 1
    <3>1. t - 1 = k
        BY <2>1
    <3>2. piece'[t] = m .. m + w - 1
        BY <2>1, <1>2 DEF Threads
    <3>. QED
        BY <2>1, <3>1, <3>2, <1>2, <1>3, <1>4
  <2>2. CASE t # k + 1
    <3>1. t \in 1 .. k /\ t \in 0 .. k /\ t - 1 \in 0 .. k /\ t \in Threads
        BY <2>2 DEF Threads
    <3>2. piece'[t] = piece[t]
        BY <2>2, <3>1
    <3>3. h[t] = h[t - 1] + dist[t].work /\ piece[t] = h[t - 1] .. h[t] - 1
        BY <3>1, <1>1
    <3>4. g[t] = h[t] /\ g[t - 1] = h[t - 1]
        BY <3>1, <1>3
    <3>. QED
        BY <3>2, <3>3, <3>4
  <2>. QED
    BY <2>1, <2>2
<1>. QED
    BY <1>2, <1>3, <1>4, <1>5 DEF Consecutive

\* The pieces that follow each other stay.
LEMMA SamePieces ==
    ASSUME dist' = dist, piece' = piece
    PROVE  \A k, m : Consecutive(k, m) => Consecutive(k, m)'
BY DEF Consecutive

\* The work is distributed, and no thread was refused.
Going == IInv /\ Distributed /\ pc # "thrown"

\* What the invariant says then.
LEMMA GoingIs ==
    ASSUME Going
    PROVE  /\ Inputs /\ Lists /\ Distributed
           /\ n_threads \in Nat /\ Len(dist) = n_threads /\ DOMAIN thread = Threads
           /\ \A t \in Threads : dist[t].work \in Nat
           /\ thread \in [Threads -> {"none", "running", "ended"}]
           /\ piece \in [Threads -> SUBSET Int] /\ results \in [Threads -> SUBSET Int]
           /\ current_n \in Nat /\ i \in Nat
           /\ Launched \in 0 .. n_threads /\ Consecutive(Launched, current_n)
           /\ \A t \in Threads : thread[t] # "none" <=> t <= Launched
           /\ \A t \in Threads : thread[t] = "ended" => results[t] = piece[t]
           /\ Added \in 0 .. n_threads /\ s \in [1 .. Added -> SUBSET Int]
           /\ \A t \in 1 .. Added : thread[t] = "ended" /\ s[t] = piece[t]
           /\ pc = "returned" => Added = n_threads
           /\ pc \in LaterLabels
<1>1. IInv /\ Distributed /\ pc # "thrown" /\ Inputs /\ Lists /\ Arrays /\ Work
    BY DEF Going, IInv
<1>2. n_threads \in Nat /\ Len(dist) = n_threads /\ \A t \in Threads : dist[t].work \in Nat
    BY <1>1, ListIs
<1>3. pc \in LaterLabels
    BY <1>1 DEF Lists, Distributed, LaterLabels
<1>. QED
    BY <1>1, <1>2, <1>3 DEF Arrays, Work

\* A thread is launched.
LEMMA CreateStep ==
    ASSUME IInv, create
    PROVE  IInv'
<1>1. /\ SameInput /\ topology' = topology /\ dist' = dist /\ pc' = pc /\ pc = "create"
      /\ results' = results /\ s' = s /\ i' = i + 1 /\ Going
    BY DEF create, input, SameInput, Going, Distributed
<1>2. Inputs' /\ Lists' /\ Distributed' /\ Early'
    BY <1>1, GoingIs, ListsStay DEF Going
<1>3. n_threads \in Nat /\ n_threads' = n_threads /\ Threads' = Threads /\ Launched = i - 1 /\ Added = 0
    BY <1>1, GoingIs DEF Threads, SameInput, Launched, Added
<1>4. i \in Nat /\ i <= n_threads
    BY <1>1, <1>3, GoingIs DEF create
<1>5. PICK k \in Nat : k = i - 1
    BY <1>1, <1>3, <1>4, GoingIs
<1>6. /\ Launched = k /\ i = k + 1 /\ k + 1 \in Threads
      /\ Launched' = k + 1 /\ Added' = 0
    BY <1>1, <1>3, <1>4, <1>5 DEF Threads, Launched, Added
<1>7. PICK m, w \in Nat : m = current_n /\ w = dist[k + 1].work
    BY <1>1, <1>6, GoingIs
<1>8. /\ thread' = [thread EXCEPT ![k + 1] = "running"]
      /\ piece' = [piece EXCEPT ![k + 1] = m .. m + w - 1]
      /\ current_n' = m + w
    BY <1>6, <1>7 DEF create
<1>9. Consecutive(k + 1, m + w)'
    BY <1>1, <1>3, <1>6, <1>7, <1>8, GoingIs, OneMore
<1>10. Arrays'
  <2>1. thread' \in [Threads -> {"none", "running", "ended"}]
    BY <1>1, <1>8, GoingIs
  <2>2. piece' \in [Threads -> SUBSET Int]
    <3>1. PICK set : set = m .. m + w - 1
        OBVIOUS
    <3>2. set \in SUBSET Int
        BY <3>1
    <3>. QED
        BY <3>1, <3>2, <1>1, <1>8, GoingIs
  <2>3. results' \in [Threads -> SUBSET Int]
    BY <1>1, GoingIs
  <2>. QED
    BY <2>1, <2>2, <2>3, <1>1, <1>3, <1>4, <1>7, <1>8 DEF Arrays
<1>11. ASSUME NEW t \in Threads
       PROVE  /\ thread'[t] # "none" <=> t <= k + 1
              /\ thread'[t] = "ended" => results[t] = piece'[t]
  <2>1. CASE t = k + 1
    BY <2>1, <1>1, <1>8, GoingIs
  <2>2. CASE t # k + 1
    <3>1. thread'[t] = thread[t] /\ piece'[t] = piece[t]
        BY <2>2, <1>8, <1>1, GoingIs
    <3>2. t <= k <=> t <= k + 1
        BY <2>2, <1>3 DEF Threads
    <3>3. thread[t] # "none" <=> t <= k
        BY <1>1, <1>6, GoingIs
    <3>4. thread[t] = "ended" => results[t] = piece[t]
        BY <1>1, GoingIs
    <3>. QED
        BY <3>1, <3>2, <3>3, <3>4
  <2>. QED
    BY <2>1, <2>2
<1>12. Consecutive(Launched, current_n)'
    BY <1>6, <1>8, <1>9 DEF Consecutive
<1>13. s' \in [1 .. 0 -> SUBSET Int]
    BY <1>1, <1>3, GoingIs
<1>14. Launched' \in 0 .. n_threads /\ Added' \in 0 .. n_threads
    BY <1>3, <1>6 DEF Threads
<1>15. /\ \A t \in Threads' : thread'[t] # "none" <=> t <= Launched'
       /\ \A t \in Threads' : thread'[t] = "ended" => results'[t] = piece'[t]
       /\ \A t \in 1 .. Added' : thread'[t] = "ended" /\ s'[t] = piece'[t]
    BY <1>1, <1>3, <1>6, <1>11
<1>16. Work'
    BY <1>1, <1>3, <1>6, <1>12, <1>13, <1>14, <1>15 DEF Work
<1>. QED
    BY <1>2, <1>10, <1>16 DEF IInv

\* A thread that is refused.
LEMMA CreateFailsStep ==
    ASSUME IInv, createFails
    PROVE  IInv'
<1>1. /\ SameInput /\ topology' = topology /\ dist' = dist /\ pc' = "thrown" /\ pc = "create"
      /\ thread' = thread /\ piece' = piece /\ results' = results /\ current_n' = current_n /\ i' = i
    BY DEF createFails, input, SameInput
<1>2. Distributed /\ Threads' = Threads
    BY <1>1 DEF Distributed, SameInput, Threads
<1>3. Inputs' /\ Lists' /\ Distributed' /\ Early'
    BY <1>1, <1>2, ListsStay DEF LaterLabels
<1>4. Arrays'
    BY <1>1, <1>2 DEF IInv, Arrays
<1>5. Work'
    BY <1>1 DEF Work
<1>. QED
    BY <1>3, <1>4, <1>5 DEF IInv

\* All threads are launched.
LEMMA EndCreateStep ==
    ASSUME IInv, endCreate
    PROVE  IInv'
<1>1. /\ SameInput /\ topology' = topology /\ dist' = dist /\ pc = "create" /\ pc' = "join" /\ Going
      /\ thread' = thread /\ piece' = piece /\ results' = results /\ current_n' = current_n
      /\ i > Len(dist) /\ i' = 1 /\ s' = s
    BY DEF endCreate, input, SameInput, Going, Distributed
<1>2. Inputs' /\ Lists' /\ Distributed' /\ Early'
    BY <1>1, GoingIs, ListsStay DEF Going, LaterLabels
<1>3. n_threads \in Nat /\ n_threads' = n_threads /\ Threads' = Threads /\ i > n_threads /\ i \in Nat
    BY <1>1, GoingIs DEF Threads, SameInput
<1>4. Launched = n_threads /\ Launched' = n_threads /\ Added = 0 /\ Added' = 0
    BY <1>1, <1>3, GoingIs DEF Launched, Added
<1>5. Arrays'
    BY <1>1, <1>3, GoingIs DEF Arrays
<1>6. Consecutive(Launched, current_n)'
  <2>1. PICK k, m : k = n_threads /\ m = current_n
    OBVIOUS
  <2>2. Consecutive(k, m)
    BY <2>1, <1>1, <1>4, GoingIs
  <2>3. Consecutive(k, m)'
    BY <2>2, <1>1, SamePieces
  <2>. QED
    BY <2>1, <2>3, <1>1, <1>4 DEF Consecutive
<1>7. Work'
    BY <1>1, <1>3, <1>4, <1>6, GoingIs DEF Work
<1>. QED
    BY <1>2, <1>5, <1>7 DEF IInv

\* A thread computes its piece.
LEMMA IntegrateStep ==
    ASSUME IInv, NEW x \in DOMAIN thread, integrate(x)
    PROVE  IInv'
<1>1. /\ SameInput /\ topology' = topology /\ dist' = dist /\ pc' = pc
      /\ piece' = piece /\ current_n' = current_n /\ i' = i /\ s' = s
      /\ thread[x] = "running" /\ thread' = [thread EXCEPT ![x] = "ended"]
      /\ results' = results \/ results' = [results EXCEPT ![x] = piece[x]]
      /\ pc # "thrown" => results' = [results EXCEPT ![x] = piece[x]]
    BY DEF integrate, input, SameInput
<1>2. Distributed
    BY DEF IInv, Early
<1>3. Inputs' /\ Lists' /\ Distributed' /\ Early'
  <2>1. pc' \in LaterLabels
    BY <1>1, <1>2 DEF IInv, Lists, Distributed, LaterLabels
  <2>. QED
    BY <2>1, <1>1, <1>2, ListsStay
<1>4. n_threads' = n_threads /\ Threads' = Threads /\ x \in Threads
    BY <1>1, <1>2 DEF Threads, SameInput, IInv, Arrays
<1>5. Arrays'
  <2>1. /\ thread \in [Threads -> {"none", "running", "ended"}]
        /\ piece \in [Threads -> SUBSET Int] /\ results \in [Threads -> SUBSET Int]
        /\ current_n \in Nat /\ i \in Nat
    BY <1>2 DEF IInv, Arrays
  <2>2. thread' \in [Threads -> {"none", "running", "ended"}]
    BY <2>1, <1>1
  <2>3. results' \in [Threads -> SUBSET Int]
    BY <2>1, <1>1, <1>4
  <2>. QED
    BY <2>1, <2>2, <2>3, <1>1, <1>4 DEF Arrays
<1>6. ASSUME pc # "thrown"
      PROVE  Work'
  <2>1. Going /\ results' = [results EXCEPT ![x] = piece[x]]
    BY <1>1, <1>2, <1>6 DEF Going
  <2>2. Launched' = Launched /\ Added' = Added
    BY <1>1, <1>4 DEF Launched, Added
  <2>3. Consecutive(Launched, current_n)'
    <3>1. PICK k, m : k = Launched /\ m = current_n
        OBVIOUS
    <3>2. Consecutive(k, m)
        BY <3>1, <2>1, GoingIs
    <3>3. Consecutive(k, m)'
        BY <3>2, <1>1, SamePieces
    <3>. QED
        BY <3>1, <3>3, <1>1, <2>2 DEF Consecutive
  <2>4. ASSUME NEW t \in Threads
        PROVE  /\ thread'[t] # "none" <=> thread[t] # "none"
               /\ thread[t] = "ended" => thread'[t] = "ended"
               /\ thread'[t] = "ended" => results'[t] = piece[t]
    <3>1. CASE t = x
        BY <3>1, <2>1, <1>1, GoingIs
    <3>2. CASE t # x
        BY <3>2, <2>1, <1>1, GoingIs
    <3>. QED
        BY <3>1, <3>2
  <2>5. /\ \A t \in Threads : thread'[t] # "none" <=> t <= Launched
        /\ \A t \in Threads : thread'[t] = "ended" => results'[t] = piece[t]
    BY <2>1, <2>4, GoingIs
  <2>6. \A t \in 1 .. Added : t \in Threads /\ thread'[t] = "ended" /\ s[t] = piece[t]
    <3>1. \A t \in 1 .. Added : t \in Threads
        BY <2>1, GoingIs DEF Threads
    <3>. QED
        BY <3>1, <2>1, <2>4, GoingIs
  <2>. QED
    BY <1>1, <1>4, <2>1, <2>2, <2>3, <2>5, <2>6, GoingIs DEF Work
<1>7. pc = "thrown" => Work'
    BY <1>1 DEF Work
<1>. QED
    BY <1>3, <1>5, <1>6, <1>7 DEF IInv

\* A thread is joined, and its result added.
LEMMA JoinStep ==
    ASSUME IInv, join
    PROVE  IInv'
<1>1. /\ SameInput /\ topology' = topology /\ dist' = dist /\ pc' = pc /\ pc = "join" /\ Going
      /\ thread' = thread /\ piece' = piece /\ results' = results /\ current_n' = current_n
      /\ i <= n_threads /\ i' = i + 1 /\ thread[i] = "ended" /\ s' = s \o <<results[i]>>
    BY DEF join, input, SameInput, Going, Distributed
<1>2. Inputs' /\ Lists' /\ Distributed' /\ Early'
    BY <1>1, GoingIs, ListsStay DEF Going
<1>3. n_threads \in Nat /\ n_threads' = n_threads /\ Threads' = Threads /\ i \in Nat
    BY <1>1, GoingIs DEF Threads, SameInput
<1>4. PICK k \in Nat : k = i - 1
    BY <1>1, <1>3, GoingIs DEF Added
<1>5. /\ Added = k /\ Added' = k + 1 /\ i = k + 1 /\ k + 1 \in Threads
      /\ Launched = n_threads /\ Launched' = n_threads
    BY <1>1, <1>3, <1>4 DEF Threads, Launched, Added
<1>6. Arrays'
    BY <1>1, <1>3, GoingIs DEF Arrays
<1>7. Consecutive(Launched, current_n)'
  <2>1. PICK x, m : x = n_threads /\ m = current_n
    OBVIOUS
  <2>2. Consecutive(x, m)
    BY <2>1, <1>1, <1>5, GoingIs
  <2>3. Consecutive(x, m)'
    BY <2>2, <1>1, SamePieces
  <2>. QED
    BY <2>1, <2>3, <1>1, <1>3, <1>5 DEF Consecutive
<1>8. PICK r \in SUBSET Int : r = results[k + 1]
    BY <1>1, <1>5, GoingIs
<1>9. s \in [1 .. k -> SUBSET Int] /\ s' = s \o <<r>>
    BY <1>1, <1>5, <1>8, GoingIs
<1>10. /\ s' \in [1 .. k + 1 -> SUBSET Int] /\ s'[k + 1] = r
       /\ \A t \in 1 .. k : s'[t] = s[t]
  <2>1. s \in Seq(SUBSET Int) /\ Len(s) = k
    BY <1>9
  <2>2. s' \in Seq(SUBSET Int) /\ Len(s') = k + 1
    BY <2>1, <1>9
  <2>3. s' \in [1 .. k + 1 -> SUBSET Int]
    BY <2>2
  <2>4. s'[k + 1] = r
    BY <2>1, <1>9
  <2>5. \A t \in 1 .. k : s'[t] = s[t]
    BY <2>1, <1>9
  <2>. QED
    BY <2>3, <2>4, <2>5
<1>11. r = piece[k + 1] /\ thread[k + 1] = "ended"
    BY <1>1, <1>5, <1>8, GoingIs
<1>12. \A t \in 1 .. k + 1 : thread[t] = "ended" /\ s'[t] = piece[t]
  <2>1. \A t \in 1 .. k : thread[t] = "ended" /\ s[t] = piece[t]
    BY <1>1, <1>5, GoingIs
  <2>2. \A t \in 1 .. k + 1 : t = k + 1 \/ t \in 1 .. k
    OBVIOUS
  <2>. QED
    BY <2>1, <2>2, <1>10, <1>11
<1>13. k + 1 \in 0 .. n_threads
    BY <1>3, <1>5 DEF Threads
<1>14. Work'
    BY <1>1, <1>3, <1>5, <1>7, <1>10, <1>12, <1>13, GoingIs DEF Work
<1>. QED
    BY <1>2, <1>6, <1>14 DEF IInv

\* The sum is returned.
LEMMA EndJoinStep ==
    ASSUME IInv, endJoin
    PROVE  IInv'
<1>1. /\ SameInput /\ topology' = topology /\ dist' = dist /\ pc = "join" /\ pc' = "returned" /\ Going
      /\ thread' = thread /\ piece' = piece /\ results' = results /\ current_n' = current_n
      /\ i > n_threads /\ i' = i /\ s' = s
    BY DEF endJoin, input, SameInput, Going, Distributed
<1>2. Inputs' /\ Lists' /\ Distributed' /\ Early'
    BY <1>1, GoingIs, ListsStay DEF Going, LaterLabels
<1>3. n_threads \in Nat /\ n_threads' = n_threads /\ Threads' = Threads /\ i \in Nat
    BY <1>1, GoingIs DEF Threads, SameInput
<1>4. /\ Launched = n_threads /\ Launched' = n_threads /\ Added = i - 1 /\ Added' = i - 1
      /\ i - 1 = n_threads
  <2>1. Launched = n_threads /\ Launched' = n_threads /\ Added = i - 1 /\ Added' = i - 1
    BY <1>1, <1>3 DEF Launched, Added
  <2>2. Added <= n_threads
    BY <1>1, <1>3, GoingIs
  <2>. QED
    BY <2>1, <2>2, <1>1, <1>3
<1>5. Arrays'
    BY <1>1, <1>3, GoingIs DEF Arrays
<1>6. Consecutive(Launched, current_n)'
  <2>1. PICK k, m : k = n_threads /\ m = current_n
    OBVIOUS
  <2>2. Consecutive(k, m)
    BY <2>1, <1>1, <1>4, GoingIs
  <2>3. Consecutive(k, m)'
    BY <2>2, <1>1, SamePieces
  <2>. QED
    BY <2>1, <2>3, <1>1, <1>3, <1>4 DEF Consecutive
<1>7. Work'
    BY <1>1, <1>3, <1>4, <1>6, GoingIs DEF Work
<1>. QED
    BY <1>2, <1>5, <1>7 DEF IInv

\* The invariant holds after every step.
LEMMA Steps ==
    ASSUME IInv, [Next]_vars
    PROVE  IInv'
<1>1. CASE Next
    BY <1>1, ReadStep, DistributeStep, CreateStep, CreateFailsStep, EndCreateStep, JoinStep,
       EndJoinStep, IntegrateStep DEF Next
<1>2. CASE UNCHANGED vars
  <2>1. /\ machine' = machine /\ sysfs' = sysfs /\ n' = n /\ n_threads' = n_threads
        /\ topology' = topology /\ dist' = dist /\ pc' = pc /\ i' = i /\ current_n' = current_n
        /\ thread' = thread /\ piece' = piece /\ results' = results /\ s' = s
    BY <1>2 DEF vars
  <2>2. SameInput
    BY <2>1 DEF SameInput
  <2>3. CASE ~Distributed
    <3>1. topology' = getSysCPUs \/ pc = "read"
        BY <2>1 DEF IInv, Lists
    <3>2. topology' = getSysCPUs' \/ pc = "read"
        BY <3>1, <2>2, SameSys
    <3>. QED
        BY <3>2, <2>1, <2>3 DEF IInv, Inputs, Lists, Early, Arrays, Work, Distributed
  <2>4. CASE Distributed
    <3>1. pc' \in LaterLabels
        BY <2>1, <2>4 DEF IInv, Lists, Distributed, LaterLabels
    <3>2. Inputs' /\ Lists' /\ Distributed' /\ Early'
        BY <3>1, <2>1, <2>2, <2>4, ListsStay
    <3>3. Arrays'
        BY <2>1, <2>4 DEF IInv, Arrays, Threads
    <3>4. Launched' = Launched /\ Added' = Added /\ Threads' = Threads
        BY <2>1 DEF Launched, Added, Threads
    <3>5. Consecutive(Launched, current_n) => Consecutive(Launched, current_n)'
        BY <2>1, <3>4 DEF Consecutive
    <3>6. Work'
        BY <2>1, <2>4, <3>4, <3>5 DEF IInv, Work
    <3>. QED
        BY <3>2, <3>3, <3>6 DEF IInv
  <2>. QED
    BY <2>3, <2>4
<1>. QED
    BY <1>1, <1>2

\* The lists stay those that were computed from the machine, and the pieces
\* of the threads follow each other (scheduleIntegrate()).
THEOREM Invariance == Spec => []IInv
BY Initially, Steps, PTL DEF Spec

-----------------------------------------------------------------------------
(* The properties.                                                         *)

\* f[1], f[2] and so on are intervals of lengths w[1], w[2] that follow each other.
Following(k, h, w, f) ==
    /\ h \in [0 .. k -> Nat] /\ h[0] = 0
    /\ f \in [1 .. k -> SUBSET Int] /\ w \in [1 .. k -> Nat]
    /\ \A t \in 1 .. k : h[t] = h[t - 1] + w[t] /\ f[t] = h[t - 1] .. h[t] - 1

\* They do not overlap, and leave out nothing before m.
Partition(k, m, f) ==
    /\ \A t, u \in 1 .. k : t # u => f[t] \intersect f[u] = {}
    /\ UNION {f[t] : t \in 1 .. k} = 0 .. m - 1

\* Intervals that follow each other are a partition.
LEMMA Intervals ==
    ASSUME NEW k \in Nat, NEW h, NEW w, NEW f, Following(k, h, w, f)
    PROVE  Partition(k, h[k], f)
<1>0. /\ h \in [0 .. k -> Nat] /\ h[0] = 0
      /\ f \in [1 .. k -> SUBSET Int] /\ w \in [1 .. k -> Nat]
      /\ \A t \in 1 .. k : h[t] = h[t - 1] + w[t] /\ f[t] = h[t - 1] .. h[t] - 1
    BY DEF Following
<1>1. \A t \in 1 .. k : /\ t \in 0 .. k /\ t - 1 \in 0 .. k
                        /\ h[t] \in Nat /\ h[t - 1] \in Nat /\ h[t - 1] <= h[t]
    BY <1>0
<1>2. ASSUME NEW t \in 0 .. k, NEW u \in 0 .. k, t <= u
      PROVE  h[t] <= h[u]
  <2> DEFINE T == {d \in Nat : t + d <= k => h[t] <= h[t + d]}
  <2>1. 0 \in T
    BY <1>0
  <2>2. ASSUME NEW d \in Nat, d \in T
        PROVE  d + 1 \in T
    <3> SUFFICES ASSUME t + (d + 1) <= k PROVE h[t] <= h[t + (d + 1)]
        OBVIOUS
    <3>1. h[t] <= h[t + d] /\ t + d \in 0 .. k
        BY <2>2
    <3>2. PICK v \in 1 .. k : v = t + (d + 1) /\ v - 1 = t + d
        OBVIOUS
    <3>3. h[v - 1] <= h[v] /\ h[v] \in Nat /\ h[v - 1] \in Nat
        BY <1>1
    <3>4. h[t] <= h[v]
      <4>1. h[t] <= h[v - 1] /\ h[t] \in Nat
        BY <3>1, <3>2, <1>0
      <4>. QED
        BY <3>3, <4>1
    <3>. QED
        BY <3>2, <3>4
  <2> HIDE DEF T
  <2>3. PICK d \in Nat : d = u - t
    BY <1>2
  <2>4. d \in T
    BY <2>1, <2>2, NatSetInduction
  <2>5. t + d = u /\ u <= k
    BY <2>3
  <2>6. t + d <= k => h[t] <= h[t + d]
    BY <2>4 DEF T
  <2>. QED
    BY <2>5, <2>6
<1>3. ASSUME NEW t \in 1 .. k, NEW u \in 1 .. k, t < u
      PROVE  f[t] \intersect f[u] = {}
  <2>1. h[t] <= h[u - 1] /\ h[t] \in Nat /\ h[u - 1] \in Nat
    BY <1>1, <1>2, <1>3
  <2>2. f[t] = h[t - 1] .. h[t] - 1 /\ f[u] = h[u - 1] .. h[u] - 1
    BY <1>0
  <2>3. PICK a, b, c, d \in Nat : a = h[t - 1] /\ b = h[t] /\ c = h[u - 1] /\ d = h[u]
    BY <1>1
  <2>4. (a .. b - 1) \intersect (c .. d - 1) = {}
    BY <2>1, <2>3
  <2>. QED
    BY <2>2, <2>3, <2>4
<1>4. \A t, u \in 1 .. k : t # u => f[t] \intersect f[u] = {}
  <2>1. \A t, u \in 1 .. k : t # u => t < u \/ u < t
    OBVIOUS
  <2>. QED
    BY <1>3, <2>1
<1>5. ASSUME NEW t \in 1 .. k, NEW x \in f[t]
      PROVE  x \in 0 .. h[k] - 1
  <2>1. f[t] = h[t - 1] .. h[t] - 1 /\ h[t] \in Nat /\ h[t - 1] \in Nat /\ h[t] <= h[k] /\ h[k] \in Nat
    BY <1>0, <1>1, <1>2
  <2>. QED
    BY <2>1
<1>6. ASSUME NEW x \in 0 .. h[k] - 1
      PROVE  \E t \in 1 .. k : x \in f[t]
  <2> DEFINE T == {j \in Nat : j <= k /\ x < h[j] => \E t \in 1 .. k : x \in f[t]}
  <2>1. 0 \in T
    BY <1>0
  <2>2. ASSUME NEW j \in Nat, j \in T
        PROVE  j + 1 \in T
    <3> SUFFICES ASSUME j + 1 <= k, x < h[j + 1] PROVE \E t \in 1 .. k : x \in f[t]
        OBVIOUS
    <3>1. CASE x < h[j]
        BY <2>2, <3>1
    <3>2. CASE ~(x < h[j])
      <4>1. PICK v \in 1 .. k : v = j + 1 /\ v - 1 = j
        OBVIOUS
      <4>2. f[v] = h[v - 1] .. h[v] - 1 /\ h[v - 1] \in Nat /\ h[v] \in Nat
        BY <1>0, <1>1
      <4>3. x \in f[v]
        BY <3>2, <4>1, <4>2
      <4>. QED
        BY <4>3
    <3>. QED
        BY <3>1, <3>2
  <2> HIDE DEF T
  <2>3. k \in T
    BY <2>1, <2>2, NatSetInduction
  <2>4. x < h[k]
    <3>1. h[k] \in Nat
        BY <1>0
    <3>. QED
        BY <3>1
  <2>. QED
    BY <2>3, <2>4 DEF T
<1>7. UNION {f[t] : t \in 1 .. k} = 0 .. h[k] - 1
    BY <1>5, <1>6
<1>. QED
    BY <1>4, <1>7 DEF Partition

\* What the invariant says of the sum.
LEMMA SumIs ==
    ASSUME IInv, pc = "returned", n_threads > 0
    PROVE  FewStepsLost
<1>1. Going /\ Launched = n_threads /\ Added = n_threads
    BY GoingIs DEF Going, IInv, Early, Distributed, Launched
<1>2. n_threads \in Nat /\ DOMAIN thread = 1 .. n_threads /\ s \in [1 .. n_threads -> SUBSET Int]
    BY <1>1, GoingIs DEF Threads
<1>3. \A t \in 1 .. n_threads : thread[t] = "ended" /\ s[t] = piece[t]
    BY <1>1, GoingIs
<1>4. PICK h \in [0 .. n_threads -> Nat] :
          /\ h[0] = 0
          /\ \A t \in 1 .. n_threads : h[t] = h[t - 1] + dist[t].work /\ piece[t] = h[t - 1] .. h[t] - 1
    BY <1>1, GoingIs DEF Consecutive
<1>5. PICK w \in [1 .. n_threads -> Nat] : \A t \in 1 .. n_threads : w[t] = dist[t].work
  <2> DEFINE w == [t \in 1 .. n_threads |-> dist[t].work]
  <2>1. w \in [1 .. n_threads -> Nat] /\ \A t \in 1 .. n_threads : w[t] = dist[t].work
    BY <1>1, GoingIs DEF Threads
  <2> HIDE DEF w
  <2>. QED
    BY <2>1
<1>6. \A t \in 1 .. n_threads : h[t] = h[t - 1] + w[t] /\ s[t] = h[t - 1] .. h[t] - 1
    BY <1>3, <1>4, <1>5
<1>7. /\ \A t, u \in 1 .. n_threads : t # u => s[t] \intersect s[u] = {}
      /\ UNION {s[t] : t \in 1 .. n_threads} = 0 .. h[n_threads] - 1
  <2>1. PICK f : f = s
    OBVIOUS
  <2>2. f \in [1 .. n_threads -> SUBSET Int]
    BY <1>2, <2>1
  <2>3. \A t \in 1 .. n_threads : h[t] = h[t - 1] + w[t] /\ f[t] = h[t - 1] .. h[t] - 1
    BY <1>6, <2>1
  <2>4. Following(n_threads, h, w, f)
    BY <1>4, <1>5, <2>2, <2>3 DEF Following
  <2>5. Partition(n_threads, h[n_threads], f)
    BY <1>2, <2>4, Intervals
  <2>. QED
    BY <2>1, <2>5 DEF Partition
<1>8. h[n_threads] <= n /\ n < h[n_threads] + n_threads
  <2>1. Inputs /\ topology = getSysCPUs
    BY DEF IInv, Lists
  <2>2. PICK S, C : Read(S, C)
    BY <2>1, TopologyRead
  <2>3. Counts(S, C)
    BY <2>2 DEF Read
  <2>4. PICK pos : Laid(pos)
    BY <1>1 DEF Going, IInv, Lists
  <2>5. Placed(S, C, pos) /\ Listed(dist, S, C, pos)
    BY <2>3, <2>4 DEF Counts, Laid
  <2>6. Adds(h)
    BY <1>4 DEF Adds
  <2>. QED
    BY <2>3, <2>5, <2>6, Accounts
<1>9. n \in Nat /\ h[n_threads] \in Nat
    BY <1>2, <1>4 DEF IInv, Inputs
<1>10. Sum = 0 .. h[n_threads] - 1
    BY <1>2, <1>7 DEF Sum
<1>11. Cardinality(Sum) = h[n_threads]
    BY <1>9, <1>10, FS_Interval
<1>12. Cardinality(Sum) \in n - n_threads + 1 .. n
    BY <1>2, <1>8, <1>9, <1>11
<1>. QED
    BY <1>2, <1>3, <1>7, <1>10, <1>11, <1>12 DEF FewStepsLost

\* distributeWork() makes as many pieces as there are threads to launch, on every
\* machine and for any number of threads, more than there are CPUs or none.
THEOREM EveryThreadHasAPiece == Spec => []PiecePerThread
<1>1. IInv => PiecePerThread
    BY ListIs DEF PiecePerThread
<1>. QED
    BY <1>1, Invariance, PTL

\* Threads go to the cores with hyperthreads, then to the others, before they go
\* to hyperthreads, and a thread that is pinned is on one core (distributeWork(),
\* getSysCPUTopology()).
THEOREM CoresBeforeHyperthreads == Spec => []Placement
<1>1. ASSUME IInv
      PROVE  Placement
  <2>1. CASE Distributed
    <3>1. Inputs /\ topology = getSysCPUs /\ \E pos : Laid(pos)
        BY <1>1, <2>1 DEF IInv, Lists, Distributed
    <3>. QED
        BY <3>1, WellPlaced
  <2>2. CASE ~Distributed
    BY <2>2 DEF Placement
  <2>. QED
    BY <2>1, <2>2
<1>. QED
    BY <1>1, Invariance, PTL

\* The sum that is returned is of consecutive pieces of threads that have all
\* ended, and misses less than one step for each of them (scheduleIntegrate()).
THEOREM LessThanAStepEach == Spec => []FewStepsLost
<1>1. IInv => FewStepsLost
    BY SumIs DEF FewStepsLost
<1>. QED
    BY <1>1, Invariance, PTL
=============================================================================
