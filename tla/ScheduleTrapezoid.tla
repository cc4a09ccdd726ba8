------------------------- MODULE ScheduleTrapezoid -------------------------
(***************************************************************************)
(* parallelworkloads/CPUTopology.cpp and ScheduleTrapezoid.cpp: the cores  *)
(* are read from /sys, an integral is divided among threads by the cores   *)
(* they run on, computed in pieces, and added up.  The copies in network/  *)
(* are the same.                                                           *)
(*                                                                         *)
(* Quantities of work are computed with doubles and truncated when they    *)
(* go into the list of pieces; here they are exact fractions, rounded down *)
(* once.  A piece is the set of its steps, and so is the sum.              *)
(***************************************************************************)
EXTENDS Integers, Sequences, FiniteSets, FiniteSetsExt

CONSTANTS
    Machines,            \* cpu -> the first of the CPUs on the same core
    MaxThreads, MaxWork, \* of the inputs
    Wrap                 \* 2^32: cpu_id_t is unsigned

ASSUME ConstAssumption ==
    /\ \A m \in Machines : LET x == Cardinality(DOMAIN m) IN
          /\ x \in Nat \ {0} /\ 2 * x < Wrap
          /\ m \in [0 .. x - 1 -> 0 .. x - 1]
          /\ \A id \in DOMAIN m : m[id] <= id /\ m[m[id]] = m[id]
    /\ MaxThreads \in Nat /\ MaxWork \in Nat /\ Wrap \in Nat

VARIABLES
    machine,
    sysfs,     \* can /sys be read?
    n,         \* steps
    n_threads,
    topology,  \* cores with hyperthreads, and without
    dist,      \* CPUs and steps of each thread
    pc,        \* what the scheduling thread does next
    i,         \* its counter
    current_n, \* steps given away
    thread,    \* what each thread does
    piece,     \* what it was told to compute
    results,
    s

vars == <<machine, sysfs, n, n_threads, topology, dist, pc, i, current_n, thread, piece, results, s>>

input == <<machine, sysfs, n, n_threads>>

-----------------------------------------------------------------------------
(* getSysCPUTopology().                                                    *)

Cpus     == DOMAIN machine
Core(id) == {x \in Cpus : machine[x] = machine[id]}

\* thread_siblings_list, with spaces for commas: "0 4", or "0-3" for neighbours.
\* The second number is what follows the first: a range has a minus sign there,
\* which operator>> accepts for an unsigned number.
second(core) ==
    LET a   == Min(core)
        run == Max({b \in core : a .. b \subseteq core})
    IN  IF core = {a} THEN a
        ELSE IF run > a THEN Wrap - run
        ELSE Min(core \ {a})

\* parseCPUSiblings(): nothing to read gives zeros.
siblings(id) ==
    IF sysfs THEN [first |-> Min(Core(id)), second |-> second(Core(id))]
    ELSE [first |-> 0, second |-> 0]

is_smt(id) == siblings(id).first # siblings(id).second

\* A mistake: a core with hyperthreads is counted for each of them.
is_any(id) == TRUE

is_main(id) == id = siblings(id).first

\* The loop over the CPUs takes them in their order: the x-th has x - 1 before it.
InOrder(ids) ==
    [x \in 1 .. Cardinality(ids) |-> CHOOSE id \in ids : Cardinality({b \in ids : b <= id}) = x]

getSysCPUs ==
    [cpus |-> InOrder({id \in Cpus : ~is_smt(id)}),
     smt  |-> LET main == InOrder({id \in Cpus : is_smt(id) /\ is_main(id)})
              IN  [x \in DOMAIN main |-> [id |-> main[x], sibling |-> siblings(main[x]).second]]]

-----------------------------------------------------------------------------
(* distributeWork().  Weights are in tenths: hthread_weight is 3.          *)

smt_count    == Len(topology.smt)
core_count   == Len(topology.cpus)
thread_count == core_count + 2 * smt_count

\* How many of `threads' go to cores with hyperthreads first, then to the other
\* cores, then to hyperthreads.
distribute(threads) ==
    LET smt   == Min({threads, smt_count})
        cores == Min({threads - smt, core_count})
    IN  [smt |-> smt, cores |-> cores, hthreads |-> threads - smt - cores]

active   == distribute(Min({n_threads, thread_count}))
leftover == distribute(n_threads % thread_count)
base     == n_threads \div thread_count

total_weight == 10 * (active.smt + active.cores) + 3 * active.hthreads

One(b) == IF b THEN 1 ELSE 0

\* A mistake: a core with hyperthreads has the threads of one without.
oneThread(c) == base + One(c < leftover.smt) + One(c < leftover.hthreads)

smtThreads(c) == 2 * base + One(c < leftover.smt) + One(c < leftover.hthreads)

coreThreads(c) == base + One(c < leftover.cores)

\* A mistake: every core with hyperthreads counts as one that uses them.
heavy(c) == 13

smtWeight(c) == 10 + 3 * One(c < active.hthreads)

\* The pieces of one core with so many threads and such a weight.
Pieces(ids, threads, weight) ==
    [x \in 1 .. threads |-> [ids |-> ids, work |-> (weight * n) \div (total_weight * threads)]]

\* The loops over the cores, that end at the first without threads.
SmtPieces[c \in 0 .. smt_count] ==
    IF c = smt_count \/ smtThreads(c) = 0 THEN <<>>
    ELSE LET cpu == topology.smt[c + 1]
         IN  Pieces({cpu.id, cpu.sibling}, smtThreads(c), smtWeight(c)) \o SmtPieces[c + 1]

CorePieces[c \in 0 .. core_count] ==
    IF c = core_count \/ coreThreads(c) = 0 THEN <<>>
    ELSE Pieces({topology.cpus[c + 1]}, coreThreads(c), 10) \o CorePieces[c + 1]

distributeWork == SmtPieces[0] \o CorePieces[0]

-----------------------------------------------------------------------------
(* scheduleIntegrate().                                                    *)

getSysCPUTopology ==
    /\ pc = "read"
    /\ topology' = getSysCPUs
    /\ pc' = "distribute"
    /\ UNCHANGED <<input, dist, i, current_n, thread, piece, results, s>>

Distribute ==
    /\ pc = "distribute"
    /\ dist' = distributeWork
    /\ thread' = [t \in DOMAIN dist' |-> "none"]
    /\ piece' = [t \in DOMAIN dist' |-> {}]
    /\ results' = [t \in 1 .. n_threads |-> {}]
    /\ pc' = "create"
    /\ UNCHANGED <<input, topology, i, current_n, s>>

create ==
    /\ pc = "create" /\ i <= Len(dist)
    /\ thread' = [thread EXCEPT ![i] = "running"]
    /\ piece' = [piece EXCEPT ![i] = current_n .. current_n + dist[i].work - 1]
    /\ current_n' = current_n + dist[i].work
    /\ i' = i + 1
    /\ UNCHANGED <<input, topology, dist, pc, results, s>>

\* std::thread() throws: the threads there are are detached and left to
\* themselves, and the results are freed.
createFails ==
    /\ pc = "create" /\ i <= Len(dist)
    /\ pc' = "thrown"
    /\ UNCHANGED <<input, topology, dist, i, current_n, thread, piece, results, s>>

endCreate ==
    /\ pc = "create" /\ i > Len(dist)
    /\ pc' = "join" /\ i' = 1
    /\ UNCHANGED <<input, topology, dist, current_n, thread, piece, results, s>>

\* Where thread t may run: it is pinned if there is little work.  CPU_SET()
\* ignores numbers too large for a set, and the kernel CPUs that are not there.
affinity(t) ==
    IF n <= thread_count * 10 THEN dist[t].ids \intersect Cpus ELSE Cpus

\* launchIntegrate() in a thread.
integrate(t) ==
    /\ thread[t] = "running"
    /\ thread' = [thread EXCEPT ![t] = "ended"]
    /\ results' = IF pc = "thrown" THEN results ELSE [results EXCEPT ![t] = piece[t]]
    /\ UNCHANGED <<input, topology, dist, pc, i, current_n, piece, s>>

\* A thread is joined before its result is used; the loop counts to n_threads.
join ==
    /\ pc = "join" /\ i <= n_threads
    /\ thread[i] = "ended"
    /\ s' = s \o <<results[i]>>
    /\ i' = i + 1
    /\ UNCHANGED <<input, topology, dist, pc, current_n, thread, piece, results>>

endJoin ==
    /\ pc = "join" /\ i > n_threads
    /\ pc' = "returned"
    /\ UNCHANGED <<input, topology, dist, i, current_n, thread, piece, results, s>>

Init ==
    /\ machine \in Machines /\ sysfs \in BOOLEAN
    /\ n \in 0 .. MaxWork /\ n_threads \in 0 .. MaxThreads
    /\ topology = [cpus |-> <<>>, smt |-> <<>>]
    /\ dist = <<>> /\ pc = "read" /\ i = 1 /\ current_n = 0
    /\ thread = <<>> /\ piece = <<>> /\ results = <<>> /\ s = <<>>

Next ==
    \/ getSysCPUTopology \/ Distribute
    \/ create \/ createFails \/ endCreate \/ join \/ endJoin
    \/ \E t \in DOMAIN thread : integrate(t)

Spec == Init /\ [][Next]_vars

-----------------------------------------------------------------------------
Distributed == pc \notin {"read", "distribute"}

\* distributeWork() makes as many pieces as there are threads to launch,
\* whatever the topology: the loop that joins them counts to n_threads, in
\* lists of the length of the distribution.
PiecePerThread == Distributed => Len(dist) = n_threads

\* The cores as far as /sys tells, and the threads that start on one of them.
Cores    == IF sysfs THEN {Core(id) : id \in Cpus} ELSE {{id} : id \in Cpus}
Load(co) == Cardinality({t \in DOMAIN dist : Min(co) \in dist[t].ids})

\* CPUTopology.cpp:71: "Schedule all work to smt cores, then non smt cores, then
\* hyperthreads".  No core without hyperthreads works while one that has them
\* waits, no core waits while another has two threads, none has more than two or
\* one by its kind before all have that many, and no thread is pinned to CPUs of
\* different cores; with ranges in /sys, only to the first CPU of its core.
Placement ==
    Distributed =>
        /\ \A co \in Cores :
              /\ n_threads <= Cardinality(Cores) => Load(co) <= 1
              /\ n_threads >= Cardinality(Cores) => Load(co) >= 1
              /\ n_threads <= thread_count => Load(co) <= Min({2, Cardinality(co)})
        /\ \A co, other \in Cores :
              Cardinality(co) > 1 /\ Cardinality(other) = 1 /\ Load(other) >= 1 => Load(co) >= 1
        /\ n <= 10 * thread_count => \A t \in DOMAIN dist : \E co \in Cores :
              /\ Min(co) \in affinity(t) /\ affinity(t) \subseteq co
              /\ Cardinality(co) = 2 /\ Min(co) + 1 \notin co => affinity(t) = co

Sum == UNION {s[t] : t \in DOMAIN s}

\* The sum that is returned is of consecutive pieces without overlap, from
\* threads that have all ended, and misses less than one step for each of them
\* (truncation in distributeWork(), current_n, join() before results[]).
FewStepsLost ==
    pc = "returned" /\ n_threads > 0 =>
        /\ \A t \in DOMAIN thread : thread[t] = "ended"
        /\ \A t, u \in DOMAIN s : t # u => s[t] \intersect s[u] = {}
        /\ Sum = 0 .. Cardinality(Sum) - 1
        /\ Cardinality(Sum) \in n - n_threads + 1 .. n
=============================================================================
