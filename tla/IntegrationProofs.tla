------------------------- MODULE IntegrationProofs -------------------------
(***************************************************************************)
(* The servers report the throughputs they measured, the answers of the    *)
(* connections make up the interval once and without a gap, and a client   *)
(* that has returned has no socket, however many machines there are and    *)
(* whoever dies.                                                           *)
(*                                                                         *)
(* The inductive invariant has three parts.  Benchmarked: a server that    *)
(* answers has measured its throughput, and what it has told is that.      *)
(* Connections: a client has found each server once, and both ends of a    *)
(* connection and the server's queue agree on who has it.  Work: what is   *)
(* on its way in a connection is its share of the interval.  That the      *)
(* shares divide the interval is arithmetic, by induction over the         *)
(* connections, and comes first.                                           *)
(***************************************************************************)
EXTENDS Integration, FiniteSetTheorems, WellFoundedInduction, TLAPS

USE ConstAssumption

-----------------------------------------------------------------------------
(* Arithmetic of the shares.                                               *)

\* A set of natural numbers with 0 and with the successor of each is Nat.
LEMMA NatSetInduction ==
    ASSUME NEW S, 0 \in S, \A k \in Nat : k \in S => k + 1 \in S
    PROVE  Nat \subseteq S
<1> DEFINE R == OpToRel(<, Nat)
           T == Nat \ S
<1>1. IsWellFoundedOn(R, Nat)
    BY NatLessThanWellFounded
<1>2. \A x, y \in Nat : x < y => <<x, y>> \in R
    BY DEF OpToRel
<1> HIDE DEF R
<1> SUFFICES ASSUME T # {} PROVE FALSE
    OBVIOUS
<1>3. PICK x \in T : \A y \in T : ~(<<y, x>> \in R)
    BY <1>1, WFMin
<1>4. x \in Nat /\ x \notin S
    OBVIOUS
<1>5. x - 1 \in Nat /\ x - 1 < x /\ x = (x - 1) + 1
    BY <1>4
<1>6. x - 1 \in S
    BY <1>2, <1>3, <1>4, <1>5, Zenon
<1>. QED
    BY <1>4, <1>5, <1>6

\* The partial sums of f, as a function.
Adds(h, f, k) ==
    /\ h \in [0 .. k -> Nat]
    /\ h[0] = 0
    /\ \A i \in 1 .. k : h[i] = h[i - 1] + f[i]

Recurs(g, f, k) == \A i \in 0 .. k : g[i] = IF i = 0 THEN 0 ELSE g[i - 1] + f[i]

\* Partial sums exist up to any number of terms.
LEMMA PartialSums ==
    ASSUME NEW m \in Nat, NEW f \in [1 .. m -> Nat]
    PROVE  \E h : Adds(h, f, m)
<1> DEFINE S == {k \in Nat : k <= m => \E h : Adds(h, f, k)}
<1>1. 0 \in S
  <2>1. Adds([i \in 0 .. 0 |-> 0], f, 0)
      BY DEF Adds
  <2>. QED
      BY <2>1
<1>2. ASSUME NEW k \in Nat, k \in S PROVE k + 1 \in S
  <2>1. SUFFICES ASSUME k + 1 <= m PROVE \E h : Adds(h, f, k + 1)
      OBVIOUS
  <2>2. PICK h : Adds(h, f, k)
      BY <1>2, <2>1
  <2> DEFINE g == [i \in 0 .. k + 1 |-> IF i = k + 1 THEN h[k] + f[k + 1] ELSE h[i]]
  <2>3. f[k + 1] \in Nat /\ h[k] \in Nat
      BY <2>1, <2>2 DEF Adds
  <2>4. /\ g \in [0 .. k + 1 -> Nat]
        /\ g[0] = 0 /\ g[k + 1] = h[k] + f[k + 1]
        /\ \A i \in 0 .. k : g[i] = h[i]
      BY <2>2, <2>3 DEF Adds
  <2> HIDE DEF g
  <2>5. ASSUME NEW i \in 1 .. k + 1 PROVE g[i] = g[i - 1] + f[i]
    <3>1. CASE i = k + 1
        BY <2>4, <3>1
    <3>2. CASE i # k + 1
      <4>1. i \in 1 .. k /\ i - 1 \in 0 .. k /\ i \in 0 .. k
          BY <3>2
      <4>. QED
          BY <2>2, <2>4, <4>1 DEF Adds
    <3>. QED
        BY <3>1, <3>2
  <2>6. Adds(g, f, k + 1)
      BY <2>4, <2>5 DEF Adds
  <2>. QED
      BY <2>6
<1>3. m \in S
    BY <1>1, <1>2, NatSetInduction
<1>. QED
    BY <1>3

\* Partial sums are determined by the terms.
LEMMA SumsAgree ==
    ASSUME NEW m \in Nat, NEW f, NEW h, Adds(h, f, m),
           NEW k \in 0 .. m, NEW g, Recurs(g, f, k)
    PROVE  g[k] = h[k]
<1> DEFINE S == {i \in Nat : i <= k => g[i] = h[i]}
<1>1. 0 \in S
    BY DEF Adds, Recurs
<1>2. ASSUME NEW i \in Nat, i \in S PROVE i + 1 \in S
    BY <1>2 DEF Adds, Recurs
<1>3. Nat \subseteq S
    BY <1>1, <1>2, NatSetInduction
<1>. QED
    BY <1>3

\* AddUp() is the partial sum.
LEMMA AddUpAdds ==
    ASSUME NEW m \in Nat, NEW f \in [1 .. m -> Nat]
    PROVE  /\ AddUp(f, 0) = 0
           /\ \A k \in 0 .. m : AddUp(f, k) \in Nat
           /\ \A k \in 1 .. m : AddUp(f, k) = AddUp(f, k - 1) + f[k]
<1>1. PICK h : Adds(h, f, m)
    BY PartialSums
<1>2. ASSUME NEW k \in 0 .. m PROVE AddUp(f, k) = h[k]
  <2> DEFINE F(g) == [i \in 0 .. k |-> IF i = 0 THEN 0 ELSE g[i - 1] + f[i]]
             sum == CHOOSE g : g = F(g)
             r == [i \in 0 .. k |-> h[i]]
  <2>1. r = F(r)
      BY <1>1 DEF Adds
  <2>2. sum = F(sum)
      BY <2>1
  <2>3. AddUp(f, k) = sum[k]
      BY DEF AddUp
  <2> HIDE DEF sum
  <2>4. Recurs(sum, f, k)
      BY <2>2 DEF Recurs
  <2>. QED
      BY <1>1, <2>3, <2>4, SumsAgree
<1>. QED
    BY <1>1, <1>2 DEF Adds

\* A quotient rounded down.
LEMMA WholeSteps ==
    ASSUME NEW a \in Nat, NEW t \in Nat \ {0}
    PROVE  a \div t \in Nat /\ (a \div t) * t <= a
<1> DEFINE d == a \div t
<1>1. d \in Int /\ t * d <= a /\ a < t * d + t
    OBVIOUS
<1>. QED
    BY <1>1

\* Multiplication is monotonic.
LEMMA TimesMonotonic ==
    ASSUME NEW a \in Nat, NEW b \in Nat, NEW t \in Nat \ {0}
    PROVE  /\ a <= b => a * t <= b * t
           /\ a * t <= b * t => a <= b
           /\ a * t \in Nat /\ b * t \in Nat /\ t * a = a * t
    OBVIOUS

\* Bounds on products are added up.
LEMMA ProductsAddUp ==
    ASSUME NEW a \in Nat, NEW b \in Nat, NEW x \in Nat, NEW y \in Nat,
           NEW t \in Nat, NEW n \in Nat, a * t <= b * n, x * t <= y * n
    PROVE  (a + x) * t <= (b + y) * n
<1>1. (a + x) * t = a * t + x * t /\ (b + y) * n = b * n + y * n
    OBVIOUS
<1>2. /\ a * t \in Nat /\ b * n \in Nat
      /\ x * t \in Nat /\ y * n \in Nat
    OBVIOUS
<1>. QED
    BY <1>1, <1>2

\* Portions rounded down leave something for the last: n - used_n is not negative.
LEMMA PortionsFit ==
    ASSUME NEW m \in Nat \ {0}, NEW p \in [1 .. m -> Nat \ {0}],
           NEW f, f = [i \in 1 .. m |-> (p[i] * N) \div AddUp(p, m)]
    PROVE  f \in [1 .. m -> Nat] /\ AddUp(f, m - 1) <= N
<1> DEFINE T == AddUp(p, m)
<1>1. /\ AddUp(p, 0) = 0
      /\ \A k \in 0 .. m : AddUp(p, k) \in Nat
      /\ \A k \in 1 .. m : AddUp(p, k) = AddUp(p, k - 1) + p[k]
  <2>1. m \in Nat /\ p \in [1 .. m -> Nat]
      OBVIOUS
  <2>. QED
      BY <2>1, AddUpAdds
<1>2. T \in Nat \ {0} /\ AddUp(p, m - 1) \in Nat /\ AddUp(p, m - 1) <= T
  <2>1. m - 1 \in 0 .. m /\ m \in 1 .. m /\ p[m] \in Nat \ {0}
      OBVIOUS
  <2>2. AddUp(p, m - 1) \in Nat /\ AddUp(p, m) = AddUp(p, m - 1) + p[m]
      BY <1>1, <2>1
  <2>. QED
      BY <2>1, <2>2
<1> HIDE DEF T
<1>3. \A i \in 1 .. m : p[i] \in Nat /\ p[i] * N \in Nat
    OBVIOUS
<1>4. \A i \in 1 .. m : f[i] = (p[i] * N) \div T
    BY DEF T
<1>5. \A i \in 1 .. m : f[i] \in Nat /\ f[i] * T <= p[i] * N
    BY <1>2, <1>3, <1>4, WholeSteps
<1>6. f \in [1 .. m -> Nat]
    BY <1>5
<1>7. /\ AddUp(f, 0) = 0
      /\ \A k \in 0 .. m : AddUp(f, k) \in Nat
      /\ \A k \in 1 .. m : AddUp(f, k) = AddUp(f, k - 1) + f[k]
    BY <1>6, AddUpAdds
<1> DEFINE S == {k \in Nat : k <= m => AddUp(f, k) * T <= AddUp(p, k) * N}
<1>8. 0 \in S
    BY <1>1, <1>2, <1>7
<1>9. ASSUME NEW k \in Nat, k \in S PROVE k + 1 \in S
  <2>1. SUFFICES ASSUME k + 1 <= m PROVE AddUp(f, k + 1) * T <= AddUp(p, k + 1) * N
      OBVIOUS
  <2>2. k \in 0 .. m /\ k + 1 \in 1 .. m /\ (k + 1) - 1 = k
      BY <2>1
  <2>3. /\ AddUp(f, k + 1) = AddUp(f, k) + f[k + 1]
        /\ AddUp(p, k + 1) = AddUp(p, k) + p[k + 1]
        /\ AddUp(f, k) \in Nat /\ AddUp(p, k) \in Nat
      BY <1>1, <1>7, <2>2
  <2>4. f[k + 1] \in Nat /\ p[k + 1] \in Nat /\ f[k + 1] * T <= p[k + 1] * N
      BY <1>3, <1>5, <2>2
  <2>5. AddUp(f, k) * T <= AddUp(p, k) * N
      BY <1>9, <2>1
  <2>. QED
      BY <1>2, <2>3, <2>4, <2>5, ProductsAddUp
<1> HIDE DEF S
<1>10. Nat \subseteq S
    BY <1>8, <1>9, NatSetInduction
<1>11. m - 1 \in S /\ m - 1 \in 0 .. m
    BY <1>10
<1>12. AddUp(f, m - 1) * T <= AddUp(p, m - 1) * N /\ AddUp(f, m - 1) \in Nat
    BY <1>7, <1>11 DEF S
<1>13. AddUp(p, m - 1) * N <= T * N /\ T * N = N * T
    BY <1>2, TimesMonotonic
<1>14. AddUp(f, m - 1) * T \in Nat /\ AddUp(p, m - 1) * N \in Nat /\ N * T \in Nat
    BY <1>2, <1>12
<1>15. AddUp(f, m - 1) * T <= N * T
    BY <1>12, <1>13, <1>14
<1>. QED
    BY <1>2, <1>6, <1>12, <1>15, TimesMonotonic

-----------------------------------------------------------------------------
(* The inductive invariant.                                                *)

\* A worker that was found, and its throughput.
Found == {f \in [at : Workers, props : Nat \ {0}] : f.props = throughput[f.at]}

\* A request and the answer to it are sets of steps.
Requests == {None} \union SUBSET Interval

Numbers == 1 .. Cardinality(Workers)

ClientType ==
    [at : {"broadcast", "discover", "connect", "create", "ok", "failed", "killed"},
     left : Nat, elapsed : Nat, workers : Seq(Found), conns : Seq(Found), k : Nat \ {0}]

ConType ==
    [mine : {"none", "open", "closed"}, theirs : {"none", "waiting", "accepted", "closed"},
     thread : {"none", "send", "recv", "answered", "error"},
     request : Requests, response : Requests, answer : Requests]

ServerType ==
    [at : {"down", "listening", "benchmark", "accept", "receive", "integrate", "respond"},
     backlog : Seq(Conns), sock : Conns \union {None}, ireq : Requests, props : Nat]

TypeOK ==
    /\ client \in [Clients -> ClientType]
    /\ con \in [Conns -> ConType]
    /\ server \in [Workers -> ServerType]
    /\ asked \subseteq Clients \X Workers
    /\ told \subseteq {d \in [to : Clients, at : Workers, props : Nat \ {0}] :
                           d.props = throughput[d.at]}
    /\ starts \in Nat

\* A server answers broadcasts only with a throughput that it has measured.
Benchmarked == \A w \in Workers : Answers(w) => server[w].props = throughput[w]

\* A worker is found once, and so a client has a number for every connection.
FoundOnce(c) ==
    /\ \A i, j \in DOMAIN client[c].workers :
           client[c].workers[i].at = client[c].workers[j].at => i = j
    /\ At(c, "broadcast") \/ At(c, "discover") => client[c].conns = <<>> /\ client[c].k = 1
    /\ At(c, "connect") => Count(c) < client[c].k /\ client[c].k <= Len(client[c].workers) + 1
    /\ At(c, "create") \/ At(c, "ok") => Of(c) # {}
    /\ Count(c) <= Cardinality(Workers)

\* The sockets of a connection.
SocketOf(c, i) ==
    /\ i \notin Of(c) => con[<<c, i>>].mine = "none" /\ con[<<c, i>>].theirs = "none"
    /\ con[<<c, i>>].mine = "open" => ~Returned(c)
    /\ con[<<c, i>>].theirs = "accepted" => Sock(Worker(c, i).at) = <<c, i>>

\* The sockets of a server: what it serves was accepted, what it has yet to accept waits.
SocketsOf(w) ==
    /\ Sock(w) # None <=> server[w].at \in {"receive", "integrate", "respond"}
    /\ Sock(w) # None => /\ con[Sock(w)].theirs = "accepted"
                         /\ Worker(Sock(w)[1], Sock(w)[2]).at = w
    /\ \A x \in DOMAIN server[w].backlog :
           LET id == server[w].backlog[x]
           IN  /\ con[id].theirs = "waiting" /\ Worker(id[1], id[2]).at = w
               /\ \A y \in DOMAIN server[w].backlog : server[w].backlog[y] = id => y = x

\* Before its threads run a client has asked for nothing.
Early(c) == client[c].at \in {"broadcast", "discover", "connect"}

\* What is asked for, answered and received on a connection is its share.
AnswerOf(c, i) ==
    /\ i \notin Of(c) \/ Early(c) =>
           /\ con[<<c, i>>].request = None /\ con[<<c, i>>].response = None
           /\ con[<<c, i>>].answer = None /\ con[<<c, i>>].thread = "none"
    /\ con[<<c, i>>].request # None => con[<<c, i>>].request = Share(c, i)
    /\ con[<<c, i>>].response # None => con[<<c, i>>].response = Share(c, i)
    /\ con[<<c, i>>].thread = "answered" => con[<<c, i>>].answer = Share(c, i)
    /\ At(c, "ok") /\ i \in Of(c) => con[<<c, i>>].thread = "answered"

\* A server works on the share of the connection it serves.
WorkOf(w) ==
    server[w].ireq # None =>
        /\ Sock(w) # None /\ ~Early(Sock(w)[1])
        /\ server[w].ireq = Share(Sock(w)[1], Sock(w)[2])

Connections ==
    /\ \A c \in Clients : FoundOnce(c)
    /\ \A c \in Clients, i \in Numbers : SocketOf(c, i)
    /\ \A w \in Workers : SocketsOf(w)

Work ==
    /\ \A c \in Clients, i \in Numbers : AnswerOf(c, i)
    /\ \A w \in Workers : WorkOf(w)

IInv == TypeOK /\ Benchmarked /\ Connections /\ Work

-----------------------------------------------------------------------------
(* The shares of a client.                                                 *)

\* used_n grows by what each connection gets, and leaves room for the last one.
LEMMA UsedGrows ==
    ASSUME NEW c \in Clients, client[c].conns \in Seq(Found), Of(c) # {}
    PROVE  /\ Count(c) \in Nat \ {0}
           /\ \A i \in Of(c) : Steps(c, i) \in Nat /\ Used(c, i) \in Nat
           /\ Used(c, 1) = 0
           /\ \A i \in Of(c) : i # Count(c) => Used(c, i + 1) = Used(c, i) + Steps(c, i)
           /\ Used(c, Count(c)) <= N
<1> DEFINE m == Count(c)
           p == [i \in Of(c) |-> Worker(c, i).props]
           f == [j \in Of(c) |-> Steps(c, j)]
<1>1. m \in Nat \ {0} /\ Of(c) = 1 .. m
    BY DEF Of, Count
<1>2. p \in [1 .. m -> Nat \ {0}]
  <2>1. \A i \in Of(c) : client[c].conns[i] \in Found
      BY DEF Of, Count
  <2>. QED
      BY <1>1, <2>1 DEF Worker, Found
<1>3. f = [i \in 1 .. m |-> (p[i] * N) \div AddUp(p, m)]
    BY DEF Of, Steps, Throughput
<1>4. \A i : Used(c, i) = AddUp(f, i - 1)
    BY DEF Used
<1>5. \A i \in Of(c) : f[i] = Steps(c, i)
    OBVIOUS
<1> HIDE DEF m, p, f
<1>6. f \in [1 .. m -> Nat] /\ AddUp(f, m - 1) <= N
    BY <1>1, <1>2, <1>3, PortionsFit
<1>7. /\ AddUp(f, 0) = 0
      /\ \A k \in 0 .. m : AddUp(f, k) \in Nat
      /\ \A k \in 1 .. m : AddUp(f, k) = AddUp(f, k - 1) + f[k]
    BY <1>1, <1>6, AddUpAdds
<1>8. \A i \in 1 .. m : f[i] = Steps(c, i) /\ f[i] \in Nat
    BY <1>1, <1>5, <1>6
<1>9. /\ \A i \in 1 .. m : Used(c, i) \in Nat
      /\ Used(c, 1) = 0 /\ Used(c, m) <= N
      /\ \A i \in 1 .. m : i # m => Used(c, i + 1) = Used(c, i) + f[i]
  <2>1. \A i \in 1 .. m : i - 1 \in 0 .. m /\ (i + 1) - 1 = i
      BY <1>1
  <2>2. \A i \in 1 .. m : Used(c, i) \in Nat
      BY <1>4, <1>7, <2>1
  <2>3. Used(c, 1) = 0 /\ Used(c, m) <= N
      BY <1>4, <1>6, <1>7
  <2>4. \A i \in 1 .. m : Used(c, i + 1) = Used(c, i) + f[i]
      BY <1>4, <1>7, <2>1
  <2>. QED
      BY <2>2, <2>3, <2>4
<1>10. m = Count(c)
    BY DEF m
<1>. QED
    BY <1>1, <1>8, <1>9, <1>10

\* used_n never decreases.
LEMMA UsedMonotonic ==
    ASSUME NEW c \in Clients, client[c].conns \in Seq(Found), Of(c) # {},
           NEW i \in Of(c), NEW j \in Of(c), i < j
    PROVE  Used(c, i) + Steps(c, i) <= Used(c, j)
<1> DEFINE m == Count(c)
           S == {k \in Nat : i + 1 + k <= m => Used(c, i) + Steps(c, i) <= Used(c, i + 1 + k)}
<1>1. /\ m \in Nat \ {0}
      /\ \A k \in 1 .. m : Steps(c, k) \in Nat /\ Used(c, k) \in Nat
      /\ \A k \in 1 .. m : k # m => Used(c, k + 1) = Used(c, k) + Steps(c, k)
      /\ i \in 1 .. m /\ j \in 1 .. m
    BY UsedGrows DEF Of
<1> HIDE DEF m
<1>2. 0 \in S
    BY <1>1
<1>3. ASSUME NEW k \in Nat, k \in S PROVE k + 1 \in S
  <2>1. SUFFICES ASSUME i + 2 + k <= m
                 PROVE  Used(c, i) + Steps(c, i) <= Used(c, i + 2 + k)
      BY <1>1
  <2>2. i + 1 + k \in 1 .. m /\ i + 1 + k # m /\ (i + 1 + k) + 1 = i + 2 + k
      BY <1>1, <2>1
  <2>3. /\ Used(c, i + 2 + k) = Used(c, i + 1 + k) + Steps(c, i + 1 + k)
        /\ Used(c, i + 1 + k) \in Nat /\ Steps(c, i + 1 + k) \in Nat
        /\ Used(c, i) \in Nat /\ Steps(c, i) \in Nat
      BY <1>1, <2>2
  <2>4. Used(c, i) + Steps(c, i) <= Used(c, i + 1 + k)
      BY <1>1, <1>3, <2>2
  <2>. QED
      BY <2>3, <2>4
<1>4. Nat \subseteq S
  <2> HIDE DEF S
  <2>. QED
      BY <1>2, <1>3, NatSetInduction
<1>5. j - i - 1 \in Nat /\ i + 1 + (j - i - 1) = j /\ j <= m
    BY <1>1
<1>. QED
    BY <1>4, <1>5

\* Every step of the interval is in the share of one connection, and the shares
\* have no other steps.
LEMMA SharesPartition ==
    ASSUME NEW c \in Clients, client[c].conns \in Seq(Found), Of(c) # {}
    PROVE  /\ \A i \in Of(c) : Share(c, i) \subseteq Interval
           /\ \A x \in Interval : \E i \in Of(c) :
                  x \in Share(c, i) /\ \A j \in Of(c) : x \in Share(c, j) => j = i
<1> DEFINE m == Count(c)
<1>1. /\ m \in Nat \ {0}
      /\ \A k \in 1 .. m : Steps(c, k) \in Nat /\ Used(c, k) \in Nat
      /\ Used(c, 1) = 0 /\ Used(c, m) <= N
      /\ \A k \in 1 .. m : k # m => Used(c, k + 1) = Used(c, k) + Steps(c, k)
      /\ Of(c) = 1 .. m
    BY UsedGrows DEF Of
<1>2. \A i, j \in 1 .. m : i < j => Used(c, i) + Steps(c, i) <= Used(c, j)
    BY <1>1, UsedMonotonic
<1>3. \A i \in 1 .. m : \A x :
          x \in Share(c, i) <=> /\ x \in Int /\ Used(c, i) <= x
                                /\ IF i = m THEN x < N ELSE x < Used(c, i) + Steps(c, i)
    BY <1>1 DEF Share
<1> HIDE DEF m
<1>4. \A i \in 1 .. m : Used(c, i) <= N /\ (i # m => Used(c, i) + Steps(c, i) <= N)
  <2> SUFFICES ASSUME NEW i \in 1 .. m
               PROVE  Used(c, i) <= N /\ (i # m => Used(c, i) + Steps(c, i) <= N)
      OBVIOUS
  <2>1. /\ Used(c, i) \in Nat /\ Steps(c, i) \in Nat /\ Used(c, m) \in Nat /\ Used(c, m) <= N
        /\ m \in 1 .. m
      BY <1>1
  <2>2. CASE i = m
      BY <2>1, <2>2
  <2>3. CASE i # m
    <3>1. i < m
        BY <1>1, <2>3
    <3>2. Used(c, i) + Steps(c, i) <= Used(c, m)
        BY <1>2, <2>1, <3>1
    <3>. QED
        BY <2>1, <3>2
  <2>. QED
      BY <2>2, <2>3
<1>5. ASSUME NEW i \in 1 .. m, NEW x \in Share(c, i) PROVE x \in Interval
  <2>1. /\ x \in Int /\ Used(c, i) <= x
        /\ IF i = m THEN x < N ELSE x < Used(c, i) + Steps(c, i)
      BY <1>3, <1>5
  <2>2. /\ Used(c, i) \in Nat /\ Steps(c, i) \in Nat
        /\ i # m => Used(c, i) + Steps(c, i) <= N
      BY <1>1, <1>4
  <2>3. 0 <= x /\ x < N
      BY <2>1, <2>2
  <2>. QED
      BY <2>1, <2>3 DEF Interval
<1>6. ASSUME NEW x \in Interval
      PROVE  \E i \in 1 .. m : x \in Share(c, i)
  <2> DEFINE S == {k \in Nat : k < m => \/ \E i \in 1 .. m : x \in Share(c, i)
                                        \/ Used(c, k + 1) <= x}
  <2>1. 0 \in S
      BY <1>1 DEF Interval
  <2>2. ASSUME NEW k \in Nat, k \in S PROVE k + 1 \in S
    <3>1. SUFFICES ASSUME k + 1 < m, ~ \E i \in 1 .. m : x \in Share(c, i)
                   PROVE  Used(c, k + 2) <= x
        OBVIOUS
    <3>2. k + 1 \in 1 .. m /\ k + 1 # m /\ (k + 1) + 1 = k + 2
        BY <1>1, <3>1
    <3>3. Used(c, k + 1) <= x
        BY <1>1, <2>2, <3>1
    <3>4. x >= Used(c, k + 1) + Steps(c, k + 1)
      <4>1. x \notin Share(c, k + 1) /\ x \in Int
          BY <3>1, <3>2 DEF Interval
      <4>2. ~(x < Used(c, k + 1) + Steps(c, k + 1))
          BY <1>3, <3>2, <3>3, <4>1
      <4>3. Used(c, k + 1) \in Nat /\ Steps(c, k + 1) \in Nat
          BY <1>1, <3>2
      <4>. QED
          BY <4>1, <4>2, <4>3
    <3>. QED
        BY <1>1, <3>2, <3>4
  <2>3. Nat \subseteq S
    <3> HIDE DEF S
    <3>. QED
        BY <2>1, <2>2, NatSetInduction
  <2>4. m - 1 \in Nat /\ m - 1 < m /\ (m - 1) + 1 = m /\ m \in 1 .. m
      BY <1>1
  <2>5. (\E i \in 1 .. m : x \in Share(c, i)) \/ Used(c, m) <= x
      BY <2>3, <2>4
  <2>. QED
      BY <1>3, <2>4, <2>5 DEF Interval
<1>7. ASSUME NEW x, NEW i \in 1 .. m, NEW j \in 1 .. m,
             x \in Share(c, i), x \in Share(c, j), i < j
      PROVE  FALSE
  <2>1. i # m
      BY <1>1, <1>7
  <2>2. x \in Int /\ x < Used(c, i) + Steps(c, i)
      BY <1>3, <1>7, <2>1
  <2>3. Used(c, j) <= x
      BY <1>3, <1>7
  <2>4. Used(c, i) + Steps(c, i) <= Used(c, j)
      BY <1>2, <1>7
  <2>5. Used(c, i) \in Nat /\ Steps(c, i) \in Nat /\ Used(c, j) \in Nat
      BY <1>1
  <2>. QED
      BY <2>2, <2>3, <2>4, <2>5
<1>8. \A x : \A i, j \in 1 .. m : x \in Share(c, i) /\ x \in Share(c, j) => i = j
  <2>1. \A i, j \in 1 .. m : i = j \/ i < j \/ j < i
      BY <1>1
  <2>. QED
      BY <1>7, <2>1
<1>. QED
    BY <1>1, <1>5, <1>6, <1>8

-----------------------------------------------------------------------------
(* The steps.                                                              *)

\* The connections of a client stay, and so do its shares.
LEMMA SameConnections ==
    ASSUME NEW c \in Clients, client'[c].conns = client[c].conns
    PROVE  /\ Count(c)' = Count(c) /\ Of(c)' = Of(c)
           /\ \A i : Worker(c, i)' = Worker(c, i)
           /\ \A i : Share(c, i)' = Share(c, i)
    BY DEF Count, Of, Worker, Share, Used, Steps, Throughput

\* What is known of a connection and of a server.
LEMMA Places ==
    ASSUME TypeOK
    PROVE  /\ \A c \in Clients, i \in Numbers : <<c, i>> \in Conns
           /\ \A id \in Conns : id[1] \in Clients /\ id[2] \in Numbers /\ id = <<id[1], id[2]>>
           /\ \A w \in Workers : Sock(w) \in Conns \union {None}
           /\ \A w \in Workers : \A x \in DOMAIN server[w].backlog : server[w].backlog[x] \in Conns
           /\ \A c \in Clients : Count(c) \in Nat /\ \A i \in Of(c) : Worker(c, i) \in Found
<1>1. /\ \A c \in Clients, i \in Numbers : <<c, i>> \in Conns
      /\ \A id \in Conns : id[1] \in Clients /\ id[2] \in Numbers /\ id = <<id[1], id[2]>>
  <2>1. PICK C, D : C = Clients /\ D = Numbers
      OBVIOUS
  <2>2. \A id \in C \X D : id[1] \in C /\ id[2] \in D /\ id = <<id[1], id[2]>>
      OBVIOUS
  <2>3. \A c \in C, i \in D : <<c, i>> \in C \X D
      OBVIOUS
  <2>4. C \X D = Conns
      BY <2>1 DEF Conns, Numbers
  <2>5. \A id \in Conns : id[1] \in Clients /\ id[2] \in Numbers /\ id = <<id[1], id[2]>>
      BY <2>1, <2>2, <2>4
  <2>6. \A c \in Clients, i \in Numbers : <<c, i>> \in Conns
      BY <2>1, <2>3, <2>4
  <2>. QED
      BY <2>5, <2>6
<1>2. \A w \in Workers : /\ server[w] \in ServerType
                         /\ server[w].sock \in Conns \union {None}
                         /\ server[w].backlog \in Seq(Conns)
    BY DEF TypeOK, ServerType
<1>3. \A w \in Workers : \A x \in DOMAIN server[w].backlog : server[w].backlog[x] \in Conns
    BY <1>2
<1>4. \A w \in Workers : Sock(w) \in Conns \union {None}
    BY <1>2 DEF Sock
<1>5. \A c \in Clients : client[c].conns \in Seq(Found)
    BY DEF TypeOK, ClientType
<1>6. \A c \in Clients : Count(c) \in Nat /\ \A i \in Of(c) : client[c].conns[i] \in Found
    BY <1>5 DEF Count, Of
<1>7. \A c \in Clients : Count(c) \in Nat /\ \A i \in Of(c) : Worker(c, i) \in Found
    BY <1>6 DEF Worker
<1>. QED
    BY <1>1, <1>3, <1>4, <1>7

\* A step that leaves alone all connections and what servers do with them.
LEMMA Quiet ==
    ASSUME IInv, con' = con,
           \A c \in Clients : /\ client'[c].conns = client[c].conns
                              /\ Early(c)' => Early(c)
                              /\ At(c, "ok")' => At(c, "ok")
                              /\ Returned(c)' => Returned(c) \/ Of(c) = {},
           \A w \in Workers :
               /\ server'[w].backlog = server[w].backlog
               /\ server'[w].sock = server[w].sock /\ server'[w].ireq = server[w].ireq
               /\ server'[w].at \in {"receive", "integrate", "respond"}
                      <=> server[w].at \in {"receive", "integrate", "respond"}
    PROVE  /\ \A c \in Clients, i \in Numbers : SocketOf(c, i)'
           /\ \A w \in Workers : SocketsOf(w)'
           /\ Work'
<1>1. \A c \in Clients : /\ Of(c)' = Of(c)
                         /\ \A i : Worker(c, i)' = Worker(c, i)
                         /\ \A i : Share(c, i)' = Share(c, i)
    BY SameConnections
<1>2. \A w \in Workers : Sock(w)' = Sock(w)
    BY DEF Sock
<1>3. ASSUME NEW c \in Clients, NEW i \in Numbers PROVE SocketOf(c, i)' /\ AnswerOf(c, i)'
  <2>1. SocketOf(c, i) /\ AnswerOf(c, i)
      BY DEF IInv, Connections, Work
  <2>2. i \in Of(c) => Worker(c, i).at \in Workers
      BY Places DEF IInv, Found
  <2>. QED
      BY <1>1, <1>2, <2>1, <2>2 DEF SocketOf, AnswerOf
<1>4. ASSUME NEW w \in Workers PROVE SocketsOf(w)' /\ WorkOf(w)'
  <2>1. SocketsOf(w) /\ WorkOf(w)
      BY DEF IInv, Connections, Work
  <2>2. Sock(w) # None => Sock(w)[1] \in Clients
      BY Places DEF IInv
  <2>3. \A x \in DOMAIN server[w].backlog : server[w].backlog[x][1] \in Clients
      BY Places DEF IInv
  <2>4. SocketsOf(w)'
      BY <1>1, <1>2, <2>1, <2>2, <2>3 DEF SocketsOf
  <2>5. WorkOf(w)'
      BY <1>1, <1>2, <2>1, <2>2 DEF WorkOf
  <2>. QED
      BY <2>4, <2>5
<1>. QED
    BY <1>3, <1>4 DEF Work

\* The lesser and the greater of two numbers.
LEMMA MinMax ==
    ASSUME NEW a \in Int, NEW b \in Nat
    PROVE  (a \in Nat => Min({a, b}) \in Nat) /\ Max({a, b}) \in Nat
<1>1. \E x \in {a, b} : \A y \in {a, b} : x <= y
    OBVIOUS
<1>2. \E x \in {a, b} : \A y \in {a, b} : x >= y
    OBVIOUS
<1>. QED
    BY <1>1, <1>2 DEF Min, Max

\* The actions of Quiet leave the connections of all clients as they are.
LEMMA QuietClient ==
    ASSUME IInv, con' = con, server' = server, TypeOK', NEW c \in Clients,
           FoundOnce(c)',
           \A d \in Clients : d # c => client'[d] = client[d],
           client'[c].conns = client[c].conns,
           Early(c)' => Early(c),
           At(c, "ok")' => At(c, "ok"),
           Returned(c)' => Returned(c) \/ Of(c) = {}
    PROVE  IInv'
<1>1. Benchmarked'
    BY DEF IInv, Benchmarked, Answers, Hears
<1>2. ASSUME NEW d \in Clients PROVE FoundOnce(d)'
    BY <1>2 DEF IInv, Connections, FoundOnce, At, Of, Count
<1>3. /\ \A d \in Clients, i \in Numbers : SocketOf(d, i)'
      /\ \A w \in Workers : SocketsOf(w)'
      /\ Work'
  <2>1. ASSUME NEW d \in Clients
        PROVE  /\ client'[d].conns = client[d].conns
               /\ Early(d)' => Early(d)
               /\ At(d, "ok")' => At(d, "ok")
               /\ Returned(d)' => Returned(d) \/ Of(d) = {}
      BY DEF Early, At, Returned
  <2>. QED
      BY <2>1, Quiet
<1>. QED
    BY <1>1, <1>2, <1>3 DEF IInv, Connections

\* No worker has been found yet.
LEMMA broadcastIInv == ASSUME IInv, NEW c \in Clients, broadcast(c) PROVE IInv'
<1>1. client' = [client EXCEPT ![c].at = "discover"] /\ client[c].at = "broadcast"
    BY DEF broadcast, At
<1>2. TypeOK'
  <2>0. client[c] \in ClientType
      BY DEF IInv, TypeOK
  <2>1. [client[c] EXCEPT !.at = "discover"] \in ClientType
      BY <2>0 DEF ClientType
  <2>2. asked' \subseteq Clients \X Workers
      BY DEF IInv, TypeOK, broadcast
  <2>. QED
      BY <1>1, <2>1, <2>2 DEF IInv, TypeOK, broadcast
<1>3. FoundOnce(c)'
    BY <1>1 DEF IInv, TypeOK, ClientType, Connections, FoundOnce, At, Of, Count
<1>4. /\ \A d \in Clients : d # c => client'[d] = client[d]
      /\ client'[c].conns = client[c].conns /\ client'[c].at = "discover"
    BY <1>1 DEF IInv, TypeOK, ClientType
<1>. QED
    BY <1>1, <1>2, <1>3, <1>4, QuietClient DEF broadcast, At, Early, Returned

\* A client without connections has nothing to close.
LEMMA broadcastFailsIInv == ASSUME IInv, NEW c \in Clients, broadcastFails(c) PROVE IInv'
<1>1. client' = [client EXCEPT ![c].at = "failed"] /\ client[c].at = "broadcast"
    BY DEF broadcastFails, At
<1>2. TypeOK'
  <2>0. client[c] \in ClientType
      BY DEF IInv, TypeOK
  <2>1. [client[c] EXCEPT !.at = "failed"] \in ClientType
      BY <2>0 DEF ClientType
  <2>. QED
      BY <1>1, <2>1 DEF IInv, TypeOK, broadcastFails
<1>3. FoundOnce(c)'
    BY <1>1 DEF IInv, TypeOK, ClientType, Connections, FoundOnce, At, Of, Count
<1>4. Of(c) = {}
    BY <1>1 DEF IInv, Connections, FoundOnce, At, Of, Count
<1>5. /\ \A d \in Clients : d # c => client'[d] = client[d]
      /\ client'[c].conns = client[c].conns /\ client'[c].at = "failed"
    BY <1>1 DEF IInv, TypeOK, ClientType
<1>. QED
    BY <1>1, <1>2, <1>3, <1>4, <1>5, QuietClient DEF broadcastFails, At, Early, Returned

\* A response adds a worker that was not found before, with its throughput.
LEMMA discoveredIInv ==
    ASSUME IInv, NEW c \in Clients, NEW d \in told, discovered(c, d) PROVE IInv'
<1>1. PICK e \in 0 .. (IF Wait(c) = 0 THEN Total ELSE Wait(c)) :
         LET elapsed == Min({client[c].elapsed + e, Total})
         IN  client' = [client EXCEPT
                 ![c].elapsed = elapsed,
                 ![c].left = Max({@ - elapsed, 0}),
                 ![c].workers = IF \E j \in DOMAIN @ : @[j].at = d.at THEN @
                                ELSE Append(@, [at |-> d.at, props |-> d.props])]
    BY DEF discovered
<1> DEFINE elapsed == Min({client[c].elapsed + e, Total})
           left == Max({client[c].left - elapsed, 0})
           old == client[c].workers
           f == [at |-> d.at, props |-> d.props]
           new == IF \E j \in DOMAIN old : old[j].at = d.at THEN old ELSE Append(old, f)
<1> DEFINE r == [client[c] EXCEPT !.elapsed = elapsed, !.left = left, !.workers = new]
<1>2. /\ client' = [client EXCEPT ![c] = r]
      /\ client \in [Clients -> ClientType]
    BY <1>1 DEF IInv, TypeOK
<1>3. /\ elapsed \in Nat /\ left \in Nat
  <2>1. e \in Nat /\ client[c].elapsed \in Nat /\ client[c].left \in Nat
    <3>1. client[c].elapsed \in Nat /\ client[c].left \in Nat
        BY DEF IInv, TypeOK, ClientType
    <3>. QED
        BY <3>1 DEF Wait
  <2>2. elapsed \in Nat
      BY <2>1, MinMax
  <2> HIDE DEF elapsed
  <2>. QED
    <3> DEFINE a == client[c].left - elapsed
    <3>1. a \in Int /\ left = Max({a, 0})
        BY <2>1, <2>2 DEF left
    <3>2. Max({a, 0}) \in Nat
        BY <3>1, MinMax
    <3>. QED
        BY <2>2, <3>1, <3>2
<1>4. f \in Found /\ old \in Seq(Found)
    BY DEF IInv, TypeOK, ClientType, Found
<1> HIDE DEF elapsed, left
<1>5. new \in Seq(Found) /\ Len(old) <= Len(new)
    BY <1>4
<1>6. \A i, j \in DOMAIN new : new[i].at = new[j].at => i = j
  <2>1. \A i, j \in DOMAIN old : old[i].at = old[j].at => i = j
      BY DEF IInv, Connections, FoundOnce
  <2>2. CASE \E j \in DOMAIN old : old[j].at = d.at
      BY <2>1, <2>2
  <2>3. CASE ~ \E j \in DOMAIN old : old[j].at = d.at
    <3>1. new = Append(old, f)
        BY <2>3
    <3>2. /\ DOMAIN new = 1 .. Len(old) + 1 /\ DOMAIN old = 1 .. Len(old) /\ Len(old) \in Nat
          /\ new[Len(old) + 1] = f
          /\ \A i \in DOMAIN old : new[i] = old[i]
        BY <1>4, <3>1
    <3>3. \A i \in DOMAIN new : i \in DOMAIN old \/ i = Len(old) + 1
        BY <3>2
    <3>4. f.at = d.at
        BY DEF f
    <3> HIDE DEF old, new, f
    <3>. QED
        BY <2>1, <2>3, <3>2, <3>3, <3>4
  <2>. QED
      BY <2>2, <2>3
<1> HIDE DEF old, new, f
<1>11. /\ r \in ClientType /\ r.workers = new
       /\ r.conns = client[c].conns /\ r.at = client[c].at /\ r.k = client[c].k
    BY <1>2, <1>3, <1>5 DEF ClientType
<1> HIDE DEF r
<1>12. /\ client' \in [Clients -> ClientType] /\ client'[c] = r
       /\ \A b \in Clients : b # c => client'[b] = client[b]
    BY <1>2, <1>11
<1>7. TypeOK'
    BY <1>12 DEF IInv, TypeOK, discovered
<1>8. client[c].at = "discover"
    BY DEF discovered, NotYet, At
<1>9. FoundOnce(c)'
  <2>1. /\ client'[c].at = "discover" /\ client'[c].workers = new
        /\ client'[c].conns = client[c].conns /\ client'[c].k = client[c].k
      BY <1>8, <1>11, <1>12
  <2>2. FoundOnce(c)
      BY DEF IInv, Connections
  <2>. QED
      BY <1>6, <1>8, <2>1, <2>2 DEF FoundOnce, At, Of, Count
<1>10. client'[c].conns = client[c].conns /\ client'[c].at = "discover"
    BY <1>8, <1>11, <1>12
<1>. QED
    BY <1>12, <1>7, <1>8, <1>9, <1>10, QuietClient DEF discovered, At, Early, Returned

\* No time is left.
LEMMA discoveryTimeoutIInv == ASSUME IInv, NEW c \in Clients, discoveryTimeout(c) PROVE IInv'
<1>1. client' = [client EXCEPT ![c].left = 0] /\ client[c].at = "discover"
    BY DEF discoveryTimeout, NotYet, At
<1>2. TypeOK'
  <2>0. client[c] \in ClientType
      BY DEF IInv, TypeOK
  <2>1. [client[c] EXCEPT !.left = 0] \in ClientType
      BY <2>0 DEF ClientType
  <2>. QED
      BY <1>1, <2>1 DEF IInv, TypeOK, discoveryTimeout
<1>3. FoundOnce(c)'
    BY <1>1 DEF IInv, TypeOK, ClientType, Connections, FoundOnce, At, Of, Count
<1>4. /\ \A d \in Clients : d # c => client'[d] = client[d]
      /\ client'[c].conns = client[c].conns /\ client'[c].at = "discover"
    BY <1>1 DEF IInv, TypeOK, ClientType
<1>. QED
    BY <1>1, <1>2, <1>3, <1>4, QuietClient DEF discoveryTimeout, At, Early, Returned

\* The client goes on to connect to the first worker, or gives up without a connection.
LEMMA endDiscoveryIInv == ASSUME IInv, NEW c \in Clients, endDiscovery(c) PROVE IInv'
<1>1. /\ client' = [client EXCEPT ![c].elapsed = 0,
                        ![c].at = IF client[c].workers = <<>> THEN "failed" ELSE "connect"]
      /\ client[c].at = "discover"
    BY DEF endDiscovery, At
<1>2. TypeOK'
  <2>1. client[c] \in ClientType
      BY DEF IInv, TypeOK
  <2>2. [client[c] EXCEPT !.elapsed = 0, !.at = IF client[c].workers = <<>> THEN "failed" ELSE "connect"]
            \in ClientType
      BY <2>1 DEF ClientType
  <2>. QED
      BY <1>1, <2>2 DEF IInv, TypeOK, endDiscovery, CloseDiscovery
<1>3. client[c].conns = <<>> /\ client[c].k = 1 /\ client[c].workers \in Seq(Found)
    BY <1>1 DEF IInv, TypeOK, ClientType, Connections, FoundOnce, At
<1>4. client[c].workers # <<>> => Len(client[c].workers) >= 1
    BY <1>3
<1>5. FoundOnce(c)'
    BY <1>1, <1>3, <1>4 DEF IInv, TypeOK, ClientType, Connections, FoundOnce, At, Of, Count
<1>6. Of(c) = {}
    BY <1>3 DEF Of, Count
<1>7. /\ \A d \in Clients : d # c => client'[d] = client[d]
      /\ client'[c].conns = client[c].conns
      /\ client'[c].at \in {"failed", "connect"}
    BY <1>1 DEF IInv, TypeOK, ClientType
<1>. QED
    BY <1>1, <1>2, <1>5, <1>6, <1>7, QuietClient DEF endDiscovery, At, Early, Returned

\* The next worker is tried.
LEMMA connectFailsIInv == ASSUME IInv, NEW c \in Clients, connectFails(c) PROVE IInv'
<1>1. /\ client' = [client EXCEPT ![c].k = @ + 1]
      /\ client[c].at = "connect" /\ client[c].k <= Len(client[c].workers)
    BY DEF connectFails, At
<1>2. TypeOK'
  <2>0. client[c] \in ClientType /\ client[c].k + 1 \in Nat \ {0}
      BY DEF IInv, TypeOK, ClientType
  <2>1. [client[c] EXCEPT !.k = @ + 1] \in ClientType
      BY <2>0 DEF ClientType
  <2>. QED
      BY <1>1, <2>1 DEF IInv, TypeOK, connectFails
<1>3. FoundOnce(c)'
    BY <1>1 DEF IInv, TypeOK, ClientType, Connections, FoundOnce, At, Of, Count
<1>4. /\ \A d \in Clients : d # c => client'[d] = client[d]
      /\ client'[c].conns = client[c].conns /\ client'[c].at = "connect"
    BY <1>1 DEF IInv, TypeOK, ClientType
<1>. QED
    BY <1>1, <1>2, <1>3, <1>4, QuietClient DEF connectFails, At, Early, Returned

\* The client gives up only if it has no connection.
LEMMA endConnectIInv == ASSUME IInv, NEW c \in Clients, endConnect(c) PROVE IInv'
<1>1. /\ client' = [client EXCEPT ![c].k = 1, ![c].workers = <<>>,
                        ![c].at = IF Of(c) = {} THEN "failed" ELSE "create"]
      /\ client[c].at = "connect"
    BY DEF endConnect, At
<1>2. TypeOK'
  <2>1. client[c] \in ClientType /\ <<>> \in Seq(Found) /\ 1 \in Nat \ {0}
      BY DEF IInv, TypeOK
  <2>2. [client[c] EXCEPT !.k = 1, !.workers = <<>>,
                          !.at = IF Of(c) = {} THEN "failed" ELSE "create"] \in ClientType
      BY <2>1 DEF ClientType
  <2>. QED
      BY <1>1, <2>2 DEF IInv, TypeOK, endConnect
<1>3. FoundOnce(c)'
    BY <1>1 DEF IInv, TypeOK, ClientType, Connections, FoundOnce, At, Of, Count
<1>4. /\ \A d \in Clients : d # c => client'[d] = client[d]
      /\ client'[c].conns = client[c].conns
      /\ client'[c].at \in {"failed", "create"}
      /\ client'[c].at = "failed" => Of(c) = {}
    BY <1>1 DEF IInv, TypeOK, ClientType
<1>. QED
    BY <1>1, <1>2, <1>3, <1>4, QuietClient DEF endConnect, At, Early, Returned

\* A step of a server that touches no connection.
LEMMA QuietServer ==
    ASSUME IInv, con' = con, client' = client, TypeOK', Benchmarked', NEW w \in Workers,
           \A v \in Workers : v # w => server'[v] = server[v],
           server'[w].backlog = server[w].backlog,
           server'[w].sock = server[w].sock, server'[w].ireq = server[w].ireq,
           server'[w].at \in {"receive", "integrate", "respond"}
               <=> server[w].at \in {"receive", "integrate", "respond"}
    PROVE  IInv'
<1>1. \A c \in Clients : FoundOnce(c)'
    BY DEF IInv, Connections, FoundOnce, At, Of, Count
<1>2. /\ \A d \in Clients, i \in Numbers : SocketOf(d, i)'
      /\ \A v \in Workers : SocketsOf(v)'
      /\ Work'
  <2>1. ASSUME NEW v \in Workers
        PROVE  /\ server'[v].backlog = server[v].backlog
               /\ server'[v].sock = server[v].sock /\ server'[v].ireq = server[v].ireq
               /\ server'[v].at \in {"receive", "integrate", "respond"}
                      <=> server[v].at \in {"receive", "integrate", "respond"}
      BY <2>1
  <2>. QED
      BY <2>1, Quiet DEF Early, At, Returned
<1>. QED
    BY <1>1, <1>2 DEF IInv, Connections

\* A server that was down listens.
LEMMA ServerListenIInv == ASSUME IInv, NEW w \in Workers, ServerListen(w) PROVE IInv'
<1>1. server' = [server EXCEPT ![w].at = "listening"] /\ server[w].at = "down"
    BY DEF ServerListen, Listens
<1>2. TypeOK'
  <2>1. server[w] \in ServerType
      BY DEF IInv, TypeOK
  <2>2. [server[w] EXCEPT !.at = "listening"] \in ServerType
      BY <2>1 DEF ServerType
  <2>. QED
      BY <1>1, <2>2 DEF IInv, TypeOK, ServerListen
<1>3. Benchmarked'
    BY <1>1 DEF IInv, TypeOK, ServerType, Benchmarked, Answers, Hears
<1>4. /\ \A v \in Workers : v # w => server'[v] = server[v]
      /\ server'[w].backlog = server[w].backlog
      /\ server'[w].sock = server[w].sock /\ server'[w].ireq = server[w].ireq
      /\ server'[w].at = "listening"
    BY <1>1 DEF IInv, TypeOK, ServerType
<1>. QED
    BY <1>1, <1>2, <1>3, <1>4, QuietServer DEF ServerListen

\* It goes on to its benchmark.
LEMMA ServerStartDiscoveryIInv ==
    ASSUME IInv, NEW w \in Workers, ServerStartDiscovery(w) PROVE IInv'
<1>1. server' = [server EXCEPT ![w].at = "benchmark"] /\ server[w].at = "listening"
    BY DEF ServerStartDiscovery
<1>2. TypeOK'
  <2>1. server[w] \in ServerType
      BY DEF IInv, TypeOK
  <2>2. [server[w] EXCEPT !.at = "benchmark"] \in ServerType
      BY <2>1 DEF ServerType
  <2>. QED
      BY <1>1, <2>2 DEF IInv, TypeOK, ServerStartDiscovery
<1>3. Benchmarked'
    BY <1>1 DEF IInv, TypeOK, ServerType, Benchmarked, Answers, Hears
<1>4. /\ \A v \in Workers : v # w => server'[v] = server[v]
      /\ server'[w].backlog = server[w].backlog
      /\ server'[w].sock = server[w].sock /\ server'[w].ireq = server[w].ireq
      /\ server'[w].at = "benchmark"
    BY <1>1 DEF IInv, TypeOK, ServerType
<1>. QED
    BY <1>1, <1>2, <1>3, <1>4, QuietServer DEF ServerStartDiscovery

\* From the benchmark on it knows its throughput.
LEMMA RunBenchmarkIInv == ASSUME IInv, NEW w \in Workers, RunBenchmark(w) PROVE IInv'
<1>1. /\ server' = [server EXCEPT ![w].at = "accept", ![w].props = throughput[w]]
      /\ server[w].at = "benchmark"
    BY DEF RunBenchmark
<1>2. TypeOK'
  <2>1. server[w] \in ServerType /\ throughput[w] \in Nat
      BY DEF IInv, TypeOK
  <2>2. [server[w] EXCEPT !.at = "accept", !.props = throughput[w]] \in ServerType
      BY <2>1 DEF ServerType
  <2>. QED
      BY <1>1, <2>2 DEF IInv, TypeOK, RunBenchmark
<1>3. Benchmarked'
    BY <1>1 DEF IInv, TypeOK, ServerType, Benchmarked, Answers, Hears
<1>4. /\ \A v \in Workers : v # w => server'[v] = server[v]
      /\ server'[w].backlog = server[w].backlog
      /\ server'[w].sock = server[w].sock /\ server'[w].ireq = server[w].ireq
      /\ server'[w].at = "accept"
    BY <1>1 DEF IInv, TypeOK, ServerType
<1>. QED
    BY <1>1, <1>2, <1>3, <1>4, QuietServer DEF RunBenchmark

\* It is this throughput that it announces.
LEMMA ServerProcessDiscoveryRequestIInv ==
    ASSUME IInv, NEW w \in Workers, NEW c \in Clients, ServerProcessDiscoveryRequest(w, c)
    PROVE  IInv'
<1>1. server[w].props = throughput[w] /\ throughput[w] \in Nat \ {0}
    BY DEF ServerProcessDiscoveryRequest, IInv, Benchmarked
<1>2. TypeOK'
    BY <1>1 DEF IInv, TypeOK, ServerProcessDiscoveryRequest
<1>3. Benchmarked'
    BY DEF IInv, Benchmarked, Answers, Hears, ServerProcessDiscoveryRequest
<1>. QED
    BY <1>2, <1>3, QuietServer DEF ServerProcessDiscoveryRequest

\* A server that integrates keeps its request and its connection.
LEMMA integrateIInv == ASSUME IInv, NEW w \in Workers, integrate(w) PROVE IInv'
<1>1. server' = [server EXCEPT ![w].at = "respond"] /\ server[w].at = "integrate"
    BY DEF integrate
<1>2. TypeOK'
  <2>1. server[w] \in ServerType
      BY DEF IInv, TypeOK
  <2>2. [server[w] EXCEPT !.at = "respond"] \in ServerType
      BY <2>1 DEF ServerType
  <2>. QED
      BY <1>1, <2>2 DEF IInv, TypeOK, integrate
<1>3. Benchmarked'
    BY <1>1 DEF IInv, TypeOK, ServerType, Benchmarked, Answers, Hears
<1>4. /\ \A v \in Workers : v # w => server'[v] = server[v]
      /\ server'[w].backlog = server[w].backlog
      /\ server'[w].sock = server[w].sock /\ server'[w].ireq = server[w].ireq
      /\ server'[w].at = "respond"
    BY <1>1 DEF IInv, TypeOK, ServerType
<1>. QED
    BY <1>1, <1>2, <1>3, <1>4, QuietServer DEF integrate

\* A step that concerns the thread of one connection and what it exchanges.
LEMMA ThreadStep ==
    ASSUME IInv, TypeOK', server' = server, NEW c \in Clients, NEW i \in Numbers,
           \A d \in Clients : /\ FoundOnce(d)'
                              /\ client'[d].conns = client[d].conns
                              /\ client'[d].at = client[d].at,
           \A id \in Conns : id # <<c, i>> => con'[id] = con[id],
           con'[<<c, i>>].mine = con[<<c, i>>].mine,
           con'[<<c, i>>].theirs = con[<<c, i>>].theirs,
           AnswerOf(c, i)'
    PROVE  IInv'
<1>1. Benchmarked'
    BY DEF IInv, Benchmarked, Answers, Hears
<1>2. \A d \in Clients : /\ Of(d)' = Of(d)
                         /\ \A j : Worker(d, j)' = Worker(d, j)
                         /\ \A j : Share(d, j)' = Share(d, j)
    BY SameConnections
<1>3. \A id \in Conns : con'[id].mine = con[id].mine /\ con'[id].theirs = con[id].theirs
    OBVIOUS
<1>4. ASSUME NEW d \in Clients, NEW j \in Numbers PROVE SocketOf(d, j)' /\ AnswerOf(d, j)'
  <2>1. SocketOf(d, j) /\ AnswerOf(d, j) /\ <<d, j>> \in Conns
      BY Places DEF IInv, Connections, Work
  <2>2. SocketOf(d, j)'
      BY <1>2, <1>3, <2>1 DEF SocketOf, Returned, Sock
  <2>3. <<d, j>> # <<c, i>> => AnswerOf(d, j)'
      BY <1>2, <2>1 DEF AnswerOf, Early, At
  <2>. QED
      BY <2>2, <2>3
<1>5. ASSUME NEW w \in Workers PROVE SocketsOf(w)' /\ WorkOf(w)'
  <2>1. SocketsOf(w) /\ WorkOf(w)
      BY DEF IInv, Connections, Work
  <2>2. /\ Sock(w)' = Sock(w)
        /\ Sock(w) # None => Sock(w) \in Conns /\ Sock(w)[1] \in Clients
      BY Places DEF IInv, Sock
  <2>3. \A x \in DOMAIN server[w].backlog :
            server[w].backlog[x] \in Conns /\ server[w].backlog[x][1] \in Clients
      BY Places DEF IInv
  <2>4. SocketsOf(w)'
      BY <1>2, <1>3, <2>1, <2>2, <2>3 DEF SocketsOf
  <2>5. WorkOf(w)'
      BY <1>2, <2>1, <2>2 DEF WorkOf, Early
  <2>. QED
      BY <2>4, <2>5
<1>. QED
    BY <1>1, <1>4, <1>5 DEF IInv, Connections, Work

\* A thread is created, or it is not; nothing has been sent.
LEMMA createIInv == ASSUME IInv, NEW c \in Clients, create(c) PROVE IInv'
<1>0. PICK k : k = client[c].k
    OBVIOUS
<1>1. /\ client[c].at = "create" /\ k \in Of(c)
      /\ client' = [client EXCEPT ![c].k = @ + 1]
    BY <1>0 DEF create, At
<1>2. PICK t \in {"send", "error"} : con' = [con EXCEPT ![<<c, k>>].thread = t]
    BY <1>0 DEF create
<1>3. k \in Numbers /\ <<c, k>> \in Conns
  <2>1. Count(c) <= Cardinality(Workers) /\ Cardinality(Workers) \in Nat
      BY FS_CardinalityType DEF IInv, Connections, FoundOnce
  <2>2. Count(c) \in Nat /\ k \in 1 .. Count(c)
      BY <1>1, Places DEF IInv, Of
  <2>3. k \in Numbers
      BY <2>1, <2>2 DEF Numbers
  <2>. QED
      BY <2>3, Places DEF IInv
<1>4. TypeOK'
  <2>1. client[c] \in ClientType /\ client[c].k + 1 \in Nat \ {0} /\ con[<<c, k>>] \in ConType
      BY <1>3 DEF IInv, TypeOK, ClientType
  <2>2. [client[c] EXCEPT !.k = @ + 1] \in ClientType
      BY <2>1 DEF ClientType
  <2>3. [con[<<c, k>>] EXCEPT !.thread = t] \in ConType
      BY <2>1 DEF ConType
  <2>4. client' \in [Clients -> ClientType]
      BY <1>1, <2>2 DEF IInv, TypeOK
  <2>5. con' \in [Conns -> ConType]
      BY <1>2, <1>3, <2>3 DEF IInv, TypeOK
  <2>. QED
      BY <2>4, <2>5 DEF IInv, TypeOK, create
<1>5. /\ \A d \in Clients : d # c => client'[d] = client[d]
      /\ client'[c].conns = client[c].conns /\ client'[c].at = client[c].at
      /\ client'[c].workers = client[c].workers
    BY <1>1 DEF IInv, TypeOK, ClientType
<1>6. ASSUME NEW d \in Clients PROVE FoundOnce(d)'
    BY <1>1, <1>5 DEF IInv, Connections, FoundOnce, At, Of, Count
<1>7. /\ \A id \in Conns : id # <<c, k>> => con'[id] = con[id]
      /\ con'[<<c, k>>] = [con[<<c, k>>] EXCEPT !.thread = t]
    BY <1>2, <1>3 DEF IInv, TypeOK
<1>8. con[<<c, k>>] \in ConType
    BY <1>3 DEF IInv, TypeOK
<1>9. /\ con'[<<c, k>>].mine = con[<<c, k>>].mine
      /\ con'[<<c, k>>].theirs = con[<<c, k>>].theirs
      /\ con'[<<c, k>>].request = con[<<c, k>>].request
      /\ con'[<<c, k>>].response = con[<<c, k>>].response
      /\ con'[<<c, k>>].thread = t
    BY <1>7, <1>8 DEF ConType
<1>10. AnswerOf(c, k)'
  <2>1. AnswerOf(c, k)
      BY <1>3 DEF IInv, Work
  <2>2. Share(c, k)' = Share(c, k) /\ Of(c)' = Of(c)
      BY <1>5, SameConnections
  <2>. QED
      BY <1>1, <1>5, <1>9, <2>1, <2>2 DEF AnswerOf, Early, At
<1>11. \A d \in Clients : client'[d].conns = client[d].conns /\ client'[d].at = client[d].at
    BY <1>5
<1>. QED
    BY <1>3, <1>4, <1>11, <1>6, <1>7, <1>9, <1>10, ThreadStep DEF create

\* A thread of a client that has all its connections.
LEMMA Running ==
    ASSUME IInv, NEW id \in Conns, con[id].thread # "none"
    PROVE  /\ id[1] \in Clients /\ id[2] \in Numbers /\ id = <<id[1], id[2]>>
           /\ AnswerOf(id[1], id[2])
           /\ id[2] \in Of(id[1]) /\ ~Early(id[1])
           /\ Share(id[1], id[2]) \in SUBSET Interval /\ Share(id[1], id[2]) # None
<1>1. id[1] \in Clients /\ id[2] \in Numbers /\ id = <<id[1], id[2]>>
    BY Places DEF IInv
<1>2. AnswerOf(id[1], id[2])
    BY <1>1 DEF IInv, Work
<1>3. id[2] \in Of(id[1]) /\ ~Early(id[1])
    BY <1>1, <1>2 DEF AnswerOf
<1>4. client[id[1]].conns \in Seq(Found)
    BY <1>1 DEF IInv, TypeOK, ClientType
<1>5. Share(id[1], id[2]) \in SUBSET Interval
    BY <1>1, <1>3, <1>4, SharesPartition
<1>. QED
    BY <1>1, <1>2, <1>3, <1>5, NoneAssumption

\* The connection of a thread, when only the thread steps.
LEMMA OneConnection ==
    ASSUME IInv, TypeOK', client' = client, server' = server, NEW id \in Conns,
           con[id].thread # "none",
           \A e \in Conns : e # id => con'[e] = con[e],
           con'[id].mine = con[id].mine, con'[id].theirs = con[id].theirs,
           con'[id].request # None => con'[id].request = Share(id[1], id[2]),
           con'[id].response # None => con'[id].response = Share(id[1], id[2]),
           con'[id].thread = "answered" => con'[id].answer = Share(id[1], id[2]),
           con[id].thread # "answered"
    PROVE  IInv'
<1>1. /\ id[1] \in Clients /\ id[2] \in Numbers /\ id = <<id[1], id[2]>>
      /\ id[2] \in Of(id[1]) /\ ~Early(id[1]) /\ AnswerOf(id[1], id[2])
    BY Running
<1>2. AnswerOf(id[1], id[2])'
    BY <1>1, SameConnections DEF AnswerOf, Early, At
<1>3. \A d \in Clients : FoundOnce(d)'
    BY DEF IInv, Connections, FoundOnce, At, Of, Count
<1>. QED
    BY <1>1, <1>2, <1>3, ThreadStep

\* The share of the connection is sent, or nothing.
LEMMA sendRequestIInv == ASSUME IInv, NEW id \in Conns, sendRequest(id) PROVE IInv'
<1> DEFINE share == Share(id[1], id[2])
<1>1. con[id] \in ConType /\ con[id].thread = "send"
    BY DEF IInv, TypeOK, sendRequest, Runs
<1>2. share \in Requests
    BY <1>1, Running DEF Requests
<1> HIDE DEF share
<1>3. \/ con' = [con EXCEPT ![id].request = share, ![id].thread = "recv"]
      \/ \E t \in {"recv", "error"} : con' = [con EXCEPT ![id].thread = t]
    BY DEF sendRequest, share
<1>4. PICK r \in ConType :
          /\ con' = [con EXCEPT ![id] = r]
          /\ r.mine = con[id].mine /\ r.theirs = con[id].theirs
          /\ r.request \in {con[id].request, share} /\ r.response = con[id].response
          /\ r.answer = con[id].answer /\ r.thread \in {"recv", "error"}
  <2>1. CASE con' = [con EXCEPT ![id].request = share, ![id].thread = "recv"]
    <3>1. [con[id] EXCEPT !.request = share, !.thread = "recv"] \in ConType
        BY <1>1, <1>2 DEF ConType
    <3>. QED
        BY <1>1, <2>1, <3>1 DEF ConType
  <2>2. ASSUME NEW t \in {"recv", "error"}, con' = [con EXCEPT ![id].thread = t]
        PROVE  \E r \in ConType :
          /\ con' = [con EXCEPT ![id] = r]
          /\ r.mine = con[id].mine /\ r.theirs = con[id].theirs
          /\ r.request \in {con[id].request, share} /\ r.response = con[id].response
          /\ r.answer = con[id].answer /\ r.thread \in {"recv", "error"}
    <3>1. [con[id] EXCEPT !.thread = t] \in ConType
        BY <1>1 DEF ConType
    <3>. QED
        BY <1>1, <2>2, <3>1 DEF ConType
  <2>. QED
      BY <1>3, <2>1, <2>2
<1>5. TypeOK' /\ con'[id] = r /\ \A e \in Conns : e # id => con'[e] = con[e]
    BY <1>4 DEF IInv, TypeOK, sendRequest
<1>6. AnswerOf(id[1], id[2]) /\ id = <<id[1], id[2]>>
    BY <1>1, Running
<1>. QED
    BY <1>1, <1>4, <1>5, <1>6, OneConnection DEF sendRequest, AnswerOf, share

\* What a thread receives is the answer for its share.
LEMMA recvResponseIInv == ASSUME IInv, NEW id \in Conns, recvResponse(id) PROVE IInv'
<1>1. /\ con[id] \in ConType /\ con[id].thread = "recv" /\ con[id].response # None
      /\ con' = [con EXCEPT ![id].answer = con[id].response, ![id].response = None,
                            ![id].thread = "answered"]
    BY DEF IInv, TypeOK, recvResponse, Runs
<1> DEFINE r == [con[id] EXCEPT !.answer = con[id].response, !.response = None,
                                !.thread = "answered"]
<1>2. /\ r \in ConType
      /\ r.mine = con[id].mine /\ r.theirs = con[id].theirs
      /\ r.request = con[id].request /\ r.response = None
      /\ r.answer = con[id].response /\ r.thread = "answered"
    BY <1>1 DEF ConType, Requests
<1>3. con' = [con EXCEPT ![id] = r]
    BY <1>1
<1> HIDE DEF r
<1>4. TypeOK' /\ con'[id] = r /\ \A e \in Conns : e # id => con'[e] = con[e]
  <2>1. con \in [Conns -> ConType]
      BY DEF IInv, TypeOK
  <2>2. con' \in [Conns -> ConType] /\ con'[id] = r /\ \A e \in Conns : e # id => con'[e] = con[e]
      BY <1>2, <1>3, <2>1
  <2>. QED
      BY <2>2 DEF IInv, TypeOK, recvResponse
<1>5. AnswerOf(id[1], id[2]) /\ id = <<id[1], id[2]>>
    BY <1>1, Running
<1>6. UNCHANGED <<client, server>>
    BY DEF recvResponse
<1>. QED
    BY <1>1, <1>2, <1>4, <1>5, <1>6, OneConnection DEF AnswerOf

\* A thread without an answer ends.
LEMMA recvFailsIInv == ASSUME IInv, NEW id \in Conns, recvFails(id) PROVE IInv'
<1>1. /\ con[id] \in ConType /\ con[id].thread = "recv"
      /\ con' = [con EXCEPT ![id].thread = "error"]
    BY DEF IInv, TypeOK, recvFails, Runs
<1> DEFINE r == [con[id] EXCEPT !.thread = "error"]
<1>2. /\ r \in ConType
      /\ r.mine = con[id].mine /\ r.theirs = con[id].theirs
      /\ r.request = con[id].request /\ r.response = con[id].response
      /\ r.thread = "error"
    BY <1>1 DEF ConType
<1>3. con' = [con EXCEPT ![id] = r]
    BY <1>1
<1> HIDE DEF r
<1>4. TypeOK' /\ con'[id] = r /\ \A e \in Conns : e # id => con'[e] = con[e]
    BY <1>2, <1>3 DEF IInv, TypeOK, recvFails
<1>5. AnswerOf(id[1], id[2]) /\ id = <<id[1], id[2]>>
    BY <1>1, Running
<1>. QED
    BY <1>1, <1>2, <1>4, <1>5, OneConnection DEF recvFails, AnswerOf

\* What closing all connections of a client leaves.
LEMMA AllClosed ==
    ASSUME TypeOK, NEW c \in Clients, NEW result \in {"ok", "failed", "killed"},
           CloseAll(c, result)
    PROVE  /\ con' \in [Conns -> ConType]
           /\ \A id \in Conns :
                 /\ con'[id].theirs = con[id].theirs /\ con'[id].request = con[id].request
                 /\ con'[id].response \in {con[id].response, None}
                 /\ id[1] # c \/ con[id].mine # "open" => con'[id] = con[id]
                 /\ id[1] = c /\ con[id].mine = "open" =>
                       /\ con'[id].mine = "closed"
                       /\ con'[id].thread = IF result = "ok" THEN con[id].thread ELSE "none"
                       /\ con'[id].answer = IF result = "ok" THEN con[id].answer ELSE None
<1> DEFINE r(id) == [con[id] EXCEPT !.mine = "closed", !.response = None,
                             !.thread = IF result = "ok" THEN con[id].thread ELSE "none",
                             !.answer = IF result = "ok" THEN con[id].answer ELSE None]
<1>1. ASSUME NEW id \in Conns
      PROVE  /\ r(id) \in ConType
             /\ r(id).mine = "closed" /\ r(id).theirs = con[id].theirs
             /\ r(id).request = con[id].request /\ r(id).response = None
             /\ r(id).thread = IF result = "ok" THEN con[id].thread ELSE "none"
             /\ r(id).answer = IF result = "ok" THEN con[id].answer ELSE None
  <2>1. con[id] \in ConType /\ None \in Requests
      BY DEF TypeOK, Requests
  <2>. QED
      BY <2>1 DEF ConType
<1>2. con' = [id \in Conns |-> IF id[1] # c \/ con[id].mine # "open" THEN con[id] ELSE r(id)]
    BY DEF CloseAll
<1>3. con \in [Conns -> ConType]
    BY DEF TypeOK
<1> HIDE DEF r
<1>. QED
    BY <1>1, <1>2, <1>3

\* A client that returns or is killed closes what it had open.
LEMMA ClientEnds ==
    ASSUME IInv, NEW c \in Clients, NEW result \in {"ok", "failed", "killed"},
           CloseAll(c, result), TypeOK', server' = server,
           \A d \in Clients : d # c => client'[d] = client[d],
           client'[c].conns = client[c].conns, client'[c].at = result,
           client'[c].workers \in {client[c].workers, <<>>},
           client[c].at \in {"broadcast", "discover", "connect", "create"},
           result = "ok" => /\ client[c].at = "create"
                            /\ \A i \in Of(c) : con[<<c, i>>].thread = "answered"
    PROVE  IInv'
<1>1. Benchmarked'
    BY DEF IInv, Benchmarked, Answers, Hears
<1>2. \A d \in Clients : /\ Of(d)' = Of(d)
                         /\ client'[d].conns = client[d].conns
                         /\ \A j : Worker(d, j)' = Worker(d, j)
                         /\ \A j : Share(d, j)' = Share(d, j)
    BY SameConnections
<1>3. ASSUME NEW d \in Clients PROVE FoundOnce(d)'
  <2>1. FoundOnce(d)
      BY DEF IInv, Connections
  <2>2. CASE d # c
      BY <2>1, <2>2 DEF FoundOnce, At, Of, Count
  <2>3. CASE d = c
    <3>. QED
        BY <2>1, <2>3, <1>2 DEF FoundOnce, At, Of, Count
  <2>. QED
      BY <2>2, <2>3
<1>4. \A id \in Conns :
         /\ con'[id].theirs = con[id].theirs /\ con'[id].request = con[id].request
         /\ con'[id].response \in {con[id].response, None}
         /\ id[1] # c \/ con[id].mine # "open" => con'[id] = con[id]
         /\ id[1] = c /\ con[id].mine = "open" =>
               /\ con'[id].mine = "closed"
               /\ con'[id].thread = IF result = "ok" THEN con[id].thread ELSE "none"
               /\ con'[id].answer = IF result = "ok" THEN con[id].answer ELSE None
    BY AllClosed DEF IInv
<1>5. ASSUME NEW d \in Clients, NEW j \in Numbers PROVE SocketOf(d, j)' /\ AnswerOf(d, j)'
  <2>1. SocketOf(d, j) /\ AnswerOf(d, j) /\ <<d, j>> \in Conns
      BY Places DEF IInv, Connections, Work
  <2>2. Share(d, j)' = Share(d, j) /\ Of(d)' = Of(d) /\ Worker(d, j)' = Worker(d, j)
      BY <1>2
  <2>3. CASE d # c
    <3>1. con'[<<d, j>>] = con[<<d, j>>] /\ client'[d] = client[d]
        BY <1>4, <2>1, <2>3
    <3>. QED
        BY <2>1, <2>2, <3>1 DEF SocketOf, AnswerOf, Returned, Sock, Early, At
  <2>4. CASE d = c
    <3>1. con'[<<c, j>>].theirs = con[<<c, j>>].theirs /\ con'[<<c, j>>].mine # "open"
        BY <1>4, <2>1, <2>4
    <3>2. SocketOf(c, j)'
        BY <1>4, <2>1, <2>2, <2>4, <3>1 DEF SocketOf, Sock
    <3>3. AnswerOf(c, j)'
        BY <1>4, <2>1, <2>2, <2>4 DEF AnswerOf, Early, At
    <3>. QED
        BY <2>4, <3>2, <3>3
  <2>. QED
      BY <2>3, <2>4
<1>6. ASSUME NEW w \in Workers PROVE SocketsOf(w)' /\ WorkOf(w)'
  <2>1. SocketsOf(w) /\ WorkOf(w)
      BY DEF IInv, Connections, Work
  <2>2. /\ Sock(w)' = Sock(w)
        /\ Sock(w) # None => Sock(w) \in Conns /\ Sock(w)[1] \in Clients
      BY Places DEF IInv, Sock
  <2>3. \A x \in DOMAIN server[w].backlog :
            server[w].backlog[x] \in Conns /\ server[w].backlog[x][1] \in Clients
      BY Places DEF IInv
  <2>4. SocketsOf(w)'
      BY <1>2, <1>4, <2>1, <2>2, <2>3 DEF SocketsOf
  <2>5. WorkOf(w)'
      BY <1>2, <2>1, <2>2 DEF WorkOf, Early
  <2>. QED
      BY <2>4, <2>5
<1>. QED
    BY <1>1, <1>3, <1>5, <1>6 DEF IInv, Connections, Work

\* A client succeeds with an answer on every connection, and fails with none.
LEMMA joinIInv == ASSUME IInv, NEW c \in Clients, join(c) PROVE IInv'
<1>1. PICK result \in {"ok", "failed"} :
          /\ result = "ok" => \A i \in Of(c) : con[<<c, i>>].thread = "answered"
          /\ client' = [client EXCEPT ![c].at = result, ![c].k = 1]
          /\ CloseAll(c, result)
    BY DEF join
<1>2. client[c].at = "create" /\ client[c] \in ClientType /\ 1 \in Nat \ {0}
  <2>1. client[c].at = "create"
      BY DEF join, At
  <2>. QED
      BY <2>1 DEF IInv, TypeOK
<1>3. [client[c] EXCEPT !.at = result, !.k = 1] \in ClientType
    BY <1>2 DEF ClientType
<1>4. client' \in [Clients -> ClientType]
    BY <1>1, <1>3 DEF IInv, TypeOK
<1>5. con' \in [Conns -> ConType]
    BY <1>1, AllClosed DEF IInv
<1>6. TypeOK'
    BY <1>4, <1>5 DEF IInv, TypeOK, join
<1>7. /\ \A d \in Clients : d # c => client'[d] = client[d]
      /\ client'[c].conns = client[c].conns /\ client'[c].at = result
      /\ client'[c].workers = client[c].workers
    BY <1>1, <1>2 DEF IInv, TypeOK, ClientType
<1>. QED
    BY <1>1, <1>2, <1>6, <1>7, ClientEnds DEF join

\* What is killed is closed by the kernel.
LEMMA clientKilledIInv == ASSUME IInv, NEW c \in Clients, clientKilled(c) PROVE IInv'
<1>1. /\ client' = [client EXCEPT ![c].at = "killed", ![c].left = 0, ![c].elapsed = 0,
                                  ![c].workers = <<>>, ![c].k = 1]
      /\ CloseAll(c, "killed") /\ CloseDiscovery(c) /\ server' = server
      /\ client[c].at \in {"broadcast", "discover", "connect", "create"}
    BY DEF clientKilled
<1>2. client[c] \in ClientType /\ 1 \in Nat \ {0} /\ <<>> \in Seq(Found)
    BY DEF IInv, TypeOK
<1>3. [client[c] EXCEPT !.at = "killed", !.left = 0, !.elapsed = 0, !.workers = <<>>, !.k = 1]
          \in ClientType
    BY <1>2 DEF ClientType
<1>4. client' \in [Clients -> ClientType]
    BY <1>1, <1>3 DEF IInv, TypeOK
<1>5. con' \in [Conns -> ConType]
    BY <1>1, AllClosed DEF IInv
<1>6. TypeOK'
    BY <1>1, <1>4, <1>5 DEF IInv, TypeOK, clientKilled, CloseDiscovery
<1>7. /\ \A d \in Clients : d # c => client'[d] = client[d]
      /\ client'[c].conns = client[c].conns /\ client'[c].at = "killed"
      /\ client'[c].workers = <<>>
    BY <1>1, <1>2 DEF IInv, TypeOK, ClientType
<1>. QED
    BY <1>1, <1>6, <1>7, ClientEnds

\* No more workers are found than there are.
LEMMA OnceEach ==
    ASSUME NEW m \in Nat, NEW f \in [1 .. m -> Workers],
           \A i, j \in 1 .. m : f[i] = f[j] => i = j
    PROVE  m <= Cardinality(Workers)
<1>1. PICK S : S = 1 .. m
    OBVIOUS
<1>2. IsFiniteSet(S) /\ Cardinality(S) = m
    BY <1>1, FS_Interval
<1>3. IsFiniteSet(Workers) /\ Cardinality(Workers) \in Nat
    BY FS_CardinalityType
<1>4. f \in [S -> Workers]
    BY <1>1
<1>5. Cardinality(Workers) < Cardinality(S) => \E x, y \in S : x # y /\ f[x] = f[y]
  <2> SUFFICES ASSUME Cardinality(Workers) < Cardinality(S)
               PROVE  \E x, y \in S : x # y /\ f[x] = f[y]
      OBVIOUS
  <2>1. IsFiniteSet(S) /\ IsFiniteSet(Workers) /\ f \in [S -> Workers]
      BY <1>2, <1>3, <1>4
  <2>. QED
      BY <2>1, FS_PigeonHole, SMTT(20)
<1>6. m <= Cardinality(Workers) \/ Cardinality(Workers) < m
    BY <1>3
<1>7. CASE Cardinality(Workers) < m
  <2>1. PICK x, y \in S : x # y /\ f[x] = f[y]
      BY <1>2, <1>5, <1>7
  <2>. QED
      BY <1>1, <2>1
<1>. QED
    BY <1>6, <1>7

\* A new connection has a number of its own and waits at its server.
LEMMA connectIInv == ASSUME IInv, NEW c \in Clients, connect(c) PROVE IInv'
<1>0. PICK w, n : w = client[c].workers[client[c].k] /\ n = Count(c) + 1
    OBVIOUS
<1>1. /\ client[c].at = "connect" /\ client[c].k <= Len(client[c].workers)
      /\ Listens(w.at)
      /\ client' = [client EXCEPT ![c].conns = Append(@, w), ![c].k = @ + 1]
      /\ con' = [con EXCEPT ![<<c, n>>].mine = "open", ![<<c, n>>].theirs = "waiting"]
      /\ server' = [server EXCEPT ![w.at].backlog = Append(@, <<c, n>>)]
      /\ UNCHANGED <<asked, told, starts>>
    BY <1>0 DEF connect, At
<1>2. /\ client[c] \in ClientType /\ client[c].k + 1 \in Nat \ {0}
      /\ client[c].workers \in Seq(Found) /\ client[c].conns \in Seq(Found)
      /\ FoundOnce(c)
    BY DEF IInv, TypeOK, ClientType, Connections
<1>22. /\ client[c].k \in Nat \ {0} /\ Count(c) \in Nat /\ Count(c) < client[c].k
       /\ Len(client[c].workers) \in Nat /\ client[c].k <= Len(client[c].workers)
  <2>1. client[c].k \in Nat \ {0}
      BY <1>2 DEF ClientType
  <2>2. Count(c) \in Nat /\ Len(client[c].workers) \in Nat
      BY <1>2 DEF Count
  <2>3. Count(c) < client[c].k
      BY <1>1, <1>2 DEF FoundOnce, At
  <2>4. client[c].k <= Len(client[c].workers)
      BY <1>1
  <2>. QED
      BY <2>1, <2>2, <2>3, <2>4
<1>3. w \in Found /\ w.at \in Workers
  <2>1. client[c].k \in 1 .. Len(client[c].workers)
      BY <1>1, <1>22
  <2>2. w \in Found
      BY <1>0, <1>2, <2>1
  <2>. QED
      BY <2>2 DEF Found
<1>4. n <= Len(client[c].workers) /\ n \in Nat \ {0}
    BY <1>0, <1>22
<1>5. n <= Cardinality(Workers)
  <2> DEFINE m == Len(client[c].workers)
             f == [j \in 1 .. m |-> client[c].workers[j].at]
  <2>1. m \in Nat /\ \A j \in 1 .. m : client[c].workers[j] \in Found
      BY <1>2
  <2>2. f \in [1 .. m -> Workers]
      BY <2>1 DEF Found
  <2>3. \A i, j \in 1 .. m : f[i] = f[j] => i = j
      BY <1>2, <2>1 DEF FoundOnce
  <2> HIDE DEF f
  <2>4. m <= Cardinality(Workers) /\ Cardinality(Workers) \in Nat
      BY <2>1, <2>2, <2>3, OnceEach, FS_CardinalityType
  <2>. QED
      BY <1>4, <2>1, <2>4
<1>6. n \in Numbers /\ <<c, n>> \in Conns
  <2>1. n \in Numbers
      BY <1>4, <1>5, FS_CardinalityType DEF Numbers
  <2>. QED
      BY <2>1, Places DEF IInv
<1>7. n \notin Of(c) /\ Early(c)
  <2>1. n \notin Of(c)
      BY <1>0, <1>22 DEF Of
  <2>2. Early(c)
      BY <1>1 DEF Early
  <2>. QED
      BY <2>1, <2>2
<1>8. /\ con[<<c, n>>].mine = "none" /\ con[<<c, n>>].theirs = "none"
      /\ con[<<c, n>>] \in ConType
    BY <1>6, <1>7 DEF IInv, Connections, SocketOf, TypeOK
<1>9. /\ client' \in [Clients -> ClientType]
      /\ \A d \in Clients : d # c => client'[d] = client[d]
      /\ client'[c].conns = Append(client[c].conns, w)
      /\ client'[c].at = "connect" /\ client'[c].k = client[c].k + 1
      /\ client'[c].workers = client[c].workers
  <2>1. Append(client[c].conns, w) \in Seq(Found)
      BY <1>2, <1>3
  <2>2. [client[c] EXCEPT !.conns = Append(@, w), !.k = @ + 1] \in ClientType
      BY <1>2, <2>1 DEF ClientType
  <2>3. client' \in [Clients -> ClientType]
      BY <1>1, <2>2 DEF IInv, TypeOK
  <2>. QED
      BY <1>1, <1>2, <2>3 DEF IInv, TypeOK, ClientType
<1>10. /\ con' \in [Conns -> ConType]
       /\ \A id \in Conns : id # <<c, n>> => con'[id] = con[id]
       /\ con'[<<c, n>>].mine = "open" /\ con'[<<c, n>>].theirs = "waiting"
       /\ con'[<<c, n>>].request = con[<<c, n>>].request
       /\ con'[<<c, n>>].response = con[<<c, n>>].response
       /\ con'[<<c, n>>].answer = con[<<c, n>>].answer
       /\ con'[<<c, n>>].thread = con[<<c, n>>].thread
  <2> DEFINE r == [con[<<c, n>>] EXCEPT !.mine = "open", !.theirs = "waiting"]
  <2>1. /\ r \in ConType /\ r.mine = "open" /\ r.theirs = "waiting"
        /\ r.request = con[<<c, n>>].request /\ r.response = con[<<c, n>>].response
        /\ r.answer = con[<<c, n>>].answer /\ r.thread = con[<<c, n>>].thread
      BY <1>8 DEF ConType
  <2>2. con' = [con EXCEPT ![<<c, n>>] = r] /\ con \in [Conns -> ConType]
      BY <1>1 DEF IInv, TypeOK
  <2> HIDE DEF r
  <2>. QED
      BY <1>6, <2>1, <2>2
<1>11. /\ server' \in [Workers -> ServerType]
       /\ \A v \in Workers : v # w.at => server'[v] = server[v]
       /\ server'[w.at].backlog = Append(server[w.at].backlog, <<c, n>>)
       /\ server'[w.at].at = server[w.at].at /\ server'[w.at].sock = server[w.at].sock
       /\ server'[w.at].ireq = server[w.at].ireq /\ server'[w.at].props = server[w.at].props
  <2>1. server[w.at] \in ServerType
      BY <1>3 DEF IInv, TypeOK
  <2>2. Append(server[w.at].backlog, <<c, n>>) \in Seq(Conns)
      BY <1>6, <2>1 DEF ServerType
  <2>3. [server[w.at] EXCEPT !.backlog = Append(@, <<c, n>>)] \in ServerType
      BY <2>1, <2>2 DEF ServerType
  <2>4. server' \in [Workers -> ServerType]
      BY <1>1, <2>3 DEF IInv, TypeOK
  <2>. QED
      BY <1>1, <1>3, <2>1, <2>4 DEF IInv, TypeOK, ServerType
<1>12. TypeOK'
    BY <1>1, <1>9, <1>10, <1>11 DEF IInv, TypeOK
<1>13. Benchmarked'
    BY <1>11 DEF IInv, Benchmarked, Answers, Hears
<1>14. /\ Count(c)' = n /\ Of(c)' = Of(c) \union {n}
       /\ Worker(c, n)' = w /\ \A i \in Of(c) : Worker(c, i)' = Worker(c, i)
    BY <1>0, <1>2, <1>9 DEF Count, Of, Worker
<1>15. \A d \in Clients : d # c => /\ Of(d)' = Of(d)
                                   /\ \A i : Worker(d, i)' = Worker(d, i)
                                   /\ \A i : Share(d, i)' = Share(d, i)
    BY <1>9, SameConnections
<1>16. ASSUME NEW d \in Clients PROVE FoundOnce(d)'
  <2>1. CASE d = c
    <3>1. /\ client'[c].at = "connect" /\ client'[c].k = client[c].k + 1
          /\ client'[c].workers = client[c].workers /\ Count(c)' = n
        BY <1>9, <1>14
    <3>2. n < client[c].k + 1 /\ client[c].k + 1 <= Len(client[c].workers) + 1
        BY <1>0, <1>22
    <3>. QED
        BY <1>2, <1>5, <2>1, <3>1, <3>2 DEF FoundOnce, At
  <2>2. CASE d # c
    <3>1. FoundOnce(d) /\ client'[d] = client[d]
        BY <1>9, <2>2 DEF IInv, Connections
    <3>. QED
        BY <3>1 DEF FoundOnce, At, Of, Count
  <2>. QED
      BY <2>1, <2>2
<1>17. \A v \in Workers : Sock(v)' = Sock(v) /\ server'[v].at = server[v].at
                                             /\ server'[v].ireq = server[v].ireq
    BY <1>11 DEF Sock
<1>18. ASSUME NEW d \in Clients, NEW j \in Numbers PROVE SocketOf(d, j)' /\ AnswerOf(d, j)'
  <2>1. SocketOf(d, j) /\ AnswerOf(d, j) /\ <<d, j>> \in Conns
      BY Places DEF IInv, Connections, Work
  <2>2. CASE d # c
    <3>1. /\ con'[<<d, j>>] = con[<<d, j>>] /\ client'[d] = client[d]
          /\ Of(d)' = Of(d) /\ Worker(d, j)' = Worker(d, j) /\ Share(d, j)' = Share(d, j)
        BY <1>9, <1>10, <1>15, <2>1, <2>2
    <3>2. j \in Of(d) => Worker(d, j).at \in Workers
        BY Places DEF IInv, Found
    <3>. QED
        BY <1>17, <2>1, <3>1, <3>2 DEF SocketOf, AnswerOf, Returned, Early, At
  <2>3. CASE d = c /\ j # n
    <3>1. /\ con'[<<d, j>>] = con[<<d, j>>]
          /\ (j \in Of(c))' <=> j \in Of(c)
          /\ j \in Of(c) => Worker(c, j)' = Worker(c, j) /\ Worker(c, j).at \in Workers
        BY <1>10, <1>14, <2>1, <2>3, Places DEF IInv, Found
    <3>2. ~Returned(c)' /\ Early(c)' /\ ~At(c, "ok")'
        BY <1>9 DEF Returned, Early, At
    <3>3. SocketOf(d, j)'
        BY <1>17, <2>1, <2>3, <3>1, <3>2 DEF SocketOf
    <3>4. AnswerOf(d, j)'
      <4>1. /\ con[<<d, j>>].request = None /\ con[<<d, j>>].response = None
            /\ con[<<d, j>>].answer = None /\ con[<<d, j>>].thread = "none"
          BY <1>7, <2>1, <2>3 DEF AnswerOf
      <4>. QED
          BY <2>3, <3>1, <3>2, <4>1 DEF AnswerOf
    <3>. QED
        BY <3>3, <3>4
  <2>4. CASE d = c /\ j = n
    <3>1. ~Returned(c)' /\ Early(c)' /\ ~At(c, "ok")'
        BY <1>9 DEF Returned, Early, At
    <3>2. SocketOf(d, j)'
        BY <1>10, <1>14, <2>4, <3>1 DEF SocketOf
    <3>3. AnswerOf(d, j)'
      <4>1. /\ con[<<d, j>>].request = None /\ con[<<d, j>>].response = None
            /\ con[<<d, j>>].answer = None /\ con[<<d, j>>].thread = "none"
          BY <1>7, <2>1, <2>4 DEF AnswerOf
      <4>. QED
          BY <1>10, <2>4, <3>1, <4>1 DEF AnswerOf
    <3>. QED
        BY <3>2, <3>3
  <2>. QED
      BY <2>2, <2>3, <2>4
<1>19. ASSUME NEW id \in Conns, con[id].theirs # "none"
       PROVE  /\ con'[id] = con[id] /\ id # <<c, n>>
              /\ id[1] \in Clients /\ id[2] \in Of(id[1])
              /\ Worker(id[1], id[2])' = Worker(id[1], id[2])
  <2>1. id # <<c, n>> /\ id[1] \in Clients /\ id[2] \in Numbers /\ id = <<id[1], id[2]>>
      BY <1>8, <1>19, Places DEF IInv
  <2>2. id[2] \in Of(id[1])
      BY <1>19, <2>1 DEF IInv, Connections, SocketOf
  <2>. QED
      BY <1>10, <1>14, <1>15, <2>1, <2>2
<1>20. ASSUME NEW v \in Workers PROVE SocketsOf(v)'
  <2>1. SocketsOf(v) /\ Sock(v)' = Sock(v) /\ server'[v].at = server[v].at
      BY <1>17 DEF IInv, Connections
  <2>2. Sock(v) # None => /\ con'[Sock(v)].theirs = "accepted"
                          /\ Worker(Sock(v)[1], Sock(v)[2]).at' = v
      BY <1>19, <2>1, Places DEF IInv, SocketsOf
  <2>6. PICK b : b = server[v].backlog
      OBVIOUS
  <2>3. ASSUME NEW x \in DOMAIN b
        PROVE  /\ b[x] \in Conns /\ b[x] # <<c, n>> /\ con'[b[x]].theirs = "waiting"
               /\ Worker(b[x][1], b[x][2]).at' = v
    <3>1. b[x] \in Conns
        BY <2>6, Places DEF IInv
    <3>2. con[b[x]].theirs = "waiting" /\ Worker(b[x][1], b[x][2]).at = v
        BY <2>1, <2>6 DEF SocketsOf
    <3>3. /\ con'[b[x]] = con[b[x]] /\ b[x] # <<c, n>>
          /\ Worker(b[x][1], b[x][2])' = Worker(b[x][1], b[x][2])
        BY <1>19, <3>1, <3>2
    <3>. QED
        BY <3>1, <3>2, <3>3
  <2>4. CASE v # w.at
    <3>1. server'[v].backlog = b
        BY <1>11, <2>4, <2>6
    <3>2. \A x, y \in DOMAIN b : b[y] = b[x] => y = x
        BY <2>1, <2>6 DEF SocketsOf
    <3>. QED
        BY <2>1, <2>2, <2>3, <3>1, <3>2 DEF SocketsOf
  <2>5. CASE v = w.at
    <3>1. b \in Seq(Conns)
        BY <2>6 DEF IInv, TypeOK, ServerType
    <3>2. server'[v].backlog = Append(b, <<c, n>>)
        BY <1>11, <2>5, <2>6
    <3>3. /\ Len(b) \in Nat /\ DOMAIN b = 1 .. Len(b)
          /\ DOMAIN Append(b, <<c, n>>) = 1 .. Len(b) + 1
          /\ Append(b, <<c, n>>)[Len(b) + 1] = <<c, n>>
          /\ \A x \in DOMAIN b : Append(b, <<c, n>>)[x] = b[x]
        BY <1>6, <3>1
    <3>4. \A x, y \in DOMAIN b : b[y] = b[x] => y = x
        BY <2>1, <2>6 DEF SocketsOf
    <3>5. \A x \in DOMAIN b : /\ b[x] # <<c, n>> /\ con'[b[x]].theirs = "waiting"
                              /\ Worker(b[x][1], b[x][2]).at' = v
        BY <2>3
    <3>6. con'[<<c, n>>].theirs = "waiting" /\ Worker(c, n).at' = v
        BY <1>10, <1>14, <2>5
    <3>7. \A x \in 1 .. Len(b) + 1 : x \in DOMAIN b \/ x = Len(b) + 1
        BY <3>3
    <3> DEFINE b2 == Append(b, <<c, n>>)
    <3>9. \A x, y \in DOMAIN b2 : b2[y] = b2[x] => y = x
        BY <3>3, <3>4, <3>5, <3>7
    <3>10. \A x \in DOMAIN b2 : /\ con'[b2[x]].theirs = "waiting"
                                /\ Worker(b2[x][1], b2[x][2]).at' = v
      <4>1. SUFFICES ASSUME NEW x \in DOMAIN b2
                     PROVE  /\ con'[b2[x]].theirs = "waiting"
                            /\ Worker(b2[x][1], b2[x][2]).at' = v
          OBVIOUS
      <4>2. CASE x \in DOMAIN b
        <5>1. b2[x] = b[x]
            BY <3>3, <4>2
        <5>. QED
            BY <3>5, <4>2, <5>1
      <4>3. CASE x = Len(b) + 1
        <5>1. b2[x] = <<c, n>>
            BY <3>3, <4>3
        <5>. QED
            BY <3>6, <5>1
      <4>. QED
          BY <3>3, <3>7, <4>2, <4>3
    <3>. QED
        BY <2>1, <2>2, <3>2, <3>9, <3>10 DEF SocketsOf
  <2>. QED
      BY <2>4, <2>5
<1>21. ASSUME NEW v \in Workers PROVE WorkOf(v)'
  <2>1. WorkOf(v) /\ Sock(v)' = Sock(v) /\ server'[v].ireq = server[v].ireq
      BY <1>17 DEF IInv, Work
  <2>2. ASSUME server[v].ireq # None
        PROVE  /\ Sock(v)[1] \in Clients /\ Sock(v)[1] # c
      BY <1>7, <2>1, <2>2, Places DEF IInv, WorkOf
  <2>. QED
      BY <1>9, <1>15, <2>1, <2>2 DEF WorkOf, Early
<1>. QED
    BY <1>12, <1>13, <1>16, <1>18, <1>20, <1>21 DEF IInv, Connections, Work

\* What the step of a server may do to a connection.
Served(w, id) ==
    /\ con'[id].mine = con[id].mine /\ con'[id].thread = con[id].thread
    /\ con'[id].answer = con[id].answer
    /\ con'[id].request \in {con[id].request, None}
    /\ con'[id].response \in {con[id].response, None, Share(id[1], id[2])}
    /\ con'[id].response \in {con[id].response, None} \/ ~Early(id[1])
    /\ con[id].theirs = "none" => con'[id] = con[id]
    /\ con[id].theirs # "none" /\ Worker(id[1], id[2]).at # w =>
           con'[id].theirs = con[id].theirs
    /\ con'[id].theirs = "accepted" /\ Worker(id[1], id[2]).at = w =>
           id = server'[w].sock

\* A step of a server with the connections it has accepted or that wait for it.
LEMMA ServerStep ==
    ASSUME IInv, TypeOK', Benchmarked', client' = client, NEW w \in Workers,
           \A v \in Workers : v # w => server'[v] = server[v],
           SocketsOf(w)', WorkOf(w)',
           \A id \in Conns : Served(w, id)
    PROVE  IInv'
<1>1. \A d \in Clients : /\ Of(d)' = Of(d)
                         /\ \A j : Worker(d, j)' = Worker(d, j)
                         /\ \A j : Share(d, j)' = Share(d, j)
    BY SameConnections
<1>2. \A d \in Clients : FoundOnce(d)'
    BY DEF IInv, Connections, FoundOnce, At, Of, Count
<1>3. \A v \in Workers : v # w => Sock(v)' = Sock(v)
    BY DEF Sock
<1>4. ASSUME NEW d \in Clients, NEW j \in Numbers PROVE SocketOf(d, j)' /\ AnswerOf(d, j)'
  <2>1. SocketOf(d, j) /\ AnswerOf(d, j) /\ <<d, j>> \in Conns
      BY Places DEF IInv, Connections, Work
  <2>2. PICK id : id = <<d, j>> /\ id[1] = d /\ id[2] = j /\ id \in Conns
      BY <2>1
  <2>0. Served(w, id)
      BY <2>2
  <2>3. j \in Of(d) => Worker(d, j).at \in Workers
      BY Places DEF IInv, Found
  <2>4. Of(d)' = Of(d) /\ Worker(d, j)' = Worker(d, j) /\ Share(d, j)' = Share(d, j)
      BY <1>1
  <2>5. j \notin Of(d) => con'[id] = con[id]
      BY <2>0, <2>1, <2>2 DEF SocketOf, Served
  <2>6. con'[id].theirs = "accepted" => Sock(Worker(d, j).at)' = id
    <3>1. CASE j \notin Of(d)
        BY <2>1, <2>2, <2>5, <3>1 DEF SocketOf
    <3>2. CASE j \in Of(d) /\ Worker(d, j).at = w
        BY <2>0, <2>2, <2>4, <3>2 DEF Sock, Served
    <3>3. CASE j \in Of(d) /\ Worker(d, j).at # w
        BY <1>3, <2>0, <2>1, <2>2, <2>3, <2>4, <3>3 DEF SocketOf, Served
    <3>. QED
        BY <3>1, <3>2, <3>3
  <2>7. SocketOf(d, j)'
      BY <2>0, <2>1, <2>2, <2>4, <2>5, <2>6 DEF SocketOf, Returned, Served
  <2>8. AnswerOf(d, j)'
      BY <2>0, <2>1, <2>2, <2>4, <2>5 DEF AnswerOf, Early, At, Served
  <2>. QED
      BY <2>7, <2>8
<1>5. ASSUME NEW v \in Workers, v # w PROVE SocketsOf(v)' /\ WorkOf(v)'
  <2>1. SocketsOf(v) /\ WorkOf(v) /\ Sock(v)' = Sock(v) /\ server'[v] = server[v]
      BY <1>3, <1>5 DEF IInv, Connections, Work
  <2>2. Sock(v) # None => /\ Sock(v) \in Conns /\ Sock(v)[1] \in Clients
                          /\ con'[Sock(v)].theirs = "accepted"
      BY <1>5, <2>1, Places DEF IInv, SocketsOf, Served
  <2>3. \A x \in DOMAIN server[v].backlog :
            /\ server[v].backlog[x] \in Conns /\ server[v].backlog[x][1] \in Clients
            /\ con'[server[v].backlog[x]].theirs = "waiting"
      BY <1>5, <2>1, Places DEF IInv, SocketsOf, Served
  <2>4. SocketsOf(v)'
      BY <1>1, <2>1, <2>2, <2>3 DEF SocketsOf
  <2>5. WorkOf(v)'
      BY <1>1, <2>1, <2>2 DEF WorkOf, Early
  <2>. QED
      BY <2>4, <2>5
<1>. QED
    BY <1>2, <1>4, <1>5 DEF IInv, Connections, Work

\* The first of the connections that wait is the one that is served.
LEMMA acceptIInv == ASSUME IInv, NEW w \in Workers, accept(w) PROVE IInv'
<1>1. PICK b, id : b = server[w].backlog /\ id = Head(b)
    OBVIOUS
<1>2. /\ server[w].at = "accept" /\ b # <<>> /\ client' = client
      /\ server' = [server EXCEPT ![w].sock = id, ![w].backlog = Tail(@), ![w].at = "receive"]
      /\ con' = [con EXCEPT ![id].theirs = "accepted"]
    BY <1>1 DEF accept
<1>3. b \in Seq(Conns) /\ server[w] \in ServerType /\ SocketsOf(w) /\ WorkOf(w)
    BY <1>1 DEF IInv, TypeOK, ServerType, Connections, Work
<1>4. /\ 1 \in DOMAIN b /\ b[1] = id /\ id \in Conns
      /\ Tail(b) \in Seq(Conns)
      /\ \A x \in DOMAIN Tail(b) : x + 1 \in DOMAIN b /\ Tail(b)[x] = b[x + 1] /\ x + 1 # 1 /\ x \in Nat
    BY <1>1, <1>2, <1>3
<1>5. /\ \A x \in DOMAIN b : /\ con[b[x]].theirs = "waiting" /\ b[x] \in Conns
                             /\ Worker(b[x][1], b[x][2]).at = w
      /\ \A x, y \in DOMAIN b : b[y] = b[x] => y = x
    BY <1>1, <1>3, Places DEF IInv, SocketsOf
<1>6. /\ server' \in [Workers -> ServerType]
      /\ \A v \in Workers : v # w => server'[v] = server[v]
      /\ server'[w].sock = id /\ server'[w].backlog = Tail(b) /\ server'[w].at = "receive"
      /\ server'[w].ireq = server[w].ireq /\ server'[w].props = server[w].props
  <2>1. [server[w] EXCEPT !.sock = id, !.backlog = Tail(@), !.at = "receive"] \in ServerType
      BY <1>1, <1>3, <1>4 DEF ServerType
  <2>2. server' \in [Workers -> ServerType]
      BY <1>2, <2>1 DEF IInv, TypeOK
  <2>. QED
      BY <1>1, <1>2, <1>3, <2>2 DEF IInv, TypeOK, ServerType
<1>7. /\ con' \in [Conns -> ConType]
      /\ \A e \in Conns : e # id => con'[e] = con[e]
      /\ con'[id].theirs = "accepted" /\ con'[id].mine = con[id].mine
      /\ con'[id].request = con[id].request /\ con'[id].response = con[id].response
      /\ con'[id].answer = con[id].answer /\ con'[id].thread = con[id].thread
  <2> DEFINE r == [con[id] EXCEPT !.theirs = "accepted"]
  <2>1. con[id] \in ConType
      BY <1>4 DEF IInv, TypeOK
  <2>2. /\ r \in ConType /\ r.theirs = "accepted" /\ r.mine = con[id].mine
        /\ r.request = con[id].request /\ r.response = con[id].response
        /\ r.answer = con[id].answer /\ r.thread = con[id].thread
      BY <2>1 DEF ConType
  <2>3. con' = [con EXCEPT ![id] = r] /\ con \in [Conns -> ConType]
      BY <1>2 DEF IInv, TypeOK
  <2> HIDE DEF r
  <2>. QED
      BY <1>4, <2>2, <2>3
<1>8. TypeOK'
    BY <1>6, <1>7 DEF IInv, TypeOK, accept
<1>9. Benchmarked'
    BY <1>2, <1>6 DEF IInv, Benchmarked, Answers, Hears
<1>10. /\ Sock(w) = None /\ Sock(w)' = id /\ server'[w].ireq = None /\ id # None
    BY <1>2, <1>3, <1>4, <1>6, NoneAssumption DEF SocketsOf, WorkOf, Sock
<1>11. \A e \in Conns : Worker(e[1], e[2])' = Worker(e[1], e[2])
    BY <1>2 DEF Worker
<1>12. SocketsOf(w)'
  <2>1. con'[id].theirs = "accepted" /\ Worker(id[1], id[2]).at' = w
      BY <1>4, <1>5, <1>7, <1>11
  <2>2. ASSUME NEW x \in DOMAIN Tail(b)
        PROVE  /\ con'[Tail(b)[x]].theirs = "waiting"
               /\ Worker(Tail(b)[x][1], Tail(b)[x][2]).at' = w
               /\ \A y \in DOMAIN Tail(b) : Tail(b)[y] = Tail(b)[x] => y = x
    <3>1. Tail(b)[x] = b[x + 1] /\ x + 1 \in DOMAIN b /\ b[x + 1] # id /\ b[x + 1] \in Conns
        BY <1>4, <1>5
    <3>2. con'[b[x + 1]] = con[b[x + 1]]
        BY <1>7, <3>1
    <3>3. \A y \in DOMAIN Tail(b) : Tail(b)[y] = Tail(b)[x] => y + 1 = x + 1
        BY <1>4, <1>5, <3>1
    <3>. QED
        BY <1>4, <1>5, <1>11, <3>1, <3>2, <3>3
  <2>. QED
      BY <1>6, <1>10, <2>1, <2>2 DEF SocketsOf
<1>13. WorkOf(w)'
    BY <1>10 DEF WorkOf
<1>14. ASSUME NEW e \in Conns PROVE Served(w, e)
  <2>1. CASE e = id
      BY <1>4, <1>5, <1>6, <1>7, <2>1 DEF Served
  <2>2. CASE e # id
    <3>1. con'[e] = con[e]
        BY <1>7, <2>2
    <3>2. /\ e[1] \in Clients /\ e[2] \in Numbers /\ e = <<e[1], e[2]>>
          /\ SocketOf(e[1], e[2])
        BY Places DEF IInv, Connections
    <3>3. con[e].theirs = "accepted" => Sock(Worker(e[1], e[2]).at) = e
        BY <3>2 DEF SocketOf
    <3>4. e # None
        BY NoneAssumption
    <3>. QED
        BY <1>10, <3>1, <3>3, <3>4 DEF Served
  <2>. QED
      BY <2>1, <2>2
<1>. QED
    BY <1>2, <1>6, <1>8, <1>9, <1>12, <1>13, <1>14, ServerStep

\* The connection that a server has accepted.
LEMMA Accepted ==
    ASSUME IInv, NEW w \in Workers, server[w].at \in {"receive", "integrate", "respond"}
    PROVE  /\ Sock(w) \in Conns /\ Sock(w) # None /\ con[Sock(w)] \in ConType
           /\ con[Sock(w)].theirs = "accepted"
           /\ Worker(Sock(w)[1], Sock(w)[2]).at = w
           /\ AnswerOf(Sock(w)[1], Sock(w)[2]) /\ Sock(w) = <<Sock(w)[1], Sock(w)[2]>>
           /\ server[w] \in ServerType /\ SocketsOf(w) /\ WorkOf(w)
           /\ \A id \in Conns : con[id].theirs = "accepted" /\ Worker(id[1], id[2]).at = w =>
                                 id = Sock(w)
<1>1. SocketsOf(w) /\ WorkOf(w) /\ server[w] \in ServerType
    BY DEF IInv, TypeOK, Connections, Work
<1>2. /\ Sock(w) \in Conns /\ Sock(w) # None /\ con[Sock(w)].theirs = "accepted"
      /\ Worker(Sock(w)[1], Sock(w)[2]).at = w
    BY <1>1, Places DEF IInv, SocketsOf
<1>3. con[Sock(w)] \in ConType
    BY <1>2 DEF IInv, TypeOK
<1>4. AnswerOf(Sock(w)[1], Sock(w)[2]) /\ Sock(w) = <<Sock(w)[1], Sock(w)[2]>>
    BY <1>2, Places DEF IInv, Work
<1>5. ASSUME NEW id \in Conns, con[id].theirs = "accepted", Worker(id[1], id[2]).at = w
      PROVE  id = Sock(w)
  <2>1. SocketOf(id[1], id[2]) /\ id = <<id[1], id[2]>>
      BY Places DEF IInv, Connections
  <2>. QED
      BY <1>5, <2>1 DEF SocketOf
<1>. QED
    BY <1>1, <1>2, <1>3, <1>4, <1>5

\* Connections that wait are not touched by what a server does with the one it serves.
LEMMA WaitingStay ==
    ASSUME IInv, NEW w \in Workers, client' = client, NEW id \in Conns,
           con[id].theirs = "accepted", \A e \in Conns : e # id => con'[e] = con[e],
           server'[w].backlog = server[w].backlog,
           Sock(w)' # None <=> server'[w].at \in {"receive", "integrate", "respond"},
           Sock(w)' # None => Sock(w)' = id /\ con'[id] .theirs = "accepted"
                              /\ Worker(id[1], id[2]).at = w
    PROVE  SocketsOf(w)'
<1>1. SocketsOf(w)
    BY DEF IInv, Connections
<1>2. \A e : Worker(e[1], e[2])' = Worker(e[1], e[2])
    BY DEF Worker
<1>3. \A x \in DOMAIN server[w].backlog :
          server[w].backlog[x] \in Conns /\ con'[server[w].backlog[x]] = con[server[w].backlog[x]]
    BY <1>1, Places DEF IInv, SocketsOf
<1>. QED
    BY <1>1, <1>2, <1>3 DEF SocketsOf

\* The request is the share of a client that has all its connections.
LEMMA receiveIInv == ASSUME IInv, NEW w \in Workers, receive(w) PROVE IInv'
<1>1. PICK id, req : id = Sock(w) /\ req = con[id].request
    OBVIOUS
<1>2. /\ server[w].at = "receive" /\ req # None /\ client' = client
      /\ server' = [server EXCEPT ![w].ireq = req, ![w].at = "integrate"]
      /\ con' = [con EXCEPT ![id].request = None]
    BY <1>1 DEF receive
<1>3. /\ id \in Conns /\ id # None /\ con[id] \in ConType
      /\ con[id].theirs = "accepted" /\ Worker(id[1], id[2]).at = w
      /\ AnswerOf(id[1], id[2]) /\ id = <<id[1], id[2]>>
      /\ server[w] \in ServerType /\ None \in Requests
      /\ \A e \in Conns : con[e].theirs = "accepted" /\ Worker(e[1], e[2]).at = w => e = id
    BY <1>1, <1>2, Accepted DEF Requests
<1>4. req \in Requests /\ req = Share(id[1], id[2]) /\ ~Early(id[1])
    BY <1>1, <1>2, <1>3 DEF AnswerOf, ConType
<1>5. /\ server' \in [Workers -> ServerType]
      /\ \A v \in Workers : v # w => server'[v] = server[v]
      /\ server'[w].sock = id /\ server'[w].backlog = server[w].backlog
      /\ server'[w].at = "integrate"
      /\ server'[w].ireq = req /\ server'[w].props = server[w].props
  <2>1. [server[w] EXCEPT !.ireq = req, !.at = "integrate"] \in ServerType
      BY <1>3, <1>4 DEF ServerType
  <2>2. server' \in [Workers -> ServerType]
      BY <1>2, <2>1 DEF IInv, TypeOK
  <2>. QED
      BY <1>1, <1>2, <1>3, <2>2 DEF IInv, TypeOK, ServerType, Sock
<1>6. /\ con' \in [Conns -> ConType]
      /\ \A e \in Conns : e # id => con'[e] = con[e]
      /\ con'[id].theirs = "accepted" /\ con'[id].mine = con[id].mine
      /\ con'[id].request = None /\ con'[id].response = con[id].response
      /\ con'[id].answer = con[id].answer /\ con'[id].thread = con[id].thread
  <2> DEFINE r == [con[id] EXCEPT !.request = None]
  <2>1. /\ r \in ConType /\ r.theirs = "accepted" /\ r.mine = con[id].mine
        /\ r.request = None /\ r.response = con[id].response
        /\ r.answer = con[id].answer /\ r.thread = con[id].thread
      BY <1>3 DEF ConType
  <2>2. con' = [con EXCEPT ![id] = r] /\ con \in [Conns -> ConType]
      BY <1>2 DEF IInv, TypeOK
  <2> HIDE DEF r
  <2>. QED
      BY <1>3, <2>1, <2>2
<1>7. TypeOK'
    BY <1>5, <1>6 DEF IInv, TypeOK, receive
<1>8. Benchmarked'
    BY <1>2, <1>5 DEF IInv, Benchmarked, Answers, Hears
<1>9. Sock(w)' = id /\ Share(id[1], id[2])' = Share(id[1], id[2]) /\ Early(id[1])' = Early(id[1])
    BY <1>2, <1>3, <1>5, Places, SameConnections DEF IInv, Sock, Early
<1>10. SocketsOf(w)'
    BY <1>2, <1>3, <1>5, <1>6, <1>9, WaitingStay
<1>11. WorkOf(w)'
    BY <1>3, <1>4, <1>5, <1>9 DEF WorkOf
<1>12. ASSUME NEW e \in Conns PROVE Served(w, e)
  <2>1. CASE e = id
      BY <1>3, <1>5, <1>6, <2>1 DEF Served
  <2>2. CASE e # id
      BY <1>3, <1>6, <2>2 DEF Served
  <2>. QED
      BY <2>1, <2>2
<1>. QED
    BY <1>2, <1>5, <1>7, <1>8, <1>10, <1>11, <1>12, ServerStep

\* The connection is closed with an answer for the share, or without one.
LEMMA CloseIInv ==
    ASSUME IInv, NEW w \in Workers, server[w].at \in {"receive", "integrate", "respond"},
           NEW answer, answer = None \/ answer = server[w].ireq, Close(w, answer),
           UNCHANGED <<client, asked, told, starts>>
    PROVE  IInv'
<1>1. PICK id : id = Sock(w)
    OBVIOUS
<1>2. /\ server' = [server EXCEPT ![w].at = "accept", ![w].sock = None, ![w].ireq = None]
      /\ con' = [con EXCEPT ![id].theirs = "closed", ![id].response = answer]
    BY <1>1 DEF Close
<1>3. /\ id \in Conns /\ id # None /\ con[id] \in ConType
      /\ con[id].theirs = "accepted" /\ Worker(id[1], id[2]).at = w
      /\ server[w] \in ServerType /\ None \in Requests /\ WorkOf(w)
      /\ \A e \in Conns : con[e].theirs = "accepted" /\ Worker(e[1], e[2]).at = w => e = id
    BY <1>1, Accepted DEF Requests
<1>4. answer \in Requests /\ (answer # None => answer = Share(id[1], id[2]) /\ ~Early(id[1]))
    BY <1>1, <1>3 DEF WorkOf, ServerType
<1>5. /\ server' \in [Workers -> ServerType]
      /\ \A v \in Workers : v # w => server'[v] = server[v]
      /\ server'[w].sock = None /\ server'[w].backlog = server[w].backlog
      /\ server'[w].at = "accept"
      /\ server'[w].ireq = None /\ server'[w].props = server[w].props
  <2>1. [server[w] EXCEPT !.at = "accept", !.sock = None, !.ireq = None] \in ServerType
      BY <1>3 DEF ServerType
  <2>2. server' \in [Workers -> ServerType]
      BY <1>2, <2>1 DEF IInv, TypeOK
  <2>3. server \in [Workers -> ServerType]
      BY DEF IInv, TypeOK
  <2>4. server' = [server EXCEPT ![w] = [server[w] EXCEPT !.at = "accept", !.sock = None, !.ireq = None]]
      BY <1>2
  <2>5. /\ \A v \in Workers : v # w => server'[v] = server[v]
        /\ server'[w] = [server[w] EXCEPT !.at = "accept", !.sock = None, !.ireq = None]
      BY <2>3, <2>4
  <2>6. server[w] \in ServerType
      BY <2>3
  <2>. QED
      BY <2>2, <2>5, <2>6 DEF ServerType
<1>6. /\ con' \in [Conns -> ConType]
      /\ \A e \in Conns : e # id => con'[e] = con[e]
      /\ con'[id].theirs = "closed" /\ con'[id].mine = con[id].mine
      /\ con'[id].request = con[id].request /\ con'[id].response = answer
      /\ con'[id].answer = con[id].answer /\ con'[id].thread = con[id].thread
  <2> DEFINE r == [con[id] EXCEPT !.theirs = "closed", !.response = answer]
  <2>1. /\ r \in ConType /\ r.theirs = "closed" /\ r.mine = con[id].mine
        /\ r.request = con[id].request /\ r.response = answer
        /\ r.answer = con[id].answer /\ r.thread = con[id].thread
      BY <1>3, <1>4 DEF ConType
  <2>2. con' = [con EXCEPT ![id] = r] /\ con \in [Conns -> ConType]
      BY <1>2 DEF IInv, TypeOK
  <2> HIDE DEF r
  <2>. QED
      BY <1>3, <2>1, <2>2
<1>7. TypeOK'
    BY <1>5, <1>6 DEF IInv, TypeOK
<1>8. Benchmarked'
  <2>1. server[w].props = throughput[w]
      BY DEF IInv, Benchmarked, Answers, Hears
  <2>. QED
      BY <1>5, <2>1 DEF IInv, Benchmarked, Answers, Hears
<1>9. Sock(w)' = None
    BY <1>5 DEF Sock
<1>10. SocketsOf(w)'
    BY <1>3, <1>5, <1>6, <1>9, WaitingStay
<1>11. WorkOf(w)'
    BY <1>5 DEF WorkOf
<1>12. ASSUME NEW e \in Conns PROVE Served(w, e)
  <2>1. CASE e = id
      BY <1>3, <1>4, <1>6, <2>1 DEF Served
  <2>2. CASE e # id
      BY <1>3, <1>6, <2>2 DEF Served
  <2>. QED
      BY <2>1, <2>2
<1>. QED
    BY <1>5, <1>7, <1>8, <1>10, <1>11, <1>12, ServerStep

\* A server that gives up closes without an answer.
LEMMA receiveFailsIInv == ASSUME IInv, NEW w \in Workers, receiveFails(w) PROVE IInv'
    BY CloseIInv DEF receiveFails

\* A server that has integrated answers with what it was asked for.
LEMMA respondIInv == ASSUME IInv, NEW w \in Workers, respond(w) PROVE IInv'
<1>1. PICK answer : answer = IF con[Sock(w)].mine = "open" THEN server[w].ireq ELSE None
    OBVIOUS
<1>2. Close(w, answer)
    BY <1>1 DEF respond
<1>. QED
    BY <1>1, <1>2, CloseIInv DEF respond

\* The end of a server closes the connection it serves and those that wait for it.
LEMMA ExitIInv == ASSUME IInv, NEW w \in Workers, Exit(w) PROVE IInv'
<1>1. PICK its : its = {Sock(w)} \union {server[w].backlog[x] : x \in DOMAIN server[w].backlog}
    OBVIOUS
<1>2. /\ server' = [server EXCEPT ![w] = Down]
      /\ con' = [id \in Conns |->
            IF id \in its THEN [con[id] EXCEPT !.theirs = "closed", !.request = None]
            ELSE con[id]]
      /\ asked' = {r \in asked : r[2] # w} /\ client' = client /\ UNCHANGED <<told, starts>>
    BY <1>1 DEF Exit
<1>3. SocketsOf(w) /\ server[w] \in ServerType
    BY DEF IInv, Connections, TypeOK
<1>4. \A id \in Conns :
          id \in its => /\ con[id].theirs \in {"accepted", "waiting"}
                        /\ Worker(id[1], id[2]).at = w
  <2>1. SUFFICES ASSUME NEW id \in Conns, id \in its
                 PROVE  /\ con[id].theirs \in {"accepted", "waiting"}
                        /\ Worker(id[1], id[2]).at = w
      OBVIOUS
  <2>2. CASE id = Sock(w)
      BY <1>3, <2>2, NoneAssumption DEF SocketsOf
  <2>3. CASE \E x \in DOMAIN server[w].backlog : id = server[w].backlog[x]
      BY <1>3, <2>3 DEF SocketsOf
  <2>. QED
      BY <1>1, <2>1, <2>2, <2>3
<1>5. \A id \in Conns : con[id].theirs = "accepted" /\ Worker(id[1], id[2]).at = w => id \in its
  <2>1. SUFFICES ASSUME NEW id \in Conns, con[id].theirs = "accepted", Worker(id[1], id[2]).at = w
                 PROVE  id \in its
      OBVIOUS
  <2>2. SocketOf(id[1], id[2]) /\ id = <<id[1], id[2]>>
      BY Places DEF IInv, Connections
  <2>. QED
      BY <1>1, <2>1, <2>2 DEF SocketOf
<1>6. Down \in ServerType
  <2>1. <<>> \in Seq(Conns) /\ None \in Requests
      BY DEF Requests
  <2>. QED
      BY <2>1 DEF Down, ServerType
<1>7. /\ server' \in [Workers -> ServerType]
      /\ server'[w] = Down /\ \A v \in Workers : v # w => server'[v] = server[v]
    BY <1>2, <1>6 DEF IInv, TypeOK
<1>8. /\ con' \in [Conns -> ConType]
      /\ \A id \in Conns : id \notin its => con'[id] = con[id]
      /\ \A id \in Conns : id \in its =>
            /\ con'[id].theirs = "closed" /\ con'[id].mine = con[id].mine
            /\ con'[id].request = None /\ con'[id].response = con[id].response
            /\ con'[id].answer = con[id].answer /\ con'[id].thread = con[id].thread
  <2> DEFINE r(id) == [con[id] EXCEPT !.theirs = "closed", !.request = None]
  <2>1. ASSUME NEW id \in Conns
        PROVE  /\ r(id) \in ConType /\ r(id).theirs = "closed" /\ r(id).mine = con[id].mine
               /\ r(id).request = None /\ r(id).response = con[id].response
               /\ r(id).answer = con[id].answer /\ r(id).thread = con[id].thread
    <3>1. con[id] \in ConType /\ None \in Requests
        BY DEF IInv, TypeOK, Requests
    <3>. QED
        BY <3>1 DEF ConType
  <2>2. con' = [id \in Conns |-> IF id \in its THEN r(id) ELSE con[id]]
      BY <1>2
  <2>3. con \in [Conns -> ConType]
      BY DEF IInv, TypeOK
  <2> HIDE DEF r
  <2>. QED
      BY <2>1, <2>2, <2>3
<1>9. TypeOK'
    BY <1>2, <1>7, <1>8 DEF IInv, TypeOK
<1>10. Benchmarked'
    BY <1>7 DEF IInv, Benchmarked, Answers, Hears, Down
<1>11. SocketsOf(w)' /\ WorkOf(w)'
    BY <1>7 DEF SocketsOf, WorkOf, Sock, Down
<1>12. ASSUME NEW e \in Conns PROVE Served(w, e)
  <2>1. CASE e \in its
      BY <1>4, <1>8, <2>1 DEF Served
  <2>2. CASE e \notin its
      BY <1>5, <1>8, <2>2 DEF Served
  <2>. QED
      BY <2>1, <2>2
<1>. QED
    BY <1>2, <1>7, <1>9, <1>10, <1>11, <1>12, ServerStep

-----------------------------------------------------------------------------
\* At the start nobody has a connection.
LEMMA InitIInv == Init => IInv
<1> SUFFICES ASSUME Init PROVE IInv
    OBVIOUS
<1>1. /\ <<>> \in Seq(Found) /\ <<>> \in Seq(Conns) /\ None \in Requests
      /\ 1 \in Nat \ {0} /\ Cardinality(Workers) \in Nat
    BY FS_CardinalityType DEF Requests
<1>2. ASSUME NEW w \in Workers
      PROVE  /\ server[w] \in ServerType /\ server[w].sock = None /\ server[w].ireq = None
             /\ server[w].backlog = <<>> /\ server[w].at \in {"down", "accept"}
             /\ server[w].at = "accept" => server[w].props = throughput[w]
    BY <1>1 DEF Init, Serves, Down, ServerType
<1>3. ASSUME NEW c \in Clients
      PROVE  /\ client[c] \in ClientType /\ client[c].at = "broadcast" /\ client[c].workers = <<>>
             /\ client[c].conns = <<>> /\ client[c].k = 1
    BY <1>1 DEF Init, ClientType
<1>4. ASSUME NEW id \in Conns
      PROVE  /\ con[id] \in ConType /\ con[id].mine = "none" /\ con[id].theirs = "none"
             /\ con[id].thread = "none" /\ con[id].request = None
             /\ con[id].response = None /\ con[id].answer = None
    BY <1>1 DEF Init, ConType
<1>5. TypeOK
    BY <1>2, <1>3, <1>4 DEF Init, TypeOK
<1>6. Benchmarked
    BY <1>2 DEF Benchmarked, Answers, Hears
<1>7. \A c \in Clients : FoundOnce(c)
    BY <1>1, <1>3 DEF FoundOnce, At, Of, Count
<1>8. \A c \in Clients, i \in Numbers : SocketOf(c, i) /\ AnswerOf(c, i)
    BY <1>3, <1>4, <1>5, Places DEF SocketOf, AnswerOf, At
<1>9. \A w \in Workers : SocketsOf(w) /\ WorkOf(w)
    BY <1>2 DEF SocketsOf, WorkOf, Sock
<1>. QED
    BY <1>5, <1>6, <1>7, <1>8, <1>9 DEF IInv, Connections, Work

\* Every step preserves the inductive invariant.
LEMMA NextIInv == IInv /\ [Next]_vars => IInv'
<1> SUFFICES ASSUME IInv, [Next]_vars PROVE IInv'
    OBVIOUS
<1>1. ASSUME NEW c \in Clients, ClientSend(c) \/ connect(c) \/ clientKilled(c) PROVE IInv'
    BY <1>1, broadcastIInv, broadcastFailsIInv, discoveryTimeoutIInv, endDiscoveryIInv,
       connectFailsIInv, endConnectIInv, createIInv, joinIInv, connectIInv, clientKilledIInv
       DEF ClientSend
<1>2. ASSUME NEW c \in Clients, NEW d \in told, discovered(c, d) PROVE IInv'
    BY <1>2, discoveredIInv
<1>3. ASSUME NEW id \in Conns, SendAndRecieve(id) PROVE IInv'
    BY <1>3, sendRequestIInv, recvResponseIInv, recvFailsIInv DEF SendAndRecieve
<1>4. ASSUME NEW w \in Workers,
             \/ ServerListen(w) \/ ServerStartDiscovery(w) \/ RunBenchmark(w)
             \/ ServerLoop(w) \/ integrate(w) \/ fatal(w) \/ serverKilled(w)
      PROVE  IInv'
    BY <1>4, ServerListenIInv, ServerStartDiscoveryIInv, RunBenchmarkIInv, acceptIInv,
       receiveIInv, receiveFailsIInv, respondIInv, integrateIInv, ExitIInv
       DEF ServerLoop, fatal, serverKilled
<1>5. ASSUME NEW w \in Workers, NEW c \in Clients, ServerProcessDiscoveryRequest(w, c)
      PROVE  IInv'
    BY <1>5, ServerProcessDiscoveryRequestIInv
<1>6. CASE UNCHANGED vars
  <2>1. TypeOK'
      BY <1>6 DEF vars, IInv, TypeOK
  <2>2. Benchmarked'
      BY <1>6 DEF vars, IInv, Benchmarked, Answers, Hears
  <2>3. \A c \in Clients : FoundOnce(c)'
      BY <1>6 DEF vars, IInv, Connections, FoundOnce, At, Of, Count
  <2>4. /\ \A c \in Clients, i \in Numbers : SocketOf(c, i)'
        /\ \A w \in Workers : SocketsOf(w)'
        /\ Work'
      BY <1>6, Quiet DEF vars, Early, At, Returned
  <2>. QED
      BY <2>1, <2>2, <2>3, <2>4 DEF IInv, Connections
<1>. QED
    BY <1>1, <1>2, <1>3, <1>4, <1>5, <1>6 DEF Next

-----------------------------------------------------------------------------
\* Types, measured throughputs, sockets and shares are as the invariant says,
\* for any clients, servers, networks and throughputs.
THEOREM Invariance == Spec => []IInv
<1>1. Init => IInv
    BY InitIInv
<1>2. IInv /\ [Next]_vars => IInv'
    BY NextIInv
<1>. QED
    BY <1>1, <1>2, PTL DEF Spec

\* ClientSend() succeeds only with an answer for every step of the interval,
\* once, and for no step beyond it (GetResponses() and GetResponsesImpl()).
THEOREM AnswersAreRight == Spec => []RightAnswer
<1>1. IInv => RightAnswer
  <2> SUFFICES ASSUME IInv, NEW c \in Clients, At(c, "ok")
               PROVE  /\ \A i \in Of(c) : con[<<c, i>>].answer \subseteq Interval
                      /\ \A x \in Interval :
                             Cardinality({i \in Of(c) : x \in con[<<c, i>>].answer}) = 1
      BY DEF RightAnswer
  <2>1. FoundOnce(c) /\ client[c].conns \in Seq(Found) /\ Of(c) # {} /\ Of(c) \subseteq Numbers
    <3>1. FoundOnce(c) /\ client[c].conns \in Seq(Found)
        BY DEF IInv, Connections, TypeOK, ClientType
    <3>2. Count(c) \in Nat /\ Cardinality(Workers) \in Nat /\ Count(c) <= Cardinality(Workers)
        BY <3>1, Places, FS_CardinalityType DEF IInv, FoundOnce
    <3>. QED
        BY <3>1, <3>2 DEF FoundOnce, Of, Numbers
  <2>2. \A i \in Of(c) : con[<<c, i>>].answer = Share(c, i)
    <3>1. SUFFICES ASSUME NEW i \in Of(c) PROVE con[<<c, i>>].answer = Share(c, i)
        OBVIOUS
    <3>2. AnswerOf(c, i)
        BY <2>1 DEF IInv, Work
    <3>. QED
        BY <3>2 DEF AnswerOf
  <2>3. /\ \A i \in Of(c) : Share(c, i) \subseteq Interval
        /\ \A x \in Interval : \E i \in Of(c) :
               x \in Share(c, i) /\ \A j \in Of(c) : x \in Share(c, j) => j = i
      BY <2>1, SharesPartition
  <2>4. ASSUME NEW x \in Interval
        PROVE  Cardinality({i \in Of(c) : x \in con[<<c, i>>].answer}) = 1
    <3>1. PICK i \in Of(c) : x \in Share(c, i) /\ \A j \in Of(c) : x \in Share(c, j) => j = i
        BY <2>3
    <3>2. {j \in Of(c) : x \in con[<<c, j>>].answer} = {i}
        BY <2>2, <3>1
    <3>. QED
        BY <3>2, FS_Singleton
  <2>. QED
      BY <2>2, <2>3, <2>4
<1>. QED
    BY <1>1, Invariance, PTL

\* What clients divide by was measured (RunBenchmark() before ServerLoop()).
THEOREM ThroughputsAreMeasured == Spec => []SharesAreMeasured
<1>1. IInv => SharesAreMeasured
    BY Places DEF IInv, SharesAreMeasured, Found
<1>. QED
    BY <1>1, Invariance, PTL

\* Every path of ServerRecieve(), ServerRespond() and ClientSend() closes the
\* connections that were made, also when the process is killed.
THEOREM SocketsAreClosed == Spec => []NoSocketLeft
<1>1. IInv => NoSocketLeft
  <2> SUFFICES ASSUME IInv PROVE NoSocketLeft
      OBVIOUS
  <2>1. ASSUME NEW id \in Conns
        PROVE  SocketOf(id[1], id[2]) /\ id = <<id[1], id[2]>> /\ id[1] \in Clients
      BY Places DEF IInv, Connections
  <2>2. ASSUME NEW w \in Workers, NEW id
        PROVE  id \in Conns /\ con[id].theirs = "accepted" /\ Worker(id[1], id[2]).at = w
                   <=> id = Sock(w) /\ id # None
    <3>1. SocketsOf(w) /\ Sock(w) \in Conns \union {None}
        BY Places DEF IInv, Connections
    <3>. QED
        BY <2>1, <3>1, NoneAssumption DEF SocketsOf, SocketOf
  <2>3. \A w \in Workers :
            {id \in Conns : con[id].theirs = "accepted" /\ Worker(id[1], id[2]).at = w}
                = {Sock(w)} \ {None}
      BY <2>2
  <2>. QED
      BY <2>1, <2>3 DEF NoSocketLeft, SocketOf
<1>. QED
    BY <1>1, Invariance, PTL
=============================================================================
