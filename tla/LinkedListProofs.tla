-------------------------- MODULE LinkedListProofs --------------------------
(***************************************************************************)
(* The pointers of a list are a ring through the sentinel that meets every *)
(* node once, both ways; a walk finds its nodes in order; and what the     *)
(* calls do to the ring is what the header promises of the sequence, for   *)
(* any number of nodes.                                                    *)
(*                                                                         *)
(* The ring is not in the heap: the invariant says that there is one.      *)
(* Each call that changes pointers gives the new ring from the old one.    *)
(***************************************************************************)
EXTENDS LinkedList, FiniteSetTheorems, WellFoundedInduction, TLAPS

USE ConstAssumption

-----------------------------------------------------------------------------
(* The inductive invariant.                                                *)

Cells == [next : Addrs \union {NULL}, prev : Addrs \union {NULL}, data : Values \union {NULL}]

\* What a call may return.
Results == Addrs \union {NULL} \union Values \union 0 .. Cardinality(Nodes) \union {0, 1}

TypeOK ==
    /\ heap \in [Addrs -> Cells]
    /\ allocated \subseteq Addrs
    /\ pc \in {"none", "ready", "clear", "destroy"}
    /\ it \in Addrs
    /\ result \in Results

\* The places lo to n + 1 of r: nodes of the set held, each once, and then the
\* sentinel.
Row(held, n, r, lo) ==
    /\ n \in Nat /\ r \in [lo .. n + 1 -> Addrs]
    /\ r[n + 1] = SENT
    /\ \A i \in 1 .. n : r[i] \in held
    /\ \A i, j \in 1 .. n : r[i] = r[j] => i = j
    /\ \A a \in held : \E i \in 1 .. n : r[i] = a

\* The heap h links them, from the sentinel to the sentinel, both ways.
Ring(h, held, n, r) ==
    /\ Row(held, n, r, 0)
    /\ r[0] = SENT
    /\ \A i \in 0 .. n : h[r[i]].next = r[i + 1]
    /\ \A i \in 0 .. n : h[r[i + 1]].prev = r[i]

\* What llDestroyNodes() has not freed is linked forwards.
Rest(h, held, n, r) ==
    /\ Row(held, n, r, 1)
    /\ \A i \in 1 .. n : h[r[i]].next = r[i + 1]

Linked ==
    /\ pc = "none" => allocated = {}
    /\ pc # "none" => SENT \in allocated
    /\ pc = "ready" => \E n, r : Ring(heap, Held, n, r)
    /\ pc \in {"clear", "destroy"} => \E n, r : Rest(heap, Held, n, r) /\ it = r[1]

IInv == TypeOK /\ Linked

-----------------------------------------------------------------------------
(* Rings.                                                                  *)

\* The sentinel is not one of the nodes.
LEMMA HeldNodes == TypeOK => Held \subseteq Nodes
    BY DEF TypeOK, Held, Addrs

\* An address is in one place of the ring only, the sentinel in its two.
LEMMA PlacesDiffer ==
    ASSUME NEW h, NEW held \in SUBSET Nodes, NEW n, NEW r, Ring(h, held, n, r)
    PROVE  /\ \A i, j \in 0 .. n : r[i] = r[j] => i = j
           /\ \A i, j \in 1 .. n + 1 : r[i] = r[j] => i = j
<1>1. /\ n \in Nat /\ r[0] = SENT /\ r[n + 1] = SENT
      /\ \A i \in 1 .. n : r[i] \in Nodes
      /\ \A i, j \in 1 .. n : r[i] = r[j] => i = j
    BY DEF Ring, Row
<1>2. ASSUME NEW i \in 0 .. n, NEW j \in 0 .. n, r[i] = r[j] PROVE i = j
    BY <1>1, <1>2
<1>3. ASSUME NEW i \in 1 .. n + 1, NEW j \in 1 .. n + 1, r[i] = r[j] PROVE i = j
    BY <1>1, <1>3
<1>. QED
    BY <1>2, <1>3

\* The place of a node, or of the list itself.
LEMMA PlaceOf ==
    ASSUME NEW h, NEW held \in SUBSET Nodes, NEW n, NEW r, Ring(h, held, n, r),
           NEW a \in held \union {SENT}
    PROVE  /\ \E i \in 0 .. n : r[i] = a
           /\ \E i \in 1 .. n + 1 : r[i] = a
<1>1. /\ n \in Nat /\ r[0] = SENT /\ r[n + 1] = SENT
      /\ \A b \in held : \E i \in 1 .. n : r[i] = b
    BY DEF Ring, Row
<1>2. CASE a = SENT
    BY <1>1, <1>2
<1>3. CASE a \in held
  <2>1. PICK i \in 1 .. n : r[i] = a
    BY <1>1, <1>3
  <2>. QED
    BY <1>1, <2>1
<1>. QED
    BY <1>2, <1>3

\* A new node in place p of the ring.
Insertion(n, r, p, node) ==
    [i \in 0 .. n + 2 |-> IF i < p THEN r[i] ELSE IF i = p THEN node ELSE r[i - 1]]

\* The heap h with a node linked in: what its cells have.
Links(h, g, node, x, y) ==
    /\ g[node].next = y /\ g[node].prev = x
    /\ g[x].next = node /\ g[y].prev = node
    /\ \A a \in Addrs \ {node, x} : g[a].next = h[a].next
    /\ \A a \in Addrs \ {node, y} : g[a].prev = h[a].prev

\* llInsert() makes the ring with one more place.
LEMMA RingInsertion ==
    ASSUME NEW h, NEW g, NEW held \in SUBSET Nodes, NEW n, NEW r, Ring(h, held, n, r),
           NEW p \in 1 .. n + 1, NEW node \in Nodes \ held,
           Links(h, g, node, r[p - 1], r[p])
    PROVE  Ring(g, held \union {node}, n + 1, Insertion(n, r, p, node))
<1> DEFINE q == Insertion(n, r, p, node)
<1>0. n \in Nat /\ p \in Nat /\ p > 0 /\ p <= n + 1
    BY DEF Ring, Row
<1>1. /\ n \in Nat /\ p \in Nat /\ p > 0 /\ p <= n + 1
      /\ r \in [0 .. n + 1 -> Addrs] /\ r[0] = SENT /\ r[n + 1] = SENT
      /\ \A i \in 1 .. n : r[i] \in held
      /\ \A a \in held : \E i \in 1 .. n : r[i] = a
    BY DEF Ring, Row
<1>2. /\ \A i, j \in 0 .. n : r[i] = r[j] => i = j
      /\ \A i, j \in 1 .. n + 1 : r[i] = r[j] => i = j
    BY PlacesDiffer
<1>3. \A i \in 0 .. n + 1 : r[i] # node
    BY <1>1
<1>4. /\ \A i \in 0 .. p - 1 : q[i] = r[i]
      /\ q[p] = node
      /\ \A i \in p + 1 .. n + 2 : q[i] = r[i - 1]
    BY <1>1 DEF Insertion
<1>5. q \in [0 .. n + 2 -> Addrs]
    BY <1>1 DEF Insertion, Addrs
<1> HIDE DEF q
<1>6. Row(held \union {node}, n + 1, q, 0) /\ q[0] = SENT
  <2>1. q[n + 2] = SENT /\ q[0] = SENT
    BY <1>1, <1>4
  <2>2. \A i \in 1 .. n + 1 : q[i] \in held \union {node}
    BY <1>1, <1>4
  <2>3. ASSUME NEW i \in 1 .. n + 1, NEW j \in 1 .. n + 1, q[i] = q[j] PROVE i = j
    <3>1. i \in 0 .. p - 1 \/ i = p \/ i \in p + 1 .. n + 2
      BY <1>1
    <3>2. j \in 0 .. p - 1 \/ j = p \/ j \in p + 1 .. n + 2
      BY <1>1
    <3>3. /\ i \in 0 .. p - 1 => i \in 1 .. n
          /\ i \in p + 1 .. n + 2 => i - 1 \in 1 .. n
          /\ j \in 0 .. p - 1 => j \in 1 .. n
          /\ j \in p + 1 .. n + 2 => j - 1 \in 1 .. n
      BY <1>0
    <3>4. \A k, l \in 1 .. n : r[k] = r[l] => k = l
      BY <1>1, <1>2
    <3>5. \A k \in 1 .. n : r[k] # node
      BY <1>1, <1>3
    <3>. QED
      BY <1>1, <1>4, <2>3, <3>1, <3>2, <3>3, <3>4, <3>5
  <2>4. ASSUME NEW a \in held \union {node} PROVE \E i \in 1 .. n + 1 : q[i] = a
    <3>1. CASE a = node
      BY <1>1, <1>4, <3>1
    <3>2. CASE a \in held
      <4>1. PICK i \in 1 .. n : r[i] = a
        BY <1>1, <3>2
      <4>2. CASE i < p
        <5>1. i \in 0 .. p - 1 /\ i \in 1 .. n + 1
          BY <1>0, <4>2
        <5>. QED
          BY <1>4, <4>1, <5>1
      <4>3. CASE ~(i < p)
        <5>1. i + 1 \in p + 1 .. n + 2 /\ i + 1 \in 1 .. n + 1 /\ (i + 1) - 1 = i
          BY <1>1, <4>3
        <5>. QED
          BY <1>4, <4>1, <5>1
      <4>. QED
        BY <4>2, <4>3
    <3>. QED
      BY <3>1, <3>2
  <2>5. (n + 1) + 1 = n + 2 /\ n + 1 \in Nat
    BY <1>1
  <2>. QED
    BY <1>5, <2>1, <2>2, <2>3, <2>4, <2>5 DEF Row
<1>7. /\ \A i \in 0 .. n : h[r[i]].next = r[i + 1] /\ h[r[i + 1]].prev = r[i]
      /\ g[node].next = r[p] /\ g[node].prev = r[p - 1]
      /\ g[r[p - 1]].next = node /\ g[r[p]].prev = node
      /\ \A a \in Addrs \ {node, r[p - 1]} : g[a].next = h[a].next
      /\ \A a \in Addrs \ {node, r[p]} : g[a].prev = h[a].prev
    BY DEF Ring, Links
<1>8. ASSUME NEW i \in 0 .. n + 1 PROVE g[q[i]].next = q[i + 1]
  <2>1. CASE i < p - 1
    <3>0. i \in 0 .. p - 1 /\ i + 1 \in 0 .. p - 1 /\ i \in 0 .. n /\ p - 1 \in 0 .. n /\ i # p - 1
      BY <1>0, <2>1
    <3>1. q[i] = r[i] /\ q[i + 1] = r[i + 1]
      BY <1>4, <3>0
    <3>2. r[i] \in Addrs \ {node, r[p - 1]}
      BY <1>1, <1>2, <1>3, <3>0
    <3>. QED
      BY <1>7, <3>0, <3>1, <3>2
  <2>2. CASE i = p - 1
    BY <1>1, <1>4, <1>7, <2>2
  <2>3. CASE i = p
    BY <1>1, <1>4, <1>7, <2>3
  <2>4. CASE i > p
    <3>0. /\ i - 1 \in 0 .. n /\ p - 1 \in 0 .. n /\ i - 1 # p - 1
          /\ (i - 1) + 1 = i /\ (i + 1) - 1 = i
          /\ i \in p + 1 .. n + 2 /\ i + 1 \in p + 1 .. n + 2
      BY <1>0, <2>4
    <3>1. q[i] = r[i - 1] /\ q[i + 1] = r[i]
      BY <1>4, <3>0
    <3>2. r[i - 1] \in Addrs \ {node, r[p - 1]}
      BY <1>1, <1>2, <1>3, <3>0
    <3>. QED
      BY <1>7, <3>0, <3>1, <3>2
  <2>. QED
    BY <1>1, <2>1, <2>2, <2>3, <2>4
<1>9. ASSUME NEW i \in 0 .. n + 1 PROVE g[q[i + 1]].prev = q[i]
  <2>1. CASE i < p - 1
    <3>0. i \in 0 .. p - 1 /\ i + 1 \in 0 .. p - 1 /\ i \in 0 .. n /\ i + 1 \in 1 .. n + 1 /\ i + 1 # p
          /\ i + 1 \in 0 .. n + 1
      BY <1>0, <2>1
    <3>1. q[i] = r[i] /\ q[i + 1] = r[i + 1]
      BY <1>4, <3>0
    <3>2. r[i + 1] \in Addrs \ {node, r[p]}
      BY <1>1, <1>2, <1>3, <3>0
    <3>. QED
      BY <1>7, <3>0, <3>1, <3>2
  <2>2. CASE i = p - 1
    <3>1. i \in 0 .. p - 1 /\ i + 1 = p
      BY <1>0, <2>2
    <3>. QED
      BY <1>4, <1>7, <2>2, <3>1
  <2>3. CASE i = p
    <3>1. i + 1 \in p + 1 .. n + 2 /\ (i + 1) - 1 = p
      BY <1>0, <2>3
    <3>. QED
      BY <1>4, <1>7, <2>3, <3>1
  <2>4. CASE i > p
    <3>0. /\ i - 1 \in 0 .. n /\ i \in 1 .. n + 1 /\ i # p /\ (i - 1) + 1 = i /\ (i + 1) - 1 = i
          /\ i \in p + 1 .. n + 2 /\ i + 1 \in p + 1 .. n + 2
      BY <1>0, <2>4
    <3>1. q[i] = r[i - 1] /\ q[i + 1] = r[i] /\ i - 1 \in 0 .. n /\ i \in 1 .. n + 1 /\ i # p
          /\ (i - 1) + 1 = i
      BY <1>4, <3>0
    <3>2. r[i] \in Addrs \ {node, r[p]}
      BY <1>1, <1>2, <1>3, <3>1
    <3>. QED
      BY <1>7, <3>1, <3>2
  <2>. QED
    BY <1>1, <2>1, <2>2, <2>3, <2>4
<1>. QED
  <2>1. \A i \in 0 .. n + 1 : g[q[i]].next = q[i + 1]
    BY <1>8
  <2>2. \A i \in 0 .. n + 1 : g[q[i + 1]].prev = q[i]
    BY <1>9
  <2>3. Ring(g, held \union {node}, n + 1, q)
    BY <1>6, <2>1, <2>2 DEF Ring
  <2>. QED
    BY <2>3 DEF q

\* The ring without its place p.
Erasure(n, r, p) == [i \in 0 .. n |-> IF i < p THEN r[i] ELSE r[i + 1]]

\* The heap h with a node taken out: what its other cells have.
Unlinks(h, g, node, x, y) ==
    /\ g[x].next = y /\ g[y].prev = x
    /\ \A a \in Addrs \ {node, x} : g[a].next = h[a].next
    /\ \A a \in Addrs \ {node, y} : g[a].prev = h[a].prev

\* llErase() makes the ring with one place less.
LEMMA RingErasure ==
    ASSUME NEW h, NEW g, NEW held \in SUBSET Nodes, NEW n, NEW r, Ring(h, held, n, r),
           NEW p \in 1 .. n, Unlinks(h, g, r[p], r[p - 1], r[p + 1])
    PROVE  Ring(g, held \ {r[p]}, n - 1, Erasure(n, r, p))
<1> DEFINE q == Erasure(n, r, p)
<1>0. n \in Nat /\ p \in Nat /\ p > 0 /\ p <= n
    BY DEF Ring, Row
<1>1. /\ n \in Nat /\ p \in Nat /\ p > 0 /\ p <= n
      /\ r \in [0 .. n + 1 -> Addrs] /\ r[0] = SENT /\ r[n + 1] = SENT
      /\ \A i \in 1 .. n : r[i] \in held
      /\ \A a \in held : \E i \in 1 .. n : r[i] = a
    BY DEF Ring, Row
<1>2. /\ \A i, j \in 0 .. n : r[i] = r[j] => i = j
      /\ \A i, j \in 1 .. n + 1 : r[i] = r[j] => i = j
    BY PlacesDiffer
<1>4. /\ \A i \in 0 .. p - 1 : q[i] = r[i]
      /\ \A i \in p .. n : q[i] = r[i + 1]
    BY <1>0 DEF Erasure
<1>5. q \in [0 .. n -> Addrs]
  <2>1. \A i \in 0 .. n : i \in 0 .. n + 1 /\ i + 1 \in 0 .. n + 1
    BY <1>0
  <2>. QED
    BY <1>1, <2>1 DEF Erasure
<1> HIDE DEF q
<1>6. Row(held \ {r[p]}, n - 1, q, 0) /\ q[0] = SENT
  <2>1. q[n] = SENT /\ q[0] = SENT
    BY <1>1, <1>4
  <2>2. ASSUME NEW i \in 1 .. n - 1 PROVE q[i] \in held \ {r[p]}
    <3>1. CASE i < p
      <4>1. i \in 0 .. p - 1 /\ i \in 1 .. n /\ i # p
        BY <1>0, <3>1
      <4>2. i \in 0 .. n /\ p \in 0 .. n
        BY <1>0
      <4>. QED
        BY <1>1, <1>2, <1>4, <4>1, <4>2
    <3>2. CASE ~(i < p)
      <4>1. i \in p .. n /\ i + 1 \in 1 .. n /\ i + 1 # p
        BY <1>0, <3>2
      <4>2. i + 1 \in 0 .. n /\ p \in 0 .. n
        BY <1>0
      <4>. QED
        BY <1>1, <1>2, <1>4, <4>1, <4>2
    <3>. QED
      BY <3>1, <3>2
  <2>3. ASSUME NEW i \in 1 .. n - 1, NEW j \in 1 .. n - 1, q[i] = q[j] PROVE i = j
    <3>1. /\ i \in 0 .. p - 1 \/ i \in p .. n
          /\ j \in 0 .. p - 1 \/ j \in p .. n
      BY <1>0
    <3>2. /\ i \in 0 .. n /\ i + 1 \in 0 .. n /\ j \in 0 .. n /\ j + 1 \in 0 .. n
          /\ i \in 0 .. p - 1 /\ j \in p .. n => i # j + 1
          /\ i \in p .. n /\ j \in 0 .. p - 1 => i + 1 # j
      BY <1>0
    <3>3. i + 1 = j + 1 => i = j
      BY <1>0
    <3>. QED
      BY <1>2, <1>4, <2>3, <3>1, <3>2, <3>3
  <2>4. ASSUME NEW a \in held \ {r[p]} PROVE \E i \in 1 .. n - 1 : q[i] = a
    <3>1. PICK i \in 1 .. n : r[i] = a
      BY <1>1
    <3>2. CASE i < p
      <4>1. i \in 0 .. p - 1 /\ i \in 1 .. n - 1
        BY <1>0, <3>2
      <4>. QED
        BY <1>4, <3>1, <4>1
    <3>3. CASE ~(i < p)
      <4>1. i - 1 \in p .. n /\ i - 1 \in 1 .. n - 1 /\ (i - 1) + 1 = i
        BY <1>0, <3>1, <3>3
      <4>. QED
        BY <1>4, <3>1, <4>1
    <3>. QED
      BY <3>2, <3>3
  <2>5. (n - 1) + 1 = n /\ n - 1 \in Nat
    BY <1>0
  <2>6. /\ \A i \in 1 .. n - 1 : q[i] \in held \ {r[p]}
        /\ \A i, j \in 1 .. n - 1 : q[i] = q[j] => i = j
        /\ \A a \in held \ {r[p]} : \E i \in 1 .. n - 1 : q[i] = a
    BY <2>2, <2>3, <2>4
  <2>. QED
    BY <1>5, <2>1, <2>5, <2>6 DEF Row
<1>7. /\ \A i \in 0 .. n : h[r[i]].next = r[i + 1] /\ h[r[i + 1]].prev = r[i]
      /\ g[r[p - 1]].next = r[p + 1] /\ g[r[p + 1]].prev = r[p - 1]
      /\ \A a \in Addrs \ {r[p], r[p - 1]} : g[a].next = h[a].next
      /\ \A a \in Addrs \ {r[p], r[p + 1]} : g[a].prev = h[a].prev
    BY DEF Ring, Unlinks
<1>8. ASSUME NEW i \in 0 .. n - 1 PROVE g[q[i]].next = q[i + 1]
  <2>1. CASE i < p - 1
    <3>1. /\ i \in 0 .. p - 1 /\ i + 1 \in 0 .. p - 1 /\ i \in 0 .. n /\ i \in 0 .. n + 1
          /\ p - 1 \in 0 .. n /\ p \in 0 .. n /\ i # p - 1 /\ i # p
      BY <1>0, <2>1
    <3>2. r[i] \in Addrs \ {r[p], r[p - 1]}
      BY <1>1, <1>2, <3>1
    <3>. QED
      BY <1>4, <1>7, <3>1, <3>2
  <2>2. CASE i = p - 1
    <3>1. i \in 0 .. p - 1 /\ i + 1 = p /\ p \in p .. n
      BY <1>0, <2>2
    <3>. QED
      BY <1>4, <1>7, <2>2, <3>1
  <2>3. CASE i > p - 1
    <3>1. /\ i \in p .. n /\ i + 1 \in p .. n /\ i + 1 \in 0 .. n /\ i + 1 \in 0 .. n + 1
          /\ p - 1 \in 0 .. n /\ p \in 0 .. n /\ i + 1 # p - 1 /\ i + 1 # p
      BY <1>0, <2>3
    <3>2. r[i + 1] \in Addrs \ {r[p], r[p - 1]}
      BY <1>1, <1>2, <3>1
    <3>. QED
      BY <1>4, <1>7, <3>1, <3>2
  <2>. QED
    BY <1>0, <2>1, <2>2, <2>3
<1>9. ASSUME NEW i \in 0 .. n - 1 PROVE g[q[i + 1]].prev = q[i]
  <2>1. CASE i < p - 1
    <3>1. /\ i \in 0 .. p - 1 /\ i + 1 \in 0 .. p - 1 /\ i \in 0 .. n /\ i + 1 \in 1 .. n + 1
          /\ i + 1 \in 0 .. n + 1
          /\ p + 1 \in 1 .. n + 1 /\ p \in 1 .. n + 1 /\ i + 1 # p + 1 /\ i + 1 # p
      BY <1>0, <2>1
    <3>2. r[i + 1] \in Addrs \ {r[p], r[p + 1]}
      BY <1>1, <1>2, <3>1
    <3>. QED
      BY <1>4, <1>7, <3>1, <3>2
  <2>2. CASE i = p - 1
    <3>1. i \in 0 .. p - 1 /\ i + 1 = p /\ p \in p .. n
      BY <1>0, <2>2
    <3>. QED
      BY <1>4, <1>7, <2>2, <3>1
  <2>3. CASE i > p - 1
    <3>1. /\ i \in p .. n /\ i + 1 \in p .. n /\ i + 1 \in 0 .. n /\ (i + 1) + 1 \in 1 .. n + 1
          /\ (i + 1) + 1 \in 0 .. n + 1
          /\ p + 1 \in 1 .. n + 1 /\ p \in 1 .. n + 1 /\ (i + 1) + 1 # p + 1 /\ (i + 1) + 1 # p
      BY <1>0, <2>3
    <3>2. r[(i + 1) + 1] \in Addrs \ {r[p], r[p + 1]}
      BY <1>1, <1>2, <3>1
    <3>. QED
      BY <1>4, <1>7, <3>1, <3>2
  <2>. QED
    BY <1>0, <2>1, <2>2, <2>3
<1>. QED
  <2>1. /\ \A i \in 0 .. n - 1 : g[q[i]].next = q[i + 1]
        /\ \A i \in 0 .. n - 1 : g[q[i + 1]].prev = q[i]
    BY <1>8, <1>9
  <2>2. Ring(g, held \ {r[p]}, n - 1, q)
    BY <1>6, <2>1 DEF Ring
  <2>. QED
    BY <2>2 DEF q

-----------------------------------------------------------------------------
(* Walks.                                                                  *)

\* A set of natural numbers with 0 and with the successor of each is Nat.
LEMMA NatSetInduction ==
    ASSUME NEW S, 0 \in S, \A k \in Nat : k \in S => k + 1 \in S
    PROVE  Nat \subseteq S
<1> DEFINE R == OpToRel(<, Nat)
           T == Nat \ S
<1>1. IsWellFoundedOn(R, Nat)
    BY NatLessThanWellFounded
<1>2. \A x, y \in Nat : x < y => <<x, y>> \in R
    BY DEF OpToRel
<1> HIDE DEF R
<1> SUFFICES ASSUME T # {} PROVE FALSE
    OBVIOUS
<1>3. PICK x \in T : \A y \in T : ~(<<y, x>> \in R)
    BY <1>1, WFMin
<1>4. x \in Nat /\ x \notin S
    OBVIOUS
<1>5. x - 1 \in Nat /\ x - 1 < x /\ x = (x - 1) + 1
    BY <1>4
<1>6. x - 1 \in S
    BY <1>2, <1>3, <1>4, <1>5, Zenon
<1>. QED
    BY <1>4, <1>5, <1>6

\* A row of different nodes has no more places than there are nodes.
LEMMA RowFits ==
    ASSUME NEW held \in SUBSET Nodes, NEW n, NEW r, NEW lo, Row(held, n, r, lo)
    PROVE  Cardinality(Nodes) \in Nat /\ n <= Cardinality(Nodes)
<1>1. Cardinality(Nodes) \in Nat
    BY FS_CardinalityType
<1>2. /\ n \in Nat
      /\ \A i \in 1 .. n : r[i] \in Nodes
      /\ \A i, j \in 1 .. n : r[i] = r[j] => i = j
    BY DEF Row
<1>3. IsFiniteSet(1 .. n) /\ Cardinality(1 .. n) = n
    BY <1>2, FS_Interval
<1> DEFINE S == 1 .. n
           f == [i \in S |-> r[i]]
<1>4. f \in [S -> Nodes] /\ IsFiniteSet(S) /\ Cardinality(S) = n /\ IsFiniteSet(Nodes)
    BY <1>2, <1>3
<1>5. \A x, y \in S : f[x] = f[y] => x = y
    BY <1>2
<1> HIDE DEF S, f
<1>6. ~(Cardinality(Nodes) < Cardinality(S))
  <2> SUFFICES ASSUME Cardinality(Nodes) < Cardinality(S)
               PROVE  \E x, y \in S : x # y /\ f[x] = f[y]
    BY <1>5
  <2>. QED
    BY <1>4, FS_PigeonHole, SMTT(20)
<1>. QED
    BY <1>1, <1>2, <1>4, <1>6

\* A walk finds the nodes of a row that is linked, in order, and stops at the
\* sentinel.
LEMMA WalkOfRow ==
    ASSUME NEW held \in SUBSET Nodes, NEW n, NEW r, NEW lo, Row(held, n, r, lo), NEW links,
           \A i \in 1 .. n : links[r[i]] = r[i + 1]
    PROVE  Walk(links, r[1]) = [i \in 1 .. n |-> r[i]]
<1> DEFINE m == Cardinality(Nodes)
           F(g) == [k \in 0 .. m |-> IF k = 0 THEN r[1]
                                     ELSE IF Stops(g[k - 1]) THEN g[k - 1] ELSE links[g[k - 1]]]
           at == CHOOSE g : g = F(g)
           h == [k \in 0 .. m |-> IF k < n THEN r[k + 1] ELSE SENT]
           met == {k \in 1 .. m : ~Stops(at[k - 1])}
<1>1. m \in Nat /\ n \in Nat /\ n <= m
  <2>1. n \in Nat
    BY DEF Row
  <2>. QED
    BY <2>1, RowFits
<1>2. /\ r[n + 1] = SENT
      /\ \A i \in 1 .. n : ~Stops(r[i])
      /\ Stops(SENT)
    BY DEF Row, Stops
<1>3. /\ \A k \in 0 .. m : k < n => h[k] = r[k + 1]
      /\ \A k \in 0 .. m : ~(k < n) => h[k] = SENT
    OBVIOUS
<1>4. h = F(h)
  <2> SUFFICES ASSUME NEW k \in 0 .. m
               PROVE  h[k] = IF k = 0 THEN r[1]
                             ELSE IF Stops(h[k - 1]) THEN h[k - 1] ELSE links[h[k - 1]]
    OBVIOUS
  <2> HIDE DEF h
  <2>1. CASE k = 0
    <3>1. CASE n = 0
      BY <1>1, <1>2, <1>3, <2>1, <3>1
    <3>2. CASE n # 0
      BY <1>1, <1>3, <2>1, <3>2
    <3>. QED
      BY <3>1, <3>2
  <2>2. CASE k # 0 /\ k - 1 < n
    <3>1. k - 1 \in 0 .. m /\ k \in 1 .. n /\ (k - 1) + 1 = k
      BY <1>1, <2>2
    <3>2. h[k - 1] = r[k] /\ ~Stops(r[k]) /\ links[r[k]] = r[k + 1]
      BY <1>2, <1>3, <2>2, <3>1
    <3>3. h[k] = r[k + 1]
      <4>1. CASE k < n
        BY <1>3, <4>1
      <4>2. CASE k = n
        BY <1>2, <1>3, <4>2, <1>1
      <4>. QED
        BY <1>1, <3>1, <4>1, <4>2
    <3>. QED
      BY <2>2, <3>2, <3>3
  <2>3. CASE k # 0 /\ ~(k - 1 < n)
    <3>1. k - 1 \in 0 .. m /\ ~(k < n)
      BY <1>1, <2>3
    <3>. QED
      BY <1>2, <1>3, <2>3, <3>1
  <2>. QED
    BY <2>1, <2>2, <2>3
<1>5. at = F(at)
    BY <1>4
<1>6. Walk(links, r[1]) = [k \in 1 .. Cardinality(met) |-> at[k - 1]]
    BY DEF Walk
<1>7. \A k \in 0 .. m : at[k] = h[k]
  <2> DEFINE S == {k \in Nat : k <= m => at[k] = h[k]}
  <2> HIDE DEF at, h
  <2>1. 0 \in S
    <3>1. 0 \in 0 .. m
      BY <1>1
    <3>2. at[0] = r[1] /\ h[0] = r[1]
      BY <1>4, <1>5, <3>1
    <3>. QED
      BY <3>2
  <2>2. ASSUME NEW k \in Nat, k \in S PROVE k + 1 \in S
    <3> SUFFICES ASSUME k + 1 <= m PROVE at[k + 1] = h[k + 1]
      OBVIOUS
    <3>1. k + 1 \in 0 .. m /\ k + 1 # 0 /\ (k + 1) - 1 = k /\ at[k] = h[k]
      BY <1>1, <2>2
    <3>2. at[k + 1] = IF Stops(at[k]) THEN at[k] ELSE links[at[k]]
      BY <1>5, <3>1
    <3>3. h[k + 1] = IF Stops(h[k]) THEN h[k] ELSE links[h[k]]
      BY <1>4, <3>1
    <3>. QED
      BY <3>1, <3>2, <3>3
  <2>3. Nat \subseteq S
    <3> HIDE DEF S
    <3>. QED
      BY <2>1, <2>2, NatSetInduction
  <2>. QED
    BY <1>1, <2>3
<1> HIDE DEF at, h
<1>8. met = 1 .. n
  <2>1. ASSUME NEW k \in 1 .. m PROVE ~Stops(at[k - 1]) <=> k \in 1 .. n
    <3>1. k - 1 \in 0 .. m /\ at[k - 1] = h[k - 1]
      BY <1>1, <1>7
    <3>2. CASE k \in 1 .. n
      <4>1. k - 1 < n /\ (k - 1) + 1 = k
        BY <1>1, <3>2
      <4>. QED
        BY <1>2, <1>3, <3>1, <3>2, <4>1
    <3>3. CASE k \notin 1 .. n
      <4>1. ~(k - 1 < n)
        BY <1>1, <3>3
      <4>. QED
        BY <1>2, <1>3, <3>1, <3>3, <4>1
    <3>. QED
      BY <3>2, <3>3
  <2>2. \A k \in 1 .. n : k \in 1 .. m
    BY <1>1
  <2>. QED
    BY <2>1, <2>2
<1>9. Cardinality(met) = n
  <2>1. Cardinality(1 .. n) = n
    BY <1>1, FS_Interval
  <2>. QED
    BY <1>8, <2>1
<1>10. \A k \in 1 .. n : at[k - 1] = r[k]
  <2> TAKE k \in 1 .. n
  <2>1. k - 1 \in 0 .. m /\ k - 1 < n /\ (k - 1) + 1 = k
    BY <1>1
  <2>. QED
    BY <1>3, <1>7, <2>1
<1>. QED
    BY <1>6, <1>9, <1>10

-----------------------------------------------------------------------------
(* What the assignments of llInsert() and llErase() write.                 *)

\* The new node is linked in between x and before, and nothing else changes.
LEMMA LinkWrites ==
    ASSUME NEW node \in Nodes, NEW before \in Addrs, NEW x \in Addrs, NEW v \in Values,
           heap \in [Addrs -> Cells], heap[before].prev = x, node # x, node # before
    PROVE  /\ link(node, before, v) \in [Addrs -> Cells]
           /\ Links(heap, link(node, before, v), node, x, before)
           /\ \A a \in Addrs : link(node, before, v)[a].data = IF a = node THEN v ELSE heap[a].data
<1> DEFINE g == link(node, before, v)
           f == [a \in Addrs |->
                   [next |-> IF a = node THEN before ELSE IF a = x THEN node ELSE heap[a].next,
                    prev |-> IF a = node THEN x ELSE IF a = before THEN node ELSE heap[a].prev,
                    data |-> IF a = node THEN v ELSE heap[a].data]]
<1>1. node \in Addrs
    BY DEF Addrs
<1>2. \A a \in Addrs : heap[a] = [next |-> heap[a].next, prev |-> heap[a].prev, data |-> heap[a].data]
                       /\ heap[a].next \in Addrs \union {NULL} /\ heap[a].prev \in Addrs \union {NULL}
                       /\ heap[a].data \in Values \union {NULL}
    BY DEF Cells
<1>3. g = f
  <2>1. g = [heap EXCEPT ![node] = [next |-> before, prev |-> x, data |-> v],
                         ![x].next = node, ![before].prev = node]
    BY DEF link, llIterPrev
  <2>2. g = [a \in Addrs |-> g[a]]
    BY <2>1
  <2>3. \A a \in Addrs : g[a] = f[a]
    BY <1>1, <1>2, <2>1
  <2>4. f = [a \in Addrs |-> f[a]]
    OBVIOUS
  <2> HIDE DEF f, g
  <2>5. [a \in Addrs |-> g[a]] = [a \in Addrs |-> f[a]]
    BY <2>3
  <2>. QED
    BY <2>2, <2>4, <2>5
<1> HIDE DEF g
<1>4. f \in [Addrs -> Cells]
    BY <1>1, <1>2 DEF Cells
<1>5. Links(heap, f, node, x, before)
    BY <1>1 DEF Links
<1>6. \A a \in Addrs : f[a].data = IF a = node THEN v ELSE heap[a].data
    OBVIOUS
<1> HIDE DEF f
<1>7. /\ g \in [Addrs -> Cells] /\ Links(heap, g, node, x, before)
      /\ \A a \in Addrs : g[a].data = IF a = node THEN v ELSE heap[a].data
    BY <1>3, <1>4, <1>5, <1>6
<1>. QED
    BY <1>7 DEF g

\* The neighbours of the node are linked to each other; the node is spoilt, and
\* nothing else changes.
LEMMA UnlinkWrites ==
    ASSUME NEW node \in Nodes, NEW x \in Addrs, NEW y \in Addrs,
           heap \in [Addrs -> Cells], heap[node].prev = x, heap[node].next = y,
           node # x, node # y
    PROVE  /\ unlink(node) \in [Addrs -> Cells]
           /\ Unlinks(heap, unlink(node), node, x, y)
           /\ \A a \in Addrs \ {node} : unlink(node)[a].data = heap[a].data
<1> DEFINE g == unlink(node)
           f == [a \in Addrs |->
                   [next |-> IF a = node THEN NULL ELSE IF a = x THEN y ELSE heap[a].next,
                    prev |-> IF a = node THEN NULL ELSE IF a = y THEN x ELSE heap[a].prev,
                    data |-> IF a = node THEN NULL ELSE heap[a].data]]
<1>1. node \in Addrs
    BY DEF Addrs
<1>2. \A a \in Addrs : heap[a] = [next |-> heap[a].next, prev |-> heap[a].prev, data |-> heap[a].data]
                       /\ heap[a].next \in Addrs \union {NULL} /\ heap[a].prev \in Addrs \union {NULL}
                       /\ heap[a].data \in Values \union {NULL}
    BY DEF Cells
<1>3. g = f
  <2>1. g = [heap EXCEPT ![x].next = y, ![y].prev = x,
                         ![node] = [next |-> NULL, prev |-> NULL, data |-> NULL]]
    BY DEF unlink, llIterPrev, llIterNext, Junk
  <2>2. g = [a \in Addrs |-> g[a]]
    BY <2>1
  <2>3. \A a \in Addrs : g[a] = f[a]
    BY <1>1, <1>2, <2>1
  <2>4. f = [a \in Addrs |-> f[a]]
    OBVIOUS
  <2> HIDE DEF f, g
  <2>5. [a \in Addrs |-> g[a]] = [a \in Addrs |-> f[a]]
    BY <2>3
  <2>. QED
    BY <2>2, <2>4, <2>5
<1> HIDE DEF g
<1>4. f \in [Addrs -> Cells]
    BY <1>1, <1>2 DEF Cells
<1>5. Unlinks(heap, f, node, x, y)
    BY <1>1 DEF Unlinks
<1>6. \A a \in Addrs \ {node} : f[a].data = heap[a].data
    OBVIOUS
<1> HIDE DEF f
<1>7. /\ g \in [Addrs -> Cells] /\ Unlinks(heap, g, node, x, y)
      /\ \A a \in Addrs \ {node} : g[a].data = heap[a].data
    BY <1>3, <1>4, <1>5, <1>6
<1>. QED
    BY <1>7 DEF g

-----------------------------------------------------------------------------
(* The calls.                                                              *)

\* A list without nodes.
LEMMA EmptyRing ==
    ASSUME NEW h, h[SENT].next = SENT, h[SENT].prev = SENT
    PROVE  \E n, r : Ring(h, {}, n, r)
<1> DEFINE r == [i \in 0 .. 1 |-> SENT]
<1>1. Row({}, 0, r, 0)
    BY DEF Row, Addrs
<1>2. Ring(h, {}, 0, r)
    BY <1>1 DEF Ring
<1>. QED
    BY <1>2

\* A ring does not depend on the values.
LEMMA SameLinks ==
    ASSUME NEW h, NEW g, NEW held, NEW n, NEW r, Ring(h, held, n, r),
           \A a \in Addrs : g[a].next = h[a].next /\ g[a].prev = h[a].prev
    PROVE  Ring(g, held, n, r)
<1>1. n \in Nat /\ \A i \in 0 .. n + 1 : r[i] \in Addrs
    BY DEF Ring, Row
<1>2. \A i \in 0 .. n : i \in 0 .. n + 1 /\ i + 1 \in 0 .. n + 1
    BY <1>1
<1>. QED
    BY <1>1, <1>2 DEF Ring

\* Nothing is left to free when the iterator is at the end.
LEMMA NothingRests ==
    ASSUME NEW h, NEW held, SENT \notin held, NEW n, NEW r, Rest(h, held, n, r), r[1] = SENT
    PROVE  held = {} /\ n = 0
    BY DEF Rest, Row

\* The first and the last iterator, which are the end if the list is empty.
LEMMA Ends ==
    ASSUME TypeOK, Linked, pc = "ready"
    PROVE  /\ llBegin \in Held \union {SENT}
           /\ llIterPrev(llEnd) \in Held \union {SENT}
           /\ ~llIsEmpty => llBegin \in Held /\ llIterPrev(llEnd) \in Held
<1>1. PICK n, r : Ring(heap, Held, n, r)
    BY DEF Linked
<1>2. /\ n \in Nat /\ r[0] = SENT /\ r[n + 1] = SENT
      /\ \A i \in 1 .. n : r[i] \in Held
      /\ heap[r[0]].next = r[1] /\ heap[r[n + 1]].prev = r[n]
    BY <1>1 DEF Ring, Row
<1>. QED
    BY <1>2 DEF llBegin, llEnd, llIterNext, llIterPrev, llIsEmpty

\* The neighbours of an iterator are iterators of the list, or its end.
LEMMA Neighbours ==
    ASSUME TypeOK, Linked, pc = "ready", NEW a \in Held \union {SENT}
    PROVE  /\ llIterNext(a) \in Held \union {SENT} /\ llIterPrev(llIterNext(a)) = a
           /\ llIterPrev(a) \in Held \union {SENT} /\ llIterNext(llIterPrev(a)) = a
<1>1. PICK n, r : Ring(heap, Held, n, r)
    BY DEF Linked
<1>2. /\ n \in Nat /\ r[0] = SENT /\ r[n + 1] = SENT
      /\ \A i \in 1 .. n : r[i] \in Held
      /\ \A i \in 0 .. n : heap[r[i]].next = r[i + 1] /\ heap[r[i + 1]].prev = r[i]
    BY <1>1 DEF Ring, Row
<1>3. \A i \in 0 .. n + 1 : r[i] \in Held \union {SENT}
    BY <1>2
<1>4. PICK i \in 0 .. n : r[i] = a
    BY <1>1, HeldNodes, PlaceOf
<1>5. PICK j \in 1 .. n + 1 : r[j] = a
    BY <1>1, HeldNodes, PlaceOf
<1>6. i + 1 \in 0 .. n + 1 /\ j - 1 \in 0 .. n /\ j - 1 \in 0 .. n + 1 /\ (j - 1) + 1 = j
    BY <1>2
<1>. QED
    BY <1>2, <1>3, <1>4, <1>5, <1>6 DEF llIterNext, llIterPrev

\* At first there is no list.
LEMMA InitIInv == Init => IInv
    BY DEF Init, IInv, TypeOK, Results, Linked, Cells, Addrs, Junk

\* A call that changes nothing may return anything of its type.
LEMMA ReturnsIInv ==
    ASSUME IInv, UNCHANGED <<heap, allocated, pc, it>>, result' \in Results
    PROVE  IInv'
<1>1. TypeOK' /\ Held' = Held
    BY DEF IInv, TypeOK, Held
<1>. QED
    BY <1>1 DEF IInv, Linked

\* Nor does one that finds no memory.
LEMMA noMemoryIInv == IInv /\ noMemory => IInv'
    BY ReturnsIInv DEF noMemory, Results

\* The sentinel alone is a ring.
LEMMA llCreateWithAllocatorIInv ==
    ASSUME IInv, llCreateWithAllocator
    PROVE  IInv'
<1> SUFFICES ASSUME ~noMemory PROVE IInv'
    BY noMemoryIInv
<1>1. TypeOK'
  <2>1. /\ heap' = [heap EXCEPT ![SENT] = Empty] /\ allocated' = allocated \union {SENT}
        /\ pc' = "ready" /\ it' = SENT /\ result' = SENT
        /\ heap \in [Addrs -> Cells] /\ allocated \subseteq Addrs
    BY DEF llCreateWithAllocator, IInv, TypeOK
  <2>2. SENT \in Addrs /\ Empty \in Cells
    BY DEF Addrs, Cells, Empty, Junk
  <2>. QED
    BY <2>1, <2>2 DEF TypeOK, Results
<1>2. Held' = {} /\ heap'[SENT].next = SENT /\ heap'[SENT].prev = SENT
    BY DEF llCreateWithAllocator, IInv, TypeOK, Linked, Held, Addrs, Empty, Junk
<1>3. \E n, r : Ring(heap', {}, n, r)
    BY <1>2, EmptyRing
<1>4. pc' = "ready" /\ SENT \in allocated'
    BY DEF llCreateWithAllocator
<1>. QED
    BY <1>1, <1>2, <1>3, <1>4 DEF IInv, Linked

\* llInsert() links the new node before an iterator of the list, or its end.
LEMMA insertRing ==
    ASSUME IInv, pc = "ready", NEW v \in Values, NEW before \in Held \union {SENT},
           insert(before, v), ~noMemory
    PROVE  \E node, n, r, p :
              /\ node \in Nodes \ Held /\ p \in 1 .. n + 1
              /\ Ring(heap, Held, n, r) /\ r[p] = before
              /\ Held' = Held \union {node} /\ allocated' = allocated \union {node}
              /\ Ring(heap', Held', n + 1, Insertion(n, r, p, node))
              /\ heap' \in [Addrs -> Cells] /\ result' = node
              /\ \A a \in Addrs : heap'[a].data = IF a = node THEN v ELSE heap[a].data
<1>1. PICK node \in Nodes \ allocated :
          /\ heap' = link(node, before, v)
          /\ allocated' = allocated \union {node}
          /\ result' = node
    BY DEF insert
<1>2. PICK n, r : Ring(heap, Held, n, r)
    BY DEF IInv, Linked
<1>3. Held \in SUBSET Nodes /\ before \in Addrs /\ heap \in [Addrs -> Cells]
    BY HeldNodes DEF IInv, TypeOK, Held, Addrs
<1>4. PICK p \in 1 .. n + 1 : r[p] = before
    BY <1>2, <1>3, PlaceOf
<1>5. /\ n \in Nat /\ p - 1 \in 0 .. n /\ (p - 1) + 1 = p
      /\ \A i \in 0 .. n + 1 : r[i] \in Held \union {SENT}
      /\ \A i \in 0 .. n : heap[r[i + 1]].prev = r[i]
    BY <1>2 DEF Ring, Row
<1>6. /\ heap[before].prev = r[p - 1] /\ r[p - 1] \in Held \union {SENT}
    BY <1>4, <1>5
<1>7. /\ node \notin Held \union {SENT} /\ node \in Nodes \ Held /\ r[p - 1] \in Addrs
    BY <1>3, <1>6 DEF Held, Addrs
<1>8. /\ heap' \in [Addrs -> Cells] /\ Links(heap, heap', node, r[p - 1], r[p])
      /\ \A a \in Addrs : heap'[a].data = IF a = node THEN v ELSE heap[a].data
    BY <1>1, <1>3, <1>4, <1>6, <1>7, LinkWrites
<1>9. Ring(heap', Held \union {node}, n + 1, Insertion(n, r, p, node))
    BY <1>2, <1>3, <1>7, <1>8, RingInsertion
<1>10. Held' = Held \union {node}
    BY <1>1, <1>7 DEF Held
<1>11. Ring(heap', Held', n + 1, Insertion(n, r, p, node))
    BY <1>9, <1>10
<1>. QED
    BY <1>1, <1>2, <1>4, <1>7, <1>8, <1>10, <1>11

\* So there is a ring again.
LEMMA insertIInv ==
    ASSUME IInv, pc = "ready", NEW v \in Values, NEW before \in Held \union {SENT},
           insert(before, v)
    PROVE  IInv'
<1> SUFFICES ASSUME ~noMemory PROVE IInv'
    BY noMemoryIInv
<1>1. PICK node, n, r, p :
          /\ node \in Nodes \ Held /\ p \in 1 .. n + 1
          /\ allocated' = allocated \union {node}
          /\ Ring(heap', Held', n + 1, Insertion(n, r, p, node))
          /\ heap' \in [Addrs -> Cells] /\ result' = node
    BY insertRing
<1>2. pc' = "ready" /\ it' = it /\ SENT \in allocated'
    BY <1>1 DEF insert, IInv, Linked
<1>3. TypeOK'
    BY <1>1, <1>2 DEF IInv, TypeOK, Results, Addrs
<1>. QED
    BY <1>1, <1>2, <1>3 DEF IInv, Linked

\* llErase() takes out a node of the list.
LEMMA eraseRing ==
    ASSUME IInv, pc = "ready", NEW node \in Held, erase(node)
    PROVE  \E n, r, p :
              /\ p \in 1 .. n
              /\ Ring(heap, Held, n, r) /\ r[p] = node
              /\ Held' = Held \ {node}
              /\ Ring(heap', Held', n - 1, Erasure(n, r, p))
              /\ heap' \in [Addrs -> Cells]
              /\ \A a \in Addrs \ {node} : heap'[a].data = heap[a].data
<1>1. heap' = unlink(node) /\ allocated' = allocated \ {node}
    BY DEF erase
<1>2. PICK n, r : Ring(heap, Held, n, r)
    BY DEF IInv, Linked
<1>3. Held \in SUBSET Nodes /\ node \in Nodes /\ heap \in [Addrs -> Cells]
    BY HeldNodes DEF IInv, TypeOK
<1>4. /\ n \in Nat /\ r \in [0 .. n + 1 -> Addrs]
      /\ \A i \in 0 .. n : heap[r[i]].next = r[i + 1] /\ heap[r[i + 1]].prev = r[i]
      /\ \A a \in Held : \E i \in 1 .. n : r[i] = a
    BY <1>2 DEF Ring, Row
<1>5. PICK p \in 1 .. n : r[p] = node
    BY <1>4
<1>6. /\ p \in 0 .. n /\ p \in 1 .. n + 1 /\ p - 1 \in 0 .. n /\ (p - 1) + 1 = p
      /\ p - 1 \in 0 .. n + 1 /\ p + 1 \in 0 .. n + 1 /\ p + 1 \in 1 .. n + 1
    BY <1>4
<1>7. /\ heap[node].prev = r[p - 1] /\ heap[node].next = r[p + 1]
      /\ r[p - 1] \in Addrs /\ r[p + 1] \in Addrs
    BY <1>4, <1>5, <1>6
<1>8. node # r[p - 1] /\ node # r[p + 1]
  <2>1. /\ \A i, j \in 0 .. n : r[i] = r[j] => i = j
        /\ \A i, j \in 1 .. n + 1 : r[i] = r[j] => i = j
    BY <1>2, <1>3, PlacesDiffer
  <2>2. p - 1 # p /\ p + 1 # p
    BY <1>4
  <2>. QED
    BY <1>5, <1>6, <2>1, <2>2
<1>9. /\ heap' \in [Addrs -> Cells] /\ Unlinks(heap, heap', node, r[p - 1], r[p + 1])
      /\ \A a \in Addrs \ {node} : heap'[a].data = heap[a].data
    BY <1>1, <1>3, <1>7, <1>8, UnlinkWrites
<1>10. Ring(heap', Held \ {node}, n - 1, Erasure(n, r, p))
    BY <1>2, <1>3, <1>5, <1>9, RingErasure
<1>11. Held' = Held \ {node}
    BY <1>1 DEF Held
<1>12. Ring(heap', Held', n - 1, Erasure(n, r, p))
    BY <1>10, <1>11
<1>. QED
    BY <1>2, <1>5, <1>9, <1>11, <1>12

\* So there is a ring again.
LEMMA eraseIInv ==
    ASSUME IInv, pc = "ready", NEW node \in Held, erase(node), result' \in Results
    PROVE  IInv'
<1>1. PICK n, r, p :
          /\ p \in 1 .. n
          /\ Ring(heap', Held', n - 1, Erasure(n, r, p))
          /\ heap' \in [Addrs -> Cells]
    BY eraseRing
<1>2. pc' = "ready" /\ it' = it /\ SENT \in allocated' /\ allocated' \subseteq allocated
    BY DEF erase, IInv, Linked, Held
<1>3. TypeOK'
    BY <1>1, <1>2 DEF IInv, TypeOK
<1>. QED
    BY <1>1, <1>2, <1>3 DEF IInv, Linked

\* The size is that of the ring.
LEMMA SizeFits ==
    ASSUME IInv, pc = "ready"
    PROVE  Len(Walk(nexts, llBegin)) \in 0 .. Cardinality(Nodes)
<1>1. PICK n, r : Ring(heap, Held, n, r)
    BY DEF IInv, Linked
<1>2. Held \in SUBSET Nodes
    BY HeldNodes DEF IInv
<1>3. /\ Row(Held, n, r, 0) /\ r[0] = SENT /\ n \in Nat
      /\ \A i \in 0 .. n + 1 : r[i] \in Addrs
      /\ \A i \in 0 .. n : heap[r[i]].next = r[i + 1]
    BY <1>1 DEF Ring, Row
<1>4. /\ llBegin = r[1]
      /\ \A i \in 1 .. n : nexts[r[i]] = r[i + 1]
    BY <1>3 DEF llBegin, llIterNext, nexts
<1>5. Walk(nexts, llBegin) = [i \in 1 .. n |-> r[i]]
    BY <1>2, <1>3, <1>4, WalkOfRow
<1>6. n <= Cardinality(Nodes) /\ Cardinality(Nodes) \in Nat
    BY <1>2, <1>3, RowFits
<1>. QED
    BY <1>3, <1>5, <1>6

\* A value written through an iterator leaves the pointers alone.
LEMMA assignIInv ==
    ASSUME IInv, NEW node \in Held, NEW v \in Values, assign(node, v)
    PROVE  IInv'
<1>1. PICK n, r : Ring(heap, Held, n, r)
    BY DEF assign, Called, IInv, Linked
<1>2. node \in Addrs /\ heap \in [Addrs -> Cells]
    BY DEF IInv, TypeOK, Held
<1>3. /\ heap' \in [Addrs -> Cells]
      /\ \A a \in Addrs : heap'[a].next = heap[a].next /\ heap'[a].prev = heap[a].prev
    BY <1>2 DEF assign, Cells
<1>4. Ring(heap', Held, n, r)
    BY <1>1, <1>3, SameLinks
<1>5. Held' = Held /\ allocated' = allocated /\ pc' = pc /\ it' = it /\ result' = NULL
    BY DEF assign, Held
<1>6. TypeOK'
    BY <1>3, <1>5 DEF IInv, TypeOK, Results
<1>. QED
    BY <1>4, <1>5, <1>6 DEF assign, Called, IInv, Linked

\* llDestroyNodes() begins at the first node.
LEMMA beginDestroyIInv ==
    ASSUME IInv, NEW for \in {"clear", "destroy"}, beginDestroy(for)
    PROVE  IInv'
<1>1. PICK n, r : Ring(heap, Held, n, r)
    BY DEF beginDestroy, IInv, Linked
<1>2. /\ n \in Nat /\ r \in [0 .. n + 1 -> Addrs] /\ r[0] = SENT /\ r[n + 1] = SENT
      /\ \A i \in 1 .. n : r[i] \in Held
      /\ \A i, j \in 1 .. n : r[i] = r[j] => i = j
      /\ \A a \in Held : \E i \in 1 .. n : r[i] = a
      /\ \A i \in 0 .. n : heap[r[i]].next = r[i + 1]
    BY <1>1 DEF Ring, Row
<1> DEFINE s == [i \in 1 .. n + 1 |-> r[i]]
<1>3. s \in [1 .. n + 1 -> Addrs] /\ \A i \in 1 .. n + 1 : s[i] = r[i]
    BY <1>2
<1> HIDE DEF s
<1>4. /\ n + 1 \in 1 .. n + 1 /\ 1 \in 1 .. n + 1
      /\ \A i \in 1 .. n : i \in 1 .. n + 1 /\ i + 1 \in 1 .. n + 1 /\ i \in 0 .. n
    BY <1>2
<1>5. Row(Held, n, s, 1)
    BY <1>2, <1>3, <1>4 DEF Row
<1>6. Rest(heap, Held, n, s)
  <2>1. \A i \in 1 .. n : heap[s[i]].next = s[i + 1]
    BY <1>2, <1>3, <1>4
  <2>. QED
    BY <1>5, <2>1 DEF Rest
<1>7. it' = s[1]
  <2>1. it' = heap[r[0]].next /\ 0 \in 0 .. n /\ 0 + 1 = 1
    BY <1>2 DEF beginDestroy, llBegin, llIterNext
  <2>. QED
    BY <1>2, <1>3, <1>4, <2>1
<1>8. /\ heap' = heap /\ allocated' = allocated /\ result' = NULL
      /\ pc' \in {"clear", "destroy"} /\ pc = "ready"
    BY DEF beginDestroy
<1>9. Held' = Held /\ SENT \in allocated'
    BY <1>8 DEF Held, IInv, Linked
<1>10. TypeOK'
  <2>1. s[1] \in Addrs
    BY <1>3, <1>4
  <2>. QED
    BY <1>7, <1>8, <2>1 DEF IInv, TypeOK, Results
<1>. QED
    BY <1>6, <1>7, <1>8, <1>9, <1>10 DEF IInv, Linked

\* The node is freed after its successor was read, so the rest stays linked.
LEMMA destroyNodeIInv ==
    ASSUME IInv, destroyNode
    PROVE  IInv'
<1>1. PICK n, r : Rest(heap, Held, n, r) /\ it = r[1]
    BY DEF destroyNode, IInv, Linked
<1>2. /\ n \in Nat /\ r \in [1 .. n + 1 -> Addrs] /\ r[n + 1] = SENT
      /\ \A i \in 1 .. n : r[i] \in Held
      /\ \A i, j \in 1 .. n : r[i] = r[j] => i = j
      /\ \A a \in Held : \E i \in 1 .. n : r[i] = a
      /\ \A i \in 1 .. n : heap[r[i]].next = r[i + 1]
    BY <1>1 DEF Rest, Row
<1>3. /\ it # SENT /\ allocated' = allocated \ {it} /\ heap' = [heap EXCEPT ![it] = Junk]
      /\ it' = heap[it].next /\ pc' = pc /\ pc \in {"clear", "destroy"} /\ result' = result
      /\ heap \in [Addrs -> Cells] /\ it \in Addrs /\ SENT \in allocated
    BY DEF destroyNode, Successor, llIterNext, IInv, TypeOK, Linked
<1>4. n > 0
  <2>1. n = 0 => r[1] = SENT
    BY <1>2
  <2>. QED
    BY <1>1, <1>2, <1>3, <2>1
<1> DEFINE s == [i \in 1 .. n |-> r[i + 1]]
<1>5. s \in [1 .. n -> Addrs] /\ \A i \in 1 .. n : s[i] = r[i + 1]
    BY <1>2
<1> HIDE DEF s
<1>6. /\ n - 1 \in Nat /\ (n - 1) + 1 = n /\ n \in 1 .. n /\ 1 \in 1 .. n /\ 1 \in 1 .. n + 1
      /\ \A i \in 1 .. n - 1 : /\ i \in 1 .. n /\ i + 1 \in 1 .. n /\ i + 1 \in 1 .. n + 1
                               /\ i + 1 # 1
    BY <1>2, <1>4
<1>7. Held' = Held \ {it}
    BY <1>3 DEF Held
<1>8. Row(Held', n - 1, s, 1)
  <2>1. s[n] = SENT
    BY <1>2, <1>5, <1>6
  <2>2. \A i \in 1 .. n - 1 : s[i] \in Held \ {it}
    BY <1>1, <1>2, <1>5, <1>6
  <2>3. ASSUME NEW i \in 1 .. n - 1, NEW j \in 1 .. n - 1, s[i] = s[j] PROVE i = j
    <3>1. i + 1 = j + 1
      BY <1>2, <1>5, <1>6, <2>3
    <3>. QED
      BY <1>2, <3>1
  <2>4. ASSUME NEW a \in Held \ {it} PROVE \E i \in 1 .. n - 1 : s[i] = a
    <3>1. PICK j \in 1 .. n : r[j] = a
      BY <1>2
    <3>2. j # 1
      BY <1>1, <3>1
    <3>3. j - 1 \in 1 .. n - 1 /\ j - 1 \in 1 .. n /\ (j - 1) + 1 = j
      BY <1>2, <3>2
    <3>. QED
      BY <1>5, <3>1, <3>3
  <2>. QED
    BY <1>5, <1>6, <1>7, <2>1, <2>2, <2>3, <2>4 DEF Row
<1>9. Rest(heap', Held', n - 1, s)
  <2>1. ASSUME NEW i \in 1 .. n - 1 PROVE heap'[s[i]].next = s[i + 1]
    <3>1. s[i] = r[i + 1] /\ s[i + 1] = r[(i + 1) + 1] /\ heap[r[i + 1]].next = r[(i + 1) + 1]
      BY <1>2, <1>5, <1>6
    <3>2. r[i + 1] # it /\ r[i + 1] \in Addrs
      BY <1>1, <1>2, <1>6
    <3>. QED
      BY <1>3, <3>1, <3>2
  <2>. QED
    BY <1>8, <2>1 DEF Rest
<1>10. it' = s[1] /\ s[1] \in Addrs
    BY <1>1, <1>2, <1>3, <1>5, <1>6
<1>11. TypeOK'
  <2>1. Junk \in Cells
    BY DEF Junk, Cells
  <2>2. heap' \in [Addrs -> Cells]
    BY <1>3, <2>1
  <2>. QED
    BY <1>3, <1>10, <2>2 DEF IInv, TypeOK
<1>. QED
    BY <1>3, <1>9, <1>10, <1>11 DEF IInv, Linked

\* When all nodes are freed the sentinel is linked to itself again.
LEMMA clearEndsIInv ==
    ASSUME IInv, pc = "clear", it = SENT,
           heap' = [heap EXCEPT ![SENT] = Empty], pc' = "ready",
           UNCHANGED <<allocated, it, result>>
    PROVE  IInv'
<1>1. PICK n, r : Rest(heap, Held, n, r) /\ it = r[1]
    BY DEF IInv, Linked
<1>2. Held = {}
    BY <1>1, NothingRests DEF Held
<1>3. Held' = {} /\ SENT \in allocated'
    BY <1>2 DEF Held, IInv, Linked
<1>4. heap \in [Addrs -> Cells] /\ SENT \in Addrs /\ Empty \in Cells
    BY DEF IInv, TypeOK, Addrs, Empty, Junk, Cells
<1>5. heap' \in [Addrs -> Cells] /\ heap'[SENT].next = SENT /\ heap'[SENT].prev = SENT
    BY <1>4 DEF Empty, Junk
<1>6. \E m, s : Ring(heap', {}, m, s)
    BY <1>5, EmptyRing
<1>7. TypeOK'
    BY <1>5 DEF IInv, TypeOK
<1>. QED
    BY <1>3, <1>6, <1>7 DEF IInv, Linked

\* When all nodes are freed the list itself is, and nothing is left.
LEMMA destroyEndsIInv ==
    ASSUME IInv, pc = "destroy", it = SENT,
           heap' = [heap EXCEPT ![SENT] = Junk], allocated' = allocated \ {SENT}, pc' = "none",
           UNCHANGED <<it, result>>
    PROVE  IInv'
<1>1. PICK n, r : Rest(heap, Held, n, r) /\ it = r[1]
    BY DEF IInv, Linked
<1>2. Held = {}
    BY <1>1, NothingRests DEF Held
<1>3. allocated' = {}
    BY <1>2 DEF Held
<1>4. heap \in [Addrs -> Cells] /\ Junk \in Cells
    BY DEF IInv, TypeOK, Junk, Cells
<1>5. heap' \in [Addrs -> Cells]
    BY <1>4
<1>6. TypeOK'
    BY <1>3, <1>5 DEF IInv, TypeOK
<1>. QED
    BY <1>3, <1>6 DEF IInv, Linked

\* Every call, and every step of the two that free nodes, keeps the ring.
LEMMA NextIInv == IInv /\ [Next]_vars => IInv'
<1> SUFFICES ASSUME IInv, [Next]_vars PROVE IInv'
    OBVIOUS
<1>1. /\ heap \in [Addrs -> Cells] /\ result \in Results
      /\ SENT \in Addrs /\ Held \subseteq Addrs
      /\ Held \union {SENT} \in SUBSET Addrs /\ allocated \subseteq Held \union {SENT}
      /\ NULL \in Results /\ Addrs \subseteq Results /\ {0, 1} \subseteq Results
    BY HeldNodes DEF IInv, TypeOK, Held, Addrs, Results
<1>2. \A a \in Addrs : heap[a].next \in Results /\ heap[a].prev \in Results /\ heap[a].data \in Results
  <2>1. \A a \in Addrs : heap[a] \in Cells
    BY DEF IInv, TypeOK
  <2>. QED
    BY <2>1 DEF Cells, Results
<1>3. pc = "ready" => /\ llBegin \in Held \union {SENT} /\ llEnd \in Held \union {SENT}
                      /\ ~llIsEmpty => llBegin \in Held /\ llIterPrev(llEnd) \in Held
    BY Ends DEF IInv, llEnd
<1>4. CASE llCreateWithAllocator
    BY <1>4, llCreateWithAllocatorIInv
<1>5. ASSUME NEW v \in Values,
             llAppend(v) \/ llPrepend(v) \/ \E node \in allocated : llInsert(node, v)
      PROVE  IInv'
  <2>1. \E before \in Held \union {SENT} : pc = "ready" /\ insert(before, v)
    BY <1>1, <1>3, <1>5 DEF llAppend, llPrepend, llInsert, Called
  <2>. QED
    BY <2>1, insertIInv
<1>6. ASSUME NEW v \in Values, NEW node \in Held, assign(node, v) PROVE IInv'
    BY <1>6, assignIInv
<1>7. ASSUME \/ \E node \in Held : llErase(node)
             \/ llPopBack \/ llPopFront
      PROVE  IInv'
  <2>1. \E node \in Held : pc = "ready" /\ erase(node) /\ result' \in Results
    BY <1>1, <1>2, <1>3, <1>7 DEF llErase, llPopBack, llPopFront, Called, llIterNext
  <2>. QED
    BY <2>1, eraseIInv
<1>8. ASSUME NEW x \in Results, Returns(x) PROVE IInv'
    BY <1>8, ReturnsIInv DEF Returns
<1>9. CASE iterate
  <2>1. \E x \in Results : Returns(x)
    BY <1>1, <1>2, <1>9 DEF iterate, llBegin, llEnd, llIterNext, llIterPrev
  <2>. QED
    BY <1>8, <2>1
<1>10. CASE query
  <2>1. pc = "ready" /\ llSize \in Results
    BY <1>10, SizeFits DEF query, Called, llSize, Results
  <2>2. \A node \in Held : llIterDeref(node) \in Results
    BY <1>1, <1>2 DEF llIterDeref
  <2>3. ~llIsEmpty => llFront \in Results /\ llBack \in Results
    BY <1>3, <2>1, <2>2 DEF llFront, llBack
  <2>4. (IF llIsEmpty THEN 1 ELSE 0) \in Results
    BY <1>1
  <2>5. \E x \in Results : Returns(x)
    BY <1>10, <2>1, <2>2, <2>3, <2>4 DEF query
  <2>. QED
    BY <1>8, <2>5
<1>11. CASE llClear
    BY <1>11, beginDestroyIInv, clearEndsIInv DEF llClear
<1>12. CASE llDestroy
    BY <1>1, <1>8, <1>12, beginDestroyIInv, destroyEndsIInv DEF llDestroy
<1>13. CASE destroyNode
    BY <1>13, destroyNodeIInv
<1>14. CASE UNCHANGED vars
    BY <1>1, <1>14, ReturnsIInv DEF vars
<1>. QED
    BY <1>4, <1>5, <1>6, <1>7, <1>9, <1>10, <1>11, <1>12, <1>13, <1>14 DEF Next

-----------------------------------------------------------------------------
\* There is a ring, or what is left of one, in every state.
THEOREM Invariance == Spec => []IInv
<1>1. Init => IInv
    BY InitIInv
<1>2. IInv /\ [Next]_vars => IInv'
    BY NextIInv
<1>. QED
    BY <1>1, <1>2, PTL DEF Spec

\* Every pointer has its type, and the two directions are each other's inverse
\* whenever the list is ready for a call.
THEOREM LinksAreInverse == Spec => []WellLinked
<1>1. IInv => WellLinked
  <2> SUFFICES ASSUME IInv PROVE WellLinked
    OBVIOUS
  <2>1. ASSUME pc = "ready", NEW a \in allocated
        PROVE  /\ llIterNext(a) \in allocated /\ llIterPrev(llIterNext(a)) = a
               /\ llIterPrev(a) \in allocated /\ llIterNext(llIterPrev(a)) = a
    <3>1. a \in Held \union {SENT} /\ SENT \in allocated /\ Held \subseteq allocated
      BY <2>1 DEF Held, IInv, Linked
    <3>. QED
      BY <2>1, <3>1, Neighbours DEF IInv
  <2>. QED
    BY <2>1 DEF IInv, TypeOK, Results, Cells, WellLinked
<1>. QED
    BY <1>1, Invariance, PTL

\* The ring the other way round.
Reversed(n, r) == [i \in 0 .. n + 1 |-> r[n + 1 - i]]

\* It is a row of the same nodes.
LEMMA ReversedRow ==
    ASSUME NEW h, NEW held, NEW n, NEW r, Ring(h, held, n, r)
    PROVE  /\ Row(held, n, Reversed(n, r), 0)
           /\ Reversed(n, r)[1] = h[SENT].prev
           /\ \A i \in 1 .. n : h[Reversed(n, r)[i]].prev = Reversed(n, r)[i + 1]
<1> DEFINE s == Reversed(n, r)
<1>1. /\ n \in Nat /\ r \in [0 .. n + 1 -> Addrs] /\ r[0] = SENT /\ r[n + 1] = SENT
      /\ \A i \in 1 .. n : r[i] \in held
      /\ \A i, j \in 1 .. n : r[i] = r[j] => i = j
      /\ \A a \in held : \E i \in 1 .. n : r[i] = a
      /\ \A i \in 0 .. n : h[r[i + 1]].prev = r[i]
    BY DEF Ring, Row
<1>2. /\ \A i \in 0 .. n + 1 : s[i] = r[n + 1 - i] /\ n + 1 - i \in 0 .. n + 1
      /\ s = [i \in 0 .. n + 1 |-> s[i]]
    BY <1>1 DEF Reversed
<1> HIDE DEF s
<1>3. /\ n + 1 \in 0 .. n + 1 /\ n + 1 - (n + 1) = 0 /\ 1 \in 0 .. n + 1 /\ n + 1 - 1 = n
      /\ n \in 0 .. n
      /\ \A i \in 1 .. n : /\ n + 1 - i \in 1 .. n /\ i \in 0 .. n + 1 /\ i + 1 \in 0 .. n + 1
                           /\ n + 1 - (n + 1 - i) = i
                           /\ n + 1 - (i + 1) \in 0 .. n
                           /\ (n + 1 - (i + 1)) + 1 = n + 1 - i
    BY <1>1
<1>4. s \in [0 .. n + 1 -> Addrs] /\ s[n + 1] = SENT
    BY <1>1, <1>2, <1>3
<1>5. \A i \in 1 .. n : s[i] \in held
    BY <1>1, <1>2, <1>3
<1>6. ASSUME NEW i \in 1 .. n, NEW j \in 1 .. n, s[i] = s[j] PROVE i = j
  <2>1. n + 1 - i = n + 1 - j
    BY <1>1, <1>2, <1>3, <1>6
  <2>. QED
    BY <1>3, <2>1
<1>7. ASSUME NEW a \in held PROVE \E i \in 1 .. n : s[i] = a
  <2>1. PICK j \in 1 .. n : r[j] = a
    BY <1>1
  <2>. QED
    BY <1>2, <1>3, <2>1
<1>8. s[1] = h[SENT].prev
  <2>1. s[1] = r[n] /\ h[r[n + 1]].prev = r[n]
    BY <1>1, <1>2, <1>3
  <2>. QED
    BY <1>1, <2>1
<1>9. ASSUME NEW i \in 1 .. n PROVE h[s[i]].prev = s[i + 1]
  <2> DEFINE j == n + 1 - (i + 1)
  <2>1. j \in 0 .. n /\ j + 1 = n + 1 - i
    BY <1>3
  <2>2. s[i] = r[n + 1 - i] /\ s[i + 1] = r[j]
    BY <1>2, <1>3
  <2> HIDE DEF j
  <2>3. h[r[j + 1]].prev = r[j]
    BY <1>1, <2>1
  <2>. QED
    BY <2>1, <2>2, <2>3
<1>10. Row(held, n, s, 0)
    BY <1>1, <1>4, <1>5, <1>6, <1>7 DEF Row
<1>. QED
    BY <1>8, <1>9, <1>10 DEF s

\* A row has the nodes of the list.
LEMMA RowElements ==
    ASSUME NEW held, NEW n, NEW r, NEW lo, Row(held, n, r, lo)
    PROVE  Elements([i \in 1 .. n |-> r[i]]) = held
<1> DEFINE w == [i \in 1 .. n |-> r[i]]
<1>1. /\ \A i \in 1 .. n : r[i] \in held
      /\ \A a \in held : \E i \in 1 .. n : r[i] = a
    BY DEF Row
<1>2. DOMAIN w = 1 .. n /\ \A i \in 1 .. n : w[i] = r[i]
    OBVIOUS
<1> HIDE DEF w
<1>3. Elements(w) = held
    BY <1>1, <1>2 DEF Elements
<1>. QED
    BY <1>3 DEF w

\* What is allocated is what a walk meets, both ways and while it is freed.
THEOREM NothingIsLeaked == Spec => []NothingLeaked
<1>1. IInv => NothingLeaked
  <2> SUFFICES ASSUME IInv PROVE NothingLeaked
    OBVIOUS
  <2>0. Held \in SUBSET Nodes
    BY HeldNodes DEF IInv
  <2>1. ASSUME pc = "ready"
        PROVE  /\ Elements(Walk(nexts, llIterNext(SENT))) = Held
               /\ Elements(Walk(prevs, llIterPrev(SENT))) = Held
    <3>1. PICK n, r : Ring(heap, Held, n, r)
      BY <2>1 DEF IInv, Linked
    <3>2. /\ Row(Held, n, r, 0) /\ n \in Nat
          /\ \A i \in 0 .. n + 1 : r[i] \in Addrs
          /\ heap[SENT].next = r[1]
          /\ \A i \in 1 .. n : heap[r[i]].next = r[i + 1]
      BY <3>1 DEF Ring, Row
    <3>3. \A i \in 1 .. n : nexts[r[i]] = r[i + 1]
      BY <3>2 DEF nexts
    <3>4. Walk(nexts, r[1]) = [i \in 1 .. n |-> r[i]]
      <4>1. Row(Held, n, r, 0)
        BY <3>2
      <4>. QED
        BY <2>0, <3>3, <4>1, WalkOfRow
    <3>5. Elements(Walk(nexts, llIterNext(SENT))) = Held
      BY <3>2, <3>4, RowElements DEF llIterNext
    <3> DEFINE s == Reversed(n, r)
    <3>6. /\ Row(Held, n, s, 0)
          /\ s[1] = heap[SENT].prev
          /\ \A i \in 1 .. n : heap[s[i]].prev = s[i + 1]
      BY <3>1, ReversedRow
    <3> HIDE DEF s
    <3>7. \A i \in 1 .. n : s[i] \in Addrs
      BY <3>2, <3>6 DEF Row
    <3>8. \A i \in 1 .. n : prevs[s[i]] = s[i + 1]
      BY <3>6, <3>7 DEF prevs
    <3>9. Walk(prevs, s[1]) = [i \in 1 .. n |-> s[i]]
      BY <2>0, <3>6, <3>8, WalkOfRow
    <3>. QED
      BY <3>5, <3>6, <3>9, RowElements DEF llIterPrev
  <2>2. ASSUME pc \in {"clear", "destroy"} PROVE Elements(Walk(nexts, it)) = Held
    <3>1. PICK n, r : Rest(heap, Held, n, r) /\ it = r[1]
      BY <2>2 DEF IInv, Linked
    <3>2. /\ Row(Held, n, r, 1) /\ n \in Nat
          /\ \A i \in 1 .. n : r[i] \in Addrs
          /\ \A i \in 1 .. n : heap[r[i]].next = r[i + 1]
      BY <3>1 DEF Rest, Row
    <3>3. \A i \in 1 .. n : nexts[r[i]] = r[i + 1]
      BY <3>2 DEF nexts
    <3>4. Walk(nexts, r[1]) = [i \in 1 .. n |-> r[i]]
      <4>1. Row(Held, n, r, 1)
        BY <3>2
      <4>. QED
        BY <2>0, <3>3, <4>1, WalkOfRow
    <3>. QED
      BY <3>1, <3>2, <3>4, RowElements
  <2>. QED
    BY <2>1, <2>2 DEF NothingLeaked, IInv, Linked
<1>. QED
    BY <1>1, Invariance, PTL

-----------------------------------------------------------------------------
(* What the header promises.                                               *)

\* The sequence of the nodes of a ring.
Along(n, r) == [i \in 1 .. n |-> r[i]]

\* The sequence s has the n nodes of r, in that order.
Lists(s, n, r) == s \in Seq(Nodes) /\ Len(s) = n /\ \A i \in 1 .. n : s[i] = r[i]

\* It has every node once.
LEMMA SequenceOfRing ==
    ASSUME NEW h, NEW held \in SUBSET Nodes, NEW n, NEW r, Ring(h, held, n, r)
    PROVE  Lists(Along(n, r), n, r) /\ Elements(Along(n, r)) = held
<1>1. Row(held, n, r, 0) /\ n \in Nat /\ \A i \in 1 .. n : r[i] \in Nodes
    BY DEF Ring, Row
<1>2. Elements(Along(n, r)) = held
    BY <1>1, RowElements DEF Along
<1>. QED
    BY <1>1, <1>2 DEF Along, Lists

\* A walk finds it.
LEMMA WalkOfRing ==
    ASSUME NEW h, NEW held \in SUBSET Nodes, NEW n, NEW r, Ring(h, held, n, r)
    PROVE  Walk([a \in Addrs |-> h[a].next], h[SENT].next) = Along(n, r)
<1>1. /\ Row(held, n, r, 0) /\ n \in Nat
      /\ \A i \in 0 .. n + 1 : r[i] \in Addrs
      /\ h[SENT].next = r[1]
      /\ \A i \in 1 .. n : h[r[i]].next = r[i + 1]
    BY DEF Ring, Row
<1> DEFINE links == [a \in Addrs |-> h[a].next]
<1>2. \A i \in 1 .. n : links[r[i]] = r[i + 1]
    BY <1>1
<1> HIDE DEF links
<1>3. Walk(links, r[1]) = [i \in 1 .. n |-> r[i]]
  <2>1. Row(held, n, r, 0)
    BY <1>1
  <2>. QED
    BY <1>2, <2>1, WalkOfRow
<1>. QED
    BY <1>1, <1>3 DEF links, Along

\* There is one such sequence only.
LEMMA SameSequence ==
    ASSUME NEW s, NEW t, NEW n, NEW r, Lists(s, n, r), Lists(t, n, r)
    PROVE  s = t
    BY DEF Lists

\* Insertion at a place of the sequence is insertion at that place of the ring.
LEMMA InsertedAt ==
    ASSUME NEW n \in Nat, NEW r, NEW s, Lists(s, n, r), NEW p \in 1 .. n + 1, NEW node \in Nodes
    PROVE  Lists(List!InsertAt(s, p, node), n + 1, Insertion(n, r, p, node))
<1>0. s \in Seq(Nodes) /\ Len(s) = n /\ \A i \in 1 .. n : s[i] = r[i]
    BY DEF Lists
<1> DEFINE a == SubSeq(s, 1, p - 1)
           b == SubSeq(s, p, Len(s))
<1>1. a \in Seq(Nodes) /\ Len(a) = p - 1 /\ \A i \in 1 .. p - 1 : a[i] = s[i]
    BY <1>0
<1>2. b \in Seq(Nodes) /\ Len(b) = n + 1 - p /\ \A i \in 1 .. n + 1 - p : b[i] = s[p + i - 1]
    BY <1>0
<1>3. List!InsertAt(s, p, node) = (a \o <<node>>) \o b
    BY DEF List!InsertAt
<1> HIDE DEF a, b
<1> DEFINE c == a \o <<node>>
<1>4. c \in Seq(Nodes) /\ Len(c) = p
    BY <1>1
<1>5. \A i \in 1 .. p : c[i] = IF i < p THEN s[i] ELSE node
    BY <1>1
<1> HIDE DEF c
<1>6. c \o b \in Seq(Nodes) /\ Len(c \o b) = n + 1
    BY <1>2, <1>4
<1>7. \A i \in 1 .. n + 1 : (c \o b)[i] = IF i <= p THEN c[i] ELSE b[i - p]
    BY <1>2, <1>4
<1>8. ASSUME NEW i \in 1 .. n + 1
      PROVE  (c \o b)[i] = IF i < p THEN s[i] ELSE IF i = p THEN node ELSE s[i - 1]
  <2>1. CASE i <= p
    <3>1. i \in 1 .. p /\ (~(i < p) => i = p)
      BY <2>1
    <3>2. (c \o b)[i] = c[i]
      BY <1>7, <2>1
    <3>3. c[i] = IF i < p THEN s[i] ELSE node
      BY <1>5, <3>1
    <3>. QED
      BY <3>1, <3>2, <3>3
  <2>2. CASE ~(i <= p)
    <3>1. i - p \in 1 .. n + 1 - p /\ p + (i - p) - 1 = i - 1 /\ ~(i < p) /\ i # p
      BY <2>2
    <3>2. (c \o b)[i] = b[i - p]
      BY <1>7, <2>2
    <3> DEFINE k == i - p
    <3>3. k \in 1 .. n + 1 - p /\ p + k - 1 = i - 1
      BY <3>1
    <3> HIDE DEF k
    <3>4. b[k] = s[p + k - 1]
      BY <1>2, <3>3
    <3>. QED
      BY <3>1, <3>2, <3>3, <3>4 DEF k
  <2>. QED
    BY <2>1, <2>2
<1>9. ASSUME NEW i \in 1 .. n + 1
      PROVE  (c \o b)[i] = Insertion(n, r, p, node)[i]
  <2>1. i \in 0 .. n + 2 /\ (i < p => i \in 1 .. n) /\ (~(i < p) /\ i # p => i - 1 \in 1 .. n)
    OBVIOUS
  <2>2. Insertion(n, r, p, node)[i] = IF i < p THEN r[i] ELSE IF i = p THEN node ELSE r[i - 1]
    BY <2>1 DEF Insertion
  <2>. QED
    BY <1>0, <1>8, <2>1, <2>2
<1>. QED
    BY <1>3, <1>6, <1>9 DEF c, Lists

\* The same for a removal.
LEMMA RemovedAt ==
    ASSUME NEW n \in Nat, NEW r, NEW s, Lists(s, n, r), NEW p \in 1 .. n
    PROVE  Lists(List!RemoveAt(s, p), n - 1, Erasure(n, r, p))
<1>0. s \in Seq(Nodes) /\ Len(s) = n /\ \A i \in 1 .. n : s[i] = r[i]
    BY DEF Lists
<1> DEFINE a == SubSeq(s, 1, p - 1)
           b == SubSeq(s, p + 1, Len(s))
<1>1. a \in Seq(Nodes) /\ Len(a) = p - 1 /\ \A i \in 1 .. p - 1 : a[i] = s[i]
    BY <1>0
<1>2. b \in Seq(Nodes) /\ Len(b) = n - p /\ \A i \in 1 .. n - p : b[i] = s[p + i]
    BY <1>0
<1>3. List!RemoveAt(s, p) = a \o b
    BY DEF List!RemoveAt
<1> HIDE DEF a, b
<1>6. a \o b \in Seq(Nodes) /\ Len(a \o b) = n - 1
    BY <1>1, <1>2
<1>7. \A i \in 1 .. n - 1 : (a \o b)[i] = IF i <= p - 1 THEN a[i] ELSE b[i - (p - 1)]
    BY <1>1, <1>2
<1>8. ASSUME NEW i \in 1 .. n - 1
      PROVE  (a \o b)[i] = IF i < p THEN s[i] ELSE s[i + 1]
  <2>1. CASE i < p
    BY <1>1, <1>7, <2>1
  <2>2. CASE ~(i < p)
    <3>1. i - (p - 1) \in 1 .. n - p /\ p + (i - (p - 1)) = i + 1 /\ ~(i <= p - 1)
      BY <2>2
    <3>. QED
      BY <1>2, <1>7, <2>2, <3>1
  <2>. QED
    BY <2>1, <2>2
<1>9. ASSUME NEW i \in 1 .. n - 1
      PROVE  (a \o b)[i] = Erasure(n, r, p)[i]
  <2>1. i \in 0 .. n /\ i \in 1 .. n /\ i + 1 \in 1 .. n
    OBVIOUS
  <2>2. Erasure(n, r, p)[i] = IF i < p THEN r[i] ELSE r[i + 1]
    BY <2>1 DEF Erasure
  <2>. QED
    BY <1>0, <1>8, <2>1, <2>2
<1>. QED
    BY <1>3, <1>6, <1>9 DEF Lists

\* The place of an iterator in the sequence is its place in the ring.
LEMMA PlaceInSequence ==
    ASSUME NEW n, NEW r, Held \in SUBSET Nodes, Ring(heap, Held, n, r), Shown = Along(n, r)
    PROVE  /\ List!ToSet(Shown) = Held /\ Elements(Shown) = Held
           /\ \A p \in 1 .. n + 1 : List!Before(r[p]) = p /\ List!At(p) = r[p]
<1>1. /\ Shown \in Seq(Nodes) /\ Len(Shown) = n /\ DOMAIN Shown = 1 .. n
      /\ \A i \in 1 .. n : Shown[i] = r[i]
      /\ Elements(Shown) = Held
  <2>1. Lists(Shown, n, r) /\ Elements(Shown) = Held
    BY SequenceOfRing
  <2>. QED
    BY <2>1 DEF Lists
<1>2. List!ToSet(Shown) = Held
    BY <1>1 DEF List!ToSet, Elements
<1>3. /\ n \in Nat /\ r[n + 1] = SENT
      /\ \A i \in 1 .. n : r[i] # SENT
    BY DEF Ring, Row, Held
<1>4. \A i, j \in 1 .. n + 1 : r[i] = r[j] => i = j
    BY PlacesDiffer
<1>5. ASSUME NEW p \in 1 .. n + 1 PROVE List!Before(r[p]) = p /\ List!At(p) = r[p]
  <2>1. CASE p = n + 1
    BY <1>1, <1>3, <2>1 DEF List!Before, List!At
  <2>2. CASE p \in 1 .. n
    <3>1. r[p] # SENT /\ p \in DOMAIN Shown /\ Shown[p] = r[p]
      BY <1>1, <1>3, <2>2
    <3>2. \A k \in DOMAIN Shown : Shown[k] = r[p] => k = p
      <4>1. ASSUME NEW k \in 1 .. n, Shown[k] = r[p] PROVE k = p
        <5>1. k \in 1 .. n + 1 /\ r[k] = r[p]
          BY <1>1, <1>3, <4>1
        <5>. QED
          BY <1>4, <5>1
      <4>. QED
        BY <1>1, <4>1
    <3>3. (CHOOSE k \in DOMAIN Shown : Shown[k] = r[p]) = p
      BY <3>1, <3>2
    <3>. QED
      BY <3>1, <3>3 DEF List!Before, List!At
  <2>. QED
    BY <1>3, <2>1, <2>2
<1>. QED
    BY <1>1, <1>2, <1>5

\* What a list that is ready shows.
LEMMA ShownNow ==
    ASSUME IInv, pc = "ready", NEW n, NEW r, Ring(heap, Held, n, r)
    PROVE  Shown = Along(n, r) /\ Held \in SUBSET Nodes
<1>1. Held \in SUBSET Nodes
    BY HeldNodes DEF IInv
<1>. QED
    BY <1>1, WalkOfRing DEF Shown, nexts, llBegin, llIterNext

\* And what it shows after a step.
LEMMA ShownNext ==
    ASSUME IInv', pc' = "ready", NEW n, NEW r, Ring(heap', Held', n, r)
    PROVE  /\ Shown' = Along(n, r)
           /\ Lists(Along(n, r), n, r) /\ Elements(Shown)' = Held'
<1>1. Held' \in SUBSET Nodes
    BY DEF IInv, TypeOK, Held, Addrs
<1>2. Walk([a \in Addrs |-> heap'[a].next], heap'[SENT].next) = Along(n, r)
    BY <1>1, WalkOfRing
<1>3. Lists(Along(n, r), n, r) /\ Elements(Along(n, r)) = Held'
    BY <1>1, SequenceOfRing
<1>4. Shown' = Along(n, r)
    BY <1>2 DEF Shown, nexts, llBegin, llIterNext
<1>. QED
    BY <1>3, <1>4

\* Where the first, the last and the neighbours of an iterator are in the
\* sequence, and what its values are.
LEMMA PlacesShown ==
    ASSUME IInv, pc = "ready"
    PROVE  /\ Shown = Walk(nexts, llBegin) /\ List!ToSet(Shown) = Held
           /\ (llIsEmpty <=> Shown = <<>>) /\ (llIsEmpty <=> Len(Shown) = 0)
           /\ llBegin = List!At(1)
           /\ ~llIsEmpty => llIterPrev(llEnd) = List!At(Len(Shown))
           /\ \A a \in Held : Meant[a] = heap[a].data
           /\ \A a \in Held : llIterNext(a) = List!At(List!Before(a) + 1)
           /\ \A a \in Held \union {SENT} :
                 a # llBegin => llIterPrev(a) = List!At(List!Before(a) - 1)
<1>1. PICK n, r : Ring(heap, Held, n, r)
    BY DEF IInv, Linked
<1>2. Shown = Along(n, r) /\ Held \in SUBSET Nodes
    BY <1>1, ShownNow
<1>3. /\ List!ToSet(Shown) = Held /\ Elements(Shown) = Held
      /\ \A p \in 1 .. n + 1 : List!Before(r[p]) = p /\ List!At(p) = r[p]
    BY <1>1, <1>2, PlaceInSequence
<1>4. /\ n \in Nat /\ r[0] = SENT /\ r[n + 1] = SENT
      /\ \A i \in 1 .. n : r[i] \in Held
      /\ \A i \in 0 .. n : heap[r[i]].next = r[i + 1] /\ heap[r[i + 1]].prev = r[i]
    BY <1>1 DEF Ring, Row
<1>5. Shown \in Seq(Nodes) /\ Len(Shown) = n
  <2>1. Lists(Shown, n, r)
    BY <1>1, <1>2, SequenceOfRing
  <2>. QED
    BY <2>1 DEF Lists
<1>6. 1 \in 1 .. n + 1 /\ 0 \in 0 .. n /\ 0 + 1 = 1 /\ n \in 0 .. n
    BY <1>4
<1>7. llBegin = r[1] /\ llIterPrev(llEnd) = r[n]
    BY <1>4, <1>6 DEF llBegin, llEnd, llIterNext, llIterPrev
<1>8. llIsEmpty <=> n = 0
  <2>1. n # 0 => r[1] # SENT
    BY <1>4 DEF Held
  <2>2. n = 0 => r[1] = SENT
    BY <1>4
  <2>. QED
    BY <1>7, <2>1, <2>2 DEF llIsEmpty, llEnd
<1>9. Shown = <<>> <=> n = 0
    BY <1>5
<1>10. n # 0 => r[n] = List!At(Len(Shown))
  <2>1. n # 0 => n \in 1 .. n + 1
    BY <1>4
  <2>. QED
    BY <1>3, <1>5, <2>1
<1>11. \A a \in Held : Meant[a] = heap[a].data
    BY <1>3 DEF Meant
<1>12. ASSUME NEW a \in Held PROVE llIterNext(a) = List!At(List!Before(a) + 1)
  <2>1. PICK p \in 1 .. n + 1 : r[p] = a
    BY <1>1, <1>2, PlaceOf
  <2>2. p # n + 1
    BY <1>4, <1>12, <2>1 DEF Held
  <2>3. p \in 0 .. n /\ p + 1 \in 1 .. n + 1
    BY <1>4, <2>2
  <2>. QED
    BY <1>3, <1>4, <2>1, <2>3 DEF llIterNext
<1>13. ASSUME NEW a \in Held \union {SENT}, a # llBegin
       PROVE  llIterPrev(a) = List!At(List!Before(a) - 1)
  <2>1. PICK p \in 1 .. n + 1 : r[p] = a
    BY <1>1, <1>2, PlaceOf
  <2>2. p # 1
    BY <1>7, <1>13, <2>1
  <2>3. p - 1 \in 0 .. n /\ p - 1 \in 1 .. n + 1 /\ (p - 1) + 1 = p
    BY <1>4, <2>2
  <2>4. heap[r[p]].prev = r[p - 1]
    BY <1>4, <2>3
  <2>. QED
    BY <1>3, <2>1, <2>3, <2>4 DEF llIterPrev
<1>14. Shown = Walk(nexts, llBegin)
    BY DEF Shown
<1>15. llBegin = List!At(1)
    BY <1>3, <1>6, <1>7
<1>16. Len(Shown) = 0 <=> n = 0
    BY <1>5
<1>. QED
    BY <1>3, <1>7, <1>8, <1>9, <1>10, <1>11, <1>12, <1>13, <1>14, <1>15, <1>16

\* Without a list there is nothing to see.
LEMMA NothingShown ==
    /\ pc # "ready" => Shown = <<>> /\ Meant = List!NoValue
    /\ pc' # "ready" => Shown' = <<>> /\ Meant' = List!NoValue
<1>1. Elements(<<>>) = {}
    BY DEF Elements
<1>. QED
    BY <1>1 DEF Shown, Meant, List!NoValue

\* While the list is ready the caller has it.
LEMMA CalledRefines ==
    ASSUME NEW c, Called(c), pc' = "ready"
    PROVE  List!Called(c)
    BY DEF Called, List!Called, Handle

\* What only looks changes nothing that is shown.
LEMMA SameShown ==
    UNCHANGED <<heap, allocated, pc, it>> =>
        Shown' = Shown /\ Meant' = Meant /\ Handle' = Handle
    BY DEF Shown, Meant, Handle, nexts, llBegin, llIterNext

\* It returns what it should.
LEMMA ReturnsRefines ==
    ASSUME NEW x, Returns(x)
    PROVE  List!Answer(x)
    BY SameShown DEF Returns, List!Answer

\* llInsert() inserts where it should, and the values of the others stay.
LEMMA insertRefines ==
    ASSUME IInv, IInv', pc = "ready", NEW v \in Values, NEW before \in Held \union {SENT},
           insert(before, v)
    PROVE  List!Insert(before, v) /\ pc' = "ready"
<1>0. CASE noMemory
    BY <1>0, SameShown DEF noMemory, List!Insert
<1> SUFFICES ASSUME ~noMemory PROVE List!Insert(before, v) /\ pc' = "ready"
    BY <1>0
<1>1. PICK node, n, r, p :
          /\ node \in Nodes \ Held /\ p \in 1 .. n + 1
          /\ Ring(heap, Held, n, r) /\ r[p] = before
          /\ Held' = Held \union {node}
          /\ Ring(heap', Held', n + 1, Insertion(n, r, p, node))
          /\ result' = node
          /\ \A a \in Addrs : heap'[a].data = IF a = node THEN v ELSE heap[a].data
    BY insertRing
<1>2. pc' = "ready" /\ n \in Nat
    BY <1>1 DEF insert, Ring, Row
<1>3. Shown = Along(n, r) /\ Held \in SUBSET Nodes
    BY <1>1, <1>2, ShownNow
<1>4. /\ List!ToSet(Shown) = Held /\ Elements(Shown) = Held /\ List!Before(before) = p
    BY <1>1, <1>3, PlaceInSequence
<1>5. Lists(Shown, n, r)
    BY <1>1, <1>3, SequenceOfRing
<1> DEFINE q == Insertion(n, r, p, node)
           s == List!InsertAt(Shown, p, node)
<1>6. Lists(s, n + 1, q)
    BY <1>1, <1>2, <1>5, InsertedAt
<1> HIDE DEF q, s
<1>7. Shown' = Along(n + 1, q) /\ Lists(Along(n + 1, q), n + 1, q) /\ Elements(Shown)' = Held'
    BY <1>1, <1>2, ShownNext DEF q
<1>8. Shown' = s
    BY <1>6, <1>7, SameSequence
<1>9. Meant' = [x \in DOMAIN Meant \union {node} |-> IF x = node THEN v ELSE Meant[x]]
  <2>1. DOMAIN Meant = Held /\ \A x \in Held : Meant[x] = heap[x].data
    BY <1>4 DEF Meant
  <2>2. Meant' = [x \in Held' |-> heap'[x].data]
    BY <1>7 DEF Meant
  <2>3. \A x \in Held' : heap'[x].data = IF x = node THEN v ELSE Meant[x]
    BY <1>1, <1>3, <2>1 DEF Addrs
  <2>. QED
    BY <1>1, <2>1, <2>2, <2>3
<1>10. List!Insert(before, v)
  <2>1. Shown' = List!InsertAt(Shown, List!Before(before), node)
    BY <1>4, <1>8 DEF s
  <2>2. node \in Nodes \ List!ToSet(Shown)
    BY <1>1, <1>4
  <2>. QED
    BY <1>1, <1>9, <2>1, <2>2 DEF List!Insert
<1>. QED
    BY <1>2, <1>10

\* llErase() removes what it should.
LEMMA eraseRefines ==
    ASSUME IInv, IInv', pc = "ready", NEW node \in Held, erase(node)
    PROVE  List!Erase(node) /\ pc' = "ready"
<1>1. PICK n, r, p :
          /\ p \in 1 .. n
          /\ Ring(heap, Held, n, r) /\ r[p] = node
          /\ Held' = Held \ {node}
          /\ Ring(heap', Held', n - 1, Erasure(n, r, p))
          /\ \A a \in Addrs \ {node} : heap'[a].data = heap[a].data
    BY eraseRing
<1>2. pc' = "ready" /\ n \in Nat
    BY <1>1 DEF erase, Ring, Row
<1>3. Shown = Along(n, r) /\ Held \in SUBSET Nodes
    BY <1>1, <1>2, ShownNow
<1>4. /\ List!ToSet(Shown) = Held /\ Elements(Shown) = Held
      /\ List!Before(node) = p
  <2>1. p \in 1 .. n + 1
    BY <1>1, <1>2
  <2>. QED
    BY <1>1, <1>3, <2>1, PlaceInSequence
<1>5. Lists(Shown, n, r)
    BY <1>1, <1>3, SequenceOfRing
<1> DEFINE q == Erasure(n, r, p)
           s == List!RemoveAt(Shown, p)
<1>6. Lists(s, n - 1, q)
    BY <1>1, <1>2, <1>5, RemovedAt
<1> HIDE DEF q, s
<1>7. Shown' = Along(n - 1, q) /\ Lists(Along(n - 1, q), n - 1, q) /\ Elements(Shown)' = Held'
    BY <1>1, <1>2, ShownNext DEF q
<1>8. Shown' = s
    BY <1>6, <1>7, SameSequence
<1>9. Meant' = [x \in DOMAIN Meant \ {node} |-> Meant[x]]
  <2>1. DOMAIN Meant = Held /\ \A x \in Held : Meant[x] = heap[x].data
    BY <1>4 DEF Meant
  <2>2. Meant' = [x \in Held' |-> heap'[x].data]
    BY <1>7 DEF Meant
  <2>3. \A x \in Held' : heap'[x].data = Meant[x]
    BY <1>1, <1>3, <2>1 DEF Addrs
  <2>. QED
    BY <1>1, <2>1, <2>2, <2>3
<1>10. Shown' = List!RemoveAt(Shown, List!Before(node))
    BY <1>4, <1>8 DEF s
<1>. QED
    BY <1>2, <1>9, <1>10 DEF List!Erase

\* A value written through an iterator is the value of that iterator.
LEMMA assignRefines ==
    ASSUME IInv, IInv', NEW node \in Held, NEW v \in Values, assign(node, v)
    PROVE  List!Assign(node, v) /\ pc' = "ready"
<1>1. PICK n, r : Ring(heap, Held, n, r)
    BY DEF assign, Called, IInv, Linked
<1>2. Shown = Along(n, r) /\ Held \in SUBSET Nodes /\ heap \in [Addrs -> Cells]
    BY <1>1, ShownNow DEF assign, Called, IInv, TypeOK
<1>3. List!ToSet(Shown) = Held /\ Elements(Shown) = Held
    BY <1>1, <1>2, PlaceInSequence
<1>4. /\ pc' = "ready" /\ Held' = Held /\ result' = NULL
      /\ heap' = [heap EXCEPT ![node].data = v] /\ node \in Addrs
      /\ Held \subseteq Addrs
    BY <1>2 DEF assign, Called, Held, Addrs
<1>5. /\ \A a \in Addrs : heap'[a].next = heap[a].next /\ heap'[a].prev = heap[a].prev
      /\ \A a \in Addrs : heap'[a].data = IF a = node THEN v ELSE heap[a].data
    BY <1>2, <1>4 DEF Cells
<1>6. Ring(heap', Held', n, r)
  <2>1. Ring(heap', Held, n, r)
    BY <1>1, <1>5, SameLinks
  <2>. QED
    BY <1>4, <2>1
<1>7. Shown' = Along(n, r) /\ Elements(Shown)' = Held'
    BY <1>4, <1>6, ShownNext
<1>8. Meant' = [Meant EXCEPT ![node] = v]
  <2>1. Meant = [x \in Held |-> heap[x].data]
    BY <1>3 DEF Meant
  <2>2. Meant' = [x \in Held |-> heap'[x].data]
    BY <1>4, <1>7 DEF Meant
  <2>3. \A x \in Held : heap'[x].data = IF x = node THEN v ELSE heap[x].data
    BY <1>4, <1>5
  <2>. QED
    BY <2>1, <2>2, <2>3
<1>. QED
    BY <1>2, <1>4, <1>7, <1>8 DEF List!Assign

\* A list that is created or cleared is empty.
LEMMA EmptyShown ==
    ASSUME IInv', pc' = "ready", Held' = {}
    PROVE  Shown' = <<>> /\ Meant' = List!NoValue
<1>1. PICK n, r : Ring(heap', Held', n, r)
    BY DEF IInv, Linked
<1>2. Shown' = Along(n, r) /\ Lists(Along(n, r), n, r) /\ Elements(Shown)' = Held'
    BY <1>1, ShownNext
<1>3. n = 0
    BY <1>1 DEF Ring, Row
<1>4. Shown' = <<>>
    BY <1>2, <1>3 DEF Lists
<1>5. Meant' = List!NoValue
    BY <1>2 DEF Meant, List!NoValue
<1>. QED
    BY <1>4, <1>5

\* Every step is one of the calls, with its arguments, and does and returns what
\* the header promises of it, or shows nothing.
LEMMA StepRefines == IInv /\ IInv' /\ [Next]_vars => List!Next \/ UNCHANGED List!vars
<1> SUFFICES ASSUME IInv, IInv', [Next]_vars PROVE List!Next \/ UNCHANGED List!vars
    OBVIOUS
<1>0. allocated \subseteq Held \union {SENT} /\ Held \subseteq allocated
    BY DEF Held
<1>1. pc = "ready" =>
          /\ llBegin \in Held \union {SENT} /\ llEnd \in Held \union {SENT} /\ llEnd = SENT
          /\ ~llIsEmpty => llBegin \in Held /\ llIterPrev(llEnd) \in Held
    BY Ends DEF IInv, llEnd
<1>2. pc = "ready" =>
          /\ Shown = Walk(nexts, llBegin) /\ List!ToSet(Shown) = Held
          /\ (llIsEmpty <=> Shown = <<>>) /\ (llIsEmpty <=> Len(Shown) = 0)
          /\ llBegin = List!At(1)
          /\ ~llIsEmpty => llIterPrev(llEnd) = List!At(Len(Shown))
    BY PlacesShown
<1>3. pc = "ready" =>
          /\ \A a \in Held : Meant[a] = heap[a].data
          /\ \A a \in Held : llIterNext(a) = List!At(List!Before(a) + 1)
          /\ \A a \in Held \union {SENT} :
                a # llBegin => llIterPrev(a) = List!At(List!Before(a) - 1)
    BY PlacesShown
<1>4. CASE llCreateWithAllocator
  <2>1. CASE noMemory
    <3>1. pc = "none" /\ pc' = "none" /\ call' = <<"llCreate">> /\ result' = NULL
      BY <1>4, <2>1 DEF llCreateWithAllocator, noMemory
    <3>2. Shown' = Shown /\ Meant' = Meant /\ Handle = NULL /\ Handle' = NULL
      BY <2>1, <3>1, SameShown DEF noMemory, Handle
    <3>. QED
      BY <3>1, <3>2 DEF List!Create, List!Next
  <2>2. CASE ~noMemory
    <3>1. /\ pc = "none" /\ pc' = "ready" /\ call' = <<"llCreate">> /\ result' = SENT
          /\ Held' = {}
      BY <1>4, <2>2 DEF llCreateWithAllocator, Held, IInv, Linked
    <3>2. Shown' = Shown /\ Meant' = Meant
      BY <3>1, EmptyShown, NothingShown
    <3>3. Handle = NULL /\ Handle' = SENT
      BY <3>1 DEF Handle
    <3>. QED
      BY <3>1, <3>2, <3>3 DEF List!Create, List!Next
  <2>. QED
    BY <2>1, <2>2
<1>5. ASSUME NEW v \in Values,
             llAppend(v) \/ llPrepend(v) \/ \E node \in allocated : llInsert(node, v)
      PROVE  List!Next
  <2>1. CASE llAppend(v)
    <3>1. pc = "ready" /\ Called(<<"llAppend", v>>) /\ insert(SENT, v)
      BY <1>1, <2>1 DEF llAppend, Called
    <3>2. List!Insert(SENT, v) /\ pc' = "ready"
      BY <3>1, insertRefines
    <3>3. List!Called(<<"llAppend", v>>)
      BY <3>1, <3>2, CalledRefines
    <3>. QED
      BY <3>2, <3>3 DEF List!Insertions, List!Next
  <2>2. CASE llPrepend(v)
    <3>1. pc = "ready" /\ Called(<<"llPrepend", v>>) /\ insert(llBegin, v)
      BY <2>2 DEF llPrepend, Called
    <3>2. List!Insert(llBegin, v) /\ pc' = "ready"
      BY <1>1, <3>1, insertRefines
    <3>3. List!Called(<<"llPrepend", v>>)
      BY <3>1, <3>2, CalledRefines
    <3>4. List!Insert(List!At(1), v)
      BY <1>2, <3>1, <3>2
    <3>. QED
      BY <3>3, <3>4 DEF List!Insertions, List!Next
  <2>3. ASSUME NEW node \in allocated, llInsert(node, v) PROVE List!Next
    <3>1. pc = "ready" /\ Called(<<"llInsert", node, v>>) /\ insert(node, v)
      BY <2>3 DEF llInsert, Called
    <3>2. List!Insert(node, v) /\ pc' = "ready"
      BY <1>0, <3>1, insertRefines
    <3>3. List!Called(<<"llInsert", node, v>>)
      BY <3>1, <3>2, CalledRefines
    <3>4. node \in List!ToSet(Shown) \union {SENT}
      BY <1>0, <1>2, <3>1
    <3>. QED
      BY <3>2, <3>3, <3>4 DEF List!Insertions, List!Next
  <2>. QED
    BY <1>5, <2>1, <2>2, <2>3
<1>6. ASSUME NEW v \in Values, NEW node \in Held, assign(node, v) PROVE List!Next
  <2>1. pc = "ready" /\ Called(<<"assign", node, v>>)
    BY <1>6 DEF assign, Called
  <2>2. List!Assign(node, v) /\ pc' = "ready"
    BY <1>6, assignRefines
  <2>3. List!Called(<<"assign", node, v>>)
    BY <2>1, <2>2, CalledRefines
  <2>. QED
    BY <1>2, <2>1, <2>2, <2>3 DEF List!Next
<1>7. ASSUME NEW node \in Held, llErase(node) PROVE List!Next
  <2>1. pc = "ready" /\ Called(<<"llErase", node>>) /\ erase(node) /\ result' = llIterNext(node)
    BY <1>7 DEF llErase, Called
  <2>2. List!Erase(node) /\ pc' = "ready"
    BY <2>1, eraseRefines
  <2>3. List!Called(<<"llErase", node>>)
    BY <2>1, <2>2, CalledRefines
  <2>4. result' = List!At(List!Before(node) + 1) /\ node \in List!ToSet(Shown)
    BY <1>2, <1>3, <2>1
  <2>. QED
    BY <2>2, <2>3, <2>4 DEF List!Erasures, List!Next
<1>8. CASE llPopBack
  <2>1. /\ pc = "ready" /\ Called(<<"llPopBack">>) /\ ~llIsEmpty
        /\ erase(llIterPrev(llEnd)) /\ result' = NULL
    BY <1>8 DEF llPopBack, Called
  <2>2. List!Erase(llIterPrev(llEnd)) /\ pc' = "ready"
    BY <1>1, <2>1, eraseRefines
  <2>3. List!Called(<<"llPopBack">>)
    BY <2>1, <2>2, CalledRefines
  <2>4. List!Erase(List!At(Len(Shown))) /\ Shown # <<>>
    BY <1>2, <2>1, <2>2
  <2>. QED
    BY <2>1, <2>3, <2>4 DEF List!Erasures, List!Next
<1>9. CASE llPopFront
  <2>1. /\ pc = "ready" /\ Called(<<"llPopFront">>) /\ ~llIsEmpty
        /\ erase(llBegin) /\ result' = NULL
    BY <1>9 DEF llPopFront, Called
  <2>2. List!Erase(llBegin) /\ pc' = "ready"
    BY <1>1, <2>1, eraseRefines
  <2>3. List!Called(<<"llPopFront">>)
    BY <2>1, <2>2, CalledRefines
  <2>4. List!Erase(List!At(1)) /\ Shown # <<>>
    BY <1>2, <2>1, <2>2
  <2>. QED
    BY <2>1, <2>3, <2>4 DEF List!Erasures, List!Next
<1>10. ASSUME NEW c, NEW x, Called(c), Returns(x)
       PROVE  pc = "ready" /\ List!Called(c) /\ List!Answer(x)
    BY <1>10, CalledRefines, ReturnsRefines DEF Called, Returns
<1>11. CASE iterate
  <2>1. CASE Called(<<"llBegin">>) /\ Returns(llBegin)
    <3>1. List!Called(<<"llBegin">>) /\ List!Answer(List!At(1))
      BY <1>2, <1>10, <2>1
    <3>. QED
      BY <3>1 DEF List!Iterations, List!Next
  <2>2. CASE Called(<<"llEnd">>) /\ Returns(llEnd)
    <3>1. List!Called(<<"llEnd">>) /\ List!Answer(SENT)
      BY <1>1, <1>10, <2>2
    <3>. QED
      BY <3>1 DEF List!Iterations, List!Next
  <2>3. ASSUME NEW node \in Held, Called(<<"llIterNext", node>>), Returns(llIterNext(node))
        PROVE  List!Next
    <3>1. /\ List!Called(<<"llIterNext", node>>)
          /\ List!Answer(List!At(List!Before(node) + 1))
          /\ node \in List!ToSet(Shown)
      BY <1>2, <1>3, <1>10, <2>3
    <3>. QED
      BY <3>1 DEF List!Iterations, List!Next
  <2>4. ASSUME NEW node \in allocated, node # llBegin,
               Called(<<"llIterPrev", node>>), Returns(llIterPrev(node))
        PROVE  List!Next
    <3>1. /\ List!Called(<<"llIterPrev", node>>)
          /\ List!Answer(List!At(List!Before(node) - 1))
          /\ node \in List!ToSet(Shown) \union {SENT} /\ node # List!At(1)
      BY <1>0, <1>2, <1>3, <1>10, <2>4
    <3>. QED
      BY <3>1 DEF List!Iterations, List!Next
  <2>. QED
    BY <1>11, <2>1, <2>2, <2>3, <2>4 DEF iterate
<1>12. CASE query
  <2>1. ASSUME NEW node \in Held, Called(<<"llIterDeref", node>>), Returns(llIterDeref(node))
        PROVE  List!Next
    <3>1. /\ List!Called(<<"llIterDeref", node>>) /\ List!Answer(Meant[node])
          /\ node \in List!ToSet(Shown)
      BY <1>2, <1>3, <1>10, <2>1 DEF llIterDeref
    <3>. QED
      BY <3>1 DEF List!Queries, List!Next
  <2>2. CASE ~llIsEmpty /\ Called(<<"llFront">>) /\ Returns(llFront)
    <3>1. /\ List!Called(<<"llFront">>) /\ List!Answer(Meant[List!At(1)])
          /\ Shown # <<>>
      BY <1>1, <1>2, <1>3, <1>10, <2>2 DEF llFront, llIterDeref
    <3>. QED
      BY <3>1 DEF List!Queries, List!Next
  <2>3. CASE ~llIsEmpty /\ Called(<<"llBack">>) /\ Returns(llBack)
    <3>1. /\ List!Called(<<"llBack">>) /\ List!Answer(Meant[List!At(Len(Shown))])
          /\ Shown # <<>>
      BY <1>1, <1>2, <1>3, <1>10, <2>3 DEF llBack, llIterDeref
    <3>. QED
      BY <3>1 DEF List!Queries, List!Next
  <2>4. CASE Called(<<"llSize">>) /\ Returns(llSize)
    <3>1. List!Called(<<"llSize">>) /\ List!Answer(Len(Shown))
      BY <1>2, <1>10, <2>4 DEF llSize
    <3>. QED
      BY <3>1 DEF List!Queries, List!Next
  <2>5. CASE Called(<<"llIsEmpty">>) /\ Returns(IF llIsEmpty THEN 1 ELSE 0)
    <3>1. /\ List!Called(<<"llIsEmpty">>)
          /\ List!Answer(IF Len(Shown) = 0 THEN 1 ELSE 0)
      <4>1. (IF llIsEmpty THEN 1 ELSE 0) = (IF Len(Shown) = 0 THEN 1 ELSE 0)
        BY <1>2, <2>5 DEF Called
      <4>. QED
        BY <1>10, <2>5, <4>1
    <3>. QED
      BY <3>1 DEF List!Queries, List!Next
  <2>. QED
    BY <1>12, <2>1, <2>2, <2>3, <2>4, <2>5 DEF query
<1>13. CASE llClear
  <2>1. CASE call' = <<"llClear">> /\ beginDestroy("clear")
    <3>1. pc = "ready" /\ pc' = "clear" /\ result' = NULL /\ call' = <<"llClear">>
      BY <2>1 DEF beginDestroy
    <3>2. Handle = SENT /\ Handle' = SENT
      BY <3>1 DEF Handle
    <3>3. List!Called(<<"llClear">>) /\ List!Empty
      BY <3>1, <3>2, NothingShown DEF List!Called, List!Empty
    <3>. QED
      BY <3>3 DEF List!Next
  <2>2. CASE ~(call' = <<"llClear">> /\ beginDestroy("clear"))
    <3>1. /\ pc = "clear" /\ it = SENT /\ pc' = "ready" /\ allocated' = allocated
          /\ result' = result /\ call' = call
      BY <1>13, <2>2 DEF llClear
    <3>2. PICK n, r : Rest(heap, Held, n, r) /\ it = r[1]
      BY <3>1 DEF IInv, Linked
    <3>3. Held' = {}
      BY <3>1, <3>2, NothingRests DEF Held
    <3>4. Handle' = Handle
      BY <3>1 DEF Handle
    <3>. QED
      BY <3>1, <3>3, <3>4, EmptyShown, NothingShown DEF List!vars
  <2>. QED
    BY <2>1, <2>2
<1>14. CASE llDestroy
  <2>1. CASE call' = <<"llDestroy">> /\ pc' # "ready" /\ result' = NULL
             /\ (pc' = "destroy" \/ pc' = "none")
    <3>1. Handle' = NULL
      BY <2>1 DEF Handle
    <3>2. List!Empty
      BY <2>1, NothingShown DEF List!Empty
    <3>. QED
      BY <2>1, <3>1, <3>2 DEF List!Next
  <2>2. CASE pc = "destroy" /\ pc' = "none" /\ result' = result /\ call' = call
    BY <2>2, NothingShown DEF List!vars, Handle
  <2>. QED
    BY <1>14, <2>1, <2>2 DEF llDestroy, beginDestroy, Returns
<1>15. CASE destroyNode
  <2>1. /\ pc # "ready" /\ pc' # "ready" /\ result' = result /\ call' = call /\ pc' = pc
    BY <1>15 DEF destroyNode
  <2>. QED
    BY <2>1, NothingShown DEF List!vars, Handle
<1>16. CASE UNCHANGED vars
    BY <1>16, SameShown DEF vars, List!vars
<1>. QED
    BY <1>4, <1>5, <1>6, <1>7, <1>8, <1>9, <1>11, <1>12, <1>13, <1>14, <1>15, <1>16
    DEF Next

\* The pointers implement the sequence of the header.
THEOREM Refinement == Spec => ImplementsList
<1>1. Init => List!Init
  <2>1. Init => pc = "none" /\ call = <<>> /\ result = NULL
    BY DEF Init
  <2>. QED
    BY <2>1, NothingShown DEF List!Init, Handle
<1>2. IInv /\ IInv' /\ [Next]_vars => [List!Next]_(List!vars)
    BY StepRefines
<1>. QED
    BY <1>1, <1>2, Invariance, PTL DEF Spec, ImplementsList, List!Spec
====
