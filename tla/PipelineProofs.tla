--------------------------- MODULE PipelineProofs ---------------------------
(***************************************************************************)
(* Who has which pipe end open, when a buffer is closed, and that nothing  *)
(* is lost, for any number of children and files of any length.            *)
(*                                                                         *)
(* The inductive invariant has four parts.  Ends: the pipe ends of each    *)
(* process, from the place it has come to.  Answers: what poll() said of   *)
(* a buffer is still so when its turn comes.  Quiet: without faults nobody *)
(* meets SIGPIPE, and the end of the file comes down the pipeline from     *)
(* child to child.  Flow: what is in the children, pipes and buffers are   *)
(* pieces of the file, one after the other.                                *)
(***************************************************************************)
EXTENDS Pipeline, SequenceTheorems, WellFoundedInduction, TLAPS

USE ConstAssumption
USE DEF pipes, children, buffers, relayed, Parent, Children, Buffers, Procs, Ended, RelayEnded, ChildEnded

-----------------------------------------------------------------------------
(* The inductive invariant.                                                *)

\* Which children are there while the parent forks them.
Spawned ==
    /\ rpc \in {"pipe", "fork"} => \A i \in Children : cpc[i] # "unborn" <=> i < cursor
    /\ rpc = "close" => \A i \in Children : cpc[i] # "unborn" <=> i <= cursor
    /\ rpc \in {"poll", "scan", "ok"} => \A i \in Children : cpc[i] # "unborn"

\* The parent's ends of some buffers.
Pairs(S) == {Up(i, "read") : i \in S} \cup {Down(i, "write") : i \in S}

NotClosed == {i \in Buffers : ~Closed(i)}

\* The ends of the parent: what the next child inherits, then one pair for each
\* buffer that is not closed.
ParentHas ==
    /\ rpc = "pipe" => holds[Parent] = Inherited(cursor)
    /\ rpc \in {"fork", "close"} => holds[Parent] = Inherited(cursor) \cup Made(cursor)
    /\ rpc \in {"poll", "scan"} => holds[Parent] = Pairs(NotClosed)
    /\ RelayEnded => holds[Parent] = {}

Own(i) == {Down(i - 1, "read"), Up(i, "write")} \cap Made(i)

ChildHas(i) ==
    /\ cpc[i] = "forked" => holds[i] = Inherited(i) \cup Made(i)
    /\ cpc[i] \in {"read", "write"} => holds[i] = Own(i)
    /\ cpc[i] = "unborn" \/ ChildEnded(i) => holds[i] = {}

Ends == Spawned /\ ParentHas /\ \A i \in Children : ChildHas(i)

\* What poll() said is still so when the parent comes to the buffer.
Answered(i) ==
    /\ ev[i].can_read => side[i] = "read" /\ ~Closed(i) /\ up[i] # <<>>
    /\ ev[i].can_write => side[i] = "write" /\ ~Closed(i) /\ Free(down[i]) >= PipeBuf
    /\ ev[i].can_finish => ~Closed(i) /\ \/ side[i] = "read" /\ Hup(i)
                                         \/ side[i] = "write" /\ Err(i)

\* A buffer that is read into is empty, and so is the chunk of a child that does
\* not write.
Answers ==
    /\ rpc = "scan" => cursor \in Buffers /\ \A i \in Buffers : cursor <= i => Answered(i)
    /\ \A i \in Buffers : side[i] = "read" => available[i] = 0
    /\ \A i \in Children : cpc[i] \notin {"write", "killed"} => chunk[i] = <<>>

\* Without faults processes end by returning, and a child only after all those
\* before it and the buffers between them.
Quiet ==
    ~faults =>
        /\ rpc \notin {"sigpipe", "killed"}
        /\ \A i \in Children : cpc[i] \notin {"sigpipe", "killed"}
        /\ \A i \in Buffers : cpc[i + 1] = "ok" =>
               rpc \in {"poll", "scan", "ok"} /\ Closed(i) /\ down[i] = <<>>
        /\ ClosedWhenDrained

\* The file between two places.
Slice(a, b) == SubSeq(File, a + 1, b)

\* From one child, which has read e bytes, to the next one, which has read a: what
\* is in the pipe x to the next one, the buffer y, the pipe z from the first one
\* and its chunk c are the pieces of the file between them.  What a child had in
\* hand when it met SIGPIPE is gone.
Between(a, e, x, y, z, c, gone) ==
    LET d == a + Len(x)
        b == d + Len(y)
        h == b + Len(z)
        k == h + Len(c)
    IN  /\ k <= e /\ e <= h + ChildBuf
        /\ ~gone => e = k
        /\ x = Slice(a, d) /\ y = Slice(d, b) /\ z = Slice(b, h) /\ c = Slice(h, k)

\* What the parent has read from child i and not yet written.
Content(i) == Front(data[i], available[i])

\* g[i] is how much child i has read.
Hop(g, i) ==
    Between(g[i + 1], g[i], down[i], Content(i), up[i], chunk[i], cpc[i] = "sigpipe")

Hops(g) ==
    /\ g \in [Children -> 0 .. Len(File)]
    /\ g[0] = taken
    /\ \A i \in Buffers : Hop(g, i)
    /\ g[n - 1] = Len(out) + Len(chunk[n - 1])
    /\ out = Slice(0, Len(out))
    /\ chunk[n - 1] = Slice(Len(out), g[n - 1])
    /\ ~faults => \A i \in Children : cpc[i] = "ok" => g[i] = Len(File)

\* A buffer is written out by one write().
Unsplit == \A i \in Buffers : BufSize[i] <= PipeBuf

Flow == Unsplit => \E g : Hops(g)

IInv == TypeOK /\ Ends /\ Answers /\ Quiet /\ Flow

-----------------------------------------------------------------------------
(* Sequences.                                                              *)

\* A sequence is cut in two.
LEMMA Cut ==
    ASSUME NEW s \in Seq(Bytes), NEW k \in 0 .. Len(s)
    PROVE  /\ Front(s, k) \in Seq(Bytes) /\ Len(Front(s, k)) = k
           /\ Rest(s, k) \in Seq(Bytes) /\ Len(Rest(s, k)) = Len(s) - k
           /\ \A i \in 1 .. k : Front(s, k)[i] = s[i]
           /\ \A i \in 1 .. Len(s) - k : Rest(s, k)[i] = s[k + i]
<1>1. /\ Len(s) \in Nat /\ k \in Nat /\ k <= Len(s)
      /\ \A i \in 1 .. Len(s) : s[i] \in Bytes
    OBVIOUS
<1>. QED
    BY <1>1 DEF Front, Rest

\* The smaller of two numbers.
LEMMA LeastIs ==
    ASSUME NEW a \in Nat, NEW b \in Nat
    PROVE  /\ Least(a, b) \in Nat /\ Least(a, b) <= a /\ Least(a, b) <= b
           /\ Least(a, b) = a \/ Least(a, b) = b
    BY DEF Least

\* A chunk that a read() takes.
LEMMA Bite ==
    ASSUME NEW s \in Seq(Bytes), NEW m \in Nat
    PROVE  /\ Least(m, Len(s)) \in 0 .. Len(s) /\ Least(m, Len(s)) <= m
           /\ Front(s, Least(m, Len(s))) \in Seq(Bytes)
           /\ Len(Front(s, Least(m, Len(s)))) = Least(m, Len(s))
           /\ Rest(s, Least(m, Len(s))) \in Seq(Bytes)
           /\ Len(Rest(s, Least(m, Len(s)))) = Len(s) - Least(m, Len(s))
<1>1. Len(s) \in Nat
    OBVIOUS
<1>2. Least(m, Len(s)) \in 0 .. Len(s) /\ Least(m, Len(s)) <= m
    BY <1>1 DEF Least
<1>. QED
    BY <1>2, Cut

\* Two sequences are joined.
LEMMA Joined ==
    ASSUME NEW s \in Seq(Bytes), NEW t \in Seq(Bytes)
    PROVE  /\ s \o t \in Seq(Bytes) /\ Len(s \o t) = Len(s) + Len(t)
           /\ \A i \in 1 .. Len(s) + Len(t) :
                 (s \o t)[i] = IF i <= Len(s) THEN s[i] ELSE t[i - Len(s)]
    BY ConcatProperties, ZenonT(40)

\* A slice of the file.
LEMMA SliceIs ==
    ASSUME NEW a \in Nat, NEW b \in Nat, a <= b, b <= Len(File)
    PROVE  /\ Slice(a, b) \in Seq(Bytes) /\ Len(Slice(a, b)) = b - a
           /\ \A i \in 1 .. b - a : Slice(a, b)[i] = File[a + i]
<1>1. /\ Len(File) \in Nat
      /\ \A i \in 1 .. Len(File) : File[i] \in Bytes
    OBVIOUS
<1>. QED
    BY <1>1 DEF Slice

\* Sequences are equal if their elements are.
LEMMA SameSeq ==
    ASSUME NEW s \in Seq(Bytes), NEW t \in Seq(Bytes), Len(s) = Len(t),
           \A i \in 1 .. Len(s) : s[i] = t[i]
    PROVE  s = t
    BY SeqEqual

\* A slice is cut into slices.
LEMMA CutSlice ==
    ASSUME NEW a \in Nat, NEW b \in Nat, a <= b, b <= Len(File), NEW k \in 0 .. b - a
    PROVE  Front(Slice(a, b), k) = Slice(a, a + k) /\ Rest(Slice(a, b), k) = Slice(a + k, b)
<1> DEFINE s == Slice(a, b)
           x == Slice(a, a + k)
           y == Slice(a + k, b)
<1>1. Len(File) \in Nat /\ k \in Nat /\ a + k \in Nat /\ a + k <= b /\ a + k <= Len(File)
    OBVIOUS
<1>2. /\ s \in Seq(Bytes) /\ Len(s) = b - a
      /\ \A i \in 1 .. b - a : s[i] = File[a + i]
    BY SliceIs
<1>3. /\ x \in Seq(Bytes) /\ Len(x) = k
      /\ \A i \in 1 .. k : x[i] = File[a + i]
  <2>1. /\ x \in Seq(Bytes) /\ Len(x) = (a + k) - a
        /\ \A i \in 1 .. (a + k) - a : x[i] = File[a + i]
    <3>1. a + k \in Nat /\ a <= a + k /\ a + k <= Len(File)
      BY <1>1
    <3>. QED
      BY <3>1, SliceIs
  <2>2. (a + k) - a = k
    BY <1>1
  <2>. QED
    BY <2>1, <2>2
<1>4. /\ y \in Seq(Bytes) /\ Len(y) = b - (a + k)
      /\ \A i \in 1 .. b - (a + k) : y[i] = File[(a + k) + i]
    BY <1>1, SliceIs
<1>5. /\ Front(s, k) \in Seq(Bytes) /\ Len(Front(s, k)) = k
      /\ Rest(s, k) \in Seq(Bytes) /\ Len(Rest(s, k)) = Len(s) - k
      /\ \A i \in 1 .. k : Front(s, k)[i] = s[i]
      /\ \A i \in 1 .. Len(s) - k : Rest(s, k)[i] = s[k + i]
    BY <1>2, Cut, ZenonT(40)
<1> HIDE DEF s, x, y
<1>6. ASSUME NEW i \in 1 .. k PROVE Front(s, k)[i] = x[i]
  <2>1. i \in 1 .. b - a
    BY <1>1
  <2>. QED
    BY <1>2, <1>3, <1>5, <2>1
<1>7. Len(s) - k = b - (a + k)
    BY <1>1, <1>2
<1>8. ASSUME NEW i \in 1 .. b - (a + k) PROVE Rest(s, k)[i] = y[i]
  <2>1. k + i \in 1 .. b - a /\ a + (k + i) = (a + k) + i
    BY <1>1
  <2>. QED
    BY <1>2, <1>4, <1>5, <1>7, <2>1
<1>9. Front(s, k) = x
    BY <1>3, <1>5, <1>6, SameSeq
<1>10. Rest(s, k) = y
    BY <1>4, <1>5, <1>7, <1>8, SameSeq
<1>. QED
    BY <1>9, <1>10 DEF s, x, y

\* Two slices that meet are one.
LEMMA JoinSlices ==
    ASSUME NEW a \in Nat, NEW b \in Nat, NEW c \in Nat, a <= b, b <= c, c <= Len(File)
    PROVE  Slice(a, b) \o Slice(b, c) = Slice(a, c)
<1> DEFINE x == Slice(a, b)
           y == Slice(b, c)
           z == Slice(a, c)
<1>1. Len(File) \in Nat /\ b <= Len(File) /\ a <= c
    OBVIOUS
<1>2. x \in Seq(Bytes) /\ Len(x) = b - a /\ \A i \in 1 .. b - a : x[i] = File[a + i]
    BY <1>1, SliceIs
<1>3. y \in Seq(Bytes) /\ Len(y) = c - b /\ \A i \in 1 .. c - b : y[i] = File[b + i]
    BY <1>1, SliceIs
<1>4. z \in Seq(Bytes) /\ Len(z) = c - a /\ \A i \in 1 .. c - a : z[i] = File[a + i]
    BY <1>1, SliceIs
<1> HIDE DEF x, y, z
<1>5. /\ x \o y \in Seq(Bytes) /\ Len(x \o y) = Len(x) + Len(y)
      /\ \A i \in 1 .. Len(x) + Len(y) : (x \o y)[i] = IF i <= Len(x) THEN x[i] ELSE y[i - Len(x)]
  <2>1. x \in Seq(Bytes) /\ y \in Seq(Bytes)
    BY <1>2, <1>3
  <2>. QED
    BY <2>1, Joined
<1>6. ASSUME NEW i \in 1 .. c - a PROVE (x \o y)[i] = z[i]
  <2>1. CASE i <= b - a
    <3>1. i \in 1 .. b - a /\ i \in 1 .. Len(x) + Len(y)
      BY <1>2, <1>3, <2>1
    <3>. QED
      BY <1>2, <1>4, <1>5, <2>1, <3>1
  <2>2. CASE ~(i <= b - a)
    <3>1. /\ i - (b - a) \in 1 .. c - b /\ b + (i - (b - a)) = a + i
          /\ i \in 1 .. Len(x) + Len(y)
      BY <1>2, <1>3, <2>2, SMTT(30)
    <3>. QED
      BY <1>2, <1>3, <1>4, <1>5, <2>2, <3>1, SMTT(30)
  <2>. QED
    BY <2>1, <2>2
<1>7. Len(x \o y) = c - a
    BY <1>2, <1>3, <1>5
<1>8. x \o y = z
    BY <1>4, <1>5, <1>6, <1>7, SameSeq
<1>. QED
    BY <1>8 DEF x, y, z

-----------------------------------------------------------------------------
(* Pipe ends.                                                              *)

\* Different pipes and different ends of a pipe are different.
LEMMA EndsDiffer ==
    /\ \A i, j, e, f : Up(i, e) = Up(j, f) <=> i = j /\ e = f
    /\ \A i, j, e, f : Down(i, e) = Down(j, f) <=> i = j /\ e = f
    /\ \A i, j, e, f : Up(i, e) # Down(j, f)
    /\ \A i, e : Up(i, e).buffer = i /\ Down(i, e).buffer = i
    BY DEF Up, Down

\* Which ends belong to a child.
LEMMA InMade ==
    ASSUME NEW i \in Children, NEW j \in Int, NEW e
    PROVE  /\ Up(j, e) \in Made(i) <=> e \in {"read", "write"} /\ j = i /\ i < n - 1
           /\ Down(j, e) \in Made(i) <=> e \in {"read", "write"} /\ j = i - 1 /\ i > 0
    BY EndsDiffer, SMTT(30) DEF Made

\* Which ends a child inherits.
LEMMA InInherited ==
    ASSUME NEW i \in Children, NEW j \in Int, NEW e
    PROVE  /\ Up(j, e) \in Inherited(i) <=> e = "read" /\ 0 <= j /\ j < i
           /\ Down(j, e) \in Inherited(i) <=> e = "write" /\ 0 <= j /\ j < i - 1
<1>1. Up(j, e) \in Inherited(i) <=> e = "read" /\ 0 <= j /\ j < i
    BY EndsDiffer DEF Inherited
<1>2. Down(j, e) \in Inherited(i) <=> \E k \in 1 .. i - 1 : e = "write" /\ j = k - 1
    BY EndsDiffer DEF Inherited
<1>3. (\E k \in 1 .. i - 1 : j = k - 1) <=> 0 <= j /\ j < i - 1
  <2>1. ASSUME 0 <= j, j < i - 1 PROVE \E k \in 1 .. i - 1 : j = k - 1
    <3>1. j + 1 \in 1 .. i - 1 /\ j = (j + 1) - 1
      BY <2>1
    <3>. QED
      BY <3>1
  <2>. QED
    BY <2>1
<1>. QED
    BY <1>1, <1>2, <1>3

\* Which ends are of some buffers.
LEMMA InPairs ==
    ASSUME NEW S, NEW j, NEW e
    PROVE  /\ Up(j, e) \in Pairs(S) <=> e = "read" /\ j \in S
           /\ Down(j, e) \in Pairs(S) <=> e = "write" /\ j \in S
    BY EndsDiffer DEF Pairs

\* Which ends a child keeps.
LEMMA InOwn ==
    ASSUME NEW i \in Children, NEW j \in Int, NEW e
    PROVE  /\ Up(j, e) \in Own(i) <=> e = "write" /\ j = i /\ i < n - 1
           /\ Down(j, e) \in Own(i) <=> e = "read" /\ j = i - 1 /\ i > 0
    BY InMade, EndsDiffer DEF Own

IsEnd(x) == \E j \in Int : \E e \in {"read", "write"} : x = Up(j, e) \/ x = Down(j, e)

\* Every end is one of some buffer.
LEMMA EndForms ==
    /\ \A i \in Children : \A x \in Made(i) : IsEnd(x)
    /\ \A i \in Children : \A x \in Inherited(i) : IsEnd(x)
    /\ \A S \in SUBSET Int : \A x \in Pairs(S) : IsEnd(x)
<1>1. ASSUME NEW i \in Children, NEW x \in Made(i)
      PROVE  IsEnd(x)
  <2>1. CASE x \in {Down(i - 1, end) : end \in IF i > 0 THEN {"read", "write"} ELSE {}}
    BY <2>1 DEF IsEnd
  <2>2. CASE x \in {Up(i, end) : end \in IF i < n - 1 THEN {"read", "write"} ELSE {}}
    BY <2>2 DEF IsEnd
  <2>. QED
    BY <1>1, <2>1, <2>2 DEF Made
<1>2. ASSUME NEW i \in Children, NEW x \in Inherited(i)
      PROVE  IsEnd(x)
    BY <1>2 DEF Inherited, IsEnd
<1>3. ASSUME NEW S \in SUBSET Int, NEW x \in Pairs(S)
      PROVE  IsEnd(x)
    BY <1>3 DEF Pairs, IsEnd
<1>. QED
    BY <1>1, <1>2, <1>3

\* What is left of the inherited ends and the child's own pipes is its own ends.
LEMMA ClosesInherited ==
    ASSUME NEW i \in Children
    PROVE  (Inherited(i) \cup Made(i)) \ (Inherited(i) \cup {Down(i - 1, "write"), Up(i, "read")})
               = Own(i)
<1> DEFINE L == (Inherited(i) \cup Made(i)) \ (Inherited(i) \cup {Down(i - 1, "write"), Up(i, "read")})
<1>1. ASSUME NEW j \in Int, NEW e
      PROVE  /\ Up(j, e) \in L <=> Up(j, e) \in Own(i)
             /\ Down(j, e) \in L <=> Down(j, e) \in Own(i)
    BY InMade, InInherited, InOwn, EndsDiffer
<1>2. \A x \in L \cup Own(i) : IsEnd(x)
  <2>1. L \cup Own(i) \subseteq Made(i)
    BY DEF Own
  <2>. QED
    BY <2>1, EndForms
<1>. QED
    BY <1>1, <1>2 DEF IsEnd

\* What the parent has after it has forked the child is what the next one inherits.
LEMMA ClosesMade ==
    ASSUME NEW i \in Children
    PROVE  LET L == (Inherited(i) \cup Made(i)) \ {Down(i - 1, "read"), Up(i, "write")}
           IN  IF i < n - 1 THEN L = Inherited(i + 1) ELSE L = Pairs(Buffers)
<1> DEFINE L == (Inherited(i) \cup Made(i)) \ {Down(i - 1, "read"), Up(i, "write")}
<1>1. \A x \in L : IsEnd(x)
    BY EndForms
<1>2. CASE i < n - 1
  <2>1. i + 1 \in Children
    BY <1>2
  <2>2. ASSUME NEW j \in Int, NEW e
        PROVE  /\ Up(j, e) \in L <=> Up(j, e) \in Inherited(i + 1)
               /\ Down(j, e) \in L <=> Down(j, e) \in Inherited(i + 1)
    BY <1>2, <2>1, InMade, InInherited, EndsDiffer
  <2>3. \A x \in Inherited(i + 1) : IsEnd(x)
    BY <2>1, EndForms
  <2>4. L = Inherited(i + 1)
    BY <1>1, <2>2, <2>3, SMTT(30) DEF IsEnd
  <2>. QED
    BY <1>2, <2>4
<1>3. CASE ~(i < n - 1)
  <2>1. i = n - 1
    BY <1>3
  <2>2. ASSUME NEW j \in Int, NEW e
        PROVE  /\ Up(j, e) \in L <=> Up(j, e) \in Pairs(Buffers)
               /\ Down(j, e) \in L <=> Down(j, e) \in Pairs(Buffers)
    BY <2>1, InMade, InInherited, InPairs, EndsDiffer
  <2>3. \A x \in Pairs(Buffers) : IsEnd(x)
    BY EndForms
  <2>4. L = Pairs(Buffers)
    BY <1>1, <2>2, <2>3 DEF IsEnd
  <2>. QED
    BY <1>3, <2>4
<1>. QED
    BY <1>2, <1>3

\* A buffer is closed.
LEMMA ClosesPair ==
    ASSUME NEW S \in SUBSET Int, NEW i \in Int
    PROVE  Pairs(S) \ {Up(i, "read"), Down(i, "write")} = Pairs(S \ {i})
<1> DEFINE L == Pairs(S) \ {Up(i, "read"), Down(i, "write")}
           R == Pairs(S \ {i})
<1>1. ASSUME NEW j \in Int, NEW e \in {"read", "write"}
      PROVE  /\ Up(j, e) \in L <=> Up(j, e) \in R
             /\ Down(j, e) \in L <=> Down(j, e) \in R
  <2>1. /\ Up(j, e) \in R <=> e = "read" /\ j \in S \ {i}
        /\ Down(j, e) \in R <=> e = "write" /\ j \in S \ {i}
    BY InPairs
  <2>2. /\ Up(j, e) \in Pairs(S) <=> e = "read" /\ j \in S
        /\ Down(j, e) \in Pairs(S) <=> e = "write" /\ j \in S
    BY InPairs
  <2>. QED
    BY <2>1, <2>2, EndsDiffer
<1>2. \A x \in L : IsEnd(x)
    BY EndForms
<1>3. \A x \in R : IsEnd(x)
    BY EndForms
<1> HIDE DEF L, R
<1>4. ASSUME NEW x \in L PROVE x \in R
    BY <1>1, <1>2, <1>4 DEF IsEnd
<1>5. ASSUME NEW x \in R PROVE x \in L
    BY <1>1, <1>3, <1>5 DEF IsEnd
<1>6. L = R
    BY <1>4, <1>5
<1>. QED
    BY <1>6 DEF L, R

-----------------------------------------------------------------------------
(* Types.                                                                  *)

AllEnds == UNION {Made(i) : i \in Children}
ChildLabels == {"unborn", "forked", "read", "write"} \cup Ended

\* What the parts of TypeOK say of the pipes and of the parent's buffers.
Bounded(pipe) == \A i \in Buffers : Len(pipe[i]) <= PipeCap
Filled == \A i \in Buffers : available[i] <= Len(data[i]) /\ Len(data[i]) <= BufSize[i]

\* The types in the form that the steps need.
LEMMA Typed ==
    TypeOK <=>
        /\ up \in [Buffers -> Seq(Bytes)] /\ Bounded(up)
        /\ down \in [Buffers -> Seq(Bytes)] /\ Bounded(down)
        /\ data \in [Buffers -> Seq(Bytes)] /\ available \in [Buffers -> Nat] /\ Filled
        /\ side \in [Buffers -> {"read", "write", "both"}]
        /\ ev \in [Buffers -> [can_read : BOOLEAN, can_write : BOOLEAN, can_finish : BOOLEAN]]
        /\ cpc \in [Children -> ChildLabels]
        /\ chunk \in [Children -> Seq(Bytes)] /\ \A i \in Children : Len(chunk[i]) <= ChildBuf
        /\ taken \in 0 .. Len(File) /\ out \in Seq(Bytes)
        /\ rpc \in {"pipe", "fork", "close", "poll", "scan"} \cup Ended /\ cursor \in Children
        /\ holds \in [Procs -> SUBSET AllEnds]
        /\ faults \in BOOLEAN
    BY DEF TypeOK, Bounded, Filled, ChildLabels, AllEnds

\* A process that moves on keeps its pipe ends or closes them.
LEMMA ChildGoesTypes ==
    ASSUME TypeOK, NEW i \in Children, NEW label \in ChildLabels, ChildGoes(i, label)
    PROVE  cpc' \in [Children -> ChildLabels] /\ holds' \in [Procs -> SUBSET AllEnds]
    BY DEF TypeOK, ChildGoes, AllEnds, ChildLabels

\* So does the parent.
LEMMA ParentTypes ==
    ASSUME TypeOK
    PROVE  /\ \A label \in Ended : ParentEnds(label) =>
                  rpc' \in Ended /\ holds' \in [Procs -> SUBSET AllEnds]
           /\ \A p \in Procs : \A ends : Closes(p, ends) =>
                  holds' \in [Procs -> SUBSET AllEnds]
<1>1. holds \in [Procs -> SUBSET AllEnds]
    BY Typed
<1>2. ASSUME NEW label \in Ended, ParentEnds(label)
      PROVE  rpc' \in Ended /\ holds' \in [Procs -> SUBSET AllEnds]
    BY <1>1, <1>2 DEF ParentEnds
<1>3. ASSUME NEW p \in Procs, NEW ends, Closes(p, ends)
      PROVE  holds' \in [Procs -> SUBSET AllEnds]
    BY <1>1, <1>3 DEF Closes
<1>. QED
    BY <1>2, <1>3

\* One value of a function is another one.
LEMMA Updates ==
    ASSUME NEW S, NEW T, NEW f \in [S -> T], NEW i \in S, NEW x \in T
    PROVE  /\ [f EXCEPT ![i] = x] \in [S -> T]
           /\ [f EXCEPT ![i] = x][i] = x
           /\ \A j \in S \ {i} : [f EXCEPT ![i] = x][j] = f[j]
    OBVIOUS

\* A child's chunk is another one.
LEMMA ChunkTypes ==
    ASSUME TypeOK, NEW i \in Children, NEW s \in Seq(Bytes), Len(s) <= ChildBuf,
           chunk' = [chunk EXCEPT ![i] = s]
    PROVE  chunk' \in [Children -> Seq(Bytes)] /\ \A j \in Children : Len(chunk'[j]) <= ChildBuf
<1>1. chunk \in [Children -> Seq(Bytes)] /\ \A j \in Children : Len(chunk[j]) <= ChildBuf
    BY DEF TypeOK
<1>2. /\ chunk' \in [Children -> Seq(Bytes)] /\ chunk'[i] = s
      /\ \A j \in Children \ {i} : chunk'[j] = chunk[j]
    BY <1>1, Updates
<1>. QED
    BY <1>1, <1>2

\* Bytes that are read out of a pipe.
LEMMA ReadTypes ==
    ASSUME NEW pipe \in [Buffers -> Seq(Bytes)], Bounded(pipe),
           NEW i \in Buffers, NEW k \in 0 .. Len(pipe[i])
    PROVE  /\ [pipe EXCEPT ![i] = Rest(@, k)] \in [Buffers -> Seq(Bytes)]
           /\ Bounded([pipe EXCEPT ![i] = Rest(@, k)])
<1>1. pipe[i] \in Seq(Bytes) /\ Len(pipe[i]) \in Nat
    OBVIOUS
<1>2. Rest(pipe[i], k) \in Seq(Bytes) /\ Len(Rest(pipe[i], k)) = Len(pipe[i]) - k
    BY <1>1, Cut
<1>. QED
    BY <1>1, <1>2 DEF Bounded

\* Bytes that are written into a pipe.
LEMMA WriteTypes ==
    ASSUME NEW pipe \in [Buffers -> Seq(Bytes)], Bounded(pipe),
           NEW i \in Buffers, NEW s \in Seq(Bytes), Len(s) <= Free(pipe[i])
    PROVE  /\ [pipe EXCEPT ![i] = @ \o s] \in [Buffers -> Seq(Bytes)]
           /\ Bounded([pipe EXCEPT ![i] = @ \o s])
<1>1. pipe[i] \in Seq(Bytes) /\ Len(pipe[i]) \in Nat /\ Len(s) \in Nat
    OBVIOUS
<1>2. pipe[i] \o s \in Seq(Bytes) /\ Len(pipe[i] \o s) = Len(pipe[i]) + Len(s)
    BY <1>1, Joined
<1>. QED
    BY <1>1, <1>2 DEF Bounded, Free

\* The types hold at the start.
LEMMA InitTypes == Init => TypeOK
    BY EmptySeq DEF Init, TypeOK

\* The steps that fork keep the types.
LEMMA SpawnTypes ==
    ASSUME TypeOK, openPipes \/ fork \/ parentCloses \/ \E i \in Children : childCloses(i)
    PROVE  TypeOK'
<1>1. CASE openPipes
  <2>1. holds' \in [Procs -> SUBSET AllEnds]
    BY <1>1, Typed DEF openPipes, AllEnds
  <2>. QED
    BY <1>1, <2>1 DEF openPipes, TypeOK, AllEnds
<1>2. CASE fork
  <2>1. holds' \in [Procs -> SUBSET AllEnds]
    BY <1>2, Typed DEF fork
  <2>. QED
    BY <1>2, <2>1 DEF fork, TypeOK, AllEnds
<1>3. CASE parentCloses
  <2>1. holds' \in [Procs -> SUBSET AllEnds]
    BY <1>3, ParentTypes DEF parentCloses
  <2>2. cursor' \in Children /\ rpc' \in {"pipe", "poll"}
    <3>1. cursor \in Int /\ 0 <= cursor /\ cursor <= n - 1
      BY Typed
    <3>. QED
      BY <1>3, <3>1 DEF parentCloses
  <2>. QED
    BY <1>3, <2>1, <2>2 DEF parentCloses, TypeOK, AllEnds
<1>4. CASE \E i \in Children : childCloses(i)
  <2>1. PICK i \in Children : childCloses(i)
    BY <1>4
  <2>2. holds' \in [Procs -> SUBSET AllEnds]
    BY <2>1, ParentTypes DEF childCloses
  <2>. QED
    BY <2>1, <2>2 DEF childCloses, TypeOK, AllEnds
<1>. QED
    BY <1>1, <1>2, <1>3, <1>4

\* The children keep the types.
LEMMA ReadFileTypes ==
    ASSUME TypeOK, readFile
    PROVE  TypeOK'
<1> DEFINE k == Least(ChildBuf, Len(File) - taken)
           s == SubSeq(File, taken + 1, taken + k)
<1>1. k \in Nat /\ k <= ChildBuf /\ taken + k \in 0 .. Len(File)
  <2>1. taken \in Nat /\ Len(File) \in Nat /\ taken <= Len(File) /\ ChildBuf \in Nat
    BY DEF TypeOK
  <2>2. Len(File) - taken \in Nat
    BY <2>1
  <2>3. /\ k \in Nat /\ k <= ChildBuf /\ k <= Len(File) - taken
    BY <2>1, <2>2, LeastIs
  <2>. QED
    BY <2>1, <2>3
<1>2. s \in Seq(Bytes) /\ Len(s) = k
  <2>1. s = Slice(taken, taken + k)
    BY DEF Slice
  <2>2. taken \in Nat /\ taken + k \in Nat /\ taken <= taken + k /\ taken + k <= Len(File)
    <3>1. taken \in 0 .. Len(File) /\ Len(File) \in Nat
      BY Typed
    <3> HIDE DEF k
    <3>. QED
      BY <1>1, <3>1
  <2>3. (taken + k) - taken = k
    BY <1>1, <2>2
  <2>. QED
    BY <2>1, <2>2, <2>3, SliceIs
<1>3. /\ chunk' = [chunk EXCEPT ![0] = s]
      /\ taken' = taken + k
      /\ ChildGoes(0, IF k > 0 THEN "write" ELSE "ok")
      /\ UNCHANGED <<up, down, out, relayed, faults>>
    BY DEF readFile
<1> HIDE DEF s, k
<1>4. cpc' \in [Children -> ChildLabels] /\ holds' \in [Procs -> SUBSET AllEnds]
    BY <1>3, ChildGoesTypes DEF ChildLabels
<1>5. chunk' \in [Children -> Seq(Bytes)] /\ \A i \in Children : Len(chunk'[i]) <= ChildBuf
  <2>1. 0 \in Children /\ Len(s) <= ChildBuf
    BY <1>1, <1>2
  <2>. QED
    BY <1>2, <1>3, <2>1, ChunkTypes
<1>. QED
    BY <1>1, <1>3, <1>4, <1>5 DEF TypeOK, ChildLabels, AllEnds

\* A read() from a pipe keeps the types.
LEMMA ReadPipeTypes ==
    ASSUME TypeOK, NEW i \in Children, readPipe(i)
    PROVE  TypeOK'
<1> DEFINE k == Least(ChildBuf, Len(down[i - 1]))
           s == Front(down[i - 1], k)
<1>1. /\ i - 1 \in Buffers
      /\ chunk' = [chunk EXCEPT ![i] = s]
      /\ down' = [down EXCEPT ![i - 1] = Rest(@, k)]
      /\ ChildGoes(i, IF k > 0 THEN "write" ELSE "ok")
      /\ UNCHANGED <<up, taken, out, relayed, faults>>
    BY DEF readPipe
<1>2. down[i - 1] \in Seq(Bytes) /\ ChildBuf \in Nat
    BY <1>1, Typed
<1>3. k \in 0 .. Len(down[i - 1]) /\ k <= ChildBuf /\ s \in Seq(Bytes) /\ Len(s) = k
    BY <1>2, Bite
<1> HIDE DEF s, k
<1>4. cpc' \in [Children -> ChildLabels] /\ holds' \in [Procs -> SUBSET AllEnds]
    BY <1>1, ChildGoesTypes DEF ChildLabels
<1>5. chunk' \in [Children -> Seq(Bytes)] /\ \A j \in Children : Len(chunk'[j]) <= ChildBuf
    BY <1>1, <1>3, ChunkTypes
<1>6. down' \in [Buffers -> Seq(Bytes)] /\ Bounded(down')
    BY <1>1, <1>3, ReadTypes, Typed
<1>. QED
    BY <1>1, <1>4, <1>5, <1>6 DEF TypeOK, ChildLabels, AllEnds, Bounded

\* A write() into a pipe keeps the types.
LEMMA WritePipeTypes ==
    ASSUME TypeOK, NEW i \in Children, writePipe(i)
    PROVE  TypeOK'
<1>1. /\ i \in Buffers /\ chunk[i] \in Seq(Bytes)
      /\ chunk' = [chunk EXCEPT ![i] = <<>>]
      /\ UNCHANGED <<down, taken, out, relayed, faults>>
    BY DEF writePipe, TypeOK
<1>2. chunk' \in [Children -> Seq(Bytes)] /\ \A j \in Children : Len(chunk'[j]) <= ChildBuf
  <2>1. <<>> \in Seq(Bytes) /\ Len(<<>>) <= ChildBuf
    BY EmptySeq
  <2>. QED
    BY <1>1, <2>1, ChunkTypes
<1>3. up' \in [Buffers -> Seq(Bytes)] /\ Bounded(up')
  <2>1. CASE UNCHANGED up
    BY <2>1, Typed
  <2>2. CASE Len(chunk[i]) <= Free(up[i]) /\ up' = [up EXCEPT ![i] = @ \o chunk[i]]
    BY <1>1, <2>2, WriteTypes, Typed
  <2>. QED
    BY <2>1, <2>2 DEF writePipe
<1>4. cpc' \in [Children -> ChildLabels] /\ holds' \in [Procs -> SUBSET AllEnds]
    BY ChildGoesTypes DEF writePipe, ChildLabels
<1>. QED
    BY <1>1, <1>2, <1>3, <1>4 DEF TypeOK, ChildLabels, AllEnds, Bounded

\* A write() to the standard output keeps the types.
LEMMA WriteOutTypes ==
    ASSUME TypeOK, writeOut
    PROVE  TypeOK'
<1>1. PICK k \in 1 .. Len(chunk[n - 1]) :
          /\ out' = out \o Front(chunk[n - 1], k)
          /\ chunk' = [chunk EXCEPT ![n - 1] = Rest(@, k)]
          /\ ChildGoes(n - 1, IF k < Len(chunk[n - 1]) THEN "write" ELSE "read")
    BY DEF writeOut, Left
<1>2. n - 1 \in Children /\ chunk[n - 1] \in Seq(Bytes) /\ k \in 0 .. Len(chunk[n - 1])
    BY <1>1 DEF TypeOK
<1>3. /\ Front(chunk[n - 1], k) \in Seq(Bytes)
      /\ Rest(chunk[n - 1], k) \in Seq(Bytes)
      /\ Len(Rest(chunk[n - 1], k)) = Len(chunk[n - 1]) - k
    BY <1>2, Cut
<1>4. out' \in Seq(Bytes)
  <2>1. out \in Seq(Bytes)
    BY DEF TypeOK
  <2>. QED
    BY <1>1, <1>3, <2>1, Joined
<1>5. chunk' \in [Children -> Seq(Bytes)] /\ \A j \in Children : Len(chunk'[j]) <= ChildBuf
  <2>1. Len(Rest(chunk[n - 1], k)) <= ChildBuf
    BY <1>2, <1>3 DEF TypeOK
  <2>. QED
    BY <1>1, <1>2, <1>3, <2>1, ChunkTypes
<1>6. cpc' \in [Children -> ChildLabels] /\ holds' \in [Procs -> SUBSET AllEnds]
    BY <1>1, <1>2, ChildGoesTypes DEF ChildLabels
<1>. QED
    BY <1>4, <1>5, <1>6 DEF writeOut, TypeOK, ChildLabels, AllEnds

\* Going on to the next buffer keeps the types of what it changes.
LEMMA AdvanceTypes ==
    ASSUME TypeOK, NEW i \in Buffers, Advance(i)
    PROVE  /\ holds' \in [Procs -> SUBSET AllEnds] /\ cursor' \in Children
           /\ rpc' \in {"poll", "scan", "ok"}
           /\ UNCHANGED <<children, ev, faults>>
<1>1. holds' \in [Procs -> SUBSET AllEnds]
  <2>1. CASE UNCHANGED holds
    BY <2>1, Typed
  <2>2. CASE \E ends : Closes(Parent, ends)
    BY <2>2, ParentTypes
  <2>3. CASE ParentEnds("ok")
    BY <2>3, ParentTypes
  <2>. QED
    BY <2>1, <2>2, <2>3 DEF Advance
<1>2. rpc' \in {"poll", "scan", "ok"}
    BY DEF Advance, ParentEnds
<1>. QED
    BY <1>1, <1>2 DEF Advance

\* The parent keeps the types.
LEMMA FillTypes ==
    ASSUME TypeOK, NEW i \in Buffers, fill(i)
    PROVE  TypeOK'
<1> DEFINE k == Least(BufSize[i], Len(up[i]))
<1>1. /\ Advance(i)
      /\ data' = [data EXCEPT ![i] = Front(up[i], k)]
      /\ available' = [available EXCEPT ![i] = k]
      /\ up' = [up EXCEPT ![i] = Rest(@, k)]
      /\ side' = [side EXCEPT ![i] = "write"]
      /\ UNCHANGED down
    BY DEF fill
<1>2. up[i] \in Seq(Bytes) /\ BufSize[i] \in Nat
    BY DEF TypeOK
<1>3. /\ k \in 0 .. Len(up[i]) /\ k <= BufSize[i]
      /\ Front(up[i], k) \in Seq(Bytes) /\ Len(Front(up[i], k)) = k
    BY <1>2, Bite
<1> HIDE DEF k
<1>4. up' \in [Buffers -> Seq(Bytes)] /\ Bounded(up')
    BY <1>1, <1>3, ReadTypes, Typed
<1>5. /\ data' \in [Buffers -> Seq(Bytes)] /\ available' \in [Buffers -> Nat]
      /\ \A j \in Buffers : available'[j] <= Len(data'[j]) /\ Len(data'[j]) <= BufSize[j]
  <2>1. /\ data \in [Buffers -> Seq(Bytes)] /\ available \in [Buffers -> Nat]
        /\ \A j \in Buffers : available[j] <= Len(data[j]) /\ Len(data[j]) <= BufSize[j]
    BY DEF TypeOK
  <2>2. /\ data' \in [Buffers -> Seq(Bytes)] /\ data'[i] = Front(up[i], k)
        /\ \A j \in Buffers \ {i} : data'[j] = data[j]
    BY <1>1, <1>3, <2>1, Updates
  <2>3. /\ available' \in [Buffers -> Nat] /\ available'[i] = k
        /\ \A j \in Buffers \ {i} : available'[j] = available[j]
    BY <1>1, <1>3, <2>1
  <2>4. ASSUME NEW j \in Buffers
        PROVE  available'[j] <= Len(data'[j]) /\ Len(data'[j]) <= BufSize[j]
    <3>1. CASE j = i
      BY <1>3, <2>2, <2>3, <3>1
    <3>2. CASE j # i
      BY <2>1, <2>2, <2>3, <3>2
    <3>. QED
      BY <3>1, <3>2
  <2>. QED
    BY <2>2, <2>3, <2>4
<1>. QED
    BY <1>1, <1>4, <1>5, AdvanceTypes DEF TypeOK, AllEnds, Bounded

\* So does a write() from a buffer.
LEMMA DrainTypes ==
    ASSUME TypeOK, NEW i \in Buffers, drain(i)
    PROVE  TypeOK'
<1> DEFINE k == Accepted(down[i], available[i])
<1>1. /\ Advance(i)
      /\ down' = [down EXCEPT ![i] = @ \o Front(data[i], k)]
      /\ available' = [available EXCEPT ![i] = available[i] - k]
      /\ side' = [side EXCEPT ![i] = IF available[i] - k = 0 THEN "read" ELSE @]
      /\ UNCHANGED <<up, data>>
    BY DEF drain, Remains
<1>2. /\ down[i] \in Seq(Bytes) /\ data[i] \in Seq(Bytes) /\ available[i] \in Nat
      /\ available[i] <= Len(data[i]) /\ Free(down[i]) \in Nat
    BY DEF TypeOK, Free
<1>3. k \in 0 .. Len(data[i]) /\ k <= available[i] /\ k <= Free(down[i])
    BY <1>2 DEF Accepted, Least
<1>4. Front(data[i], k) \in Seq(Bytes) /\ Len(Front(data[i], k)) = k
    BY <1>2, <1>3, Cut
<1> HIDE DEF k
<1>5. down' \in [Buffers -> Seq(Bytes)] /\ Bounded(down')
    BY <1>1, <1>3, <1>4, WriteTypes, Typed
<1>6. /\ available' \in [Buffers -> Nat]
      /\ \A j \in Buffers : available'[j] <= Len(data[j]) /\ Len(data[j]) <= BufSize[j]
  <2>1. /\ available \in [Buffers -> Nat]
        /\ \A j \in Buffers : available[j] <= Len(data[j]) /\ Len(data[j]) <= BufSize[j]
    BY DEF TypeOK
  <2>2. k \in Nat /\ available[i] - k \in Nat /\ available[i] - k <= available[i] /\ Len(data[i]) \in Nat
    BY <1>2, <1>3
  <2>3. /\ available' \in [Buffers -> Nat] /\ available'[i] = available[i] - k
        /\ \A j \in Buffers \ {i} : available'[j] = available[j]
    BY <1>1, <2>1, <2>2
  <2>4. ASSUME NEW j \in Buffers PROVE available'[j] <= Len(data[j])
    <3>1. available'[j] \in Nat /\ available[j] \in Nat /\ available'[j] <= available[j]
      <4>1. available[j] \in Nat /\ available'[j] \in Nat
        BY <2>1, <2>3
      <4>2. CASE j = i
        BY <2>2, <2>3, <4>1, <4>2
      <4>3. CASE j # i
        BY <2>3, <4>1, <4>3
      <4>. QED
        BY <4>1, <4>2, <4>3
    <3>2. data[j] \in Seq(Bytes) /\ available[j] <= Len(data[j])
      BY <2>1 DEF TypeOK
    <3>. QED
      BY <3>1, <3>2
  <2>. QED
    BY <2>1, <2>3, <2>4
<1>7. side' \in [Buffers -> {"read", "write", "both"}]
    BY <1>1 DEF TypeOK
<1>. QED
    BY <1>1, <1>5, <1>6, <1>7, AdvanceTypes DEF TypeOK, AllEnds, Bounded

\* What poll() answers.
LEMMA TestsTypes ==
    ASSUME NEW i \in Buffers
    PROVE  Tests(i) \in [can_read : BOOLEAN, can_write : BOOLEAN, can_finish : BOOLEAN]
    BY DEF Tests

\* The types are kept by every step.
LEMMA StepTypes ==
    ASSUME TypeOK, [Next]_vars
    PROVE  TypeOK'
<1>1. CASE openPipes \/ fork \/ parentCloses
    BY <1>1, SpawnTypes
<1>2. CASE poll
  <2>1. ev' \in [Buffers -> [can_read : BOOLEAN, can_write : BOOLEAN, can_finish : BOOLEAN]]
    BY <1>2, TestsTypes DEF poll
  <2>2. rpc' = "scan" /\ cursor' \in Children
    BY <1>2 DEF poll
  <2>. QED
    BY <1>2, <2>1, <2>2 DEF poll, TypeOK
<1>3. ASSUME NEW i \in Buffers, brokenPipe(i) PROVE TypeOK'
  <2>1. rpc' \in Ended /\ holds' \in [Procs -> SUBSET AllEnds]
    BY <1>3, ParentTypes DEF brokenPipe
  <2>. QED
    BY <1>3, <2>1 DEF brokenPipe, TypeOK, AllEnds
<1>4. ASSUME NEW i \in Buffers, pass(i) PROVE TypeOK'
  <2>1. side' \in [Buffers -> {"read", "write", "both"}]
    BY <1>4 DEF pass, TypeOK
  <2>. QED
    BY <1>4, <2>1, AdvanceTypes DEF pass, TypeOK, AllEnds
<1>5. CASE parentKilled
  <2>1. rpc' \in Ended /\ holds' \in [Procs -> SUBSET AllEnds]
    BY <1>5, ParentTypes DEF parentKilled
  <2>. QED
    BY <1>5, <2>1 DEF parentKilled, TypeOK, AllEnds
<1>6. ASSUME NEW i \in Children, childKilled(i) PROVE TypeOK'
  <2>1. cpc' \in [Children -> ChildLabels] /\ holds' \in [Procs -> SUBSET AllEnds]
    BY <1>6, ChildGoesTypes DEF childKilled, ChildLabels
  <2>. QED
    BY <1>6, <2>1 DEF childKilled, TypeOK, ChildLabels, AllEnds
<1>7. ASSUME NEW i \in Children, child(i) PROVE TypeOK'
    BY <1>7, SpawnTypes, ReadFileTypes, ReadPipeTypes, WritePipeTypes, WriteOutTypes DEF child
<1>8. CASE UNCHANGED vars
    BY <1>8 DEF vars, TypeOK
<1>. QED
    BY <1>1, <1>2, <1>3, <1>4, <1>5, <1>6, <1>7, <1>8, FillTypes, DrainTypes DEF Next, relay

-----------------------------------------------------------------------------
(* Ends.                                                                   *)

\* The parent has the read end of the pipe of each buffer that is not closed.
LEMMA PairsNotClosed ==
    ASSUME TypeOK, NEW S \in SUBSET Buffers, holds[Parent] = Pairs(S)
    PROVE  NotClosed = S
    BY InPairs DEF NotClosed, Closed

\* At the start nobody has a pipe.
LEMMA InitEnds == Init => Ends
<1> SUFFICES ASSUME Init PROVE Ends
    OBVIOUS
<1>1. Inherited(0) = {}
    BY DEF Inherited
<1>2. ParentHas
    BY <1>1 DEF Init, ParentHas
<1>3. Spawned /\ \A i \in Children : ChildHas(i)
    BY DEF Init, Spawned, ChildHas
<1>. QED
    BY <1>2, <1>3 DEF Ends

\* pipe() gives the parent the pipes of the next child.
LEMMA OpenPipesEnds ==
    ASSUME TypeOK, Ends, openPipes
    PROVE  Ends'
<1>1. /\ rpc = "pipe" /\ rpc' = "fork" /\ cursor' = cursor /\ cpc' = cpc
      /\ holds' = [holds EXCEPT ![Parent] = @ \cup Made(cursor)]
    BY DEF openPipes
<1>2. /\ holds'[Parent] = holds[Parent] \cup Made(cursor)
      /\ \A i \in Children : holds'[i] = holds[i]
    BY <1>1 DEF TypeOK
<1>3. ParentHas'
    BY <1>1, <1>2 DEF Ends, ParentHas
<1>4. Spawned' /\ \A i \in Children : ChildHas(i)'
    BY <1>1, <1>2 DEF Ends, Spawned, ChildHas
<1>. QED
    BY <1>3, <1>4 DEF Ends

\* fork() gives them to the child.
LEMMA ForkEnds ==
    ASSUME TypeOK, Ends, fork
    PROVE  Ends'
<1>1. /\ rpc = "fork" /\ rpc' = "close" /\ cursor' = cursor
      /\ holds' = [holds EXCEPT ![cursor] = holds[Parent]]
      /\ cpc' = [cpc EXCEPT ![cursor] = "forked"]
    BY DEF fork
<1>2. cursor \in Children
    BY DEF TypeOK
<1>3. /\ holds'[cursor] = holds[Parent] /\ holds'[Parent] = holds[Parent]
      /\ cpc'[cursor] = "forked"
      /\ \A i \in Children \ {cursor} : holds'[i] = holds[i] /\ cpc'[i] = cpc[i]
    BY <1>1, <1>2 DEF TypeOK
<1>4. holds[Parent] = Inherited(cursor) \cup Made(cursor)
    BY <1>1 DEF Ends, ParentHas
<1>5. ParentHas'
    BY <1>1, <1>3, <1>4 DEF ParentHas
<1>6. Spawned'
    BY <1>1, <1>2, <1>3 DEF Ends, Spawned
<1>7. ASSUME NEW i \in Children PROVE ChildHas(i)'
    BY <1>3, <1>4 DEF Ends, ChildHas
<1>. QED
    BY <1>5, <1>6, <1>7 DEF Ends

\* The parent closes the child's ends: what is left the next child inherits, or
\* it is a pair for each buffer.
LEMMA ParentClosesEnds ==
    ASSUME TypeOK, Ends, parentCloses
    PROVE  Ends' /\ (rpc' = "poll" => NotClosed' = Buffers)
<1> DEFINE L == (Inherited(cursor) \cup Made(cursor)) \ {Down(cursor - 1, "read"), Up(cursor, "write")}
<1>1. /\ rpc = "close" /\ cpc' = cpc
      /\ holds' = [holds EXCEPT ![Parent] = @ \ {Down(cursor - 1, "read"), Up(cursor, "write")}]
      /\ IF cursor < n - 1
         THEN cursor' = cursor + 1 /\ rpc' = "pipe"
         ELSE cursor' = 0 /\ rpc' = "poll"
    BY DEF parentCloses, Closes
<1>2. cursor \in Children
    BY DEF TypeOK
<1>3. holds[Parent] = Inherited(cursor) \cup Made(cursor)
    BY <1>1 DEF Ends, ParentHas
<1>4. holds'[Parent] = L /\ \A i \in Children : holds'[i] = holds[i]
    BY <1>1, <1>3 DEF TypeOK
<1>5. \A i \in Children : ChildHas(i)'
    BY <1>1, <1>4 DEF Ends, ChildHas
<1>6. \A i \in Children : cpc[i] # "unborn" <=> i <= cursor
    BY <1>1 DEF Ends, Spawned
<1>7. CASE cursor < n - 1
  <2>1. L = Inherited(cursor + 1)
    BY <1>2, <1>7, ClosesMade
  <2>2. ParentHas'
    BY <1>1, <1>4, <1>7, <2>1 DEF ParentHas
  <2>3. Spawned'
    BY <1>1, <1>2, <1>6, <1>7 DEF Spawned
  <2>. QED
    BY <1>1, <1>5, <1>7, <2>2, <2>3 DEF Ends
<1>8. CASE ~(cursor < n - 1)
  <2>1. L = Pairs(Buffers)
    BY <1>2, <1>8, ClosesMade
  <2>2. holds'[Parent] = Pairs(Buffers)
    BY <1>4, <2>1
  <2>3. NotClosed' = Buffers
    BY <2>2, InPairs DEF NotClosed, Closed
  <2>4. ParentHas'
    BY <1>1, <1>8, <2>2, <2>3 DEF ParentHas
  <2>5. Spawned'
    BY <1>1, <1>2, <1>6, <1>8 DEF Spawned
  <2>. QED
    BY <1>5, <2>3, <2>4, <2>5 DEF Ends
<1>. QED
    BY <1>7, <1>8

\* A step that changes neither the parent's place nor its ends.
LEMMA ParentKeeps ==
    ASSUME Ends, rpc' = rpc, cursor' = cursor, holds'[Parent] = holds[Parent],
           \A i \in Children : cpc'[i] # "unborn" <=> cpc[i] # "unborn"
    PROVE  Spawned' /\ ParentHas'
<1>1. NotClosed' = NotClosed
    BY DEF NotClosed, Closed
<1>. QED
    BY <1>1 DEF Ends, Spawned, ParentHas

\* A child closes what is not its own.
LEMMA ChildClosesEnds ==
    ASSUME TypeOK, Ends, NEW i \in Children, childCloses(i)
    PROVE  Ends'
<1> DEFINE L == (Inherited(i) \cup Made(i)) \ (Inherited(i) \cup {Down(i - 1, "write"), Up(i, "read")})
<1>1. /\ cpc[i] = "forked" /\ cpc' = [cpc EXCEPT ![i] = "read"]
      /\ holds' = [holds EXCEPT ![i] = @ \ (Inherited(i) \cup {Down(i - 1, "write"), Up(i, "read")})]
      /\ UNCHANGED <<rpc, cursor>>
    BY DEF childCloses, Closes
<1>2. holds[i] = Inherited(i) \cup Made(i)
    BY <1>1 DEF Ends, ChildHas
<1>3. /\ holds'[i] = L /\ holds'[Parent] = holds[Parent]
      /\ \A j \in Children \ {i} : holds'[j] = holds[j] /\ cpc'[j] = cpc[j]
      /\ cpc'[i] = "read"
    BY <1>1, <1>2 DEF TypeOK
<1>4. L = Own(i)
    BY ClosesInherited
<1>5. ASSUME NEW j \in Children PROVE ChildHas(j)'
    BY <1>3, <1>4 DEF Ends, ChildHas
<1>6. \A j \in Children : cpc'[j] # "unborn" <=> cpc[j] # "unborn"
    BY <1>1, <1>3
<1>7. Spawned' /\ ParentHas'
    BY <1>1, <1>3, <1>6, ParentKeeps
<1>. QED
    BY <1>5, <1>7 DEF Ends

\* What ChildGoes() changes.
LEMMA ChildGoesTo ==
    ASSUME TypeOK, NEW i \in Children, NEW label, ChildGoes(i, label)
    PROVE  /\ cpc'[i] = label /\ holds'[i] = (IF label \in Ended THEN {} ELSE holds[i])
           /\ holds'[Parent] = holds[Parent]
           /\ \A j \in Children \ {i} : holds'[j] = holds[j] /\ cpc'[j] = cpc[j]
    BY DEF TypeOK, ChildGoes

\* A child reads and writes with its own ends, and closes them when it ends.
LEMMA ChildGoesEnds ==
    ASSUME TypeOK, Ends, NEW i \in Children, NEW label, ChildGoes(i, label),
           UNCHANGED <<rpc, cursor>>, cpc[i] # "unborn",
           label \in {"read", "write"} => cpc[i] \in {"read", "write"},
           label \in {"read", "write"} \cup Ended
    PROVE  Ends'
<1>1. /\ cpc'[i] = label /\ holds'[i] = (IF label \in Ended THEN {} ELSE holds[i])
      /\ holds'[Parent] = holds[Parent]
      /\ \A j \in Children \ {i} : holds'[j] = holds[j] /\ cpc'[j] = cpc[j]
    BY ChildGoesTo
<1>2. ASSUME NEW j \in Children PROVE ChildHas(j)'
  <2>1. CASE j = i
    BY <1>1, <2>1 DEF Ends, ChildHas
  <2>2. CASE j # i
    BY <1>1, <2>2 DEF Ends, ChildHas
  <2>. QED
    BY <2>1, <2>2
<1>3. \A j \in Children : cpc'[j] # "unborn" <=> cpc[j] # "unborn"
    BY <1>1
<1>4. Spawned' /\ ParentHas'
    BY <1>1, <1>3, ParentKeeps
<1>. QED
    BY <1>2, <1>4 DEF Ends

\* The children's steps.
LEMMA ChildEndsStay ==
    ASSUME TypeOK, Ends, NEW i \in Children, child(i) \/ childKilled(i)
    PROVE  Ends'
<1>1. CASE childCloses(i)
    BY <1>1, ChildClosesEnds
<1>2. CASE i = 0 /\ readFile
    BY <1>2, ChildGoesEnds DEF readFile
<1>3. CASE readPipe(i)
    BY <1>3, ChildGoesEnds DEF readPipe
<1>4. CASE writePipe(i)
    BY <1>4, ChildGoesEnds DEF writePipe
<1>5. CASE i = n - 1 /\ writeOut
    BY <1>5, ChildGoesEnds DEF writeOut
<1>6. CASE childKilled(i)
    BY <1>6, ChildGoesEnds DEF childKilled
<1>. QED
    BY <1>1, <1>2, <1>3, <1>4, <1>5, <1>6 DEF child

\* The end of the parent closes everything.
LEMMA ParentEndsEnds ==
    ASSUME TypeOK, Ends, NEW label \in Ended, ParentEnds(label), cpc' = cpc,
           label = "ok" => rpc = "scan"
    PROVE  Ends'
<1>1. /\ rpc' = label /\ holds'[Parent] = {}
      /\ \A i \in Children : holds'[i] = holds[i]
    BY DEF TypeOK, ParentEnds
<1>. QED
    BY <1>1 DEF Ends, Spawned, ParentHas, ChildHas

\* The loop closes the pair of a buffer that is finished, and no other.
LEMMA AdvanceEnds ==
    ASSUME TypeOK, Ends, NEW i \in Buffers, Advance(i)
    PROVE  /\ Ends'
           /\ NotClosed' = IF i = n - 2 /\ Finishes(i) THEN {}
                           ELSE IF Finishes(i) THEN NotClosed \ {i} ELSE NotClosed
<1>1. rpc = "scan" /\ cpc' = cpc /\ holds[Parent] = Pairs(NotClosed)
    BY DEF Advance, Ends, ParentHas
<1>2. NotClosed \in SUBSET Buffers
    BY DEF NotClosed
<1>3. CASE i = n - 2 /\ Finishes(i)
  <2>1. ParentEnds("ok")
    BY <1>3 DEF Advance
  <2>2. Ends'
    BY <1>1, <2>1, ParentEndsEnds
  <2>3. holds'[Parent] = {}
    BY <2>1 DEF ParentEnds, TypeOK
  <2>. QED
    BY <1>3, <2>2, <2>3 DEF NotClosed, Closed
<1>4. CASE ~(i = n - 2 /\ Finishes(i))
  <2> DEFINE S == IF Finishes(i) THEN NotClosed \ {i} ELSE NotClosed
  <2>1. rpc' \in {"poll", "scan"}
    BY <1>1, <1>4 DEF Advance
  <2>2. holds'[Parent] = Pairs(S) /\ \A j \in Children : holds'[j] = holds[j]
    <3>1. CASE i < n - 2 /\ Finishes(i)
      <4>1. Closes(Parent, {Up(i, "read"), Down(i, "write")})
        BY <3>1 DEF Advance
      <4>2. /\ holds'[Parent] = Pairs(NotClosed) \ {Up(i, "read"), Down(i, "write")}
            /\ \A j \in Children : holds'[j] = holds[j]
        BY <1>1, <4>1 DEF Closes, TypeOK
      <4>3. NotClosed \in SUBSET Int /\ i \in Int
        BY <1>2
      <4>. QED
        BY <3>1, <4>2, <4>3, ClosesPair
    <3>2. CASE i < n - 2 /\ ~Finishes(i)
      <4>1. Closes(Parent, {})
        BY <3>2 DEF Advance
      <4>2. holds \in [Procs -> SUBSET AllEnds]
        BY Typed
      <4>3. holds'[Parent] = holds[Parent] /\ \A j \in Children : holds'[j] = holds[j]
        BY <4>1, <4>2 DEF Closes
      <4>. QED
        BY <1>1, <3>2, <4>3
    <3>3. CASE i = n - 2
      <4>1. UNCHANGED holds /\ ~Finishes(i)
        BY <1>4, <3>3 DEF Advance
      <4>. QED
        BY <1>1, <4>1
    <3>. QED
      BY <3>1, <3>2, <3>3
  <2> HIDE DEF S
  <2>3. S \in SUBSET Buffers
    BY <1>2 DEF S
  <2>4. NotClosed' = S
    BY <2>2, <2>3, InPairs DEF NotClosed, Closed
  <2>5. ParentHas'
    BY <2>1, <2>2, <2>4 DEF ParentHas
  <2>6. Spawned' /\ \A j \in Children : ChildHas(j)'
    BY <1>1, <2>1, <2>2 DEF Ends, Spawned, ChildHas
  <2>. QED
    BY <1>4, <2>4, <2>5, <2>6 DEF Ends, S
<1>. QED
    BY <1>3, <1>4

\* Every process has the ends that its place says.
LEMMA StepEnds ==
    ASSUME TypeOK, Ends, [Next]_vars
    PROVE  Ends'
<1>1. CASE poll
  <2>1. NotClosed' = NotClosed
    BY <1>1 DEF poll, NotClosed, Closed
  <2>. QED
    BY <1>1, <2>1 DEF poll, Ends, Spawned, ParentHas, ChildHas
<1>2. ASSUME NEW i \in Buffers, fill(i) \/ drain(i) \/ pass(i) PROVE Ends'
    BY <1>2, AdvanceEnds DEF fill, drain, pass
<1>3. ASSUME NEW i \in Buffers, brokenPipe(i) PROVE Ends'
    BY <1>3, ParentEndsEnds DEF brokenPipe
<1>4. CASE parentKilled
    BY <1>4, ParentEndsEnds DEF parentKilled
<1>5. CASE UNCHANGED vars
  <2>1. NotClosed' = NotClosed
    BY <1>5 DEF vars, NotClosed, Closed
  <2>. QED
    BY <1>5, <2>1 DEF vars, Ends, Spawned, ParentHas, ChildHas
<1>. QED
    BY <1>1, <1>2, <1>3, <1>4, <1>5, OpenPipesEnds, ForkEnds, ParentClosesEnds, ChildEndsStay
    DEF Next, relay

-----------------------------------------------------------------------------
(* Answers.                                                                *)

\* A child that has begun and not ended has its ends open.
LEMMA ChildsEnds ==
    ASSUME TypeOK, Ends, NEW i \in Children, cpc[i] \in {"forked", "read", "write"}
    PROVE  /\ i < n - 1 => UpWriter(i)
           /\ i > 0 => DownReader(i - 1)
<1>1. /\ i < n - 1 => Up(i, "write") \in holds[i]
      /\ i > 0 => Down(i - 1, "read") \in holds[i]
    BY InMade, InOwn DEF Ends, ChildHas
<1>. QED
    BY <1>1 DEF UpWriter, DownReader, Open

\* A child's step is close(), or it moves on.
LEMMA ChildMoves ==
    ASSUME NEW i \in Children, child(i) \/ childKilled(i)
    PROVE  (\E ends : Closes(i, ends)) \/ (\E l : ChildGoes(i, l))
<1>1. CASE childCloses(i)
    BY <1>1 DEF childCloses
<1>2. CASE i = 0 /\ readFile
    BY <1>2 DEF readFile
<1>3. CASE readPipe(i)
    BY <1>3 DEF readPipe
<1>4. CASE writePipe(i)
    BY <1>4 DEF writePipe
<1>5. CASE i = n - 1 /\ writeOut
    BY <1>5 DEF writeOut
<1>6. CASE childKilled(i)
    BY <1>6 DEF childKilled
<1>. QED
    BY <1>1, <1>2, <1>3, <1>4, <1>5, <1>6 DEF child

\* The loop of the parent and the children only close pipe ends.
LEMMA OnlyCloses ==
    ASSUME TypeOK, \/ \E i \in Children : child(i) \/ childKilled(i)
                   \/ \E i \in Buffers : Advance(i)
                   \/ UNCHANGED holds
    PROVE  \A x : Open(x)' => Open(x)
<1>1. holds \in [Procs -> SUBSET AllEnds]
    BY Typed
<1>2. ASSUME NEW p \in Procs, NEW q \in Procs PROVE holds'[q] \subseteq holds[q]
  <2>1. CASE UNCHANGED holds
    BY <2>1
  <2>2. ASSUME NEW i \in Procs, NEW ends, Closes(i, ends) PROVE holds'[q] \subseteq holds[q]
    BY <1>1, <2>2 DEF Closes
  <2>3. ASSUME NEW i \in Children, NEW l, ChildGoes(i, l) PROVE holds'[q] \subseteq holds[q]
    BY <1>1, <2>3 DEF ChildGoes
  <2>4. ASSUME ParentEnds("ok") PROVE holds'[q] \subseteq holds[q]
    BY <1>1, <2>4 DEF ParentEnds
  <2>5. ASSUME NEW i \in Children, child(i) \/ childKilled(i) PROVE holds'[q] \subseteq holds[q]
    BY <2>2, <2>3, <2>5, ChildMoves
  <2>6. ASSUME NEW i \in Buffers, Advance(i) PROVE holds'[q] \subseteq holds[q]
    <3>1. (\E ends : Closes(Parent, ends)) \/ ParentEnds("ok") \/ UNCHANGED holds
      BY <2>6 DEF Advance
    <3>. QED
      BY <2>1, <2>2, <2>4, <3>1
  <2>. QED
    BY <2>1, <2>5, <2>6
<1>. QED
    BY <1>2 DEF Open

\* What was said of a buffer is still so while the others go on.
LEMMA StillAnswered ==
    ASSUME NEW i \in Buffers, Answered(i), ev'[i] = ev[i], side'[i] = side[i],
           Closed(i)' <=> Closed(i), \A x : Open(x)' => Open(x),
           up[i] # <<>> => up'[i] # <<>>,
           up[i] = <<>> /\ ~UpWriter(i) => up'[i] = <<>>,
           Free(down[i]) >= PipeBuf => Free(down[i])' >= PipeBuf
    PROVE  Answered(i)'
<1>1. ev[i].can_finish => Hup(i) \/ Err(i) 
    BY DEF Answered
<1>2. Hup(i) => Hup(i)'
    BY DEF Hup, UpWriter
<1>3. Err(i) => Err(i)'
    BY DEF Err, DownReader
<1>. QED
    BY <1>2, <1>3 DEF Answered

\* poll() says how it is.
LEMMA PollAnswers ==
    ASSUME TypeOK, Answers, poll
    PROVE  Answers'
<1>1. /\ UNCHANGED <<holds, pipes, children, side, data, available>>
      /\ rpc' = "scan" /\ cursor' = 0 /\ ev' = [i \in Buffers |-> Tests(i)]
    BY DEF poll
<1>2. 0 \in Buffers
    OBVIOUS
<1>3. ASSUME NEW i \in Buffers PROVE Answered(i)'
  <2>1. ev'[i] = Tests(i)
    BY <1>1
  <2>2. Closed(i)' <=> Closed(i)
    BY <1>1 DEF Closed
  <2>3. (Hup(i)' <=> Hup(i)) /\ (Err(i)' <=> Err(i))
    BY <1>1 DEF Hup, Err, UpWriter, DownReader, Open
  <2>. QED
    BY <1>1, <2>1, <2>2, <2>3 DEF Tests, Answered
<1>4. \A i \in Buffers : side'[i] = "read" => available'[i] = 0
    BY <1>1 DEF Answers
<1>5. \A i \in Children : cpc'[i] \notin {"write", "killed"} => chunk'[i] = <<>>
    BY <1>1 DEF Answers
<1>. QED
    BY <1>1, <1>2, <1>3, <1>4, <1>5 DEF Answers

\* A sequence is empty if it is not longer.
LEMMA EmptyIs == \A s \in Seq(Bytes) : Len(s) = 0 <=> s = <<>>
    BY EmptySeq

\* What a child has in its chunk when it goes on.
LEMMA ChunkEmpty ==
    ASSUME TypeOK, Answers, NEW i \in Children, child(i) \/ childKilled(i)
    PROVE  \A j \in Children : cpc'[j] \notin {"write", "killed"} => chunk'[j] = <<>>
<1>1. /\ cpc \in [Children -> ChildLabels] /\ chunk \in [Children -> Seq(Bytes)]
      /\ \A j \in Children : cpc[j] \notin {"write", "killed"} => chunk[j] = <<>>
    BY Typed DEF Answers
<1>2. CASE childCloses(i)
    BY <1>1, <1>2 DEF childCloses
<1>3. CASE i = 0 /\ readFile
  <2> DEFINE k == Least(ChildBuf, Len(File) - taken)
  <2>1. /\ chunk' = [chunk EXCEPT ![0] = SubSeq(File, taken + 1, taken + k)]
        /\ cpc' = [cpc EXCEPT ![0] = IF k > 0 THEN "write" ELSE "ok"]
    BY <1>3 DEF readFile, ChildGoes
  <2>2. k \in Nat /\ taken \in Nat
    <3>1. taken \in Nat /\ Len(File) \in Nat /\ taken <= Len(File) /\ ChildBuf \in Nat
      BY DEF TypeOK
    <3>2. Len(File) - taken \in Nat
      BY <3>1
    <3>. QED
      BY <3>1, <3>2, LeastIs
  <2> HIDE DEF k
  <2>3. k = 0 => SubSeq(File, taken + 1, taken + k) = <<>>
    BY <2>2, SubSeqEmpty
  <2>. QED
    BY <1>1, <2>1, <2>2, <2>3
<1>4. CASE readPipe(i)
  <2> DEFINE k == Least(ChildBuf, Len(down[i - 1]))
  <2>1. /\ chunk' = [chunk EXCEPT ![i] = Front(down[i - 1], k)]
        /\ cpc' = [cpc EXCEPT ![i] = IF k > 0 THEN "write" ELSE "ok"]
        /\ i - 1 \in Buffers
    BY <1>4 DEF readPipe, ChildGoes
  <2>2. down[i - 1] \in Seq(Bytes) /\ ChildBuf \in Nat
    BY <2>1, Typed
  <2>3. k \in 0 .. Len(down[i - 1]) /\ Front(down[i - 1], k) \in Seq(Bytes) /\ Len(Front(down[i - 1], k)) = k
    BY <2>2, Bite
  <2> HIDE DEF k
  <2>4. k = 0 => Front(down[i - 1], k) = <<>>
    BY <2>3, EmptyIs
  <2>. QED
    BY <1>1, <2>1, <2>3, <2>4
<1>5. CASE writePipe(i)
  <2>1. chunk' = [chunk EXCEPT ![i] = <<>>] /\ \E l : cpc' = [cpc EXCEPT ![i] = l]
    BY <1>5 DEF writePipe, ChildGoes
  <2>. QED
    BY <1>1, <2>1
<1>6. CASE i = n - 1 /\ writeOut
  <2>1. PICK k \in 1 .. Len(chunk[i]) :
            /\ chunk' = [chunk EXCEPT ![i] = Rest(@, k)]
            /\ cpc' = [cpc EXCEPT ![i] = IF k < Len(chunk[i]) THEN "write" ELSE "read"]
    BY <1>6 DEF writeOut, ChildGoes, Left
  <2>2. chunk[i] \in Seq(Bytes) /\ k \in 0 .. Len(chunk[i])
    BY <1>1
  <2>3. Rest(chunk[i], k) \in Seq(Bytes) /\ Len(Rest(chunk[i], k)) = Len(chunk[i]) - k
    BY <2>2, Cut
  <2>4. ~(k < Len(chunk[i])) => Rest(chunk[i], k) = <<>>
    BY <2>2, <2>3, EmptyIs
  <2>. QED
    BY <1>1, <2>1, <2>4
<1>7. CASE childKilled(i)
    BY <1>1, <1>7 DEF childKilled, ChildGoes
<1>. QED
    BY <1>2, <1>3, <1>4, <1>5, <1>6, <1>7 DEF child

\* The children do not make the answers of poll() wrong.
LEMMA ChildAnswers ==
    ASSUME TypeOK, Ends, Answers, NEW i \in Children, child(i) \/ childKilled(i)
    PROVE  Answers'
<1>1. UNCHANGED relayed
    BY DEF child, childCloses, readFile, readPipe, writePipe, writeOut, childKilled
<1>2. holds'[Parent] = holds[Parent]
  <2>1. holds \in [Procs -> SUBSET AllEnds]
    BY Typed
  <2>2. i # Parent
    OBVIOUS
  <2>. QED
    BY <2>1, <2>2, ChildMoves DEF ChildGoes, Closes
<1>3. \A x : Open(x)' => Open(x)
    BY OnlyCloses
<1>4. ASSUME NEW j \in Buffers
      PROVE  /\ up[j] # <<>> => up'[j] # <<>>
             /\ up[j] = <<>> /\ ~UpWriter(j) => up'[j] = <<>>
  <2>1. up[j] \in Seq(Bytes) /\ up \in [Buffers -> Seq(Bytes)]
    BY Typed
  <2>2. CASE up'[j] = up[j]
    BY <2>2
  <2>3. CASE up'[j] # up[j]
    <3>1. writePipe(i) /\ ~UNCHANGED up
      BY <2>3 DEF child, childCloses, readFile, readPipe, writePipe, writeOut, childKilled
    <3>2. i = j /\ cpc[i] = "write" /\ i < n - 1 /\ up'[j] = up[j] \o chunk[j]
      BY <2>1, <2>3, <3>1 DEF writePipe
    <3>3. UpWriter(j)
      BY <3>2, ChildsEnds
    <3>4. chunk[j] \in Seq(Bytes)
      BY <3>2, Typed
    <3>5. up[j] \o chunk[j] \in Seq(Bytes) /\ Len(up[j] \o chunk[j]) = Len(up[j]) + Len(chunk[j])
      BY <2>1, <3>4, Joined
    <3>6. up[j] # <<>> => up'[j] # <<>>
      BY <2>1, <3>2, <3>4, <3>5, EmptyIs
    <3>. QED
      BY <3>3, <3>6
  <2>. QED
    BY <2>2, <2>3
<1>5. ASSUME NEW j \in Buffers PROVE Free(down[j]) >= PipeBuf => Free(down[j])' >= PipeBuf
  <2>1. CASE UNCHANGED down
    BY <2>1 DEF Free
  <2>2. CASE readPipe(i)
    <3> DEFINE k == Least(ChildBuf, Len(down[i - 1]))
    <3>1. down' = [down EXCEPT ![i - 1] = Rest(@, k)] /\ i - 1 \in Buffers
      BY <2>2 DEF readPipe
    <3>2. down[i - 1] \in Seq(Bytes) /\ ChildBuf \in Nat /\ down \in [Buffers -> Seq(Bytes)]
      BY <3>1, Typed
    <3>3. k \in 0 .. Len(down[i - 1]) /\ Len(Rest(down[i - 1], k)) = Len(down[i - 1]) - k
      BY <3>2, Bite
    <3> HIDE DEF k
    <3>4. CASE j = i - 1
      BY <3>1, <3>2, <3>3, <3>4 DEF Free
    <3>5. CASE j # i - 1
      BY <3>1, <3>2, <3>5 DEF Free
    <3>. QED
      BY <3>4, <3>5
  <2>. QED
    BY <2>1, <2>2 DEF child, childCloses, readFile, readPipe, writePipe, writeOut, childKilled
<1>6. ASSUME NEW j \in Buffers, Answered(j) PROVE Answered(j)'
  <2>1. Closed(j)' <=> Closed(j)
    BY <1>2 DEF Closed
  <2>. QED
    BY <1>1, <1>3, <1>4, <1>5, <1>6, <2>1, StillAnswered
<1>7. \A j \in Children : cpc'[j] \notin {"write", "killed"} => chunk'[j] = <<>>
    BY ChunkEmpty
<1>. QED
    BY <1>1, <1>6, <1>7 DEF Answers

\* The turn of one buffer does not change what was said of the next ones.
LEMMA AdvanceAnswers ==
    ASSUME TypeOK, Ends, Answers, NEW i \in Buffers, Advance(i),
           \A j \in Buffers \ {i} : side'[j] = side[j] /\ up'[j] = up[j] /\ down'[j] = down[j]
    PROVE  /\ rpc' = "scan" => cursor' \in Buffers /\ \A j \in Buffers : cursor' <= j => Answered(j)'
           /\ \A j \in Children : cpc'[j] \notin {"write", "killed"} => chunk'[j] = <<>>
<1>1. /\ rpc = "scan" /\ cursor = i /\ UNCHANGED <<children, ev>>
      /\ rpc' = "scan" => i < n - 2 /\ cursor' = i + 1
    BY DEF Advance, ParentEnds
<1>2. \A x : Open(x)' => Open(x)
    BY OnlyCloses
<1>3. ASSUME rpc' = "scan", NEW j \in Buffers, i < j PROVE Answered(j)'
  <2>1. Answered(j)
    BY <1>1, <1>3 DEF Answers
  <2>2. Closed(j)' <=> Closed(j)
    BY <1>1, <1>3, AdvanceEnds DEF NotClosed
  <2>3. /\ ev'[j] = ev[j] /\ side'[j] = side[j]
        /\ up[j] # <<>> => up'[j] # <<>>
        /\ up[j] = <<>> /\ ~UpWriter(j) => up'[j] = <<>>
        /\ Free(down[j]) >= PipeBuf => Free(down[j])' >= PipeBuf
    BY <1>1, <1>3 DEF Free
  <2>. QED
    BY <1>2, <2>1, <2>2, <2>3, StillAnswered
<1>4. ASSUME rpc' = "scan", NEW j \in Buffers, cursor' <= j PROVE Answered(j)'
    BY <1>1, <1>3, <1>4
<1>5. rpc' = "scan" => cursor' \in Buffers
    BY <1>1
<1>6. \A j \in Children : cpc'[j] \notin {"write", "killed"} => chunk'[j] = <<>>
    BY <1>1 DEF Answers
<1>. QED
    BY <1>4, <1>5, <1>6

\* A buffer is emptied before it is read into.
LEMMA TurnAnswers ==
    ASSUME TypeOK, Ends, Answers, NEW i \in Buffers, fill(i) \/ drain(i) \/ pass(i)
    PROVE  Answers'
<1>1. /\ up \in [Buffers -> Seq(Bytes)] /\ down \in [Buffers -> Seq(Bytes)]
      /\ side \in [Buffers -> {"read", "write", "both"}] /\ available \in [Buffers -> Nat]
    BY Typed
<1>2. Advance(i)
    BY DEF fill, drain, pass
<1>3. \A j \in Buffers \ {i} : side'[j] = side[j] /\ up'[j] = up[j] /\ down'[j] = down[j]
                                   /\ available'[j] = available[j]
    BY <1>1 DEF fill, drain, pass
<1>4. side'[i] = "read" => available'[i] = 0
  <2>1. side[i] = "read" => available[i] = 0
    BY DEF Answers
  <2>2. CASE fill(i)
    BY <1>1, <2>2 DEF fill
  <2>3. CASE drain(i)
    <3>1. PICK k : /\ available' = [available EXCEPT ![i] = Remains(i, k)]
                   /\ side' = [side EXCEPT ![i] = IF Remains(i, k) = 0 THEN "read" ELSE @]
      BY <2>3 DEF drain
    <3>2. available[i] > 0
      BY <2>3 DEF drain, Drains
    <3>. QED
      BY <1>1, <2>1, <3>1, <3>2
  <2>4. CASE pass(i)
    BY <1>1, <2>1, <2>4 DEF pass
  <2>. QED
    BY <2>2, <2>3, <2>4
<1>5. \A j \in Buffers : side'[j] = "read" => available'[j] = 0
    BY <1>3, <1>4 DEF Answers
<1>6. /\ rpc' = "scan" => cursor' \in Buffers /\ \A j \in Buffers : cursor' <= j => Answered(j)'
      /\ \A j \in Children : cpc'[j] \notin {"write", "killed"} => chunk'[j] = <<>>
    BY <1>2, <1>3, AdvanceAnswers
<1>. QED
    BY <1>5, <1>6 DEF Answers

\* A step of the parent outside of its loop, or its end.
LEMMA OtherAnswers ==
    ASSUME TypeOK, Answers, openPipes \/ parentCloses \/ parentKilled \/ \E i \in Buffers : brokenPipe(i)
    PROVE  Answers'
<1>1. /\ UNCHANGED <<pipes, children, buffers>> /\ rpc' # "scan"
    BY DEF openPipes, parentCloses, parentKilled, brokenPipe, ParentEnds
<1>. QED
    BY <1>1 DEF Answers

\* What poll() said is so, whatever happens in between.
LEMMA StepAnswers ==
    ASSUME TypeOK, Ends, Answers, [Next]_vars
    PROVE  Answers'
<1>1. CASE fork
  <2>1. /\ rpc' # "scan" /\ UNCHANGED <<chunk, buffers>> /\ cpc' = [cpc EXCEPT ![cursor] = "forked"]
        /\ cpc[cursor] = "unborn"
    BY <1>1 DEF fork, Ends, Spawned, TypeOK
  <2>. QED
    BY <2>1 DEF Answers, TypeOK
<1>2. CASE UNCHANGED vars
  <2>1. UNCHANGED <<holds, pipes, children, relayed>>
    BY <1>2 DEF vars
  <2>2. \A i \in Buffers : Answered(i)' <=> Answered(i)
    BY <2>1 DEF Answered, Closed, Hup, Err, UpWriter, DownReader, Open, Free
  <2>. QED
    BY <2>1, <2>2 DEF Answers
<1>. QED
    BY <1>1, <1>2, PollAnswers, ChildAnswers, TurnAnswers, OtherAnswers DEF Next, relay

-----------------------------------------------------------------------------
(* Quiet: behaviours without faults.                                       *)

\* A set of natural numbers with 0 and with the successor of each is Nat.
LEMMA NatSetInduction ==
    ASSUME NEW S, 0 \in S, \A k \in Nat : k \in S => k + 1 \in S
    PROVE  Nat \subseteq S
<1> DEFINE R == OpToRel(<, Nat)
           T == Nat \ S
<1>1. IsWellFoundedOn(R, Nat)
    BY NatLessThanWellFounded
<1>2. \A x, y \in Nat : x < y => <<x, y>> \in R
    BY DEF OpToRel
<1> HIDE DEF R
<1> SUFFICES ASSUME T # {} PROVE FALSE
    OBVIOUS
<1>3. PICK x \in T : \A y \in T : ~(<<y, x>> \in R)
    BY <1>1, WFMin
<1>4. x \in Nat /\ x \notin S
    OBVIOUS
<1>5. x - 1 \in Nat /\ x - 1 < x /\ x = (x - 1) + 1
    BY <1>4
<1>6. x - 1 \in S
    BY <1>2, <1>3, <1>4, <1>5, Zenon
<1>. QED
    BY <1>4, <1>5, <1>6

\* The parent reads from every child that has not ended, and writes to every
\* child that has begun and not ended.
LEMMA ParentsEnds ==
    ASSUME TypeOK, Ends, Quiet, ~faults, NEW i \in Buffers
    PROVE  /\ cpc[i] \in {"forked", "read", "write"} => UpReader(i)
           /\ cpc[i + 1] \in {"forked", "read", "write"} =>
                  DownWriter(i) \/ (rpc \in {"poll", "scan", "ok"} /\ Closed(i))
<1>1. i \in Children /\ i + 1 \in Children /\ i >= 0 /\ i < n - 1 /\ i \in Int
    OBVIOUS
<1>2. rpc \in {"pipe", "fork", "close", "poll", "scan", "ok"} /\ cursor \in Children
    BY DEF TypeOK, Quiet
<1>3. ASSUME cpc[i] \in {"forked", "read", "write"} PROVE Up(i, "read") \in holds[Parent]
  <2>1. CASE rpc \in {"pipe", "fork"}
    <3>1. i < cursor
      BY <1>1, <1>3, <2>1 DEF Ends, Spawned
    <3>2. Up(i, "read") \in Inherited(cursor)
      BY <1>1, <1>2, <3>1, InInherited
    <3>. QED
      BY <2>1, <3>2 DEF Ends, ParentHas
  <2>2. CASE rpc = "close"
    <3>1. i <= cursor
      BY <1>1, <1>3, <2>2 DEF Ends, Spawned
    <3>2. Up(i, "read") \in Inherited(cursor) \cup Made(cursor)
      BY <1>1, <1>2, <3>1, InInherited, InMade
    <3>. QED
      BY <2>2, <3>2 DEF Ends, ParentHas
  <2>3. CASE rpc \in {"poll", "scan", "ok"}
    BY <1>1, <1>3, <2>3 DEF Quiet, ClosedWhenDrained, Closed
  <2>. QED
    BY <1>2, <2>1, <2>2, <2>3
<1>4. ASSUME cpc[i + 1] \in {"forked", "read", "write"}
      PROVE  \/ Down(i, "write") \in holds[Parent]
             \/ rpc \in {"poll", "scan", "ok"} /\ Closed(i)
  <2>1. CASE rpc \in {"pipe", "fork"}
    <3>1. i + 1 < cursor
      BY <1>1, <1>4, <2>1 DEF Ends, Spawned
    <3>2. Down(i, "write") \in Inherited(cursor)
      BY <1>1, <1>2, <3>1, InInherited
    <3>. QED
      BY <2>1, <3>2 DEF Ends, ParentHas
  <2>2. CASE rpc = "close"
    <3>1. i + 1 <= cursor
      BY <1>1, <1>4, <2>2 DEF Ends, Spawned
    <3>2. Down(i, "write") \in Inherited(cursor) \cup Made(cursor)
      BY <1>1, <1>2, <3>1, InInherited, InMade
    <3>. QED
      BY <2>2, <3>2 DEF Ends, ParentHas
  <2>3. CASE rpc \in {"poll", "scan"}
    <3>1. holds[Parent] = Pairs(NotClosed)
      BY <2>3 DEF Ends, ParentHas
    <3>2. ~Closed(i) => Down(i, "write") \in Pairs(NotClosed)
      BY InPairs DEF NotClosed
    <3>. QED
      BY <2>3, <3>1, <3>2
  <2>4. CASE rpc = "ok"
    <3>1. holds[Parent] = {}
      BY <2>4 DEF Ends, ParentHas
    <3>. QED
      BY <2>4, <3>1 DEF Closed
  <2>. QED
    BY <1>2, <2>1, <2>2, <2>3, <2>4
<1>. QED
    BY <1>3, <1>4 DEF UpReader, DownWriter, Open

\* While a buffer is not closed, the child it leads to reads.
LEMMA ReaderThere ==
    ASSUME TypeOK, Ends, Quiet, ~faults, NEW i \in Buffers, rpc \in {"poll", "scan"}, ~Closed(i)
    PROVE  DownReader(i)
<1>1. i + 1 \in Children /\ i + 1 > 0 /\ (i + 1) - 1 = i
    OBVIOUS
<1>2. cpc[i + 1] \in {"forked", "read", "write"}
  <2>1. cpc[i + 1] \in ChildLabels /\ cpc[i + 1] # "unborn"
    BY <1>1, Typed DEF Ends, Spawned
  <2>. QED
    BY <1>1, <2>1 DEF Quiet, ChildLabels
<1>. QED
    BY <1>1, <1>2, ChildsEnds

\* The end of the file has come through all buffers before a child that has ended.
LEMMA AllBefore ==
    ASSUME TypeOK, Quiet, ~faults, NEW i \in Children, cpc[i] = "ok"
    PROVE  \A j \in Buffers : j < i => Closed(j) /\ rpc \in {"poll", "scan", "ok"}
<1> DEFINE S == {k \in Nat : k < i => cpc[i - k] = "ok" /\ Closed(i - k - 1)
                                         /\ rpc \in {"poll", "scan", "ok"}}
<1>1. \A j \in Buffers : cpc[j + 1] = "ok" => rpc \in {"poll", "scan", "ok"} /\ Closed(j)
    BY DEF Quiet
<1>2. rpc \in {"poll", "scan", "ok"} => \A j \in Buffers : Closed(j) => cpc[j] = "ok"
  <2>1. \A j \in Buffers : j \in Children /\ cpc[j] \notin {"sigpipe", "killed"}
    BY DEF Quiet
  <2>. QED
    BY <2>1 DEF Quiet, ClosedWhenDrained
<1>3. 0 \in S
  <2>1. ASSUME 0 < i PROVE i - 0 = i /\ i - 0 - 1 \in Buffers /\ i = (i - 0 - 1) + 1
    BY <2>1
  <2>. QED
    BY <1>1, <2>1
<1>4. ASSUME NEW k \in Nat, k \in S PROVE k + 1 \in S
  <2>1. SUFFICES ASSUME k + 1 < i
                 PROVE  cpc[i - (k + 1)] = "ok" /\ Closed(i - (k + 1) - 1) /\ rpc \in {"poll", "scan", "ok"}
    OBVIOUS
  <2>2. /\ i - k - 1 \in Buffers /\ i - (k + 1) = i - k - 1
        /\ i - (k + 1) - 1 \in Buffers /\ (i - (k + 1) - 1) + 1 = i - (k + 1)
    BY <2>1
  <2>3. Closed(i - k - 1) /\ rpc \in {"poll", "scan", "ok"}
    BY <1>4, <2>1
  <2>4. cpc[i - k - 1] = "ok"
    BY <1>2, <2>2, <2>3
  <2>. QED
    BY <1>1, <2>2, <2>3, <2>4
<1>5. Nat \subseteq S
    BY <1>3, <1>4, NatSetInduction
<1>6. ASSUME NEW j \in Buffers, j < i PROVE Closed(j) /\ rpc \in {"poll", "scan", "ok"}
  <2>1. i - j - 1 \in Nat /\ i - j - 1 < i /\ i - (i - j - 1) - 1 = j
    BY <1>6
  <2>. QED
    BY <1>5, <2>1
<1>. QED
    BY <1>6

\* A buffer finishes when it is empty and the child before it has ended.
LEMMA FinishesDrained ==
    ASSUME TypeOK, Ends, Answers, Quiet, ~faults, NEW i \in Buffers,
           rpc = "scan", cursor = i, Finishes(i)
    PROVE  available[i] = 0 /\ up[i] = <<>> /\ ChildEnded(i) /\ ~Fills(i) /\ ~Drains(i)
<1>1. Answered(i) /\ (side[i] = "read" => available[i] = 0)
    BY DEF Answers
<1>2. side[i] = "read" /\ Hup(i) /\ ~Closed(i)
    BY <1>1, ReaderThere DEF Finishes, Answered, Err
<1>3. up[i] = <<>> /\ ~UpWriter(i) /\ available[i] = 0
    BY <1>1, <1>2 DEF Hup
<1>4. ChildEnded(i)
  <2>1. i \in Children /\ i < n - 1
    OBVIOUS
  <2>2. cpc[i] \notin {"forked", "read", "write"}
    BY <1>3, <2>1, ChildsEnds
  <2>3. cpc[i] \in ChildLabels /\ cpc[i] # "unborn"
    BY <2>1, Typed DEF Ends, Spawned
  <2>. QED
    BY <2>2, <2>3 DEF ChildLabels
<1>5. ~Fills(i)
    BY <1>1, <1>3 DEF Fills, Answered
<1>6. ~Drains(i)
    BY <1>3 DEF Drains
<1>. QED
    BY <1>3, <1>4, <1>5, <1>6

\* Steps of the children.
LEMMA ChildQuiet ==
    ASSUME TypeOK, Ends, Answers, Quiet, NEW i \in Children, child(i) \/ childKilled(i), ~faults
    PROVE  Quiet'
<1>1. child(i) /\ ~childKilled(i)
    BY DEF childKilled
<1>2. UNCHANGED relayed
    BY <1>1 DEF child, childCloses, readFile, readPipe, writePipe, writeOut
<1>3. holds'[Parent] = holds[Parent]
  <2>1. holds \in [Procs -> SUBSET AllEnds]
    BY Typed
  <2>2. i # Parent
    OBVIOUS
  <2>. QED
    BY <1>1, <2>1, <2>2, ChildMoves DEF ChildGoes, Closes
<1>4. \A j \in Buffers : Closed(j)' <=> Closed(j)
    BY <1>3 DEF Closed
<1>5. /\ cpc[i] \in {"forked", "read", "write"}
      /\ \A j \in Children \ {i} : cpc'[j] = cpc[j]
      /\ cpc'[i] \in {"read", "write", "ok", "sigpipe"}
  <2>1. cpc \in [Children -> ChildLabels]
    BY Typed
  <2>2. CASE childCloses(i)
    BY <2>1, <2>2 DEF childCloses
  <2>3. CASE i = 0 /\ readFile
    BY <2>1, <2>3 DEF readFile, ChildGoes
  <2>4. CASE readPipe(i)
    BY <2>1, <2>4 DEF readPipe, ChildGoes
  <2>5. CASE writePipe(i)
    BY <2>1, <2>5 DEF writePipe, ChildGoes
  <2>6. CASE i = n - 1 /\ writeOut
    BY <2>1, <2>6 DEF writeOut, ChildGoes
  <2>. QED
    BY <1>1, <2>2, <2>3, <2>4, <2>5, <2>6 DEF child
<1>6. cpc'[i] # "sigpipe"
  <2>1. ~(i < n - 1 /\ cpc[i] = "write" /\ ~UpReader(i))
    BY ParentsEnds
  <2>2. CASE writePipe(i)
    <3>1. ChildGoes(i, "read")
      BY <2>1, <2>2 DEF writePipe
    <3>. QED
      BY <3>1, ChildGoesTo
  <2>3. CASE childCloses(i)
    BY <2>3 DEF childCloses, TypeOK
  <2>4. CASE i = 0 /\ readFile
    <3>1. ChildGoes(i, "write") \/ ChildGoes(i, "ok")
      BY <2>4 DEF readFile
    <3>. QED
      BY <3>1, ChildGoesTo
  <2>5. CASE readPipe(i)
    BY <2>5, ChildGoesTo DEF readPipe
  <2>6. CASE i = n - 1 /\ writeOut
    BY <2>6, ChildGoesTo DEF writeOut
  <2>. QED
    BY <1>1, <2>2, <2>3, <2>4, <2>5, <2>6 DEF child
<1>7. ASSUME NEW j \in Buffers, cpc'[j + 1] = "ok"
      PROVE  rpc \in {"poll", "scan", "ok"} /\ Closed(j) /\ down'[j] = <<>>
  <2>1. j + 1 \in Children /\ j + 1 > 0 /\ (j + 1) - 1 = j
    OBVIOUS
  <2>2. CASE j + 1 = i
    <3>1. readPipe(i)
      <4>1. ~childCloses(i)
        BY <1>7, <2>1, <2>2 DEF childCloses, TypeOK
      <4>2. ~writePipe(i)
        BY <1>6, <1>7, <2>1, <2>2, ChildGoesTo DEF writePipe
      <4>3. ~(i = n - 1 /\ writeOut)
        <5>1. SUFFICES ASSUME i = n - 1, writeOut
                       PROVE  FALSE
          OBVIOUS
        <5>2. ChildGoes(i, "write") \/ ChildGoes(i, "read")
          BY <5>1 DEF writeOut
        <5>3. cpc'[i] \in {"write", "read"}
          BY <5>2, ChildGoesTo
        <5>. QED
          BY <1>7, <2>2, <5>3
      <4>. QED
        BY <1>1, <2>1, <2>2, <4>1, <4>2, <4>3 DEF child
    <3> DEFINE k == Least(ChildBuf, Len(down[j]))
    <3>2. /\ k > 0 \/ ~DownWriter(j)
          /\ down' = [down EXCEPT ![j] = Rest(@, k)]
          /\ ChildGoes(i, IF k > 0 THEN "write" ELSE "ok")
          /\ cpc[i] = "read"
      BY <2>1, <2>2, <3>1 DEF readPipe
    <3>3. down[j] \in Seq(Bytes) /\ down \in [Buffers -> Seq(Bytes)] /\ ChildBuf \in Nat \ {0}
      <4>1. down \in [Buffers -> Seq(Bytes)]
        BY Typed
      <4>. QED
        BY <4>1
    <3>4. k \in 0 .. Len(down[j]) /\ Rest(down[j], k) \in Seq(Bytes)
          /\ Len(Rest(down[j], k)) = Len(down[j]) - k
      BY <3>3, Bite
    <3>5. k = 0 => Len(down[j]) = 0
      BY <3>3 DEF Least
    <3> HIDE DEF k
    <3>6. ~(k > 0)
      BY <1>7, <2>2, <3>2, ChildGoesTo
    <3>7. down'[j] = <<>>
      BY <3>2, <3>3, <3>4, <3>5, <3>6, EmptyIs
    <3>8. rpc \in {"poll", "scan", "ok"} /\ Closed(j)
      BY <2>2, <3>2, <3>6, ParentsEnds
    <3>. QED
      BY <3>7, <3>8
  <2>3. CASE j + 1 # i
    <3>1. cpc[j + 1] = "ok"
      BY <1>5, <1>7, <2>1, <2>3
    <3>2. down'[j] = down[j]
      <4>1. down \in [Buffers -> Seq(Bytes)]
        BY Typed
      <4>2. UNCHANGED down \/ readPipe(i)
        BY <1>1 DEF child, childCloses, readFile, writePipe, writeOut
      <4>3. CASE readPipe(i)
        <5>1. PICK k : down' = [down EXCEPT ![i - 1] = Rest(@, k)]
          BY <4>3 DEF readPipe
        <5>2. j # i - 1
          BY <2>3
        <5>. QED
          BY <4>1, <5>1, <5>2
      <4>. QED
        BY <4>2, <4>3
    <3>. QED
      BY <3>1, <3>2 DEF Quiet
  <2>. QED
    BY <2>2, <2>3
<1>8. ASSUME rpc \in {"poll", "scan", "ok"}, NEW j \in Buffers, Closed(j)
      PROVE  available[j] = 0 /\ up'[j] = <<>> /\ cpc'[j] \in Ended
  <2>1. available[j] = 0 /\ up[j] = <<>> /\ ChildEnded(j)
    BY <1>8 DEF Quiet, ClosedWhenDrained
  <2>2. j # i /\ j \in Children
    BY <1>5, <2>1
  <2>3. up'[j] = up[j]
    <3>1. up \in [Buffers -> Seq(Bytes)]
      BY Typed
    <3>. QED
      BY <1>1, <2>2, <3>1 DEF child, childCloses, readFile, readPipe, writePipe, writeOut
  <2>. QED
    BY <1>5, <2>1, <2>2, <2>3
<1>9. rpc' \notin {"sigpipe", "killed"} /\ \A j \in Children : cpc'[j] \notin {"sigpipe", "killed"}
    BY <1>2, <1>5, <1>6 DEF Quiet
<1>10. ClosedWhenDrained'
    BY <1>2, <1>4, <1>8 DEF ClosedWhenDrained
<1>. QED
    BY <1>2, <1>4, <1>7, <1>9, <1>10 DEF Quiet

\* Turns of the buffers.
LEMMA TurnQuiet ==
    ASSUME TypeOK, Ends, Answers, Quiet, ~faults,
           NEW i \in Buffers, fill(i) \/ drain(i) \/ pass(i)
    PROVE  Quiet'
<1>1. Advance(i) /\ rpc = "scan" /\ cursor = i /\ UNCHANGED <<children, faults>>
      /\ rpc' \in {"poll", "scan", "ok"}
    BY DEF fill, drain, pass, Advance, ParentEnds
<1>2. /\ up \in [Buffers -> Seq(Bytes)] /\ down \in [Buffers -> Seq(Bytes)]
      /\ available \in [Buffers -> Nat]
    BY Typed
<1>3. \A j \in Buffers \ {i} : up'[j] = up[j] /\ down'[j] = down[j] /\ available'[j] = available[j]
    BY <1>2 DEF fill, drain, pass
<1>4. /\ NotClosed' = IF i = n - 2 /\ Finishes(i) THEN {}
                      ELSE IF Finishes(i) THEN NotClosed \ {i} ELSE NotClosed
    BY <1>1, AdvanceEnds
<1>5. \A j \in Buffers : Closed(j) => Closed(j)'
    BY <1>4 DEF NotClosed
<1>6. Closed(i) => up'[i] = up[i] /\ down'[i] = down[i] /\ available'[i] = available[i]
  <2>1. Answered(i)
    BY <1>1 DEF Answers
  <2>. QED
    BY <2>1 DEF fill, drain, pass, Fills, Drains, Answered
<1>7. Finishes(i) => available[i] = 0 /\ up[i] = <<>> /\ ChildEnded(i) /\ pass(i)
    BY <1>1, FinishesDrained DEF fill, drain
<1>8. ASSUME NEW j \in Buffers, cpc[j + 1] = "ok"
      PROVE  Closed(j)' /\ down'[j] = <<>>
  <2>1. Closed(j) /\ down[j] = <<>>
    BY <1>8 DEF Quiet
  <2>. QED
    BY <1>3, <1>5, <1>6, <2>1
<1>9. ASSUME NEW j \in Buffers, Closed(j)'
      PROVE  available'[j] = 0 /\ up'[j] = <<>> /\ ChildEnded(j)
  <2>1. CASE Closed(j)
    <3>1. available[j] = 0 /\ up[j] = <<>> /\ ChildEnded(j)
      BY <1>1, <2>1 DEF Quiet, ClosedWhenDrained
    <3>. QED
      BY <1>3, <1>6, <2>1, <3>1
  <2>2. CASE ~Closed(j) /\ j = i
    <3>1. Finishes(i)
      BY <1>4, <1>9, <2>2 DEF NotClosed
    <3>2. available[i] = 0 /\ up[i] = <<>> /\ ChildEnded(i) /\ pass(i)
      BY <1>7, <3>1
    <3>. QED
      BY <2>2, <3>2 DEF pass
  <2>3. CASE ~Closed(j) /\ j # i
    <3>1. i = n - 2 /\ Finishes(i)
      BY <1>4, <1>9, <2>3 DEF NotClosed
    <3>2. i \in Children /\ cpc[i] = "ok"
      BY <1>7, <3>1 DEF Quiet
    <3>3. Closed(j)
      BY <2>3, <3>1, <3>2, AllBefore
    <3>. QED
      BY <2>3, <3>3
  <2>. QED
    BY <2>1, <2>2, <2>3
<1>10. rpc' \notin {"sigpipe", "killed"} /\ \A j \in Children : cpc'[j] \notin {"sigpipe", "killed"}
    BY <1>1 DEF Quiet
<1>11. ClosedWhenDrained'
    BY <1>1, <1>9 DEF ClosedWhenDrained
<1>. QED
    BY <1>1, <1>8, <1>10, <1>11 DEF Quiet

\* The parent while it forks, and poll().
LEMMA SpawnQuiet ==
    ASSUME TypeOK, Ends, Quiet, ~faults, openPipes \/ fork \/ parentCloses \/ poll
    PROVE  Quiet'
<1>1. /\ UNCHANGED <<pipes, available, faults>>
      /\ rpc' \in {"fork", "close", "pipe", "poll", "scan"}
      /\ rpc' = "scan" => rpc = "poll" /\ holds' = holds
      /\ rpc' = "poll" => parentCloses
      /\ rpc' # "scan" => rpc \in {"pipe", "fork", "close"}
    BY DEF openPipes, fork, parentCloses, poll
<1>2. \A i \in Children : cpc'[i] = cpc[i] \/ cpc'[i] = "forked"
    BY DEF openPipes, fork, parentCloses, poll, TypeOK
<1>3. \A i \in Children : cpc'[i] \notin {"sigpipe", "killed"}
    BY <1>2 DEF Quiet
<1>4. CASE rpc' = "scan"
  <2>1. cpc' = cpc
    BY <1>1, <1>4 DEF openPipes, fork, parentCloses, poll
  <2>2. \A j \in Buffers : Closed(j)' <=> Closed(j)
    BY <1>1, <1>4 DEF Closed
  <2>. QED
    BY <1>1, <1>3, <1>4, <2>1, <2>2 DEF Quiet, ClosedWhenDrained
<1>5. CASE rpc' # "scan"
  <2>1. ASSUME NEW j \in Buffers PROVE cpc'[j + 1] # "ok"
    <3>1. j + 1 \in Children
      OBVIOUS
    <3>. QED
      BY <1>1, <1>2, <1>5, <3>1 DEF Quiet
  <2>2. rpc' = "poll" => \A j \in Buffers : ~Closed(j)'
    BY <1>1, ParentClosesEnds DEF NotClosed
  <2>3. ClosedWhenDrained'
    BY <1>1, <1>5, <2>2 DEF ClosedWhenDrained
  <2>. QED
    BY <1>1, <1>3, <2>1, <2>3 DEF Quiet
<1>. QED
    BY <1>4, <1>5

\* Without faults the parent does not meet SIGPIPE.
LEMMA NeverBroken ==
    ASSUME TypeOK, Ends, Answers, Quiet, ~faults, NEW i \in Buffers
    PROVE  ~brokenPipe(i)
<1> SUFFICES ASSUME brokenPipe(i) PROVE FALSE
    OBVIOUS
<1>1. rpc = "scan" /\ cursor = i /\ Drains(i) /\ ~DownReader(i)
    BY DEF brokenPipe
<1>2. ~Closed(i)
    BY <1>1 DEF Answers, Answered, Drains
<1>. QED
    BY <1>1, <1>2, ReaderThere

\* Without faults everything ends in order.
LEMMA StepQuiet ==
    ASSUME TypeOK, Ends, Answers, Quiet, [Next]_vars
    PROVE  Quiet'
<1>1. faults' = faults
    BY DEF Next, relay, openPipes, fork, parentCloses, poll, fill, drain, pass, brokenPipe,
           Advance, parentKilled, child, childCloses, readFile, readPipe, writePipe, writeOut,
           childKilled, vars
<1>2. CASE faults
    BY <1>1, <1>2 DEF Quiet
<1>3. CASE ~faults
  <2>1. CASE UNCHANGED vars
    BY <2>1 DEF vars, Quiet, ClosedWhenDrained, Closed
  <2>2. ~parentKilled
    BY <1>3 DEF parentKilled
  <2>. QED
    BY <1>3, <2>1, <2>2, ChildQuiet, TurnQuiet, SpawnQuiet, NeverBroken DEF Next, relay
<1>. QED
    BY <1>2, <1>3

-----------------------------------------------------------------------------
(* Pieces of the file on their way from one child to the next.             *)

\* An empty slice.
LEMMA NoSlice ==
    ASSUME NEW a \in Nat
    PROVE  Slice(a, a) = <<>> /\ Len(<<>>) = 0 /\ <<>> \in Seq(Bytes)
<1>1. a + 1 \in Int /\ a \in Int /\ a < a + 1
    OBVIOUS
<1>2. SubSeq(File, a + 1, a) = <<>>
    BY <1>1, SubSeqEmpty
<1>. QED
    BY <1>2, EmptySeq DEF Slice

\* The places where the pieces begin.
At(a, e, x, y, z, c, gone, d, b, h, k) ==
    /\ d = a + Len(x) /\ b = d + Len(y) /\ h = b + Len(z) /\ k = h + Len(c)
    /\ a <= d /\ d <= b /\ b <= h /\ h <= k /\ k <= e
    /\ d <= Len(File) /\ b <= Len(File) /\ h <= Len(File) /\ k <= Len(File)
    /\ Len(x) \in Nat /\ Len(y) \in Nat /\ Len(z) \in Nat /\ Len(c) \in Nat
    /\ e <= h + ChildBuf /\ (~gone => e = k)
    /\ x = Slice(a, d) /\ y = Slice(d, b) /\ z = Slice(b, h) /\ c = Slice(h, k)

\* The places of the pieces.
LEMMA Places ==
    ASSUME NEW a \in Nat, NEW e \in Nat, e <= Len(File),
           NEW x \in Seq(Bytes), NEW y \in Seq(Bytes), NEW z \in Seq(Bytes), NEW c \in Seq(Bytes),
           NEW gone, Between(a, e, x, y, z, c, gone)
    PROVE  \E d, b, h, k \in Nat : At(a, e, x, y, z, c, gone, d, b, h, k)
<1> DEFINE d == a + Len(x)
           b == d + Len(y)
           h == b + Len(z)
           k == h + Len(c)
<1>1. Len(x) \in Nat /\ Len(y) \in Nat /\ Len(z) \in Nat /\ Len(c) \in Nat /\ Len(File) \in Nat
    OBVIOUS
<1>2. /\ k <= e /\ e <= h + ChildBuf /\ (~gone => e = k)
      /\ x = Slice(a, d) /\ y = Slice(d, b) /\ z = Slice(b, h) /\ c = Slice(h, k)
    BY DEF Between
<1>3. /\ d \in Nat /\ b \in Nat /\ h \in Nat /\ k \in Nat
      /\ a <= d /\ d <= b /\ b <= h /\ h <= k
      /\ d <= Len(File) /\ b <= Len(File) /\ h <= Len(File) /\ k <= Len(File)
    BY <1>1, <1>2
<1>4. At(a, e, x, y, z, c, gone, d, b, h, k)
    BY <1>1, <1>2, <1>3 DEF At
<1>. QED
    BY <1>3, <1>4

\* The next child reads from its pipe.
LEMMA BetweenReads ==
    ASSUME NEW a \in Nat, NEW e \in Nat, e <= Len(File),
           NEW x \in Seq(Bytes), NEW y \in Seq(Bytes), NEW z \in Seq(Bytes), NEW c \in Seq(Bytes),
           NEW gone, Between(a, e, x, y, z, c, gone), NEW m \in 0 .. Len(x)
    PROVE  /\ Between(a + m, e, Rest(x, m), y, z, c, gone)
           /\ Front(x, m) = Slice(a, a + m) /\ a + m <= Len(File)
<1>1. PICK d, b, h, k \in Nat : At(a, e, x, y, z, c, gone, d, b, h, k)
    BY Places
<1>2. a <= d /\ d <= Len(File) /\ Len(x) \in Nat /\ Len(x) = d - a /\ x = Slice(a, d)
    BY <1>1 DEF At
<1>3. m \in 0 .. d - a
    BY <1>2
<1>4. Front(x, m) = Slice(a, a + m) /\ Rest(x, m) = Slice(a + m, d)
    BY <1>2, <1>3, CutSlice
<1>5. Len(Rest(x, m)) = Len(x) - m
    BY Cut
<1>6. (a + m) + Len(Rest(x, m)) = d /\ a + m <= Len(File)
  <2> DEFINE l == Len(Rest(x, m))
             lx == Len(x)
  <2>1. lx \in Nat /\ lx = d - a /\ l = lx - m /\ a <= d /\ d <= Len(File) /\ Len(File) \in Nat
    BY <1>2, <1>5
  <2> HIDE DEF l, lx
  <2>2. (a + m) + l = d /\ a + m <= Len(File)
    BY <1>3, <2>1
  <2>. QED
    BY <2>2 DEF l
<1>7. Between(a + m, e, Rest(x, m), y, z, c, gone)
    BY <1>1, <1>4, <1>6 DEF At, Between
<1>. QED
    BY <1>2, <1>4, <1>6, <1>7

\* The first one takes up the next piece of the file.
LEMMA BetweenTakes ==
    ASSUME NEW a \in Nat, NEW e \in Nat, NEW m \in Nat, e + m <= Len(File), m <= ChildBuf,
           NEW x \in Seq(Bytes), NEW y \in Seq(Bytes), NEW z \in Seq(Bytes),
           Between(a, e, x, y, z, <<>>, FALSE)
    PROVE  Between(a, e + m, x, y, z, Slice(e, e + m), FALSE)
<1>1. Len(File) \in Nat /\ e <= Len(File) /\ <<>> \in Seq(Bytes) /\ Len(<<>>) = 0
    BY EmptySeq
<1>2. PICK d, b, h, k \in Nat : At(a, e, x, y, z, <<>>, FALSE, d, b, h, k)
    BY <1>1, Places
<1>3. h = e
    BY <1>1, <1>2 DEF At
<1>4. e <= e + m /\ e + m \in Nat
    OBVIOUS
<1>5. Len(Slice(e, e + m)) = (e + m) - e
    BY <1>4, SliceIs
<1>6. (e + m) - e = m /\ h + m = e + m /\ e + m <= h + ChildBuf
    BY <1>3
<1>7. h + Len(Slice(e, e + m)) = e + m
    BY <1>5, <1>6
<1>. QED
    BY <1>2, <1>3, <1>6, <1>7 DEF At, Between

\* It writes its chunk into its pipe.
LEMMA BetweenWrites ==
    ASSUME NEW a \in Nat, NEW e \in Nat, e <= Len(File),
           NEW x \in Seq(Bytes), NEW y \in Seq(Bytes), NEW z \in Seq(Bytes), NEW c \in Seq(Bytes),
           Between(a, e, x, y, z, c, FALSE)
    PROVE  Between(a, e, x, y, z \o c, <<>>, FALSE)
<1>2. PICK d, b, h, k \in Nat : At(a, e, x, y, z, c, FALSE, d, b, h, k)
    BY Places
<1>3. /\ b <= h /\ h <= k /\ k <= Len(File) /\ z = Slice(b, h) /\ c = Slice(h, k)
      /\ Len(z) \in Nat /\ Len(c) \in Nat /\ h = b + Len(z) /\ k = h + Len(c)
    BY <1>2 DEF At
<1>4. z \o c = Slice(b, k)
    BY <1>3, JoinSlices
<1>5. Len(z \o c) = Len(z) + Len(c)
    BY Joined
<1>6. b + Len(z \o c) = k /\ k + 0 = k
  <2> DEFINE l == Len(z \o c)
             lz == Len(z)
             lc == Len(c)
  <2>1. lz \in Nat /\ lc \in Nat /\ h = b + lz /\ k = h + lc /\ l = lz + lc
    BY <1>3, <1>5
  <2> HIDE DEF l, lz, lc
  <2>2. b + l = k /\ k + 0 = k
    BY <2>1
  <2>. QED
    BY <2>2 DEF l
<1>7. Slice(k, k) = <<>> /\ Len(<<>>) = 0
    BY NoSlice
<1>8. e <= k + ChildBuf
    BY <1>2, <1>3 DEF At
<1>. QED
    BY <1>2, <1>4, <1>6, <1>7, <1>8 DEF At, Between

\* Or it loses it.
LEMMA BetweenBreaks ==
    ASSUME NEW a \in Nat, NEW e \in Nat, e <= Len(File), NEW gone,
           NEW x \in Seq(Bytes), NEW y \in Seq(Bytes), NEW z \in Seq(Bytes), NEW c \in Seq(Bytes),
           Between(a, e, x, y, z, c, gone)
    PROVE  Between(a, e, x, y, z, <<>>, TRUE)
<1>1. PICK d, b, h, k \in Nat : At(a, e, x, y, z, c, gone, d, b, h, k)
    BY Places
<1>2. Slice(h, h) = <<>> /\ Len(<<>>) = 0
    BY NoSlice
<1>3. h + 0 = h /\ h <= e
    BY <1>1 DEF At
<1>. QED
    BY <1>1, <1>2, <1>3 DEF At, Between

\* The parent reads into the empty buffer.
LEMMA BetweenFills ==
    ASSUME NEW a \in Nat, NEW e \in Nat, e <= Len(File), NEW gone,
           NEW x \in Seq(Bytes), NEW z \in Seq(Bytes), NEW c \in Seq(Bytes),
           Between(a, e, x, <<>>, z, c, gone), NEW m \in 0 .. Len(z)
    PROVE  Between(a, e, x, Front(z, m), Rest(z, m), c, gone)
<1>1. <<>> \in Seq(Bytes) /\ Len(<<>>) = 0
    BY EmptySeq
<1>2. PICK d, b, h, k \in Nat : At(a, e, x, <<>>, z, c, gone, d, b, h, k)
    BY <1>1, Places
<1>3. b = d /\ b <= h /\ h <= Len(File) /\ h = b + Len(z) /\ Len(z) \in Nat /\ z = Slice(b, h)
    BY <1>1, <1>2 DEF At
<1>4. m \in 0 .. h - b
    BY <1>3
<1>5. Front(z, m) = Slice(b, b + m) /\ Rest(z, m) = Slice(b + m, h)
    BY <1>3, <1>4, CutSlice
<1>6. Len(Front(z, m)) = m /\ Len(Rest(z, m)) = Len(z) - m
    BY Cut
<1>7. d + Len(Front(z, m)) = b + m /\ (b + m) + Len(Rest(z, m)) = h
  <2> DEFINE l == Len(Front(z, m))
             r == Len(Rest(z, m))
             lz == Len(z)
  <2>1. lz \in Nat /\ h = b + lz /\ b = d /\ l = m /\ r = lz - m
    BY <1>3, <1>6
  <2> HIDE DEF l, r, lz
  <2>2. d + l = b + m /\ (b + m) + r = h
    BY <1>4, <2>1
  <2>. QED
    BY <2>2 DEF l, r
<1>. QED
    BY <1>2, <1>3, <1>5, <1>7 DEF At, Between

\* The parent writes the buffer out.
LEMMA BetweenDrains ==
    ASSUME NEW a \in Nat, NEW e \in Nat, e <= Len(File), NEW gone,
           NEW x \in Seq(Bytes), NEW y \in Seq(Bytes), NEW z \in Seq(Bytes), NEW c \in Seq(Bytes),
           Between(a, e, x, y, z, c, gone)
    PROVE  Between(a, e, x \o y, <<>>, z, c, gone)
<1>1. PICK d, b, h, k \in Nat : At(a, e, x, y, z, c, gone, d, b, h, k)
    BY Places
<1>2. /\ a <= d /\ d <= b /\ b <= Len(File) /\ x = Slice(a, d) /\ y = Slice(d, b)
      /\ Len(x) \in Nat /\ Len(y) \in Nat /\ d = a + Len(x) /\ b = d + Len(y)
    BY <1>1 DEF At
<1>3. x \o y = Slice(a, b)
    BY <1>2, JoinSlices
<1>4. Len(x \o y) = Len(x) + Len(y)
    BY Joined
<1>5. a + Len(x \o y) = b /\ b + 0 = b
  <2> DEFINE l == Len(x \o y)
             lx == Len(x)
             ly == Len(y)
  <2>1. lx \in Nat /\ ly \in Nat /\ d = a + lx /\ b = d + ly /\ l = lx + ly
    BY <1>2, <1>4
  <2> HIDE DEF l, lx, ly
  <2>2. a + l = b /\ b + 0 = b
    BY <2>1
  <2>. QED
    BY <2>2 DEF l
<1>6. Slice(b, b) = <<>> /\ Len(<<>>) = 0
    BY NoSlice
<1>. QED
    BY <1>1, <1>3, <1>5, <1>6 DEF At, Between

-----------------------------------------------------------------------------
(* The pieces stay pieces of the file.                                     *)

\* What is in a buffer.
LEMMA ContentTypes ==
    ASSUME TypeOK, NEW i \in Buffers
    PROVE  /\ Content(i) \in Seq(Bytes) /\ Len(Content(i)) = available[i]
           /\ available[i] = 0 => Content(i) = <<>>
<1>1. data \in [Buffers -> Seq(Bytes)] /\ available \in [Buffers -> Nat] /\ Filled
    BY Typed
<1>2. data[i] \in Seq(Bytes) /\ available[i] \in Nat /\ available[i] <= Len(data[i])
    BY <1>1 DEF Filled
<1>3. available[i] \in 0 .. Len(data[i])
    BY <1>2
<1>4. Front(data[i], available[i]) \in Seq(Bytes) /\ Len(Front(data[i], available[i])) = available[i]
    BY <1>2, <1>3, Cut
<1>. QED
    BY <1>4, EmptyIs DEF Content

\* A hop, with the types of its parts.
LEMMA HopParts ==
    ASSUME TypeOK, NEW g, Hops(g), NEW i \in Buffers
    PROVE  /\ g[i] \in Nat /\ g[i] <= Len(File) /\ g[i + 1] \in Nat /\ g[i + 1] <= Len(File)
           /\ down[i] \in Seq(Bytes) /\ up[i] \in Seq(Bytes) /\ chunk[i] \in Seq(Bytes)
           /\ Content(i) \in Seq(Bytes)
           /\ Between(g[i + 1], g[i], down[i], Content(i), up[i], chunk[i], cpc[i] = "sigpipe")
<1>1. /\ up \in [Buffers -> Seq(Bytes)] /\ down \in [Buffers -> Seq(Bytes)]
      /\ chunk \in [Children -> Seq(Bytes)]
    BY Typed
<1>2. i \in Children /\ i + 1 \in Children
    OBVIOUS
<1>3. g \in [Children -> 0 .. Len(File)] /\ Hop(g, i)
    BY DEF Hops
<1>4. g[i] \in 0 .. Len(File) /\ g[i + 1] \in 0 .. Len(File) /\ Len(File) \in Nat
    BY <1>2, <1>3
<1>. QED
    BY <1>1, <1>2, <1>3, <1>4, ContentTypes DEF Hop

\* A step that leaves hop i as it is.
SameHop(i) ==
    /\ down'[i] = down[i] /\ up'[i] = up[i] /\ Content(i)' = Content(i) /\ chunk'[i] = chunk[i]
    /\ cpc'[i] = "sigpipe" <=> cpc[i] = "sigpipe"

\* Such a hop, when the children at its ends have read as much as before.
LEMMA HopStays ==
    ASSUME NEW g, NEW f, NEW i \in Buffers, Hop(g, i), SameHop(i), f[i] = g[i], f[i + 1] = g[i + 1]
    PROVE  Hop(f, i)'
    BY DEF Hop, SameHop, Between

\* A hop whose pieces are new.
LEMMA HopNext ==
    ASSUME NEW g, NEW i \in Buffers,
           Between(g[i + 1], g[i], down'[i], Content(i)', up'[i], chunk'[i], cpc'[i] = "sigpipe")
    PROVE  Hop(g, i)'
    BY DEF Hop

\* No process ends well, and nothing is read from the file or written out.
Within ==
    /\ taken' = taken /\ out' = out /\ chunk'[n - 1] = chunk[n - 1] /\ faults' = faults
    /\ \A j \in Children : cpc'[j] = "ok" => cpc[j] = "ok"

\* A step that moves bytes between one child and the next.
LEMMA OneHop ==
    ASSUME NEW g, Hops(g), NEW i \in Buffers, Within, Hop(g, i)',
           \A j \in Buffers \ {i} : SameHop(j)
    PROVE  Hops(g)'
<1>1. ASSUME NEW j \in Buffers PROVE Hop(g, j)'
  <2>1. CASE j = i
    BY <2>1
  <2>2. CASE j # i
    <3>1. Hop(g, j) /\ SameHop(j)
      BY <2>2 DEF Hops
    <3>. QED
      BY <3>1, HopStays
  <2>. QED
    BY <2>1, <2>2
<1>. QED
    BY <1>1 DEF Hops, Within

\* A step that moves none.
LEMMA NoHop ==
    ASSUME NEW g, Hops(g), Within, \A j \in Buffers : SameHop(j)
    PROVE  Hops(g)'
<1>1. 0 \in Buffers
    OBVIOUS
<1>2. Hop(g, 0)'
    BY <1>1, HopStays DEF Hops
<1>. QED
    BY <1>1, <1>2, OneHop

\* The steps that move no bytes.
LEMMA OtherFlow ==
    ASSUME TypeOK, Ends, NEW g, Hops(g),
           \/ openPipes \/ fork \/ parentCloses \/ poll \/ parentKilled \/ UNCHANGED vars
           \/ \E i \in Buffers : brokenPipe(i) \/ pass(i)
           \/ \E i \in Children : childCloses(i) \/ childKilled(i)
    PROVE  Hops(g)'
<1>1. /\ UNCHANGED <<up, down, data, available, chunk, taken, out, faults>>
      /\ \/ UNCHANGED cpc
         \/ \E i \in Children :
               /\ cpc[i] # "sigpipe"
               /\ \E label \in {"forked", "read", "killed"} : cpc' = [cpc EXCEPT ![i] = label]
  <2>1. CASE fork
    <3>1. cpc[cursor] # "sigpipe" /\ cursor \in Children
      <4>1. cursor \in Children /\ rpc = "fork"
        BY <2>1, Typed DEF fork
      <4>2. cpc[cursor] = "unborn"
        BY <4>1 DEF Ends, Spawned
      <4>. QED
        BY <4>1, <4>2
    <3>. QED
      BY <2>1, <3>1 DEF fork
  <2>2. CASE \E i \in Children : childCloses(i)
    BY <2>2 DEF childCloses
  <2>3. CASE \E i \in Children : childKilled(i)
    BY <2>3 DEF childKilled, ChildGoes
  <2>4. CASE openPipes \/ parentCloses \/ poll \/ parentKilled \/ UNCHANGED vars
    BY <2>4 DEF openPipes, parentCloses, poll, parentKilled, vars
  <2>5. CASE \E i \in Buffers : brokenPipe(i) \/ pass(i)
    BY <2>5 DEF brokenPipe, pass, Advance
  <2>. QED
    BY <2>1, <2>2, <2>3, <2>4, <2>5
<1>2. cpc \in [Children -> ChildLabels]
    BY Typed
<1>3. \A j \in Children : /\ cpc'[j] = "ok" => cpc[j] = "ok"
                          /\ cpc'[j] = "sigpipe" <=> cpc[j] = "sigpipe"
    BY <1>1, <1>2
<1>4. Within
    BY <1>1, <1>3 DEF Within
<1>5. ASSUME NEW j \in Buffers PROVE SameHop(j)
    BY <1>1, <1>3 DEF SameHop, Content
<1>. QED
    BY <1>4, <1>5, NoHop

\* The parent fills a buffer.
LEMMA FillFlow ==
    ASSUME TypeOK, NEW g, Hops(g), NEW i \in Buffers, fill(i)
    PROVE  Hops(g)'
<1> DEFINE k == Least(BufSize[i], Len(up[i]))
<1>1. /\ data' = [data EXCEPT ![i] = Front(up[i], k)]
      /\ available' = [available EXCEPT ![i] = k]
      /\ up' = [up EXCEPT ![i] = Rest(@, k)]
      /\ UNCHANGED <<down, cpc, chunk, taken, out, faults>>
      /\ available[i] = 0
    BY DEF fill, Advance, Fills
<1>2. /\ up \in [Buffers -> Seq(Bytes)] /\ data \in [Buffers -> Seq(Bytes)]
      /\ available \in [Buffers -> Nat] /\ BufSize[i] \in Nat /\ up[i] \in Seq(Bytes)
    BY Typed
<1>3. k \in 0 .. Len(up[i]) /\ Front(up[i], k) \in Seq(Bytes) /\ Len(Front(up[i], k)) = k
    BY <1>2, Bite
<1> HIDE DEF k
<1>4. k \in 0 .. Len(Front(up[i], k))
    BY <1>3
<1>5. Front(Front(up[i], k), k) = Front(up[i], k)
  <2>1. /\ Front(Front(up[i], k), k) \in Seq(Bytes) /\ Len(Front(Front(up[i], k), k)) = k
        /\ \A j \in 1 .. k : Front(Front(up[i], k), k)[j] = Front(up[i], k)[j]
    BY <1>3, <1>4, Cut
  <2>. QED
    BY <1>3, <2>1, SameSeq
<1>6. /\ data'[i] = Front(up[i], k) /\ available'[i] = k /\ up'[i] = Rest(up[i], k)
      /\ \A j \in Buffers \ {i} : data'[j] = data[j] /\ available'[j] = available[j] /\ up'[j] = up[j]
    BY <1>1, <1>2
<1>7. Content(i)' = Front(up[i], k)
    BY <1>5, <1>6 DEF Content
<1>8. /\ g[i] \in Nat /\ g[i] <= Len(File) /\ g[i + 1] \in Nat
      /\ down[i] \in Seq(Bytes) /\ chunk[i] \in Seq(Bytes)
      /\ Between(g[i + 1], g[i], down[i], Content(i), up[i], chunk[i], cpc[i] = "sigpipe")
      /\ Content(i) = <<>>
    BY <1>1, HopParts, ContentTypes
<1>9. Between(g[i + 1], g[i], down[i], Front(up[i], k), Rest(up[i], k), chunk[i], cpc[i] = "sigpipe")
    BY <1>2, <1>3, <1>8, BetweenFills
<1>10. Hop(g, i)'
  <2>1. Between(g[i + 1], g[i], down'[i], Content(i)', up'[i], chunk'[i], cpc'[i] = "sigpipe")
    BY <1>1, <1>6, <1>7, <1>9
  <2>. QED
    BY <2>1, HopNext
<1>11. ASSUME NEW j \in Buffers \ {i} PROVE SameHop(j)
    BY <1>1, <1>6 DEF SameHop, Content
<1>12. Within
    BY <1>1 DEF Within
<1>. QED
    BY <1>10, <1>11, <1>12, OneHop

\* The parent writes a buffer out, all of it.
LEMMA DrainFlow ==
    ASSUME TypeOK, Answers, Unsplit, NEW g, Hops(g), NEW i \in Buffers, drain(i)
    PROVE  Hops(g)'
<1> DEFINE k == Accepted(down[i], available[i])
<1>1. /\ down' = [down EXCEPT ![i] = @ \o Front(data[i], k)]
      /\ available' = [available EXCEPT ![i] = available[i] - k]
      /\ UNCHANGED <<up, data, cpc, chunk, taken, out, faults>>
      /\ rpc = "scan" /\ cursor = i /\ ev[i].can_write
    BY DEF drain, Advance, Drains, Remains
<1>2. /\ down \in [Buffers -> Seq(Bytes)] /\ data \in [Buffers -> Seq(Bytes)] /\ Filled
      /\ available \in [Buffers -> Nat] /\ BufSize[i] \in Nat /\ down[i] \in Seq(Bytes)
      /\ available[i] \in Nat /\ Len(data[i]) \in Nat /\ PipeCap \in Nat /\ PipeBuf \in Nat
  <2>1. /\ down \in [Buffers -> Seq(Bytes)] /\ data \in [Buffers -> Seq(Bytes)] /\ Filled
        /\ available \in [Buffers -> Nat]
    BY Typed
  <2>2. /\ down[i] \in Seq(Bytes) /\ data[i] \in Seq(Bytes) /\ available[i] \in Nat
        /\ BufSize[i] \in Nat /\ PipeCap \in Nat /\ PipeBuf \in Nat
    BY <2>1
  <2>3. Len(data[i]) \in Nat
    BY <2>2
  <2>. QED
    BY <2>1, <2>2, <2>3
<1>3. Free(down[i]) >= PipeBuf
    BY <1>1 DEF Answers, Answered
<1>4. available[i] <= Len(data[i]) /\ Len(data[i]) <= BufSize[i] /\ BufSize[i] <= PipeBuf
    BY <1>2 DEF Filled, Unsplit
<1>5. Free(down[i]) \in Int
  <2>1. Len(down[i]) \in Nat
    BY <1>2
  <2>. QED
    BY <1>2, <2>1 DEF Free
<1>6. k = available[i] /\ available[i] - k = 0
  <2> DEFINE fr == Free(down[i])
             av == available[i]
             l == Len(data[i])
  <2>1. fr \in Int /\ av \in Nat /\ l \in Nat /\ av <= l /\ l <= BufSize[i] /\ BufSize[i] <= PipeBuf /\ fr >= PipeBuf
    BY <1>2, <1>3, <1>4, <1>5
  <2> HIDE DEF fr, av, l
  <2>2. av <= fr /\ (fr < av => FALSE)
    BY <1>2, <2>1
  <2>3. Least(av, fr) = av /\ av - av = 0
    BY <2>1, <2>2 DEF Least
  <2>. QED
    BY <2>3 DEF fr, av, Accepted
<1> HIDE DEF k
<1>7. /\ down'[i] = down[i] \o Content(i) /\ available'[i] = 0 /\ data'[i] = data[i]
      /\ \A j \in Buffers \ {i} : down'[j] = down[j] /\ available'[j] = available[j]
    BY <1>1, <1>2, <1>6 DEF Content
<1>8. Content(i)' = <<>>
  <2>1. 0 \in 0 .. Len(data[i]) /\ data[i] \in Seq(Bytes)
    BY <1>2
  <2>2. Front(data[i], 0) \in Seq(Bytes) /\ Len(Front(data[i], 0)) = 0
    BY <2>1, Cut
  <2>3. Front(data[i], 0) = <<>>
    BY <2>2, EmptyIs
  <2>. QED
    BY <1>7, <2>3 DEF Content
<1>9. /\ g[i] \in Nat /\ g[i] <= Len(File) /\ g[i + 1] \in Nat
      /\ down[i] \in Seq(Bytes) /\ chunk[i] \in Seq(Bytes) /\ up[i] \in Seq(Bytes)
      /\ Content(i) \in Seq(Bytes)
      /\ Between(g[i + 1], g[i], down[i], Content(i), up[i], chunk[i], cpc[i] = "sigpipe")
    BY HopParts
<1>10. Between(g[i + 1], g[i], down[i] \o Content(i), <<>>, up[i], chunk[i], cpc[i] = "sigpipe")
    BY <1>9, BetweenDrains
<1>11. Hop(g, i)'
  <2>1. Between(g[i + 1], g[i], down'[i], Content(i)', up'[i], chunk'[i], cpc'[i] = "sigpipe")
    BY <1>1, <1>7, <1>8, <1>10
  <2>. QED
    BY <2>1, HopNext
<1>12. ASSUME NEW j \in Buffers \ {i} PROVE SameHop(j)
    BY <1>1, <1>7 DEF SameHop, Content
<1>13. Within
    BY <1>1 DEF Within
<1>. QED
    BY <1>11, <1>12, <1>13, OneHop

\* A child writes its chunk into its pipe, or loses it with its life.
LEMMA WritePipeFlow ==
    ASSUME TypeOK, NEW g, Hops(g), NEW i \in Children, writePipe(i)
    PROVE  Hops(g)'
<1>1. /\ i \in Buffers /\ i # n - 1
      /\ cpc[i] = "write" /\ chunk' = [chunk EXCEPT ![i] = <<>>]
      /\ UNCHANGED <<down, taken, out, data, available, faults>>
      /\ \/ up' = [up EXCEPT ![i] = @ \o chunk[i]] /\ cpc' = [cpc EXCEPT ![i] = "read"]
         \/ up' = up /\ cpc' = [cpc EXCEPT ![i] = "sigpipe"]
  <2>1. i < n - 1
    BY DEF writePipe
  <2>2. i \in Buffers /\ i # n - 1
    BY <2>1
  <2>. QED
    BY <2>2 DEF writePipe, ChildGoes
<1>2. /\ up \in [Buffers -> Seq(Bytes)] /\ cpc \in [Children -> ChildLabels]
      /\ chunk \in [Children -> Seq(Bytes)]
    BY Typed
<1>3. /\ g[i] \in Nat /\ g[i] <= Len(File) /\ g[i + 1] \in Nat
      /\ down[i] \in Seq(Bytes) /\ chunk[i] \in Seq(Bytes) /\ up[i] \in Seq(Bytes)
      /\ Content(i) \in Seq(Bytes)
      /\ Between(g[i + 1], g[i], down[i], Content(i), up[i], chunk[i], cpc[i] = "sigpipe")
    BY <1>1, HopParts
<1>4. chunk'[i] = <<>> /\ Content(i)' = Content(i) /\ down'[i] = down[i]
    BY <1>1, <1>2 DEF Content
<1>5. Between(g[i + 1], g[i], down[i], Content(i), up[i], chunk[i], FALSE)
    BY <1>1, <1>3 DEF Between
<1>6. Hop(g, i)'
  <2>1. CASE up' = [up EXCEPT ![i] = @ \o chunk[i]] /\ cpc' = [cpc EXCEPT ![i] = "read"]
    <3>1. up'[i] = up[i] \o chunk[i] /\ cpc'[i] = "read"
      BY <1>1, <1>2, <2>1
    <3>2. Between(g[i + 1], g[i], down[i], Content(i), up[i] \o chunk[i], <<>>, FALSE)
      BY <1>3, <1>5, BetweenWrites
    <3>3. (cpc'[i] = "sigpipe") = FALSE
      BY <3>1
    <3>4. Between(g[i + 1], g[i], down'[i], Content(i)', up'[i], chunk'[i], cpc'[i] = "sigpipe")
      BY <1>4, <3>1, <3>2, <3>3
    <3>. QED
      BY <1>1, <3>4, HopNext
  <2>2. CASE up' = up /\ cpc' = [cpc EXCEPT ![i] = "sigpipe"]
    <3>1. up'[i] = up[i] /\ (cpc'[i] = "sigpipe") = TRUE
      BY <1>1, <1>2, <2>2
    <3>2. Between(g[i + 1], g[i], down[i], Content(i), up[i], <<>>, TRUE)
      BY <1>3, BetweenBreaks
    <3>3. Between(g[i + 1], g[i], down'[i], Content(i)', up'[i], chunk'[i], cpc'[i] = "sigpipe")
      BY <1>4, <3>1, <3>2
    <3>. QED
      BY <1>1, <3>3, HopNext
  <2>. QED
    BY <1>1, <2>1, <2>2
<1>7. \A j \in Children \ {i} : cpc'[j] = cpc[j] /\ chunk'[j] = chunk[j]
    BY <1>1, <1>2
<1>8. ASSUME NEW j \in Buffers \ {i} PROVE SameHop(j)
  <2>1. up'[j] = up[j] /\ j \in Children \ {i}
    BY <1>1, <1>2, SMTT(30)
  <2>. QED
    BY <1>1, <1>7, <2>1 DEF SameHop, Content
<1>9. Within
  <2>1. cpc'[i] \in {"read", "sigpipe"}
    BY <1>1, <1>2
  <2>. QED
    BY <1>1, <1>7, <2>1 DEF Within
<1>. QED
    BY <1>1, <1>6, <1>8, <1>9, OneHop

\* The first child reads from the file.
LEMMA ReadFileFlow ==
    ASSUME TypeOK, Answers, NEW g, Hops(g), readFile
    PROVE  \E f : Hops(f)'
<1> DEFINE k == Least(ChildBuf, Len(File) - taken)
           s == Slice(taken, taken + k)
<1>1. /\ cpc[0] = "read" /\ chunk' = [chunk EXCEPT ![0] = s] /\ taken' = taken + k
      /\ cpc' = [cpc EXCEPT ![0] = IF k > 0 THEN "write" ELSE "ok"]
      /\ UNCHANGED <<up, down, data, available, out, faults>>
    BY DEF readFile, ChildGoes, Slice
<1>2. /\ chunk \in [Children -> Seq(Bytes)] /\ cpc \in [Children -> ChildLabels]
      /\ taken \in 0 .. Len(File)
    BY Typed
<1>3. 0 \in Buffers /\ 0 \in Children /\ n - 1 \in Children /\ n - 1 # 0 /\ Len(File) \in Nat
    OBVIOUS
<1>4. /\ k \in Nat /\ k <= ChildBuf /\ taken + k <= Len(File) /\ taken \in Nat
      /\ k = 0 => taken + k = Len(File)
  <2>1. taken \in Nat /\ Len(File) - taken \in Nat /\ ChildBuf \in Nat
    BY <1>2, <1>3
  <2>2. k \in Nat /\ k <= ChildBuf /\ k <= Len(File) - taken /\ (k = ChildBuf \/ k = Len(File) - taken)
    BY <2>1, LeastIs
  <2> HIDE DEF k
  <2>. QED
    BY <1>3, <2>1, <2>2
<1> HIDE DEF k
<1>5. g \in [Children -> 0 .. Len(File)] /\ g[0] = taken
    BY DEF Hops
<1>6. PICK f \in [Children -> 0 .. Len(File)] :
         f[0] = taken + k /\ \A j \in Children \ {0} : f[j] = g[j]
  <2>1. [g EXCEPT ![0] = taken + k] \in [Children -> 0 .. Len(File)]
    BY <1>3, <1>4, <1>5
  <2>. QED
    BY <1>3, <1>5, <2>1
<1> HIDE DEF s
<1>7. /\ chunk'[0] = s /\ cpc'[0] = IF k > 0 THEN "write" ELSE "ok"
      /\ \A j \in Children \ {0} : chunk'[j] = chunk[j] /\ cpc'[j] = cpc[j]
    BY <1>1, <1>2, <1>3
<1>8. Hop(f, 0)'
  <2>1. /\ g[0] \in Nat /\ g[0 + 1] \in Nat /\ down[0] \in Seq(Bytes) /\ up[0] \in Seq(Bytes)
        /\ Content(0) \in Seq(Bytes)
        /\ Between(g[0 + 1], g[0], down[0], Content(0), up[0], chunk[0], cpc[0] = "sigpipe")
    BY <1>3, HopParts
  <2>2. chunk[0] = <<>> /\ (cpc[0] = "sigpipe") = FALSE
    BY <1>1, <1>3 DEF Answers
  <2>3. Between(g[0 + 1], taken, down[0], Content(0), up[0], <<>>, FALSE)
    BY <1>5, <2>1, <2>2
  <2>4. Between(g[0 + 1], taken + k, down[0], Content(0), up[0], s, FALSE)
    BY <1>4, <2>1, <2>3, BetweenTakes DEF s
  <2>5. f[0 + 1] = g[0 + 1] /\ (cpc'[0] = "sigpipe") = FALSE
    BY <1>3, <1>6, <1>7
  <2>6. down'[0] = down[0] /\ up'[0] = up[0] /\ Content(0)' = Content(0)
    BY <1>1 DEF Content
  <2>7. Between(f[0 + 1], f[0], down'[0], Content(0)', up'[0], chunk'[0], cpc'[0] = "sigpipe")
    BY <1>6, <1>7, <2>4, <2>5, <2>6
  <2>. QED
    BY <1>3, <2>7, HopNext
<1>9. ASSUME NEW j \in Buffers PROVE Hop(f, j)'
  <2>1. CASE j # 0
    <3>1. j \in Children \ {0} /\ j + 1 \in Children \ {0}
      BY <2>1
    <3>2. SameHop(j)
      BY <1>1, <1>7, <3>1 DEF SameHop, Content
    <3>3. Hop(g, j) /\ f[j] = g[j] /\ f[j + 1] = g[j + 1]
      BY <1>6, <3>1 DEF Hops
    <3>. QED
      BY <3>2, <3>3, HopStays
  <2>. QED
    BY <1>8, <2>1
<1>10. /\ f[n - 1] = Len(out') + Len(chunk'[n - 1]) /\ out' = Slice(0, Len(out'))
       /\ chunk'[n - 1] = Slice(Len(out'), f[n - 1])
    BY <1>1, <1>3, <1>6, <1>7 DEF Hops
<1>11. ASSUME NEW i \in Children, ~faults', cpc'[i] = "ok" PROVE f[i] = Len(File)
  <2>1. CASE i = 0
    BY <1>4, <1>6, <1>7, <1>11, <2>1
  <2>2. CASE i # 0
    BY <1>1, <1>6, <1>7, <1>11, <2>2 DEF Hops
  <2>. QED
    BY <2>1, <2>2
<1>. QED
    BY <1>1, <1>6, <1>9, <1>10, <1>11 DEF Hops

\* A child at the end of its pipe has read as much as the one before it.
LEMMA AtTheEnd ==
    ASSUME NEW a \in Nat, NEW e \in Nat, Between(a, e, <<>>, <<>>, <<>>, <<>>, FALSE)
    PROVE  a = e
<1>1. Len(<<>>) = 0
    BY EmptySeq
<1>. QED
    BY <1>1 DEF Between

\* The other children read from their pipes.
LEMMA ReadPipeFlow ==
    ASSUME TypeOK, Answers, Quiet, TypeOK', Quiet', NEW g, Hops(g), NEW i \in Children, readPipe(i)
    PROVE  \E f : Hops(f)'
<1> DEFINE j == i - 1
           k == Least(ChildBuf, Len(down[j]))
           s == Front(down[j], k)
<1>1. /\ i > 0 /\ cpc[i] = "read" /\ chunk' = [chunk EXCEPT ![i] = s]
      /\ down' = [down EXCEPT ![j] = Rest(@, k)]
      /\ cpc' = [cpc EXCEPT ![i] = IF k > 0 THEN "write" ELSE "ok"]
      /\ UNCHANGED <<up, data, available, taken, out, faults>>
    BY DEF readPipe, ChildGoes
<1>2. /\ chunk \in [Children -> Seq(Bytes)] /\ cpc \in [Children -> ChildLabels]
      /\ down \in [Buffers -> Seq(Bytes)]
    BY Typed
<1>3. j \in Buffers /\ j \in Children /\ j + 1 = i /\ i # j /\ i # 0 /\ Len(File) \in Nat /\ ChildBuf \in Nat
    BY <1>1
<1>4. down[j] \in Seq(Bytes) /\ Len(down[j]) \in Nat
    BY <1>2, <1>3
<1>5. k \in 0 .. Len(down[j]) /\ k <= ChildBuf /\ Len(s) = k /\ s \in Seq(Bytes) /\ k \in Nat
  <2>1. k \in 0 .. Len(down[j]) /\ k <= ChildBuf /\ Len(s) = k /\ s \in Seq(Bytes)
    BY <1>3, <1>4, Bite
  <2> HIDE DEF k, s
  <2>. QED
    BY <1>4, <2>1
<1> HIDE DEF j, k
<1>6. /\ g[j] \in Nat /\ g[j] <= Len(File) /\ g[i] \in Nat
      /\ up[j] \in Seq(Bytes) /\ chunk[j] \in Seq(Bytes) /\ Content(j) \in Seq(Bytes)
      /\ Between(g[i], g[j], down[j], Content(j), up[j], chunk[j], cpc[j] = "sigpipe")
    BY <1>3, HopParts
<1>7. /\ Between(g[i] + k, g[j], Rest(down[j], k), Content(j), up[j], chunk[j], cpc[j] = "sigpipe")
      /\ s = Slice(g[i], g[i] + k) /\ g[i] + k <= Len(File)
  <2>1. /\ down[j] \in Seq(Bytes) /\ k \in 0 .. Len(down[j])
    BY <1>4, <1>5
  <2>2. /\ Between(g[i] + k, g[j], Rest(down[j], k), Content(j), up[j], chunk[j], cpc[j] = "sigpipe")
        /\ Front(down[j], k) = Slice(g[i], g[i] + k) /\ g[i] + k <= Len(File)
    <3> DEFINE a == g[i]
               e == g[j]
               x == down[j]
               gone == cpc[j] = "sigpipe"
    <3>1. /\ a \in Nat /\ e \in Nat /\ e <= Len(File) /\ x \in Seq(Bytes) /\ k \in 0 .. Len(x)
          /\ Content(j) \in Seq(Bytes) /\ up[j] \in Seq(Bytes) /\ chunk[j] \in Seq(Bytes)
          /\ Between(a, e, x, Content(j), up[j], chunk[j], gone)
      BY <1>6, <2>1
    <3> HIDE DEF a, e, x, gone
    <3>2. /\ Between(a + k, e, Rest(x, k), Content(j), up[j], chunk[j], gone)
          /\ Front(x, k) = Slice(a, a + k) /\ a + k <= Len(File)
      BY <3>1, BetweenReads
    <3>. QED
      BY <3>2 DEF a, e, x, gone
  <2>. QED
    BY <2>2
<1>8. g \in [Children -> 0 .. Len(File)]
    BY DEF Hops
<1>9. PICK f \in [Children -> 0 .. Len(File)] :
         f[i] = g[i] + k /\ \A m \in Children \ {i} : f[m] = g[m]
  <2>1. g[i] + k \in 0 .. Len(File)
    BY <1>5, <1>6, <1>7, <1>3
  <2>2. [g EXCEPT ![i] = g[i] + k] \in [Children -> 0 .. Len(File)]
    BY <1>8, <2>1
  <2>. QED
    BY <1>8, <2>2
<1> HIDE DEF s
<1>10. /\ chunk'[i] = s /\ cpc'[i] = (IF k > 0 THEN "write" ELSE "ok")
       /\ \A m \in Children \ {i} : chunk'[m] = chunk[m] /\ cpc'[m] = cpc[m]
    BY <1>1, <1>2
<1>11. /\ down'[j] = Rest(down[j], k)
       /\ \A m \in Buffers \ {j} : down'[m] = down[m]
       /\ \A m \in Buffers : up'[m] = up[m] /\ Content(m)' = Content(m)
    BY <1>1, <1>2, <1>3 DEF Content
<1>12. Hop(f, j)'
  <2>1. f[j + 1] = g[i] + k /\ f[j] = g[j] /\ chunk'[j] = chunk[j] /\ cpc'[j] = cpc[j]
    BY <1>3, <1>9, <1>10
  <2>2. Between(f[j + 1], f[j], down'[j], Content(j)', up'[j], chunk'[j], cpc'[j] = "sigpipe")
    BY <1>3, <1>7, <1>11, <2>1
  <2>. QED
    BY <1>3, <2>2, HopNext
<1>13. chunk[i] = <<>>
    BY <1>1 DEF Answers
<1>14. ASSUME i \in Buffers PROVE Hop(f, i)'
  <2>1. /\ g[i + 1] \in Nat /\ down[i] \in Seq(Bytes) /\ up[i] \in Seq(Bytes) /\ Content(i) \in Seq(Bytes)
        /\ Between(g[i + 1], g[i], down[i], Content(i), up[i], chunk[i], cpc[i] = "sigpipe")
    BY <1>14, HopParts
  <2>2. (cpc[i] = "sigpipe") = FALSE /\ (cpc'[i] = "sigpipe") = FALSE
    BY <1>1, <1>10
  <2>3. Between(g[i + 1], g[i], down[i], Content(i), up[i], <<>>, FALSE)
    BY <1>13, <2>1, <2>2
  <2>4. Between(g[i + 1], g[i] + k, down[i], Content(i), up[i], s, FALSE)
    <3>1. g[i] + k <= Len(File) /\ k <= ChildBuf /\ k \in Nat /\ g[i] \in Nat
      BY <1>5, <1>6, <1>7
    <3>2. Between(g[i + 1], g[i] + k, down[i], Content(i), up[i], Slice(g[i], g[i] + k), FALSE)
      BY <2>1, <2>3, <3>1, BetweenTakes
    <3>. QED
      BY <1>7, <3>2
  <2>5. f[i + 1] = g[i + 1] /\ i \in Buffers \ {j}
    BY <1>3, <1>9, <1>14
  <2>6. Between(f[i + 1], f[i], down'[i], Content(i)', up'[i], chunk'[i], cpc'[i] = "sigpipe")
    BY <1>9, <1>10, <1>11, <2>2, <2>4, <2>5
  <2>. QED
    BY <1>14, <2>6, HopNext
<1>15. ASSUME NEW m \in Buffers PROVE Hop(f, m)'
  <2>1. CASE m # i /\ m # j
    <3>1. m \in Children \ {i} /\ m + 1 \in Children \ {i} /\ m \in Buffers \ {j}
      BY <1>3, <2>1
    <3>2. SameHop(m)
      BY <1>10, <1>11, <3>1 DEF SameHop
    <3>3. Hop(g, m) /\ f[m] = g[m] /\ f[m + 1] = g[m + 1]
      BY <1>9, <3>1 DEF Hops
    <3>. QED
      BY <3>2, <3>3, HopStays
  <2>. QED
    BY <1>12, <1>14, <2>1
<1>16. /\ f[n - 1] = Len(out') + Len(chunk'[n - 1]) /\ out' = Slice(0, Len(out'))
       /\ chunk'[n - 1] = Slice(Len(out'), f[n - 1])
  <2>1. /\ g[n - 1] = Len(out) + Len(chunk[n - 1]) /\ out = Slice(0, Len(out))
        /\ chunk[n - 1] = Slice(Len(out), g[n - 1]) /\ out' = out
    BY <1>1 DEF Hops
  <2>2. CASE i = n - 1
    <3>1. Len(out) \in Nat /\ Len(chunk[n - 1]) = 0
      BY <1>13, <2>2, EmptySeq, Typed
    <3>2. g[i] = Len(out)
      BY <2>1, <2>2, <3>1
    <3>3. f[n - 1] = Len(out) + k /\ chunk'[n - 1] = Slice(Len(out), f[n - 1]) /\ Len(chunk'[n - 1]) = k
      BY <1>5, <1>7, <1>9, <1>10, <2>2, <3>2
    <3>. QED
      BY <2>1, <3>3
  <2>3. CASE i # n - 1
    <3>1. n - 1 \in Children \ {i}
      BY <2>3
    <3>2. f[n - 1] = g[n - 1] /\ chunk'[n - 1] = chunk[n - 1]
      BY <1>9, <1>10, <3>1
    <3>. QED
      BY <2>1, <3>2
  <2>. QED
    BY <2>2, <2>3
<1>17. ASSUME ~faults', cpc'[i] = "ok" PROVE f[i] = Len(File)
  <2>1. rpc' \in {"poll", "scan", "ok"} /\ Closed(j)' /\ down'[j] = <<>> /\ ClosedWhenDrained'
    BY <1>3, <1>17 DEF Quiet
  <2>2. available'[j] = 0 /\ up'[j] = <<>> /\ ChildEnded(j)'
    BY <1>3, <1>17, <2>1 DEF ClosedWhenDrained
  <2>3. cpc[j] = "ok"
    <3>1. cpc'[j] = cpc[j]
      BY <1>3, <1>10
    <3>2. cpc[j] \notin {"sigpipe", "killed"}
      BY <1>1, <1>3, <1>17 DEF Quiet
    <3>. QED
      BY <2>2, <3>1, <3>2
  <2>4. chunk[j] = <<>> /\ g[j] = Len(File)
    BY <1>1, <1>3, <1>17, <2>3 DEF Answers, Hops
  <2>5. Content(j) = <<>> /\ up[j] = <<>>
    BY <1>1, <1>3, <1>11, <2>2, ContentTypes
  <2>6. Rest(down[j], k) = <<>> /\ (cpc[j] = "sigpipe") = FALSE
    BY <1>11, <2>1, <2>3
  <2>7. Between(g[i] + k, g[j], <<>>, <<>>, <<>>, <<>>, FALSE)
    BY <1>7, <2>4, <2>5, <2>6
  <2>8. g[i] + k \in Nat
    BY <1>5, <1>6, SMTT(30)
  <2>. QED
    BY <1>6, <1>9, <2>4, <2>7, <2>8, AtTheEnd
<1>18. ASSUME NEW m \in Children, ~faults', cpc'[m] = "ok" PROVE f[m] = Len(File)
  <2>1. CASE m # i
    BY <1>1, <1>9, <1>10, <1>18, <2>1 DEF Hops
  <2>. QED
    BY <1>17, <1>18, <2>1
<1>19. taken' = taken /\ f[0] = taken
    BY <1>1, <1>3, <1>9 DEF Hops
<1>. QED
    BY <1>9, <1>15, <1>16, <1>18, <1>19 DEF Hops

\* The last child prints.
LEMMA WriteOutFlow ==
    ASSUME TypeOK, NEW g, Hops(g), writeOut
    PROVE  Hops(g)'
<1> DEFINE l == n - 1
           s == chunk[l]
<1>1. PICK k \in 1 .. Len(s) :
         /\ out' = out \o Front(s, k)
         /\ chunk' = [chunk EXCEPT ![l] = Rest(@, k)]
         /\ cpc' = [cpc EXCEPT ![l] = IF k < Len(s) THEN "write" ELSE "read"]
         /\ UNCHANGED <<up, down, data, available, taken, faults>>
    BY DEF writeOut, ChildGoes, Left
<1>2. /\ chunk \in [Children -> Seq(Bytes)] /\ cpc \in [Children -> ChildLabels] /\ out \in Seq(Bytes)
    BY Typed
<1>3. l \in Children /\ l \notin Buffers /\ s \in Seq(Bytes)
  <2>1. l \in Children /\ l \notin Buffers
    OBVIOUS
  <2>. QED
    BY <1>2, <2>1
<1> DEFINE a == Len(out)
           b == Len(s)
<1>4. a \in Nat /\ b \in Nat /\ k \in 0 .. b /\ k \in Nat /\ k <= b
    BY <1>2, <1>3
<1>5. g[l] = a + b /\ out = Slice(0, a) /\ s = Slice(a, g[l]) /\ g[l] <= Len(File) /\ Len(File) \in Nat
  <2>1. g \in [Children -> 0 .. Len(File)] /\ Len(File) \in Nat
    BY DEF Hops
  <2>2. g[l] \in 0 .. Len(File)
    BY <1>3, <2>1
  <2>. QED
    BY <2>1, <2>2 DEF Hops
<1>6. Front(s, k) \in Seq(Bytes) /\ Len(Front(s, k)) = k /\ Rest(s, k) \in Seq(Bytes) /\ Len(Rest(s, k)) = b - k
    BY <1>3, <1>4, Cut
<1>7. chunk'[l] = Rest(s, k) /\ \A m \in Children \ {l} : chunk'[m] = chunk[m] /\ cpc'[m] = cpc[m]
    BY <1>1, <1>2, <1>3
<1>8. Len(out \o Front(s, k)) = a + k
  <2>1. Len(out \o Front(s, k)) = Len(out) + Len(Front(s, k))
    BY <1>2, <1>6, Joined
  <2>. QED
    BY <1>6, <2>1
<1> HIDE DEF a, b, s, l
<1>9. /\ a <= g[l] /\ g[l] \in Nat /\ k \in 0 .. g[l] - a /\ 0 <= a /\ a <= a + k /\ a + k <= Len(File)
      /\ (a + k) + (b - k) = g[l] /\ a + k \in Nat
    BY <1>4, <1>5
<1>10. Front(s, k) = Slice(a, a + k) /\ Rest(s, k) = Slice(a + k, g[l])
    BY <1>4, <1>5, <1>9, CutSlice
<1>11. out \o Front(s, k) = Slice(0, a + k)
  <2>1. 0 \in Nat /\ a \in Nat /\ a + k \in Nat
    BY <1>4
  <2>2. Slice(0, a) \o Slice(a, a + k) = Slice(0, a + k)
    BY <1>9, <2>1, JoinSlices
  <2>. QED
    BY <1>5, <1>10, <2>2
<1>12. /\ g[l] = Len(out') + Len(chunk'[l]) /\ out' = Slice(0, Len(out'))
       /\ chunk'[l] = Slice(Len(out'), g[l])
    BY <1>1, <1>6, <1>7, <1>8, <1>9, <1>10, <1>11
<1>13. ASSUME NEW m \in Buffers PROVE Hop(g, m)'
  <2>1. m \in Children \ {l} /\ Hop(g, m)
    BY <1>3 DEF Hops
  <2>2. SameHop(m)
    BY <1>1, <1>7, <2>1 DEF SameHop, Content
  <2>. QED
    BY <2>1, <2>2, HopStays
<1>14. \A m \in Children : cpc'[m] = "ok" => cpc[m] = "ok"
    BY <1>1, <1>2, <1>3, <1>7
<1>. QED
    BY <1>1, <1>12, <1>13, <1>14 DEF Hops, l

\* With buffers that are written out by one write(), what is on its way is always
\* the file from where the output ends to where the first child has come.
LEMMA StepFlow ==
    ASSUME TypeOK, Ends, Answers, Quiet, Flow, [Next]_vars, TypeOK', Quiet'
    PROVE  Flow'
<1>. SUFFICES ASSUME Unsplit
              PROVE  \E f : Hops(f)'
    BY DEF Flow, Unsplit
<1>1. PICK g : Hops(g)
    BY DEF Flow
<1>2. CASE \/ openPipes \/ fork \/ parentCloses \/ poll \/ parentKilled \/ UNCHANGED vars
           \/ \E i \in Buffers : brokenPipe(i) \/ pass(i)
           \/ \E i \in Children : childCloses(i) \/ childKilled(i)
    BY <1>1, <1>2, OtherFlow
<1>3. CASE \E i \in Buffers : fill(i) \/ drain(i)
    BY <1>1, <1>3, FillFlow, DrainFlow
<1>4. CASE readFile
    BY <1>1, <1>4, ReadFileFlow
<1>5. CASE \E i \in Children : readPipe(i) \/ writePipe(i)
    BY <1>1, <1>5, ReadPipeFlow, WritePipeFlow
<1>6. CASE writeOut
    BY <1>1, <1>6, WriteOutFlow
<1>. QED
    BY <1>2, <1>3, <1>4, <1>5, <1>6 DEF Next, relay, child

-----------------------------------------------------------------------------
(* The invariant.                                                          *)

\* The invariant holds at the start.
LEMMA InitInv == Init => IInv
<1>. SUFFICES ASSUME Init
              PROVE  IInv
    OBVIOUS
<1>1. /\ holds = [p \in Procs |-> {}] /\ rpc = "pipe" /\ taken = 0 /\ out = <<>>
      /\ up = [i \in Buffers |-> <<>>] /\ down = [i \in Buffers |-> <<>>]
      /\ data = [i \in Buffers |-> <<>>] /\ available = [i \in Buffers |-> 0]
      /\ cpc = [i \in Children |-> "unborn"] /\ chunk = [i \in Children |-> <<>>]
    BY DEF Init
<1>2. TypeOK /\ Ends
    BY InitTypes, InitEnds
<1>3. Answers
    BY <1>1 DEF Answers
<1>4. Quiet
    BY <1>1 DEF Quiet, ClosedWhenDrained
<1>5. Flow
  <2>1. Len(<<>>) = 0 /\ Slice(0, 0) = <<>> /\ Len(File) \in Nat /\ ChildBuf \in Nat
    BY NoSlice
  <2>2. PICK g \in [Children -> 0 .. Len(File)] : \A i \in Children : g[i] = 0
    <3>1. [i \in Children |-> 0] \in [Children -> 0 .. Len(File)]
      BY <2>1
    <3>. QED
      BY <3>1
  <2>3. ASSUME NEW i \in Buffers PROVE Hop(g, i)
    <3>1. i \in Children /\ i + 1 \in Children
      OBVIOUS
    <3>2. g[i] = 0 /\ g[i + 1] = 0 /\ up[i] = <<>> /\ down[i] = <<>> /\ chunk[i] = <<>>
      BY <1>1, <2>2, <3>1
    <3>3. Content(i) = <<>>
      BY <1>1, <1>2, ContentTypes
    <3>4. Between(0, 0, <<>>, <<>>, <<>>, <<>>, cpc[i] = "sigpipe")
      BY <2>1 DEF Between
    <3>. QED
      BY <3>2, <3>3, <3>4 DEF Hop
  <2>4. 0 \in Children /\ n - 1 \in Children
    OBVIOUS
  <2>5. /\ g[0] = taken /\ g[n - 1] = Len(out) + Len(chunk[n - 1]) /\ out = Slice(0, Len(out))
        /\ chunk[n - 1] = Slice(Len(out), g[n - 1])
    BY <1>1, <2>1, <2>2, <2>4
  <2>6. Hops(g)
    BY <1>1, <2>3, <2>5 DEF Hops
  <2>. QED
    BY <2>6 DEF Flow
<1>. QED
    BY <1>2, <1>3, <1>4, <1>5 DEF IInv

\* Every step keeps it.
LEMMA StepInv == IInv /\ [Next]_vars => IInv'
<1>. SUFFICES ASSUME IInv, [Next]_vars
              PROVE  IInv'
    OBVIOUS
<1>1. TypeOK /\ Ends /\ Answers /\ Quiet /\ Flow
    BY DEF IInv
<1>2. TypeOK' /\ Ends' /\ Answers' /\ Quiet'
    BY <1>1, StepTypes, StepEnds, StepAnswers, StepQuiet
<1>3. Flow'
    BY <1>1, <1>2, StepFlow
<1>. QED
    BY <1>2, <1>3 DEF IInv

\* The invariant holds in every behaviour of the program.
THEOREM Invariance == Spec => []IInv
<1>. QED
    BY InitInv, StepInv, PTL DEF Spec

\* The types, and with them that no pipe is filled above its capacity and no
\* buffer above its size, for any number of children and sizes of buffers.
THEOREM TypeCorrect == Spec => []TypeOK
<1>1. IInv => TypeOK
    BY DEF IInv
<1>. QED
    BY <1>1, Invariance, PTL

\* A child copies with no pipe end open but its own two: spawnChildren() closes
\* in each child all that it inherits, for any number of children.
THEOREM OwnEnds == Spec => []OwnEndsOnly
<1>1. IInv => OwnEndsOnly
    BY DEF IInv, Ends, ChildHas, Own, OwnEndsOnly
<1>. QED
    BY <1>1, Invariance, PTL

\* The parent closes a buffer only when everything that comes into it has been
\* passed on, whatever the sizes of the buffers.
THEOREM ClosesDrained == Spec => []ClosedWhenDrained
<1>1. IInv => ClosedWhenDrained
  <2>. SUFFICES ASSUME Quiet
                PROVE  ClosedWhenDrained
    BY DEF IInv
  <2>. QED
    BY DEF Quiet, ClosedWhenDrained
<1>. QED
    BY <1>1, Invariance, PTL

-----------------------------------------------------------------------------
(* Nothing is lost.                                                        *)

\* What a child has in hand is the last it has read.
Begins(g, i) == g[i] - Len(chunk[i])

\* The pieces between a child and the next one, from place to place.
Piece(g, i, d, b) ==
    /\ g[i + 1] <= d /\ d <= b /\ b <= Begins(g, i) /\ Begins(g, i) <= g[i]
    /\ Begins(g, i) \in Nat
    /\ down[i] = Slice(g[i + 1], d) /\ Content(i) = Slice(d, b) /\ up[i] = Slice(b, Begins(g, i))
    /\ chunk[i] = Slice(Begins(g, i), g[i])

\* Unless a child has met SIGPIPE the pieces are contiguous.
LEMMA Pieces ==
    ASSUME TypeOK, NEW g, Hops(g), NEW i \in Buffers, cpc[i] # "sigpipe"
    PROVE  \E d, b \in Nat : Piece(g, i, d, b)
<1>1. /\ g[i] \in Nat /\ g[i] <= Len(File) /\ g[i + 1] \in Nat
      /\ down[i] \in Seq(Bytes) /\ up[i] \in Seq(Bytes) /\ chunk[i] \in Seq(Bytes)
      /\ Content(i) \in Seq(Bytes)
      /\ Between(g[i + 1], g[i], down[i], Content(i), up[i], chunk[i], cpc[i] = "sigpipe")
    BY HopParts
<1>2. PICK d, b, h, k \in Nat :
         At(g[i + 1], g[i], down[i], Content(i), up[i], chunk[i], cpc[i] = "sigpipe", d, b, h, k)
    BY <1>1, Places
<1>3. /\ g[i + 1] <= d /\ d <= b /\ b <= h /\ h <= k /\ k = h + Len(chunk[i]) /\ Len(chunk[i]) \in Nat
      /\ g[i] = k
      /\ down[i] = Slice(g[i + 1], d) /\ Content(i) = Slice(d, b) /\ up[i] = Slice(b, h)
      /\ chunk[i] = Slice(h, k)
    BY <1>2 DEF At
<1>4. Begins(g, i) = h
  <2> DEFINE l == Len(chunk[i])
  <2>1. l \in Nat /\ g[i] = h + l
    BY <1>3
  <2> HIDE DEF l
  <2>2. g[i] - l = h
    BY <2>1
  <2>. QED
    BY <2>2 DEF Begins, l
<1>. QED
    BY <1>3, <1>4 DEF Piece

\* No child has read more than the one before it.
LEMMA Behind ==
    ASSUME TypeOK, NEW g, Hops(g)
    PROVE  /\ \A i \in Buffers : g[i + 1] <= g[i]
           /\ \A i \in Children : g[i] \in Nat /\ g[i] <= taken
<1>1. ASSUME NEW i \in Buffers PROVE g[i + 1] <= g[i] /\ g[i] \in Nat /\ g[i + 1] \in Nat
  <2>1. /\ g[i] \in Nat /\ g[i] <= Len(File) /\ g[i + 1] \in Nat
        /\ down[i] \in Seq(Bytes) /\ up[i] \in Seq(Bytes) /\ chunk[i] \in Seq(Bytes)
        /\ Content(i) \in Seq(Bytes)
        /\ Between(g[i + 1], g[i], down[i], Content(i), up[i], chunk[i], cpc[i] = "sigpipe")
    BY HopParts
  <2>2. PICK d, b, h, k \in Nat :
           At(g[i + 1], g[i], down[i], Content(i), up[i], chunk[i], cpc[i] = "sigpipe", d, b, h, k)
    BY <2>1, Places
  <2>3. g[i + 1] <= d /\ d <= b /\ b <= h /\ h <= k /\ k <= g[i]
    BY <2>2 DEF At
  <2>4. g[i + 1] <= g[i]
    BY <2>1, <2>3
  <2>. QED
    BY <2>1, <2>4
<1> DEFINE S == {m \in Nat : m \in Children => g[m] <= taken}
<1>2. 0 \in S
  <2>1. g[0] = taken /\ taken \in Nat
    BY Typed DEF Hops
  <2>. QED
    BY <2>1
<1>3. ASSUME NEW m \in Nat, m \in S PROVE m + 1 \in S
  <2>. SUFFICES ASSUME m + 1 \in Children PROVE g[m + 1] <= taken
    OBVIOUS
  <2>1. m \in Buffers /\ m \in Children
    OBVIOUS
  <2>2. g[m] <= taken /\ taken \in Nat
    BY <1>3, <2>1, Typed
  <2>. QED
    BY <1>1, <2>1, <2>2
<1> HIDE DEF S
<1>4. Nat \subseteq S
    BY <1>2, <1>3, NatSetInduction
<1>5. \A i \in Children : g[i] <= taken
    BY <1>4 DEF S
<1>6. \A i \in Children : g[i] \in Nat
    BY DEF Hops
<1>. QED
    BY <1>1, <1>5, <1>6

\* The chunks of the children.
LEMMA Chunks ==
    ASSUME TypeOK, NEW g, Hops(g), \A i \in Buffers : cpc[i] # "sigpipe", NEW i \in Children
    PROVE  /\ Begins(g, i) \in Nat /\ Begins(g, i) <= g[i]
           /\ chunk[i] = Slice(Begins(g, i), g[i])
<1>1. CASE i \in Buffers
  <2>1. PICK d, b \in Nat : Piece(g, i, d, b)
    BY <1>1, Pieces
  <2>. QED
    BY <2>1 DEF Piece
<1>2. CASE i \notin Buffers
  <2>1. i = n - 1
    BY <1>2
  <2>2. /\ out \in Seq(Bytes) /\ chunk \in [Children -> Seq(Bytes)]
    BY Typed
  <2>3. chunk[i] \in Seq(Bytes)
    BY <2>2
  <2> DEFINE l == Len(chunk[i])
             a == Len(out)
  <2>4. g[i] = a + l /\ a \in Nat /\ l \in Nat /\ chunk[i] = Slice(a, g[i])
    <3>1. a \in Nat /\ l \in Nat
      BY <2>2, <2>3
    <3>. QED
      BY <2>1, <3>1 DEF Hops
  <2> HIDE DEF l, a
  <2>5. g[i] - l = a /\ a <= g[i]
    BY <2>4
  <2>6. Begins(g, i) = a
    BY <2>5 DEF Begins, l
  <2>. QED
    BY <2>4, <2>5, <2>6
<1>. QED
    BY <1>1, <1>2

\* What is on its way to child i is a piece of the file.
LEMMA OnTheWayIs ==
    ASSUME TypeOK, NEW g, Hops(g), \A i \in Buffers : cpc[i] # "sigpipe"
    PROVE  OnTheWay = Slice(Begins(g, n - 1), taken)
<1> DEFINE F(f) == [i \in Children |->
                       IF i = 0 THEN chunk[0]
                       ELSE chunk[i] \o down[i - 1] \o Front(data[i - 1], available[i - 1])
                                     \o up[i - 1] \o f[i - 1]]
           to == CHOOSE f : f = F(f)
           w == [i \in Children |-> Slice(Begins(g, i), taken)]
<1>1. taken \in Nat /\ taken <= Len(File) /\ g[0] = taken
  <2>1. taken \in 0 .. Len(File) /\ Len(File) \in Nat
    BY Typed
  <2>. QED
    BY <2>1 DEF Hops
<1>2. ASSUME NEW i \in Buffers
      PROVE  chunk[i + 1] \o down[i] \o Content(i) \o up[i] \o w[i] = w[i + 1]
  <2>1. i \in Children /\ i + 1 \in Children
    OBVIOUS
  <2>2. PICK d, b \in Nat : Piece(g, i, d, b)
    BY Pieces
  <2>3. /\ Begins(g, i + 1) \in Nat /\ Begins(g, i + 1) <= g[i + 1]
        /\ chunk[i + 1] = Slice(Begins(g, i + 1), g[i + 1])
    BY <2>1, Chunks
  <2>4. g[i + 1] \in Nat /\ g[i] \in Nat /\ g[i] <= taken
    BY <2>1, Behind
  <2> DEFINE a == Begins(g, i + 1)
             h == Begins(g, i)
             e == g[i + 1]
  <2>5. /\ e <= d /\ d <= b /\ b <= h /\ h <= g[i] /\ h \in Nat
        /\ down[i] = Slice(e, d) /\ Content(i) = Slice(d, b) /\ up[i] = Slice(b, h)
    BY <2>2 DEF Piece
  <2>6. a \in Nat /\ e \in Nat /\ a <= e /\ chunk[i + 1] = Slice(a, e)
    BY <2>3, <2>4
  <2>7. w[i] = Slice(h, taken) /\ w[i + 1] = Slice(a, taken)
    BY <2>1
  <2> HIDE DEF a, h, e, w
  <2>8. h <= taken
    BY <1>1, <2>4, <2>5
  <2>9. Slice(a, e) \o Slice(e, d) \o Slice(d, b) \o Slice(b, h) \o Slice(h, taken) = Slice(a, taken)
    <3> DEFINE t == taken
    <3>1. /\ a \in Nat /\ e \in Nat /\ d \in Nat /\ b \in Nat /\ h \in Nat /\ t \in Nat
          /\ a <= e /\ e <= d /\ d <= b /\ b <= h /\ h <= t /\ t <= Len(File)
      BY <1>1, <2>5, <2>6, <2>8
    <3> HIDE DEF t
    <3>2. Slice(a, e) \o Slice(e, d) \o Slice(d, b) \o Slice(b, h) \o Slice(h, t) = Slice(a, t)
      <4>1. h <= Len(File) /\ b <= Len(File) /\ d <= Len(File) /\ a <= d /\ a <= b /\ a <= h
        BY <3>1
      <4>2. Slice(a, e) \o Slice(e, d) = Slice(a, d)
        BY <3>1, <4>1, JoinSlices
      <4>3. Slice(a, d) \o Slice(d, b) = Slice(a, b)
        BY <3>1, <4>1, JoinSlices
      <4>4. Slice(a, b) \o Slice(b, h) = Slice(a, h)
        BY <3>1, <4>1, JoinSlices
      <4>5. Slice(a, h) \o Slice(h, t) = Slice(a, t)
        BY <3>1, <4>1, JoinSlices
      <4>. QED
        BY <4>2, <4>3, <4>4, <4>5
    <3>. QED
      BY <3>2 DEF t
  <2>. QED
    BY <2>5, <2>6, <2>7, <2>9
<1>3. w[0] = chunk[0]
  <2>1. 0 \in Children
    OBVIOUS
  <2>. QED
    BY <1>1, <2>1, Chunks
<1>4. w = F(w)
  <2>1. ASSUME NEW i \in Children PROVE w[i] = F(w)[i]
    <3>1. CASE i = 0
      BY <1>3, <3>1
    <3>2. CASE i # 0
      <4>1. i - 1 \in Buffers /\ (i - 1) + 1 = i
        BY <3>2
      <4>2. chunk[i] \o down[i - 1] \o Content(i - 1) \o up[i - 1] \o w[i - 1] = w[i]
        BY <1>2, <4>1
      <4> HIDE DEF w
      <4>. QED
        BY <3>2, <4>2 DEF Content
    <3>. QED
      BY <3>1, <3>2
  <2>. QED
    BY <2>1
<1>5. to = F(to)
    BY <1>4
<1>6. OnTheWay = to[n - 1]
    BY DEF OnTheWay
<1> HIDE DEF to, w
<1> DEFINE S == {m \in Nat : m \in Children => to[m] = w[m]}
<1>7. 0 \in S
  <2>1. 0 \in Children
    OBVIOUS
  <2>2. to[0] = chunk[0]
    BY <1>5, <2>1
  <2>. QED
    BY <1>3, <2>2
<1>8. ASSUME NEW m \in Nat, m \in S PROVE m + 1 \in S
  <2>. SUFFICES ASSUME m + 1 \in Children PROVE to[m + 1] = w[m + 1]
    OBVIOUS
  <2>1. m \in Buffers /\ m \in Children /\ (m + 1) - 1 = m /\ m + 1 # 0
    OBVIOUS
  <2>2. to[m] = w[m]
    BY <1>8, <2>1
  <2>3. to[m + 1] = chunk[m + 1] \o down[m] \o Front(data[m], available[m]) \o up[m] \o to[m]
    BY <1>5, <2>1
  <2>. QED
    BY <1>2, <2>1, <2>2, <2>3 DEF Content
<1> HIDE DEF S
<1>9. Nat \subseteq S
    BY <1>7, <1>8, NatSetInduction
<1>10. n - 1 \in Nat /\ n - 1 \in Children
    OBVIOUS
<1>11. to[n - 1] = w[n - 1]
    BY <1>9, <1>10 DEF S
<1>. QED
    BY <1>6, <1>10, <1>11 DEF w

\* The sizes of the program for two or three children: no buffer is larger than
\* PIPE_BUF.  With four children the first one is.
LEMMA SmallBuffers == n <= 3 => Unsplit
<1> SUFFICES ASSUME n <= 3, NEW i \in Buffers PROVE BufSize[i] <= PipeBuf
    BY DEF Unsplit
<1> DEFINE F(g) == [d \in 0 .. n |-> IF d = 0 THEN 81 ELSE 3 * g[d - 1]]
           h == [d \in 0 .. n |-> IF d = 0 THEN 81 ELSE IF d = 1 THEN 243
                                   ELSE IF d = 2 THEN 729 ELSE 2187]
<1>1. n \in Nat /\ n - i \in 0 .. n /\ (n - i = 2 \/ n - i = 3)
    BY DEF Buffers
<1>2. h = F(h)
  <2>1. ASSUME NEW d \in 0 .. n PROVE h[d] = IF d = 0 THEN 81 ELSE 3 * h[d - 1]
    <3>1. d = 0 \/ d = 1 \/ d = 2 \/ d = 3
      BY <1>1
    <3>2. d # 0 => d - 1 \in 0 .. n
      BY <1>1
    <3>. QED
      BY <3>1, <3>2
  <2>2. h = [d \in 0 .. n |-> h[d]]
    OBVIOUS
  <2>. HIDE DEF h
  <2>. QED
    BY <2>1, <2>2
<1>3. size = F(size)
  <2>1. size = CHOOSE g : g = F(g)
    BY DEF size
  <2>. HIDE DEF F, h
  <2>. QED
    BY <1>2, <2>1
<1>4. /\ \A d \in 0 .. n : size[d] = IF d = 0 THEN 81 ELSE 3 * size[d - 1]
  <2>. HIDE DEF h
  <2>. QED
    BY <1>3
<1>5. size[0] = 81 /\ size[1] = 243 /\ size[2] = 729
  <2>1. 0 \in 0 .. n /\ 1 \in 0 .. n /\ 2 \in 0 .. n
    BY <1>1
  <2>. QED
    BY <1>4, <2>1
<1>6. n - i = 3 => size[3] = 2187
    BY <1>1, <1>4, <1>5
<1>7. size[n - i] = 729 \/ size[n - i] = 2187
    BY <1>1, <1>5, <1>6
<1>8. bufferSize(i) <= 4096
    BY <1>7 DEF bufferSize, Least
<1>. QED
    BY <1>8, SizeAssumption

\* Without faults nothing is lost, repeated or overtaken between the file, of any
\* length, and the output: the output, then what is in the children, the pipes and
\* the buffers, is what was read.  It holds for two and three children only:
\* from four on main() has a buffer that one write() may take in part.
THEOREM Conservation == ASSUME n <= 3 PROVE Spec => []NothingLost
<1>1. IInv => NothingLost
  <2>. SUFFICES ASSUME IInv, ~faults
                PROVE  out \o OnTheWay = Front(File, taken)
    BY DEF NothingLost
  <2>1. PICK g : Hops(g)
    BY SmallBuffers DEF IInv, Flow
  <2>2. TypeOK /\ \A i \in Buffers : cpc[i] # "sigpipe"
    BY DEF IInv, Quiet
  <2>3. OnTheWay = Slice(Begins(g, n - 1), taken)
    BY <2>1, <2>2, OnTheWayIs
  <2>4. n - 1 \in Children
    OBVIOUS
  <2>5. /\ out \in Seq(Bytes) /\ chunk[n - 1] \in Seq(Bytes) /\ taken \in Nat /\ taken <= Len(File)
    <3>1. /\ out \in Seq(Bytes) /\ chunk \in [Children -> Seq(Bytes)] /\ taken \in 0 .. Len(File)
      BY <2>2, Typed
    <3>2. Len(File) \in Nat
      OBVIOUS
    <3>. QED
      BY <2>4, <3>1, <3>2
  <2> DEFINE a == Len(out)
             l == Len(chunk[n - 1])
  <2>6. a \in Nat /\ l \in Nat /\ g[n - 1] = a + l /\ out = Slice(0, a)
    BY <2>1, <2>5 DEF Hops
  <2>7. g[n - 1] <= taken
    BY <2>1, <2>2, <2>4, Behind
  <2> HIDE DEF a, l
  <2>8. g[n - 1] - l = a /\ a <= taken /\ 0 <= a /\ 0 \in Nat
    BY <2>5, <2>6, <2>7
  <2>9. Begins(g, n - 1) = a
    BY <2>8 DEF Begins, l
  <2>10. Slice(0, a) \o Slice(a, taken) = Slice(0, taken)
    BY <2>5, <2>6, <2>8, JoinSlices
  <2>11. Slice(0, taken) = Front(File, taken)
    BY DEF Slice, Front
  <2>. QED
    BY <2>3, <2>6, <2>9, <2>10, <2>11
<1>. QED
    BY <1>1, Invariance, PTL

-----------------------------------------------------------------------------
(* The pipeline is one copy of the file.                                   *)

\* Sums over the first terms of f, from b on.
Adds(h, b, f, m) == h \in [0 .. m -> Nat] /\ h[0] = b /\ \A i \in 0 .. m - 1 : h[i + 1] = h[i] + f[i]

\* They exist up to any number of terms.
LEMMA PartialSums ==
    ASSUME NEW m \in Nat, NEW b \in Nat, NEW f \in [0 .. m - 1 -> Nat]
    PROVE  \E h : Adds(h, b, f, m)
<1> DEFINE S == {k \in Nat : k <= m => \E h : Adds(h, b, f, k)}
<1>1. 0 \in S
  <2>1. Adds([i \in 0 .. 0 |-> b], b, f, 0)
    BY DEF Adds
  <2>. QED
    BY <2>1
<1>2. ASSUME NEW k \in Nat, k \in S PROVE k + 1 \in S
  <2>. SUFFICES ASSUME k + 1 <= m PROVE \E h : Adds(h, b, f, k + 1)
    OBVIOUS
  <2>1. PICK h : Adds(h, b, f, k)
    BY <1>2
  <2> DEFINE g == [i \in 0 .. k + 1 |-> IF i = k + 1 THEN h[k] + f[k] ELSE h[i]]
  <2>2. h \in [0 .. k -> Nat] /\ f[k] \in Nat /\ h[k] \in Nat
    BY <2>1 DEF Adds
  <2>3. /\ g \in [0 .. k + 1 -> Nat] /\ g[k + 1] = h[k] + f[k]
        /\ \A i \in 0 .. k : g[i] = h[i]
    BY <2>2
  <2> HIDE DEF g
  <2>4. ASSUME NEW i \in 0 .. (k + 1) - 1 PROVE g[i + 1] = g[i] + f[i]
    <3>1. CASE i = k
      BY <2>3, <3>1
    <3>2. CASE i # k
      <4>1. i \in 0 .. k - 1 /\ i + 1 \in 0 .. k /\ i \in 0 .. k
        BY <3>2
      <4>. QED
        BY <2>1, <2>3, <4>1 DEF Adds
    <3>. QED
      BY <3>1, <3>2
  <2>5. g[0] = b
    BY <2>1, <2>3 DEF Adds
  <2>6. Adds(g, b, f, k + 1)
    BY <2>3, <2>4, <2>5 DEF Adds
  <2>. QED
    BY <2>6
<1> HIDE DEF S
<1>3. m \in S
    BY <1>1, <1>2, NatSetInduction
<1>. QED
    BY <1>3 DEF S

\* What a hop can hold.
HopHolds(i) == ChildBuf + 2 * PipeCap + BufSize[i]

\* Capacity is a sum over the hops.
LEMMA CapacityAdds ==
    \E h : /\ h \in [Children -> Nat] /\ h[0] = ChildBuf
           /\ \A i \in Buffers : h[i + 1] = h[i] + HopHolds(i)
           /\ Capacity = h[n - 1]
<1> DEFINE f == [i \in Buffers |-> HopHolds(i)]
           F(s) == [i \in Children |->
                       IF i = 0 THEN ChildBuf ELSE s[i - 1] + ChildBuf + 2 * PipeCap + BufSize[i - 1]]
           sum == CHOOSE s : s = F(s)
<1>1. ChildBuf \in Nat /\ PipeCap \in Nat /\ n - 1 \in Nat /\ (n - 1) - 1 = n - 2
    OBVIOUS
<1>2. f \in [0 .. (n - 1) - 1 -> Nat]
    BY <1>1 DEF HopHolds
<1> HIDE DEF f
<1>3. PICK h : Adds(h, ChildBuf, f, n - 1)
    BY <1>1, <1>2, PartialSums
<1> USE DEF f
<1>4. /\ h \in [Children -> Nat] /\ h[0] = ChildBuf
      /\ \A i \in Buffers : h[i + 1] = h[i] + HopHolds(i)
    BY <1>1, <1>3 DEF Adds
<1> HIDE DEF f
<1>5. ASSUME NEW i \in Children
      PROVE  h[i] = IF i = 0 THEN ChildBuf ELSE h[i - 1] + ChildBuf + 2 * PipeCap + BufSize[i - 1]
  <2>1. CASE i # 0
    <3>1. i - 1 \in Buffers /\ (i - 1) + 1 = i
      BY <2>1
    <3>2. h[i] = h[i - 1] + HopHolds(i - 1) /\ h[i - 1] \in Nat /\ BufSize[i - 1] \in Nat
      BY <1>4, <3>1
    <3>. QED
      BY <1>1, <2>1, <3>2 DEF HopHolds
  <2>. QED
    BY <1>4, <2>1
<1>6. h = F(h)
    BY <1>4, <1>5
<1>7. sum = F(sum)
    BY <1>6
<1>8. Capacity = sum[n - 1]
    BY DEF Capacity
<1> HIDE DEF sum
<1> DEFINE S == {m \in Nat : m \in Children => sum[m] = h[m]}
<1>9. 0 \in S
  <2>1. 0 \in Children
    OBVIOUS
  <2>2. sum[0] = ChildBuf
    BY <1>7, <2>1
  <2>. QED
    BY <1>4, <2>2
<1>10. ASSUME NEW m \in Nat, m \in S PROVE m + 1 \in S
  <2>. SUFFICES ASSUME m + 1 \in Children PROVE sum[m + 1] = h[m + 1]
    OBVIOUS
  <2>1. m \in Children /\ (m + 1) - 1 = m /\ m + 1 # 0
    OBVIOUS
  <2>2. sum[m] = h[m]
    BY <1>10, <2>1
  <2>3. sum[m + 1] = sum[m] + ChildBuf + 2 * PipeCap + BufSize[m]
    BY <1>7, <2>1
  <2>4. h[m + 1] = h[m] + ChildBuf + 2 * PipeCap + BufSize[m]
    BY <1>5, <2>1
  <2>. QED
    BY <2>2, <2>3, <2>4
<1> HIDE DEF S
<1>11. Nat \subseteq S
    BY <1>9, <1>10, NatSetInduction
<1>12. sum[n - 1] = h[n - 1]
  <2>1. n - 1 \in Nat /\ n - 1 \in Children
    OBVIOUS
  <2>. QED
    BY <1>11, <2>1 DEF S
<1>. QED
    BY <1>4, <1>8, <1>12

\* A hop holds no more than its pipes, its buffer and the chunk of its child.
LEMMA HopHoldsAll ==
    ASSUME TypeOK, NEW g, Hops(g), NEW i \in Buffers
    PROVE  g[i] <= g[i + 1] + HopHolds(i)
<1>1. /\ g[i] \in Nat /\ g[i] <= Len(File) /\ g[i + 1] \in Nat
      /\ down[i] \in Seq(Bytes) /\ up[i] \in Seq(Bytes) /\ chunk[i] \in Seq(Bytes)
      /\ Content(i) \in Seq(Bytes)
      /\ Between(g[i + 1], g[i], down[i], Content(i), up[i], chunk[i], cpc[i] = "sigpipe")
    BY HopParts
<1>2. PICK d, b, h, k \in Nat :
         At(g[i + 1], g[i], down[i], Content(i), up[i], chunk[i], cpc[i] = "sigpipe", d, b, h, k)
    BY <1>1, Places
<1>3. /\ d = g[i + 1] + Len(down[i]) /\ b = d + Len(Content(i)) /\ h = b + Len(up[i])
      /\ g[i] <= h + ChildBuf
    BY <1>2 DEF At
<1>4. Bounded(up) /\ Bounded(down) /\ Filled /\ available \in [Buffers -> Nat] /\ data \in [Buffers -> Seq(Bytes)]
    BY Typed
<1>5. /\ Len(down[i]) <= PipeCap /\ Len(up[i]) <= PipeCap
      /\ available[i] <= Len(data[i]) /\ Len(data[i]) <= BufSize[i]
    BY <1>4 DEF Bounded, Filled
<1>6. Len(Content(i)) = available[i]
    BY ContentTypes
<1>7. Len(down[i]) \in Nat /\ Len(up[i]) \in Nat /\ available[i] \in Nat /\ Len(data[i]) \in Nat
  <2>1. data[i] \in Seq(Bytes) /\ available[i] \in Nat
    BY <1>4
  <2>2. Len(data[i]) \in Nat
    BY <2>1
  <2>3. Len(down[i]) \in Nat /\ Len(up[i]) \in Nat
    BY <1>1
  <2>. QED
    BY <2>1, <2>2, <2>3
<1>8. ChildBuf \in Nat /\ PipeCap \in Nat /\ BufSize[i] \in Nat
    OBVIOUS
<1> DEFINE x == Len(down[i])
           y == available[i]
           z == Len(up[i])
           l == Len(data[i])
           a == g[i + 1]
           e == g[i]
           s == BufSize[i]
<1>9. /\ x \in Nat /\ y \in Nat /\ z \in Nat /\ l \in Nat /\ a \in Nat /\ e \in Nat /\ s \in Nat
      /\ d = a + x /\ b = d + y /\ h = b + z /\ e <= h + ChildBuf
      /\ x <= PipeCap /\ z <= PipeCap /\ y <= l /\ l <= s
    BY <1>1, <1>3, <1>5, <1>6, <1>7, <1>8
<1> HIDE DEF x, y, z, l, a, e, s
<1>10. e <= a + (ChildBuf + 2 * PipeCap + s)
    BY <1>8, <1>9
<1>. QED
    BY <1>10 DEF HopHolds, a, e, s

\* What has been read and not printed is no more than there is room for.
LEMMA WithinWindow ==
    ASSUME IInv, Unsplit
    PROVE  /\ taken - Len(out) <= Capacity /\ Len(chunk[n - 1]) <= taken - Len(out)
           /\ taken \in Nat /\ taken <= Len(File) /\ Len(out) \in Nat /\ Len(chunk[n - 1]) \in Nat
<1>1. PICK g : Hops(g)
    BY DEF IInv, Flow
<1>2. TypeOK
    BY DEF IInv
<1>3. PICK h : /\ h \in [Children -> Nat] /\ h[0] = ChildBuf
               /\ \A i \in Buffers : h[i + 1] = h[i] + HopHolds(i)
               /\ Capacity = h[n - 1]
    BY CapacityAdds
<1>4. /\ taken \in Nat /\ taken <= Len(File) /\ ChildBuf \in Nat /\ g[0] = taken
  <2>1. taken \in 0 .. Len(File)
    BY <1>2, Typed
  <2>2. Len(File) \in Nat /\ ChildBuf \in Nat
    OBVIOUS
  <2>. QED
    BY <1>1, <2>1, <2>2 DEF Hops
<1> DEFINE S == {m \in Nat : m \in Children => taken + ChildBuf <= g[m] + h[m]}
<1>5. 0 \in S
    BY <1>3, <1>4
<1>6. ASSUME NEW m \in Nat, m \in S PROVE m + 1 \in S
  <2>. SUFFICES ASSUME m + 1 \in Children PROVE taken + ChildBuf <= g[m + 1] + h[m + 1]
    OBVIOUS
  <2>1. m \in Buffers /\ m \in Children /\ m + 1 \in Children
    OBVIOUS
  <2>2. taken + ChildBuf <= g[m] + h[m]
    BY <1>6, <2>1
  <2>3. g[m] <= g[m + 1] + HopHolds(m) /\ h[m + 1] = h[m] + HopHolds(m)
    BY <1>1, <1>2, <1>3, <2>1, HopHoldsAll
  <2>4. HopHolds(m) \in Nat
    BY <2>1 DEF HopHolds
  <2>5. g[m] \in Nat /\ g[m + 1] \in Nat /\ h[m] \in Nat
    BY <1>1, <1>2, <1>3, <2>1, Behind
  <2>. QED
    BY <1>4, <2>2, <2>3, <2>4, <2>5, SMTT(30)
<1> HIDE DEF S
<1>7. Nat \subseteq S
    BY <1>5, <1>6, NatSetInduction
<1>8. n - 1 \in Nat /\ n - 1 \in Children
    OBVIOUS
<1>9. taken + ChildBuf <= g[n - 1] + Capacity
    BY <1>3, <1>7, <1>8 DEF S
<1>10. /\ g[n - 1] <= taken /\ g[n - 1] \in Nat /\ Capacity \in Nat
    BY <1>1, <1>2, <1>3, <1>8, Behind
<1>11. /\ chunk \in [Children -> Seq(Bytes)] /\ \A i \in Children : Len(chunk[i]) <= ChildBuf
       /\ out \in Seq(Bytes)
    BY <1>2, Typed
<1>12. chunk[n - 1] \in Seq(Bytes) /\ Len(chunk[n - 1]) <= ChildBuf
    BY <1>8, <1>11
<1> DEFINE l == Len(chunk[n - 1])
           a == Len(out)
<1>13. l \in Nat /\ a \in Nat /\ l <= ChildBuf
    BY <1>11, <1>12
<1>14. g[n - 1] = a + l
    BY <1>1 DEF Hops
<1> HIDE DEF l, a
<1>15. taken - a <= Capacity /\ l <= taken - a
    BY <1>4, <1>9, <1>10, <1>13, <1>14
<1>. QED
    BY <1>4, <1>13, <1>15 DEF l, a

\* What has been printed is the beginning of the file, and all of it when the last
\* child returns.
LEMMA OutputIs ==
    ASSUME IInv, Unsplit
    PROVE  /\ out = Front(File, Len(out))
           /\ ~faults /\ cpc[n - 1] = "ok" => out = File
<1>1. PICK g : Hops(g)
    BY DEF IInv, Flow
<1>2. out = Slice(0, Len(out)) /\ TypeOK /\ Answers
    BY <1>1 DEF Hops, IInv
<1>3. out = Front(File, Len(out))
    BY <1>2 DEF Slice, Front
<1>4. ASSUME ~faults, cpc[n - 1] = "ok" PROVE out = File
  <2>1. n - 1 \in Children
    OBVIOUS
  <2>2. g[n - 1] = Len(File) /\ chunk[n - 1] = <<>> /\ g[n - 1] = Len(out) + Len(chunk[n - 1])
    BY <1>1, <1>2, <1>4, <2>1 DEF Hops, Answers
  <2>3. out \in Seq(Bytes)
    BY <1>2, Typed
  <2>4. Len(out) \in Nat /\ Len(<<>>) = 0
    BY <2>3, EmptySeq
  <2>5. Len(out) = Len(File)
    BY <2>2, <2>4
  <2>6. Front(File, Len(File)) = File
    <3>1. Len(File) \in 0 .. Len(File)
      OBVIOUS
    <3>2. /\ Front(File, Len(File)) \in Seq(Bytes) /\ Len(Front(File, Len(File))) = Len(File)
          /\ \A i \in 1 .. Len(File) : Front(File, Len(File))[i] = File[i]
      BY <3>1, Cut
    <3>. QED
      BY <3>2, SameSeq
  <2>. QED
    BY <1>3, <2>5, <2>6
<1>. QED
    BY <1>3, <1>4

\* What that says of a state.
Copied ==
    /\ taken \in Nat /\ taken <= Len(File) /\ taken - Len(out) <= Capacity
    /\ out = Front(File, Len(out))
    /\ ~faults /\ cpc[n - 1] = "ok" => out = File

\* Each step of the pipeline is a step of one copy, or none.
LEMMA StepRefines ==
    ASSUME IInv, Copied', [Next]_vars, Unsplit
    PROVE  [Stream!Next]_(Stream!vars)
<1> DEFINE l == n - 1
           over == ~faults /\ cpc[l] = "ok"
<1>1. cpc \in [Children -> ChildLabels] /\ faults \in BOOLEAN
    BY Typed DEF IInv
<1>2. l \in Children /\ 0 \in Children /\ l # 0
    OBVIOUS
<1>3. ASSUME UNCHANGED <<taken, out, faults>>, cpc[l] = "ok" => cpc'[l] = "ok"
      PROVE  [Stream!Next]_(Stream!vars)
  <2>1. CASE over' = over
    BY <1>3, <2>1 DEF Stream!vars
  <2>2. CASE over' # over
    <3>1. over' /\ over' = TRUE
      BY <1>3, <2>2
    <3>2. out' = File
      BY <3>1 DEF Copied
    <3>3. Stream!Finish
      BY <1>3, <3>1, <3>2 DEF Stream!Finish
    <3>. QED
      BY <3>3 DEF Stream!Next
  <2>. QED
    BY <2>1, <2>2
<1>4. CASE readFile
  <2>1. /\ cpc[0] = "read" /\ taken' = taken + Least(ChildBuf, Len(File) - taken)
        /\ UNCHANGED <<out, faults>>
        /\ \E label : cpc' = [cpc EXCEPT ![0] = label]
    BY <1>4 DEF readFile, ChildGoes
  <2>2. cpc'[l] = cpc[l]
    BY <1>1, <1>2, <2>1
  <2>3. /\ taken \in Nat /\ taken <= Len(File) /\ taken' \in Nat /\ taken' <= Len(File)
        /\ taken' - Len(out) <= Capacity
    <3>1. /\ taken' - Len(out') <= Capacity /\ taken' \in Nat /\ taken' <= Len(File)
      <4>1. Capacity' = Capacity
        BY DEF Capacity
      <4>. QED
        BY <4>1 DEF Copied
    <3>. QED
      BY <2>1, <3>1, WithinWindow
  <2>4. CASE taken' = taken
    BY <1>3, <2>1, <2>2, <2>4
  <2>5. CASE taken' # taken
    <3>1. taken <= taken'
      <4>1. Len(File) - taken \in Nat /\ ChildBuf \in Nat
        BY <2>3
      <4>2. Least(ChildBuf, Len(File) - taken) \in Nat
        BY <4>1, LeastIs
      <4>. QED
        BY <2>1, <2>3, <4>2
    <3>2. taken' \in taken + 1 .. Len(File)
      BY <2>3, <2>5, <3>1
    <3>3. Stream!Take
      BY <2>1, <2>2, <2>3, <3>2 DEF Stream!Take
    <3>. QED
      BY <3>3 DEF Stream!Next
  <2>. QED
    BY <2>4, <2>5
<1>5. CASE writeOut
  <2>1. PICK k \in 1 .. Len(chunk[l]) :
           /\ out' = out \o Front(chunk[l], k)
           /\ \E label \in {"write", "read"} : cpc' = [cpc EXCEPT ![l] = label]
           /\ UNCHANGED <<taken, faults>> /\ cpc[l] = "write"
    BY <1>5 DEF writeOut, ChildGoes
  <2>2. cpc'[l] # "ok" /\ cpc[l] # "ok"
    BY <1>1, <1>2, <2>1
  <2>3. out' = Front(File, Len(out'))
    BY DEF Copied
  <2>4. out \in Seq(Bytes) /\ chunk[l] \in Seq(Bytes)
    BY <1>2, Typed DEF IInv
  <2>5. Len(out') = Len(out) + k
    <3>1. Len(chunk[l]) \in Nat
      BY <2>4
    <3>2. k \in 0 .. Len(chunk[l])
      BY <3>1
    <3>3. Front(chunk[l], k) \in Seq(Bytes) /\ Len(Front(chunk[l], k)) = k
      BY <2>4, <3>2, Cut
    <3>4. Len(out \o Front(chunk[l], k)) = Len(out) + Len(Front(chunk[l], k))
      BY <2>4, <3>3, Joined
    <3>. QED
      BY <2>1, <3>3, <3>4
  <2>6. k \in 1 .. taken - Len(out)
    BY <2>1, WithinWindow
  <2>7. Stream!Emit
    <3>1. out' = SubSeq(File, 1, Len(out) + k)
      BY <2>3, <2>5 DEF Front
    <3>. QED
      BY <2>1, <2>2, <2>6, <3>1 DEF Stream!Emit
  <2>. QED
    BY <2>7 DEF Stream!Next
<1>6. CASE ~readFile /\ ~writeOut
  <2>1. UNCHANGED <<taken, out, faults>> /\ (cpc[l] = "ok" => cpc'[l] = "ok")
    <3>1. CASE \E i \in Children : readPipe(i) \/ writePipe(i) \/ childCloses(i) \/ childKilled(i)
      <4>1. PICK i \in Children : readPipe(i) \/ writePipe(i) \/ childCloses(i) \/ childKilled(i)
        BY <3>1
      <4>2. /\ cpc[i] # "ok" /\ UNCHANGED <<taken, out, faults>>
            /\ \E label : cpc' = [cpc EXCEPT ![i] = label]
        BY <4>1 DEF readPipe, writePipe, childCloses, childKilled, ChildGoes
      <4>. QED
        BY <1>1, <1>2, <4>2
    <3>2. CASE fork
      <4>1. cursor \in Children /\ rpc = "fork" /\ Ends
        BY <3>2, Typed DEF fork, IInv
      <4>2. cpc[cursor] = "unborn"
        BY <4>1 DEF Ends, Spawned
      <4>. QED
        BY <1>1, <1>2, <3>2, <4>1, <4>2 DEF fork
    <3>3. CASE openPipes \/ parentCloses \/ poll \/ parentKilled \/ UNCHANGED vars
      BY <3>3 DEF openPipes, parentCloses, poll, parentKilled, vars
    <3>4. CASE \E i \in Buffers : fill(i) \/ drain(i) \/ brokenPipe(i) \/ pass(i)
      BY <3>4 DEF fill, drain, brokenPipe, pass, Advance
    <3>. QED
      BY <1>6, <3>1, <3>2, <3>3, <3>4 DEF Next, relay, child
  <2>. QED
    BY <1>3, <2>1
<1>. QED
    BY <1>4, <1>5, <1>6

\* A pipeline of two or three children is one copy of the file, of any length:
\* whatever dies, the output is its beginning and no more is on its way than there
\* is room for.  Of success it speaks only without faults: then the last child
\* succeeds only when everything has come through.  After a death it may succeed
\* with a part of the file.
THEOREM Refinement == ASSUME n <= 3 PROVE Spec => ImplementsStream
<1>1. Init => Stream!Init
  <2>1. n - 1 \in Children
    OBVIOUS
  <2>. QED
    BY <2>1 DEF Init, Stream!Init
<1>2. IInv => Copied
    BY SmallBuffers, WithinWindow, OutputIs DEF Copied
<1>3. IInv /\ Copied' /\ [Next]_vars => [Stream!Next]_(Stream!vars)
    BY StepRefines, SmallBuffers
<1>. QED
    BY <1>1, <1>2, <1>3, Invariance, PTL DEF Spec, ImplementsStream, Stream!Spec
=============================================================================
