------------------------ MODULE SignalTransferProofs ------------------------
(***************************************************************************)
(* Why no signal is merged with another one or met by the wrong handler,   *)
(* and why the output is the file, for a file of any length and a buffer   *)
(* of any size.                                                            *)
(*                                                                         *)
(* Of all the signals, the flags set by their handlers and the places in   *)
(* which a process does not wait for the other one there is at most one at *)
(* a time (OneTurn).  While a block goes over, the two are at the same bit *)
(* of it, or the server is one ahead and a signal says which bit it was    *)
(* (Meeting).                                                              *)
(***************************************************************************)
EXTENDS SignalTransfer, FiniteSetTheorems, SequenceTheorems, WellFoundedInduction, TLAPS

USE ConstAssumption

-----------------------------------------------------------------------------
(* The inductive invariant.                                                *)

\* The bits that the buffers hold.
Space == BufBytes * CharBits

Bits == [0 .. SizeBits - 1 -> 0 .. 1]
Binary == 0 .. 1

ClientRecords ==
    [pc : ClientLabels, phase : {"ready", "size", "data"},
     usr1 : {"wait", "bit"}, usr2 : {"default", "bit"}, mask : SUBSET Signals,
     ready : BOOLEAN, bit : Nat, size : Bits,
     buf : [0 .. Space - 1 -> Binary], written : Nat]

ServerRecords ==
    [pc : ServerLabels, phase : {"size", "data", "confirm"},
     handler : {"inherited", "send"}, pdeath : BOOLEAN, mask : SUBSET {"USR1"},
     ready : BOOLEAN, bit : Nat, buf : Seq(Binary), offset : Nat]

ClientTypes == c \in ClientRecords
ServerTypes == s \in ServerRecords
OtherTypes ==
    pend \in [client : SUBSET Signals, server : SUBSET {"USR1"}] /\ out \in Seq(Binary)

Types == ClientTypes /\ ServerTypes /\ OtherTypes

Waits == {"block", "test", "sigsuspend", "suspend"}

ClientTurn == c.pc \in {"handler0", "handler1", "request", "restore", "confirm"}
ServerTurn == s.pc \in {"prctl", "getppid", "handlers", "read", "ready", "send"}

\* Signals that were sent and whose effect was not used up.
ForClient == pend.client # {} \/ c.ready
ForServer == pend.server # {} \/ s.ready

OneTurn ==
    /\ \A x, y \in pend.client : x = y
    /\ ~(pend.client # {} /\ c.ready) /\ ~(pend.server # {} /\ s.ready)
    /\ ~(ForClient /\ ForServer)
    /\ ClientTurn => ~ForClient /\ ~ForServer /\ ~ServerTurn
    /\ ServerTurn => ~ForClient /\ ~ForServer

\* Where the server is in the file and in its block.
Start  == s.offset - Len(s.buf)
Slice(a, b) == SubSeq(File, a + 1, b)

Whole(k) == \E m \in Nat : k = m * CharBits

\* What it has read.
ServerFile ==
    /\ s.offset <= Len(File) /\ Len(s.buf) <= s.offset /\ s.buf = Slice(Start, s.offset)
    /\ Len(s.buf) <= Space /\ Whole(Len(s.buf)) /\ Whole(s.offset)
    /\ s.pc \in Waits \cup {"ready", "send"} /\ s.buf = <<>> => s.offset = Len(File)

\* What it sends.
ServerBit ==
    /\ s.handler = "inherited" /\ ~serverEnded => s.pc \in {"prctl", "getppid", "handlers"}
    /\ pend.server # {} => s.handler = "send"
    /\ s.phase = "size" => s.bit < SizeBits
    /\ s.phase = "data" => s.bit < Len(s.buf)
    /\ s.phase = "confirm" => s.bit = 0
    /\ s.pc = "send" => s.phase # "confirm"
    /\ s.pc \in {"prctl", "getppid", "handlers", "read"} => s.phase # "data"

ServerPlace == ServerFile /\ ServerBit

\* The client prints, or waits for the next block.
Resting == c.pc = "write" \/ (c.phase = "ready" /\ c.pc \in Waits)
\* It receives a block.
Receiving == c.phase \in {"size", "data"} /\ c.pc \in Waits \cup {"request"}

\* The client's block in bits, and where it ends in the file.
Block == ClientSize * CharBits
End   == Len(out) - c.written + Block

\* Its handlers.
ClientAt ==
    /\ c.phase = "ready" => c.pc \in Waits \cup {"handler0", "handler1"} \cup Ended
    /\ c.pc \in {"handler0", "handler1"} => c.phase = "ready"
    /\ c.pc = "request" => c.phase # "ready"
    /\ c.pc \in {"restore", "confirm", "write"} => c.phase = "data"
    /\ Resting \/ c.pc \in {"handler0", "confirm"} => c.usr1 = "wait"
    /\ Receiving \/ c.pc \in {"handler1", "restore"} => c.usr1 = "bit"
    /\ Receiving \/ c.pc \in {"restore", "confirm"} => c.usr2 = "bit"
    /\ "USR2" \in pend.client => c.usr2 = "bit"

\* What it has got, and printed, of its block.
ClientBlock ==
    /\ c.bit <= ClientBits /\ c.written <= Space /\ Whole(c.written)
    /\ c.pc = "write" => c.written <= Block
    /\ c.phase = "ready" => c.written = Block

ClientPlace == ClientAt /\ ClientBlock

\* The server reads its next block before it sends anything.
Unread ==
    \/ s.pc \in {"prctl", "getppid", "handlers", "read"}
    \/ ForServer /\ s.phase = "confirm"

\* The client at bit b of the block, and the server.
Same(b) ==
    \/ c.phase = "size" /\ s.phase = "size" /\ b = s.bit
    \/ c.phase = "size" /\ s.phase = "data" /\ b = SizeBits /\ s.bit = 0
    \/ c.phase = "size" /\ s.phase = "confirm" /\ b = SizeBits /\ s.buf = <<>>
    \/ c.phase = "data" /\ s.phase = "data" /\ b = s.bit
    \/ c.phase = "data" /\ s.phase = "confirm" /\ b = Len(s.buf)

\* The bit that the client gets next.
Bit == IF c.phase = "size" THEN BitOf(ServerSize, c.bit) ELSE s.buf[c.bit + 1]

\* What it has got of the block.
Got ==
    /\ \A i \in 0 .. SizeBits - 1 : c.phase = "data" \/ i < c.bit => c.size[i] = BitOf(ServerSize, i)
    /\ c.phase = "data" => \A i \in 0 .. c.bit - 1 : c.buf[i] = s.buf[i + 1]

\* Between two blocks.
Rest ==
    /\ End <= s.offset /\ c.written <= Len(out) /\ s.offset <= End + Space
    /\ ForClient => pend.client \subseteq {"USR1"} /\ s.phase = "size" /\ s.bit = 0
    /\ ForClient \/ s.pc = "ready" => End = Start
    /\ Unread => End = s.offset
    /\ c.pc = "write" =>
          /\ \A i \in 0 .. Block - 1 : c.buf[i] = File[Len(out) - c.written + i + 1]
          /\ Block = 0 => out = File

AtRest == Resting => Rest

Opening == c.pc \in {"handler0", "handler1"} => s.phase = "size" /\ s.bit = 0 /\ Len(out) = Start

\* In a block.
InBlock ==
    Receiving =>
        /\ Len(out) = Start /\ Got
        /\ pend.client = {} => Same(c.bit)
        /\ pend.client # {} => Same(c.bit + 1) /\ pend.client = {IF Bit = 1 THEN "USR2" ELSE "USR1"}

Closing ==
    c.pc \in {"restore", "confirm"} =>
        Len(out) = Start /\ Got /\ s.phase = "confirm" /\ c.bit = Len(s.buf)

Sending ==
    ~clientEnded /\ (s.pc = "send" \/ (ForServer /\ s.phase # "confirm")) =>
        Receiving /\ c.phase = s.phase

Reading == ~clientEnded /\ (Unread \/ s.pc = "ready") => Resting

Meeting == AtRest /\ Opening /\ InBlock /\ Closing /\ Sending /\ Reading

Printed ==
    /\ out = Slice(0, Len(out)) /\ Len(out) <= s.offset /\ s.offset <= Len(out) + 2 * Space
    /\ Unread => s.offset <= Len(out) + Space
    /\ c.pc = "ok" \/ s.pc = "ok" => out = File
    /\ ForServer /\ s.phase = "confirm" /\ s.buf = <<>> => out = File

IInv == Types /\ OneTurn /\ ServerPlace /\ ClientPlace /\ Meeting /\ Printed


-----------------------------------------------------------------------------
(* Numbers.                                                                *)

\* A set of natural numbers with 0 and with the successor of each is Nat.
LEMMA NatSetInduction ==
    ASSUME NEW S, 0 \in S, \A k \in Nat : k \in S => k + 1 \in S
    PROVE  Nat \subseteq S
<1> DEFINE R == OpToRel(<, Nat)
           T == Nat \ S
<1>1. IsWellFoundedOn(R, Nat)
    BY NatLessThanWellFounded
<1>2. \A x, y \in Nat : x < y => <<x, y>> \in R
    BY DEF OpToRel
<1> HIDE DEF R
<1> SUFFICES ASSUME T # {} PROVE FALSE
    OBVIOUS
<1>3. PICK x \in T : \A y \in T : ~(<<y, x>> \in R)
    BY <1>1, WFMin
<1>4. x \in Nat /\ x \notin S
    OBVIOUS
<1>5. x - 1 \in Nat /\ x - 1 < x /\ x = (x - 1) + 1
    BY <1>4
<1>6. x - 1 \in S
    BY <1>2, <1>3, <1>4, <1>5, Zenon
<1>. QED
    BY <1>4, <1>5, <1>6
\* What a division leaves is unique.
LEMMA Quotient ==
    ASSUME NEW N \in Nat, NEW w \in Nat \ {0}, NEW q \in Nat, NEW r \in Nat, r < w, N = w * q + r
    PROVE  N \div w = q
    OBVIOUS

\* The powers of two up to the m-th.
Doubles(h, m) ==
    h \in [0 .. m -> Nat \ {0}] /\ h[0] = 1 /\ \A i \in 0 .. m - 1 : h[i + 1] = 2 * h[i]

\* They exist up to any power.
LEMMA Powers ==
    ASSUME NEW m \in Nat
    PROVE  \E h : Doubles(h, m)
<1> DEFINE S == {k \in Nat : \E h : Doubles(h, k)}
<1>1. 0 \in S
  <2>1. Doubles([i \in 0 .. 0 |-> 1], 0)
    BY DEF Doubles
  <2>. QED
    BY <2>1
<1>2. ASSUME NEW k \in Nat, k \in S PROVE k + 1 \in S
  <2>1. PICK h : Doubles(h, k)
    BY <1>2
  <2> DEFINE g == [i \in 0 .. k + 1 |-> IF i = k + 1 THEN 2 * h[k] ELSE h[i]]
  <2>2. h \in [0 .. k -> Nat \ {0}] /\ h[k] \in Nat \ {0}
    BY <2>1 DEF Doubles
  <2>3. /\ g \in [0 .. k + 1 -> Nat \ {0}] /\ g[k + 1] = 2 * h[k]
        /\ \A i \in 0 .. k : g[i] = h[i]
    BY <2>2
  <2> HIDE DEF g
  <2>4. ASSUME NEW i \in 0 .. (k + 1) - 1 PROVE g[i + 1] = 2 * g[i]
    <3>1. CASE i = k
      BY <2>3, <3>1
    <3>2. CASE i # k
      <4>1. i \in 0 .. k - 1 /\ i + 1 \in 0 .. k /\ i \in 0 .. k
        BY <3>2
      <4>. QED
        BY <2>1, <2>3, <4>1 DEF Doubles
    <3>. QED
      BY <3>1, <3>2
  <2>5. g[0] = 1
    BY <2>1, <2>3 DEF Doubles
  <2>6. Doubles(g, k + 1)
    BY <2>3, <2>4, <2>5 DEF Doubles
  <2>. QED
    BY <2>6
<1> HIDE DEF S
<1>3. m \in S
    BY <1>1, <1>2, NatSetInduction
<1>. QED
    BY <1>3 DEF S

\* The weights of the bits are the powers of two.
LEMMA WeightIs == Doubles(weight, SizeBits)
<1> DEFINE F(v) == [i \in 0 .. SizeBits |-> IF i = 0 THEN 1 ELSE 2 * v[i - 1]]
<1>1. PICK h : Doubles(h, SizeBits)
    BY Powers
<1>2. h \in [0 .. SizeBits -> Nat \ {0}] /\ h[0] = 1 /\ \A i \in 0 .. SizeBits - 1 : h[i + 1] = 2 * h[i]
    BY <1>1 DEF Doubles
<1>3. ASSUME NEW i \in 0 .. SizeBits
      PROVE  h[i] = IF i = 0 THEN 1 ELSE 2 * h[i - 1]
  <2>1. CASE i # 0
    <3>1. i - 1 \in 0 .. SizeBits - 1 /\ (i - 1) + 1 = i
      BY <2>1
    <3>2. h[i] = 2 * h[i - 1]
      BY <1>2, <3>1
    <3>. QED
      BY <2>1, <3>2
  <2>. QED
    BY <1>2, <2>1
<1>4. h = F(h)
    BY <1>2, <1>3
<1>5. weight = F(weight)
    BY <1>4 DEF weight
<1> DEFINE S == {m \in Nat : m <= SizeBits => weight[m] = h[m]}
<1>6. 0 \in S
  <2>1. 0 \in 0 .. SizeBits
    OBVIOUS
  <2>2. weight[0] = 1
    BY <1>5, <2>1
  <2>. QED
    BY <1>2, <2>2
<1>7. ASSUME NEW m \in Nat, m \in S PROVE m + 1 \in S
  <2>. SUFFICES ASSUME m + 1 <= SizeBits PROVE weight[m + 1] = h[m + 1]
    OBVIOUS
  <2>1. m \in 0 .. SizeBits - 1 /\ m + 1 \in 0 .. SizeBits /\ (m + 1) - 1 = m /\ m + 1 # 0
    OBVIOUS
  <2>2. weight[m] = h[m]
    BY <1>7, <2>1
  <2>3. weight[m + 1] = 2 * weight[m]
    BY <1>5, <2>1
  <2>. QED
    BY <1>2, <2>1, <2>2, <2>3
<1> HIDE DEF S
<1>8. Nat \subseteq S
    BY <1>6, <1>7, NatSetInduction
<1>9. weight = h
  <2>1. ASSUME NEW i \in 0 .. SizeBits PROVE weight[i] = h[i]
    BY <1>8 DEF S
  <2>2. weight = [i \in 0 .. SizeBits |-> weight[i]] /\ h = [i \in 0 .. SizeBits |-> h[i]]
    BY <1>2, <1>5
  <2>. QED
    BY <2>1, <2>2
<1>. QED
    BY <1>1, <1>9

\* What that says of one weight.
LEMMA Weights ==
    /\ weight[0] = 1
    /\ \A i \in 0 .. SizeBits : weight[i] \in Nat \ {0}
    /\ \A i \in 0 .. SizeBits - 1 : weight[i + 1] = 2 * weight[i]
    BY WeightIs DEF Doubles

\* A buffer has room for at least one byte.
LEMMA SpaceIs ==
    /\ BufBytes \in Nat \ {0} /\ Space \in Nat \ {0} /\ weight[SizeBits] = BufBytes + 1
<1>1. SizeBits \in 0 .. SizeBits /\ SizeBits - 1 \in 0 .. SizeBits - 1 /\ SizeBits - 1 \in 0 .. SizeBits
    OBVIOUS
<1>2. weight[SizeBits] \in Nat \ {0} /\ weight[SizeBits - 1] \in Nat \ {0} /\ weight[SizeBits] = 2 * weight[SizeBits - 1]
  <2>1. weight[(SizeBits - 1) + 1] = 2 * weight[SizeBits - 1] /\ (SizeBits - 1) + 1 = SizeBits
    BY <1>1, Weights
  <2>. QED
    BY <1>1, <2>1, Weights
<1>3. BufBytes \in Nat \ {0} /\ weight[SizeBits] = BufBytes + 1
    BY <1>2 DEF BufBytes
<1>. QED
    BY <1>3 DEF Space

\* A bit of a number.
LEMMA BitIs ==
    ASSUME NEW N \in Nat, NEW i \in 0 .. SizeBits
    PROVE  BitOf(N, i) \in 0 .. 1
<1>1. weight[i] \in Nat \ {0}
    BY Weights
<1>2. N \div weight[i] \in Nat
    BY <1>1
<1>. QED
    BY <1>2 DEF BitOf

\* The numbers that the first bits make.
Makes(h, bits, m) ==
    h \in [0 .. m -> Nat] /\ h[0] = 0 /\ \A i \in 0 .. m - 1 : h[i + 1] = h[i] + bits[i] * weight[i]

\* They exist.
LEMMA Partial ==
    ASSUME NEW bits \in Bits
    PROVE  \E h : Makes(h, bits, SizeBits)
<1> DEFINE S == {k \in Nat : k <= SizeBits => \E h : Makes(h, bits, k)}
<1>1. 0 \in S
  <2>1. Makes([i \in 0 .. 0 |-> 0], bits, 0)
    BY DEF Makes
  <2>. QED
    BY <2>1
<1>2. ASSUME NEW k \in Nat, k \in S PROVE k + 1 \in S
  <2>. SUFFICES ASSUME k + 1 <= SizeBits PROVE \E h : Makes(h, bits, k + 1)
    OBVIOUS
  <2>1. PICK h : Makes(h, bits, k)
    BY <1>2
  <2> DEFINE a == bits[k] * weight[k]
             g == [i \in 0 .. k + 1 |-> IF i = k + 1 THEN h[k] + a ELSE h[i]]
  <2>2. a \in Nat
    <3>1. bits[k] \in 0 .. 1 /\ weight[k] \in Nat
      BY Weights DEF Bits
    <3>. QED
      BY <3>1
  <2> HIDE DEF a
  <2>3. h \in [0 .. k -> Nat] /\ h[k] \in Nat
    BY <2>1 DEF Makes
  <2>4. /\ g \in [0 .. k + 1 -> Nat] /\ g[k + 1] = h[k] + a
        /\ \A i \in 0 .. k : g[i] = h[i]
    BY <2>2, <2>3
  <2> HIDE DEF g
  <2>5. ASSUME NEW i \in 0 .. (k + 1) - 1 PROVE g[i + 1] = g[i] + bits[i] * weight[i]
    <3>1. CASE i = k
      BY <2>4, <3>1 DEF a
    <3>2. CASE i # k
      <4>1. i \in 0 .. k - 1 /\ i + 1 \in 0 .. k /\ i \in 0 .. k
        BY <3>2
      <4>. QED
        BY <2>1, <2>4, <4>1 DEF Makes
    <3>. QED
      BY <3>1, <3>2
  <2>6. g[0] = 0
    BY <2>1, <2>4 DEF Makes
  <2>7. Makes(g, bits, k + 1)
    BY <2>4, <2>5, <2>6 DEF Makes
  <2>. QED
    BY <2>7
<1> HIDE DEF S
<1>3. SizeBits \in S
    BY <1>1, <1>2, NatSetInduction
<1>. QED
    BY <1>3 DEF S

\* The last of them is the number.
LEMMA NumberMade ==
    ASSUME NEW bits \in Bits
    PROVE  \E h : Makes(h, bits, SizeBits) /\ Number(bits) = h[SizeBits]
<1> DEFINE F(v) == [w \in 0 .. SizeBits |-> IF w = 0 THEN 0 ELSE v[w - 1] + bits[w - 1] * weight[w - 1]]
           sum == CHOOSE v : v = F(v)
<1>1. PICK h : Makes(h, bits, SizeBits)
    BY Partial
<1>2. /\ h \in [0 .. SizeBits -> Nat] /\ h[0] = 0
      /\ \A i \in 0 .. SizeBits - 1 : h[i + 1] = h[i] + bits[i] * weight[i]
    BY <1>1 DEF Makes
<1>3. ASSUME NEW i \in 0 .. SizeBits
      PROVE  h[i] = IF i = 0 THEN 0 ELSE h[i - 1] + bits[i - 1] * weight[i - 1]
  <2>1. CASE i # 0
    <3>1. i - 1 \in 0 .. SizeBits - 1 /\ (i - 1) + 1 = i
      BY <2>1
    <3>2. h[(i - 1) + 1] = h[i - 1] + bits[i - 1] * weight[i - 1]
      BY <1>2, <3>1
    <3>. QED
      BY <2>1, <3>1, <3>2
  <2>. QED
    BY <1>2, <2>1
<1>4. h = F(h)
  <2> HIDE DEF Makes
  <2>. QED
    BY <1>2, <1>3
<1>5. sum = F(sum)
    BY <1>4
<1>6. Number(bits) = sum[SizeBits]
    BY DEF Number
<1> HIDE DEF sum
<1> DEFINE S == {m \in Nat : m <= SizeBits => sum[m] = h[m]}
<1>7. 0 \in S
  <2>1. 0 \in 0 .. SizeBits
    OBVIOUS
  <2>2. sum[0] = 0
    BY <1>5, <2>1
  <2>. QED
    BY <1>2, <2>2
<1>8. ASSUME NEW m \in Nat, m \in S PROVE m + 1 \in S
  <2>. SUFFICES ASSUME m + 1 <= SizeBits PROVE sum[m + 1] = h[m + 1]
    OBVIOUS
  <2>1. m \in 0 .. SizeBits - 1 /\ m + 1 \in 0 .. SizeBits /\ (m + 1) - 1 = m /\ m + 1 # 0
    OBVIOUS
  <2>2. sum[m] = h[m]
    BY <1>8, <2>1
  <2>3. sum[m + 1] = sum[m] + bits[m] * weight[m]
    BY <1>5, <2>1
  <2>. QED
    BY <1>2, <2>1, <2>2, <2>3
<1> HIDE DEF S
<1>9. Nat \subseteq S
    BY <1>7, <1>8, NatSetInduction
<1>10. sum[SizeBits] = h[SizeBits]
    BY <1>9 DEF S
<1>. QED
    BY <1>1, <1>6, <1>10

\* A number of SizeBits bits is at most the size of the buffer.
LEMMA NumberBound ==
    ASSUME NEW bits \in Bits
    PROVE  Number(bits) \in 0 .. BufBytes
<1>1. PICK h : Makes(h, bits, SizeBits) /\ Number(bits) = h[SizeBits]
    BY NumberMade
<1>2. /\ h \in [0 .. SizeBits -> Nat] /\ h[0] = 0
      /\ \A i \in 0 .. SizeBits - 1 : h[i + 1] = h[i] + bits[i] * weight[i]
    BY <1>1 DEF Makes
<1> DEFINE S == {m \in Nat : m <= SizeBits => h[m] < weight[m]}
<1>3. 0 \in S
    BY <1>2, Weights
<1>4. ASSUME NEW m \in Nat, m \in S PROVE m + 1 \in S
  <2>. SUFFICES ASSUME m + 1 <= SizeBits PROVE h[m + 1] < weight[m + 1]
    OBVIOUS
  <2>1. m \in 0 .. SizeBits - 1 /\ m \in 0 .. SizeBits
    OBVIOUS
  <2> DEFINE a == bits[m]
             w == weight[m]
  <2>2. a \in 0 .. 1 /\ w \in Nat /\ weight[m + 1] = 2 * w
    BY <2>1, Weights DEF Bits
  <2>3. h[m] \in Nat /\ h[m] < w /\ h[m + 1] = h[m] + a * w
    BY <1>2, <1>4, <2>1
  <2> HIDE DEF a, w
  <2>4. a * w \in Nat /\ a * w <= w
    BY <2>2
  <2>. QED
    BY <2>2, <2>3, <2>4
<1> HIDE DEF S
<1>5. SizeBits \in S
    BY <1>3, <1>4, NatSetInduction
<1>6. h[SizeBits] < weight[SizeBits] /\ h[SizeBits] \in Nat
    BY <1>2, <1>5 DEF S
<1>. QED
    BY <1>1, <1>6, SpaceIs

\* The bits of a number make that number.
LEMMA NumberIs ==
    ASSUME NEW bits \in Bits, NEW N \in 0 .. BufBytes,
           \A i \in 0 .. SizeBits - 1 : bits[i] = BitOf(N, i)
    PROVE  Number(bits) = N
<1>1. PICK h : Makes(h, bits, SizeBits) /\ Number(bits) = h[SizeBits]
    BY NumberMade
<1>2. /\ h \in [0 .. SizeBits -> Nat] /\ h[0] = 0
      /\ \A i \in 0 .. SizeBits - 1 : h[i + 1] = h[i] + bits[i] * weight[i]
    BY <1>1 DEF Makes
<1>3. N \in Nat /\ N <= BufBytes
    BY SpaceIs
<1> DEFINE S == {m \in Nat : m <= SizeBits =>
                     h[m] < weight[m] /\ N = weight[m] * (N \div weight[m]) + h[m]}
<1>4. 0 \in S
  <2>1. weight[0] = 1 /\ h[0] = 0 /\ N \div 1 = N
    BY <1>2, <1>3, Weights, Quotient
  <2>. QED
    BY <1>3, <2>1
<1>5. ASSUME NEW m \in Nat, m \in S PROVE m + 1 \in S
  <2>. SUFFICES ASSUME m + 1 <= SizeBits
                PROVE  h[m + 1] < weight[m + 1] /\ N = weight[m + 1] * (N \div weight[m + 1]) + h[m + 1]
    OBVIOUS
  <2>1. m \in 0 .. SizeBits - 1 /\ m \in 0 .. SizeBits
    OBVIOUS
  <2> DEFINE w == weight[m]
             q == N \div w
             a == q % 2
             b == q \div 2
             r == h[m]
             t == h[m + 1]
  <2>2. w \in Nat \ {0} /\ weight[m + 1] = 2 * w
    BY <2>1, Weights
  <2>3. bits[m] = a
    BY <2>1 DEF BitOf
  <2>4. r \in Nat /\ r < w /\ t = r + a * w /\ N = w * q + r
    <3>1. r < w /\ N = w * q + r
      BY <1>5, <2>1
    <3>2. r \in Nat
      BY <1>2, <2>1
    <3>3. t = r + a * w
      BY <1>2, <2>1, <2>3
    <3> HIDE DEF S, w, q, a, r, t
    <3>. QED
      BY <3>1, <3>2, <3>3
  <2> HIDE DEF w
  <2>5. q \in Nat
    BY <1>3, <2>2
  <2> HIDE DEF q, r, t
  <2>6. a \in 0 .. 1 /\ b \in Nat /\ q = 2 * b + a
    BY <2>5
  <2> HIDE DEF a, b
  <2>7. a * w \in Nat /\ a * w <= w
    BY <2>2, <2>6
  <2>8. w * q = (2 * w) * b + a * w
    BY <2>2, <2>5, <2>6
  <2>9. N = (2 * w) * b + t /\ t \in Nat /\ t < 2 * w /\ 2 * w \in Nat \ {0}
    BY <2>2, <2>4, <2>6, <2>7, <2>8
  <2>10. N \div (2 * w) = b
    BY <1>3, <2>6, <2>9, Quotient
  <2>. QED
    BY <2>2, <2>9, <2>10 DEF t
<1> HIDE DEF S
<1>6. SizeBits \in S
    BY <1>4, <1>5, NatSetInduction
<1> DEFINE w == weight[SizeBits]
           r == h[SizeBits]
<1>7. r < w /\ N = w * (N \div w) + r /\ r \in Nat /\ w \in Nat \ {0} /\ N < w
  <2>1. SizeBits \in 0 .. SizeBits
    OBVIOUS
  <2>2. r \in Nat
    BY <1>2, <2>1
  <2>3. r < w /\ N = w * (N \div w) + r
    BY <1>6 DEF S
  <2>4. w \in Nat \ {0} /\ N < w
    BY <1>3, SpaceIs
  <2> HIDE DEF w, r
  <2>. QED
    BY <2>2, <2>3, <2>4
<1> HIDE DEF w, r
<1>8. N \div w = 0
  <2>1. N = w * 0 + N
    BY <1>3, <1>7
  <2>2. 0 \in Nat
    OBVIOUS
  <2>. QED
    BY <1>3, <1>7, <2>1, <2>2, Quotient
<1>9. N = r
    BY <1>3, <1>7, <1>8
<1>. QED
    BY <1>1, <1>9 DEF r

-----------------------------------------------------------------------------
(* Whole bytes.                                                            *)

\* The bits of some bytes.
LEMMA BytesAre ==
    ASSUME NEW m \in Nat
    PROVE  /\ m * CharBits \in Nat /\ Whole(m * CharBits) /\ (m * CharBits) \div CharBits = m
           /\ m * CharBits = 0 <=> m = 0
<1>1. m * CharBits \in Nat /\ (m * CharBits = 0 <=> m = 0)
    OBVIOUS
<1>2. m * CharBits = CharBits * m + 0 /\ 0 \in Nat /\ 0 < CharBits
    OBVIOUS
<1>3. (m * CharBits) \div CharBits = m
    BY <1>1, <1>2, Quotient
<1>. QED
    BY <1>1, <1>3 DEF Whole

\* The bytes of a whole number of them.
LEMMA WholeIs ==
    ASSUME NEW k \in Nat, Whole(k)
    PROVE  k \div CharBits \in Nat /\ (k \div CharBits) * CharBits = k
<1>1. PICK m \in Nat : k = m * CharBits
    BY DEF Whole
<1>. QED
    BY <1>1, BytesAre

\* Fewer bits are fewer bytes.
LEMMA FewerBytes ==
    ASSUME NEW a \in Nat, NEW b \in Nat
    PROVE  a * CharBits <= b * CharBits <=> a <= b
<1>1. ASSUME a <= b PROVE a * CharBits <= b * CharBits
  <2>1. b - a \in Nat /\ b = a + (b - a)
    BY <1>1
  <2>2. (b - a) * CharBits \in Nat
    BY <2>1
  <2>3. b * CharBits = a * CharBits + (b - a) * CharBits
    BY <2>1
  <2>. QED
    BY <2>2, <2>3
<1>2. ASSUME ~(a <= b) PROVE ~(a * CharBits <= b * CharBits)
  <2>1. a - b \in Nat \ {0} /\ a = b + (a - b)
    BY <1>2
  <2>2. (a - b) * CharBits \in Nat \ {0}
    BY <2>1
  <2>3. a * CharBits = b * CharBits + (a - b) * CharBits
    BY <2>1
  <2>. QED
    BY <2>2, <2>3
<1>. QED
    BY <1>1, <1>2

\* Whole bytes are added and taken away.
LEMMA WholeSum ==
    ASSUME NEW a \in Nat, NEW b \in Nat, Whole(a), Whole(b)
    PROVE  Whole(a + b) /\ (b <= a => Whole(a - b))
<1>1. PICK x \in Nat : a = x * CharBits
    BY DEF Whole
<1>2. PICK y \in Nat : b = y * CharBits
    BY DEF Whole
<1>3. a + b = (x + y) * CharBits /\ a - b = (x - y) * CharBits
    BY <1>1, <1>2
<1>4. ASSUME b <= a PROVE Whole(a - b)
  <2>1. y <= x
    BY <1>1, <1>2, <1>4, FewerBytes
  <2>2. x - y \in Nat
    BY <2>1
  <2>. QED
    BY <1>3, <2>2 DEF Whole
<1>5. x + y \in Nat
    OBVIOUS
<1>. QED
    BY <1>3, <1>4, <1>5 DEF Whole

\* The file and the buffer hold whole bytes.
LEMMA WholeFile == Len(File) \in Nat /\ Whole(Len(File)) /\ Whole(Space) /\ Whole(0)
<1>1. Len(File) \in Nat
    OBVIOUS
<1> DEFINE l == Len(File)
           m == l \div CharBits
<1>2. l \in Nat /\ l % CharBits = 0
    BY <1>1
<1> HIDE DEF l
<1>3. m \in Nat
    BY <1>2
<1>4. l = m * CharBits
    BY <1>2
<1>5. Whole(Len(File))
    BY <1>3, <1>4 DEF Whole, l
<1>6. Whole(Space)
    BY SpaceIs DEF Whole, Space
<1>7. Whole(0)
  <2>1. 0 \in Nat /\ 0 = 0 * CharBits
    OBVIOUS
  <2>. QED
    BY <2>1 DEF Whole
<1>. QED
    BY <1>1, <1>5, <1>6, <1>7

-----------------------------------------------------------------------------
(* Sequences of bits.                                                      *)

\* Two sequences are joined.
LEMMA Joined ==
    ASSUME NEW u \in Seq(Binary), NEW v \in Seq(Binary)
    PROVE  /\ u \o v \in Seq(Binary) /\ Len(u \o v) = Len(u) + Len(v)
           /\ \A i \in 1 .. Len(u) + Len(v) :
                 (u \o v)[i] = IF i <= Len(u) THEN u[i] ELSE v[i - Len(u)]
    BY ConcatProperties, ZenonT(40)

\* A slice of the file.
LEMMA SliceIs ==
    ASSUME NEW a \in Nat, NEW b \in Nat, a <= b, b <= Len(File)
    PROVE  /\ Slice(a, b) \in Seq(Binary) /\ Len(Slice(a, b)) = b - a
           /\ \A i \in 1 .. b - a : Slice(a, b)[i] = File[a + i]
<1>1. /\ Len(File) \in Nat
      /\ \A i \in 1 .. Len(File) : File[i] \in Binary
    BY DEF Binary
<1>. QED
    BY <1>1 DEF Slice

\* Sequences are equal if their elements are.
LEMMA SameSeq ==
    ASSUME NEW u \in Seq(Binary), NEW v \in Seq(Binary), Len(u) = Len(v),
           \A i \in 1 .. Len(u) : u[i] = v[i]
    PROVE  u = v
    BY SeqEqual

\* Two slices that meet are one.
LEMMA JoinSlices ==
    ASSUME NEW a \in Nat, NEW b \in Nat, NEW e \in Nat, a <= b, b <= e, e <= Len(File)
    PROVE  Slice(a, b) \o Slice(b, e) = Slice(a, e)
<1> DEFINE x == Slice(a, b)
           y == Slice(b, e)
           z == Slice(a, e)
<1>1. Len(File) \in Nat /\ b <= Len(File) /\ a <= e
    OBVIOUS
<1>2. x \in Seq(Binary) /\ Len(x) = b - a /\ \A i \in 1 .. b - a : x[i] = File[a + i]
    BY <1>1, SliceIs
<1>3. y \in Seq(Binary) /\ Len(y) = e - b /\ \A i \in 1 .. e - b : y[i] = File[b + i]
    BY <1>1, SliceIs
<1>4. z \in Seq(Binary) /\ Len(z) = e - a /\ \A i \in 1 .. e - a : z[i] = File[a + i]
    BY <1>1, SliceIs
<1> HIDE DEF x, y, z
<1>5. /\ x \o y \in Seq(Binary) /\ Len(x \o y) = Len(x) + Len(y)
      /\ \A i \in 1 .. Len(x) + Len(y) : (x \o y)[i] = IF i <= Len(x) THEN x[i] ELSE y[i - Len(x)]
  <2>1. x \in Seq(Binary) /\ y \in Seq(Binary)
    BY <1>2, <1>3
  <2>. QED
    BY <2>1, Joined
<1>6. ASSUME NEW i \in 1 .. e - a PROVE (x \o y)[i] = z[i]
  <2>1. CASE i <= b - a
    <3>1. i \in 1 .. b - a /\ i \in 1 .. Len(x) + Len(y)
      BY <1>2, <1>3, <2>1
    <3>. QED
      BY <1>2, <1>4, <1>5, <2>1, <3>1
  <2>2. CASE ~(i <= b - a)
    <3>1. /\ i - (b - a) \in 1 .. e - b /\ b + (i - (b - a)) = a + i
          /\ i \in 1 .. Len(x) + Len(y)
      BY <1>2, <1>3, <2>2, SMTT(30)
    <3>. QED
      BY <1>2, <1>3, <1>4, <1>5, <2>2, <3>1, SMTT(30)
  <2>. QED
    BY <2>1, <2>2
<1>7. Len(x \o y) = e - a
    BY <1>2, <1>3, <1>5
<1>8. x \o y = z
    BY <1>4, <1>5, <1>6, <1>7, SameSeq
<1>. QED
    BY <1>8 DEF x, y, z

\* The whole file is a slice of it.
LEMMA WholeSlice == Slice(0, Len(File)) = File
<1> DEFINE l == Len(File)
<1>1. l \in Nat /\ File \in Seq(Binary)
    BY DEF Binary
<1>2. /\ Slice(0, l) \in Seq(Binary) /\ Len(Slice(0, l)) = l - 0
      /\ \A i \in 1 .. l - 0 : Slice(0, l)[i] = File[0 + i]
  <2>1. 0 \in Nat /\ 0 <= l /\ l <= Len(File)
    BY <1>1
  <2>. QED
    BY <1>1, <2>1, SliceIs
<1>3. ASSUME NEW i \in 1 .. l PROVE Slice(0, l)[i] = File[i]
  <2>1. 0 + i = i /\ l - 0 = l
    BY <1>1
  <2>. QED
    BY <1>2, <2>1
<1>4. Len(Slice(0, l)) = Len(File) /\ l - 0 = l
    BY <1>1, <1>2
<1>. QED
    BY <1>1, <1>2, <1>3, <1>4, SameSeq

-----------------------------------------------------------------------------
(* Turns.                                                                  *)

\* The state after fork() has the right types.
LEMMA InitTypes == Init => Types
    BY SpaceIs DEF Init, Types, ClientTypes, ServerTypes, OtherTypes, ClientRecords, ServerRecords,
       ClientLabels, ServerLabels, Ended,
                   Bits, Binary, Signals, Space

\* The server's turn comes first.
LEMMA InitTurn == Init => OneTurn
    BY DEF Init, OneTurn, ForClient, ForServer, ClientTurn, ServerTurn

\* A signal that the server sends reaches a client that is there.
Sent(sig) ==
    /\ s'.pc \in {"block", "failed"} /\ (s'.pc = "block" \/ clientEnded)
    /\ UNCHANGED <<c, out, s.handler, s.pdeath, s.mask, s.ready, s.buf, s.offset, pend.server>>
    /\ pend'.client = IF clientEnded THEN pend.client ELSE pend.client \cup {sig}

\* What the server does when it is ready.
LEMMA ReadyIsSent ==
    ASSUME Types, signalReady
    PROVE  s.pc = "ready" /\ Sent("USR1") /\ s'.phase = "size" /\ s'.bit = 0
<1>1. s.pc = "ready" /\ Send("USR1", [s EXCEPT !.phase = "size", !.bit = 0])
    BY DEF signalReady
<1>2. CASE ~clientEnded
  <2>1. /\ s' = [[s EXCEPT !.phase = "size", !.bit = 0] EXCEPT !.pc = "block"]
        /\ pend' = [pend EXCEPT !.client = @ \cup {"USR1"}] /\ UNCHANGED <<c, out>>
    BY <1>1, <1>2 DEF Send, ToClient
  <2>. QED
    BY <1>1, <1>2, <2>1 DEF Types, ServerTypes, OtherTypes, ServerRecords, Sent
<1>3. CASE clientEnded
  <2>1. PICK at \in {"block", "failed"} : s' = [[s EXCEPT !.phase = "size", !.bit = 0] EXCEPT !.pc = at]
    BY <1>1, <1>3 DEF Send
  <2>2. UNCHANGED <<c, out, pend>>
    BY <1>1, <1>3 DEF Send
  <2>. QED
    BY <1>1, <1>3, <2>1, <2>2 DEF Types, ServerTypes, OtherTypes, ServerRecords, Sent
<1>. QED
    BY <1>2, <1>3

\* The last bit of a size or of a content.
LastBit == s.bit + 1 >= ServerBits

\* What it does with a bit.
LEMMA BitIsSent ==
    ASSUME Types, sendBit
    PROVE  /\ s.pc = "send" /\ Sent(IF NextBit = 1 THEN "USR2" ELSE "USR1")
           /\ s.bit + 1 < ServerBits => s'.bit = s.bit + 1 /\ s'.phase = s.phase
           /\ ~(s.bit + 1 < ServerBits) =>
                 s'.bit = 0 /\ s'.phase = IF s.phase = "size" /\ ServerSize > 0 THEN "data" ELSE "confirm"
<1> DEFINE sig == IF NextBit = 1 THEN "USR2" ELSE "USR1"
           last == ~(s.bit + 1 < ServerBits)
           after == IF s.phase = "size" /\ ServerSize > 0 THEN "data" ELSE "confirm"
           next == IF last THEN [s EXCEPT !.bit = 0, !.phase = after] ELSE [s EXCEPT !.bit = @ + 1]
<1>1. s.pc = "send" /\ Send(sig, next)
    BY DEF sendBit, Types, ServerTypes, ServerRecords
<1> HIDE DEF last, after, sig
<1>2. /\ next.handler = s.handler /\ next.pdeath = s.pdeath /\ next.mask = s.mask /\ next.ready = s.ready
      /\ next.buf = s.buf /\ next.offset = s.offset
      /\ ~last => next.bit = s.bit + 1 /\ next.phase = s.phase
      /\ last => next.bit = 0 /\ next.phase = after
      /\ \A at : LET t == [next EXCEPT !.pc = at]
                 IN  t.pc = at /\ t.handler = next.handler /\ t.pdeath = next.pdeath /\ t.mask = next.mask
                     /\ t.ready = next.ready /\ t.buf = next.buf /\ t.offset = next.offset
                     /\ t.bit = next.bit /\ t.phase = next.phase
    BY DEF Types, ServerTypes, ServerRecords
<1> HIDE DEF next
<1>3. CASE ~clientEnded
  <2>1. /\ s' = [next EXCEPT !.pc = "block"]
        /\ pend' = [pend EXCEPT !.client = @ \cup {sig}] /\ UNCHANGED <<c, out>>
    BY <1>1, <1>3 DEF Send, ToClient
  <2>2. pend'.client = pend.client \cup {sig} /\ pend'.server = pend.server
    BY <2>1 DEF Types, OtherTypes
  <2>. QED
    BY <1>1, <1>2, <1>3, <2>1, <2>2 DEF Sent, last, after, sig
<1>4. CASE clientEnded
  <2>1. PICK at \in {"block", "failed"} : s' = [next EXCEPT !.pc = at]
    BY <1>1, <1>4 DEF Send
  <2>2. UNCHANGED <<c, out, pend>>
    BY <1>1, <1>4 DEF Send
  <2>. QED
    BY <1>1, <1>2, <1>4, <2>1, <2>2 DEF Sent, last, after, sig
<1>. QED
    BY <1>3, <1>4

\* What a handler changes: the client is awake.
Woke == c'.pc = IF c.pc = "suspend" THEN "test" ELSE c.pc

\* A bit is put where the next one goes.
Stored(bit) ==
    /\ c.phase = "size" => c'.size = [c.size EXCEPT ![c.bit] = bit] /\ c'.buf = c.buf
    /\ c.phase # "size" => c'.buf = [c.buf EXCEPT ![c.bit] = bit] /\ c'.size = c.size

\* What the bit handlers do.
LEMMA BitIsStored ==
    ASSUME Types, NEW sig, NEW bit \in Binary, recieveBit(sig, bit)
    PROVE  /\ ~clientEnded /\ sig \in pend.client /\ (sig \notin c.mask \/ c.pc = "suspend")
           /\ pend'.client = pend.client \ {sig} /\ pend'.server = pend.server /\ UNCHANGED <<s, out>>
           /\ Woke /\ c'.bit = c.bit + 1 /\ c'.ready = TRUE /\ Stored(bit)
           /\ UNCHANGED <<c.phase, c.usr1, c.usr2, c.mask, c.written>>
<1>1. /\ ~clientEnded /\ sig \in pend.client /\ (sig \notin c.mask \/ c.pc = "suspend")
      /\ pend' = [pend EXCEPT !.client = @ \ {sig}] /\ UNCHANGED <<s, out>>
    BY DEF recieveBit, ReachesClient
<1>2. pend'.client = pend.client \ {sig} /\ pend'.server = pend.server
    BY <1>1 DEF Types, OtherTypes
<1> DEFINE next == [Woken(c) EXCEPT !.bit = @ + 1, !.ready = TRUE]
<1>3. c' = IF c.phase = "size" THEN [next EXCEPT !.size[c.bit] = bit] ELSE [next EXCEPT !.buf[c.bit] = bit]
    BY DEF recieveBit, WithBit, Types, ClientTypes, ClientRecords
<1>4. /\ next.pc = IF c.pc = "suspend" THEN "test" ELSE c.pc
      /\ next.bit = c.bit + 1 /\ next.ready = TRUE /\ next.phase = c.phase /\ next.usr1 = c.usr1
      /\ next.usr2 = c.usr2 /\ next.mask = c.mask /\ next.written = c.written
      /\ next.size = c.size /\ next.buf = c.buf
      /\ DOMAIN next = DOMAIN c
    BY DEF Types, ClientTypes, ClientRecords, Woken
<1>5. DOMAIN c = {"pc", "phase", "usr1", "usr2", "mask", "ready", "bit", "size", "buf", "written"}
    BY DEF Types, ClientTypes, ClientRecords
<1> HIDE DEF next
<1>. QED
    BY <1>1, <1>2, <1>3, <1>4, <1>5 DEF Woke, Stored

\* The turn goes over with each signal, and comes to the one who was waiting when
\* its flag is taken.
LEMMA TurnKept ==
    ASSUME Types, OneTurn, [Next]_vars
    PROVE  OneTurn'
<1> USE DEF Types, ClientTypes, ServerTypes, OtherTypes, ClientRecords, ServerRecords, OneTurn,
            ForClient, ForServer, ClientTurn,
            ServerTurn, clientEnded, serverEnded, Ended
<1>1. CASE blockSignals
    BY <1>1 DEF blockSignals, Client
<1>2. CASE serverIsNotReady
    BY <1>2 DEF serverIsNotReady, Client
<1>3. CASE suspendClient
    BY <1>3 DEF suspendClient, Client
<1>4. CASE serverIsReady
    BY <1>4 DEF serverIsReady, Client, Taken
<1>5. CASE setHandler0
    BY <1>5 DEF setHandler0, Client
<1>6. CASE setHandler1
    BY <1>6 DEF setHandler1, Client
<1>7. CASE requestBit
    BY <1>7 DEF requestBit, ToServer
<1>8. CASE recievedSize
    BY <1>8 DEF recievedSize, Client
<1>9. CASE recievedBuffer
    BY <1>9 DEF recievedBuffer, Client
<1>10. CASE restoreWaitHandler
    BY <1>10 DEF restoreWaitHandler, Client
<1>11. CASE confirm
    BY <1>11 DEF confirm, ToServer
<1>12. CASE killFails
    BY <1>12 DEF killFails, Client
<1>13. CASE writeOut
    BY <1>13 DEF writeOut
<1>14. CASE writtenOut
    BY <1>14 DEF writtenOut, Client
<1>15. CASE askForDeathSignal
    BY <1>15 DEF askForDeathSignal, Server
<1>16. CASE checkParent
    BY <1>16 DEF checkParent, Server
<1>17. CASE activateSendHandlers
    BY <1>17 DEF activateSendHandlers, Server
<1>18. CASE readFile
    BY <1>18 DEF readFile, Server
<1>19. CASE signalReady
  <2>1. s.pc = "ready" /\ Sent("USR1")
    BY <1>19, ReadyIsSent
  <2>. QED
    BY <2>1 DEF Sent
<1>20. CASE blockUsr1
    BY <1>20 DEF blockUsr1, Server
<1>21. CASE clientIsNotReady
    BY <1>21 DEF clientIsNotReady, Server
<1>22. CASE suspendServer
    BY <1>22 DEF suspendServer, Server
<1>23. CASE clientIsReady
    BY <1>23 DEF clientIsReady, Server, Taken
<1>24. CASE sendBit
  <2>1. s.pc = "send" /\ Sent(IF NextBit = 1 THEN "USR2" ELSE "USR1")
    BY <1>24, BitIsSent
  <2>. QED
    BY <2>1 DEF Sent
<1>25. CASE recieveWaitHandler
    BY <1>25 DEF recieveWaitHandler, ReachesClient, Woken
<1>26. CASE recieve0Handler
    BY <1>26 DEF recieve0Handler, recieveBit, ReachesClient, Woken
<1>27. CASE recieve1Handler
  <2>1. CASE c.usr2 = "bit"
    <3>1. recieveBit("USR2", 1) /\ 1 \in Binary
      BY <1>27, <2>1 DEF recieve1Handler, Binary
    <3> HIDE DEF Types, ClientTypes, ServerTypes, OtherTypes, ClientRecords, ServerRecords, OneTurn,
                 ForClient, ForServer, ClientTurn, ServerTurn
    <3>2. /\ "USR2" \in pend.client /\ pend'.client = pend.client \ {"USR2"}
          /\ UNCHANGED <<s, pend.server>> /\ Woke
      BY <3>1, BitIsStored
    <3>3. pend'.client = {} /\ pend.client # {}
      BY <3>2 DEF OneTurn
    <3>. QED
      BY <3>2, <3>3 DEF Woke, OneTurn, ForClient, ForServer, ClientTurn, ServerTurn
  <2>2. CASE c.usr2 # "bit"
    BY <1>27, <2>2 DEF recieve1Handler, recieveBit, ReachesClient, Woken
  <2>. QED
    BY <2>1, <2>2
<1>28. CASE childDeathHandler
    BY <1>28 DEF childDeathHandler
<1>29. CASE sendWaitHandler
    BY <1>29 DEF sendWaitHandler, Woken
<1>30. CASE parentDeathSignal
    BY <1>30 DEF parentDeathSignal
<1>31. CASE readFails
    BY <1>31 DEF readFails, Server
<1>32. CASE writeFails
    BY <1>32 DEF writeFails, Client
<1>33. CASE killed
  <2>1. CASE c' = [c EXCEPT !.pc = "killed"] /\ UNCHANGED <<s, pend, out>>
    BY <2>1
  <2>2. CASE s' = [s EXCEPT !.pc = "killed"] /\ UNCHANGED <<c, pend, out>>
    BY <2>2
  <2>. QED
    BY <1>33, <2>1, <2>2 DEF killed
<1>34. CASE UNCHANGED vars
    BY <1>34 DEF vars
<1>. QED
    BY <1>1, <1>2, <1>3, <1>4, <1>5, <1>6, <1>7, <1>8, <1>9, <1>10, <1>11, <1>12, <1>13, <1>14,
       <1>15, <1>16, <1>17, <1>18, <1>19, <1>20, <1>21, <1>22, <1>23, <1>24, <1>25, <1>26, <1>27,
       <1>28, <1>29, <1>30, <1>31, <1>32, <1>33, <1>34 DEF Next, client, server, signals

\* Signals and flags together are at most one.
LEMMA TurnIsLockStep ==
    ASSUME Types, OneTurn
    PROVE  LockStep
<1>1. /\ pend.client \subseteq Signals /\ pend.server \subseteq {"USR1"}
      /\ c.ready \in BOOLEAN /\ s.ready \in BOOLEAN
    BY DEF Types, ClientTypes, ServerTypes, OtherTypes, ClientRecords, ServerRecords
<1>2. pend.client = {} \/ \E x : pend.client = {x}
    BY DEF OneTurn
<1>3. pend.server = {} \/ pend.server = {"USR1"}
    BY <1>1
<1>4. /\ pend.client = {} => Cardinality(pend.client) = 0
      /\ pend.client # {} => Cardinality(pend.client) = 1
      /\ pend.server = {} => Cardinality(pend.server) = 0
      /\ pend.server # {} => Cardinality(pend.server) = 1
    BY <1>2, <1>3, FS_EmptySet, FS_Singleton
<1>. QED
    BY <1>1, <1>4 DEF LockStep, OneTurn, ForClient, ForServer

-----------------------------------------------------------------------------
(* Types.                                                                  *)

\* The size of the client's block.
LEMMA BlockIs ==
    ASSUME ClientTypes
    PROVE  /\ ClientSize \in Nat /\ Block \in Nat /\ Block <= Space /\ Whole(Block)
           /\ ClientSize = 0 <=> Block = 0
<1>1. c.size \in Bits
    BY DEF ClientTypes, ClientRecords
<1>2. ClientSize \in Nat /\ ClientSize <= BufBytes /\ BufBytes \in Nat
    BY <1>1, NumberBound, SpaceIs DEF ClientSize
<1>3. Block <= Space
    BY <1>2, FewerBytes DEF Block, Space
<1>. QED
    BY <1>2, <1>3, BytesAre DEF Block

\* Bytes that write() takes.
Piece(bytes) == bytes \in 1 .. ClientSize - c.written \div CharBits

\* They are in the block.
LEMMA PieceFits ==
    ASSUME ClientTypes, Whole(c.written), c.written <= Block, NEW bytes, Piece(bytes)
    PROVE  /\ bytes * CharBits \in Nat \ {0} /\ Whole(bytes * CharBits)
           /\ c.written \in Nat /\ c.written + bytes * CharBits <= Block
           /\ Whole(c.written + bytes * CharBits)
<1>1. c.written \in Nat /\ ClientSize \in Nat
    BY BlockIs DEF ClientTypes, ClientRecords
<1> DEFINE w == c.written \div CharBits
           x == ClientSize
<1>2. w \in Nat /\ w * CharBits = c.written
    BY <1>1, WholeIs
<1>3. bytes \in 1 .. x - w /\ x \in Nat
    BY <1>1 DEF Piece
<1> HIDE DEF w, x
<1>4. bytes \in Nat \ {0} /\ w + bytes \in Nat /\ w + bytes <= x
    BY <1>2, <1>3
<1>5. bytes * CharBits \in Nat /\ bytes * CharBits # 0 /\ Whole(bytes * CharBits)
    BY <1>4, BytesAre
<1>6. (w + bytes) * CharBits <= x * CharBits
    BY <1>3, <1>4, FewerBytes
<1>7. (w + bytes) * CharBits = c.written + bytes * CharBits
    BY <1>2, <1>4
<1>8. Whole(c.written + bytes * CharBits)
    BY <1>1, <1>5, WholeSum
<1>. QED
    BY <1>1, <1>5, <1>6, <1>7, <1>8 DEF Block, x

\* The bits that go out in one write().
Out(k) == [i \in 1 .. k |-> c.buf[c.written + i - 1]]

Written(k) ==
    /\ c.pc = "write" /\ k \in Nat \ {0} /\ c.written \in Nat /\ c.written + k <= Block
    /\ Whole(c.written + k)
    /\ out' = out \o Out(k) /\ c' = [c EXCEPT !.written = c.written + k] /\ UNCHANGED <<s, pend>>

\* What writeOut does.
LEMMA PieceIsWritten ==
    ASSUME ClientTypes, ClientPlace, writeOut
    PROVE  \E k : Written(k)
<1>1. PICK bytes : /\ Piece(bytes) /\ c.pc = "write" /\ UNCHANGED <<s, pend>>
                   /\ out' = out \o Out(bytes * CharBits)
                   /\ c' = [c EXCEPT !.written = @ + bytes * CharBits]
    BY DEF writeOut, Piece, Out
<1>2. /\ bytes * CharBits \in Nat \ {0} /\ c.written \in Nat /\ c.written + bytes * CharBits <= Block
      /\ Whole(c.written + bytes * CharBits)
    BY <1>1, PieceFits DEF ClientPlace, ClientBlock
<1>3. [c EXCEPT !.written = @ + bytes * CharBits] = [c EXCEPT !.written = c.written + bytes * CharBits]
    BY DEF ClientTypes, ClientRecords
<1>4. Written(bytes * CharBits)
    BY <1>1, <1>2, <1>3 DEF Written
<1>. QED
    BY <1>4

\* Those bits are bits.
LEMMA OutIs ==
    ASSUME ClientTypes, NEW k, Written(k)
    PROVE  /\ Out(k) \in Seq(Binary) /\ Len(Out(k)) = k
           /\ \A i \in 1 .. k : Out(k)[i] = c.buf[c.written + i - 1]
<1>1. k \in Nat /\ c.written \in Nat /\ c.written + k <= Space /\ Space \in Nat
    BY BlockIs, SpaceIs DEF Written
<1>2. c.buf \in [0 .. Space - 1 -> Binary]
    BY DEF ClientTypes, ClientRecords
<1>3. ASSUME NEW i \in 1 .. k PROVE c.buf[c.written + i - 1] \in Binary
  <2>1. c.written + i - 1 \in 0 .. Space - 1
    BY <1>1
  <2>. QED
    BY <1>2, <2>1
<1>. QED
    BY <1>1, <1>3 DEF Out

\* A bit that is stored is one.
LEMMA BitTyped ==
    ASSUME ClientTypes, NEW sig, NEW bit \in Binary, recieveBit(sig, bit)
    PROVE  ClientTypes'
<1> DEFINE next == [Woken(c) EXCEPT !.bit = @ + 1, !.ready = TRUE]
<1>1. c' = IF c.phase = "size" THEN [next EXCEPT !.size[c.bit] = bit] ELSE [next EXCEPT !.buf[c.bit] = bit]
    BY DEF recieveBit, WithBit, ClientTypes, ClientRecords
<1>2. next \in ClientRecords
  <2> DEFINE w == Woken(c)
  <2>1. w \in ClientRecords
    BY DEF ClientTypes, ClientRecords, Woken, ClientLabels
  <2>2. w.bit + 1 \in Nat
    BY <2>1 DEF ClientRecords
  <2> HIDE DEF w
  <2>3. [w EXCEPT !.bit = w.bit + 1, !.ready = TRUE] \in ClientRecords
    BY <2>1, <2>2 DEF ClientRecords
  <2>4. [w EXCEPT !.bit = @ + 1, !.ready = TRUE] = [w EXCEPT !.bit = w.bit + 1, !.ready = TRUE]
    BY <2>1 DEF ClientRecords
  <2>. QED
    BY <2>3, <2>4 DEF w
<1> HIDE DEF next
<1>3. /\ [next.size EXCEPT ![c.bit] = bit] \in Bits
      /\ [next.buf EXCEPT ![c.bit] = bit] \in [0 .. Space - 1 -> Binary]
    BY <1>2 DEF ClientRecords, Bits, Binary
<1>4. /\ [next EXCEPT !.size[c.bit] = bit] = [next EXCEPT !.size = [next.size EXCEPT ![c.bit] = bit]]
      /\ [next EXCEPT !.buf[c.bit] = bit] = [next EXCEPT !.buf = [next.buf EXCEPT ![c.bit] = bit]]
    BY <1>2 DEF ClientRecords
<1>5. /\ [next EXCEPT !.size = [next.size EXCEPT ![c.bit] = bit]] \in ClientRecords
      /\ [next EXCEPT !.buf = [next.buf EXCEPT ![c.bit] = bit]] \in ClientRecords
    BY <1>2, <1>3 DEF ClientRecords
<1>. QED
    BY <1>1, <1>4, <1>5 DEF ClientTypes

\* A signal that is sent is one.
LEMMA SentTyped ==
    ASSUME OtherTypes, NEW sig \in Signals, NEW next, Send(sig, next)
    PROVE  OtherTypes'
<1>1. UNCHANGED out /\ (pend' = pend \/ pend' = [pend EXCEPT !.client = @ \cup {sig}])
    BY DEF Send, ToClient
<1>. QED
    BY <1>1 DEF OtherTypes

\* And the server goes on from next.
LEMMA SentServer ==
    ASSUME NEW sig, NEW next \in ServerRecords, Send(sig, next)
    PROVE  ServerTypes'
<1>1. \E at \in {"block", "failed"} : s' = [next EXCEPT !.pc = at]
    BY DEF Send
<1>. QED
    BY <1>1 DEF ServerTypes, ServerRecords, ServerLabels, Ended

\* What read() takes.
Taking == LET rest == Len(File) - s.offset IN IF rest < Space THEN rest ELSE Space

\* It is within the file and fits into the buffer.
LEMMA TakingIs ==
    ASSUME ServerTypes, s.offset <= Len(File), Whole(s.offset)
    PROVE  /\ Taking \in Nat /\ Taking <= Space /\ s.offset \in Nat /\ s.offset + Taking <= Len(File)
           /\ Whole(Taking) /\ Whole(s.offset + Taking)
           /\ Taking = 0 <=> s.offset = Len(File)
<1> DEFINE l == Len(File)
           o == s.offset
<1>1. l \in Nat /\ o \in Nat /\ o <= l /\ Space \in Nat \ {0} /\ Taking = IF l - o < Space THEN l - o ELSE Space
    BY WholeFile, SpaceIs DEF Taking, ServerTypes, ServerRecords
<1>2. Whole(l) /\ Whole(o) /\ Whole(Space)
    BY WholeFile
<1> HIDE DEF l, o
<1>3. Whole(Taking)
    BY <1>1, <1>2, WholeSum
<1>4. Taking \in Nat /\ Taking <= Space /\ o + Taking <= l /\ (Taking = 0 <=> o = l)
    BY <1>1
<1>5. Whole(o + Taking)
    BY <1>1, <1>2, <1>3, <1>4, WholeSum
<1>. QED
    BY <1>1, <1>3, <1>4, <1>5 DEF l, o

\* The block that is read.
LEMMA BlockIsRead ==
    ASSUME ServerTypes, s.offset <= Len(File), Whole(s.offset), readFile
    PROVE  /\ s.pc = "read" /\ UNCHANGED <<c, pend, out>>
           /\ s' = [s EXCEPT !.pc = "ready", !.offset = s.offset + Taking,
                             !.buf = Slice(s.offset, s.offset + Taking)]
           /\ Slice(s.offset, s.offset + Taking) \in Seq(Binary)
           /\ Len(Slice(s.offset, s.offset + Taking)) = Taking
<1>1. /\ s.pc = "read" /\ UNCHANGED <<c, pend, out>>
      /\ s' = [s EXCEPT !.pc = "ready", !.offset = s.offset + Taking,
                        !.buf = Slice(s.offset, s.offset + Taking)]
    BY DEF readFile, Server, Taking, Slice, Space, ServerTypes, ServerRecords
<1> DEFINE b == s.offset + Taking
           o == s.offset
<1>2. o \in Nat /\ b \in Nat /\ o <= b /\ b <= Len(File) /\ b - o = Taking
  <2> DEFINE t == Taking
  <2>1. o \in Nat /\ t \in Nat
    BY TakingIs
  <2>2. b <= Len(File)
    BY TakingIs
  <2> HIDE DEF o
  <2>. QED
    BY <2>1, <2>2 DEF o
<1> HIDE DEF b, o
<1>3. Slice(o, b) \in Seq(Binary) /\ Len(Slice(o, b)) = b - o
    BY <1>2, SliceIs
<1>. QED
    BY <1>1, <1>2, <1>3 DEF b, o

\* The steps of one process leave the variables of the other alone.
LEMMA ServerLeaves ==
    ASSUME server \/ sendWaitHandler \/ parentDeathSignal \/ readFails
    PROVE  UNCHANGED c
    BY DEF server, askForDeathSignal, checkParent, activateSendHandlers, readFile, signalReady, blockUsr1,
           clientIsNotReady, suspendServer, clientIsReady, sendBit, sendWaitHandler, parentDeathSignal,
           readFails, Server, Send

\* And the other way round.
LEMMA ClientLeaves ==
    ASSUME client \/ recieveWaitHandler \/ recieve0Handler \/ recieve1Handler \/ childDeathHandler \/ writeFails
    PROVE  UNCHANGED s
    BY DEF client, blockSignals, serverIsNotReady, suspendClient, serverIsReady, setHandler0, setHandler1,
           requestBit, recievedSize, recievedBuffer, restoreWaitHandler, confirm, killFails, writeOut,
           writtenOut, recieveWaitHandler, recieve0Handler, recieve1Handler, childDeathHandler, writeFails,
           Client, ReachesClient, recieveBit

\* The client's variables keep their types.
LEMMA ClientTypesKept ==
    ASSUME Types, ClientPlace, [Next]_vars
    PROVE  ClientTypes'
<1>. ClientTypes
    BY DEF Types
<1> USE DEF ClientTypes, ClientRecords, ClientLabels, Ended
<1>1. CASE blockSignals
  <2> DEFINE m == IF c.phase = "ready" THEN {"USR1"} ELSE Signals
  <2>1. m \in SUBSET Signals
    BY DEF Signals
  <2>2. c' = [c EXCEPT !.pc = "test", !.mask = m]
    BY <1>1 DEF blockSignals, Client
  <2> HIDE DEF m
  <2>. QED
    BY <2>1, <2>2
<1>2. CASE serverIsNotReady
    BY <1>2 DEF serverIsNotReady, Client
<1>3. CASE suspendClient
    BY <1>3 DEF suspendClient, Client
<1>4. CASE serverIsReady
    BY <1>4 DEF serverIsReady, Client, Taken
<1>5. CASE setHandler0
    BY <1>5 DEF setHandler0, Client
<1>6. CASE setHandler1
  <2> DEFINE z == [i \in 0 .. SizeBits - 1 |-> 0]
  <2>1. z \in Bits
    BY DEF Bits
  <2>2. c' = [c EXCEPT !.pc = "request", !.usr2 = "bit", !.phase = "size", !.size = z, !.bit = 0]
    BY <1>6 DEF setHandler1, Client
  <2> HIDE DEF z
  <2>. QED
    BY <2>1, <2>2
<1>7. CASE requestBit
    BY <1>7 DEF requestBit, ToServer
<1>8. CASE recievedSize
    BY <1>8 DEF recievedSize, Client
<1>9. CASE recievedBuffer
    BY <1>9 DEF recievedBuffer, Client
<1>10. CASE restoreWaitHandler
    BY <1>10 DEF restoreWaitHandler, Client
<1>11. CASE confirm
    BY <1>11 DEF confirm, ToServer
<1>12. CASE killFails
    BY <1>12 DEF killFails, Client
<1>13. CASE writeOut
  <2>1. PICK k : Written(k)
    BY <1>13, PieceIsWritten
  <2>2. c' = [c EXCEPT !.written = c.written + k] /\ c.written + k \in Nat
    BY <2>1 DEF Written
  <2>. QED
    BY <2>2
<1>14. CASE writtenOut
    BY <1>14 DEF writtenOut, Client
<1>15. CASE recieveWaitHandler
    BY <1>15 DEF recieveWaitHandler, ReachesClient, Woken
<1>16. CASE recieve0Handler
  <2>1. recieveBit("USR1", 0)
    BY <1>16 DEF recieve0Handler
  <2>. QED
    BY <2>1, BitTyped DEF Binary
<1>17. CASE recieve1Handler
  <2>1. CASE c.usr2 = "bit"
    <3>1. recieveBit("USR2", 1)
      BY <1>17, <2>1 DEF recieve1Handler
    <3>. QED
      BY <3>1, BitTyped DEF Binary
  <2>2. CASE c.usr2 # "bit"
    BY <1>17, <2>2 DEF recieve1Handler
  <2>. QED
    BY <2>1, <2>2
<1>18. CASE childDeathHandler
    BY <1>18 DEF childDeathHandler
<1>19. CASE writeFails
    BY <1>19 DEF writeFails, Client
<1>20. CASE killed
    BY <1>20 DEF killed
<1>21. CASE UNCHANGED c
    BY <1>21
<1>22. CASE server \/ sendWaitHandler \/ parentDeathSignal \/ readFails
    BY <1>21, <1>22, ServerLeaves
<1>. QED
    BY <1>1, <1>2, <1>3, <1>4, <1>5, <1>6, <1>7, <1>8, <1>9, <1>10, <1>11, <1>12, <1>13, <1>14,
       <1>15, <1>16, <1>17, <1>18, <1>19, <1>20, <1>21, <1>22 DEF Next, client, server, signals, vars

\* Those of the server.
LEMMA ServerTypesKept ==
    ASSUME Types, ServerPlace, [Next]_vars
    PROVE  ServerTypes'
<1>. ServerTypes
    BY DEF Types
<1> USE DEF ServerTypes, ServerRecords, ServerLabels, Ended
<1>1. CASE askForDeathSignal
    BY <1>1 DEF askForDeathSignal, Server
<1>2. CASE checkParent
    BY <1>2 DEF checkParent, Server
<1>3. CASE activateSendHandlers
    BY <1>3 DEF activateSendHandlers, Server
<1>4. CASE readFile
  <2> DEFINE b == Slice(s.offset, s.offset + Taking)
             o == s.offset + Taking
  <2>1. s' = [s EXCEPT !.pc = "ready", !.offset = o, !.buf = b] /\ b \in Seq(Binary) /\ o \in Nat
    BY <1>4, BlockIsRead, TakingIs DEF ServerPlace, ServerFile
  <2> HIDE DEF b, o
  <2>. QED
    BY <2>1
<1>5. CASE signalReady
  <2> DEFINE next == [s EXCEPT !.phase = "size", !.bit = 0]
  <2>1. Send("USR1", next)
    BY <1>5 DEF signalReady
  <2>2. next \in ServerRecords
    OBVIOUS
  <2> HIDE DEF next
  <2>. QED
    BY <2>1, <2>2, SentServer
<1>6. CASE blockUsr1
    BY <1>6 DEF blockUsr1, Server
<1>7. CASE clientIsNotReady
    BY <1>7 DEF clientIsNotReady, Server
<1>8. CASE suspendServer
    BY <1>8 DEF suspendServer, Server
<1>9. CASE clientIsReady
    BY <1>9 DEF clientIsReady, Server, Taken
<1>10. CASE sendBit
  <2> DEFINE x == [s EXCEPT !.bit = @ + 1]
             y == [s EXCEPT !.bit = 0,
                      !.phase = IF @ = "size" /\ ServerSize > 0 THEN "data" ELSE "confirm"]
             next == IF s.bit + 1 < ServerBits THEN x ELSE y
  <2>1. Send(IF NextBit = 1 THEN "USR2" ELSE "USR1", next)
    BY <1>10 DEF sendBit
  <2>2. x \in ServerRecords
    <3>1. s.bit + 1 \in Nat /\ x = [s EXCEPT !.bit = s.bit + 1]
      OBVIOUS
    <3>. QED
      BY <3>1
  <2>3. y \in ServerRecords
    OBVIOUS
  <2> HIDE DEF x, y, ServerRecords
  <2>4. next \in ServerRecords
    BY <2>2, <2>3
  <2> HIDE DEF next
  <2>. QED
    BY <2>1, <2>4, SentServer
<1>11. CASE sendWaitHandler
    BY <1>11 DEF sendWaitHandler, Woken
<1>12. CASE parentDeathSignal
    BY <1>12 DEF parentDeathSignal
<1>13. CASE readFails
    BY <1>13 DEF readFails, Server
<1>14. CASE killed
    BY <1>14 DEF killed
<1>15. CASE UNCHANGED s
    BY <1>15
<1>16. CASE client \/ recieveWaitHandler \/ recieve0Handler \/ recieve1Handler \/
    childDeathHandler \/ writeFails
    BY <1>15, <1>16, ClientLeaves
<1>. QED
    BY <1>1, <1>2, <1>3, <1>4, <1>5, <1>6, <1>7, <1>8, <1>9, <1>10, <1>11, <1>12, <1>13, <1>14,
       <1>15, <1>16 DEF Next, client, server, signals, vars

\* Signals and output.
LEMMA OtherTypesKept ==
    ASSUME Types, ClientPlace, [Next]_vars
    PROVE  OtherTypes'
<1>. OtherTypes
    BY DEF Types
<1> USE DEF OtherTypes, Signals
<1>1. CASE requestBit
    BY <1>1 DEF requestBit, ToServer
<1>2. CASE confirm
    BY <1>2 DEF confirm, ToServer
<1>3. CASE writeOut
  <2>1. PICK k : Written(k)
    BY <1>3, PieceIsWritten DEF Types
  <2>2. Out(k) \in Seq(Binary)
    BY <2>1, OutIs DEF Types
  <2>3. out \o Out(k) \in Seq(Binary)
    BY <2>2, Joined
  <2>. QED
    BY <2>1, <2>3 DEF Written
<1>4. CASE recieveWaitHandler
    BY <1>4 DEF recieveWaitHandler, ReachesClient, Woken
<1>5. CASE recieve0Handler
  <2>1. pend' = [pend EXCEPT !.client = @ \ {"USR1"}] /\ UNCHANGED out
    BY <1>5 DEF recieve0Handler, recieveBit, ReachesClient
  <2>. QED
    BY <2>1
<1>6. CASE recieve1Handler
  <2>1. pend' = [pend EXCEPT !.client = @ \ {"USR2"}] /\ UNCHANGED out
    BY <1>6 DEF recieve1Handler, recieveBit, ReachesClient
  <2>. QED
    BY <2>1
<1>7. CASE sendWaitHandler
    BY <1>7 DEF sendWaitHandler, Woken
<1>8. CASE signalReady
  <2>1. Send("USR1", [s EXCEPT !.phase = "size", !.bit = 0])
    BY <1>8 DEF signalReady
  <2>. QED
    BY <2>1, SentTyped
<1>9. CASE sendBit
  <2>1. PICK next : Send(IF NextBit = 1 THEN "USR2" ELSE "USR1", next)
    BY <1>9 DEF sendBit
  <2>. QED
    BY <2>1, SentTyped
<1>10. CASE UNCHANGED <<pend, out>>
    BY <1>10
<1>11. CASE blockSignals \/ serverIsNotReady \/ suspendClient \/ serverIsReady \/ setHandler0 \/
    setHandler1 \/ recievedSize \/ recievedBuffer \/ restoreWaitHandler \/ killFails \/ writtenOut \/
    childDeathHandler \/ writeFails \/ askForDeathSignal \/ checkParent \/ activateSendHandlers \/
    readFile \/ blockUsr1 \/ clientIsNotReady \/ suspendServer \/ clientIsReady \/
    parentDeathSignal \/ readFails \/ killed
    BY <1>10, <1>11 DEF blockSignals, serverIsNotReady, suspendClient, serverIsReady, setHandler0,
       setHandler1, recievedSize, recievedBuffer, restoreWaitHandler, killFails, writtenOut,
       childDeathHandler, writeFails, askForDeathSignal, checkParent, activateSendHandlers, readFile,
       blockUsr1, clientIsNotReady, suspendServer, clientIsReady, parentDeathSignal, readFails,
       killed, Client, Taken, Server
<1>. QED
    BY <1>1, <1>2, <1>3, <1>4, <1>5, <1>6, <1>7, <1>8, <1>9, <1>10, <1>11
       DEF Next, client, server, signals, vars

-----------------------------------------------------------------------------
(* Where the server is.                                                    *)

\* The bits that the server sends.
LEMMA ServerBitsAre ==
    ASSUME ServerTypes, ServerFile
    PROVE  /\ Len(s.buf) \in Nat /\ ServerSize \in Nat /\ ServerSize <= BufBytes
           /\ s.phase = "size" => ServerBits = SizeBits
           /\ s.phase = "data" => ServerBits = Len(s.buf)
           /\ ServerSize > 0 <=> Len(s.buf) > 0
           /\ ServerSize * CharBits = Len(s.buf)
<1> DEFINE l == Len(s.buf)
<1>1. l \in Nat /\ Whole(l) /\ l <= Space
    BY DEF ServerTypes, ServerRecords, ServerFile
<1> HIDE DEF l
<1> DEFINE z == l \div CharBits
<1>2. z \in Nat /\ z * CharBits = l
    BY <1>1, WholeIs
<1>3. ServerSize = z
    BY DEF ServerSize, l
<1> HIDE DEF z
<1>4. z <= BufBytes
    BY <1>1, <1>2, SpaceIs, FewerBytes DEF Space
<1>5. l = 0 <=> z = 0
    BY <1>2, BytesAre
<1>6. z > 0 <=> l > 0
    BY <1>1, <1>2, <1>5
<1>. QED
    BY <1>1, <1>2, <1>3, <1>4, <1>6 DEF ServerBits, l

\* The server reads the file block by block.
LEMMA ServerFileKept ==
    ASSUME Types, ServerPlace, [Next]_vars
    PROVE  ServerFile'
<1>. ServerTypes /\ ServerFile
    BY DEF Types, ServerPlace
<1> USE DEF ServerFile, Start, Waits
<1>1. CASE askForDeathSignal
    BY <1>1 DEF askForDeathSignal, Server
<1>2. CASE checkParent
    BY <1>2 DEF checkParent, Server
<1>3. CASE activateSendHandlers
    BY <1>3 DEF activateSendHandlers, Server
<1>4. CASE readFile
  <2> DEFINE b == Slice(s.offset, s.offset + Taking)
             o == s.offset + Taking
             l == Len(b)
  <2>1. /\ s' = [s EXCEPT !.pc = "ready", !.offset = o, !.buf = b]
        /\ b \in Seq(Binary) /\ l = Taking
    BY <1>4, BlockIsRead DEF Types, ServerPlace
  <2>2. /\ Taking \in Nat /\ Taking <= Space /\ s.offset \in Nat /\ o <= Len(File)
        /\ Whole(Taking) /\ Whole(o) /\ (Taking = 0 <=> s.offset = Len(File))
    BY TakingIs DEF Types, ServerPlace
  <2>3. s'.offset = o /\ s'.buf = b /\ s'.pc = "ready"
    BY <2>1 DEF Types, ServerTypes, ServerRecords
  <2>4. b = <<>> => l = 0
    BY EmptySeq
  <2> HIDE DEF l
  <2>5. o - l = s.offset /\ l <= o /\ (b = <<>> => o = Len(File))
    BY <2>1, <2>2, <2>4
  <2>6. b = Slice(o - l, o)
    BY <2>5
  <2> HIDE DEF b, o
  <2>. QED
    BY <2>1, <2>2, <2>3, <2>5, <2>6 DEF l
<1>5. CASE signalReady
  <2>1. s.pc = "ready" /\ Sent("USR1")
    BY <1>5, ReadyIsSent
  <2>. QED
    BY <2>1 DEF Sent
<1>6. CASE blockUsr1
    BY <1>6 DEF blockUsr1, Server
<1>7. CASE clientIsNotReady
    BY <1>7 DEF clientIsNotReady, Server
<1>8. CASE suspendServer
    BY <1>8 DEF suspendServer, Server
<1>9. CASE clientIsReady
    BY <1>9 DEF clientIsReady, Server, Taken
<1>10. CASE sendBit
  <2>1. s.pc = "send" /\ Sent(IF NextBit = 1 THEN "USR2" ELSE "USR1")
    BY <1>10, BitIsSent
  <2>. QED
    BY <2>1 DEF Sent
<1>11. CASE sendWaitHandler
    BY <1>11 DEF sendWaitHandler, Woken
<1>12. CASE parentDeathSignal
    BY <1>12 DEF parentDeathSignal
<1>13. CASE readFails
    BY <1>13 DEF readFails, Server
<1>14. CASE killed
  <2>1. CASE UNCHANGED s
    BY <2>1
  <2>2. CASE s' = [s EXCEPT !.pc = "killed"]
    BY <2>2 DEF ServerTypes, ServerRecords
  <2>. QED
    BY <1>14, <2>1, <2>2 DEF killed
<1>15. CASE UNCHANGED s
    BY <1>15
<1>16. CASE client \/ recieveWaitHandler \/ recieve0Handler \/ recieve1Handler \/
    childDeathHandler \/ writeFails
    BY <1>15, <1>16, ClientLeaves
<1>. QED
    BY <1>1, <1>2, <1>3, <1>4, <1>5, <1>6, <1>7, <1>8, <1>9, <1>10, <1>11, <1>12, <1>13, <1>14,
       <1>15, <1>16 DEF Next, client, server, signals, vars

\* It is at a bit of its block, and no signal comes before it has its handler.
LEMMA ServerBitKept ==
    ASSUME Types, OneTurn, ServerPlace, [Next]_vars
    PROVE  ServerBit'
<1>. ServerBit
    BY DEF ServerPlace
<1> USE DEF Types, ServerTypes, ServerRecords, OtherTypes, ServerBit, serverEnded, clientEnded, Ended
<1>1. CASE askForDeathSignal
    BY <1>1 DEF askForDeathSignal, Server
<1>2. CASE checkParent
    BY <1>2 DEF checkParent, Server
<1>3. CASE activateSendHandlers
    BY <1>3 DEF activateSendHandlers, Server
<1>4. CASE readFile
    BY <1>4 DEF readFile, Server
<1>5. CASE signalReady
  <2>1. s.pc = "ready" /\ Sent("USR1") /\ s'.phase = "size" /\ s'.bit = 0
    BY <1>5, ReadyIsSent
  <2>. QED
    BY <2>1 DEF Sent
<1>6. CASE blockUsr1
    BY <1>6 DEF blockUsr1, Server
<1>7. CASE clientIsNotReady
    BY <1>7 DEF clientIsNotReady, Server
<1>8. CASE suspendServer
    BY <1>8 DEF suspendServer, Server
<1>9. CASE clientIsReady
    BY <1>9 DEF clientIsReady, Server, Taken
<1>10. CASE sendBit
  <2>1. s.pc = "send" /\ Sent(IF NextBit = 1 THEN "USR2" ELSE "USR1")
    BY <1>10, BitIsSent
  <2>2. /\ s.bit + 1 < ServerBits => s'.bit = s.bit + 1 /\ s'.phase = s.phase
        /\ ~(s.bit + 1 < ServerBits) =>
              s'.bit = 0 /\ s'.phase = IF s.phase = "size" /\ ServerSize > 0 THEN "data" ELSE "confirm"
    BY <1>10, BitIsSent
  <2>3. /\ s.phase = "size" => ServerBits = SizeBits
        /\ s.phase = "data" => ServerBits = Len(s.buf)
        /\ ServerSize > 0 <=> Len(s.buf) > 0
    BY ServerBitsAre DEF ServerPlace, ServerFile, Types
  <2>4. /\ UNCHANGED <<s.handler, s.buf, pend.server>> /\ s'.pc \in {"block", "failed"}
        /\ s'.bit \in Nat /\ (s'.phase = "data" => s'.bit < Len(s.buf)) /\ (s'.phase = "size" => s'.bit < SizeBits)
        /\ (s'.phase = "confirm" => s'.bit = 0)
    <3>1. UNCHANGED <<s.handler, s.buf, pend.server>> /\ s'.pc \in {"block", "failed"}
      BY <2>1 DEF Sent
    <3>. QED
      BY <2>1, <2>2, <2>3, <3>1
  <2>. QED
    BY <2>1, <2>4
<1>11. CASE sendWaitHandler
    BY <1>11 DEF sendWaitHandler, Woken
<1>12. CASE parentDeathSignal
    BY <1>12 DEF parentDeathSignal
<1>13. CASE readFails
    BY <1>13 DEF readFails, Server
<1>14. CASE requestBit
  <2>1. c.pc = "request" /\ ~serverEnded /\ UNCHANGED s
    BY <1>14 DEF requestBit
  <2>2. s.handler = "send"
    BY <2>1 DEF OneTurn, ClientTurn, ServerTurn
  <2>. QED
    BY <2>1, <2>2
<1>15. CASE confirm
  <2>1. c.pc = "confirm" /\ ~serverEnded /\ UNCHANGED s
    BY <1>15 DEF confirm
  <2>2. s.handler = "send"
    BY <2>1 DEF OneTurn, ClientTurn, ServerTurn
  <2>. QED
    BY <2>1, <2>2
<1>16. CASE recieveWaitHandler
    BY <1>16 DEF recieveWaitHandler, ReachesClient, Woken
<1>17. CASE recieve0Handler
    BY <1>17 DEF recieve0Handler, recieveBit, ReachesClient, Woken
<1>18. CASE recieve1Handler
    BY <1>18 DEF recieve1Handler, recieveBit, ReachesClient, Woken
<1>19. CASE killed
    BY <1>19 DEF killed
<1>20. CASE UNCHANGED <<s, pend>>
    BY <1>20
<1>21. CASE blockSignals \/ serverIsNotReady \/ suspendClient \/ serverIsReady \/ setHandler0 \/
    setHandler1 \/ recievedSize \/ recievedBuffer \/ restoreWaitHandler \/ killFails \/ writeOut \/
    writtenOut \/ childDeathHandler \/ writeFails
    BY <1>20, <1>21 DEF blockSignals, serverIsNotReady, suspendClient, serverIsReady, setHandler0,
       setHandler1, recievedSize, recievedBuffer, restoreWaitHandler, killFails, writeOut,
       writtenOut, childDeathHandler, writeFails, Client, Taken
<1>. QED
    BY <1>1, <1>2, <1>3, <1>4, <1>5, <1>6, <1>7, <1>8, <1>9, <1>10, <1>11, <1>12, <1>13, <1>14,
       <1>15, <1>16, <1>17, <1>18, <1>19, <1>20, <1>21 DEF Next, client, server, signals, vars

-----------------------------------------------------------------------------
(* Where the client is.                                                    *)

\* When the client has the size, its block is the server's.
LEMMA SizesMeet ==
    ASSUME Types, ServerFile, Got, c.phase = "data"
    PROVE  ClientSize = ServerSize /\ Block = Len(s.buf)
<1>1. c.size \in Bits
    BY DEF Types, ClientTypes, ClientRecords
<1>2. ServerSize \in Nat /\ ServerSize <= BufBytes /\ ServerSize * CharBits = Len(s.buf)
    BY ServerBitsAre DEF Types
<1>3. ServerSize \in 0 .. BufBytes
    BY <1>2, SpaceIs
<1>4. \A i \in 0 .. SizeBits - 1 : c.size[i] = BitOf(ServerSize, i)
    BY DEF Got
<1>5. Number(c.size) = ServerSize
  <2> DEFINE z == ServerSize
             b == c.size
  <2> HIDE DEF z, b
  <2>1. b \in Bits /\ z \in 0 .. BufBytes /\ \A i \in 0 .. SizeBits - 1 : b[i] = BitOf(z, i)
    BY <1>1, <1>3, <1>4 DEF z, b
  <2>2. Number(b) = z
    BY <2>1, NumberIs
  <2>. QED
    BY <2>2 DEF z, b
<1>. QED
    BY <1>2, <1>5 DEF ClientSize, Block

\* A process that a signal can reach while it has the turn does not.
LEMMA ReachedIsWaiting ==
    ASSUME Types, OneTurn, ClientAt, pend.client # {}, ~clientEnded
    PROVE  Resting \/ Receiving
<1>1. ~ClientTurn
    BY DEF OneTurn, ForClient
<1>2. c.pc \in ClientLabels /\ c.phase \in {"ready", "size", "data"}
    BY DEF Types, ClientTypes, ClientRecords
<1>. QED
    BY <1>1, <1>2 DEF ClientTurn, ClientLabels, clientEnded, Resting, Receiving, Waits, ClientAt

\* A bit that reaches the client.
Comes(sig, bit) ==
    /\ Receiving /\ Same(c.bit + 1) /\ pend.client = {sig} /\ c.usr1 = "bit"
    /\ sig = IF Bit = 1 THEN "USR2" ELSE "USR1"

\* A bit handler runs only while the client receives, and the server has gone on to
\* the next bit.
LEMMA BitComes ==
    ASSUME Types, OneTurn, ClientAt, Meeting, NEW sig, NEW bit \in Binary, recieveBit(sig, bit),
           (sig = "USR1" /\ c.usr1 = "bit") \/ sig = "USR2"
    PROVE  Comes(sig, bit)
<1>1. sig \in pend.client /\ ~clientEnded
    BY DEF recieveBit, ReachesClient
<1>2. Resting \/ Receiving
    BY <1>1, ReachedIsWaiting
<1>3. Receiving
  <2>1. Resting => pend.client \subseteq {"USR1"} /\ c.usr1 = "wait"
    BY <1>1 DEF Meeting, AtRest, Rest, ForClient, ClientAt
  <2>. QED
    BY <1>1, <1>2, <2>1
<1>4. Same(c.bit + 1) /\ pend.client = {IF Bit = 1 THEN "USR2" ELSE "USR1"} /\ c.usr1 = "bit"
    BY <1>1, <1>3 DEF Meeting, InBlock, ClientAt
<1>. QED
    BY <1>1, <1>3, <1>4 DEF Comes

\* The client has the handlers that its place calls for.
LEMMA ClientAtKept ==
    ASSUME Types, OneTurn, ClientPlace, Meeting, [Next]_vars
    PROVE  ClientAt'
<1>. ClientTypes /\ ClientAt
    BY DEF Types, ClientPlace
<1> USE DEF ClientAt, Resting, Receiving, Waits, ClientRecords, ClientTypes, ClientLabels,
            clientEnded, serverEnded, Ended
<1>1. CASE blockSignals
    BY <1>1 DEF blockSignals, Client
<1>2. CASE serverIsNotReady
    BY <1>2 DEF serverIsNotReady, Client
<1>3. CASE suspendClient
    BY <1>3 DEF suspendClient, Client
<1>4. CASE serverIsReady
    BY <1>4 DEF serverIsReady, Client, Taken
<1>5. CASE setHandler0
    BY <1>5 DEF setHandler0, Client
<1>6. CASE setHandler1
    BY <1>6 DEF setHandler1, Client
<1>7. CASE requestBit
    BY <1>7 DEF requestBit, ToServer
<1>8. CASE recievedSize
    BY <1>8 DEF recievedSize, Client
<1>9. CASE recievedBuffer
    BY <1>9 DEF recievedBuffer, Client
<1>10. CASE restoreWaitHandler
    BY <1>10 DEF restoreWaitHandler, Client
<1>11. CASE confirm
    BY <1>11 DEF confirm, ToServer
<1>12. CASE killFails
    BY <1>12 DEF killFails, Client
<1>13. CASE writeOut
    BY <1>13 DEF writeOut
<1>14. CASE writtenOut
    BY <1>14 DEF writtenOut, Client
<1>15. CASE recieveWaitHandler
    BY <1>15 DEF recieveWaitHandler, ReachesClient, Woken
<1>16. CASE recieve0Handler
    BY <1>16 DEF recieve0Handler, recieveBit, ReachesClient, Woken
<1>17. CASE recieve1Handler
  <2>1. CASE c.usr2 = "bit"
    <3>1. recieveBit("USR2", 1) /\ 1 \in Binary
      BY <1>17, <2>1 DEF recieve1Handler, Binary
    <3>2. Types /\ OneTurn /\ ClientAt /\ Meeting /\ "USR2" = "USR2"
      BY DEF ClientPlace
    <3> HIDE DEF ClientAt, Receiving, Resting, ClientTypes, clientEnded, Types
    <3>3. /\ UNCHANGED <<c.phase, c.usr1, c.usr2>> /\ Woke /\ pend'.client \subseteq pend.client
          /\ ~clientEnded
      BY <3>1, <3>2, BitIsStored
    <3>4. Receiving
      BY <3>1, <3>2, BitComes DEF Comes
    <3>. QED
      BY <3>2, <3>3, <3>4 DEF Woke, ClientAt, Receiving, Resting, clientEnded
  <2>2. CASE c.usr2 # "bit"
    BY <1>17, <2>2 DEF recieve1Handler, ReachesClient
  <2>. QED
    BY <2>1, <2>2
<1>18. CASE childDeathHandler
    BY <1>18 DEF childDeathHandler
<1>19. CASE writeFails
    BY <1>19 DEF writeFails, Client
<1>20. CASE signalReady
  <2>1. Sent("USR1")
    BY <1>20, ReadyIsSent
  <2>2. c' = c /\ ("USR2" \in pend'.client => "USR2" \in pend.client)
    BY <2>1 DEF Sent
  <2>. QED
    BY <2>2
<1>21. CASE sendBit
  <2>1. s.pc = "send" /\ Sent(IF NextBit = 1 THEN "USR2" ELSE "USR1")
    BY <1>21, BitIsSent
  <2>2. c' = c /\ (clientEnded => pend'.client = pend.client)
    BY <2>1 DEF Sent
  <2>3. ~clientEnded => c.usr2 = "bit"
    BY <2>1 DEF Meeting, Sending
  <2>. QED
    BY <2>2, <2>3
<1>22. CASE sendWaitHandler
  <2>1. c' = c /\ pend'.client = pend.client
    BY <1>22 DEF sendWaitHandler, Types, OtherTypes
  <2>. QED
    BY <2>1
<1>23. CASE killed
    BY <1>23 DEF killed
<1>24. CASE UNCHANGED <<c, pend.client>>
    BY <1>24
<1>25. CASE askForDeathSignal \/ checkParent \/ activateSendHandlers \/ readFile \/ blockUsr1 \/
    clientIsNotReady \/ suspendServer \/ clientIsReady \/ parentDeathSignal \/ readFails
    BY <1>24, <1>25 DEF askForDeathSignal, checkParent, activateSendHandlers, readFile, blockUsr1,
       clientIsNotReady, suspendServer, clientIsReady, parentDeathSignal, readFails, Server, Taken
<1>. QED
    BY <1>1, <1>2, <1>3, <1>4, <1>5, <1>6, <1>7, <1>8, <1>9, <1>10, <1>11, <1>12, <1>13, <1>14,
       <1>15, <1>16, <1>17, <1>18, <1>19, <1>20, <1>21, <1>22, <1>23, <1>24, <1>25
       DEF Next, client, server, signals, vars

\* One bit more is not too many.
LEMMA OneBitMore ==
    ASSUME Types, OneTurn, ServerPlace, ClientPlace, Meeting, NEW sig, NEW bit \in Binary,
           recieveBit(sig, bit),
           (sig = "USR1" /\ c.usr1 = "bit") \/ sig = "USR2"
    PROVE  ClientBlock'
<1>1. /\ ~clientEnded /\ Woke /\ c'.bit = c.bit + 1 /\ Stored(bit)
      /\ UNCHANGED <<c.phase, c.written>>
    BY BitIsStored
<1>2. Comes(sig, bit)
    BY BitComes DEF ClientPlace
<1>3. /\ c.phase = "size" => c.bit + 1 <= SizeBits
      /\ c.phase = "data" => c.bit + 1 <= Block
  <2>1. CASE c.phase = "size"
    <3>1. (c.bit + 1 = s.bit /\ s.phase = "size") \/ c.bit + 1 = SizeBits
      BY <1>2, <2>1 DEF Comes, Same
    <3>. QED
      BY <2>1, <3>1 DEF ServerPlace, ServerBit, Types, ServerTypes, ServerRecords
  <2>2. CASE c.phase = "data"
    <3>1. (c.bit + 1 = s.bit /\ s.phase = "data") \/ c.bit + 1 = Len(s.buf)
      BY <1>2, <2>2 DEF Comes, Same
    <3>2. Block = Len(s.buf)
      BY <1>2, <2>2, SizesMeet DEF Comes, Meeting, InBlock, ServerPlace
    <3>3. Len(s.buf) \in Nat /\ s.bit \in Nat /\ (s.phase = "data" => s.bit < Len(s.buf))
      BY DEF ServerPlace, ServerBit, Types, ServerTypes, ServerRecords
    <3>. QED
      BY <2>2, <3>1, <3>2, <3>3
  <2>. QED
    BY <2>1, <2>2
<1>4. c.phase \in {"size", "data"} /\ c.pc \in Waits \cup {"request"}
    BY <1>2 DEF Comes, Receiving
<1>5. c'.pc # "write"
    BY <1>1, <1>4 DEF Woke, Waits
<1>6. c.phase = "data" => Block' = Block
    BY <1>1 DEF Stored, Block, ClientSize
<1>7. c.written <= Space /\ Whole(c.written)
    BY DEF ClientPlace, ClientBlock
<1>8. c'.bit <= ClientBits'
  <2>1. CASE c.phase = "size"
    BY <1>1, <1>3, <2>1 DEF ClientBits
  <2>2. CASE c.phase = "data"
    BY <1>1, <1>3, <1>6, <2>2 DEF ClientBits, Block
  <2>. QED
    BY <1>4, <2>1, <2>2
<1>. QED
    BY <1>1, <1>4, <1>5, <1>7, <1>8 DEF ClientBlock, Space

\* The client gets no more bits than its block has, and prints no more.
LEMMA ClientBlockKept ==
    ASSUME Types, OneTurn, ServerPlace, ClientPlace, Meeting, [Next]_vars
    PROVE  ClientBlock'
<1>. ClientTypes /\ ClientBlock /\ ClientAt
    BY DEF Types, ClientPlace
<1> USE DEF ClientBlock, ClientTypes, ClientRecords, ClientBits, ClientSize, Block
<1>1. CASE blockSignals
    BY <1>1 DEF blockSignals, Client
<1>2. CASE serverIsNotReady
    BY <1>2 DEF serverIsNotReady, Client
<1>3. CASE suspendClient
    BY <1>3 DEF suspendClient, Client
<1>4. CASE serverIsReady
    BY <1>4 DEF serverIsReady, Client, Taken
<1>5. CASE setHandler0
    BY <1>5 DEF setHandler0, Client
<1>6. CASE setHandler1
    BY <1>6 DEF setHandler1, Client
<1>7. CASE requestBit
    BY <1>7 DEF requestBit, ToServer
<1>8. CASE recievedSize
  <2>1. c' = [c EXCEPT !.phase = "data", !.bit = 0] /\ c.pc = "request" /\ c.phase = "size"
    BY <1>8 DEF recievedSize, Client
  <2>2. Block' = Block /\ Block \in Nat
    BY <2>1, BlockIs
  <2>3. ClientBits' = Block'
    BY <2>1
  <2> HIDE DEF Block, ClientBits
  <2>. QED
    BY <2>1, <2>2, <2>3
<1>9. CASE recievedBuffer
    BY <1>9 DEF recievedBuffer, Client
<1>10. CASE restoreWaitHandler
    BY <1>10 DEF restoreWaitHandler, Client
<1>11. CASE confirm
  <2>1. c' = [c EXCEPT !.pc = "write", !.written = 0] /\ c.phase = "data"
    BY <1>11 DEF confirm, ClientAt
  <2>2. Block' = Block /\ Block \in Nat
    BY <2>1, BlockIs
  <2>3. Whole(0) /\ Space \in Nat
    BY WholeFile, SpaceIs
  <2>4. c'.bit <= ClientBits'
    BY <2>1
  <2> HIDE DEF Block, ClientBits
  <2>. QED
    BY <2>1, <2>2, <2>3, <2>4
<1>12. CASE killFails
    BY <1>12 DEF killFails, Client
<1>13. CASE writeOut
  <2>1. PICK k : Written(k)
    BY <1>13, PieceIsWritten DEF ClientPlace
  <2>2. /\ c.pc = "write" /\ c.written + k \in Nat /\ c.written + k <= Block /\ Whole(c.written + k)
        /\ c' = [c EXCEPT !.written = c.written + k]
    BY <2>1 DEF Written
  <2>3. Block' = Block /\ Block \in Nat /\ Block <= Space /\ Space \in Nat
    BY <2>2, BlockIs, SpaceIs
  <2>4. c'.bit <= ClientBits' /\ c'.phase # "ready"
    BY <2>2 DEF ClientAt
  <2> HIDE DEF Block, ClientBits
  <2>. QED
    BY <2>2, <2>3, <2>4
<1>14. CASE writtenOut
  <2>1. /\ c.pc = "write" /\ c.phase = "data" /\ c.written >= Block
        /\ \/ c' = [c EXCEPT !.pc = "block", !.phase = "ready"]
           \/ c' = [c EXCEPT !.pc = "ok"]
    BY <1>14 DEF writtenOut, Client, ClientAt
  <2>2. Block' = Block /\ Block \in Nat /\ c.written \in Nat
    BY <2>1, BlockIs
  <2>3. c'.bit <= ClientBits'
    BY <2>1
  <2>4. c'.written = c.written /\ c'.pc # "write"
    BY <2>1
  <2> HIDE DEF Block, ClientBits
  <2>5. c.written = Block /\ Whole(c.written) /\ c.written <= Space
    BY <2>1, <2>2
  <2> HIDE DEF ClientTypes
  <2>. QED
    BY <2>2, <2>3, <2>4, <2>5
<1>15. CASE recieveWaitHandler
    BY <1>15 DEF recieveWaitHandler, ReachesClient, Woken
<1>16. CASE recieve0Handler
  <2>1. recieveBit("USR1", 0) /\ c.usr1 = "bit" /\ 0 \in Binary
    BY <1>16 DEF recieve0Handler, Binary
  <2>. QED
    BY <2>1, OneBitMore
<1>17. CASE recieve1Handler
  <2>1. CASE c.usr2 = "bit"
    <3>1. recieveBit("USR2", 1) /\ 1 \in Binary
      BY <1>17, <2>1 DEF recieve1Handler, Binary
    <3>. QED
      BY <3>1, OneBitMore
  <2>2. CASE c.usr2 # "bit"
    BY <1>17, <2>2 DEF recieve1Handler, ReachesClient
  <2>. QED
    BY <2>1, <2>2
<1>18. CASE childDeathHandler
    BY <1>18 DEF childDeathHandler
<1>19. CASE writeFails
    BY <1>19 DEF writeFails, Client
<1>20. CASE killed
    BY <1>20 DEF killed
<1>21. CASE UNCHANGED c
    BY <1>21
<1>22. CASE server \/ sendWaitHandler \/ parentDeathSignal \/ readFails
    BY <1>21, <1>22, ServerLeaves
<1>. QED
    BY <1>1, <1>2, <1>3, <1>4, <1>5, <1>6, <1>7, <1>8, <1>9, <1>10, <1>11, <1>12, <1>13, <1>14,
       <1>15, <1>16, <1>17, <1>18, <1>19, <1>20, <1>21, <1>22 DEF Next, client, server, signals, vars

-----------------------------------------------------------------------------
(* Where they meet.                                                        *)

\* A bit is asked for only while the server has it to send.
LEMMA RequestMeets ==
    ASSUME Types, OneTurn, ServerPlace, ClientPlace, Meeting, c.pc = "request", BitsLeft
    PROVE  Receiving /\ c.phase = s.phase /\ Same(c.bit)
<1>1. c.phase \in {"ready", "size", "data"} /\ c.bit \in Nat
    BY DEF Types, ClientTypes, ClientRecords
<1>2. Receiving
    BY <1>1 DEF ClientPlace, ClientAt, Receiving
<1>3. Same(c.bit) /\ Got
    BY <1>2 DEF Meeting, InBlock, OneTurn, ClientTurn, ForClient
<1>4. c.phase = "size" => c.bit < SizeBits
    BY DEF BitsLeft, ClientBits
<1>5. c.phase = "data" => c.bit < Len(s.buf)
  <2>1. c.phase = "data" => Block = Len(s.buf)
    BY <1>3, SizesMeet DEF ServerPlace
  <2>. QED
    BY <2>1 DEF BitsLeft, ClientBits, Block
<1>6. c.phase = s.phase
    BY <1>1, <1>3, <1>4, <1>5 DEF Same
<1>. QED
    BY <1>2, <1>3, <1>6

\* When the client has all bits of the size, so has the server sent them.
LEMMA SizeMeets ==
    ASSUME Types, OneTurn, ServerPlace, ClientPlace, Meeting, c.pc = "request", ~BitsLeft, c.phase = "size"
    PROVE  /\ c.bit = SizeBits /\ Receiving /\ Got /\ Len(out) = Start /\ pend.client = {}
           /\ (s.phase = "data" /\ s.bit = 0) \/ (s.phase = "confirm" /\ s.buf = <<>>)
<1>1. c.bit \in Nat /\ c.bit <= SizeBits /\ ~(c.bit < SizeBits)
    BY DEF Types, ClientTypes, ClientRecords, ClientPlace, ClientBlock, BitsLeft, ClientBits
<1>2. c.bit = SizeBits
    BY <1>1
<1>3. Receiving
    BY DEF Receiving
<1>4. Same(c.bit) /\ Got /\ Len(out) = Start /\ pend.client = {}
    BY <1>3 DEF Meeting, InBlock, OneTurn, ClientTurn, ForClient
<1>5. s.phase = "size" => s.bit < SizeBits /\ s.bit \in Nat
    BY DEF ServerPlace, ServerBit, Types, ServerTypes, ServerRecords
<1>6. (s.phase = "data" /\ s.bit = 0) \/ (s.phase = "confirm" /\ s.buf = <<>>)
    BY <1>2, <1>4, <1>5 DEF Same
<1>. QED
    BY <1>2, <1>3, <1>4, <1>6

\* When it has all bits of the content, the server waits for the confirmation.
LEMMA ContentMeets ==
    ASSUME Types, OneTurn, ServerPlace, ClientPlace, Meeting, c.pc = "request", ~BitsLeft, c.phase = "data"
    PROVE  Got /\ Len(out) = Start /\ s.phase = "confirm" /\ c.bit = Len(s.buf)
<1>1. Receiving
    BY DEF Receiving
<1>2. Same(c.bit) /\ Got /\ Len(out) = Start
    BY <1>1 DEF Meeting, InBlock, OneTurn, ClientTurn, ForClient
<1>3. Block = Len(s.buf) /\ Len(s.buf) \in Nat
    BY <1>2, SizesMeet DEF ServerPlace, Types, ServerTypes, ServerRecords
<1>4. c.bit \in Nat /\ c.bit <= Block /\ ~(c.bit < Block)
    BY DEF Types, ClientTypes, ClientRecords, ClientPlace, ClientBlock, BitsLeft, ClientBits, Block
<1>5. s.phase = "data" => s.bit < Len(s.buf)
    BY DEF ServerPlace, ServerBit
<1>6. c.bit = Len(s.buf)
    BY <1>3, <1>4
<1>7. s.phase = "confirm"
    BY <1>2, <1>3, <1>4, <1>5, <1>6 DEF Same
<1>. QED
    BY <1>2, <1>6, <1>7

\* While they rest, steps that leave the two blocks alone change nothing.
RestKept ==
    /\ UNCHANGED <<out, c.written, c.size, c.buf, s.offset, s.buf>>
    /\ ForClient' => ForClient /\ pend'.client \subseteq pend.client /\ UNCHANGED <<s.phase, s.bit>>
    /\ s'.pc = "ready" => s.pc = "ready"
    /\ Unread' => Unread
    /\ Resting' => Resting
    /\ c'.pc = "write" => c.pc = "write"

\* So what is said of that time stays true.
LEMMA RestStays ==
    ASSUME AtRest, RestKept
    PROVE  AtRest'
<1>1. Resting' => Resting
    BY DEF RestKept
<1>2. ASSUME Rest PROVE Rest'
  <2>1. End' = End /\ Start' = Start /\ Block' = Block
    BY DEF RestKept, End, Start, Block, ClientSize
  <2>2. /\ End <= s.offset /\ c.written <= Len(out) /\ s.offset <= End + Space
        /\ UNCHANGED <<out, c.written, c.buf, s.offset>>
    BY <1>2 DEF Rest, RestKept
  <2>3. /\ ForClient' => pend'.client \subseteq {"USR1"} /\ s'.phase = "size" /\ s'.bit = 0
        /\ ForClient' \/ s'.pc = "ready" => End = Start
        /\ Unread' => End = s.offset
    BY <1>2 DEF Rest, RestKept
  <2>4. c'.pc = "write" =>
          /\ \A i \in 0 .. Block - 1 : c.buf[i] = File[Len(out) - c.written + i + 1]
          /\ Block = 0 => out = File
    BY <1>2 DEF Rest, RestKept
  <2>5. Space' = Space
    BY DEF Space, BufBytes
  <2>. QED
    BY <2>1, <2>2, <2>3, <2>4, <2>5 DEF Rest
<1>. QED
    BY <1>1, <1>2 DEF AtRest

\* A client that gets a bit does not rest.
LEMMA BitAwake ==
    ASSUME Types, OneTurn, ClientPlace, Meeting, NEW sig, NEW bit \in Binary, recieveBit(sig, bit),
           (sig = "USR1" /\ c.usr1 = "bit") \/ sig = "USR2"
    PROVE  AtRest'
<1>1. Receiving
    BY BitComes DEF Comes, ClientPlace
<1>2. Woke /\ UNCHANGED c.phase
    BY BitIsStored
<1>3. ~Resting'
    BY <1>1, <1>2 DEF Receiving, Resting, Woke, Waits
<1>. QED
    BY <1>3 DEF AtRest

\* With the confirmation the client has the block, and the server goes on.
LEMMA ConfirmRests ==
    ASSUME Types, OneTurn, ServerPlace, ClientPlace, Meeting, Printed, confirm
    PROVE  AtRest' /\ s.phase = "confirm" /\ (s.buf = <<>> => out = File) /\ Len(out) = Start
<1>1. /\ c.pc = "confirm" /\ ~serverEnded /\ UNCHANGED <<s, out>>
      /\ c' = [c EXCEPT !.pc = "write", !.written = 0] /\ UNCHANGED pend.client
    BY DEF confirm, ToServer, Types, OtherTypes
<1>2. /\ c'.pc = "write" /\ c'.written = 0 /\ UNCHANGED <<c.size, c.buf, c.phase, c.ready>> /\ c.phase = "data"
    BY <1>1 DEF Types, ClientTypes, ClientRecords, ClientPlace, ClientAt
<1>3. Len(out) = Start /\ Got /\ s.phase = "confirm" /\ c.bit = Len(s.buf)
    BY <1>1 DEF Meeting, Closing
<1>4. ~ForClient /\ ~ServerTurn
    BY <1>1 DEF OneTurn, ClientTurn
<1>5. Block = Len(s.buf) /\ ServerSize * CharBits = Len(s.buf)
    BY <1>2, <1>3, SizesMeet, ServerBitsAre DEF ServerPlace, Types
<1> DEFINE l == Len(s.buf)
           m == Len(out)
           o == s.offset
<1>6. /\ l \in Nat /\ m \in Nat /\ o \in Nat /\ m = o - l /\ l <= Space /\ l <= o /\ o <= Len(File)
      /\ Len(File) \in Nat /\ Space \in Nat /\ s.buf = Slice(m, o) /\ s.buf \in Seq(Binary)
    BY <1>3, SpaceIs, WholeFile DEF Types, ServerTypes, ServerRecords, OtherTypes, ServerPlace,
       ServerFile, Start
<1>7. s.buf = <<>> => o = Len(File)
  <2>1. s.pc \in Waits
    BY <1>1, <1>4 DEF Types, ServerTypes, ServerRecords, ServerLabels, ServerTurn, serverEnded, Waits
  <2>. QED
    BY <2>1 DEF ServerPlace, ServerFile
<1>8. s.buf = <<>> => out = File
  <2>1. ASSUME s.buf = <<>> PROVE out = File
    <3>1. l = 0
      BY <2>1, EmptySeq
    <3>2. m = Len(File)
      BY <1>6, <1>7, <2>1, <3>1
    <3>3. out = Slice(0, m)
      BY DEF Printed
    <3>. QED
      BY <3>2, <3>3, WholeSlice
  <2>. QED
    BY <2>1
<1>9. /\ End' = m - 0 + l /\ Block' = l /\ Start' = m /\ Space' = Space
    BY <1>1, <1>2, <1>3, <1>5 DEF End, Start, Block, ClientSize, Space, BufBytes
<1>10. ~ForClient' /\ s'.pc # "ready"
    BY <1>1, <1>2, <1>4 DEF ForClient, ServerTurn
<1>11. \A i \in 0 .. l - 1 : c.buf[i] = File[m - 0 + i + 1]
  <2>1. ASSUME NEW i \in 0 .. l - 1 PROVE c.buf[i] = File[m - 0 + i + 1]
    <3>1. c.buf[i] = s.buf[i + 1]
      BY <1>2, <1>3 DEF Got
    <3>2. \A k \in 1 .. o - m : s.buf[k] = File[m + k]
      <4> HIDE DEF l, m, o
      <4>1. m \in Nat /\ o \in Nat /\ m <= o /\ o <= Len(File)
        BY <1>6
      <4>2. \A k \in 1 .. o - m : Slice(m, o)[k] = File[m + k]
        BY <4>1, SliceIs
      <4>3. s.buf = Slice(m, o)
        BY <1>6
      <4>. QED
        BY <4>2, <4>3
    <3>3. i + 1 \in 1 .. o - m /\ m + (i + 1) = m - 0 + i + 1
      <4> HIDE DEF l, m, o
      <4>. QED
        BY <1>6
    <3>. QED
      BY <3>1, <3>2, <3>3
  <2>. QED
    BY <2>1
<1>12. l = 0 => s.buf = <<>>
    BY <1>6, EmptySeq
<1>13. Rest'
  <2>1. c'.written = 0 /\ c'.buf = c.buf /\ Len(out') = m /\ out' = out /\ s'.offset = o /\ s'.buf = s.buf
    BY <1>1, <1>2
  <2> HIDE DEF l, m, o
  <2>2. End' = o /\ Block' = l /\ Space' = Space
    BY <1>6, <1>9
  <2>3. End' <= s'.offset /\ 0 <= m /\ s'.offset <= End' + Space
    BY <1>6, <2>1, <2>2
  <2>4. l = 0 => out' = File
    BY <1>8, <1>12, <2>1
  <2>. QED
    BY <1>10, <1>11, <2>1, <2>2, <2>3, <2>4 DEF Rest
<1>. QED
    BY <1>3, <1>8, <1>13 DEF AtRest

\* What is written comes from the right place of the file.
LEMMA WriteIs ==
    ASSUME Types, ServerPlace, ClientPlace, Meeting, NEW k, Written(k)
    PROVE  /\ Len(out) \in Nat /\ k \in Nat \ {0} /\ Len(out) + k <= s.offset /\ s.offset <= Len(File)
           /\ Out(k) = Slice(Len(out), Len(out) + k)
           /\ Len(out') = Len(out) + k /\ out' = out \o Out(k)
<1>1. /\ c.pc = "write" /\ k \in Nat \ {0} /\ c.written \in Nat /\ c.written + k <= Block
      /\ out' = out \o Out(k)
    BY DEF Written
<1>2. Rest
    BY <1>1 DEF Meeting, AtRest, Resting
<1> DEFINE m == Len(out)
           w == c.written
           b == Block
           o == s.offset
           l == Len(File)
<1>3. /\ m \in Nat /\ w \in Nat /\ b \in Nat /\ o \in Nat /\ l \in Nat /\ o <= l
      /\ w + k <= b /\ w <= m /\ m - w + b <= o /\ k \in Nat \ {0}
    BY <1>1, <1>2, BlockIs, WholeFile
       DEF Types, OtherTypes, ServerTypes, ServerRecords, ServerPlace, ServerFile, Rest, End
<1>4. \A i \in 0 .. b - 1 : c.buf[i] = File[m - w + i + 1]
    BY <1>1, <1>2 DEF Rest
<1>5. Out(k) \in Seq(Binary) /\ Len(Out(k)) = k /\ \A i \in 1 .. k : Out(k)[i] = c.buf[w + i - 1]
    BY OutIs DEF Types
<1>6. out \in Seq(Binary)
    BY DEF Types, OtherTypes
<1>7. Len(out \o Out(k)) = m + k
    BY <1>5, <1>6, Joined
<1> HIDE DEF m, w, b, o, l
<1>8. m + k <= o /\ m + k \in Nat /\ m <= m + k /\ m + k <= l /\ (m + k) - m = k
    BY <1>3
<1>9. /\ Slice(m, m + k) \in Seq(Binary) /\ Len(Slice(m, m + k)) = (m + k) - m
      /\ \A i \in 1 .. (m + k) - m : Slice(m, m + k)[i] = File[m + i]
    BY <1>3, <1>8, SliceIs DEF l
<1>10. ASSUME NEW i \in 1 .. k PROVE Out(k)[i] = Slice(m, m + k)[i]
  <2>1. w + i - 1 \in 0 .. b - 1 /\ m - w + (w + i - 1) + 1 = m + i
    BY <1>3
  <2>2. Out(k)[i] = c.buf[w + i - 1]
    BY <1>5
  <2>3. c.buf[w + i - 1] = File[m - w + (w + i - 1) + 1]
    BY <1>4, <2>1
  <2>4. Slice(m, m + k)[i] = File[m + i]
    BY <1>8, <1>9
  <2>. QED
    BY <2>1, <2>2, <2>3, <2>4
<1>11. Len(Out(k)) = Len(Slice(m, m + k)) /\ \A i \in 1 .. Len(Out(k)) : Out(k)[i] = Slice(m, m + k)[i]
    BY <1>5, <1>8, <1>9, <1>10
<1>12. Out(k) = Slice(m, m + k)
    BY <1>5, <1>9, <1>11, SameSeq
<1>. QED
    BY <1>1, <1>3, <1>7, <1>8, <1>12 DEF m, o, l

\* The client writes on.
LEMMA WriteRests ==
    ASSUME Types, ServerPlace, ClientPlace, Meeting, writeOut
    PROVE  AtRest'
<1>1. PICK k : Written(k)
    BY PieceIsWritten DEF Types
<1>2. /\ c.pc = "write" /\ k \in Nat \ {0} /\ c.written \in Nat /\ c.written + k <= Block
      /\ c' = [c EXCEPT !.written = c.written + k] /\ UNCHANGED <<s, pend>>
    BY <1>1 DEF Written
<1>3. Rest
    BY <1>2 DEF Meeting, AtRest, Resting
<1>4. Len(out') = Len(out) + k /\ Len(out) \in Nat
    BY <1>1, WriteIs
<1>5. /\ c'.pc = "write" /\ c'.written = c.written + k /\ UNCHANGED <<c.ready, c.size, c.buf>>
    BY <1>2 DEF Types, ClientTypes, ClientRecords
<1>6. Block' = Block /\ Start' = Start /\ Space' = Space /\ Block \in Nat
    BY <1>2, <1>5, BlockIs DEF Block, ClientSize, Start, Space, BufBytes, Types
<1>7. Len(out') - c'.written = Len(out) - c.written
    BY <1>2, <1>4, <1>5
<1>8. End' = End /\ c'.written <= Len(out') /\ Block # 0
    BY <1>2, <1>3, <1>4, <1>5, <1>6, <1>7 DEF End, Rest
<1>9. ForClient' = ForClient /\ Unread' = Unread
    BY <1>2, <1>5 DEF ForClient, Unread, ForServer
<1>10. Rest'
  <2>1. /\ End <= s.offset /\ s.offset <= End + Space
        /\ ForClient => pend.client \subseteq {"USR1"} /\ s.phase = "size" /\ s.bit = 0
        /\ ForClient \/ s.pc = "ready" => End = Start
        /\ Unread => End = s.offset
    BY <1>3 DEF Rest
  <2>2. /\ End' <= s'.offset /\ s'.offset <= End' + Space'
        /\ ForClient' => pend'.client \subseteq {"USR1"} /\ s'.phase = "size" /\ s'.bit = 0
        /\ ForClient' \/ s'.pc = "ready" => End' = Start'
        /\ Unread' => End' = s'.offset
    BY <1>2, <1>6, <1>8, <1>9, <2>1
  <2>3. \A i \in 0 .. Block' - 1 : c'.buf[i] = File[Len(out') - c'.written + i + 1]
    <3>1. \A i \in 0 .. Block - 1 : c.buf[i] = File[Len(out) - c.written + i + 1]
      BY <1>2, <1>3 DEF Rest
    <3>. QED
      BY <1>5, <1>6, <1>7, <3>1
  <2>. QED
    BY <1>6, <1>8, <2>2, <2>3 DEF Rest
<1>. QED
    BY <1>10 DEF AtRest

\* What is said of the time between two blocks stays so.
LEMMA AtRestKept ==
    ASSUME Types, OneTurn, ServerPlace, ClientPlace, Meeting, Printed, [Next]_vars
    PROVE  AtRest'
<1>. AtRest /\ ClientAt
    BY DEF Meeting, ClientPlace
<1> USE DEF RestKept, ForClient, ForServer, Unread, Resting, Waits, Types, ClientTypes,
            ClientRecords, ServerTypes, ServerRecords, OtherTypes, OneTurn, ClientTurn, ServerTurn,
            ClientAt, Ended
<1>1. CASE blockSignals
  <2>1. RestKept
    BY <1>1 DEF blockSignals, Client
  <2>. QED
    BY <2>1, RestStays
<1>2. CASE serverIsNotReady
  <2>1. RestKept
    BY <1>2 DEF serverIsNotReady, Client
  <2>. QED
    BY <2>1, RestStays
<1>3. CASE suspendClient
  <2>1. RestKept
    BY <1>3 DEF suspendClient, Client
  <2>. QED
    BY <2>1, RestStays
<1>4. CASE serverIsReady
  <2>1. ~Resting'
    BY <1>4 DEF serverIsReady, Client, Taken
  <2>. QED
    BY <2>1 DEF AtRest
<1>5. CASE setHandler0
  <2>1. ~Resting'
    BY <1>5 DEF setHandler0, Client
  <2>. QED
    BY <2>1 DEF AtRest
<1>6. CASE setHandler1
  <2>1. ~Resting'
    BY <1>6 DEF setHandler1, Client
  <2>. QED
    BY <2>1 DEF AtRest
<1>7. CASE requestBit
  <2>1. ~Resting'
    BY <1>7 DEF requestBit, ToServer
  <2>. QED
    BY <2>1 DEF AtRest
<1>8. CASE recievedSize
  <2>1. ~Resting'
    BY <1>8 DEF recievedSize, Client
  <2>. QED
    BY <2>1 DEF AtRest
<1>9. CASE recievedBuffer
  <2>1. ~Resting'
    BY <1>9 DEF recievedBuffer, Client
  <2>. QED
    BY <2>1 DEF AtRest
<1>10. CASE restoreWaitHandler
  <2>1. ~Resting'
    BY <1>10 DEF restoreWaitHandler, Client
  <2>. QED
    BY <2>1 DEF AtRest
<1>11. CASE confirm
  <2>. QED
    BY <1>11, ConfirmRests
<1>12. CASE killFails
  <2>1. /\ c.pc \in {"request", "confirm"} /\ c' = [c EXCEPT !.pc = "failed"]
        /\ UNCHANGED <<s, pend, out>>
    BY <1>12 DEF killFails, Client
  <2>2. RestKept
    BY <2>1
  <2>. QED
    BY <2>2, RestStays
<1>13. CASE writeOut
  <2>. QED
    BY <1>13, WriteRests
<1>14. CASE writtenOut
  <2>1. RestKept
    BY <1>14 DEF writtenOut, Client
  <2>. QED
    BY <2>1, RestStays
<1>15. CASE recieveWaitHandler
  <2>1. RestKept
    BY <1>15 DEF recieveWaitHandler, ReachesClient, Woken
  <2>. QED
    BY <2>1, RestStays
<1>16. CASE recieve0Handler
  <2>1. recieveBit("USR1", 0) /\ c.usr1 = "bit" /\ 0 \in Binary
    BY <1>16 DEF recieve0Handler, Binary
  <2>. QED
    BY <2>1, BitAwake
<1>17. CASE recieve1Handler
  <2>1. CASE c.usr2 = "bit"
    <3>1. recieveBit("USR2", 1) /\ 1 \in Binary
      BY <1>17, <2>1 DEF recieve1Handler, Binary
    <3>. QED
      BY <3>1, BitAwake
  <2>2. CASE c.usr2 # "bit"
    <3>1. ~Resting'
      BY <1>17, <2>2 DEF recieve1Handler, ReachesClient
    <3>. QED
      BY <3>1 DEF AtRest
  <2>. QED
    BY <2>1, <2>2
<1>18. CASE childDeathHandler
  <2>1. RestKept
    BY <1>18 DEF childDeathHandler
  <2>. QED
    BY <2>1, RestStays
<1>19. CASE writeFails
  <2>1. RestKept
    BY <1>19 DEF writeFails, Client
  <2>. QED
    BY <2>1, RestStays
<1>20. CASE askForDeathSignal
  <2>1. RestKept
    BY <1>20 DEF askForDeathSignal, Server
  <2>. QED
    BY <2>1, RestStays
<1>21. CASE checkParent
  <2>1. RestKept
    BY <1>21 DEF checkParent, Server
  <2>. QED
    BY <2>1, RestStays
<1>22. CASE activateSendHandlers
  <2>1. RestKept
    BY <1>22 DEF activateSendHandlers, Server
  <2>. QED
    BY <2>1, RestStays
<1>23. CASE readFile
  <2>1. /\ s.pc = "read" /\ UNCHANGED <<c, pend, out>> /\ s'.pc = "ready"
        /\ s'.offset = s.offset + Taking /\ Len(s'.buf) = Taking /\ UNCHANGED <<s.phase, s.bit, s.ready>>
    <3>1. /\ s.pc = "read" /\ UNCHANGED <<c, pend, out>>
          /\ s' = [s EXCEPT !.pc = "ready", !.offset = s.offset + Taking,
                            !.buf = Slice(s.offset, s.offset + Taking)]
          /\ Len(Slice(s.offset, s.offset + Taking)) = Taking
      BY <1>23, BlockIsRead DEF ServerPlace, ServerFile
    <3>. QED
      BY <3>1
  <2>2. Taking \in Nat /\ Taking <= Space /\ s.offset \in Nat
    BY TakingIs DEF ServerPlace, ServerFile
  <2>3. SUFFICES ASSUME Resting' PROVE Rest'
    BY DEF AtRest
  <2>4. /\ Rest /\ Unread /\ ~ForServer /\ ~ForClient /\ ~ForClient' /\ ~Unread'
    BY <2>1, <2>3 DEF AtRest
  <2>5. /\ End' = End /\ Block' = Block /\ Space' = Space /\ Start' = s.offset + Taking - Taking
    BY <2>1 DEF End, Start, Block, ClientSize, Space, BufBytes
  <2>6. End = s.offset /\ End' <= s'.offset /\ s'.offset <= End' + Space /\ Start' = s.offset
    BY <2>1, <2>2, <2>4, <2>5, SpaceIs DEF Rest
  <2>. QED
    BY <2>1, <2>4, <2>5, <2>6 DEF Rest
<1>24. CASE signalReady
  <2>1. s.pc = "ready" /\ Sent("USR1") /\ s'.phase = "size" /\ s'.bit = 0
    BY <1>24, ReadyIsSent
  <2>2. SUFFICES ASSUME Resting' PROVE Rest'
    BY DEF AtRest
  <2>3. /\ UNCHANGED <<c, out, s.ready, s.buf, s.offset, pend.server>> /\ s'.pc = "block"
        /\ pend'.client = pend.client \cup {"USR1"} /\ Resting
    BY <2>1, <2>2 DEF Sent, clientEnded
  <2>4. /\ pend.client = {} /\ ~ForServer /\ Rest
    BY <2>1, <2>3 DEF AtRest
  <2>5. End' = End /\ Start' = Start /\ Block' = Block /\ Space' = Space
    BY <2>3 DEF End, Start, Block, ClientSize, Space, BufBytes
  <2>6. ~Unread'
    BY <2>1, <2>3, <2>4
  <2>. QED
    BY <2>1, <2>3, <2>4, <2>5, <2>6 DEF Rest
<1>25. CASE blockUsr1
  <2>1. RestKept
    BY <1>25 DEF blockUsr1, Server
  <2>. QED
    BY <2>1, RestStays
<1>26. CASE clientIsNotReady
  <2>1. RestKept
    BY <1>26 DEF clientIsNotReady, Server
  <2>. QED
    BY <2>1, RestStays
<1>27. CASE suspendServer
  <2>1. RestKept
    BY <1>27 DEF suspendServer, Server
  <2>. QED
    BY <2>1, RestStays
<1>28. CASE clientIsReady
  <2>1. RestKept
    BY <1>28 DEF clientIsReady, Server, Taken
  <2>. QED
    BY <2>1, RestStays
<1>29. CASE sendBit
  <2>1. s.pc = "send" /\ UNCHANGED c
    BY <1>29 DEF sendBit, Send
  <2>2. ~Resting'
    BY <2>1 DEF Meeting, Sending, Receiving, clientEnded
  <2>. QED
    BY <2>2 DEF AtRest
<1>30. CASE sendWaitHandler
  <2>1. RestKept
    BY <1>30 DEF sendWaitHandler, Woken
  <2>. QED
    BY <2>1, RestStays
<1>31. CASE parentDeathSignal
  <2>1. RestKept
    BY <1>31 DEF parentDeathSignal
  <2>. QED
    BY <2>1, RestStays
<1>32. CASE readFails
  <2>1. RestKept
    BY <1>32 DEF readFails, Server
  <2>. QED
    BY <2>1, RestStays
<1>33. CASE killed
  <2>1. CASE c' = [c EXCEPT !.pc = "killed"] /\ UNCHANGED <<s, pend, out>>
    <3>1. RestKept
      BY <2>1
    <3>. QED
      BY <3>1, RestStays
  <2>2. CASE s' = [s EXCEPT !.pc = "killed"] /\ UNCHANGED <<c, pend, out>>
    <3>1. RestKept
      BY <2>2
    <3>. QED
      BY <3>1, RestStays
  <2>. QED
    BY <1>33, <2>1, <2>2 DEF killed
<1>34. CASE UNCHANGED vars
  <2>1. RestKept
    BY <1>34 DEF vars
  <2>. QED
    BY <2>1, RestStays
<1>. QED
    BY <1>1, <1>2, <1>3, <1>4, <1>5, <1>6, <1>7, <1>8, <1>9, <1>10, <1>11, <1>12, <1>13, <1>14,
       <1>15, <1>16, <1>17, <1>18, <1>19, <1>20, <1>21, <1>22, <1>23, <1>24, <1>25, <1>26, <1>27,
       <1>28, <1>29, <1>30, <1>31, <1>32, <1>33, <1>34 DEF Next, client, server, signals, vars

-----------------------------------------------------------------------------
(* In a block.                                                             *)

Placed == Opening /\ InBlock /\ Closing

\* What is at each side of the block.
BlocksKept ==
    UNCHANGED <<out, c.phase, c.bit, c.size, c.buf, s.phase, s.bit, s.buf, s.offset>>

\* The places are the same while the blocks are.
LEMMA SameBlocks ==
    ASSUME BlocksKept
    PROVE  /\ Start' = Start /\ Bit' = Bit /\ (Got => Got')
           /\ (Same(c.bit) => Same(c.bit)') /\ (Same(c.bit + 1) => Same(c.bit + 1)')
<1>1. Start' = Start /\ Bit' = Bit
    BY DEF BlocksKept, Start, Bit, BitOf, ServerSize
<1>2. ServerSize' = ServerSize
    BY DEF BlocksKept, ServerSize
<1>3. Got => Got'
    BY <1>2 DEF BlocksKept, Got, BitOf
<1>4. (Same(c.bit) => Same(c.bit)') /\ (Same(c.bit + 1) => Same(c.bit + 1)')
    BY DEF BlocksKept, Same
<1>. QED
    BY <1>1, <1>3, <1>4

\* A step that sends and receives no bit.
Still ==
    /\ BlocksKept /\ pend'.client = pend.client
    /\ c'.pc \in {"handler0", "handler1"} => c.pc \in {"handler0", "handler1"}
    /\ c'.pc \in {"restore", "confirm"} => c.pc \in {"restore", "confirm"}
    /\ Receiving' => Receiving

\* It leaves the two where they are.
LEMMA StillThere ==
    ASSUME Placed, Still
    PROVE  Placed'
<1>1. /\ Start' = Start /\ Bit' = Bit /\ (Got => Got')
      /\ (Same(c.bit) => Same(c.bit)') /\ (Same(c.bit + 1) => Same(c.bit + 1)')
    BY SameBlocks DEF Still
<1>2. UNCHANGED <<out, c.bit, s.phase, s.bit, s.buf>> /\ pend'.client = pend.client
    BY DEF Still, BlocksKept
<1>3. Opening'
    BY <1>1, <1>2 DEF Placed, Still, Opening
<1>4. Closing'
    BY <1>1, <1>2 DEF Placed, Still, Closing
<1>5. InBlock'
    BY <1>1, <1>2 DEF Placed, Still, InBlock
<1>. QED
    BY <1>3, <1>4, <1>5 DEF Placed

\* A client that rests, or has ended, is in no block.
LEMMA RestingIsAway ==
    ASSUME c' = c, clientEnded \/ Resting
    PROVE  Placed'
<1>1. /\ c'.pc \notin {"handler0", "handler1", "restore", "confirm"} /\ ~Receiving'
    BY DEF clientEnded, Ended, Resting, Receiving, Waits
<1>. QED
    BY <1>1 DEF Placed, Opening, InBlock, Closing

\* The bit that the client gets next is one.
LEMMA BitIsBit ==
    ASSUME Types, ServerPlace, Receiving, Same(c.bit + 1)
    PROVE  Bit \in Binary
<1>1. c.bit \in Nat /\ s.bit \in Nat /\ Len(s.buf) \in Nat /\ s.buf \in Seq(Binary)
    BY DEF Types, ClientTypes, ClientRecords, ServerTypes, ServerRecords
<1>2. CASE c.phase = "size"
  <2>1. (c.bit + 1 = s.bit /\ s.bit < SizeBits) \/ c.bit + 1 = SizeBits
    BY <1>2 DEF Same, ServerPlace, ServerBit
  <2>2. c.bit \in 0 .. SizeBits
    BY <1>1, <2>1
  <2>3. ServerSize \in Nat
    BY ServerBitsAre DEF Types, ServerPlace
  <2>. QED
    BY <1>2, <2>2, <2>3, BitIs DEF Bit, Binary
<1>3. CASE c.phase = "data"
  <2>1. (c.bit + 1 = s.bit /\ s.bit < Len(s.buf)) \/ c.bit + 1 = Len(s.buf)
    BY <1>3 DEF Same, ServerPlace, ServerBit
  <2>2. c.bit + 1 \in 1 .. Len(s.buf)
    BY <1>1, <2>1
  <2>. QED
    BY <1>1, <1>3, <2>2 DEF Bit
<1>. QED
    BY <1>2, <1>3 DEF Receiving

\* A bit that arrives is the one the server sent, and is put in its place.
LEMMA BitPlaced ==
    ASSUME Types, OneTurn, ServerPlace, ClientPlace, Meeting, NEW sig, NEW bit \in Binary,
           recieveBit(sig, bit),
           (sig = "USR1" /\ c.usr1 = "bit" /\ bit = 0) \/ (sig = "USR2" /\ bit = 1)
    PROVE  Placed'
<1>1. /\ pend'.client = pend.client \ {sig} /\ UNCHANGED <<s, out>>
      /\ Woke /\ c'.bit = c.bit + 1 /\ Stored(bit) /\ UNCHANGED <<c.phase>>
    BY BitIsStored
<1>2. /\ Receiving /\ Same(c.bit + 1) /\ pend.client = {sig}
      /\ sig = IF Bit = 1 THEN "USR2" ELSE "USR1"
    BY BitComes DEF Comes, ClientPlace
<1>3. Bit = bit
  <2>1. Bit \in Binary
    BY <1>2, BitIsBit
  <2>. QED
    BY <1>2, <2>1 DEF Binary
<1>4. Len(out) = Start /\ Got
    BY <1>2 DEF Meeting, InBlock
<1>5. c.bit \in Nat /\ c.size \in Bits /\ c.buf \in [0 .. Space - 1 -> Binary]
    BY DEF Types, ClientTypes, ClientRecords
<1>6. c'.pc \in Waits \cup {"request"}
    BY <1>1, <1>2 DEF Receiving, Woke, Waits
<1>7. ServerSize' = ServerSize
    BY <1>1 DEF ServerSize
<1>8. Got'
  <2>1. CASE c.phase = "size"
    <3>1. c'.size = [c.size EXCEPT ![c.bit] = bit] /\ bit = BitOf(ServerSize, c.bit)
      BY <1>1, <1>3, <2>1 DEF Stored, Bit
    <3>2. ASSUME NEW i \in 0 .. SizeBits - 1, i < c.bit + 1 PROVE c'.size[i] = BitOf(ServerSize, i)
      <4>1. CASE i < c.bit
        BY <1>4, <1>5, <3>1, <4>1 DEF Got, Bits
      <4>2. CASE i = c.bit
        BY <1>5, <3>1, <4>2 DEF Bits
      <4>. QED
        BY <1>5, <3>2, <4>1, <4>2
    <3>. QED
      BY <1>1, <1>7, <2>1, <3>2 DEF Got, BitOf
  <2>2. CASE c.phase = "data"
    <3>1. c'.buf = [c.buf EXCEPT ![c.bit] = bit] /\ bit = s.buf[c.bit + 1] /\ c'.size = c.size
      BY <1>1, <1>3, <2>2 DEF Stored, Bit
    <3>2. c.bit \in 0 .. Space - 1
      <4>1. (c.bit + 1 = s.bit /\ s.bit < Len(s.buf)) \/ c.bit + 1 = Len(s.buf)
        BY <1>2, <2>2 DEF Same, ServerPlace, ServerBit
      <4>2. Len(s.buf) \in Nat /\ Len(s.buf) <= Space /\ Space \in Nat /\ s.bit \in Nat
        BY SpaceIs DEF ServerPlace, ServerFile, Types, ServerTypes, ServerRecords
      <4>. QED
        BY <1>5, <4>1, <4>2
    <3>3. ASSUME NEW i \in 0 .. (c.bit + 1) - 1 PROVE c'.buf[i] = s.buf[i + 1]
      <4>1. CASE i \in 0 .. c.bit - 1
        <5>1. c.buf[i] = s.buf[i + 1]
          BY <1>4, <2>2, <4>1 DEF Got
        <5>2. i # c.bit /\ i \in 0 .. Space - 1
          BY <1>5, <3>2, <4>1, SpaceIs
        <5>. QED
          BY <1>5, <3>1, <5>1, <5>2
      <4>2. CASE i = c.bit
        BY <1>5, <3>1, <3>2, <4>2
      <4>. QED
        BY <1>5, <4>1, <4>2
    <3>4. \A i \in 0 .. SizeBits - 1 : c.size[i] = BitOf(ServerSize, i)
      BY <1>4, <2>2 DEF Got
    <3>. QED
      BY <1>1, <1>7, <2>2, <3>1, <3>3, <3>4 DEF Got, BitOf
  <2>. QED
    BY <1>2, <2>1, <2>2 DEF Receiving
<1>9. Same(c.bit)' /\ Start' = Start /\ pend'.client = {}
    BY <1>1, <1>2 DEF Same, Start
<1>. QED
    BY <1>1, <1>4, <1>6, <1>8, <1>9 DEF Placed, Opening, InBlock, Closing, Waits

\* The bit that the server sends is the one the client has asked for.
LEMMA SentIsPlaced ==
    ASSUME Types, OneTurn, ServerPlace, ClientPlace, Meeting, sendBit
    PROVE  Placed'
<1>1. s.pc = "send" /\ Sent(IF NextBit = 1 THEN "USR2" ELSE "USR1")
    BY BitIsSent
<1>2. /\ s.bit + 1 < ServerBits => s'.bit = s.bit + 1 /\ s'.phase = s.phase
      /\ ~(s.bit + 1 < ServerBits) =>
            s'.bit = 0 /\ s'.phase = IF s.phase = "size" /\ ServerSize > 0 THEN "data" ELSE "confirm"
    BY BitIsSent
<1>3. UNCHANGED <<c, out, s.buf, s.offset>>
    BY <1>1 DEF Sent
<1>4. CASE clientEnded
    BY <1>3, <1>4, RestingIsAway
<1>5. CASE ~clientEnded
  <2>1. Receiving /\ c.phase = s.phase
    BY <1>1, <1>5 DEF Meeting, Sending
  <2>2. pend.client = {}
    BY <1>1 DEF OneTurn, ServerTurn, ForClient
  <2>3. Len(out) = Start /\ Got /\ Same(c.bit)
    BY <2>1, <2>2 DEF Meeting, InBlock
  <2>4. c.phase \in {"size", "data"} /\ c.pc \in Waits \cup {"request"}
    BY <2>1 DEF Receiving
  <2>5. c.bit = s.bit
    BY <2>1, <2>3, <2>4 DEF Same
  <2>6. Bit = NextBit
    BY <2>1, <2>5 DEF Bit, NextBit
  <2>7. pend'.client = {IF NextBit = 1 THEN "USR2" ELSE "USR1"}
    BY <1>1, <1>5, <2>2 DEF Sent
  <2>8. Bit' = Bit /\ Start' = Start /\ Got'
    <3>1. ServerSize' = ServerSize
      BY <1>3 DEF ServerSize
    <3>. QED
      BY <1>3, <2>3, <3>1 DEF Bit, Start, Got, BitOf
  <2>9. /\ s.bit \in Nat /\ Len(s.buf) \in Nat
        /\ s.phase = "size" => ServerBits = SizeBits /\ s.bit < SizeBits
        /\ s.phase = "data" => ServerBits = Len(s.buf) /\ s.bit < Len(s.buf)
        /\ ServerSize > 0 <=> Len(s.buf) > 0
    BY ServerBitsAre DEF ServerPlace, ServerBit, Types, ServerTypes, ServerRecords
  <2>10. s.buf \in Seq(Binary)
    BY DEF Types, ServerTypes, ServerRecords
  <2>11. ~(ServerSize > 0) => s.buf = <<>>
    BY <2>9, <2>10, EmptySeq
  <2>12. Same(c.bit + 1)'
    <3>1. CASE s.phase = "size"
      <4>1. CASE s.bit + 1 < SizeBits
        BY <1>2, <1>3, <2>1, <2>5, <2>9, <3>1, <4>1 DEF Same
      <4>2. CASE ~(s.bit + 1 < SizeBits)
        <5>1. s.bit + 1 = SizeBits
          BY <2>9, <3>1, <4>2
        <5>. QED
          BY <1>2, <1>3, <2>1, <2>5, <2>9, <2>11, <3>1, <4>2, <5>1 DEF Same
      <4>. QED
        BY <4>1, <4>2
    <3>2. CASE s.phase = "data"
      <4>1. CASE s.bit + 1 < Len(s.buf)
        BY <1>2, <1>3, <2>1, <2>5, <2>9, <3>2, <4>1 DEF Same
      <4>2. CASE ~(s.bit + 1 < Len(s.buf))
        <5>1. s.bit + 1 = Len(s.buf)
          BY <2>9, <3>2, <4>2
        <5>. QED
          BY <1>2, <1>3, <2>1, <2>5, <2>9, <3>2, <4>2, <5>1 DEF Same
      <4>. QED
        BY <4>1, <4>2
    <3>. QED
      BY <2>1, <2>4, <3>1, <3>2
  <2>13. c'.pc \notin {"handler0", "handler1", "restore", "confirm"}
    BY <1>3, <2>4 DEF Waits
  <2>. QED
    BY <1>3, <2>3, <2>6, <2>7, <2>8, <2>12, <2>13 DEF Placed, Opening, InBlock, Closing
<1>. QED
    BY <1>4, <1>5

\* Client and server are at the same place in the block, or one bit apart.
LEMMA PlacedKept ==
    ASSUME Types, OneTurn, ServerPlace, ClientPlace, Meeting, [Next]_vars
    PROVE  Placed'
<1>. AtRest /\ ClientAt /\ ClientBlock /\ Placed /\ Reading
    BY DEF Meeting, ClientPlace, Placed
<1> USE DEF Types, ClientTypes, ClientRecords, ServerTypes, ServerRecords, OtherTypes, Still,
            BlocksKept, ForClient, ForServer, Unread, Resting, Receiving, Waits, OneTurn, ClientTurn,
            ServerTurn, ClientAt, Ended
<1>1. CASE blockSignals
  <2>1. Still
    BY <1>1 DEF blockSignals, Client
  <2>. QED
    BY <2>1, StillThere
<1>2. CASE serverIsNotReady
  <2>1. Still
    BY <1>2 DEF serverIsNotReady, Client
  <2>. QED
    BY <2>1, StillThere
<1>3. CASE suspendClient
  <2>1. Still
    BY <1>3 DEF suspendClient, Client
  <2>. QED
    BY <2>1, StillThere
<1>4. CASE serverIsReady
  <2>1. CASE c.phase = "ready"
    <3>1. /\ c.pc = "test" /\ c.ready /\ c'.pc = "handler0" /\ c'.phase = "ready"
          /\ UNCHANGED <<s, pend, out>>
      BY <1>4, <2>1 DEF serverIsReady, Client, Taken
    <3>2. Rest /\ ForClient
      BY <2>1, <3>1 DEF AtRest
    <3>3. c.written = Block /\ Block \in Nat /\ Len(out) \in Nat
      BY <2>1, BlockIs DEF ClientBlock
    <3>4. s.phase = "size" /\ s.bit = 0 /\ Len(out) - c.written + Block = Start
      BY <3>2 DEF Rest, End
    <3>5. Len(out) = Start
      BY <3>3, <3>4
    <3>6. Opening'
      BY <3>1, <3>4, <3>5 DEF Opening, Start
    <3>. QED
      BY <3>1, <3>6 DEF Placed, InBlock, Closing
  <2>2. CASE c.phase # "ready"
    <3>1. Still
      BY <1>4, <2>2 DEF serverIsReady, Client, Taken
    <3>. QED
      BY <3>1, StillThere
  <2>. QED
    BY <2>1, <2>2
<1>5. CASE setHandler0
  <2>1. Still
    BY <1>5 DEF setHandler0, Client
  <2>. QED
    BY <2>1, StillThere
<1>6. CASE setHandler1
  <2>1. /\ c.pc = "handler1" /\ UNCHANGED <<s, pend, out>>
        /\ c'.pc = "request" /\ c'.phase = "size" /\ c'.bit = 0
    BY <1>6 DEF setHandler1, Client
  <2>2. s.phase = "size" /\ s.bit = 0 /\ Len(out) = Start /\ pend.client = {}
    BY <2>1 DEF Placed, Opening
  <2>3. Got' /\ Same(c.bit)' /\ Start' = Start
    BY <2>1, <2>2 DEF Got, Same, Start
  <2>. QED
    BY <2>1, <2>2, <2>3 DEF Placed, Opening, InBlock, Closing
<1>7. CASE requestBit
  <2>1. Still
    BY <1>7 DEF requestBit, ToServer
  <2>. QED
    BY <2>1, StillThere
<1>8. CASE recievedSize
  <2>1. /\ c.pc = "request" /\ ~BitsLeft /\ c.phase = "size" /\ UNCHANGED <<s, pend, out>>
        /\ c'.pc = "request" /\ c'.phase = "data" /\ c'.bit = 0 /\ UNCHANGED <<c.size, c.buf>>
    BY <1>8 DEF recievedSize, Client
  <2>2. /\ c.bit = SizeBits /\ Got /\ Len(out) = Start /\ pend.client = {}
        /\ (s.phase = "data" /\ s.bit = 0) \/ (s.phase = "confirm" /\ s.buf = <<>>)
    BY <2>1, SizeMeets
  <2>3. \A i \in 0 .. SizeBits - 1 : c.size[i] = BitOf(ServerSize, i)
    BY <2>2 DEF Got
  <2>4. Got'
    BY <2>1, <2>3 DEF Got, ServerSize, BitOf
  <2>5. Same(c.bit)' /\ Start' = Start
    BY <2>1, <2>2, EmptySeq DEF Same, Start
  <2>. QED
    BY <2>1, <2>2, <2>4, <2>5 DEF Placed, Opening, InBlock, Closing
<1>9. CASE recievedBuffer
  <2>1. /\ c.pc = "request" /\ ~BitsLeft /\ c.phase = "data" /\ UNCHANGED <<s, pend, out>>
        /\ c'.pc = "restore" /\ UNCHANGED <<c.phase, c.bit, c.size, c.buf>>
    BY <1>9 DEF recievedBuffer, Client
  <2>2. Got /\ Len(out) = Start /\ s.phase = "confirm" /\ c.bit = Len(s.buf)
    BY <2>1, ContentMeets
  <2>3. Got' /\ Start' = Start
    BY <2>1, <2>2, SameBlocks DEF BlocksKept
  <2>. QED
    BY <2>1, <2>2, <2>3 DEF Placed, Opening, InBlock, Closing
<1>10. CASE restoreWaitHandler
  <2>1. Still
    BY <1>10 DEF restoreWaitHandler, Client
  <2>. QED
    BY <2>1, StillThere
<1>11. CASE confirm
  <2>1. Still
    BY <1>11 DEF confirm, ToServer
  <2>. QED
    BY <2>1, StillThere
<1>12. CASE killFails
  <2>1. Still
    BY <1>12 DEF killFails, Client
  <2>. QED
    BY <2>1, StillThere
<1>13. CASE writeOut
  <2>1. c'.pc = "write"
    BY <1>13 DEF writeOut
  <2>. QED
    BY <2>1 DEF Placed, Opening, InBlock, Closing
<1>14. CASE writtenOut
  <2>1. (c'.pc = "block" /\ c'.phase = "ready") \/ c'.pc = "ok"
    BY <1>14 DEF writtenOut, Client
  <2>. QED
    BY <2>1 DEF Placed, Opening, InBlock, Closing
<1>15. CASE recieveWaitHandler
  <2>1. c'.pc \in {c.pc, "test"} /\ c'.phase = c.phase /\ c.usr1 = "wait" /\ pend.client # {} /\ ~clientEnded
    BY <1>15 DEF recieveWaitHandler, ReachesClient, Woken
  <2>2. ~Receiving
    BY <2>1
  <2>3. Resting
    BY <2>1, <2>2, ReachedIsWaiting
  <2>4. c'.pc = c.pc \/ (c.pc = "suspend" /\ c'.pc = "test")
    BY <1>15 DEF recieveWaitHandler, ReachesClient, Woken
  <2>. QED
    BY <2>1, <2>3, <2>4 DEF Placed, Opening, InBlock, Closing
<1>16. CASE recieve0Handler
  <2>1. recieveBit("USR1", 0) /\ c.usr1 = "bit" /\ 0 \in Binary
    BY <1>16 DEF recieve0Handler, Binary
  <2>. QED
    BY <2>1, BitPlaced
<1>17. CASE recieve1Handler
  <2>1. CASE c.usr2 = "bit"
    <3>1. recieveBit("USR2", 1) /\ 1 \in Binary
      BY <1>17, <2>1 DEF recieve1Handler, Binary
    <3>. QED
      BY <3>1, BitPlaced
  <2>2. CASE c.usr2 # "bit"
    <3>1. c'.pc = "terminated"
      BY <1>17, <2>2 DEF recieve1Handler, ReachesClient
    <3>. QED
      BY <3>1 DEF Placed, Opening, InBlock, Closing
  <2>. QED
    BY <2>1, <2>2
<1>18. CASE childDeathHandler
  <2>1. Still
    BY <1>18 DEF childDeathHandler
  <2>. QED
    BY <2>1, StillThere
<1>19. CASE writeFails
  <2>1. Still
    BY <1>19 DEF writeFails, Client
  <2>. QED
    BY <2>1, StillThere
<1>20. CASE askForDeathSignal
  <2>1. Still
    BY <1>20 DEF askForDeathSignal, Server
  <2>. QED
    BY <2>1, StillThere
<1>21. CASE checkParent
  <2>1. Still
    BY <1>21 DEF checkParent, Server
  <2>. QED
    BY <2>1, StillThere
<1>22. CASE activateSendHandlers
  <2>1. Still
    BY <1>22 DEF activateSendHandlers, Server
  <2>. QED
    BY <2>1, StillThere
<1>23. CASE readFile
  <2>1. c' = c /\ Unread
    BY <1>23 DEF readFile, Server
  <2>. QED
    BY <2>1, RestingIsAway DEF Reading
<1>24. CASE signalReady
  <2>1. c' = c /\ s.pc = "ready"
    BY <1>24, ReadyIsSent DEF Sent
  <2>. QED
    BY <2>1, RestingIsAway DEF Reading
<1>25. CASE blockUsr1
  <2>1. Still
    BY <1>25 DEF blockUsr1, Server
  <2>. QED
    BY <2>1, StillThere
<1>26. CASE clientIsNotReady
  <2>1. Still
    BY <1>26 DEF clientIsNotReady, Server
  <2>. QED
    BY <2>1, StillThere
<1>27. CASE suspendServer
  <2>1. Still
    BY <1>27 DEF suspendServer, Server
  <2>. QED
    BY <2>1, StillThere
<1>28. CASE clientIsReady
  <2>1. Still
    BY <1>28 DEF clientIsReady, Server, Taken
  <2>. QED
    BY <2>1, StillThere
<1>29. CASE sendBit
  <2>. QED
    BY <1>29, SentIsPlaced
<1>30. CASE sendWaitHandler
  <2>1. Still
    BY <1>30 DEF sendWaitHandler, Woken
  <2>. QED
    BY <2>1, StillThere
<1>31. CASE parentDeathSignal
  <2>1. Still
    BY <1>31 DEF parentDeathSignal
  <2>. QED
    BY <2>1, StillThere
<1>32. CASE readFails
  <2>1. Still
    BY <1>32 DEF readFails, Server
  <2>. QED
    BY <2>1, StillThere
<1>33. CASE killed
  <2>1. CASE c' = [c EXCEPT !.pc = "killed"] /\ UNCHANGED <<s, pend, out>>
    <3>1. Still
      BY <2>1
    <3>. QED
      BY <3>1, StillThere
  <2>2. CASE s' = [s EXCEPT !.pc = "killed"] /\ UNCHANGED <<c, pend, out>>
    <3>1. Still
      BY <2>2
    <3>. QED
      BY <3>1, StillThere
  <2>. QED
    BY <1>33, <2>1, <2>2 DEF killed
<1>34. CASE UNCHANGED vars
  <2>1. Still
    BY <1>34 DEF vars
  <2>. QED
    BY <2>1, StillThere
<1>. QED
    BY <1>1, <1>2, <1>3, <1>4, <1>5, <1>6, <1>7, <1>8, <1>9, <1>10, <1>11, <1>12, <1>13, <1>14,
       <1>15, <1>16, <1>17, <1>18, <1>19, <1>20, <1>21, <1>22, <1>23, <1>24, <1>25, <1>26, <1>27,
       <1>28, <1>29, <1>30, <1>31, <1>32, <1>33, <1>34 DEF Next, client, server, signals, vars

-----------------------------------------------------------------------------
(* Whose turn it is.                                                       *)

\* A bit does not find the server with anything to do.
LEMMA BitTurn ==
    ASSUME Types, OneTurn, NEW sig, NEW bit \in Binary, recieveBit(sig, bit)
    PROVE  ~ForServer' /\ ~ServerTurn'
<1>1. sig \in pend.client /\ pend'.server = pend.server /\ UNCHANGED s
    BY BitIsStored
<1>. QED
    BY <1>1 DEF OneTurn, ForClient, ForServer, ServerTurn

\* The server has something to send only to a client that receives.
LEMMA SendingKept ==
    ASSUME Types, OneTurn, ServerPlace, ClientPlace, Meeting, [Next]_vars
    PROVE  Sending'
<1>. ClientAt /\ Sending
    BY DEF ClientPlace, Meeting
<1> USE DEF Types, ClientTypes, ClientRecords, ServerTypes, ServerRecords, OtherTypes, ForClient,
            ForServer, Unread, Resting, Receiving, Waits, OneTurn, ClientTurn, ServerTurn, ClientAt,
            clientEnded, serverEnded, Ended, Sending
<1>1. CASE blockSignals
    BY <1>1 DEF blockSignals, Client
<1>2. CASE serverIsNotReady
    BY <1>2 DEF serverIsNotReady, Client
<1>3. CASE suspendClient
    BY <1>3 DEF suspendClient, Client
<1>4. CASE serverIsReady
    BY <1>4 DEF serverIsReady, Client, Taken
<1>5. CASE setHandler0
    BY <1>5 DEF setHandler0, Client
<1>6. CASE setHandler1
    BY <1>6 DEF setHandler1, Client
<1>7. CASE requestBit
  <2>1. /\ c.pc = "request" /\ BitsLeft /\ UNCHANGED s /\ c'.pc = "block" /\ UNCHANGED c.phase
    BY <1>7 DEF requestBit
  <2>2. Receiving /\ c.phase = s.phase
    BY <2>1, RequestMeets
  <2>. QED
    BY <2>1, <2>2 DEF Sending
<1>8. CASE recievedSize
    BY <1>8 DEF recievedSize, Client
<1>9. CASE recievedBuffer
    BY <1>9 DEF recievedBuffer, Client
<1>10. CASE restoreWaitHandler
    BY <1>10 DEF restoreWaitHandler, Client
<1>11. CASE confirm
  <2>1. c.pc = "confirm" /\ UNCHANGED s /\ c'.pc = "write"
    BY <1>11 DEF confirm
  <2>2. s.phase = "confirm"
    BY <2>1 DEF Meeting, Closing
  <2>. QED
    BY <2>1, <2>2 DEF Sending
<1>12. CASE killFails
    BY <1>12 DEF killFails, Client
<1>13. CASE writeOut
    BY <1>13 DEF writeOut
<1>14. CASE writtenOut
    BY <1>14 DEF writtenOut, Client
<1>15. CASE recieveWaitHandler
    BY <1>15 DEF recieveWaitHandler, ReachesClient, Woken
<1>16. CASE recieve0Handler
  <2>1. recieveBit("USR1", 0) /\ 0 \in Binary
    BY <1>16 DEF recieve0Handler, Binary
  <2>2. ~ForServer' /\ ~ServerTurn'
    BY <2>1, BitTurn
  <2>. QED
    BY <2>2 DEF Sending
<1>17. CASE recieve1Handler
  <2>1. CASE c.usr2 = "bit"
    <3>1. recieveBit("USR2", 1) /\ 1 \in Binary
      BY <1>17, <2>1 DEF recieve1Handler, Binary
    <3>2. ~ForServer' /\ ~ServerTurn'
      BY <3>1, BitTurn
    <3>. QED
      BY <3>2 DEF Sending
  <2>2. CASE c.usr2 # "bit"
    BY <1>17, <2>2 DEF recieve1Handler, ReachesClient, Sending
  <2>. QED
    BY <2>1, <2>2
<1>18. CASE childDeathHandler
    BY <1>18 DEF childDeathHandler
<1>19. CASE writeFails
    BY <1>19 DEF writeFails, Client
<1>20. CASE askForDeathSignal
    BY <1>20 DEF askForDeathSignal, Server
<1>21. CASE checkParent
    BY <1>21 DEF checkParent, Server
<1>22. CASE activateSendHandlers
    BY <1>22 DEF activateSendHandlers, Server
<1>23. CASE readFile
    BY <1>23 DEF readFile, Server
<1>24. CASE signalReady
  <2>1. s.pc = "ready" /\ Sent("USR1")
    BY <1>24, ReadyIsSent
  <2>. QED
    BY <2>1 DEF Sent, Sending
<1>25. CASE blockUsr1
    BY <1>25 DEF blockUsr1, Server
<1>26. CASE clientIsNotReady
    BY <1>26 DEF clientIsNotReady, Server
<1>27. CASE suspendServer
    BY <1>27 DEF suspendServer, Server
<1>28. CASE clientIsReady
    BY <1>28 DEF clientIsReady, Server, Taken
<1>29. CASE sendBit
  <2>1. s.pc = "send" /\ Sent(IF NextBit = 1 THEN "USR2" ELSE "USR1")
    BY <1>29, BitIsSent
  <2>. QED
    BY <2>1 DEF Sent, Sending
<1>30. CASE sendWaitHandler
    BY <1>30 DEF sendWaitHandler, Woken
<1>31. CASE parentDeathSignal
    BY <1>31 DEF parentDeathSignal
<1>32. CASE readFails
    BY <1>32 DEF readFails, Server
<1>33. CASE killed
  <2>1. CASE c' = [c EXCEPT !.pc = "killed"] /\ UNCHANGED <<s, pend, out>>
    BY <2>1 DEF Sending
  <2>2. CASE s' = [s EXCEPT !.pc = "killed"] /\ UNCHANGED <<c, pend, out>>
    BY <2>2 DEF Sending
  <2>. QED
    BY <1>33, <2>1, <2>2 DEF killed
<1>34. CASE UNCHANGED vars
    BY <1>34 DEF vars
<1>. QED
    BY <1>1, <1>2, <1>3, <1>4, <1>5, <1>6, <1>7, <1>8, <1>9, <1>10, <1>11, <1>12, <1>13, <1>14,
       <1>15, <1>16, <1>17, <1>18, <1>19, <1>20, <1>21, <1>22, <1>23, <1>24, <1>25, <1>26, <1>27,
       <1>28, <1>29, <1>30, <1>31, <1>32, <1>33, <1>34 DEF Next, client, server, signals, vars

\* The server reads while the client rests.
LEMMA ReadingKept ==
    ASSUME Types, OneTurn, ServerPlace, ClientPlace, Meeting, [Next]_vars
    PROVE  Reading'
<1>. ClientAt /\ Reading
    BY DEF ClientPlace, Meeting
<1> USE DEF Types, ClientTypes, ClientRecords, ServerTypes, ServerRecords, OtherTypes, ForClient,
            ForServer, Unread, Resting, Receiving, Waits, OneTurn, ClientTurn, ServerTurn, ClientAt,
            clientEnded, serverEnded, Ended, Reading
<1>1. CASE blockSignals
    BY <1>1 DEF blockSignals, Client
<1>2. CASE serverIsNotReady
    BY <1>2 DEF serverIsNotReady, Client
<1>3. CASE suspendClient
    BY <1>3 DEF suspendClient, Client
<1>4. CASE serverIsReady
    BY <1>4 DEF serverIsReady, Client, Taken
<1>5. CASE setHandler0
    BY <1>5 DEF setHandler0, Client
<1>6. CASE setHandler1
    BY <1>6 DEF setHandler1, Client
<1>7. CASE requestBit
  <2>1. /\ c.pc = "request" /\ BitsLeft /\ UNCHANGED s /\ c'.pc = "block" /\ UNCHANGED c.phase
    BY <1>7 DEF requestBit
  <2>2. Receiving /\ c.phase = s.phase
    BY <2>1, RequestMeets
  <2>. QED
    BY <2>1, <2>2 DEF Reading
<1>8. CASE recievedSize
    BY <1>8 DEF recievedSize, Client
<1>9. CASE recievedBuffer
    BY <1>9 DEF recievedBuffer, Client
<1>10. CASE restoreWaitHandler
    BY <1>10 DEF restoreWaitHandler, Client
<1>11. CASE confirm
  <2>1. c.pc = "confirm" /\ UNCHANGED s /\ c'.pc = "write"
    BY <1>11 DEF confirm
  <2>2. s.phase = "confirm"
    BY <2>1 DEF Meeting, Closing
  <2>. QED
    BY <2>1, <2>2 DEF Reading
<1>12. CASE killFails
    BY <1>12 DEF killFails, Client
<1>13. CASE writeOut
    BY <1>13 DEF writeOut
<1>14. CASE writtenOut
    BY <1>14 DEF writtenOut, Client
<1>15. CASE recieveWaitHandler
    BY <1>15 DEF recieveWaitHandler, ReachesClient, Woken
<1>16. CASE recieve0Handler
  <2>1. recieveBit("USR1", 0) /\ 0 \in Binary
    BY <1>16 DEF recieve0Handler, Binary
  <2>2. ~ForServer' /\ ~ServerTurn'
    BY <2>1, BitTurn
  <2>. QED
    BY <2>2 DEF Reading
<1>17. CASE recieve1Handler
  <2>1. CASE c.usr2 = "bit"
    <3>1. recieveBit("USR2", 1) /\ 1 \in Binary
      BY <1>17, <2>1 DEF recieve1Handler, Binary
    <3>2. ~ForServer' /\ ~ServerTurn'
      BY <3>1, BitTurn
    <3>. QED
      BY <3>2 DEF Reading
  <2>2. CASE c.usr2 # "bit"
    BY <1>17, <2>2 DEF recieve1Handler, ReachesClient, Reading
  <2>. QED
    BY <2>1, <2>2
<1>18. CASE childDeathHandler
    BY <1>18 DEF childDeathHandler
<1>19. CASE writeFails
    BY <1>19 DEF writeFails, Client
<1>20. CASE askForDeathSignal
    BY <1>20 DEF askForDeathSignal, Server
<1>21. CASE checkParent
    BY <1>21 DEF checkParent, Server
<1>22. CASE activateSendHandlers
    BY <1>22 DEF activateSendHandlers, Server
<1>23. CASE readFile
    BY <1>23 DEF readFile, Server
<1>24. CASE signalReady
  <2>1. s.pc = "ready" /\ Sent("USR1")
    BY <1>24, ReadyIsSent
  <2>. QED
    BY <2>1 DEF Sent, Reading
<1>25. CASE blockUsr1
    BY <1>25 DEF blockUsr1, Server
<1>26. CASE clientIsNotReady
    BY <1>26 DEF clientIsNotReady, Server
<1>27. CASE suspendServer
    BY <1>27 DEF suspendServer, Server
<1>28. CASE clientIsReady
    BY <1>28 DEF clientIsReady, Server, Taken
<1>29. CASE sendBit
  <2>1. s.pc = "send" /\ Sent(IF NextBit = 1 THEN "USR2" ELSE "USR1")
    BY <1>29, BitIsSent
  <2>. QED
    BY <2>1 DEF Sent, Reading
<1>30. CASE sendWaitHandler
    BY <1>30 DEF sendWaitHandler, Woken
<1>31. CASE parentDeathSignal
    BY <1>31 DEF parentDeathSignal
<1>32. CASE readFails
    BY <1>32 DEF readFails, Server
<1>33. CASE killed
  <2>1. CASE c' = [c EXCEPT !.pc = "killed"] /\ UNCHANGED <<s, pend, out>>
    BY <2>1 DEF Reading
  <2>2. CASE s' = [s EXCEPT !.pc = "killed"] /\ UNCHANGED <<c, pend, out>>
    BY <2>2 DEF Reading
  <2>. QED
    BY <1>33, <2>1, <2>2 DEF killed
<1>34. CASE UNCHANGED vars
    BY <1>34 DEF vars
<1>. QED
    BY <1>1, <1>2, <1>3, <1>4, <1>5, <1>6, <1>7, <1>8, <1>9, <1>10, <1>11, <1>12, <1>13, <1>14,
       <1>15, <1>16, <1>17, <1>18, <1>19, <1>20, <1>21, <1>22, <1>23, <1>24, <1>25, <1>26, <1>27,
       <1>28, <1>29, <1>30, <1>31, <1>32, <1>33, <1>34 DEF Next, client, server, signals, vars

-----------------------------------------------------------------------------
(* The output.                                                             *)

\* A step that does not read, print or confirm.
PrintKept ==
    /\ UNCHANGED <<out, s.offset>> /\ (Unread' => Unread)
    /\ c'.pc = "ok" \/ s'.pc = "ok" => c.pc = "ok" \/ s.pc = "ok"
    /\ ForServer' /\ s'.phase = "confirm" => ForServer /\ s.phase = "confirm" /\ UNCHANGED s.buf

\* It leaves what is said of the output true.
LEMMA PrintedStays ==
    ASSUME Printed, PrintKept
    PROVE  Printed'
<1>1. Space' = Space
    BY DEF Space, BufBytes
<1>. QED
    BY <1>1 DEF Printed, PrintKept, Slice

\* A bit prints nothing.
LEMMA BitPrints ==
    ASSUME Types, OneTurn, NEW sig, NEW bit \in Binary, recieveBit(sig, bit)
    PROVE  PrintKept
<1>1. /\ UNCHANGED <<s, out>> /\ pend'.server = pend.server /\ Woke /\ ~clientEnded
    BY BitIsStored
<1>2. ~ForServer' /\ ~ServerTurn'
    BY BitTurn
<1>. QED
    BY <1>1, <1>2 DEF PrintKept, Unread, ForServer, ServerTurn, Woke, clientEnded, Ended

\* What is printed is the next piece of the file.
LEMMA WritePrints ==
    ASSUME Types, ServerPlace, ClientPlace, Meeting, Printed, writeOut
    PROVE  Printed'
<1>1. PICK k : Written(k)
    BY PieceIsWritten DEF Types
<1>2. /\ Len(out) \in Nat /\ k \in Nat \ {0} /\ Len(out) + k <= s.offset /\ s.offset <= Len(File)
      /\ Out(k) = Slice(Len(out), Len(out) + k)
      /\ Len(out') = Len(out) + k /\ out' = out \o Out(k)
    BY <1>1, WriteIs
<1>3. c.pc = "write" /\ c' = [c EXCEPT !.written = c.written + k] /\ UNCHANGED <<s, pend>>
    BY <1>1 DEF Written
<1>4. c'.pc = "write"
    BY <1>3 DEF Types, ClientTypes, ClientRecords
<1> DEFINE m == Len(out)
           o == s.offset
           l == Len(File)
<1>5. /\ m \in Nat /\ o \in Nat /\ l \in Nat /\ m + k <= o /\ o <= l /\ Space \in Nat
      /\ o <= m + 2 * Space /\ (Unread => o <= m + Space) /\ out = Slice(0, m)
    BY <1>2, WholeFile, SpaceIs DEF Printed, Types, ServerTypes, ServerRecords
<1>6. out # File
  <2>1. out = File => m = l
    OBVIOUS
  <2> HIDE DEF m, o, l
  <2>. QED
    BY <1>2, <1>5, <2>1
<1>7. out' = Slice(0, m + k)
  <2>1. out' = Slice(0, m) \o Slice(m, m + k)
    BY <1>2, <1>5
  <2>2. 0 \in Nat /\ m + k \in Nat /\ 0 <= m /\ m <= m + k /\ m + k <= Len(File)
    <3> HIDE DEF m, o
    <3>. QED
      BY <1>2, <1>5
  <2> HIDE DEF m
  <2>3. Slice(0, m) \o Slice(m, m + k) = Slice(0, m + k)
    BY <1>5, <2>2, JoinSlices
  <2>. QED
    BY <2>1, <2>3
<1>8. Space' = Space /\ Unread' = Unread /\ ForServer' = ForServer /\ Len(out') = m + k /\ s' = s
    BY <1>2, <1>3 DEF Space, BufBytes, Unread, ForServer
<1>9. ~(c.pc = "ok" \/ s.pc = "ok") /\ ~(ForServer /\ s.phase = "confirm" /\ s.buf = <<>>)
    BY <1>6 DEF Printed
<1>10. m + k <= o /\ o <= (m + k) + 2 * Space /\ (Unread => o <= (m + k) + Space)
  <2> HIDE DEF m, o
  <2>. QED
    BY <1>2, <1>5
<1>11. out' = Slice(0, Len(out'))
    BY <1>7, <1>8
<1>. QED
    BY <1>4, <1>8, <1>9, <1>10, <1>11 DEF Printed, Slice

\* The output is the beginning of the file, two blocks behind at most.
LEMMA PrintedKept ==
    ASSUME Types, OneTurn, ServerPlace, ClientPlace, Meeting, Printed, [Next]_vars
    PROVE  Printed'
<1> USE DEF Types, ClientTypes, ClientRecords, ServerTypes, ServerRecords, OtherTypes, PrintKept,
            ForClient, ForServer, Unread, OneTurn, ClientTurn, ServerTurn, clientEnded, serverEnded,
            Ended
<1>1. CASE blockSignals
  <2>1. PrintKept
    BY <1>1 DEF blockSignals, Client
  <2>. QED
    BY <2>1, PrintedStays
<1>2. CASE serverIsNotReady
  <2>1. PrintKept
    BY <1>2 DEF serverIsNotReady, Client
  <2>. QED
    BY <2>1, PrintedStays
<1>3. CASE suspendClient
  <2>1. PrintKept
    BY <1>3 DEF suspendClient, Client
  <2>. QED
    BY <2>1, PrintedStays
<1>4. CASE serverIsReady
  <2>1. PrintKept
    BY <1>4 DEF serverIsReady, Client, Taken
  <2>. QED
    BY <2>1, PrintedStays
<1>5. CASE setHandler0
  <2>1. PrintKept
    BY <1>5 DEF setHandler0, Client
  <2>. QED
    BY <2>1, PrintedStays
<1>6. CASE setHandler1
  <2>1. PrintKept
    BY <1>6 DEF setHandler1, Client
  <2>. QED
    BY <2>1, PrintedStays
<1>7. CASE requestBit
  <2>1. /\ c.pc = "request" /\ BitsLeft /\ UNCHANGED <<s, out>> /\ c'.pc = "block"
    BY <1>7 DEF requestBit
  <2>2. c.phase = s.phase /\ c.phase # "confirm"
    BY <2>1, RequestMeets
  <2>3. PrintKept
    BY <2>1, <2>2
  <2>. QED
    BY <2>3, PrintedStays
<1>8. CASE recievedSize
  <2>1. PrintKept
    BY <1>8 DEF recievedSize, Client
  <2>. QED
    BY <2>1, PrintedStays
<1>9. CASE recievedBuffer
  <2>1. PrintKept
    BY <1>9 DEF recievedBuffer, Client
  <2>. QED
    BY <2>1, PrintedStays
<1>10. CASE restoreWaitHandler
  <2>1. PrintKept
    BY <1>10 DEF restoreWaitHandler, Client
  <2>. QED
    BY <2>1, PrintedStays
<1>11. CASE confirm
  <2>1. /\ c.pc = "confirm" /\ UNCHANGED <<s, out>> /\ c'.pc = "write"
    BY <1>11 DEF confirm
  <2>2. s.phase = "confirm" /\ (s.buf = <<>> => out = File) /\ Len(out) = Start
    BY <1>11, ConfirmRests
  <2>3. s.offset <= Len(out) + Space
    <3> DEFINE o == s.offset
               l == Len(s.buf)
    <3>1. o \in Nat /\ l \in Nat /\ l <= Space /\ Len(out) = o - l /\ Space \in Nat
      BY <2>2, SpaceIs DEF ServerPlace, ServerFile, Start
    <3> HIDE DEF o, l
    <3>2. o <= (o - l) + Space
      BY <3>1
    <3>. QED
      BY <3>1, <3>2 DEF o
  <2>. QED
    BY <2>1, <2>2, <2>3 DEF Printed, Space, BufBytes
<1>12. CASE killFails
  <2>1. PrintKept
    BY <1>12 DEF killFails, Client
  <2>. QED
    BY <2>1, PrintedStays
<1>13. CASE writeOut
  <2>. QED
    BY <1>13, WritePrints
<1>14. CASE writtenOut
  <2>1. CASE ClientSize > 0
    <3>1. PrintKept
      BY <1>14, <2>1 DEF writtenOut, Client
    <3>. QED
      BY <3>1, PrintedStays
  <2>2. CASE ~(ClientSize > 0)
    <3>1. c.pc = "write" /\ UNCHANGED <<s, pend, out>> /\ c' = [c EXCEPT !.pc = "ok"]
      BY <1>14, <2>2 DEF writtenOut, Client
    <3>2. Block = 0
      BY <2>2, BlockIs
    <3>3. out = File
      BY <3>1, <3>2 DEF Meeting, AtRest, Rest, Resting
    <3>. QED
      BY <3>1, <3>3 DEF Printed, Space, BufBytes
  <2>. QED
    BY <2>1, <2>2
<1>15. CASE recieveWaitHandler
  <2>1. PrintKept
    BY <1>15 DEF recieveWaitHandler, ReachesClient, Woken
  <2>. QED
    BY <2>1, PrintedStays
<1>16. CASE recieve0Handler
  <2>1. recieveBit("USR1", 0) /\ 0 \in Binary
    BY <1>16 DEF recieve0Handler, Binary
  <2>2. PrintKept
    BY <2>1, BitPrints
  <2>. QED
    BY <2>2, PrintedStays
<1>17. CASE recieve1Handler
  <2>1. CASE c.usr2 = "bit"
    <3>1. recieveBit("USR2", 1) /\ 1 \in Binary
      BY <1>17, <2>1 DEF recieve1Handler, Binary
    <3>2. PrintKept
      BY <3>1, BitPrints
    <3>. QED
      BY <3>2, PrintedStays
  <2>2. CASE c.usr2 # "bit"
    <3>1. /\ c'.pc = "terminated" /\ UNCHANGED <<s, out>> /\ ~clientEnded
          /\ pend'.server = pend.server
      BY <1>17, <2>2 DEF recieve1Handler, ReachesClient
    <3>2. PrintKept
      BY <3>1
    <3>. QED
      BY <3>2, PrintedStays
  <2>. QED
    BY <2>1, <2>2
<1>18. CASE childDeathHandler
  <2>1. PrintKept
    BY <1>18 DEF childDeathHandler
  <2>. QED
    BY <2>1, PrintedStays
<1>19. CASE writeFails
  <2>1. PrintKept
    BY <1>19 DEF writeFails, Client
  <2>. QED
    BY <2>1, PrintedStays
<1>20. CASE askForDeathSignal
  <2>1. PrintKept
    BY <1>20 DEF askForDeathSignal, Server
  <2>. QED
    BY <2>1, PrintedStays
<1>21. CASE checkParent
  <2>1. PrintKept
    BY <1>21 DEF checkParent, Server
  <2>. QED
    BY <2>1, PrintedStays
<1>22. CASE activateSendHandlers
  <2>1. PrintKept
    BY <1>22 DEF activateSendHandlers, Server
  <2>. QED
    BY <2>1, PrintedStays
<1>23. CASE readFile
  <2>1. /\ s.pc = "read" /\ UNCHANGED <<c, pend, out>> /\ s'.pc = "ready"
        /\ s'.offset = s.offset + Taking /\ UNCHANGED <<s.phase, s.ready>>
    <3>1. /\ s.pc = "read" /\ UNCHANGED <<c, pend, out>>
          /\ s' = [s EXCEPT !.pc = "ready", !.offset = s.offset + Taking,
                            !.buf = Slice(s.offset, s.offset + Taking)]
      BY <1>23, BlockIsRead DEF ServerPlace, ServerFile
    <3>. QED
      BY <3>1
  <2>2. Taking \in Nat /\ Taking <= Space /\ s.offset \in Nat /\ Space \in Nat /\ Len(out) \in Nat
    BY TakingIs, SpaceIs DEF ServerPlace, ServerFile
  <2>3. ~Unread' /\ ~ForServer' /\ Unread /\ s'.pc # "ok" /\ c' = c /\ out' = out
    BY <2>1
  <2>4. Len(out) <= s.offset /\ s.offset <= Len(out) + Space
    BY <2>3 DEF Printed
  <2>5. Len(out) <= s'.offset /\ s'.offset <= Len(out) + 2 * Space
    BY <2>1, <2>2, <2>4
  <2>. QED
    BY <2>3, <2>5 DEF Printed, Space, BufBytes
<1>24. CASE signalReady
  <2>1. s.pc = "ready" /\ Sent("USR1")
    BY <1>24, ReadyIsSent
  <2>2. PrintKept
    BY <2>1 DEF Sent
  <2>. QED
    BY <2>2, PrintedStays
<1>25. CASE blockUsr1
  <2>1. PrintKept
    BY <1>25 DEF blockUsr1, Server
  <2>. QED
    BY <2>1, PrintedStays
<1>26. CASE clientIsNotReady
  <2>1. PrintKept
    BY <1>26 DEF clientIsNotReady, Server
  <2>. QED
    BY <2>1, PrintedStays
<1>27. CASE suspendServer
  <2>1. PrintKept
    BY <1>27 DEF suspendServer, Server
  <2>. QED
    BY <2>1, PrintedStays
<1>28. CASE clientIsReady
  <2>1. s.ready /\ s.pc = "test" /\ UNCHANGED <<c, pend, out>> /\ ~s'.ready
    BY <1>28 DEF clientIsReady, Server, Taken
  <2>2. ~ForServer' /\ UNCHANGED <<s.offset, s.phase, s.buf>>
    BY <1>28, <2>1 DEF clientIsReady, Server, Taken
  <2>3. CASE s'.pc = "ok"
    <3>1. s.phase = "confirm" /\ ~(ServerSize > 0)
      BY <1>28, <2>3 DEF clientIsReady, Server, Taken
    <3>2. s.buf = <<>>
      BY <3>1, ServerBitsAre, EmptySeq DEF ServerPlace
    <3>3. out = File
      BY <2>1, <3>1, <3>2 DEF Printed
    <3>. QED
      BY <2>1, <2>2, <2>3, <3>3 DEF Printed, Space, BufBytes
  <2>4. CASE s'.pc # "ok"
    <3>1. Unread' => Unread
      BY <1>28, <2>1, <2>2 DEF clientIsReady, Server, Taken
    <3>2. PrintKept
      BY <2>1, <2>2, <2>4, <3>1
    <3>. QED
      BY <3>2, PrintedStays
  <2>. QED
    BY <2>3, <2>4
<1>29. CASE sendBit
  <2>1. s.pc = "send" /\ Sent(IF NextBit = 1 THEN "USR2" ELSE "USR1")
    BY <1>29, BitIsSent
  <2>2. PrintKept
    BY <2>1 DEF Sent
  <2>. QED
    BY <2>2, PrintedStays
<1>30. CASE sendWaitHandler
  <2>1. PrintKept
    BY <1>30 DEF sendWaitHandler, Woken
  <2>. QED
    BY <2>1, PrintedStays
<1>31. CASE parentDeathSignal
  <2>1. PrintKept
    BY <1>31 DEF parentDeathSignal
  <2>. QED
    BY <2>1, PrintedStays
<1>32. CASE readFails
  <2>1. PrintKept
    BY <1>32 DEF readFails, Server
  <2>. QED
    BY <2>1, PrintedStays
<1>33. CASE killed
  <2>1. CASE c' = [c EXCEPT !.pc = "killed"] /\ UNCHANGED <<s, pend, out>>
    <3>1. PrintKept
      BY <2>1
    <3>. QED
      BY <3>1, PrintedStays
  <2>2. CASE s' = [s EXCEPT !.pc = "killed"] /\ UNCHANGED <<c, pend, out>>
    <3>1. PrintKept
      BY <2>2
    <3>. QED
      BY <3>1, PrintedStays
  <2>. QED
    BY <1>33, <2>1, <2>2 DEF killed
<1>34. CASE UNCHANGED vars
  <2>1. PrintKept
    BY <1>34 DEF vars
  <2>. QED
    BY <2>1, PrintedStays
<1>. QED
    BY <1>1, <1>2, <1>3, <1>4, <1>5, <1>6, <1>7, <1>8, <1>9, <1>10, <1>11, <1>12, <1>13, <1>14,
       <1>15, <1>16, <1>17, <1>18, <1>19, <1>20, <1>21, <1>22, <1>23, <1>24, <1>25, <1>26, <1>27,
       <1>28, <1>29, <1>30, <1>31, <1>32, <1>33, <1>34 DEF Next, client, server, signals, vars

-----------------------------------------------------------------------------
(* The theorems.                                                           *)

\* At the start the server has not read anything, and the client has no block.
LEMMA InitHolds == Init => IInv
<1> SUFFICES ASSUME Init PROVE IInv
    OBVIOUS
<1>1. Types /\ OneTurn
    BY InitTypes, InitTurn
<1>2. /\ c.pc = "block" /\ c.phase = "ready" /\ c.usr1 = "wait" /\ c.ready = FALSE /\ c.bit = 0 /\ c.written = 0
      /\ c.size = [i \in 0 .. SizeBits - 1 |-> 0]
      /\ s.pc = "prctl" /\ s.phase = "size" /\ s.bit = 0 /\ s.buf = <<>> /\ s.offset = 0 /\ s.ready = FALSE
      /\ pend.client = {} /\ pend.server = {} /\ out = <<>>
    BY DEF Init
<1>3. Len(s.buf) = 0 /\ Len(out) = 0
    BY <1>2, EmptySeq
<1>4. Slice(0, 0) = <<>>
  <2>1. Slice(0, 0) \in Seq(Binary) /\ Len(Slice(0, 0)) = 0 - 0
    BY SliceIs, WholeFile
  <2>. QED
    BY <2>1, EmptySeq
<1>5. ServerPlace
    BY <1>2, <1>3, <1>4, WholeFile, SpaceIs DEF ServerPlace, ServerFile, ServerBit, Start, Waits
<1>6. ClientSize = 0 /\ Block = 0
  <2>1. c.size \in Bits
    BY <1>1 DEF Types, ClientTypes, ClientRecords
  <2>2. \A i \in 0 .. SizeBits - 1 : c.size[i] = BitOf(0, i)
    <3>1. ASSUME NEW i \in 0 .. SizeBits - 1 PROVE BitOf(0, i) = 0
      <4>1. weight[i] \in Nat \ {0}
        BY Weights
      <4> HIDE DEF weight
      <4>2. 0 \div weight[i] = 0
        BY <4>1, Quotient
      <4>. QED
        BY <4>2 DEF BitOf
    <3>. QED
      BY <1>2, <3>1
  <2>3. 0 \in 0 .. BufBytes
    BY SpaceIs
  <2>4. ClientSize = 0
    BY <2>1, <2>2, <2>3, NumberIs DEF ClientSize
  <2>. QED
    BY <1>1, <2>4, BlockIs DEF Types
<1>7. ClientPlace
  <2>1. ClientAt
    BY <1>2 DEF ClientAt, Waits, Resting, Receiving
  <2>2. ClientBlock
    BY <1>2, <1>6, WholeFile, SpaceIs DEF ClientBlock, ClientBits
  <2>. QED
    BY <2>1, <2>2 DEF ClientPlace
<1>8. Meeting
  <2>1. Resting /\ ~Receiving /\ ~ForClient /\ ~ForServer
    BY <1>2 DEF Resting, Receiving, Waits, ForClient, ForServer
  <2>2. Rest
    BY <1>2, <1>3, <1>6, <2>1, SpaceIs DEF Rest, End
  <2>. QED
    BY <1>2, <2>1, <2>2 DEF Meeting, AtRest, Opening, InBlock, Closing, Sending, Reading
<1>9. Printed
    BY <1>2, <1>3, <1>4, SpaceIs DEF Printed, ForServer
<1>. QED
    BY <1>1, <1>5, <1>7, <1>8, <1>9 DEF IInv

\* Every step keeps it.
LEMMA StepKeeps ==
    ASSUME IInv, [Next]_vars
    PROVE  IInv'
<1>1. Types' /\ OneTurn'
    BY ClientTypesKept, ServerTypesKept, OtherTypesKept, TurnKept DEF IInv, Types
<1>2. ServerPlace' /\ ClientPlace'
    BY ServerFileKept, ServerBitKept, ClientAtKept, ClientBlockKept DEF IInv, ServerPlace, ClientPlace
<1>3. Meeting'
    BY AtRestKept, PlacedKept, SendingKept, ReadingKept DEF IInv, Meeting, Placed
<1>4. Printed'
    BY PrintedKept DEF IInv
<1>. QED
    BY <1>1, <1>2, <1>3, <1>4 DEF IInv

\* Client and server stay in step, whatever the file and the size of the buffer, and
\* whoever is killed.
THEOREM Invariance == Spec => []IInv
<1>1. IInv /\ [Next]_vars => IInv'
    BY StepKeeps
<1>. QED
    BY <1>1, InitHolds, PTL DEF Spec

\* The buffers and counters stay in their bounds: no bit is put behind the size or
\* the block it belongs to, and no more is printed than the buffer holds.
THEOREM TypeCorrect == Spec => []TypeOK
<1>1. ASSUME IInv PROVE TypeOK
  <2>1. Types /\ c.bit <= ClientBits /\ c.written <= Space /\ s.offset <= Len(File) /\ Len(s.buf) <= Space
    BY <1>1 DEF IInv, ClientPlace, ClientBlock, ServerPlace, ServerFile
  <2>2. ClientBits \in Nat /\ Space \in Nat /\ Len(File) \in Nat
    BY <2>1, BlockIs, SpaceIs, WholeFile DEF Types, ClientBits, Block
  <2>3. c.bit \in 0 .. ClientBits /\ c.written \in 0 .. Space /\ s.offset \in 0 .. Len(File)
    BY <2>1, <2>2 DEF Types, ClientTypes, ClientRecords, ServerTypes, ServerRecords
  <2>4. c \in [pc : ClientLabels, phase : {"ready", "size", "data"},
               usr1 : {"wait", "bit"}, usr2 : {"default", "bit"}, mask : SUBSET Signals,
               ready : BOOLEAN, bit : 0 .. ClientBits, size : Bits,
               buf : [0 .. Space - 1 -> Binary], written : 0 .. Space]
    <3> DEFINE b == 0 .. ClientBits
               w == 0 .. Space
    <3> HIDE DEF b, w
    <3>1. c \in ClientRecords /\ c.bit \in b /\ c.written \in w
      BY <2>1, <2>3 DEF Types, ClientTypes, b, w
    <3>2. c \in [pc : ClientLabels, phase : {"ready", "size", "data"},
                 usr1 : {"wait", "bit"}, usr2 : {"default", "bit"}, mask : SUBSET Signals,
                 ready : BOOLEAN, bit : b, size : Bits,
                 buf : [0 .. Space - 1 -> Binary], written : w]
      BY <3>1 DEF ClientRecords
    <3>. QED
      BY <3>2 DEF b, w
  <2>5. s \in [pc : ServerLabels, phase : {"size", "data", "confirm"},
               handler : {"inherited", "send"}, pdeath : BOOLEAN, mask : SUBSET {"USR1"},
               ready : BOOLEAN, bit : Nat, buf : Seq(Binary), offset : 0 .. Len(File)]
    <3> DEFINE f == 0 .. Len(File)
    <3> HIDE DEF f
    <3>1. s \in ServerRecords /\ s.offset \in f
      BY <2>1, <2>3 DEF Types, ServerTypes, f
    <3>2. s \in [pc : ServerLabels, phase : {"size", "data", "confirm"},
                 handler : {"inherited", "send"}, pdeath : BOOLEAN, mask : SUBSET {"USR1"},
                 ready : BOOLEAN, bit : Nat, buf : Seq(Binary), offset : f]
      BY <3>1 DEF ServerRecords
    <3>. QED
      BY <3>2 DEF f
  <2>. QED
    BY <2>1, <2>4, <2>5 DEF TypeOK, Types, OtherTypes, Bits, Binary, Space
<1>. QED
    BY <1>1, Invariance, PTL

\* There is never more than one signal, pending or taken note of, that was not used
\* up: none is merged with another one.
THEOREM InStep == Spec => []LockStep
<1>1. IInv => LockStep
    BY TurnIsLockStep DEF IInv
<1>. QED
    BY <1>1, Invariance, PTL

\* A signal meets the handler it is meant for, although the ready signal and a bit
\* of 0 are the same signal and the handlers are swapped in every block.
THEOREM Handled == Spec => []RightHandler
<1>1. ASSUME IInv PROVE RightHandler
  <2> USE <1>1 DEF IInv
  <2>1. "USR2" \in pend.client => c.usr2 = "bit"
    BY DEF ClientPlace, ClientAt
  <2>2. pend.server # {} => s.handler = "send"
    BY DEF ServerPlace, ServerBit
  <2>3. ASSUME "USR1" \in pend.client, ~clientEnded
        PROVE  c.usr1 = "bit" <=> (s.phase # "size" \/ s.bit > 0)
    <3>1. Resting \/ Receiving
      BY <2>3, ReachedIsWaiting DEF ClientPlace
    <3>2. CASE Resting
      <4>1. c.usr1 = "wait" /\ s.phase = "size" /\ s.bit = 0
        BY <2>3, <3>2 DEF Meeting, AtRest, Rest, ForClient, ClientPlace, ClientAt
      <4>. QED
        BY <4>1
    <3>3. CASE Receiving
      <4>1. c.usr1 = "bit" /\ Same(c.bit + 1) /\ c.bit \in Nat
        BY <2>3, <3>3 DEF Meeting, InBlock, ClientPlace, ClientAt, Types, ClientTypes, ClientRecords
      <4>2. s.phase # "size" \/ s.bit > 0
        BY <4>1 DEF Same
      <4>. QED
        BY <4>1, <4>2
    <3>. QED
      BY <3>1, <3>2, <3>3
  <2>. QED
    BY <2>1, <2>2, <2>3 DEF RightHandler
<1>. QED
    BY <1>1, Invariance, PTL

\* Has one of them succeeded?
Succeeded == c.pc = "ok" \/ s.pc = "ok"

\* A process that has succeeded does nothing more.
LEMMA OkStays ==
    ASSUME Succeeded, [Next]_vars
    PROVE  Succeeded'
<1> USE DEF Succeeded, clientEnded, serverEnded, Ended
<1>1. CASE blockSignals
    BY <1>1 DEF blockSignals, Client
<1>2. CASE serverIsNotReady
    BY <1>2 DEF serverIsNotReady, Client
<1>3. CASE suspendClient
    BY <1>3 DEF suspendClient, Client
<1>4. CASE serverIsReady
    BY <1>4 DEF serverIsReady, Client, Taken
<1>5. CASE setHandler0
    BY <1>5 DEF setHandler0, Client
<1>6. CASE setHandler1
    BY <1>6 DEF setHandler1, Client
<1>7. CASE requestBit
    BY <1>7 DEF requestBit, ToServer
<1>8. CASE recievedSize
    BY <1>8 DEF recievedSize, Client
<1>9. CASE recievedBuffer
    BY <1>9 DEF recievedBuffer, Client
<1>10. CASE restoreWaitHandler
    BY <1>10 DEF restoreWaitHandler, Client
<1>11. CASE confirm
    BY <1>11 DEF confirm, ToServer
<1>12. CASE killFails
    BY <1>12 DEF killFails, Client
<1>13. CASE writeOut
    BY <1>13 DEF writeOut
<1>14. CASE writtenOut
    BY <1>14 DEF writtenOut, Client
<1>15. CASE recieveWaitHandler
    BY <1>15 DEF recieveWaitHandler, ReachesClient, Woken
<1>16. CASE recieve0Handler
    BY <1>16 DEF recieve0Handler, recieveBit, ReachesClient, Woken
<1>17. CASE recieve1Handler
    BY <1>17 DEF recieve1Handler, recieveBit, ReachesClient, Woken
<1>18. CASE childDeathHandler
    BY <1>18 DEF childDeathHandler
<1>19. CASE writeFails
    BY <1>19 DEF writeFails, Client
<1>20. CASE askForDeathSignal
    BY <1>20 DEF askForDeathSignal, Server
<1>21. CASE checkParent
    BY <1>21 DEF checkParent, Server
<1>22. CASE activateSendHandlers
    BY <1>22 DEF activateSendHandlers, Server
<1>23. CASE readFile
    BY <1>23 DEF readFile, Server
<1>24. CASE signalReady
    BY <1>24 DEF signalReady, Send
<1>25. CASE blockUsr1
    BY <1>25 DEF blockUsr1, Server
<1>26. CASE clientIsNotReady
    BY <1>26 DEF clientIsNotReady, Server
<1>27. CASE suspendServer
    BY <1>27 DEF suspendServer, Server
<1>28. CASE clientIsReady
    BY <1>28 DEF clientIsReady, Server, Taken
<1>29. CASE sendBit
    BY <1>29 DEF sendBit, Send
<1>30. CASE sendWaitHandler
    BY <1>30 DEF sendWaitHandler, Woken
<1>31. CASE parentDeathSignal
    BY <1>31 DEF parentDeathSignal
<1>32. CASE readFails
    BY <1>32 DEF readFails, Server
<1>33. CASE killed
    BY <1>33 DEF killed
<1>34. CASE UNCHANGED vars
    BY <1>34 DEF vars
<1>. QED
    BY <1>1, <1>2, <1>3, <1>4, <1>5, <1>6, <1>7, <1>8, <1>9, <1>10, <1>11, <1>12, <1>13, <1>14,
       <1>15, <1>16, <1>17, <1>18, <1>19, <1>20, <1>21, <1>22, <1>23, <1>24, <1>25, <1>26, <1>27,
       <1>28, <1>29, <1>30, <1>31, <1>32, <1>33, <1>34 DEF Next, client, server, signals, vars

\* Nothing else reads the file or prints.
LEMMA ReadOrWritten ==
    ASSUME Types, ~readFile, ~writeOut, [Next]_vars
    PROVE  UNCHANGED <<s.offset, out>>
<1> USE DEF Types, ServerTypes, ServerRecords
<1>1. CASE blockSignals
    BY <1>1 DEF blockSignals, Client
<1>2. CASE serverIsNotReady
    BY <1>2 DEF serverIsNotReady, Client
<1>3. CASE suspendClient
    BY <1>3 DEF suspendClient, Client
<1>4. CASE serverIsReady
    BY <1>4 DEF serverIsReady, Client, Taken
<1>5. CASE setHandler0
    BY <1>5 DEF setHandler0, Client
<1>6. CASE setHandler1
    BY <1>6 DEF setHandler1, Client
<1>7. CASE requestBit
    BY <1>7 DEF requestBit, ToServer
<1>8. CASE recievedSize
    BY <1>8 DEF recievedSize, Client
<1>9. CASE recievedBuffer
    BY <1>9 DEF recievedBuffer, Client
<1>10. CASE restoreWaitHandler
    BY <1>10 DEF restoreWaitHandler, Client
<1>11. CASE confirm
    BY <1>11 DEF confirm, ToServer
<1>12. CASE killFails
    BY <1>12 DEF killFails, Client
<1>13. CASE writtenOut
    BY <1>13 DEF writtenOut, Client
<1>14. CASE recieveWaitHandler
    BY <1>14 DEF recieveWaitHandler, ReachesClient, Woken
<1>15. CASE recieve0Handler
    BY <1>15 DEF recieve0Handler, recieveBit, ReachesClient, Woken
<1>16. CASE recieve1Handler
    BY <1>16 DEF recieve1Handler, recieveBit, ReachesClient, Woken
<1>17. CASE childDeathHandler
    BY <1>17 DEF childDeathHandler
<1>18. CASE writeFails
    BY <1>18 DEF writeFails, Client
<1>19. CASE askForDeathSignal
    BY <1>19 DEF askForDeathSignal, Server
<1>20. CASE checkParent
    BY <1>20 DEF checkParent, Server
<1>21. CASE activateSendHandlers
    BY <1>21 DEF activateSendHandlers, Server
<1>22. CASE signalReady
  <2>1. Sent("USR1")
    BY <1>22, ReadyIsSent
  <2>. QED
    BY <2>1 DEF Sent
<1>23. CASE blockUsr1
    BY <1>23 DEF blockUsr1, Server
<1>24. CASE clientIsNotReady
    BY <1>24 DEF clientIsNotReady, Server
<1>25. CASE suspendServer
    BY <1>25 DEF suspendServer, Server
<1>26. CASE clientIsReady
    BY <1>26 DEF clientIsReady, Server, Taken
<1>27. CASE sendBit
  <2>1. Sent(IF NextBit = 1 THEN "USR2" ELSE "USR1")
    BY <1>27, BitIsSent
  <2>. QED
    BY <2>1 DEF Sent
<1>28. CASE sendWaitHandler
    BY <1>28 DEF sendWaitHandler, Woken
<1>29. CASE parentDeathSignal
    BY <1>29 DEF parentDeathSignal
<1>30. CASE readFails
    BY <1>30 DEF readFails, Server
<1>31. CASE killed
    BY <1>31 DEF killed
<1>32. CASE UNCHANGED vars
    BY <1>32 DEF vars
<1>. QED
    BY <1>1, <1>2, <1>3, <1>4, <1>5, <1>6, <1>7, <1>8, <1>9, <1>10, <1>11, <1>12, <1>13, <1>14,
       <1>15, <1>16, <1>17, <1>18, <1>19, <1>20, <1>21, <1>22, <1>23, <1>24, <1>25, <1>26, <1>27,
       <1>28, <1>29, <1>30, <1>31, <1>32 DEF Next, client, server, signals, vars

\* Each step of the two is a step of one copy, or none.
LEMMA StepRefines ==
    ASSUME IInv, IInv', [Next]_vars
    PROVE  [Stream!Next]_(Stream!vars)
<1> USE DEF IInv
<1>1. ASSUME UNCHANGED <<s.offset, out>> PROVE [Stream!Next]_(Stream!vars)
  <2>1. CASE Succeeded' = Succeeded
    BY <1>1, <2>1 DEF Stream!vars, Succeeded
  <2>2. CASE Succeeded' # Succeeded
    <3>1. Succeeded'
      BY <2>2, OkStays DEF Succeeded
    <3>2. out' = File
      BY <3>1 DEF Succeeded, Printed
    <3>3. Stream!Finish
      BY <1>1, <3>1, <3>2 DEF Stream!Finish, Succeeded
    <3>. QED
      BY <3>3 DEF Stream!Next
  <2>. QED
    BY <2>1, <2>2
<1>2. CASE readFile
  <2>1. /\ s.pc = "read" /\ UNCHANGED <<c, pend, out>> /\ s'.pc = "ready" /\ s'.offset = s.offset + Taking
    BY <1>2, BlockIsRead DEF Types, ServerTypes, ServerRecords, ServerPlace, ServerFile
  <2>2. Taking \in Nat /\ s.offset \in Nat /\ s.offset + Taking <= Len(File) /\ Len(File) \in Nat
    BY TakingIs, WholeFile DEF Types, ServerPlace, ServerFile
  <2>3. CASE Taking = 0
    BY <1>1, <2>1, <2>2, <2>3
  <2>4. CASE Taking # 0
    <3>1. s'.offset \in s.offset + 1 .. Len(File)
      BY <2>1, <2>2, <2>4
    <3>2. s'.offset - Len(out) <= 2 * Space
      <4>1. s'.offset <= Len(out') + 2 * Space'
        BY DEF Printed
      <4>2. Space' = Space /\ Space \in Nat /\ Len(out) \in Nat /\ s'.offset \in Nat
        BY <2>1, <2>2, SpaceIs DEF Space, BufBytes, Types, OtherTypes
      <4>. QED
        BY <2>1, <4>1, <4>2
    <3>3. 2 * Space = 2 * BufBytes * CharBits
      BY SpaceIs DEF Space
    <3>4. Stream!Take
      BY <2>1, <3>1, <3>2, <3>3 DEF Stream!Take
    <3>. QED
      BY <3>4 DEF Stream!Next
  <2>. QED
    BY <2>3, <2>4
<1>3. CASE writeOut
  <2>1. PICK k : Written(k)
    BY <1>3, PieceIsWritten DEF Types
  <2>2. /\ Len(out) \in Nat /\ k \in Nat \ {0} /\ Len(out) + k <= s.offset /\ Len(out') = Len(out) + k
    BY <2>1, WriteIs
  <2>3. c.pc = "write" /\ c'.pc = "write" /\ UNCHANGED <<s, pend>>
    BY <2>1 DEF Written, Types, ClientTypes, ClientRecords
  <2>4. k \in 1 .. s.offset - Len(out)
    <3>1. s.offset \in Nat
      BY DEF Types, ServerTypes, ServerRecords
    <3>. QED
      BY <2>2, <3>1
  <2>5. out' = SubSeq(File, 1, Len(out) + k)
    <3>1. out' = Slice(0, Len(out'))
      BY DEF Printed, Slice
    <3>. QED
      BY <2>2, <3>1 DEF Slice
  <2>6. Stream!Emit
    BY <2>3, <2>4, <2>5 DEF Stream!Emit
  <2>. QED
    BY <2>6 DEF Stream!Next
<1>4. CASE ~readFile /\ ~writeOut
  <2>1. UNCHANGED <<s.offset, out>>
    BY <1>4, ReadOrWritten
  <2>. QED
    BY <1>1, <2>1
<1>. QED
    BY <1>2, <1>3, <1>4

\* The two processes are one copy of the file, bit by bit: whoever is killed, the
\* output is its beginning, at most two blocks are on their way, and either side
\* succeeds only when all of it is printed.
THEOREM Refinement == Spec => ImplementsStream
<1>1. Init => Stream!Init
    BY DEF Init, Stream!Init
<1>2. IInv /\ IInv' /\ [Next]_vars => [Stream!Next]_(Stream!vars)
    BY StepRefines
<1>. QED
    BY <1>1, <1>2, Invariance, PTL DEF Spec, ImplementsStream, Stream!Spec
=============================================================================
