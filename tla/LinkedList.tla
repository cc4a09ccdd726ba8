----------------------------- MODULE LinkedList -----------------------------
(***************************************************************************)
(* linkedlist/LinkedList.c: a circular doubly linked list around a         *)
(* sentinel, in a heap whose allocator may fail, may hand out again what   *)
(* was freed, and spoils what is freed.                                    *)
(*                                                                         *)
(* The caller is any caller that keeps to the assertions: it inserts       *)
(* before the end or before a value that is in the list, erases, reads and *)
(* writes values that are in the list, and stays between its ends.  It has *)
(* one list at a time.                                                     *)
(***************************************************************************)
EXTENDS Integers, Sequences, FiniteSets

CONSTANTS
    Nodes,   \* the addresses alloc() can return for a node
    Values,  \* ll_data_t
    SENT,    \* the address of the list, whose first member is the sentinel
    NULL

ASSUME ConstAssumption ==
    /\ IsFiniteSet(Nodes)
    /\ SENT \notin Nodes /\ NULL \notin Nodes \cup {SENT} \cup Values

Addrs == Nodes \cup {SENT}

VARIABLES
    heap,         \* the header and the value at each address
    allocated,    \* what alloc() has returned and free() has not got back
    pc,           \* "none" without a list, "ready", or in llDestroyNodes() for
                  \* "clear" or "destroy"
    it,           \* the iterator of llDestroyNodes()
    call,         \* the last call of the caller, with its arguments
    result        \* what it returned, NULL if it returns nothing

vars == <<heap, allocated, pc, it, call, result>>

\* Memory that was freed, or never written.
Junk == [next |-> NULL, prev |-> NULL, data |-> NULL]

-----------------------------------------------------------------------------
(* Pointers.                                                               *)

llEnd         == SENT
llIterNext(a) == heap[a].next
llIterPrev(a) == heap[a].prev
llBegin       == llIterNext(SENT)
llIsEmpty     == llBegin = llEnd

\* llInit()
Empty == [Junk EXCEPT !.next = SENT, !.prev = SENT]

\* A mistake: prev->next is forgotten when a node is linked in.
linkForwardNot(node, before, v) ==
    [heap EXCEPT ![node] = [next |-> before, prev |-> llIterPrev(before), data |-> v],
                 ![before].prev = node]

\* A mistake: the node is linked in, both ways, but after the iterator.
linkAfter(node, before, v) ==
    [heap EXCEPT ![node] = [next |-> llIterNext(before), prev |-> before, data |-> v],
                 ![llIterNext(before)].prev = node, ![before].next = node]

\* llInsert() once it has a node: prev->next = next->prev = node.
link(node, before, v) ==
    [heap EXCEPT ![node] = [next |-> before, prev |-> llIterPrev(before), data |-> v],
                 ![llIterPrev(before)].next = node, ![before].prev = node]

unlink(node) ==
    [heap EXCEPT ![llIterPrev(node)].next = llIterNext(node),
                 ![llIterNext(node)].prev = llIterPrev(node), ![node] = Junk]

\* A mistake: the successor is read after the node is freed.
SuccessorFreed(node) == heap'[node].next

\* llDestroyNodes() reads it first.
Successor(node) == llIterNext(node)

-----------------------------------------------------------------------------
(* The calls that change the list.                                        *)

\* The caller calls c of the list it has.
Called(c) == pc = "ready" /\ call' = c

\* alloc() fails.
noMemory == result' = NULL /\ UNCHANGED <<heap, allocated, pc, it>>

llCreateWithAllocator ==
    /\ pc = "none" /\ call' = <<"llCreate">>
    /\ \/ noMemory
       \/ /\ heap' = [heap EXCEPT ![SENT] = Empty]
          /\ allocated' = allocated \cup {SENT}
          /\ pc' = "ready" /\ it' = SENT
          /\ result' = SENT

\* llInsert(), whoever calls it.
insert(before, v) ==
    \/ noMemory
    \/ /\ \E node \in Nodes \ allocated :
             /\ heap' = link(node, before, v)
             /\ allocated' = allocated \cup {node}
             /\ result' = node
       /\ UNCHANGED <<pc, it>>

\* llErase() but for what it returns.
erase(node) ==
    /\ heap' = unlink(node)
    /\ allocated' = allocated \ {node}
    /\ UNCHANGED <<pc, it>>

llInsert(before, v) == Called(<<"llInsert", before, v>>) /\ insert(before, v)
llAppend(v)         == Called(<<"llAppend", v>>) /\ insert(llEnd, v)
llPrepend(v)        == Called(<<"llPrepend", v>>) /\ insert(llBegin, v)

llErase(node) == Called(<<"llErase", node>>) /\ erase(node) /\ result' = llIterNext(node)
llPopBack ==
    Called(<<"llPopBack">>) /\ ~llIsEmpty /\ erase(llIterPrev(llEnd)) /\ result' = NULL
llPopFront ==
    Called(<<"llPopFront">>) /\ ~llIsEmpty /\ erase(llBegin) /\ result' = NULL

\* The caller writes through the pointer of llIterDeref(), llFront() or llBack().
assign(node, v) ==
    /\ Called(<<"assign", node, v>>)
    /\ heap' = [heap EXCEPT ![node].data = v]
    /\ result' = NULL
    /\ UNCHANGED <<allocated, pc, it>>

-----------------------------------------------------------------------------
(* The calls that only look.                                               *)

nexts == [a \in Addrs |-> heap[a].next]
prevs == [a \in Addrs |-> heap[a].prev]

Stops(a) == a \in {SENT, NULL}

\* The nodes met from a on, in one direction, until the sentinel.
Walk(links, a) ==
    LET at[k \in 0 .. Cardinality(Nodes)] ==
            IF k = 0 THEN a
            ELSE LET x == at[k - 1] IN IF Stops(x) THEN x ELSE links[x]
        met == {k \in 1 .. Cardinality(Nodes) : ~Stops(at[k - 1])}
    IN  [k \in 1 .. Cardinality(met) |-> at[k - 1]]

\* What is read through the pointers the first three return.
llIterDeref(node) == heap[node].data
llFront           == llIterDeref(llBegin)
llBack            == llIterDeref(llIterPrev(llEnd))
llSize            == Len(Walk(nexts, llBegin))

\* What the caller has iterators of.
Held == allocated \ {SENT}

Returns(x) == result' = x /\ UNCHANGED <<heap, allocated, pc, it>>

iterate ==
    \/ Called(<<"llBegin">>) /\ Returns(llBegin)
    \/ Called(<<"llEnd">>) /\ Returns(llEnd)
    \/ \E node \in Held : Called(<<"llIterNext", node>>) /\ Returns(llIterNext(node))
    \/ \E node \in allocated :
          node # llBegin /\ Called(<<"llIterPrev", node>>) /\ Returns(llIterPrev(node))

query ==
    \/ \E node \in Held : Called(<<"llIterDeref", node>>) /\ Returns(llIterDeref(node))
    \/ ~llIsEmpty /\ Called(<<"llFront">>) /\ Returns(llFront)
    \/ ~llIsEmpty /\ Called(<<"llBack">>) /\ Returns(llBack)
    \/ Called(<<"llSize">>) /\ Returns(llSize)
    \/ Called(<<"llIsEmpty">>) /\ Returns(IF llIsEmpty THEN 1 ELSE 0)

-----------------------------------------------------------------------------
(* llClear() and llDestroy(): llDestroyNodes() frees one node a step.      *)

beginDestroy(for) ==
    /\ pc = "ready" /\ pc' = for
    /\ it' = llBegin /\ result' = NULL
    /\ UNCHANGED <<heap, allocated>>

destroyNode ==
    /\ pc \in {"clear", "destroy"} /\ it # SENT
    /\ allocated' = allocated \ {it}
    /\ heap' = [heap EXCEPT ![it] = Junk]
    /\ it' = Successor(it)
    /\ UNCHANGED <<pc, call, result>>

llClear ==
    \/ call' = <<"llClear">> /\ beginDestroy("clear")
    \/ /\ pc = "clear" /\ it = SENT
       /\ heap' = [heap EXCEPT ![SENT] = Empty]
       /\ pc' = "ready"
       /\ UNCHANGED <<allocated, it, call, result>>

\* With NULL for the list it does nothing.
llDestroy ==
    \/ call' = <<"llDestroy">> /\ beginDestroy("destroy")
    \/ /\ pc = "destroy" /\ it = SENT
       /\ heap' = [heap EXCEPT ![SENT] = Junk]
       /\ allocated' = allocated \ {SENT}
       /\ pc' = "none"
       /\ UNCHANGED <<it, call, result>>
    \/ pc = "none" /\ call' = <<"llDestroy">> /\ Returns(NULL)

Init ==
    /\ heap = [a \in Addrs |-> Junk]
    /\ allocated = {}
    /\ pc = "none" /\ it = SENT
    /\ call = <<>> /\ result = NULL

Next ==
    \/ llCreateWithAllocator
    \/ \E v \in Values :
          \/ llAppend(v) \/ llPrepend(v)
          \/ \E node \in allocated : llInsert(node, v)
          \/ \E node \in Held : assign(node, v)
    \/ \E node \in Held : llErase(node)
    \/ llPopBack \/ llPopFront
    \/ iterate \/ query
    \/ llClear \/ llDestroy \/ destroyNode

Spec == Init /\ [][Next]_vars

-----------------------------------------------------------------------------
\* Types, and the two directions are each other's inverse on the list: what
\* every pointer assignment of llInsert() and llErase() has to keep.
WellLinked ==
    /\ heap \in [Addrs -> [next : Addrs \cup {NULL}, prev : Addrs \cup {NULL},
                           data : Values \cup {NULL}]]
    /\ allocated \subseteq Addrs
    /\ pc \in {"none", "ready", "clear", "destroy"}
    /\ it \in Addrs
    /\ result \in Addrs \cup {NULL} \cup Values \cup 0 .. Cardinality(Nodes) \cup {0, 1}
    /\ pc = "ready" =>
          \A a \in allocated :
              /\ llIterNext(a) \in allocated /\ llIterPrev(llIterNext(a)) = a
              /\ llIterPrev(a) \in allocated /\ llIterNext(llIterPrev(a)) = a

Elements(s) == {s[k] : k \in DOMAIN s}

\* No node is used after it was freed, freed twice, or lost: what is allocated
\* is what a walk still meets, forwards and backwards, also in the middle of
\* llDestroyNodes(), and nothing is left of a list that is destroyed.
NothingLeaked ==
    /\ pc = "ready" => /\ Elements(Walk(nexts, llIterNext(SENT))) = Held
                       /\ Elements(Walk(prevs, llIterPrev(SENT))) = Held
    /\ pc \in {"clear", "destroy"} => Elements(Walk(nexts, it)) = Held
    /\ pc = "none" => allocated = {}

-----------------------------------------------------------------------------
Handle == IF pc \in {"ready", "clear"} THEN SENT ELSE NULL
Shown  == IF pc = "ready" THEN Walk(nexts, llBegin) ELSE <<>>
Meant  == [x \in Elements(Shown) |-> heap[x].data]

List == INSTANCE ListADT WITH
    Iters   <- Nodes,
    End     <- SENT,
    TheList <- SENT,
    handle  <- Handle,
    list    <- Shown,
    value   <- Meant

\* The pointers show the sequence the header promises after each call with its
\* arguments: a value is inserted before the iterator that was given, the value
\* of the iterator that was given is erased, the others keep their order and
\* their iterators, and every call returns the iterator, value, size or NULL
\* that belongs to it and to its argument.
ImplementsList == List!Spec
=============================================================================
