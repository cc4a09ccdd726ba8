------------------------------ MODULE ListADT ------------------------------
(***************************************************************************)
(* What linkedlist/LinkedList.h promises: a sequence of values that are    *)
(* known by their iterators.  An iterator keeps meaning the same value     *)
(* until that value is erased, whatever happens to the others.  A step is  *)
(* a call with its arguments and what it returns.                          *)
(***************************************************************************)
EXTENDS SequencesExt

CONSTANTS Iters, Values, End, TheList, NULL

VARIABLES
    handle,  \* the list the caller has, or NULL
    list,    \* the iterators of the values, in order
    value,   \* value[it], for the iterators in the list
    call,    \* the last call, with its arguments
    result   \* what it returned, NULL if it returns nothing

Before(it) == IF it = End THEN Len(list) + 1 ELSE CHOOSE k \in DOMAIN list : list[k] = it
At(k)      == IF k \in DOMAIN list THEN list[k] ELSE End

\* No value is in the list.
NoValue == [x \in {} |-> NULL]

Init ==
    /\ handle = NULL /\ list = <<>> /\ value = NoValue
    /\ call = <<>> /\ result = NULL

\* A call, with its arguments, of the list there is.
Called(c) == handle # NULL /\ call' = c /\ handle' = handle

\* There may be no memory for a list ...
Create ==
    /\ handle = NULL /\ call' = <<"llCreate">>
    /\ handle' \in {NULL, TheList} /\ result' = handle'
    /\ UNCHANGED <<list, value>>

\* ... or for a value.  "before which the new value will be inserted";
\* "iterator to the inserted value".
Insert(it, v) ==
    \/ \E new \in Iters \ ToSet(list) :
          /\ list' = InsertAt(list, Before(it), new)
          /\ value' = [x \in DOMAIN value \cup {new} |-> IF x = new THEN v ELSE value[x]]
          /\ result' = new
    \/ result' = NULL /\ UNCHANGED <<list, value>>

Erase(it) ==
    /\ list' = RemoveAt(list, Before(it))
    /\ value' = [x \in DOMAIN value \ {it} |-> value[x]]

Empty == list' = <<>> /\ value' = NoValue /\ result' = NULL

Assign(it, v) == value' = [value EXCEPT ![it] = v] /\ UNCHANGED list /\ result' = NULL

Answer(x) == result' = x /\ UNCHANGED <<list, value>>

Insertions ==
    \E v \in Values :
        \/ Called(<<"llAppend", v>>) /\ Insert(End, v)
        \/ Called(<<"llPrepend", v>>) /\ Insert(At(1), v)
        \/ \E it \in ToSet(list) \cup {End} : Called(<<"llInsert", it, v>>) /\ Insert(it, v)

\* "iterator for the value after the one that has been erased".
Erasures ==
    \/ \E it \in ToSet(list) :
          Called(<<"llErase", it>>) /\ Erase(it) /\ result' = At(Before(it) + 1)
    \/ list # <<>> /\ Called(<<"llPopFront">>) /\ Erase(At(1)) /\ result' = NULL
    \/ list # <<>> /\ Called(<<"llPopBack">>) /\ Erase(At(Len(list))) /\ result' = NULL

Iterations ==
    \/ Called(<<"llBegin">>) /\ Answer(At(1))
    \/ Called(<<"llEnd">>) /\ Answer(End)
    \/ \E it \in ToSet(list) : Called(<<"llIterNext", it>>) /\ Answer(At(Before(it) + 1))
    \/ \E it \in ToSet(list) \cup {End} :
          it # At(1) /\ Called(<<"llIterPrev", it>>) /\ Answer(At(Before(it) - 1))

Queries ==
    \/ \E it \in ToSet(list) : Called(<<"llIterDeref", it>>) /\ Answer(value[it])
    \/ list # <<>> /\ Called(<<"llFront">>) /\ Answer(value[At(1)])
    \/ list # <<>> /\ Called(<<"llBack">>) /\ Answer(value[At(Len(list))])
    \/ Called(<<"llSize">>) /\ Answer(Len(list))
    \/ Called(<<"llIsEmpty">>) /\ Answer(IF Len(list) = 0 THEN 1 ELSE 0)

Next ==
    \/ Create
    \/ Insertions \/ Erasures \/ Iterations \/ Queries
    \/ \E it \in ToSet(list), v \in Values : Called(<<"assign", it, v>>) /\ Assign(it, v)
    \/ Called(<<"llClear">>) /\ Empty
    \/ call' = <<"llDestroy">> /\ handle' = NULL /\ Empty

vars == <<handle, list, value, call, result>>

Spec == Init /\ [][Next]_vars
=============================================================================
