------------------------------- MODULE VHeap -------------------------------
(***************************************************************************)
(* The queue of util/VHeap.h: a stack of elements for each key, and a      *)
(* binary heap (minisat/mtl/Heap.h) of the keys whose stack is not empty.  *)
(* A queue is a record with the members of the two classes:                *)
(*   elements   the stacks, by key                                         *)
(*   sz         the number of elements                                     *)
(*   heap       the array of the heap of keys; position j of the code is   *)
(*              index j+1 here                                             *)
(*   indices    for each key its position in the array, or -1              *)
(***************************************************************************)
EXTENDS Integers, Sequences

EmptyVHeap == [elements |-> [k \in {} |-> <<>>], sz |-> 0,
               heap |-> <<>>, indices |-> [k \in {} |-> -1]]

Pop(stack) == SubSeq(stack, 1, Len(stack) - 1)

\* percolateUp: the element at i rises to where its parent is no larger.
percolateUp(h, i) ==
    LET x == h[i]
        rise[j \in DOMAIN h] ==
          IF j = 1 \/ ~ (x < h[j \div 2]) THEN [h EXCEPT ![j] = x]
          ELSE [rise[j \div 2] EXCEPT ![j] = h[j \div 2]]
    IN  rise[i]

\* percolateDown: it sinks, each time below the smaller child.
percolateDown(h, i) ==
    LET x == h[i]
        child(j) == IF 2 * j < Len(h) /\ h[2 * j + 1] < h[2 * j] THEN 2 * j + 1 ELSE 2 * j
        sink[j \in DOMAIN h] ==
          IF 2 * j > Len(h) \/ ~ (h[child(j)] < x) THEN [h EXCEPT ![j] = x]
          ELSE [sink[child(j)] EXCEPT ![j] = h[child(j)]]
    IN  sink[i]

\* The positions after an operation has turned the array h into h2.
Moved(indices, h, h2) ==
    [k \in DOMAIN indices |->
       IF \E j \in DOMAIN h2 : h2[j] = k /\ (j > Len(h) \/ h[j] # k)
       THEN (CHOOSE j \in DOMAIN h2 : h2[j] = k) - 1
       ELSE indices[k]]

inHeap(v, key) == key \in DOMAIN v.indices /\ v.indices[key] >= 0

\* Heap::update, for a key that is in the heap or not.
update(v, key) ==
    LET i  == v.indices[key] + 1
        h2 == IF inHeap(v, key)
              THEN LET up == percolateUp(v.heap, i)
                   IN  percolateDown(up, Moved(v.indices, v.heap, up)[key] + 1)
              ELSE percolateUp(Append(v.heap, key), Len(v.heap) + 1)
        known == [k \in DOMAIN v.indices \cup 0 .. key |->
                    IF k \in DOMAIN v.indices THEN v.indices[k] ELSE -1]
    IN  [v EXCEPT !.heap = h2, !.indices = Moved(known, v.heap, h2)]

insert(v, key, x) ==
    LET w == update(v, key)
        grown == [k \in DOMAIN v.elements \cup 0 .. key |->
                    IF k \in DOMAIN v.elements THEN v.elements[k] ELSE <<>>]
    IN  [w EXCEPT !.sz = @ + 1, !.elements = [grown EXCEPT ![key] = Append(@, x)]]

level(v)   == v.heap[1]
peekMin(v) == v.elements[level(v)][Len(v.elements[level(v)])]

\* Heap::removeMin: the last key takes the place of the first.
removeKey(v) ==
    LET last == v.heap[Len(v.heap)]
        cut  == Pop([v.heap EXCEPT ![1] = last])
        h2   == IF Len(cut) > 1 THEN percolateDown(cut, 1) ELSE cut
        ind  == [[v.indices EXCEPT ![last] = 0] EXCEPT ![v.heap[1]] = -1]
    IN  [v EXCEPT !.heap = h2, !.indices = Moved(ind, cut, h2)]

removeMin(v) ==
    LET w == [v EXCEPT !.elements[level(v)] = Pop(@), !.sz = @ - 1]
    IN  IF w.elements[level(v)] = <<>> THEN removeKey(w) ELSE w

\* The stacks that are not empty.
Stacks(v) == [k \in {j \in DOMAIN v.elements : v.elements[j] # <<>>} |-> v.elements[k]]

=============================================================================
