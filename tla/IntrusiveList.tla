---------------------------- MODULE IntrusiveList ----------------------------
(***************************************************************************)
(* The circular doubly linked lists of libcutils/list.c.  A list is the    *)
(* contents of the next and prev fields of its nodes: the head, and one    *)
(* node embedded in every item that can be on the list.  An item therefore *)
(* has room for one membership, and list_add_tail does not look whether    *)
(* that room is taken.                                                     *)
(***************************************************************************)
EXTENDS Naturals, Sequences

CONSTANTS
    Items,   \* what can be on the list
    Head0,   \* the list head
    Null     \* a pointer field of an item that was never on the list

ASSUME Distinct == Head0 \notin Items /\ Null \notin Items /\ Head0 # Null

Nodes == Items \cup {Head0}

ListType == [next : [Nodes -> Nodes \cup {Null}], prev : [Nodes -> Nodes \cup {Null}]]

(* list_init of the head; the items come from calloc.                      *)
ListInit ==
    [next |-> [x \in Nodes |-> IF x = Head0 THEN Head0 ELSE Null],
     prev |-> [x \in Nodes |-> IF x = Head0 THEN Head0 ELSE Null]]

ListEmpty(L) == L.next[Head0] = Head0

(* Mutant: the item is put at the front.                                   *)
ListAddFront(L, x) ==
    LET first == L.next[Head0]
    IN  [next |-> [[L.next EXCEPT ![x] = first] EXCEPT ![Head0] = x],
         prev |-> [[L.prev EXCEPT ![x] = Head0] EXCEPT ![first] = x]]

(* The four assignments of list_add_tail, in their order.                  *)
ListAddTail(L, x) ==
    LET last == L.prev[Head0]
    IN  [next |-> [[L.next EXCEPT ![x] = Head0] EXCEPT ![last] = x],
         prev |-> [[L.prev EXCEPT ![x] = last] EXCEPT ![Head0] = x]]

(* Mutants: one of the two assignments is missing.                         *)
RemoveNextOnly(L, x) == [L EXCEPT !.next[L.prev[x]] = L.next[x]]
RemovePrevOnly(L, x) == [L EXCEPT !.prev[L.next[x]] = L.prev[x]]

(* The two assignments of list_remove; the item keeps its own pointers.    *)
ListRemove(L, x) ==
    LET prev1 == [L.prev EXCEPT ![L.next[x]] = L.prev[x]]
    IN  [next |-> [L.next EXCEPT ![prev1[x]] = L.next[x]], prev |-> prev1]

-----------------------------------------------------------------------------
(* L is a well-formed list that holds the items of q, in this order, each  *)
(* of them once.                                                           *)
Represents(L, q) ==
    LET n == Len(q)
    IN  /\ \A i, j \in 1 .. n : q[i] = q[j] => i = j
        /\ L.next[Head0] = IF n = 0 THEN Head0 ELSE q[1]
        /\ L.prev[Head0] = IF n = 0 THEN Head0 ELSE q[n]
        /\ \A i \in 1 .. n :
              /\ L.next[q[i]] = IF i = n THEN Head0 ELSE q[i + 1]
              /\ L.prev[q[i]] = IF i = 1 THEN Head0 ELSE q[i - 1]

(* The node list_for_each is at after k steps.                             *)
NodeAt(L, k) ==
    LET at[i \in 0 .. k] ==
            IF i = 0 THEN Head0
            ELSE LET x == at[i - 1] IN IF x = Null THEN Null ELSE L.next[x]
    IN  at[k]

(* What list_for_each visits, cut off after `most' items in case it never  *)
(* comes back to the head.                                                 *)
Visited(L, most) ==
    LET n == CHOOSE k \in 0 .. most :
                 /\ \A i \in 1 .. k : NodeAt(L, i) \in Items
                 /\ k = most \/ NodeAt(L, k + 1) \notin Items
    IN  [i \in 1 .. n |-> NodeAt(L, i)]
=============================================================================
