------------------------------- MODULE ListC -------------------------------
(***************************************************************************)
(* The doubly linked lists of list.c and list.h, pointer by pointer.  A    *)
(* list's xListEnd is named by the list itself.  Each operation runs with  *)
(* interrupts or the scheduler held off by its caller and is one step; its *)
(* assignments are made in the order of the source.                        *)
(***************************************************************************)
EXTENDS Integers, Sequences

CONSTANTS ListIds, Ordered, Items, Values, NoList,
          EndValue          \* portMAX_DELAY

ASSUME ListAssumption ==
    /\ Ordered \subseteq ListIds
    /\ ListIds \cap Items = {} /\ NoList \notin ListIds
    /\ EndValue \in Nat /\ Values \subseteq 0 .. EndValue

VARIABLES pxNext, pxPrevious,     \* of items and of each list's end marker
          xItemValue,             \* of items
          pxContainer,            \* of items
          pxIndex, uxNumberOfItems  \* of lists

listVars == <<pxNext, pxPrevious, xItemValue, pxContainer, pxIndex, uxNumberOfItems>>

Nodes    == ListIds \cup Items
Val(v, n) == IF n \in ListIds THEN EndValue ELSE v[n]

(* vListInitialise on the lists, vListInitialiseItem on the items, whose   *)
(* links are not looked at before they join a list.                        *)
ListInit ==
    /\ pxNext = [n \in Nodes |-> n]
    /\ pxPrevious = [n \in Nodes |-> n]
    /\ xItemValue \in [Items -> Values]
    /\ pxContainer = [x \in Items |-> NoList]
    /\ pxIndex = [l \in ListIds |-> l]
    /\ uxNumberOfItems = [l \in ListIds |-> 0]

(* Link x in behind node n.                                                *)
LinkBehind(n, x) ==
    /\ pxNext' = [pxNext EXCEPT ![x] = pxNext[n], ![n] = x]
    /\ pxPrevious' = [pxPrevious EXCEPT ![x] = n, ![pxNext[n]] = x]

Joins(l, x) ==
    /\ pxContainer[x] = NoList
    /\ pxContainer' = [pxContainer EXCEPT ![x] = l]
    /\ uxNumberOfItems' = [uxNumberOfItems EXCEPT ![l] = @ + 1]

vListInsertEnd(l, x) ==
    LET i == pxIndex[l]
        p == pxPrevious[i]
    IN  /\ Joins(l, x)
        /\ pxNext' = [pxNext EXCEPT ![x] = i, ![p] = x]
        /\ pxPrevious' = [pxPrevious EXCEPT ![x] = p, ![i] = x]
        /\ UNCHANGED <<xItemValue, pxIndex>>

(* From the end marker on, past the values not larger; the largest value   *)
(* goes last without a search, which would run past the marker.            *)
PastValue(next, nodes, l, val, v) ==
    LET from[n \in nodes] == IF Val(val, next[n]) <= v THEN from[next[n]] ELSE n
    IN  from[l]

(* The nodes of list l.                                                    *)
Members(l) == {l} \cup {x \in Items : pxContainer[x] = l}

vListInsert(l, x, v) ==
    LET val == [xItemValue EXCEPT ![x] = v]
        last == IF v = EndValue THEN pxPrevious[l]
                ELSE PastValue(pxNext, Members(l), l, val, v)
    IN  /\ Joins(l, x)
        /\ xItemValue' = val
        /\ LinkBehind(last, x)
        /\ UNCHANGED pxIndex

(* Mutant: pxIndex stays on the item that goes.                            *)
uxListRemove_keeps_index(x) ==
    LET l == pxContainer[x]
        n == pxNext[x]
        p == pxPrevious[x]
    IN  /\ l # NoList
        /\ pxPrevious' = [pxPrevious EXCEPT ![n] = p]
        /\ pxNext' = [pxNext EXCEPT ![p] = n]
        /\ pxContainer' = [pxContainer EXCEPT ![x] = NoList]
        /\ uxNumberOfItems' = [uxNumberOfItems EXCEPT ![l] = @ - 1]
        /\ UNCHANGED <<xItemValue, pxIndex>>

uxListRemove(x) ==
    LET l == pxContainer[x]
        n == pxNext[x]
        p == pxPrevious[x]
    IN  /\ l # NoList
        /\ pxPrevious' = [pxPrevious EXCEPT ![n] = p]
        /\ pxNext' = [pxNext EXCEPT ![p] = n]
        /\ pxIndex' = [pxIndex EXCEPT ![l] = IF @ = x THEN p ELSE @]
        /\ pxContainer' = [pxContainer EXCEPT ![x] = NoList]
        /\ uxNumberOfItems' = [uxNumberOfItems EXCEPT ![l] = @ - 1]
        /\ UNCHANGED xItemValue

listGET_OWNER_OF_NEXT_ENTRY(l) ==
    LET n == pxNext[pxIndex[l]]
    IN  /\ uxNumberOfItems[l] > 0
        /\ pxIndex' = [pxIndex EXCEPT ![l] = IF n = l THEN pxNext[l] ELSE n]
        /\ UNCHANGED <<pxNext, pxPrevious, xItemValue, pxContainer, uxNumberOfItems>>

ListNext ==
    \/ \E l \in ListIds \ Ordered, x \in Items : vListInsertEnd(l, x)
    \/ \E l \in Ordered, x \in Items, v \in Values : vListInsert(l, x, v)
    \/ \E x \in Items : uxListRemove(x)
    \/ \E l \in ListIds \ Ordered : listGET_OWNER_OF_NEXT_ENTRY(l)

ListsSpec == ListInit /\ [][ListNext]_listVars

-----------------------------------------------------------------------------
(* Properties *)

(* The nodes met from list l's end marker on, following n links.           *)
Walk(next, l, n) ==
    LET node[i \in 0 .. n] == IF i = 0 THEN l ELSE next[node[i - 1]]
    IN  [i \in 1 .. n |-> node[i]]

(* The items of list l, as many as it counts.                              *)
Forward(l) == Walk(pxNext, l, uxNumberOfItems[l])

Position(s, n) == IF \E i \in 1 .. Len(s) : s[i] = n
                  THEN CHOOSE i \in 1 .. Len(s) : s[i] = n ELSE 0

(* The pointers make the sequences the scheduler reasons with: every       *)
(* insertion, removal and step of pxIndex does to them what Lists says,    *)
(* for equal values, the largest value, and removal of the item under      *)
(* pxIndex included.                                                       *)
Abstract == INSTANCE ListSpec WITH
    seqs  <- [l \in ListIds |-> [items |-> Forward(l),
                                 index |-> Position(Forward(l), pxIndex[l])]],
    value <- xItemValue
ImplementsLists == Abstract!Spec
=============================================================================
