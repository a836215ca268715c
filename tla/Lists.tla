------------------------------- MODULE Lists -------------------------------
(***************************************************************************)
(* The kernel's lists (list.c, list.h), seen from outside: a list is the   *)
(* sequence of its items from the one after xListEnd on, and pxIndex is    *)
(* the position it points at, 0 standing for xListEnd.  ListC models the   *)
(* pointers behind this and is shown to implement it.                      *)
(***************************************************************************)
EXTENDS Integers, Sequences, SequencesExt

vListInitialise == [items |-> <<>>, index |-> 0]

(* The new item goes in front of the one pxIndex points at.                *)
vListInsertEnd(l, x) ==
    IF l.index = 0
    THEN [l EXCEPT !.items = Append(@, x)]
    ELSE [items |-> InsertAt(l.items, l.index, x), index |-> l.index + 1]

(* Where vListInsert stops: in front of the first item with a larger value *)
vListInsertPos(s, v, val) ==
    LET i == SelectInSeq(s, LAMBDA y : v[y] > val)
    IN  IF i = 0 THEN Len(s) + 1 ELSE i

(* Only lists whose pxIndex stays at xListEnd are kept in order of value.  *)
vListInsert(s, x, v) == InsertAt(s, vListInsertPos(s, v, v[x]), x)

(* pxIndex steps back when the item it points at goes.                     *)
uxListRemove(l, x) ==
    LET i == SelectInSeq(l.items, LAMBDA y : y = x)
    IN  IF i = 0 THEN l
        ELSE [items |-> RemoveAt(l.items, i),
              index |-> IF i <= l.index THEN l.index - 1 ELSE l.index]

(* pxIndex moves on to the next item, past xListEnd; its owner is wanted.  *)
listGET_OWNER_OF_NEXT_ENTRY(l) ==
    [l EXCEPT !.index = IF @ >= Len(l.items) THEN 1 ELSE @ + 1]
=============================================================================
