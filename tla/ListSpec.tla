------------------------------ MODULE ListSpec ------------------------------
(***************************************************************************)
(* What the kernel expects of its lists: sequences that items join and     *)
(* leave by the operators of Lists.  A list of Ordered is only ever filled *)
(* by vListInsert and its pxIndex never moves; the others are filled at    *)
(* the end and walked.                                                     *)
(***************************************************************************)
EXTENDS Lists

CONSTANTS ListIds, Ordered, Items, Values

VARIABLES seqs,      \* each list, as in Lists
          value      \* each item's xItemValue

Free == {x \in Items : \A l \in ListIds : ~Contains(seqs[l].items, x)}

Init ==
    /\ seqs = [l \in ListIds |-> vListInitialise]
    /\ value \in [Items -> Values]

InsertEnd ==
    \E l \in ListIds \ Ordered, x \in Free :
        seqs' = [seqs EXCEPT ![l] = vListInsertEnd(@, x)] /\ UNCHANGED value

Insert ==
    \E l \in Ordered, x \in Free, v \in Values :
        LET w == [value EXCEPT ![x] = v]
        IN  /\ value' = w
            /\ seqs' = [seqs EXCEPT ![l].items = vListInsert(@, x, w)]

Take ==
    \E l \in ListIds : \E x \in ToSet(seqs[l].items) :
        seqs' = [seqs EXCEPT ![l] = uxListRemove(@, x)] /\ UNCHANGED value

Walk ==
    \E l \in ListIds \ Ordered :
        /\ seqs[l].items # <<>>
        /\ seqs' = [seqs EXCEPT ![l] = listGET_OWNER_OF_NEXT_ENTRY(@)]
        /\ UNCHANGED value

Next == InsertEnd \/ Insert \/ Take \/ Walk

Spec == Init /\ [][Next]_<<seqs, value>>
=============================================================================
