---------------------------- MODULE BoundedFifo ----------------------------
(***************************************************************************)
(* What a queue promises: a bounded sequence of items, put in at either    *)
(* end and taken from the front.  In one step every queue takes at most    *)
(* one item in or out: an item of a member of a queue set and the set's    *)
(* entry for it go in together, and a queue that catches up tells its set  *)
(* of several items.                                                       *)
(***************************************************************************)
EXTENDS Integers, Sequences, SequencesExt

CONSTANTS Ids, Items

VARIABLES seqs,      \* what is queued in each queue
          Length,    \* how much fits, which does not change
          out        \* what was last taken or looked at

vars == <<seqs, Length, out>>

Init == seqs = [x \in Ids |-> <<>>] /\ out \notin Items

PushBack(x) ==
    LET old == seqs[x]
        new == seqs'[x]
    IN  /\ Len(new) > Len(old) /\ Len(new) <= Length[x]
        /\ SubSeq(new, 1, Len(old)) = old
        /\ \A i \in Len(old) + 1 .. Len(new) : new[i] = Last(new) /\ new[i] \in Items
PushFront(x) ==
    /\ Len(seqs[x]) < Length[x]
    /\ seqs'[x] # <<>> /\ Head(seqs'[x]) \in Items /\ Tail(seqs'[x]) = seqs[x]
Overwrite(x) == Length[x] = 1 /\ seqs'[x] # <<>> /\ Head(seqs'[x]) \in Items
Pop(x)       == seqs[x] # <<>> /\ seqs'[x] = Tail(seqs[x]) /\ out' = Head(seqs[x])
Peek(x)      == seqs[x] # <<>> /\ seqs' = seqs /\ out' = Head(seqs[x])
Clear(x)     == seqs'[x] = <<>> /\ out' = out

Put(x) == PushBack(x) \/ PushFront(x) \/ Overwrite(x)

Next ==
    /\ DOMAIN seqs' = Ids
    /\ Length' = Length
    /\ \/ \E x \in Ids : Peek(x)
       \/ \E x \in Ids : Pop(x) /\ \A y \in Ids \ {x} : seqs'[y] = seqs[y]
       \/ \E x \in Ids : Clear(x) /\ \A y \in Ids \ {x} : seqs'[y] = seqs[y]
       \/ out' = out /\ \A x \in Ids : seqs'[x] = seqs[x] \/ Put(x)

Spec == Init /\ [][Next]_vars
=============================================================================
