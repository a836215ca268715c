----------------------------- MODULE ListProofs -----------------------------
(***************************************************************************)
(* The pointers of list.c make the sequences of Lists: the inductive       *)
(* invariant of ListC and the proof that it implements ListSpec, for any   *)
(* lists, items and values.                                                *)
(***************************************************************************)
EXTENDS ListC, SequenceTheorems, WellFoundedInduction, TLAPS

-----------------------------------------------------------------------------
(* The invariant.                                                          *)

(* Round list l with items s: the item at i, the end marker at both ends.  *)
At(l, s, i) == IF i \in 1 .. Len(s) THEN s[i] ELSE l

(* The links of list l, either way, are those of the sequence s.           *)
Chain(nx, pv, l, s) ==
    /\ s \in Seq(Items)
    /\ \A i, j \in 1 .. Len(s) : s[i] = s[j] => i = j
    /\ \A i \in 0 .. Len(s) : /\ nx[At(l, s, i)] = At(l, s, i + 1)
                              /\ pv[At(l, s, i + 1)] = At(l, s, i)

In(x, s) == \E i \in 1 .. Len(s) : s[i] = x

(* List l has the items s, those whose pxContainer it is, and counts them; *)
(* pxIndex is on the end marker or one of them.                            *)
Holds(l, s, nx, pv, of, ix, cnt) ==
    /\ Chain(nx, pv, l, s)
    /\ \A x \in Items : of[x] = l <=> In(x, s)
    /\ cnt[l] = Len(s)
    /\ \E i \in 0 .. Len(s) : ix[l] = At(l, s, i)
    /\ l \in Ordered => ix[l] = l

LinkTypes(nx, pv, of, ix, cnt) ==
    /\ nx \in [Nodes -> Nodes] /\ pv \in [Nodes -> Nodes]
    /\ of \in [Items -> ListIds \cup {NoList}]
    /\ ix \in [ListIds -> Nodes] /\ cnt \in [ListIds -> Nat]

(* Every list holds the items met from its end marker on.                  *)
ListInv ==
    /\ LinkTypes(pxNext, pxPrevious, pxContainer, pxIndex, uxNumberOfItems)
    /\ xItemValue \in [Items -> Values]
    /\ \A l \in ListIds :
         Holds(l, Forward(l), pxNext, pxPrevious, pxContainer, pxIndex, uxNumberOfItems)

-----------------------------------------------------------------------------
(* Walks along the links.                                                  *)

(* A set of natural numbers that is not empty has a least one.             *)
LEMMA LeastNatural ==
    ASSUME NEW T \in SUBSET Nat, T # {}
    PROVE  \E m \in T : \A k \in T : m <= k
<1> DEFINE R == OpToRel(<, Nat)
           N == Nat
<1>1. IsWellFoundedOn(R, N) BY NatLessThanWellFounded
<1>2. T \subseteq N OBVIOUS
<1>3. \A x, y \in Nat : <<x, y>> \in R <=> x < y BY DEF OpToRel
<1> HIDE DEF R, N
<1>4. PICK x \in T : \A y \in T : ~(<<y, x>> \in R)
  <2>1. \A RR, SS : IsWellFoundedOn(RR, SS) =>
          \A TT : TT \subseteq SS /\ TT # {} =>
            \E x \in TT : \A y \in TT : ~(<<y, x>> \in RR)
    BY WFMin, Zenon
  <2> QED BY <1>1, <1>2, <2>1, Zenon
<1>5. ASSUME NEW y \in T PROVE x <= y
  <2>1. x \in Nat /\ y \in Nat OBVIOUS
  <2>2. ~(y < x) BY <1>3, <1>4, <2>1
  <2> QED BY <2>1, <2>2
<1> QED BY <1>5

(* The nodes of a ring are apart, but for the two ends.                    *)
LEMMA NodeFacts ==
    ASSUME NEW l \in ListIds, NEW nx, NEW pv, NEW s, Chain(nx, pv, l, s)
    PROVE  /\ s \in Seq(Items) /\ Len(s) \in Nat
           /\ \A i \in 1 .. Len(s) : At(l, s, i) = s[i] /\ s[i] \in Items /\ s[i] # l
           /\ At(l, s, 0) = l /\ At(l, s, Len(s) + 1) = l
           /\ \A i \in Int : At(l, s, i) \in Nodes
           /\ \A i, j \in 0 .. Len(s) : At(l, s, i) = At(l, s, j) => i = j
           /\ \A i, j \in 1 .. Len(s) + 1 : At(l, s, i) = At(l, s, j) => i = j
<1>1. s \in Seq(Items) /\ Len(s) \in Nat BY DEF Chain
<1>2. ASSUME NEW i \in 1 .. Len(s) PROVE At(l, s, i) = s[i] /\ s[i] \in Items /\ s[i] # l
  BY <1>1, ListAssumption DEF At
<1>3. At(l, s, 0) = l /\ At(l, s, Len(s) + 1) = l BY <1>1 DEF At
<1>4. \A i \in Int : At(l, s, i) \in Nodes BY <1>2 DEF At, Nodes
<1>5. \A i, j \in 1 .. Len(s) : s[i] = s[j] => i = j BY DEF Chain
<1>6. \A i, j \in 0 .. Len(s) : At(l, s, i) = At(l, s, j) => i = j BY <1>1, <1>2, <1>5 DEF At
<1>7. \A i, j \in 1 .. Len(s) + 1 : At(l, s, i) = At(l, s, j) => i = j BY <1>1, <1>2, <1>5 DEF At
<1> QED BY <1>1, <1>2, <1>3, <1>4, <1>6, <1>7

(* Following the links from the end marker gives the sequence.             *)
LEMMA WalkFacts ==
    ASSUME NEW l \in ListIds, NEW nx, NEW pv, NEW s, Chain(nx, pv, l, s)
    PROVE  Walk(nx, l, Len(s)) = s
<1> DEFINE n == Len(s)
           Eq(g) == g = [i \in 0 .. n |-> IF i = 0 THEN l ELSE nx[g[i - 1]]]
           node == CHOOSE g : Eq(g)
           way  == [i \in 0 .. n |-> At(l, s, i)]
<1>1. /\ s \in Seq(Items) /\ n \in Nat /\ At(l, s, 0) = l
      /\ \A i \in 1 .. n : At(l, s, i) = s[i]
  BY NodeFacts
<1>2. \A i \in 1 .. n : nx[At(l, s, i - 1)] = At(l, s, i)
  <2>1. ASSUME NEW i \in 1 .. n PROVE nx[At(l, s, i - 1)] = At(l, s, i)
    <3>1. i - 1 \in 0 .. n /\ (i - 1) + 1 = i BY <1>1
    <3>2. nx[At(l, s, i - 1)] = At(l, s, (i - 1) + 1) BY <3>1 DEF Chain
    <3> QED BY <3>1, <3>2
  <2> QED BY <2>1
<1>3. Eq(way)
  <2>1. ASSUME NEW i \in 0 .. n
        PROVE  way[i] = IF i = 0 THEN l ELSE nx[way[i - 1]]
    <3>1. CASE i = 0 BY <1>1, <3>1
    <3>2. CASE i # 0
      <4>1. i \in 1 .. n /\ i - 1 \in 0 .. n BY <1>1, <3>2
      <4> QED BY <1>2, <3>2, <4>1
    <3> QED BY <3>1, <3>2
  <2> QED BY <2>1
<1>4. Eq(node) BY <1>3
<1>5. Walk(nx, l, n) = [i \in 1 .. n |-> node[i]] BY DEF Walk
<1> HIDE DEF node
<1>6. \A i \in 0 .. n : node[i] = IF i = 0 THEN l ELSE nx[node[i - 1]] BY <1>4
<1> HIDE DEF Eq, n
<1>7. \A i \in 0 .. n : node[i] = At(l, s, i)
  <2> DEFINE Bad == {i \in 0 .. n : node[i] # At(l, s, i)}
  <2>1. SUFFICES ASSUME Bad # {} PROVE FALSE OBVIOUS
  <2>2. Bad \in SUBSET Nat OBVIOUS
  <2>3. PICK m \in Bad : \A k \in Bad : m <= k
    <3> HIDE DEF Bad
    <3> QED BY <2>1, <2>2, LeastNatural
  <2>4. m \in 0 .. n /\ node[m] # At(l, s, m) OBVIOUS
  <2>5. m # 0 BY <1>1, <1>6, <2>4
  <2>6. m - 1 \in 0 .. n /\ m \in 1 .. n BY <1>1, <2>4, <2>5
  <2>7. node[m - 1] = At(l, s, m - 1)
    <3>1. m - 1 \notin Bad BY <2>3, <2>6
    <3> QED BY <2>6, <3>1
  <2> QED BY <1>2, <1>6, <2>4, <2>5, <2>6, <2>7
<1>8. \A i \in 1 .. n : node[i] = s[i] BY <1>1, <1>7
<1>9. DOMAIN s = 1 .. n /\ s = [i \in DOMAIN s |-> s[i]] BY <1>1 DEF n
<1> QED BY <1>5, <1>8, <1>9 DEF n

(* What the state's own walk gives.                                        *)
LEMMA ForwardFacts ==
    ASSUME NEW l \in ListIds, NEW s, NEW nx, NEW pv, NEW of, NEW ix, NEW cnt,
           Holds(l, s, nx, pv, of, ix, cnt)
    PROVE  Walk(nx, l, cnt[l]) = s
BY WalkFacts DEF Holds

-----------------------------------------------------------------------------
(* Sequences with one item more or one less.                               *)

(* t is s with x put in at position k.                                     *)
Inserted(s, t, k, x) ==
    /\ t \in Seq(Items) /\ Len(t) = Len(s) + 1 /\ t[k] = x
    /\ \A j \in 1 .. k - 1 : t[j] = s[j]
    /\ \A j \in k + 1 .. Len(t) : t[j] = s[j - 1]

(* t is s without the item at position k.                                  *)
Removed(s, t, k) ==
    /\ t \in Seq(Items) /\ Len(t) = Len(s) - 1
    /\ \A j \in 1 .. k - 1 : t[j] = s[j]
    /\ \A j \in k .. Len(t) : t[j] = s[j + 1]

(* Their items.                                                            *)
LEMMA InsertedIn ==
    ASSUME NEW s \in Seq(Items), NEW t, NEW k \in 1 .. Len(s) + 1, NEW x \in Items,
           Inserted(s, t, k, x)
    PROVE  \A y : In(y, t) <=> y = x \/ In(y, s)
<1>1. Len(s) \in Nat /\ Len(t) = Len(s) + 1 /\ t[k] = x /\ k \in 1 .. Len(t) BY DEF Inserted
<1>2. ASSUME NEW y, In(y, t) PROVE y = x \/ In(y, s)
  <2>1. PICK j \in 1 .. Len(t) : t[j] = y BY <1>2 DEF In
  <2>2. CASE j < k
    <3>1. j \in 1 .. k - 1 /\ j \in 1 .. Len(s) BY <1>1, <2>2
    <3> QED BY <2>1, <3>1 DEF Inserted, In
  <2>3. CASE j = k BY <1>1, <2>1, <2>3
  <2>4. CASE j > k
    <3>1. j \in k + 1 .. Len(t) /\ j - 1 \in 1 .. Len(s) BY <1>1, <2>4
    <3> QED BY <2>1, <3>1 DEF Inserted, In
  <2> QED BY <1>1, <2>2, <2>3, <2>4
<1>3. ASSUME NEW y, In(y, s) PROVE In(y, t)
  <2>1. PICK j \in 1 .. Len(s) : s[j] = y BY <1>3 DEF In
  <2>2. CASE j < k
    <3>1. j \in 1 .. k - 1 /\ j \in 1 .. Len(t) BY <1>1, <2>2
    <3> QED BY <2>1, <3>1 DEF Inserted, In
  <2>3. CASE j >= k
    <3>1. j + 1 \in k + 1 .. Len(t) /\ (j + 1) - 1 = j /\ j + 1 \in 1 .. Len(t) BY <1>1, <2>3
    <3>2. t[j + 1] = s[j] BY <3>1 DEF Inserted
    <3> QED BY <2>1, <3>1, <3>2 DEF In
  <2> QED BY <1>1, <2>2, <2>3
<1>4. In(x, t) BY <1>1 DEF In
<1> QED BY <1>2, <1>3, <1>4

(* All but the one removed.                                                *)
LEMMA RemovedIn ==
    ASSUME NEW s \in Seq(Items), NEW t, NEW k \in 1 .. Len(s), Removed(s, t, k),
           \A i, j \in 1 .. Len(s) : s[i] = s[j] => i = j
    PROVE  \A y : In(y, t) <=> y # s[k] /\ In(y, s)
<1>1. Len(s) \in Nat /\ Len(t) = Len(s) - 1 BY DEF Removed
<1>2. ASSUME NEW y, In(y, t) PROVE y # s[k] /\ In(y, s)
  <2>1. PICK j \in 1 .. Len(t) : t[j] = y BY <1>2 DEF In
  <2>2. CASE j < k
    <3>1. j \in 1 .. k - 1 /\ j \in 1 .. Len(s) /\ j # k BY <1>1, <2>2
    <3> QED BY <2>1, <3>1 DEF Removed, In
  <2>3. CASE j >= k
    <3>1. j \in k .. Len(t) /\ j + 1 \in 1 .. Len(s) /\ j + 1 # k BY <1>1, <2>3
    <3> QED BY <2>1, <3>1 DEF Removed, In
  <2> QED BY <1>1, <2>2, <2>3
<1>3. ASSUME NEW y, In(y, s), y # s[k] PROVE In(y, t)
  <2>1. PICK j \in 1 .. Len(s) : s[j] = y BY <1>3 DEF In
  <2>2. j # k BY <1>3, <2>1
  <2>3. CASE j < k
    <3>1. j \in 1 .. k - 1 /\ j \in 1 .. Len(t) BY <1>1, <2>3
    <3> QED BY <2>1, <3>1 DEF Removed, In
  <2>4. CASE j > k
    <3>1. j - 1 \in k .. Len(t) /\ (j - 1) + 1 = j /\ j - 1 \in 1 .. Len(t) BY <1>1, <2>4
    <3>2. t[j - 1] = s[j] BY <3>1 DEF Removed
    <3> QED BY <2>1, <3>1, <3>2 DEF In
  <2> QED BY <1>1, <2>2, <2>3, <2>4
<1> QED BY <1>2, <1>3

(* Their positions in the ring.                                            *)
LEMMA InsertedAt ==
    ASSUME NEW l, NEW s \in Seq(Items), NEW t, NEW i \in 0 .. Len(s), NEW x, Inserted(s, t, i + 1, x)
    PROVE  /\ \A j \in 0 .. i : At(l, t, j) = At(l, s, j)
           /\ At(l, t, i + 1) = x
           /\ \A j \in i + 2 .. Len(s) + 2 : At(l, t, j) = At(l, s, j - 1)
<1> DEFINE n == Len(s)
<1>1. n \in Nat /\ Len(t) = n + 1 BY DEF Inserted
<1>2. /\ t[i + 1] = x /\ \A j \in 1 .. i : t[j] = s[j]
      /\ \A j \in i + 2 .. n + 1 : t[j] = s[j - 1]
  <2>1. (i + 1) - 1 = i /\ (i + 1) + 1 = i + 2 OBVIOUS
  <2> QED BY <1>1, <2>1 DEF Inserted
<1>3. ASSUME NEW j \in 0 .. i PROVE At(l, t, j) = At(l, s, j)
  <2>1. CASE j = 0 BY <1>1, <2>1 DEF At
  <2>2. CASE j # 0
    <3>1. j \in 1 .. i /\ j \in 1 .. Len(t) /\ j \in 1 .. Len(s) BY <1>1, <2>2
    <3> QED BY <1>2, <3>1 DEF At
  <2> QED BY <2>1, <2>2
<1>4. At(l, t, i + 1) = x
  <2>1. i + 1 \in 1 .. Len(t) BY <1>1
  <2> QED BY <1>2, <2>1 DEF At
<1>5. ASSUME NEW j \in i + 2 .. n + 2 PROVE At(l, t, j) = At(l, s, j - 1)
  <2>1. CASE j = n + 2
    <3>1. j \notin 1 .. Len(t) /\ j - 1 \notin 1 .. Len(s) BY <1>1, <2>1
    <3> QED BY <3>1 DEF At
  <2>2. CASE j # n + 2
    <3>1. j \in i + 2 .. n + 1 /\ j \in 1 .. Len(t) /\ j - 1 \in 1 .. Len(s) BY <1>1, <2>2
    <3> QED BY <1>2, <3>1 DEF At
  <2> QED BY <2>1, <2>2
<1> QED BY <1>3, <1>4, <1>5

(* The same for the sequence with one item less.                           *)
LEMMA RemovedAt ==
    ASSUME NEW l, NEW s \in Seq(Items), NEW t, NEW i \in 1 .. Len(s), Removed(s, t, i)
    PROVE  /\ \A j \in 0 .. i - 1 : At(l, t, j) = At(l, s, j)
           /\ \A j \in i .. Len(s) : At(l, t, j) = At(l, s, j + 1)
<1> DEFINE n == Len(s)
<1>1. n \in Nat /\ Len(t) = n - 1 BY DEF Removed
<1>2. /\ \A j \in 1 .. i - 1 : t[j] = s[j]
      /\ \A j \in i .. n - 1 : t[j] = s[j + 1]
  BY <1>1 DEF Removed
<1>3. ASSUME NEW j \in 0 .. i - 1 PROVE At(l, t, j) = At(l, s, j)
  <2>1. CASE j = 0 BY <1>1, <2>1 DEF At
  <2>2. CASE j # 0
    <3>1. j \in 1 .. i - 1 /\ j \in 1 .. Len(t) /\ j \in 1 .. Len(s) BY <1>1, <2>2
    <3> QED BY <1>2, <3>1 DEF At
  <2> QED BY <2>1, <2>2
<1>4. ASSUME NEW j \in i .. n PROVE At(l, t, j) = At(l, s, j + 1)
  <2>1. CASE j = n
    <3>1. j \notin 1 .. Len(t) /\ j + 1 \notin 1 .. Len(s) BY <1>1, <2>1
    <3> QED BY <3>1 DEF At
  <2>2. CASE j # n
    <3>1. j \in i .. n - 1 /\ j \in 1 .. Len(t) /\ j + 1 \in 1 .. Len(s) BY <1>1, <2>2
    <3> QED BY <1>2, <3>1 DEF At
  <2> QED BY <2>1, <2>2
<1> QED BY <1>3, <1>4

-----------------------------------------------------------------------------
(* Linking and unlinking.                                                  *)

(* Nodes a and b = nx[a] get x between them.                               *)
LinkedIn(nx, pv, nx1, pv1, a, b, x) ==
    /\ nx1 = [nx EXCEPT ![x] = b, ![a] = x]
    /\ pv1 = [pv EXCEPT ![x] = a, ![b] = x]

(* A free item linked between two neighbours of a ring is in it between    *)
(* them.                                                                   *)
LEMMA InsertChain ==
    ASSUME NEW l \in ListIds, NEW nx \in [Nodes -> Nodes], NEW pv \in [Nodes -> Nodes],
           NEW s, NEW t, NEW i \in 0 .. Len(s), NEW x \in Items, NEW nx1, NEW pv1,
           Chain(nx, pv, l, s), ~In(x, s), Inserted(s, t, i + 1, x),
           LinkedIn(nx, pv, nx1, pv1, At(l, s, i), At(l, s, i + 1), x)
    PROVE  Chain(nx1, pv1, l, t)
<1> DEFINE n == Len(s)
           a == At(l, s, i)
           b == At(l, s, i + 1)
<1>1. /\ s \in Seq(Items) /\ n \in Nat /\ i \in Int /\ 0 <= i /\ i <= n
      /\ \A j \in 1 .. n : At(l, s, j) = s[j] /\ s[j] \in Items /\ s[j] # l
      /\ At(l, s, 0) = l /\ At(l, s, n + 1) = l
      /\ \A j \in Int : At(l, s, j) \in Nodes
      /\ \A j, k \in 0 .. n : At(l, s, j) = At(l, s, k) => j = k
      /\ \A j, k \in 1 .. n + 1 : At(l, s, j) = At(l, s, k) => j = k
  BY NodeFacts
<1>2. x \in Nodes /\ x # l BY ListAssumption DEF Nodes
<1>3. \A j \in 1 .. n : s[j] # x BY DEF In
<1>4. \A j \in 0 .. n + 1 : At(l, s, j) # x BY <1>1, <1>2, <1>3
<1>5. a \in Nodes /\ b \in Nodes /\ a # x /\ b # x
  <2>1. i \in 0 .. n + 1 /\ i + 1 \in 0 .. n + 1 BY <1>1
  <2> QED BY <1>1, <1>4, <2>1
<1>6. /\ nx1[x] = b /\ nx1[a] = x /\ \A d \in Nodes \ {x, a} : nx1[d] = nx[d]
      /\ pv1[x] = a /\ pv1[b] = x /\ \A d \in Nodes \ {x, b} : pv1[d] = pv[d]
  <2> DEFINE aa == At(l, s, i)
             bb == At(l, s, i + 1)
  <2>1. aa \in Nodes /\ bb \in Nodes /\ aa # x /\ bb # x /\ aa = a /\ bb = b BY <1>5
  <2>2. nx1 = [nx EXCEPT ![x] = bb, ![aa] = x] /\ pv1 = [pv EXCEPT ![x] = aa, ![bb] = x]
    BY DEF LinkedIn
  <2> HIDE DEF aa, bb
  <2> QED BY <1>2, <2>1, <2>2
<1>7. /\ t \in Seq(Items) /\ Len(t) = n + 1 /\ t[i + 1] = x
      /\ \A j \in 1 .. i : t[j] = s[j]
      /\ \A j \in i + 2 .. n + 1 : t[j] = s[j - 1]
  <2>1. (i + 1) - 1 = i /\ (i + 1) + 1 = i + 2 BY <1>1
  <2> QED BY <2>1 DEF Inserted
<1>8. /\ \A j \in 0 .. i : At(l, t, j) = At(l, s, j)
      /\ At(l, t, i + 1) = x
      /\ \A j \in i + 2 .. n + 2 : At(l, t, j) = At(l, s, j - 1)
  BY <1>1, InsertedAt
<1>9. \A j \in 0 .. n : nx[At(l, s, j)] = At(l, s, j + 1) /\ pv[At(l, s, j + 1)] = At(l, s, j)
  BY DEF Chain
<1>10. ASSUME NEW j \in 0 .. Len(t)
       PROVE  nx1[At(l, t, j)] = At(l, t, j + 1) /\ pv1[At(l, t, j + 1)] = At(l, t, j)
  <2>1. j \in 0 .. n + 1 BY <1>7
  <2>2. CASE j < i
    <3>1. j \in 0 .. i /\ j + 1 \in 0 .. i /\ j \in 0 .. n /\ i \in 0 .. n
          /\ j + 1 \in 1 .. n + 1 /\ i + 1 \in 1 .. n + 1 /\ j # i /\ j + 1 # i + 1
          /\ j \in 0 .. n + 1 /\ j + 1 \in 0 .. n + 1
      BY <1>1, <2>1, <2>2
    <3>2. At(l, s, j) \in Nodes \ {x, a} /\ At(l, s, j + 1) \in Nodes \ {x, b}
      BY <1>1, <1>4, <3>1
    <3> QED BY <1>6, <1>8, <1>9, <3>1, <3>2
  <2>3. CASE j = i
    <3>1. i \in 0 .. i BY <1>1
    <3> QED BY <1>6, <1>8, <2>3, <3>1
  <2>4. CASE j = i + 1
    <3>1. j + 1 \in i + 2 .. n + 2 /\ (j + 1) - 1 = i + 1 BY <1>1, <2>1, <2>4
    <3> QED BY <1>6, <1>8, <2>4, <3>1
  <2>5. CASE j > i + 1
    <3> DEFINE k == j - 1
    <3>1. /\ j \in i + 2 .. n + 2 /\ j + 1 \in i + 2 .. n + 2 /\ (j + 1) - 1 = k + 1
          /\ k \in 0 .. n /\ i \in 0 .. n /\ k # i /\ k + 1 \in 1 .. n + 1 /\ i + 1 \in 1 .. n + 1
          /\ k + 1 # i + 1 /\ k \in 0 .. n + 1 /\ k + 1 \in 0 .. n + 1
      BY <1>1, <2>1, <2>5
    <3>2. At(l, t, j) = At(l, s, k) /\ At(l, t, j + 1) = At(l, s, k + 1) BY <1>8, <3>1
    <3> HIDE DEF k
    <3>3. At(l, s, k) \in Nodes \ {x, a} /\ At(l, s, k + 1) \in Nodes \ {x, b}
      BY <1>1, <1>4, <3>1
    <3> QED BY <1>6, <1>9, <3>1, <3>2, <3>3
  <2> QED BY <1>1, <2>1, <2>2, <2>3, <2>4, <2>5
<1>11. ASSUME NEW j \in 1 .. Len(t), NEW k \in 1 .. Len(t), t[j] = t[k] PROVE j = k
  <2>1. \A m, o \in 1 .. n : s[m] = s[o] => m = o BY DEF Chain
  <2>2. j \in 1 .. n + 1 /\ k \in 1 .. n + 1 BY <1>7
  <2>3. \A m \in 1 .. n + 1 : m <= i => m \in 1 .. i /\ m \in 1 .. n BY <1>1
  <2>4. \A m \in 1 .. n + 1 : m > i + 1 => m \in i + 2 .. n + 1 /\ m - 1 \in 1 .. n /\ m - 1 > i BY <1>1
  <2>5. CASE j = i + 1 \/ k = i + 1
    <3>1. \A m \in 1 .. n + 1 : t[m] = x => m = i + 1
      <4>1. ASSUME NEW m \in 1 .. n + 1, m # i + 1 PROVE t[m] # x
        <5>1. CASE m <= i BY <1>3, <1>7, <2>3, <4>1, <5>1
        <5>2. CASE m > i + 1
          <6>1. t[m] = s[m - 1] /\ m - 1 \in 1 .. n BY <1>7, <2>4, <4>1, <5>2
          <6> QED BY <1>3, <6>1
        <5> QED BY <1>1, <4>1, <5>1, <5>2
      <4> QED BY <4>1
    <3>2. t[j] = x /\ t[k] = x BY <1>7, <1>11, <2>5
    <3> QED BY <2>2, <3>1, <3>2
  <2>6. CASE j <= i /\ k <= i BY <1>7, <1>11, <2>1, <2>2, <2>3, <2>6
  <2>7. CASE j > i + 1 /\ k > i + 1
    <3>1. s[j - 1] = s[k - 1] BY <1>7, <1>11, <2>2, <2>4, <2>7
    <3>2. j - 1 = k - 1 BY <2>1, <2>2, <2>4, <2>7, <3>1
    <3> QED BY <2>2, <3>2
  <2>8. CASE j <= i /\ k > i + 1
    <3>1. s[j] = s[k - 1] BY <1>7, <1>11, <2>2, <2>3, <2>4, <2>8
    <3>2. j = k - 1 BY <2>1, <2>2, <2>3, <2>4, <2>8, <3>1
    <3> QED BY <1>1, <2>2, <2>4, <2>8, <3>2
  <2>9. CASE j > i + 1 /\ k <= i
    <3>1. s[j - 1] = s[k] BY <1>7, <1>11, <2>2, <2>3, <2>4, <2>9
    <3>2. j - 1 = k BY <2>1, <2>2, <2>3, <2>4, <2>9, <3>1
    <3> QED BY <1>1, <2>2, <2>4, <2>9, <3>2
  <2> QED BY <1>1, <2>2, <2>5, <2>6, <2>7, <2>8, <2>9
<1> QED BY <1>7, <1>10, <1>11 DEF Chain

(* The nodes on either side of item i are linked to each other.            *)
LinkedOut(nx, pv, nx1, pv1, a, b) ==
    nx1 = [nx EXCEPT ![a] = b] /\ pv1 = [pv EXCEPT ![b] = a]

(* An item whose neighbours are linked to each other is out of the ring.   *)
LEMMA RemoveChain ==
    ASSUME NEW l \in ListIds, NEW nx \in [Nodes -> Nodes], NEW pv \in [Nodes -> Nodes],
           NEW s, NEW t, NEW i \in 1 .. Len(s), NEW nx1, NEW pv1,
           Chain(nx, pv, l, s), Removed(s, t, i),
           LinkedOut(nx, pv, nx1, pv1, At(l, s, i - 1), At(l, s, i + 1))
    PROVE  Chain(nx1, pv1, l, t)
<1> DEFINE n == Len(s)
           a == At(l, s, i - 1)
           b == At(l, s, i + 1)
<1>1. /\ s \in Seq(Items) /\ n \in Nat /\ i \in Int /\ 1 <= i /\ i <= n
      /\ \A j \in 1 .. n : At(l, s, j) = s[j] /\ s[j] \in Items /\ s[j] # l
      /\ At(l, s, 0) = l /\ At(l, s, n + 1) = l
      /\ \A j \in Int : At(l, s, j) \in Nodes
      /\ \A j, k \in 0 .. n : At(l, s, j) = At(l, s, k) => j = k
      /\ \A j, k \in 1 .. n + 1 : At(l, s, j) = At(l, s, k) => j = k
  BY NodeFacts
<1>2. a \in Nodes /\ b \in Nodes BY <1>1
<1>3. /\ nx1[a] = b /\ \A d \in Nodes \ {a} : nx1[d] = nx[d]
      /\ pv1[b] = a /\ \A d \in Nodes \ {b} : pv1[d] = pv[d]
  <2> DEFINE aa == At(l, s, i - 1)
             bb == At(l, s, i + 1)
  <2>1. aa \in Nodes /\ bb \in Nodes /\ aa = a /\ bb = b BY <1>2
  <2>2. nx1 = [nx EXCEPT ![aa] = bb] /\ pv1 = [pv EXCEPT ![bb] = aa] BY DEF LinkedOut
  <2> HIDE DEF aa, bb
  <2> QED BY <2>1, <2>2
<1>4. /\ t \in Seq(Items) /\ Len(t) = n - 1
      /\ \A j \in 1 .. i - 1 : t[j] = s[j]
      /\ \A j \in i .. n - 1 : t[j] = s[j + 1]
  BY DEF Removed
<1>5. /\ \A j \in 0 .. i - 1 : At(l, t, j) = At(l, s, j)
      /\ \A j \in i .. n : At(l, t, j) = At(l, s, j + 1)
  BY <1>1, RemovedAt
<1>6. \A j \in 0 .. n : nx[At(l, s, j)] = At(l, s, j + 1) /\ pv[At(l, s, j + 1)] = At(l, s, j)
  BY DEF Chain
<1>7. ASSUME NEW j \in 0 .. Len(t)
      PROVE  nx1[At(l, t, j)] = At(l, t, j + 1) /\ pv1[At(l, t, j + 1)] = At(l, t, j)
  <2>1. j \in 0 .. n - 1 BY <1>4
  <2>2. CASE j < i - 1
    <3>1. /\ j \in 0 .. i - 1 /\ j + 1 \in 0 .. i - 1 /\ j \in 0 .. n /\ i - 1 \in 0 .. n
          /\ j + 1 \in 1 .. n + 1 /\ i + 1 \in 1 .. n + 1 /\ j # i - 1 /\ j + 1 # i + 1
      BY <1>1, <2>1, <2>2
    <3>2. At(l, s, j) \in Nodes \ {a} /\ At(l, s, j + 1) \in Nodes \ {b} BY <1>1, <3>1
    <3> QED BY <1>3, <1>5, <1>6, <3>1, <3>2
  <2>3. CASE j = i - 1
    <3>1. i - 1 \in 0 .. i - 1 /\ j + 1 = i /\ i \in i .. n BY <1>1, <2>3
    <3> QED BY <1>3, <1>5, <2>3, <3>1
  <2>4. CASE j >= i
    <3> DEFINE k == j + 1
    <3>1. /\ j \in i .. n /\ k \in i .. n /\ k \in 0 .. n /\ i - 1 \in 0 .. n
          /\ k + 1 \in 1 .. n + 1 /\ i + 1 \in 1 .. n + 1 /\ k # i - 1 /\ k + 1 # i + 1
      BY <1>1, <2>1, <2>4
    <3>2. At(l, t, j) = At(l, s, k) /\ At(l, t, j + 1) = At(l, s, k + 1) BY <1>5, <3>1
    <3> HIDE DEF k
    <3>3. At(l, s, k) \in Nodes \ {a} /\ At(l, s, k + 1) \in Nodes \ {b} BY <1>1, <3>1
    <3> QED BY <1>3, <1>6, <3>1, <3>2, <3>3
  <2> QED BY <1>1, <2>1, <2>2, <2>3, <2>4
<1>8. ASSUME NEW j \in 1 .. Len(t), NEW k \in 1 .. Len(t), t[j] = t[k] PROVE j = k
  <2> DEFINE Old(m) == IF m < i THEN m ELSE m + 1
  <2>1. ASSUME NEW m \in 1 .. Len(t) PROVE Old(m) \in 1 .. n /\ t[m] = s[Old(m)]
    <3>1. CASE m < i
      <4>1. m \in 1 .. i - 1 /\ m \in 1 .. n BY <1>1, <1>4, <3>1
      <4> QED BY <1>4, <3>1, <4>1
    <3>2. CASE m >= i
      <4>1. m \in i .. n - 1 /\ m + 1 \in 1 .. n BY <1>1, <1>4, <3>2
      <4> QED BY <1>1, <1>4, <3>2, <4>1
    <3> QED BY <1>1, <3>1, <3>2
  <2>2. \A m, o \in 1 .. n : s[m] = s[o] => m = o BY DEF Chain
  <2>3. Old(j) = Old(k) BY <1>8, <2>1, <2>2
  <2> QED BY <1>1, <2>3
<1> QED BY <1>4, <1>7, <1>8 DEF Chain

(* A list none of whose nodes is touched stays as it is.                   *)
LEMMA FrameChain ==
    ASSUME NEW l \in ListIds, NEW nx, NEW pv, NEW s, NEW nx1, NEW pv1, NEW A, NEW B,
           Chain(nx, pv, l, s),
           \A d \in Nodes \ A : nx1[d] = nx[d], \A d \in Nodes \ B : pv1[d] = pv[d],
           l \notin A \cup B, \A x \in Items : In(x, s) => x \notin A \cup B
    PROVE  Chain(nx1, pv1, l, s)
<1>1. /\ s \in Seq(Items) /\ Len(s) \in Nat
      /\ \A i \in 1 .. Len(s) : At(l, s, i) = s[i] /\ s[i] \in Items
      /\ \A i \in Int : At(l, s, i) \in Nodes
  BY NodeFacts
<1>2. \A i \in Int : At(l, s, i) \notin A \cup B BY <1>1 DEF At, In
<1>3. ASSUME NEW i \in 0 .. Len(s)
      PROVE  nx1[At(l, s, i)] = At(l, s, i + 1) /\ pv1[At(l, s, i + 1)] = At(l, s, i)
  <2>1. i \in Int /\ i + 1 \in Int OBVIOUS
  <2>2. At(l, s, i) \in Nodes \ A /\ At(l, s, i + 1) \in Nodes \ B BY <1>1, <1>2, <2>1
  <2> QED BY <2>2 DEF Chain
<1> QED BY <1>3 DEF Chain

-----------------------------------------------------------------------------
(* Where the abstract operators look.                                      *)

(* A node of the ring is found at its position, the end marker at 0.       *)
LEMMA PositionFacts ==
    ASSUME NEW l \in ListIds, NEW nx, NEW pv, NEW s, Chain(nx, pv, l, s), NEW j \in 0 .. Len(s)
    PROVE  Position(s, At(l, s, j)) = j
<1> DEFINE d == At(l, s, j)
<1>1. /\ s \in Seq(Items) /\ Len(s) \in Nat /\ At(l, s, 0) = l
      /\ \A i \in 1 .. Len(s) : At(l, s, i) = s[i] /\ s[i] # l
      /\ \A i, k \in 0 .. Len(s) : At(l, s, i) = At(l, s, k) => i = k
  BY NodeFacts
<1>2. CASE j = 0
  <2>1. ~\E i \in 1 .. Len(s) : s[i] = d BY <1>1, <1>2
  <2> QED BY <1>2, <2>1 DEF Position
<1>3. CASE j # 0
  <2>1. j \in 1 .. Len(s) BY <1>1, <1>3
  <2>2. s[j] = d /\ \A i \in 1 .. Len(s) : s[i] = d => i = j BY <1>1, <2>1
  <2> HIDE DEF d
  <2>3. (CHOOSE i \in 1 .. Len(s) : s[i] = d) = j BY <2>1, <2>2
  <2> QED BY <2>1, <2>2, <2>3 DEF Position, d
<1> QED BY <1>2, <1>3

(* What InsertAt gives.                                                    *)
LEMMA InsertAtFacts ==
    ASSUME NEW s \in Seq(Items), NEW k \in 1 .. Len(s) + 1, NEW x \in Items
    PROVE  Inserted(s, Abstract!InsertAt(s, k, x), k, x)
<1> DEFINE front == SubSeq(s, 1, k - 1)
           back == SubSeq(s, k, Len(s))
<1>1. /\ front \in Seq(Items) /\ Len(front) = k - 1 /\ \A j \in 1 .. k - 1 : front[j] = s[j]
      /\ back \in Seq(Items) /\ Len(back) = Len(s) + 1 - k
      /\ \A j \in 1 .. Len(s) + 1 - k : back[j] = s[j + k - 1]
  OBVIOUS
<1>2. Abstract!InsertAt(s, k, x) = front \o <<x>> \o back BY DEF Abstract!InsertAt
<1> HIDE DEF front, back
<1> DEFINE u == front \o <<x>>
<1>4. /\ u \in Seq(Items) /\ Len(u) = k /\ u[k] = x /\ \A j \in 1 .. k - 1 : u[j] = s[j]
  <2>1. <<x>> \in Seq(Items) /\ Len(<<x>>) = 1 /\ <<x>>[1] = x OBVIOUS
  <2>2. /\ u \in Seq(Items) /\ Len(u) = Len(front) + 1
        /\ \A j \in 1 .. Len(front) + 1 : u[j] = IF j <= Len(front) THEN front[j] ELSE <<x>>[j - Len(front)]
    BY <1>1, <2>1, ConcatProperties
  <2>3. Len(front) = k - 1 /\ Len(front) + 1 = k /\ k - Len(front) = 1 /\ ~(k <= Len(front)) BY <1>1
  <2> HIDE DEF u
  <2>4. u \in Seq(Items) /\ Len(u) = k BY <2>2, <2>3
  <2>5. \A j \in 1 .. k : u[j] = IF j <= Len(front) THEN front[j] ELSE <<x>>[j - Len(front)] BY <2>2, <2>3
  <2>6. u[k] = x
    <3>1. k \in 1 .. k OBVIOUS
    <3> QED BY <2>1, <2>3, <2>5, <3>1
  <2>7. ASSUME NEW j \in 1 .. k - 1 PROVE u[j] = s[j]
    <3>1. j \in 1 .. k /\ j <= Len(front) BY <2>3
    <3> QED BY <1>1, <2>5, <3>1
  <2> QED BY <2>4, <2>6, <2>7
<1>5. Abstract!InsertAt(s, k, x) = u \o back BY <1>2
<1> HIDE DEF u
<1>6. /\ u \o back \in Seq(Items) /\ Len(u \o back) = Len(s) + 1
      /\ \A j \in 1 .. k : (u \o back)[j] = u[j]
      /\ \A j \in k + 1 .. Len(s) + 1 : (u \o back)[j] = back[j - k]
  <2>1. Len(s) \in Nat /\ Len(u) + Len(back) = Len(s) + 1 BY <1>1, <1>4
  <2>2. /\ u \o back \in Seq(Items) /\ Len(u \o back) = Len(u) + Len(back)
        /\ \A j \in 1 .. Len(u) + Len(back) : (u \o back)[j] = IF j <= Len(u) THEN u[j] ELSE back[j - Len(u)]
    <3>1. u \in Seq(Items) /\ back \in Seq(Items) BY <1>1, <1>4
    <3> QED BY <3>1, ConcatProperties
  <2> DEFINE w == u \o back
  <2>3. /\ w \in Seq(Items) /\ Len(w) = Len(s) + 1
        /\ \A j \in 1 .. Len(s) + 1 : w[j] = IF j <= k THEN u[j] ELSE back[j - k]
    BY <1>4, <2>1, <2>2
  <2> HIDE DEF w
  <2>4. /\ \A j \in 1 .. k : w[j] = u[j]
        /\ \A j \in k + 1 .. Len(s) + 1 : w[j] = back[j - k]
    BY <2>1, <2>3
  <2> QED BY <2>3, <2>4 DEF w
<1>7. ASSUME NEW j \in k + 1 .. Len(s) + 1 PROVE back[j - k] = s[j - 1]
  <2>1. j - k \in 1 .. Len(s) + 1 - k /\ (j - k) + k - 1 = j - 1 OBVIOUS
  <2> QED BY <1>1, <2>1
<1> QED BY <1>4, <1>5, <1>6, <1>7 DEF Inserted

(* What RemoveAt gives.                                                    *)
LEMMA RemoveAtFacts ==
    ASSUME NEW s \in Seq(Items), NEW k \in 1 .. Len(s)
    PROVE  Removed(s, Abstract!RemoveAt(s, k), k)
<1> DEFINE front == SubSeq(s, 1, k - 1)
           back == SubSeq(s, k + 1, Len(s))
<1>1. /\ front \in Seq(Items) /\ Len(front) = k - 1 /\ \A j \in 1 .. k - 1 : front[j] = s[j]
      /\ back \in Seq(Items) /\ Len(back) = Len(s) - k
      /\ \A j \in 1 .. Len(s) - k : back[j] = s[j + k]
  OBVIOUS
<1>2. Abstract!RemoveAt(s, k) = front \o back BY DEF Abstract!RemoveAt
<1> HIDE DEF front, back
<1>3. /\ front \o back \in Seq(Items) /\ Len(front \o back) = Len(s) - 1
      /\ \A j \in 1 .. k - 1 : (front \o back)[j] = front[j]
      /\ \A j \in k .. Len(s) - 1 : (front \o back)[j] = back[j - k + 1]
  <2>1. Len(s) \in Nat /\ Len(front) + Len(back) = Len(s) - 1 BY <1>1
  <2>2. /\ front \o back \in Seq(Items) /\ Len(front \o back) = Len(front) + Len(back)
        /\ \A j \in 1 .. Len(front) + Len(back) :
             (front \o back)[j] = IF j <= Len(front) THEN front[j] ELSE back[j - Len(front)]
    BY <1>1, ConcatProperties
  <2> DEFINE w == front \o back
  <2>3. /\ w \in Seq(Items) /\ Len(w) = Len(s) - 1
        /\ \A j \in 1 .. Len(s) - 1 : w[j] = IF j <= k - 1 THEN front[j] ELSE back[j - (k - 1)]
    BY <1>1, <2>1, <2>2
  <2> HIDE DEF w
  <2>4. /\ \A j \in 1 .. k - 1 : w[j] = front[j]
        /\ \A j \in k .. Len(s) - 1 : w[j] = back[j - k + 1]
    <3>1. \A j \in k .. Len(s) - 1 : j - (k - 1) = j - k + 1 /\ j \in 1 .. Len(s) - 1 /\ ~(j <= k - 1) BY <2>1
    <3>2. \A j \in 1 .. k - 1 : j \in 1 .. Len(s) - 1 /\ j <= k - 1 BY <2>1
    <3> QED BY <2>3, <3>1, <3>2
  <2> QED BY <2>3, <2>4 DEF w
<1>4. ASSUME NEW j \in k .. Len(s) - 1 PROVE back[j - k + 1] = s[j + 1]
  <2>1. j - k + 1 \in 1 .. Len(s) - k /\ (j - k + 1) + k = j + 1 OBVIOUS
  <2> QED BY <1>1, <2>1
<1> QED BY <1>1, <1>2, <1>3, <1>4 DEF Removed

(* The abstract removal finds the one position that x is at.               *)
LEMMA AbstractRemove ==
    ASSUME NEW s \in Seq(Items), NEW i \in 1 .. Len(s), NEW j,
           \A k, m \in 1 .. Len(s) : s[k] = s[m] => k = m
    PROVE  Abstract!uxListRemove([items |-> s, index |-> j], s[i]) =
             [items |-> Abstract!RemoveAt(s, i), index |-> IF i <= j THEN j - 1 ELSE j]
<1> DEFINE I == {k \in 1 .. Len(s) : s[k] = s[i]}
<1>1. I = {i} OBVIOUS
<1>2. Abstract!Min({i}) = i BY DEF Abstract!Min
<1>3. Abstract!SelectInSeq(s, LAMBDA y : y = s[i]) = i BY <1>1, <1>2 DEF Abstract!SelectInSeq
<1> QED BY <1>3 DEF Abstract!uxListRemove

(* Position k is the first whose item has a value above v, or the end.     *)
Stops(s, val, v, k) ==
    /\ k \in 1 .. Len(s) + 1
    /\ \A j \in 1 .. k - 1 : val[s[j]] <= v
    /\ k <= Len(s) => val[s[k]] > v

(* The abstract vListInsert stops at the first item with a larger value.   *)
LEMMA AbstractPos ==
    ASSUME NEW s \in Seq(Items), NEW val \in [Items -> Int], NEW v \in Int, NEW k, Stops(s, val, v, k)
    PROVE  Abstract!vListInsertPos(s, val, v) = k
<1> DEFINE I == {j \in 1 .. Len(s) : val[s[j]] > v}
           i == Abstract!SelectInSeq(s, LAMBDA y : val[y] > v)
<1>1. i = IF I # {} THEN Abstract!Min(I) ELSE 0 BY DEF Abstract!SelectInSeq
<1>2. Abstract!vListInsertPos(s, val, v) = IF i = 0 THEN Len(s) + 1 ELSE i
  BY DEF Abstract!vListInsertPos
<1>3. k \in 1 .. Len(s) + 1 /\ Len(s) \in Nat BY DEF Stops
<1>4. \A j \in 1 .. Len(s) : val[s[j]] \in Int OBVIOUS
<1>5. \A j \in I : k <= j
  <2>1. ASSUME NEW j \in I, j < k PROVE FALSE
    <3>1. j \in 1 .. k - 1 /\ j \in 1 .. Len(s) BY <1>3, <2>1
    <3> QED BY <1>4, <3>1 DEF Stops
  <2> QED BY <1>3, <2>1
<1> HIDE DEF i
<1>6. CASE k <= Len(s)
  <2>1. k \in I BY <1>3, <1>6 DEF Stops
  <2>2. \A j \in I : j \in Int OBVIOUS
  <2> HIDE DEF I
  <2>3. \A m \in I : (\A j \in I : m <= j) <=> m = k BY <1>3, <1>5, <2>1, <2>2
  <2>4. Abstract!Min(I) = k BY <2>1, <2>3 DEF Abstract!Min
  <2> QED BY <1>1, <1>2, <1>3, <2>1, <2>4
<1>7. CASE k = Len(s) + 1
  <2>1. I = {} BY <1>3, <1>5, <1>7
  <2> QED BY <1>1, <1>2, <1>7, <2>1
<1> QED BY <1>3, <1>6, <1>7

(* The search along the links stops where the abstract one does.           *)
LEMMA PastFacts ==
    ASSUME NEW l \in ListIds, NEW nx, NEW pv, NEW s, Chain(nx, pv, l, s),
           NEW val \in [Items -> Int], NEW v \in Int, v < EndValue, NEW nodes,
           \A d : d \in nodes <=> d = l \/ (d \in Items /\ In(d, s))
    PROVE  \E k : Stops(s, val, v, k) /\ PastValue(nx, nodes, l, val, v) = At(l, s, k - 1)
<1> DEFINE n == Len(s)
           Above(i) == ~(Val(val, At(l, s, i)) <= v)
           IsStop(i, k) == k \in i + 1 .. n + 1 /\ Above(k) /\ \A j \in i + 1 .. k - 1 : ~Above(j)
           Stop(i) == CHOOSE k : IsStop(i, k)
           Pos(d) == CHOOSE i \in 0 .. n : At(l, s, i) = d
           Eq(f) == f = [d \in nodes |-> IF Val(val, nx[d]) <= v THEN f[nx[d]] ELSE d]
           way == [d \in nodes |-> At(l, s, Stop(Pos(d)) - 1)]
           from == CHOOSE f : Eq(f)
<1>1. /\ s \in Seq(Items) /\ n \in Nat /\ At(l, s, 0) = l /\ At(l, s, n + 1) = l
      /\ \A i \in 1 .. n : At(l, s, i) = s[i] /\ s[i] \in Items
      /\ \A i, j \in 0 .. n : At(l, s, i) = At(l, s, j) => i = j
  BY NodeFacts
<1>2. EndValue \in Nat /\ ListIds \cap Items = {} BY ListAssumption
<1>3. /\ Above(n + 1)
      /\ \A i \in 1 .. n : Above(i) <=> val[s[i]] > v
  <2>1. Above(n + 1) BY <1>1, <1>2 DEF Val
  <2>2. ASSUME NEW i \in 1 .. n PROVE Above(i) <=> val[s[i]] > v
    <3>1. At(l, s, i) = s[i] /\ s[i] \in Items /\ s[i] \notin ListIds /\ val[s[i]] \in Int BY <1>1, <1>2
    <3> QED BY <3>1 DEF Val
  <2> QED BY <2>1, <2>2
<1>4. \A i \in 0 .. n : nx[At(l, s, i)] = At(l, s, i + 1) BY DEF Chain
<1>5. \A d \in nodes : \E i \in 0 .. n : At(l, s, i) = d
  <2>1. ASSUME NEW d \in nodes PROVE \E i \in 0 .. n : At(l, s, i) = d
    <3>1. CASE d = l BY <1>1, <3>1
    <3>2. CASE d # l
      <4>1. PICK i \in 1 .. n : s[i] = d BY <3>2 DEF In
      <4> QED BY <1>1, <4>1
    <3> QED BY <3>1, <3>2
  <2> QED BY <2>1
<1>6. \A i \in 0 .. n : At(l, s, i) \in nodes BY <1>1 DEF At, In
<1> HIDE DEF Above
<1>7. ASSUME NEW i \in 0 .. n PROVE IsStop(i, Stop(i))
  <2> DEFINE T == {k \in i + 1 .. n + 1 : Above(k)}
  <2>1. n + 1 \in T /\ T \in SUBSET Nat BY <1>1, <1>3
  <2>2. PICK m \in T : \A k \in T : m <= k
    <3> HIDE DEF T
    <3> QED BY <2>1, LeastNatural
  <2>3. IsStop(i, m)
    <3>1. ASSUME NEW j \in i + 1 .. m - 1 PROVE ~Above(j)
      <4>1. j \in i + 1 .. n + 1 /\ ~(m <= j) BY <1>1
      <4> QED BY <2>2, <4>1
    <3> QED BY <3>1
  <2> QED BY <2>3
<1> HIDE DEF Stop
<1>8. ASSUME NEW i \in 0 .. n
      PROVE  /\ Above(i + 1) => Stop(i) = i + 1
             /\ ~Above(i + 1) => i + 1 \in 0 .. n /\ Stop(i) = Stop(i + 1)
  <2>1. IsStop(i, Stop(i)) BY <1>7
  <2>2. CASE Above(i + 1)
    <3>1. i + 1 \in i + 1 .. n + 1 BY <1>1
    <3> QED BY <1>1, <2>1, <2>2, <3>1
  <2>3. CASE ~Above(i + 1)
    <3>1. i + 1 \in 0 .. n BY <1>1, <1>3, <2>3
    <3>2. IsStop(i + 1, Stop(i + 1)) BY <1>7, <3>1
    <3> DEFINE k == Stop(i)
               m == Stop(i + 1)
    <3>3. /\ k \in i + 1 .. n + 1 /\ Above(k) /\ \A j \in i + 1 .. k - 1 : ~Above(j)
          /\ m \in i + 2 .. n + 1 /\ Above(m) /\ \A j \in i + 2 .. m - 1 : ~Above(j)
      BY <2>1, <3>2
    <3> HIDE DEF k, m
    <3>4. k # i + 1 BY <2>3, <3>3
    <3>5. ~(k < m) BY <3>3, <3>4
    <3>6. ~(m < k) BY <3>3
    <3>7. k = m BY <3>3, <3>5, <3>6
    <3> QED BY <2>3, <3>1, <3>7 DEF k, m
  <2> QED BY <2>2, <2>3
<1>9. \A i \in 0 .. n : Pos(At(l, s, i)) = i BY <1>1
<1> HIDE DEF Pos
<1>10. \A i \in 0 .. n : Val(val, nx[At(l, s, i)]) <= v <=> ~Above(i + 1) BY <1>4 DEF Above
<1>11. Eq(way)
  <2>1. ASSUME NEW d \in nodes
        PROVE  way[d] = IF Val(val, nx[d]) <= v THEN way[nx[d]] ELSE d
    <3>1. PICK i \in 0 .. n : At(l, s, i) = d BY <1>5
    <3>2. way[d] = At(l, s, Stop(i) - 1) /\ nx[d] = At(l, s, i + 1) BY <1>4, <1>9, <3>1
    <3>3. CASE Above(i + 1)
      <4>1. Stop(i) - 1 = i BY <1>8, <3>3
      <4> QED BY <1>10, <3>1, <3>2, <3>3, <4>1
    <3>4. CASE ~Above(i + 1)
      <4>1. i + 1 \in 0 .. n /\ Stop(i) = Stop(i + 1) BY <1>8, <3>4
      <4>2. nx[d] \in nodes /\ way[nx[d]] = At(l, s, Stop(i + 1) - 1) BY <1>6, <1>9, <3>2, <4>1
      <4> QED BY <1>10, <3>1, <3>2, <3>4, <4>1, <4>2
    <3> QED BY <3>3, <3>4
  <2> HIDE DEF Pos, Stop
  <2> QED BY <2>1
<1>12. Eq(from) BY <1>11
<1>13. PastValue(nx, nodes, l, val, v) = from[l] BY DEF PastValue
<1> HIDE DEF from
<1>14. \A d \in nodes : from[d] = IF Val(val, nx[d]) <= v THEN from[nx[d]] ELSE d BY <1>12
<1> HIDE DEF Eq, way
<1>15. \A i \in 0 .. n : from[At(l, s, i)] = At(l, s, Stop(i) - 1)
  <2> DEFINE Bad == {m \in 0 .. n : from[At(l, s, n - m)] # At(l, s, Stop(n - m) - 1)}
  <2>1. ASSUME Bad # {} PROVE FALSE
    <3>1. PICK m \in Bad : \A k \in Bad : m <= k
      <4>1. Bad \in SUBSET Nat BY <1>1
      <4> HIDE DEF Bad
      <4> QED BY <2>1, <4>1, LeastNatural
    <3>2. PICK i \in 0 .. n :
            i = n - m /\ m \in 0 .. n /\ from[At(l, s, i)] # At(l, s, Stop(i) - 1) BY <1>1
    <3>3. At(l, s, i) \in nodes /\ nx[At(l, s, i)] = At(l, s, i + 1) BY <1>4, <1>6, <3>2
    <3>4. CASE Above(i + 1)
      <4>1. Stop(i) - 1 = i BY <1>8, <3>2, <3>4
      <4> QED BY <1>10, <1>14, <3>2, <3>3, <3>4, <4>1
    <3>5. CASE ~Above(i + 1)
      <4>1. i + 1 \in 0 .. n /\ Stop(i) = Stop(i + 1) BY <1>8, <3>2, <3>5
      <4>2. m - 1 \in 0 .. n /\ n - (m - 1) = i + 1 BY <1>1, <3>2, <4>1
      <4>3. m - 1 \notin Bad BY <3>1, <3>2
      <4>4. from[At(l, s, i + 1)] = At(l, s, Stop(i + 1) - 1) BY <4>2, <4>3
      <4> QED BY <1>10, <1>14, <3>2, <3>3, <3>5, <4>1, <4>4
    <3> QED BY <3>4, <3>5
  <2>2. ASSUME NEW i \in 0 .. n PROVE from[At(l, s, i)] = At(l, s, Stop(i) - 1)
    <3>1. n - i \in 0 .. n /\ n - (n - i) = i BY <1>1
    <3>2. n - i \notin Bad BY <2>1
    <3> QED BY <3>1, <3>2
  <2> QED BY <2>2
<1>16. 0 \in 0 .. n /\ from[l] = At(l, s, Stop(0) - 1) BY <1>1, <1>15
<1>17. IsStop(0, Stop(0)) BY <1>7, <1>16
<1>18. Stops(s, val, v, Stop(0))
  <2> DEFINE k == Stop(0)
  <2>1. k \in 1 .. n + 1 /\ Above(k) /\ \A j \in 1 .. k - 1 : ~Above(j) BY <1>17
  <2> HIDE DEF k
  <2>2. ASSUME NEW j \in 1 .. k - 1 PROVE val[s[j]] <= v
    <3>1. j \in 1 .. n BY <1>1, <2>1
    <3>2. val[s[j]] \in Int BY <1>1, <3>1
    <3> QED BY <1>3, <2>1, <3>1, <3>2
  <2>3. k <= n => val[s[k]] > v BY <1>1, <1>3, <2>1
  <2> QED BY <2>1, <2>2, <2>3 DEF Stops, k
<1> QED BY <1>13, <1>16, <1>18

-----------------------------------------------------------------------------
(* What joining and leaving do to the lists.                               *)

(* Only links of the nodes A and B change, none of which is list m's.      *)
Spares(m, of, nx, pv, nx1, pv1, A, B) ==
    /\ \A d \in Nodes \ A : nx1[d] = nx[d]
    /\ \A d \in Nodes \ B : pv1[d] = pv[d]
    /\ \A d \in A \cup B : d # m /\ (d \in Items => of[d] # m)

(* A list keeps its items when no node of its is touched.                  *)
LEMMA FrameHolds ==
    ASSUME NEW m \in ListIds, NEW u, NEW nx, NEW pv, NEW of, NEW ix, NEW cnt,
           Holds(m, u, nx, pv, of, ix, cnt),
           NEW nx1, NEW pv1, NEW of1, NEW ix1, NEW cnt1, NEW A, NEW B,
           Spares(m, of, nx, pv, nx1, pv1, A, B),
           \A y \in Items : of1[y] = m <=> of[y] = m, ix1[m] = ix[m], cnt1[m] = cnt[m]
    PROVE  Holds(m, u, nx1, pv1, of1, ix1, cnt1)
<1>1. /\ Chain(nx, pv, m, u) /\ \A x \in Items : of[x] = m <=> In(x, u)
      /\ cnt[m] = Len(u) /\ \E i \in 0 .. Len(u) : ix[m] = At(m, u, i)
      /\ m \in Ordered => ix[m] = m
  BY DEF Holds
<1>2. m \notin A \cup B /\ \A x \in Items : In(x, u) => x \notin A \cup B BY <1>1 DEF Spares
<1>3. Chain(nx1, pv1, m, u) BY <1>1, <1>2, FrameChain DEF Spares
<1> QED BY <1>1, <1>3 DEF Holds

(* The nodes of a list are its end marker and its items.                   *)
LEMMA NodeOf ==
    ASSUME NEW l \in ListIds, NEW s, NEW nx, NEW pv, NEW of, NEW ix, NEW cnt,
           Holds(l, s, nx, pv, of, ix, cnt), NEW i \in Int
    PROVE  /\ At(l, s, i) \in Nodes
           /\ At(l, s, i) = l \/ (At(l, s, i) \in Items /\ of[At(l, s, i)] = l)
<1>1. Chain(nx, pv, l, s) /\ \A x \in Items : of[x] = l <=> In(x, s) BY DEF Holds
<1>2. At(l, s, i) \in Nodes /\ \A k \in 1 .. Len(s) : At(l, s, k) = s[k] /\ s[k] \in Items
  BY <1>1, NodeFacts
<1>3. CASE i \in 1 .. Len(s) BY <1>1, <1>2, <1>3 DEF In
<1>4. CASE i \notin 1 .. Len(s) BY <1>2, <1>4 DEF At
<1> QED BY <1>3, <1>4

(* What an insertion into list l between nodes a and b assigns.            *)
JoinsAt(l, x, a, b, nx, pv, of, cnt, nx1, pv1, of1, cnt1) ==
    /\ LinkedIn(nx, pv, nx1, pv1, a, b, x)
    /\ of1 = [of EXCEPT ![x] = l]
    /\ cnt1 = [cnt EXCEPT ![l] = @ + 1]

(* An insertion of a free item that makes list l, which holds s, hold t.   *)
Joining(l, x, s, t, nx, pv, of, ix, cnt, nx1, pv1, of1, cnt1) ==
    /\ LinkTypes(nx, pv, of, ix, cnt)
    /\ Holds(l, s, nx, pv, of, ix, cnt) /\ of[x] = NoList
    /\ \E i \in 0 .. Len(s) :
         /\ JoinsAt(l, x, At(l, s, i), At(l, s, i + 1), nx, pv, of, cnt, nx1, pv1, of1, cnt1)
         /\ Inserted(s, t, i + 1, x)

(* The list an item joins holds it then, and the others what they held.    *)
LEMMA JoinHolds ==
    ASSUME NEW l \in ListIds, NEW x \in Items, NEW s, NEW t, NEW nx, NEW pv, NEW of, NEW ix, NEW cnt,
           NEW nx1, NEW pv1, NEW of1, NEW cnt1,
           Joining(l, x, s, t, nx, pv, of, ix, cnt, nx1, pv1, of1, cnt1)
    PROVE  /\ LinkTypes(nx1, pv1, of1, ix, cnt1)
           /\ Holds(l, t, nx1, pv1, of1, ix, cnt1)
           /\ \A m \in ListIds \ {l} : \A u :
                Holds(m, u, nx, pv, of, ix, cnt) => Holds(m, u, nx1, pv1, of1, ix, cnt1)
<1>a. /\ LinkTypes(nx, pv, of, ix, cnt)
      /\ Holds(l, s, nx, pv, of, ix, cnt) /\ of[x] = NoList
  BY DEF Joining
<1>b. PICK i \in 0 .. Len(s) :
         /\ JoinsAt(l, x, At(l, s, i), At(l, s, i + 1), nx, pv, of, cnt, nx1, pv1, of1, cnt1)
         /\ Inserted(s, t, i + 1, x)
  BY DEF Joining
<1>1. /\ Chain(nx, pv, l, s) /\ \A y \in Items : of[y] = l <=> In(y, s)
      /\ cnt[l] = Len(s) /\ \E k \in 0 .. Len(s) : ix[l] = At(l, s, k)
      /\ l \in Ordered => ix[l] = l
  BY <1>a DEF Holds
<1>2. s \in Seq(Items) /\ Len(s) \in Nat /\ i \in Int /\ i + 1 \in Int /\ i + 1 \in 1 .. Len(s) + 1
  BY <1>1, NodeFacts
<1>3. /\ At(l, s, i) \in Nodes /\ At(l, s, i + 1) \in Nodes /\ x \in Nodes
      /\ At(l, s, i) = l \/ (At(l, s, i) \in Items /\ of[At(l, s, i)] = l)
      /\ At(l, s, i + 1) = l \/ (At(l, s, i + 1) \in Items /\ of[At(l, s, i + 1)] = l)
  BY <1>a, <1>2, NodeOf DEF Nodes
<1>4. NoList \notin ListIds /\ ListIds \cap Items = {} BY ListAssumption
<1>5. LinkedIn(nx, pv, nx1, pv1, At(l, s, i), At(l, s, i + 1), x)
      /\ of1 = [of EXCEPT ![x] = l] /\ cnt1 = [cnt EXCEPT ![l] = @ + 1]
  BY <1>b DEF JoinsAt
<1>6. ~In(x, s) BY <1>a, <1>1, <1>4
<1>7. Chain(nx1, pv1, l, t) BY <1>a, <1>1, <1>5, <1>6, <1>b, InsertChain DEF LinkTypes
<1>8. LinkTypes(nx1, pv1, of1, ix, cnt1)
  <2> DEFINE a == At(l, s, i)
             b == At(l, s, i + 1)
  <2>1. a \in Nodes /\ b \in Nodes /\ nx1 = [nx EXCEPT ![x] = b, ![a] = x]
        /\ pv1 = [pv EXCEPT ![x] = a, ![b] = x]
    BY <1>3, <1>5 DEF LinkedIn
  <2> HIDE DEF a, b
  <2>2. nx1 \in [Nodes -> Nodes] /\ pv1 \in [Nodes -> Nodes] BY <1>a, <1>3, <2>1 DEF LinkTypes
  <2>3. of1 \in [Items -> ListIds \cup {NoList}] BY <1>a, <1>5 DEF LinkTypes
  <2>4. cnt1 \in [ListIds -> Nat] BY <1>a, <1>5 DEF LinkTypes
  <2> QED BY <1>a, <2>2, <2>3, <2>4 DEF LinkTypes
<1>9. \A y : In(y, t) <=> y = x \/ In(y, s) BY <1>b, <1>2, InsertedIn
<1>10. \A y \in Items : of1[y] = IF y = x THEN l ELSE of[y] BY <1>a, <1>5 DEF LinkTypes
<1>11. cnt1[l] = cnt[l] + 1 /\ \A m \in ListIds \ {l} : cnt1[m] = cnt[m] BY <1>a, <1>5 DEF LinkTypes
<1>12. Holds(l, t, nx1, pv1, of1, ix, cnt1)
  <2>1. Len(t) = Len(s) + 1 /\ t \in Seq(Items) BY <1>b DEF Inserted
  <2>2. \E k \in 0 .. Len(t) : ix[l] = At(l, t, k)
    <3>1. CASE ix[l] = l
      <4>1. At(l, t, 0) = l /\ 0 \in 0 .. Len(t) BY <1>2, <2>1 DEF At
      <4> QED BY <3>1, <4>1
    <3>2. CASE ix[l] # l
      <4>1. In(ix[l], s) BY <1>1, <3>2 DEF At, In
      <4>2. PICK k \in 1 .. Len(t) : t[k] = ix[l] BY <1>9, <4>1 DEF In
      <4>3. k \in 0 .. Len(t) /\ At(l, t, k) = t[k] BY <4>2 DEF At
      <4> QED BY <4>2, <4>3
    <3> QED BY <3>1, <3>2
  <2>3. \A y \in Items : of1[y] = l <=> In(y, t) BY <1>1, <1>9, <1>10
  <2> QED BY <1>1, <1>7, <1>11, <2>1, <2>2, <2>3 DEF Holds
<1>13. ASSUME NEW m \in ListIds \ {l}, NEW u, Holds(m, u, nx, pv, of, ix, cnt)
       PROVE  Holds(m, u, nx1, pv1, of1, ix, cnt1)
  <2> DEFINE A == {x, At(l, s, i)}
             B == {x, At(l, s, i + 1)}
  <2>1. (\A d \in Nodes \ A : nx1[d] = nx[d]) /\ (\A d \in Nodes \ B : pv1[d] = pv[d])
    BY <1>a, <1>3, <1>5 DEF LinkTypes, LinkedIn
  <2>2. \A d \in A \cup B : d # m /\ (d \in Items => of[d] # m) BY <1>a, <1>3, <1>4
  <2>3. (\A y \in Items : of1[y] = m <=> of[y] = m) /\ cnt1[m] = cnt[m] BY <1>a, <1>4, <1>10, <1>11
  <2>4. Spares(m, of, nx, pv, nx1, pv1, A, B) BY <2>1, <2>2 DEF Spares
  <2> HIDE DEF A, B
  <2> QED BY <1>13, <2>3, <2>4, FrameHolds
<1> QED BY <1>8, <1>12, <1>13

(* What the removal of x, between nodes a and b of list l, assigns.        *)
LeavesAt(l, x, a, b, nx, pv, of, ix, cnt, nx1, pv1, of1, ix1, cnt1) ==
    /\ LinkedOut(nx, pv, nx1, pv1, a, b)
    /\ of1 = [of EXCEPT ![x] = NoList]
    /\ ix1 = [ix EXCEPT ![l] = IF @ = x THEN a ELSE @]
    /\ cnt1 = [cnt EXCEPT ![l] = @ - 1]

(* The list an item leaves holds the others, pxIndex a step back if it was *)
(* on the item, and the other lists what they held.                        *)
LEMMA LeaveHolds ==
    ASSUME NEW l \in ListIds, NEW s, NEW i \in 1 .. Len(s),
           NEW nx, NEW pv, NEW of, NEW ix, NEW cnt, LinkTypes(nx, pv, of, ix, cnt),
           Holds(l, s, nx, pv, of, ix, cnt),
           NEW nx1, NEW pv1, NEW of1, NEW ix1, NEW cnt1,
           LeavesAt(l, s[i], At(l, s, i - 1), At(l, s, i + 1),
                    nx, pv, of, ix, cnt, nx1, pv1, of1, ix1, cnt1),
           NEW t, Removed(s, t, i)
    PROVE  /\ LinkTypes(nx1, pv1, of1, ix1, cnt1)
           /\ Holds(l, t, nx1, pv1, of1, ix1, cnt1)
           /\ \A m \in ListIds \ {l} : \A u :
                Holds(m, u, nx, pv, of, ix, cnt) => Holds(m, u, nx1, pv1, of1, ix1, cnt1)
<1> DEFINE x == s[i]
           a == At(l, s, i - 1)
<1>1. /\ Chain(nx, pv, l, s) /\ \A y \in Items : of[y] = l <=> In(y, s)
      /\ cnt[l] = Len(s) /\ \E k \in 0 .. Len(s) : ix[l] = At(l, s, k)
      /\ l \in Ordered => ix[l] = l
  BY DEF Holds
<1>2. /\ s \in Seq(Items) /\ Len(s) \in Nat /\ i - 1 \in Int /\ i + 1 \in Int /\ x \in Items
      /\ At(l, s, 0) = l /\ \A k \in 1 .. Len(s) : At(l, s, k) = s[k]
      /\ \A k, j \in 0 .. Len(s) : At(l, s, j) = At(l, s, k) => j = k
  BY <1>1, NodeFacts
<1>3. /\ At(l, s, i - 1) \in Nodes /\ At(l, s, i + 1) \in Nodes /\ x \in Nodes
      /\ At(l, s, i - 1) = l \/ (At(l, s, i - 1) \in Items /\ of[At(l, s, i - 1)] = l)
      /\ At(l, s, i + 1) = l \/ (At(l, s, i + 1) \in Items /\ of[At(l, s, i + 1)] = l)
  BY <1>2, NodeOf DEF Nodes
<1>4. NoList \notin ListIds /\ ListIds \cap Items = {} BY ListAssumption
<1>5. /\ LinkedOut(nx, pv, nx1, pv1, At(l, s, i - 1), At(l, s, i + 1))
      /\ of1 = [of EXCEPT ![x] = NoList] /\ cnt1 = [cnt EXCEPT ![l] = @ - 1]
      /\ ix1 = [ix EXCEPT ![l] = IF @ = x THEN a ELSE @]
  BY DEF LeavesAt
<1>6. of[x] = l BY <1>1, <1>2 DEF In
<1>7. Chain(nx1, pv1, l, t) BY <1>1, <1>5, RemoveChain DEF LinkTypes
<1>8. Len(t) = Len(s) - 1 /\ t \in Seq(Items) /\ Len(t) \in Nat BY <1>2 DEF Removed
<1>9. \A y : In(y, t) <=> y # x /\ In(y, s)
  <2>1. \A j, k \in 1 .. Len(s) : s[j] = s[k] => j = k BY <1>1 DEF Chain
  <2> QED BY <1>2, <2>1, RemovedIn
<1>10. \A y \in Items : of1[y] = IF y = x THEN NoList ELSE of[y] BY <1>5 DEF LinkTypes
<1>11. /\ cnt1[l] = cnt[l] - 1 /\ \A m \in ListIds \ {l} : cnt1[m] = cnt[m] /\ ix1[m] = ix[m]
       /\ ix1[l] = IF ix[l] = x THEN a ELSE ix[l]
  BY <1>5 DEF LinkTypes
<1>12. LinkTypes(nx1, pv1, of1, ix1, cnt1)
  <2>1. nx1 \in [Nodes -> Nodes] /\ pv1 \in [Nodes -> Nodes] BY <1>3, <1>5 DEF LinkTypes, LinkedOut
  <2>2. of1 \in [Items -> ListIds \cup {NoList}] BY <1>5 DEF LinkTypes
  <2>3. ix1 \in [ListIds -> Nodes] BY <1>3, <1>5 DEF LinkTypes
  <2>4. cnt1 \in [ListIds -> Nat] BY <1>1, <1>2, <1>5, <1>8 DEF LinkTypes
  <2> QED BY <2>1, <2>2, <2>3, <2>4 DEF LinkTypes
<1>13. Holds(l, t, nx1, pv1, of1, ix1, cnt1)
  <2>1. ix1[l] = l \/ In(ix1[l], t)
    <3>1. ix[l] = l \/ In(ix[l], s) BY <1>1 DEF At, In
    <3>2. CASE ix[l] = x
      <4>1. ix1[l] = a BY <1>11, <3>2
      <4>2. CASE i = 1 BY <1>2, <4>1, <4>2
      <4>3. CASE i # 1
        <5>1. i - 1 \in 1 .. Len(s) /\ i - 1 \in 0 .. Len(s) /\ i \in 0 .. Len(s) /\ i - 1 # i BY <1>2, <4>3
        <5>2. a = s[i - 1] /\ a # x BY <1>2, <5>1
        <5> QED BY <1>9, <4>1, <5>1, <5>2 DEF In
      <4> QED BY <4>2, <4>3
    <3>3. CASE ix[l] # x BY <1>9, <1>11, <3>1, <3>3
    <3> QED BY <3>2, <3>3
  <2>2. \E k \in 0 .. Len(t) : ix1[l] = At(l, t, k)
    <3>1. CASE ix1[l] = l
      <4>1. At(l, t, 0) = l /\ 0 \in 0 .. Len(t) BY <1>8 DEF At
      <4> QED BY <3>1, <4>1
    <3>2. CASE In(ix1[l], t)
      <4>1. PICK k \in 1 .. Len(t) : t[k] = ix1[l] BY <3>2 DEF In
      <4>2. k \in 0 .. Len(t) /\ At(l, t, k) = t[k] BY <4>1 DEF At
      <4> QED BY <4>1, <4>2
    <3> QED BY <2>1, <3>1, <3>2
  <2>3. \A y \in Items : of1[y] = l <=> In(y, t) BY <1>1, <1>4, <1>9, <1>10
  <2>4. l \in Ordered => ix1[l] = l
    <3>1. x # l BY <1>2, <1>4
    <3> QED BY <1>1, <1>11, <3>1
  <2>5. cnt1[l] = Len(t) BY <1>1, <1>8, <1>11
  <2> QED BY <1>7, <2>2, <2>3, <2>4, <2>5 DEF Holds
<1>14. ASSUME NEW m \in ListIds \ {l}, NEW u, Holds(m, u, nx, pv, of, ix, cnt)
       PROVE  Holds(m, u, nx1, pv1, of1, ix1, cnt1)
  <2> DEFINE A == {At(l, s, i - 1)}
             B == {At(l, s, i + 1)}
  <2>1. (\A d \in Nodes \ A : nx1[d] = nx[d]) /\ (\A d \in Nodes \ B : pv1[d] = pv[d])
    BY <1>3, <1>5 DEF LinkTypes, LinkedOut
  <2>2. \A d \in A \cup B : d # m /\ (d \in Items => of[d] # m) BY <1>3, <1>4
  <2>3. (\A y \in Items : of1[y] = m <=> of[y] = m) /\ cnt1[m] = cnt[m] /\ ix1[m] = ix[m]
    BY <1>4, <1>6, <1>10, <1>11
  <2>4. Spares(m, of, nx, pv, nx1, pv1, A, B) BY <2>1, <2>2 DEF Spares
  <2> HIDE DEF A, B
  <2> QED BY <1>14, <2>3, <2>4, FrameHolds
<1> QED BY <1>12, <1>13, <1>14

-----------------------------------------------------------------------------
(* The steps.                                                              *)

(* The sequences the refinement gives the abstract lists.                  *)
Seqs == [l \in ListIds |-> [items |-> Forward(l), index |-> Position(Forward(l), pxIndex[l])]]

(* A step that makes list l hold t and lets the others hold what they did. *)
LEMMA Update ==
    ASSUME ListInv, NEW l \in ListIds, NEW t, xItemValue' \in [Items -> Values],
           LinkTypes(pxNext', pxPrevious', pxContainer', pxIndex', uxNumberOfItems'),
           Holds(l, t, pxNext', pxPrevious', pxContainer', pxIndex', uxNumberOfItems'),
           \A m \in ListIds \ {l} : \A u :
             Holds(m, u, pxNext, pxPrevious, pxContainer, pxIndex, uxNumberOfItems) =>
             Holds(m, u, pxNext', pxPrevious', pxContainer', pxIndex', uxNumberOfItems')
    PROVE  /\ ListInv' /\ Forward(l)' = t
           /\ \A m \in ListIds \ {l} : Forward(m)' = Forward(m)
<1>1. Forward(l)' = t BY ForwardFacts DEF Forward
<1>2. ASSUME NEW m \in ListIds \ {l}
      PROVE  /\ Forward(m)' = Forward(m)
             /\ Holds(m, Forward(m)', pxNext', pxPrevious', pxContainer', pxIndex', uxNumberOfItems')
  <2> DEFINE u == Forward(m)
  <2>1. Holds(m, u, pxNext, pxPrevious, pxContainer, pxIndex, uxNumberOfItems) BY DEF ListInv
  <2> HIDE DEF u
  <2>2. Holds(m, u, pxNext', pxPrevious', pxContainer', pxIndex', uxNumberOfItems') BY <2>1
  <2>3. Forward(m)' = u BY <2>2, ForwardFacts DEF Forward
  <2> QED BY <2>2, <2>3 DEF u
<1> QED BY <1>1, <1>2 DEF ListInv

(* A step that links a free item into list l, after position i.            *)
LEMMA JoinStep ==
    ASSUME ListInv, NEW l \in ListIds, NEW s, s = Forward(l), NEW x \in Items, pxContainer[x] = NoList,
           NEW i \in 0 .. Len(s), NEW t, Inserted(s, t, i + 1, x),
           JoinsAt(l, x, At(l, s, i), At(l, s, i + 1), pxNext, pxPrevious, pxContainer, uxNumberOfItems,
                   pxNext', pxPrevious', pxContainer', uxNumberOfItems'),
           pxIndex' = pxIndex, xItemValue' \in [Items -> Values]
    PROVE  /\ ListInv' /\ Forward(l)' = t /\ Chain(pxNext', pxPrevious', l, t)
           /\ \A m \in ListIds \ {l} : Forward(m)' = Forward(m)
<1>1. /\ LinkTypes(pxNext, pxPrevious, pxContainer, pxIndex, uxNumberOfItems)
      /\ Holds(l, s, pxNext, pxPrevious, pxContainer, pxIndex, uxNumberOfItems)
  BY DEF ListInv
<1>2. /\ LinkTypes(pxNext', pxPrevious', pxContainer', pxIndex, uxNumberOfItems')
      /\ Holds(l, t, pxNext', pxPrevious', pxContainer', pxIndex, uxNumberOfItems')
      /\ \A m \in ListIds \ {l} : \A u :
           Holds(m, u, pxNext, pxPrevious, pxContainer, pxIndex, uxNumberOfItems) =>
           Holds(m, u, pxNext', pxPrevious', pxContainer', pxIndex, uxNumberOfItems')
  <2>1. Joining(l, x, s, t, pxNext, pxPrevious, pxContainer, pxIndex, uxNumberOfItems,
                pxNext', pxPrevious', pxContainer', uxNumberOfItems')
    BY <1>1 DEF Joining
  <2> QED BY <2>1, JoinHolds
<1>3. Chain(pxNext', pxPrevious', l, t) BY <1>2 DEF Holds
<1> QED BY <1>2, <1>3, Update

(* An item in no list is free.                                             *)
LEMMA FreeFacts ==
    ASSUME ListInv, NEW x \in Items, pxContainer[x] = NoList
    PROVE  x \in Abstract!Free
<1>1. ASSUME NEW l \in ListIds PROVE ~Abstract!Contains(Forward(l), x)
  <2>1. pxContainer[x] = l <=> In(x, Forward(l)) BY DEF ListInv, Holds
  <2>2. pxContainer[x] # l BY ListAssumption
  <2> QED BY <2>1, <2>2 DEF Abstract!Contains, In
<1> QED BY <1>1 DEF Abstract!Free

(* vListInsertEnd links the item in front of the one under pxIndex, which  *)
(* stays where it is.                                                      *)
LEMMA InsertEndStep ==
    ASSUME ListInv, NEW l \in ListIds \ Ordered, NEW x \in Items, vListInsertEnd(l, x)
    PROVE  ListInv' /\ Abstract!InsertEnd
<1> DEFINE s == Forward(l)
           d == pxIndex[l]
<1>1. /\ LinkTypes(pxNext, pxPrevious, pxContainer, pxIndex, uxNumberOfItems)
      /\ xItemValue \in [Items -> Values]
      /\ Holds(l, s, pxNext, pxPrevious, pxContainer, pxIndex, uxNumberOfItems)
  BY DEF ListInv
<1>2. pxContainer[x] = NoList BY DEF vListInsertEnd, Joins
<1>3. x \in Abstract!Free BY <1>2, FreeFacts
<1>4. Seqs[l] = [items |-> s, index |-> Position(s, d)] BY DEF Seqs
<1> HIDE DEF s
<1>5. Chain(pxNext, pxPrevious, l, s) BY <1>1 DEF Holds
<1>6. PICK i \in 0 .. Len(s) : d = At(l, s, i) BY <1>1 DEF Holds
<1>7. /\ s \in Seq(Items) /\ Len(s) \in Nat /\ At(l, s, 0) = l /\ At(l, s, Len(s) + 1) = l
  BY <1>5, NodeFacts
<1>8. Position(s, d) = i BY <1>5, <1>6, PositionFacts
<1> DEFINE k == IF i = 0 THEN Len(s) ELSE i - 1
           t == IF i = 0 THEN Append(s, x) ELSE Abstract!InsertAt(s, i, x)
           j == IF i = 0 THEN 0 ELSE i + 1
<1>9. k \in 0 .. Len(s) /\ At(l, s, k + 1) = d BY <1>6, <1>7
<1>10. Inserted(s, t, k + 1, x)
  <2>1. CASE i = 0
    <3>1. t = Append(s, x) /\ k = Len(s) BY <2>1
    <3> QED BY <1>7, <3>1 DEF Inserted
  <2>2. CASE i # 0
    <3>1. i \in 1 .. Len(s) + 1 /\ t = Abstract!InsertAt(s, i, x) /\ k + 1 = i BY <1>7, <2>2
    <3> QED BY <1>7, <3>1, InsertAtFacts
  <2> QED BY <2>1, <2>2
<1>11. j \in 0 .. Len(s) + 1 /\ At(l, t, j) = d
  <2>0. /\ \A m \in 0 .. k : At(l, t, m) = At(l, s, m)
        /\ \A m \in k + 2 .. Len(s) + 2 : At(l, t, m) = At(l, s, m - 1)
    <3> HIDE DEF k, t
    <3> QED BY <1>7, <1>9, <1>10, InsertedAt
  <2>1. CASE i = 0
    <3>1. 0 \in 0 .. k BY <1>9
    <3>2. At(l, t, 0) = At(l, s, 0) BY <2>0, <3>1
    <3> QED BY <1>6, <1>7, <2>1, <3>2
  <2>2. CASE i # 0
    <3>1. i + 1 \in k + 2 .. Len(s) + 2 /\ (i + 1) - 1 = i BY <1>7, <2>2
    <3>2. At(l, t, i + 1) = At(l, s, i) BY <2>0, <3>1
    <3> QED BY <1>6, <1>7, <2>2, <3>2
  <2> QED BY <2>1, <2>2
<1>12. Abstract!vListInsertEnd([items |-> s, index |-> i], x) = [items |-> t, index |-> j]
  BY DEF Abstract!vListInsertEnd
<1> HIDE DEF k, t, j
<1>13. pxPrevious[d] = At(l, s, k) BY <1>5, <1>9 DEF Chain
<1>14. JoinsAt(l, x, At(l, s, k), At(l, s, k + 1), pxNext, pxPrevious, pxContainer, uxNumberOfItems,
               pxNext', pxPrevious', pxContainer', uxNumberOfItems')
       /\ pxIndex' = pxIndex /\ xItemValue' = xItemValue
  BY <1>9, <1>13 DEF vListInsertEnd, Joins, JoinsAt, LinkedIn
<1>15. xItemValue' \in [Items -> Values] /\ s = Forward(l) BY <1>1, <1>14 DEF s
<1>16. /\ ListInv' /\ Forward(l)' = t /\ Chain(pxNext', pxPrevious', l, t)
       /\ \A m \in ListIds \ {l} : Forward(m)' = Forward(m)
  BY <1>2, <1>9, <1>10, <1>14, <1>15, JoinStep
<1>17. Position(t, d) = j
  <2>1. Chain(pxNext', pxPrevious', l, t) /\ Len(t) = Len(s) + 1 BY <1>10, <1>16 DEF Inserted
  <2> QED BY <1>11, <2>1, PositionFacts
<1>18. Seqs' = [Seqs EXCEPT ![l] = Abstract!vListInsertEnd(@, x)]
  BY <1>4, <1>8, <1>12, <1>14, <1>16, <1>17 DEF Seqs
<1> QED BY <1>3, <1>14, <1>16, <1>18 DEF Abstract!InsertEnd, Seqs

(* vListInsert links the item behind the last whose value is not larger,   *)
(* the largest value without a search.                                     *)
LEMMA InsertStep ==
    ASSUME ListInv, NEW l \in Ordered, NEW x \in Items, NEW v \in Values, vListInsert(l, x, v)
    PROVE  ListInv' /\ Abstract!Insert
<1> DEFINE s == Forward(l)
           val == [xItemValue EXCEPT ![x] = v]
<1>1. /\ l \in ListIds /\ EndValue \in Nat /\ v \in Int /\ v <= EndValue
      /\ \A w \in Values : w \in Int /\ w <= EndValue
  BY ListAssumption
<1>2. /\ LinkTypes(pxNext, pxPrevious, pxContainer, pxIndex, uxNumberOfItems)
      /\ xItemValue \in [Items -> Values]
      /\ Holds(l, s, pxNext, pxPrevious, pxContainer, pxIndex, uxNumberOfItems)
  BY <1>1 DEF ListInv
<1>3. pxContainer[x] = NoList BY DEF vListInsert, Joins
<1>4. x \in Abstract!Free BY <1>3, FreeFacts
<1>5. Seqs[l] = [items |-> s, index |-> Position(s, pxIndex[l])] BY <1>1 DEF Seqs
<1> HIDE DEF s
<1>6. /\ Chain(pxNext, pxPrevious, l, s) /\ pxIndex[l] = l
      /\ \A y \in Items : pxContainer[y] = l <=> In(y, s)
  BY <1>2 DEF Holds
<1>7. /\ s \in Seq(Items) /\ Len(s) \in Nat /\ At(l, s, 0) = l /\ At(l, s, Len(s) + 1) = l
      /\ \A i \in 1 .. Len(s) : s[i] \in Items
  BY <1>1, <1>6, NodeFacts
<1>8. val \in [Items -> Values] /\ val \in [Items -> Int] /\ val[x] = v BY <1>1, <1>2
<1>9. xItemValue' = val /\ pxIndex' = pxIndex BY DEF vListInsert
<1> DEFINE last == IF v = EndValue THEN pxPrevious[l]
                   ELSE PastValue(pxNext, Members(l), l, val, v)
<1>10. /\ Joins(l, x) /\ LinkBehind(last, x) BY DEF vListInsert
<1>11. \E k : Stops(s, val, v, k) /\ last = At(l, s, k - 1)
  <2>1. CASE v = EndValue
    <3>1. \A j \in 1 .. Len(s) : val[s[j]] <= v BY <1>1, <1>7, <1>8, <2>1
    <3>2. Len(s) + 1 \in 1 .. Len(s) + 1 /\ (Len(s) + 1) - 1 = Len(s) /\ ~(Len(s) + 1 <= Len(s)) BY <1>7
    <3>3. Stops(s, val, v, Len(s) + 1) BY <3>1, <3>2 DEF Stops
    <3>4. Len(s) \in 0 .. Len(s) BY <1>7
    <3>5. last = At(l, s, Len(s)) BY <1>6, <1>7, <2>1, <3>4 DEF Chain
    <3> QED BY <3>2, <3>3, <3>5
  <2>2. CASE v # EndValue
    <3>1. v < EndValue BY <1>1, <2>2
    <3> DEFINE nodes == Members(l)
    <3>2. \A d : d \in nodes <=> d = l \/ (d \in Items /\ In(d, s)) BY <1>6 DEF Members
    <3>3. last = PastValue(pxNext, nodes, l, val, v) BY <2>2
    <3> HIDE DEF nodes, val, last
    <3> QED BY <1>1, <1>6, <1>8, <3>1, <3>2, <3>3, PastFacts
  <2> QED BY <2>1, <2>2
<1> HIDE DEF val, last
<1>12. PICK i \in 0 .. Len(s) : Stops(s, val, v, i + 1) /\ last = At(l, s, i)
  <2>1. PICK k : Stops(s, val, v, k) /\ last = At(l, s, k - 1) BY <1>11
  <2>2. k - 1 \in 0 .. Len(s) /\ (k - 1) + 1 = k BY <1>7, <2>1 DEF Stops
  <2> QED BY <2>1, <2>2
<1> DEFINE t == Abstract!InsertAt(s, i + 1, x)
<1>13. i + 1 \in 1 .. Len(s) + 1 BY <1>7
<1>14. Inserted(s, t, i + 1, x) BY <1>7, <1>13, InsertAtFacts
<1>15. Abstract!vListInsert(s, x, val) = t
  <2>1. Abstract!vListInsertPos(s, val, v) = i + 1 BY <1>1, <1>7, <1>8, <1>12, AbstractPos
  <2> QED BY <1>8, <2>1 DEF Abstract!vListInsert
<1>16. last = At(l, s, i) BY <1>12
<1> HIDE DEF t
<1>17. pxNext[last] = At(l, s, i + 1) BY <1>6, <1>13, <1>16 DEF Chain
<1>18. JoinsAt(l, x, At(l, s, i), At(l, s, i + 1), pxNext, pxPrevious, pxContainer, uxNumberOfItems,
               pxNext', pxPrevious', pxContainer', uxNumberOfItems')
  BY <1>10, <1>16, <1>17 DEF Joins, LinkBehind, JoinsAt, LinkedIn
<1>19. l \in ListIds /\ xItemValue' \in [Items -> Values] /\ s = Forward(l) BY <1>1, <1>8, <1>9 DEF s
<1>20. /\ ListInv' /\ Forward(l)' = t /\ Chain(pxNext', pxPrevious', l, t)
       /\ \A m \in ListIds \ {l} : Forward(m)' = Forward(m)
  BY <1>3, <1>9, <1>14, <1>18, <1>19, JoinStep
<1>21. Position(s, pxIndex[l]) = 0 /\ Position(t, pxIndex[l]) = 0
  <2>1. Chain(pxNext', pxPrevious', l, t) /\ Len(t) = Len(s) + 1 BY <1>14, <1>20 DEF Inserted
  <2>2. 0 \in 0 .. Len(s) /\ 0 \in 0 .. Len(t) /\ At(l, t, 0) = l BY <1>7, <2>1 DEF At
  <2> QED BY <1>1, <1>6, <1>7, <2>1, <2>2, PositionFacts
<1>22. Seqs' = [Seqs EXCEPT ![l].items = Abstract!vListInsert(@, x, val)]
  BY <1>1, <1>5, <1>9, <1>15, <1>20, <1>21 DEF Seqs
<1>23. /\ xItemValue' = [xItemValue EXCEPT ![x] = v]
       /\ Seqs' = [Seqs EXCEPT ![l].items = Abstract!vListInsert(@, x, [xItemValue EXCEPT ![x] = v])]
  BY <1>9, <1>22 DEF val
<1>24. \E y \in Abstract!Free, w \in Values :
         /\ xItemValue' = [xItemValue EXCEPT ![y] = w]
         /\ Seqs' = [Seqs EXCEPT ![l].items = Abstract!vListInsert(@, y, [xItemValue EXCEPT ![y] = w])]
  BY <1>4, <1>23
<1>25. Abstract!Insert BY <1>24 DEF Abstract!Insert, Seqs
<1> QED BY <1>20, <1>25

(* uxListRemove unlinks the item and moves pxIndex back off it.            *)
LEMMA RemoveStep ==
    ASSUME ListInv, NEW x \in Items, uxListRemove(x)
    PROVE  ListInv' /\ Abstract!Take
<1>0. PICK l \in ListIds : l = pxContainer[x] BY DEF ListInv, LinkTypes, uxListRemove
<1> DEFINE s == Forward(l)
           d == pxIndex[l]
<1>1. l \in ListIds OBVIOUS
<1>2. /\ LinkTypes(pxNext, pxPrevious, pxContainer, pxIndex, uxNumberOfItems)
      /\ xItemValue \in [Items -> Values]
      /\ Holds(l, s, pxNext, pxPrevious, pxContainer, pxIndex, uxNumberOfItems)
  BY <1>1 DEF ListInv
<1>3. Seqs[l] = [items |-> s, index |-> Position(s, d)] BY <1>1 DEF Seqs
<1>4. /\ pxPrevious' = [pxPrevious EXCEPT ![pxNext[x]] = pxPrevious[x]]
      /\ pxNext' = [pxNext EXCEPT ![pxPrevious[x]] = pxNext[x]]
      /\ pxIndex' = [pxIndex EXCEPT ![l] = IF @ = x THEN pxPrevious[x] ELSE @]
      /\ pxContainer' = [pxContainer EXCEPT ![x] = NoList]
      /\ uxNumberOfItems' = [uxNumberOfItems EXCEPT ![l] = @ - 1]
      /\ xItemValue' = xItemValue
  BY <1>0 DEF uxListRemove
<1>5. In(x, s) BY <1>0, <1>2 DEF Holds
<1> HIDE DEF s
<1>6. Chain(pxNext, pxPrevious, l, s) BY <1>2 DEF Holds
<1>7. PICK i \in 1 .. Len(s) : s[i] = x BY <1>5 DEF In
<1>8. PICK j \in 0 .. Len(s) : d = At(l, s, j) BY <1>2 DEF Holds
<1>9. /\ s \in Seq(Items) /\ Len(s) \in Nat /\ At(l, s, 0) = l /\ At(l, s, Len(s) + 1) = l
      /\ \A k \in 1 .. Len(s) : At(l, s, k) = s[k]
      /\ \A k, m \in 0 .. Len(s) : At(l, s, k) = At(l, s, m) => k = m
  BY <1>1, <1>6, NodeFacts
<1>10. Position(s, d) = j BY <1>1, <1>6, <1>8, PositionFacts
<1> DEFINE t == Abstract!RemoveAt(s, i)
           p == IF i <= j THEN j - 1 ELSE j
<1>11. Removed(s, t, i) BY <1>9, RemoveAtFacts
<1>12. Abstract!uxListRemove([items |-> s, index |-> j], x) = [items |-> t, index |-> p]
  <2>1. \A k, m \in 1 .. Len(s) : s[k] = s[m] => k = m BY <1>6 DEF Chain
  <2> QED BY <1>7, <1>9, <2>1, AbstractRemove
<1>13. pxNext[x] = At(l, s, i + 1) /\ pxPrevious[x] = At(l, s, i - 1)
  <2>1. i \in 0 .. Len(s) /\ i - 1 \in 0 .. Len(s) /\ (i - 1) + 1 = i /\ At(l, s, i) = x BY <1>7, <1>9
  <2> QED BY <1>6, <2>1 DEF Chain
<1> HIDE DEF t
<1>14. LeavesAt(l, s[i], At(l, s, i - 1), At(l, s, i + 1), pxNext, pxPrevious, pxContainer, pxIndex,
                uxNumberOfItems, pxNext', pxPrevious', pxContainer', pxIndex', uxNumberOfItems')
  BY <1>4, <1>7, <1>13 DEF LeavesAt, LinkedOut
<1>15. /\ LinkTypes(pxNext', pxPrevious', pxContainer', pxIndex', uxNumberOfItems')
       /\ Holds(l, t, pxNext', pxPrevious', pxContainer', pxIndex', uxNumberOfItems')
       /\ \A m \in ListIds \ {l} : \A u :
            Holds(m, u, pxNext, pxPrevious, pxContainer, pxIndex, uxNumberOfItems) =>
            Holds(m, u, pxNext', pxPrevious', pxContainer', pxIndex', uxNumberOfItems')
  BY <1>1, <1>2, <1>11, <1>14, LeaveHolds
<1>16. /\ ListInv' /\ Forward(l)' = t
       /\ \A m \in ListIds \ {l} : Forward(m)' = Forward(m)
  <2>1. xItemValue' \in [Items -> Values] BY <1>2, <1>4
  <2> QED BY <1>1, <1>15, <2>1, Update
<1>17. /\ \A m \in ListIds \ {l} : pxIndex'[m] = pxIndex[m]
       /\ pxIndex'[l] = IF d = x THEN At(l, s, i - 1) ELSE d
  BY <1>1, <1>2, <1>4, <1>13 DEF LinkTypes
<1>18. Position(t, pxIndex'[l]) = p
  <2>a. Chain(pxNext', pxPrevious', l, t) /\ Len(t) = Len(s) - 1 BY <1>11, <1>15 DEF Holds, Removed
  <2>b. /\ \A k \in 0 .. i - 1 : At(l, t, k) = At(l, s, k)
        /\ \A k \in i .. Len(s) : At(l, t, k) = At(l, s, k + 1)
    BY <1>9, <1>11, RemovedAt
  <2>1. /\ Chain(pxNext', pxPrevious', l, t) /\ Len(t) = Len(s) - 1
        /\ \A k \in 0 .. i - 1 : At(l, t, k) = At(l, s, k)
        /\ \A k \in i .. Len(s) : At(l, t, k) = At(l, s, k + 1)
    BY <2>a, <2>b
  <2>2. d = x <=> j = i
    <3>1. i \in 0 .. Len(s) /\ At(l, s, i) = x BY <1>7, <1>9
    <3> QED BY <1>8, <1>9, <3>1
  <2>3. p \in 0 .. Len(t) /\ At(l, t, p) = pxIndex'[l]
    <3>1. CASE j < i
      <4>1. j \in 0 .. i - 1 /\ p = j /\ p \in 0 .. Len(t) BY <1>9, <2>1, <3>1
      <4> QED BY <1>8, <1>17, <2>1, <2>2, <3>1, <4>1
    <3>2. CASE j = i
      <4>1. i - 1 \in 0 .. i - 1 /\ p = i - 1 /\ p \in 0 .. Len(t) BY <1>9, <2>1, <3>2
      <4> QED BY <1>17, <2>1, <2>2, <3>2, <4>1
    <3>3. CASE j > i
      <4>1. j - 1 \in i .. Len(s) /\ (j - 1) + 1 = j /\ p = j - 1 /\ p \in 0 .. Len(t) /\ j # i
        BY <1>9, <2>1, <3>3
      <4> QED BY <1>8, <1>17, <2>1, <2>2, <4>1
    <3> QED BY <1>9, <3>1, <3>2, <3>3
  <2> HIDE DEF p
  <2> QED BY <1>1, <2>1, <2>3, PositionFacts
<1>19. Seqs' = [Seqs EXCEPT ![l] = Abstract!uxListRemove(@, x)]
  <2>1. Abstract!uxListRemove(Seqs[l], x) = [items |-> t, index |-> p] BY <1>3, <1>10, <1>12
  <2>2. Seqs' = [m \in ListIds |-> [items |-> Forward(m)', index |-> Position(Forward(m)', pxIndex'[m])]]
    BY DEF Seqs
  <2> HIDE DEF p
  <2>3. ASSUME NEW m \in ListIds
        PROVE  Seqs'[m] = IF m = l THEN Abstract!uxListRemove(Seqs[l], x) ELSE Seqs[m]
    <3>1. CASE m = l BY <1>16, <1>18, <2>1, <2>2, <3>1
    <3>2. CASE m # l
      <4>1. Forward(m)' = Forward(m) /\ pxIndex'[m] = pxIndex[m] BY <1>16, <1>17, <3>2
      <4> QED BY <2>2, <3>2, <4>1 DEF Seqs
    <3> QED BY <3>1, <3>2
  <2>4. Seqs = [m \in ListIds |-> Seqs[m]] /\ Seqs' = [m \in ListIds |-> Seqs'[m]] BY <2>2 DEF Seqs
  <2> HIDE DEF Seqs
  <2> QED BY <1>1, <2>3, <2>4
<1>20. x \in Abstract!ToSet(Seqs[l].items)
  <2>1. i \in DOMAIN s BY <1>9
  <2> QED BY <1>3, <1>7, <2>1 DEF Abstract!ToSet
<1> QED BY <1>1, <1>4, <1>16, <1>19, <1>20 DEF Abstract!Take, Seqs

(* listGET_OWNER_OF_NEXT_ENTRY moves pxIndex on and links nothing.         *)
LEMMA WalkStep ==
    ASSUME ListInv, NEW l \in ListIds \ Ordered, listGET_OWNER_OF_NEXT_ENTRY(l)
    PROVE  ListInv' /\ Abstract!Walk
<1> DEFINE s == Forward(l)
           d == pxIndex[l]
<1>1. /\ LinkTypes(pxNext, pxPrevious, pxContainer, pxIndex, uxNumberOfItems)
      /\ xItemValue \in [Items -> Values]
      /\ Holds(l, s, pxNext, pxPrevious, pxContainer, pxIndex, uxNumberOfItems)
  BY DEF ListInv
<1>2. Seqs[l] = [items |-> s, index |-> Position(s, d)] BY DEF Seqs
<1>3. /\ UNCHANGED <<pxNext, pxPrevious, xItemValue, pxContainer, uxNumberOfItems>>
      /\ uxNumberOfItems[l] > 0
      /\ pxIndex' = [pxIndex EXCEPT ![l] = IF pxNext[d] = l THEN pxNext[l] ELSE pxNext[d]]
  BY DEF listGET_OWNER_OF_NEXT_ENTRY
<1>4. \A m \in ListIds : Forward(m)' = Forward(m) BY <1>3 DEF Forward
<1> HIDE DEF s
<1>5. Chain(pxNext, pxPrevious, l, s) /\ Len(s) = uxNumberOfItems[l] BY <1>1 DEF Holds
<1>6. PICK i \in 0 .. Len(s) : d = At(l, s, i) BY <1>1 DEF Holds
<1>7. /\ s \in Seq(Items) /\ Len(s) \in Nat /\ Len(s) > 0
      /\ At(l, s, 0) = l /\ At(l, s, Len(s) + 1) = l
      /\ \A j \in 1 .. Len(s) : At(l, s, j) = s[j] /\ s[j] # l
      /\ \A j \in Int : At(l, s, j) \in Nodes
  BY <1>3, <1>5, NodeFacts
<1>8. Position(s, d) = i BY <1>5, <1>6, PositionFacts
<1>9. PICK j \in 1 .. Len(s) : j = IF i >= Len(s) THEN 1 ELSE i + 1 BY <1>7
<1>10. pxIndex'[l] = At(l, s, j)
  <2>1. pxIndex'[l] = IF pxNext[d] = l THEN pxNext[l] ELSE pxNext[d] BY <1>1, <1>3 DEF LinkTypes
  <2>2. pxNext[d] = At(l, s, i + 1) BY <1>5, <1>6 DEF Chain
  <2>3. pxNext[l] = At(l, s, 1)
    <3>1. 0 \in 0 .. Len(s) /\ 0 + 1 = 1 BY <1>7
    <3>2. pxNext[At(l, s, 0)] = At(l, s, 0 + 1) BY <1>5, <3>1 DEF Chain
    <3> QED BY <1>7, <3>1, <3>2
  <2>4. CASE i >= Len(s)
    <3>1. i = Len(s) /\ j = 1 BY <1>7, <1>9, <2>4
    <3>2. pxNext[d] = l BY <1>7, <2>2, <3>1
    <3> QED BY <2>1, <2>3, <3>1, <3>2
  <2>5. CASE ~(i >= Len(s))
    <3>1. j = i + 1 BY <1>9, <2>5
    <3>2. At(l, s, i + 1) # l BY <1>7, <3>1
    <3> QED BY <2>1, <2>2, <3>1, <3>2
  <2> QED BY <2>4, <2>5
<1>11. j \in 0 .. Len(s) BY <1>7
<1>12. Position(s, pxIndex'[l]) = j BY <1>5, <1>10, <1>11, PositionFacts
<1>13. pxIndex' \in [ListIds -> Nodes] /\ \A m \in ListIds \ {l} : pxIndex'[m] = pxIndex[m]
  <2>1. pxIndex'[l] \in Nodes BY <1>7, <1>10
  <2> DEFINE w == IF pxNext[d] = l THEN pxNext[l] ELSE pxNext[d]
  <2>2. w \in Nodes BY <1>1, <1>3, <2>1 DEF LinkTypes
  <2>3. pxIndex' = [pxIndex EXCEPT ![l] = w] BY <1>3
  <2> HIDE DEF w
  <2> QED BY <1>1, <2>2, <2>3 DEF LinkTypes
<1>14. ListInv'
  <2>1. LinkTypes(pxNext, pxPrevious, pxContainer, pxIndex', uxNumberOfItems) BY <1>1, <1>13 DEF LinkTypes
  <2>2. ASSUME NEW m \in ListIds
        PROVE  Holds(m, Forward(m), pxNext, pxPrevious, pxContainer, pxIndex', uxNumberOfItems)
    <3>1. CASE m = l BY <1>1, <1>10, <1>11, <3>1 DEF Holds, s
    <3>2. CASE m # l
      <4>1. Holds(m, Forward(m), pxNext, pxPrevious, pxContainer, pxIndex, uxNumberOfItems) BY DEF ListInv
      <4>2. pxIndex'[m] = pxIndex[m] BY <1>13, <3>2
      <4> QED BY <4>1, <4>2 DEF Holds
    <3> QED BY <3>1, <3>2
  <2> QED BY <1>1, <1>3, <1>4, <2>1, <2>2 DEF ListInv
<1>15. Seqs' = [Seqs EXCEPT ![l] = Abstract!listGET_OWNER_OF_NEXT_ENTRY(@)]
  <2>1. Abstract!listGET_OWNER_OF_NEXT_ENTRY(Seqs[l]) = [items |-> s, index |-> j]
    <3>1. Abstract!listGET_OWNER_OF_NEXT_ENTRY([items |-> s, index |-> i]) =
            [items |-> s, index |-> IF i >= Len(s) THEN 1 ELSE i + 1]
      BY DEF Abstract!listGET_OWNER_OF_NEXT_ENTRY
    <3> QED BY <1>2, <1>8, <1>9, <3>1
  <2>2. Seqs' = [m \in ListIds |-> [items |-> Forward(m)', index |-> Position(Forward(m)', pxIndex'[m])]]
    BY DEF Seqs
  <2>3. ASSUME NEW m \in ListIds
        PROVE  Seqs'[m] = IF m = l THEN Abstract!listGET_OWNER_OF_NEXT_ENTRY(Seqs[l]) ELSE Seqs[m]
    <3>1. CASE m = l BY <1>4, <1>12, <2>1, <2>2, <3>1 DEF s
    <3>2. CASE m # l
      <4>1. Forward(m)' = Forward(m) /\ pxIndex'[m] = pxIndex[m] BY <1>4, <1>13, <3>2
      <4> QED BY <2>2, <3>2, <4>1 DEF Seqs
    <3> QED BY <3>1, <3>2
  <2>4. Seqs = [m \in ListIds |-> Seqs[m]] /\ Seqs' = [m \in ListIds |-> Seqs'[m]] BY <2>2 DEF Seqs
  <2> HIDE DEF Seqs
  <2> QED BY <2>3, <2>4
<1>16. Seqs[l].items # <<>> BY <1>2, <1>7
<1> QED BY <1>3, <1>14, <1>15, <1>16 DEF Abstract!Walk, Seqs

(* A step that changes no variable changes neither.                        *)
LEMMA StutterStep ==
    ASSUME ListInv, UNCHANGED listVars
    PROVE  ListInv' /\ UNCHANGED <<Seqs, xItemValue>>
<1>1. UNCHANGED <<pxNext, pxPrevious, xItemValue, pxContainer, pxIndex, uxNumberOfItems>> BY DEF listVars
<1>2. \A m \in ListIds : Forward(m)' = Forward(m) BY <1>1 DEF Forward
<1>3. ListInv' BY <1>1, <1>2 DEF ListInv
<1>4. Seqs' = [m \in ListIds |-> [items |-> Forward(m)', index |-> Position(Forward(m)', pxIndex'[m])]]
  BY DEF Seqs
<1>5. Seqs' = Seqs BY <1>1, <1>2, <1>4 DEF Seqs
<1> QED BY <1>1, <1>3, <1>5

(* vListInitialise makes empty lists.                                      *)
LEMMA InitHolds ==
    ASSUME ListInit
    PROVE  ListInv /\ Abstract!Init
<1>1. /\ pxNext = [n \in Nodes |-> n] /\ pxPrevious = [n \in Nodes |-> n]
      /\ xItemValue \in [Items -> Values] /\ pxContainer = [x \in Items |-> NoList]
      /\ pxIndex = [l \in ListIds |-> l] /\ uxNumberOfItems = [l \in ListIds |-> 0]
  BY DEF ListInit
<1>2. LinkTypes(pxNext, pxPrevious, pxContainer, pxIndex, uxNumberOfItems) BY <1>1 DEF LinkTypes, Nodes
<1>3. ASSUME NEW l \in ListIds
      PROVE  /\ Holds(l, <<>>, pxNext, pxPrevious, pxContainer, pxIndex, uxNumberOfItems)
             /\ Position(<<>>, pxIndex[l]) = 0
  <2>1. \A i : At(l, <<>>, i) = l BY DEF At
  <2>2. pxNext[l] = l /\ pxPrevious[l] = l /\ pxIndex[l] = l /\ uxNumberOfItems[l] = 0 BY <1>1 DEF Nodes
  <2>3. Chain(pxNext, pxPrevious, l, <<>>) BY <2>1, <2>2 DEF Chain
  <2>4. \A x \in Items : pxContainer[x] # l /\ ~In(x, <<>>) BY <1>1, ListAssumption DEF In
  <2>5. 0 \in 0 .. Len(<<>>) BY DEF At
  <2>6. Position(<<>>, pxIndex[l]) = 0 BY DEF Position
  <2> QED BY <2>1, <2>2, <2>3, <2>4, <2>5, <2>6 DEF Holds
<1>4. \A l \in ListIds : Forward(l) = <<>> BY <1>3, ForwardFacts DEF Forward
<1>5. ListInv BY <1>1, <1>2, <1>3, <1>4 DEF ListInv
<1>6. Seqs = [l \in ListIds |-> [items |-> <<>>, index |-> 0]] BY <1>3, <1>4 DEF Seqs
<1>7. Seqs = [l \in ListIds |-> Abstract!vListInitialise] BY <1>6 DEF Abstract!vListInitialise
<1> QED BY <1>1, <1>5, <1>7 DEF Abstract!Init, Seqs

-----------------------------------------------------------------------------
(* The theorems.                                                           *)

(* Every step of the lists is the abstract step of the same operation.     *)
LEMMA NextImplements ==
    ASSUME ListInv, [ListNext]_listVars
    PROVE  ListInv' /\ [Abstract!Next]_<<Seqs, xItemValue>>
<1>1. CASE \E l \in ListIds \ Ordered, x \in Items : vListInsertEnd(l, x)
  BY <1>1, InsertEndStep DEF Abstract!Next
<1>2. CASE \E l \in Ordered, x \in Items, v \in Values : vListInsert(l, x, v)
  BY <1>2, InsertStep DEF Abstract!Next
<1>3. CASE \E x \in Items : uxListRemove(x) BY <1>3, RemoveStep DEF Abstract!Next
<1>4. CASE \E l \in ListIds \ Ordered : listGET_OWNER_OF_NEXT_ENTRY(l) BY <1>4, WalkStep DEF Abstract!Next
<1>5. CASE UNCHANGED listVars BY <1>5, StutterStep
<1> QED BY <1>1, <1>2, <1>3, <1>4, <1>5 DEF ListNext

(* The links of every list, either way, go through exactly the items whose *)
(* pxContainer it is, as many as it counts, and pxIndex is one of them or  *)
(* the end marker: no operation leaves a link astray.                      *)
THEOREM ListInvariant == ListsSpec => []ListInv
<1>1. ListInit => ListInv BY InitHolds
<1>2. ListInv /\ [ListNext]_listVars => ListInv' BY NextImplements
<1> QED BY <1>1, <1>2, PTL DEF ListsSpec

(* The pointer operations of list.c do to the lists' sequences what Lists  *)
(* says: the kernel's models may reason with sequences.                    *)
THEOREM ListsImplementSequences == ListsSpec => ImplementsLists
<1>1. ListInit => Abstract!Init BY InitHolds
<1>2. ListInv /\ [ListNext]_listVars => [Abstract!Next]_<<Seqs, xItemValue>> BY NextImplements
<1> QED BY <1>1, <1>2, ListInvariant, PTL DEF ListsSpec, ImplementsLists, Abstract!Spec, Seqs
=============================================================================
