---------------------------- MODULE KernelProofs ----------------------------
(***************************************************************************)
(* The routines of tasks.c keep its lists in order: what each routine of   *)
(* Kernel does to a record of the scheduler's data whose lists are         *)
(* consistent, for any tasks, priorities and widths of the tick.           *)
(***************************************************************************)
EXTENDS Kernel, SequenceTheorems, WellFoundedInduction, TLAPS

-----------------------------------------------------------------------------
(* Sequences of tasks.                                                     *)

(* t is s with x at position k.                                            *)
Inserted(s, t, k, x) ==
    /\ t \in Seq(Tasks) /\ Len(t) = Len(s) + 1 /\ t[k] = x
    /\ \A j \in 1 .. k - 1 : t[j] = s[j]
    /\ \A j \in k + 1 .. Len(t) : t[j] = s[j - 1]

(* t is s without the item at position k.                                  *)
Removed(s, t, k) ==
    /\ t \in Seq(Tasks) /\ Len(t) = Len(s) - 1
    /\ \A j \in 1 .. k - 1 : t[j] = s[j]
    /\ \A j \in k .. Len(t) : t[j] = s[j + 1]

(* A set of natural numbers that is not empty has a least one.             *)
LEMMA LeastNatural ==
    ASSUME NEW T \in SUBSET Nat, T # {}
    PROVE  \E m \in T : \A k \in T : m <= k
<1> DEFINE R == OpToRel(<, Nat)
           N == Nat
<1>1. IsWellFoundedOn(R, N) BY NatLessThanWellFounded
<1>2. T \subseteq N OBVIOUS
<1>3. \A x, y \in Nat : <<x, y>> \in R <=> x < y BY DEF OpToRel
<1> HIDE DEF R, N
<1>4. PICK x \in T : \A y \in T : ~(<<y, x>> \in R)
  <2>1. \A RR, SS : IsWellFoundedOn(RR, SS) =>
          \A TT : TT \subseteq SS /\ TT # {} =>
            \E x \in TT : \A y \in TT : ~(<<y, x>> \in RR)
    BY WFMin, Zenon
  <2> QED BY <1>1, <1>2, <2>1, Zenon
<1>5. ASSUME NEW y \in T PROVE x <= y
  <2>1. x \in Nat /\ y \in Nat OBVIOUS
  <2>2. ~(y < x) BY <1>3, <1>4, <2>1
  <2> QED BY <2>1, <2>2
<1> QED BY <1>5

(* What InsertAt gives.                                                    *)
LEMMA InsertAtFacts ==
    ASSUME NEW s \in Seq(Tasks), NEW k \in 1 .. Len(s) + 1, NEW x \in Tasks
    PROVE  Inserted(s, InsertAt(s, k, x), k, x)
<1> DEFINE front == SubSeq(s, 1, k - 1)
           back == SubSeq(s, k, Len(s))
<1>1. /\ front \in Seq(Tasks) /\ Len(front) = k - 1 /\ \A j \in 1 .. k - 1 : front[j] = s[j]
      /\ back \in Seq(Tasks) /\ Len(back) = Len(s) + 1 - k
      /\ \A j \in 1 .. Len(s) + 1 - k : back[j] = s[j + k - 1]
  OBVIOUS
<1>2. InsertAt(s, k, x) = front \o <<x>> \o back BY DEF InsertAt
<1> HIDE DEF front, back
<1> DEFINE u == front \o <<x>>
<1>4. /\ u \in Seq(Tasks) /\ Len(u) = k /\ u[k] = x /\ \A j \in 1 .. k - 1 : u[j] = s[j]
  <2>1. <<x>> \in Seq(Tasks) /\ Len(<<x>>) = 1 /\ <<x>>[1] = x OBVIOUS
  <2>2. /\ u \in Seq(Tasks) /\ Len(u) = Len(front) + 1
        /\ \A j \in 1 .. Len(front) + 1 : u[j] = IF j <= Len(front) THEN front[j] ELSE <<x>>[j - Len(front)]
    BY <1>1, <2>1, ConcatProperties
  <2>3. Len(front) = k - 1 /\ Len(front) + 1 = k /\ k - Len(front) = 1 /\ ~(k <= Len(front)) BY <1>1
  <2> HIDE DEF u
  <2>4. u \in Seq(Tasks) /\ Len(u) = k BY <2>2, <2>3
  <2>5. \A j \in 1 .. k : u[j] = IF j <= Len(front) THEN front[j] ELSE <<x>>[j - Len(front)] BY <2>2, <2>3
  <2>6. u[k] = x
    <3>1. k \in 1 .. k OBVIOUS
    <3> QED BY <2>1, <2>3, <2>5, <3>1
  <2>7. ASSUME NEW j \in 1 .. k - 1 PROVE u[j] = s[j]
    <3>1. j \in 1 .. k /\ j <= Len(front) BY <2>3
    <3> QED BY <1>1, <2>5, <3>1
  <2> QED BY <2>4, <2>6, <2>7
<1>5. InsertAt(s, k, x) = u \o back BY <1>2
<1> HIDE DEF u
<1>6. /\ u \o back \in Seq(Tasks) /\ Len(u \o back) = Len(s) + 1
      /\ \A j \in 1 .. k : (u \o back)[j] = u[j]
      /\ \A j \in k + 1 .. Len(s) + 1 : (u \o back)[j] = back[j - k]
  <2>1. Len(s) \in Nat /\ Len(u) + Len(back) = Len(s) + 1 BY <1>1, <1>4
  <2>2. /\ u \o back \in Seq(Tasks) /\ Len(u \o back) = Len(u) + Len(back)
        /\ \A j \in 1 .. Len(u) + Len(back) : (u \o back)[j] = IF j <= Len(u) THEN u[j] ELSE back[j - Len(u)]
    <3>1. u \in Seq(Tasks) /\ back \in Seq(Tasks) BY <1>1, <1>4
    <3> QED BY <3>1, ConcatProperties
  <2> DEFINE w == u \o back
  <2>3. /\ w \in Seq(Tasks) /\ Len(w) = Len(s) + 1
        /\ \A j \in 1 .. Len(s) + 1 : w[j] = IF j <= k THEN u[j] ELSE back[j - k]
    BY <1>4, <2>1, <2>2
  <2> HIDE DEF w
  <2>4. /\ \A j \in 1 .. k : w[j] = u[j]
        /\ \A j \in k + 1 .. Len(s) + 1 : w[j] = back[j - k]
    BY <2>1, <2>3
  <2> QED BY <2>3, <2>4 DEF w
<1>7. ASSUME NEW j \in k + 1 .. Len(s) + 1 PROVE back[j - k] = s[j - 1]
  <2>1. j - k \in 1 .. Len(s) + 1 - k /\ (j - k) + k - 1 = j - 1 OBVIOUS
  <2> QED BY <1>1, <2>1
<1> QED BY <1>4, <1>5, <1>6, <1>7 DEF Inserted

(* What RemoveAt gives.                                                    *)
LEMMA RemoveAtFacts ==
    ASSUME NEW s \in Seq(Tasks), NEW k \in 1 .. Len(s)
    PROVE  Removed(s, RemoveAt(s, k), k)
<1> DEFINE front == SubSeq(s, 1, k - 1)
           back == SubSeq(s, k + 1, Len(s))
<1>1. /\ front \in Seq(Tasks) /\ Len(front) = k - 1 /\ \A j \in 1 .. k - 1 : front[j] = s[j]
      /\ back \in Seq(Tasks) /\ Len(back) = Len(s) - k
      /\ \A j \in 1 .. Len(s) - k : back[j] = s[j + k]
  OBVIOUS
<1>2. RemoveAt(s, k) = front \o back BY DEF RemoveAt
<1> HIDE DEF front, back
<1>3. /\ front \o back \in Seq(Tasks) /\ Len(front \o back) = Len(s) - 1
      /\ \A j \in 1 .. k - 1 : (front \o back)[j] = front[j]
      /\ \A j \in k .. Len(s) - 1 : (front \o back)[j] = back[j - k + 1]
  <2>1. Len(s) \in Nat /\ Len(front) + Len(back) = Len(s) - 1 BY <1>1
  <2>2. /\ front \o back \in Seq(Tasks) /\ Len(front \o back) = Len(front) + Len(back)
        /\ \A j \in 1 .. Len(front) + Len(back) :
             (front \o back)[j] = IF j <= Len(front) THEN front[j] ELSE back[j - Len(front)]
    BY <1>1, ConcatProperties
  <2> DEFINE w == front \o back
  <2>3. /\ w \in Seq(Tasks) /\ Len(w) = Len(s) - 1
        /\ \A j \in 1 .. Len(s) - 1 : w[j] = IF j <= k - 1 THEN front[j] ELSE back[j - (k - 1)]
    BY <1>1, <2>1, <2>2
  <2> HIDE DEF w
  <2>4. /\ \A j \in 1 .. k - 1 : w[j] = front[j]
        /\ \A j \in k .. Len(s) - 1 : w[j] = back[j - k + 1]
    <3>1. \A j \in k .. Len(s) - 1 : j - (k - 1) = j - k + 1 /\ j \in 1 .. Len(s) - 1 /\ ~(j <= k - 1) BY <2>1
    <3>2. \A j \in 1 .. k - 1 : j \in 1 .. Len(s) - 1 /\ j <= k - 1 BY <2>1
    <3> QED BY <2>3, <3>1, <3>2
  <2> QED BY <2>3, <2>4 DEF w
<1>4. ASSUME NEW j \in k .. Len(s) - 1 PROVE back[j - k + 1] = s[j + 1]
  <2>1. j - k + 1 \in 1 .. Len(s) - k /\ (j - k + 1) + k = j + 1 OBVIOUS
  <2> QED BY <1>1, <2>1
<1> QED BY <1>1, <1>2, <1>3, <1>4 DEF Removed

(* The abstract removal finds the one position that x is at.               *)
(* The items of a sequence, by position.                                   *)
LEMMA SetOf ==
    ASSUME NEW s \in Seq(Tasks)
    PROVE  /\ \A x : x \in ToSet(s) <=> \E i \in 1 .. Len(s) : s[i] = x
           /\ ToSet(s) \subseteq Tasks
           /\ Len(s) \in Nat
           /\ ToSet(s) = {} <=> s = <<>>
<1>1. DOMAIN s = 1 .. Len(s) /\ Len(s) \in Nat OBVIOUS
<1>2. \A x : x \in ToSet(s) <=> \E i \in 1 .. Len(s) : s[i] = x BY <1>1 DEF ToSet
<1>3. ToSet(s) \subseteq Tasks BY <1>2
<1>4. ASSUME s # <<>> PROVE ToSet(s) # {}
  <2>1. 1 \in 1 .. Len(s) BY <1>1, <1>4
  <2> QED BY <1>2, <2>1
<1>5. ASSUME s = <<>> PROVE ToSet(s) = {} BY <1>2, <1>5
<1> QED BY <1>1, <1>2, <1>3, <1>4, <1>5

LEMMA Distinct ==
    ASSUME NEW s \in Seq(Tasks)
    PROVE  IsInjective(s) <=> \A i, j \in 1 .. Len(s) : s[i] = s[j] => i = j
<1>1. DOMAIN s = 1 .. Len(s) OBVIOUS
<1> QED BY <1>1 DEF IsInjective

(* The values v of the items of s never fall.                              *)
Ordered(s, v) == \A i, j \in 1 .. Len(s) : i < j => v[s[i]] <= v[s[j]]

(* r is s without t, in the same order.                                    *)
Lost(s, r, t) ==
    /\ r \in Seq(Tasks) /\ IsInjective(r)
    /\ ToSet(r) = ToSet(s) \ {t}
    /\ \A v : Ordered(s, v) => Ordered(r, v)

(* r is s with t in it as well.                                            *)
Gained(s, r, t) ==
    /\ r \in Seq(Tasks) /\ IsInjective(r)
    /\ ToSet(r) = ToSet(s) \cup {t}

LEMMA RemovedFacts ==
    ASSUME NEW s \in Seq(Tasks), IsInjective(s), NEW k \in 1 .. Len(s), NEW r, Removed(s, r, k)
    PROVE  Lost(s, r, s[k])
<1>1. /\ Len(s) \in Nat /\ r \in Seq(Tasks) /\ Len(r) = Len(s) - 1 /\ Len(r) \in Nat
      /\ \A j \in 1 .. k - 1 : r[j] = s[j]
      /\ \A j \in k .. Len(r) : r[j] = s[j + 1]
  BY DEF Removed
<1>2. \A i, j \in 1 .. Len(s) : s[i] = s[j] => i = j BY Distinct
<1> DEFINE at(j) == IF j < k THEN j ELSE j + 1
<1>3. \A j \in 1 .. Len(r) : at(j) \in 1 .. Len(s) /\ at(j) # k /\ r[j] = s[at(j)]
  <2>1. ASSUME NEW j \in 1 .. Len(r) PROVE at(j) \in 1 .. Len(s) /\ at(j) # k /\ r[j] = s[at(j)]
    <3>1. CASE j < k
      <4>1. j \in 1 .. k - 1 BY <3>1
      <4> QED BY <1>1, <3>1, <4>1
    <3>2. CASE ~(j < k)
      <4>1. j \in k .. Len(r) BY <3>2
      <4> QED BY <1>1, <3>2, <4>1
    <3> QED BY <3>1, <3>2
  <2> QED BY <2>1
<1>4. \A i, j \in 1 .. Len(r) : i < j => at(i) < at(j) OBVIOUS
<1>5. \A m \in 1 .. Len(s) : m # k => \E j \in 1 .. Len(r) : at(j) = m
  <2>1. ASSUME NEW m \in 1 .. Len(s), m # k PROVE \E j \in 1 .. Len(r) : at(j) = m
    <3>1. CASE m < k
      <4>1. m \in 1 .. Len(r) /\ at(m) = m BY <1>1, <3>1
      <4> QED BY <4>1
    <3>2. CASE ~(m < k)
      <4>1. m - 1 \in 1 .. Len(r) /\ at(m - 1) = m BY <1>1, <2>1, <3>2
      <4> QED BY <4>1
    <3> QED BY <3>1, <3>2
  <2> QED BY <2>1
<1> HIDE DEF at
<1>6. IsInjective(r)
  <2>1. ASSUME NEW i \in 1 .. Len(r), NEW j \in 1 .. Len(r), r[i] = r[j], i # j PROVE FALSE
    <3>1. at(i) = at(j) BY <1>2, <1>3, <2>1
    <3>2. i < j \/ j < i BY <1>1, <2>1
    <3>3. at(i) \in Int /\ at(j) \in Int BY <1>3
    <3> QED BY <1>4, <3>1, <3>2, <3>3
  <2> QED BY <1>1, <2>1, Distinct
<1>7. ToSet(r) = ToSet(s) \ {s[k]}
  <2>1. /\ \A x : x \in ToSet(s) <=> \E i \in 1 .. Len(s) : s[i] = x
        /\ \A x : x \in ToSet(r) <=> \E i \in 1 .. Len(r) : r[i] = x
    BY <1>1, SetOf
  <2>2. ASSUME NEW x \in ToSet(r) PROVE x \in ToSet(s) \ {s[k]}
    <3>1. PICK j \in 1 .. Len(r) : r[j] = x BY <2>1
    <3>2. at(j) \in 1 .. Len(s) /\ at(j) # k /\ x = s[at(j)] BY <1>3, <3>1
    <3>3. x # s[k] BY <1>2, <3>2
    <3> QED BY <2>1, <3>2, <3>3
  <2>3. ASSUME NEW x \in ToSet(s) \ {s[k]} PROVE x \in ToSet(r)
    <3>1. PICK m \in 1 .. Len(s) : s[m] = x /\ m # k BY <2>1
    <3>2. PICK j \in 1 .. Len(r) : at(j) = m BY <1>5, <3>1
    <3>3. r[j] = x BY <1>3, <3>1, <3>2
    <3> QED BY <2>1, <3>3
  <2> QED BY <2>2, <2>3
<1>8. ASSUME NEW v, Ordered(s, v) PROVE Ordered(r, v)
  <2>1. ASSUME NEW i \in 1 .. Len(r), NEW j \in 1 .. Len(r), i < j PROVE v[r[i]] <= v[r[j]]
    <3>1. at(i) < at(j) /\ at(i) \in 1 .. Len(s) /\ at(j) \in 1 .. Len(s) BY <1>3, <1>4, <2>1
    <3>2. v[s[at(i)]] <= v[s[at(j)]] BY <1>8, <3>1 DEF Ordered
    <3> QED BY <1>3, <3>2
  <2> QED BY <2>1 DEF Ordered
<1> QED BY <1>1, <1>6, <1>7, <1>8 DEF Lost

LEMMA InsertedFacts ==
    ASSUME NEW s \in Seq(Tasks), IsInjective(s), NEW k \in 1 .. Len(s) + 1,
           NEW t \in Tasks, t \notin ToSet(s), NEW r, Inserted(s, r, k, t)
    PROVE  Gained(s, r, t)
<1>1. /\ Len(s) \in Nat /\ r \in Seq(Tasks) /\ Len(r) = Len(s) + 1 /\ r[k] = t
      /\ \A j \in 1 .. k - 1 : r[j] = s[j]
      /\ \A j \in k + 1 .. Len(r) : r[j] = s[j - 1]
  BY DEF Inserted
<1>2. \A i, j \in 1 .. Len(s) : s[i] = s[j] => i = j BY Distinct
<1>3. /\ \A x : x \in ToSet(s) <=> \E i \in 1 .. Len(s) : s[i] = x
      /\ \A x : x \in ToSet(r) <=> \E i \in 1 .. Len(r) : r[i] = x
  BY <1>1, SetOf
<1> DEFINE at(j) == IF j < k THEN j ELSE j - 1
<1>4. \A j \in 1 .. Len(r) : j # k => at(j) \in 1 .. Len(s) /\ r[j] = s[at(j)]
  <2>1. ASSUME NEW j \in 1 .. Len(r), j # k PROVE at(j) \in 1 .. Len(s) /\ r[j] = s[at(j)]
    <3>1. CASE j < k
      <4>1. j \in 1 .. k - 1 BY <3>1
      <4> QED BY <1>1, <3>1, <4>1
    <3>2. CASE ~(j < k)
      <4>1. j \in k + 1 .. Len(r) BY <2>1, <3>2
      <4> QED BY <1>1, <3>2, <4>1
    <3> QED BY <3>1, <3>2
  <2> QED BY <2>1
<1>5. \A i, j \in 1 .. Len(r) : i # k /\ j # k /\ at(i) = at(j) => i = j OBVIOUS
<1>6. \A m \in 1 .. Len(s) : \E j \in 1 .. Len(r) : j # k /\ at(j) = m
  <2>1. ASSUME NEW m \in 1 .. Len(s) PROVE \E j \in 1 .. Len(r) : j # k /\ at(j) = m
    <3>1. CASE m < k
      <4>1. m \in 1 .. Len(r) /\ m # k /\ at(m) = m BY <1>1, <3>1
      <4> QED BY <4>1
    <3>2. CASE ~(m < k)
      <4>1. m + 1 \in 1 .. Len(r) /\ m + 1 # k /\ at(m + 1) = m BY <1>1, <3>2
      <4> QED BY <4>1
    <3> QED BY <3>1, <3>2
  <2> QED BY <2>1
<1> HIDE DEF at
<1>7. \A j \in 1 .. Len(r) : r[j] = t => j = k BY <1>3, <1>4
<1>8. IsInjective(r)
  <2>1. ASSUME NEW i \in 1 .. Len(r), NEW j \in 1 .. Len(r), r[i] = r[j] PROVE i = j
    <3>1. CASE r[i] = t BY <1>7, <2>1, <3>1
    <3>2. CASE r[i] # t
      <4>1. i # k /\ j # k BY <1>1, <2>1, <3>2
      <4>2. at(i) = at(j) BY <1>2, <1>4, <2>1, <4>1
      <4> QED BY <1>5, <4>1, <4>2
    <3> QED BY <3>1, <3>2
  <2> QED BY <1>1, <2>1, Distinct
<1>9. ToSet(r) = ToSet(s) \cup {t}
  <2>1. ASSUME NEW x \in ToSet(r) PROVE x \in ToSet(s) \cup {t}
    <3>1. PICK j \in 1 .. Len(r) : r[j] = x BY <1>3
    <3> QED BY <1>1, <1>3, <1>4, <3>1
  <2>2. ASSUME NEW x \in ToSet(s) PROVE x \in ToSet(r)
    <3>1. PICK m \in 1 .. Len(s) : s[m] = x BY <1>3
    <3>2. PICK j \in 1 .. Len(r) : j # k /\ at(j) = m BY <1>6
    <3> QED BY <1>3, <1>4, <3>1, <3>2
  <2>3. t \in ToSet(r) BY <1>1, <1>3
  <2> QED BY <2>1, <2>2, <2>3
<1> QED BY <1>1, <1>8, <1>9 DEF Gained

-----------------------------------------------------------------------------
(* The routines of list.h on one list.                                     *)

Rings == [items : Seq(Tasks), index : Nat]

(* A list whose pxIndex is on its end marker or on one of its items.       *)
Turning(l) == l \in Rings /\ IsInjective(l.items) /\ l.index <= Len(l.items)

(* The least of a set of positions.                                        *)
LEMMA LeastOf ==
    ASSUME NEW I \in SUBSET Nat, I # {}
    PROVE  Min(I) \in I /\ \A j \in I : Min(I) <= j
<1>1. \E m \in I : \A j \in I : m <= j BY LeastNatural
<1> QED BY <1>1 DEF Min

LEMMA RemoveFacts ==
    ASSUME NEW l, Turning(l), NEW t \in Tasks
    PROVE  /\ Turning(uxListRemove(l, t)) /\ Lost(l.items, uxListRemove(l, t).items, t)
           /\ t \notin ToSet(l.items) => uxListRemove(l, t) = l
<1> DEFINE s == l.items
           I == {j \in 1 .. Len(s) : s[j] = t}
           i == SelectInSeq(s, LAMBDA y : y = t)
           r == uxListRemove(l, t)
<1>1. s \in Seq(Tasks) /\ Len(s) \in Nat /\ IsInjective(s) /\ l.index \in Nat /\ l.index <= Len(s)
      /\ l \in Rings
  BY DEF Turning, Rings
<1>2. i = IF I # {} THEN Min(I) ELSE 0 BY DEF SelectInSeq
<1>3. r = IF i = 0 THEN l
          ELSE [items |-> RemoveAt(s, i), index |-> IF i <= l.index THEN l.index - 1 ELSE l.index]
  BY DEF uxListRemove
<1>4. t \in ToSet(s) <=> I # {} BY <1>1, SetOf
<1>5. I \subseteq Nat OBVIOUS
<1>6. I # {} => Min(I) \in I
  <2> HIDE DEF I
  <2> QED BY <1>5, LeastOf
<1> HIDE DEF i, r
<1>7. CASE I = {}
  <2>1. r = l BY <1>2, <1>3, <1>7
  <2>2. Lost(s, s, t)
    <3>1. ToSet(s) = ToSet(s) \ {t} BY <1>4, <1>7
    <3> HIDE DEF s
    <3> QED BY <1>1, <3>1 DEF Lost
  <2> QED BY <2>1, <2>2, <1>3 DEF r
<1>8. CASE I # {}
  <2>1. i = Min(I) /\ i \in I BY <1>2, <1>6, <1>8
  <2>2. i \in 1 .. Len(s) /\ s[i] = t /\ i # 0 BY <2>1
  <2> HIDE DEF I
  <2>3. r = [items |-> RemoveAt(s, i), index |-> IF i <= l.index THEN l.index - 1 ELSE l.index]
    BY <1>3, <2>2
  <2>4. Removed(s, RemoveAt(s, i), i)
    <3> HIDE DEF s
    <3> QED BY <1>1, <2>2, RemoveAtFacts
  <2>5. Lost(s, RemoveAt(s, i), t)
    <3> HIDE DEF s
    <3> QED BY <1>1, <2>2, <2>4, RemovedFacts
  <2>6. r.items = RemoveAt(s, i) /\ r.index = (IF i <= l.index THEN l.index - 1 ELSE l.index)
    BY <2>3
  <2>7. Len(r.items) = Len(s) - 1 /\ r.items \in Seq(Tasks) BY <2>4, <2>6 DEF Removed
  <2>8. r.index \in Nat /\ r.index <= Len(r.items)
    <3> HIDE DEF s
    <3> QED BY <1>1, <2>2, <2>6, <2>7
  <2>9. r \in Rings BY <2>3, <2>6, <2>7, <2>8 DEF Rings
  <2>10. IsInjective(r.items) BY <2>5, <2>6 DEF Lost
  <2> QED BY <1>4, <1>8, <2>5, <2>6, <2>8, <2>9, <2>10 DEF Turning, r
<1> QED BY <1>7, <1>8

LEMMA WithoutFacts ==
    ASSUME NEW s \in Seq(Tasks), IsInjective(s), NEW t \in Tasks
    PROVE  Lost(s, Without(s, t), t) /\ (t \notin ToSet(s) => Without(s, t) = s)
<1> DEFINE l == [items |-> s, index |-> 0]
<1>1. Turning(l)
  <2>1. Len(s) \in Nat /\ l.items = s /\ l.index = 0 OBVIOUS
  <2> QED BY <2>1 DEF Turning, Rings
<1>2. l.items = s OBVIOUS
<1>3. Without(s, t) = uxListRemove(l, t).items BY DEF Without
<1> HIDE DEF l
<1> QED BY <1>1, <1>2, <1>3, RemoveFacts

LEMMA AppendFacts ==
    ASSUME NEW s \in Seq(Tasks), IsInjective(s), NEW t \in Tasks, t \notin ToSet(s)
    PROVE  Gained(s, Append(s, t), t)
<1>1. Len(s) + 1 \in 1 .. Len(s) + 1 /\ Len(s) \in Nat OBVIOUS
<1>2. Inserted(s, Append(s, t), Len(s) + 1, t) BY <1>1 DEF Inserted
<1> QED BY <1>1, <1>2, InsertedFacts

LEMMA TailFacts ==
    ASSUME NEW s \in Seq(Tasks), IsInjective(s), s # <<>>
    PROVE  /\ Lost(s, Tail(s), Head(s)) /\ Head(s) \in ToSet(s) /\ Len(Tail(s)) = Len(s) - 1
           /\ Len(s) > 0
<1>1. 1 \in 1 .. Len(s) /\ Len(s) \in Nat /\ Head(s) = s[1] /\ Len(s) > 0 OBVIOUS
<1>2. Removed(s, Tail(s), 1) BY <1>1 DEF Removed
<1>3. Lost(s, Tail(s), s[1]) BY <1>1, <1>2, RemovedFacts
<1> QED BY <1>1, <1>2, <1>3, SetOf DEF Removed

LEMMA InsertEndFacts ==
    ASSUME NEW l, Turning(l), NEW t \in Tasks, t \notin ToSet(l.items)
    PROVE  Turning(vListInsertEnd(l, t)) /\ Gained(l.items, vListInsertEnd(l, t).items, t)
<1> DEFINE s == l.items
           r == vListInsertEnd(l, t)
<1>1. s \in Seq(Tasks) /\ Len(s) \in Nat /\ IsInjective(s) /\ l.index \in Nat /\ l.index <= Len(s)
      /\ l \in Rings
  BY DEF Turning, Rings
<1>2. CASE l.index = 0
  <2>1. r = [l EXCEPT !.items = Append(s, t)] BY <1>2 DEF vListInsertEnd
  <2>2. r.items = Append(s, t) /\ r.index = 0 /\ r = [items |-> r.items, index |-> r.index]
    BY <1>1, <1>2, <2>1 DEF Rings
  <2>3. Gained(s, r.items, t) /\ Len(r.items) = Len(s) + 1
    <3> HIDE DEF s, r
    <3> QED BY <1>1, <2>2, AppendFacts DEF s
  <2> HIDE DEF r
  <2>4. r \in Rings /\ r.index <= Len(r.items) BY <1>1, <2>2, <2>3 DEF Rings, Gained
  <2> QED BY <2>3, <2>4 DEF Turning, Gained, r
<1>3. CASE l.index # 0
  <2>1. r = [items |-> InsertAt(s, l.index, t), index |-> l.index + 1] BY <1>3 DEF vListInsertEnd
  <2>2. l.index \in 1 .. Len(s) + 1 BY <1>1, <1>3
  <2>3. Inserted(s, InsertAt(s, l.index, t), l.index, t)
    <3> HIDE DEF s
    <3> QED BY <1>1, <2>2, InsertAtFacts
  <2>4. Gained(s, InsertAt(s, l.index, t), t)
    <3>1. t \notin ToSet(s) OBVIOUS
    <3> HIDE DEF s
    <3> QED BY <1>1, <2>2, <2>3, <3>1, InsertedFacts
  <2>5. r.items = InsertAt(s, l.index, t) /\ r.index = l.index + 1
        /\ r = [items |-> r.items, index |-> r.index]
    BY <2>1
  <2>6. Len(r.items) = Len(s) + 1 BY <2>3, <2>5 DEF Inserted
  <2>7. Gained(s, r.items, t) BY <2>4, <2>5
  <2> HIDE DEF r
  <2>8. r \in Rings /\ r.index <= Len(r.items) BY <1>1, <2>5, <2>6, <2>7 DEF Rings, Gained
  <2> QED BY <2>7, <2>8 DEF Turning, Gained, r
<1> QED BY <1>2, <1>3

LEMMA NextFacts ==
    ASSUME NEW l, Turning(l), l.items # <<>>
    PROVE  LET r == listGET_OWNER_OF_NEXT_ENTRY(l)
           IN  Turning(r) /\ r.items = l.items /\ r.items[r.index] \in ToSet(l.items)
<1> DEFINE r == listGET_OWNER_OF_NEXT_ENTRY(l)
<1>1. l.items \in Seq(Tasks) /\ IsInjective(l.items) /\ l.index \in Nat /\ l.index <= Len(l.items)
      /\ l \in Rings /\ Len(l.items) \in Nat /\ Len(l.items) # 0
  BY DEF Turning, Rings
<1>2. r.items = l.items /\ r.index = (IF l.index >= Len(l.items) THEN 1 ELSE l.index + 1)
      /\ r = [items |-> r.items, index |-> r.index]
  BY <1>1 DEF listGET_OWNER_OF_NEXT_ENTRY, Rings
<1> HIDE DEF r
<1>3. r.index \in 1 .. Len(l.items) BY <1>1, <1>2
<1>4. Turning(r) BY <1>1, <1>2, <1>3 DEF Turning, Rings
<1>5. r.items[r.index] \in ToSet(l.items) BY <1>1, <1>2, <1>3, SetOf
<1> QED BY <1>2, <1>4, <1>5 DEF r

LEMMA InsertFacts ==
    ASSUME NEW s \in Seq(Tasks), IsInjective(s), NEW t \in Tasks, t \notin ToSet(s),
           NEW v \in [Tasks -> Int], Ordered(s, v)
    PROVE  Gained(s, vListInsert(s, t, v), t) /\ Ordered(vListInsert(s, t, v), v)
<1> DEFINE I == {j \in 1 .. Len(s) : v[s[j]] > v[t]}
           i == SelectInSeq(s, LAMBDA y : v[y] > v[t])
           n == vListInsertPos(s, v, v[t])
           r == vListInsert(s, t, v)
<1>1. Len(s) \in Nat /\ v[t] \in Int /\ \A j \in 1 .. Len(s) : s[j] \in Tasks /\ v[s[j]] \in Int OBVIOUS
<1>2. i = IF I # {} THEN Min(I) ELSE 0 BY DEF SelectInSeq
<1>3. n = IF i = 0 THEN Len(s) + 1 ELSE i BY DEF vListInsertPos
<1>4. I # {} => Min(I) \in I /\ \A j \in I : Min(I) <= j
  <2>1. I \subseteq Nat OBVIOUS
  <2> HIDE DEF I
  <2> QED BY <2>1, LeastOf
<1> HIDE DEF i, n
<1>5. n \in 1 .. Len(s) + 1 /\ \A j \in 1 .. Len(s) : (j < n => v[s[j]] <= v[t]) /\ (j = n => v[t] <= v[s[j]])
  <2>1. CASE I = {}
    <3>1. n = Len(s) + 1 BY <1>2, <1>3, <2>1
    <3>2. \A j \in 1 .. Len(s) : ~(v[s[j]] > v[t]) BY <2>1
    <3> QED BY <1>1, <3>1, <3>2
  <2>2. CASE I # {}
    <3>0. Min(I) \in I /\ i = Min(I) BY <1>2, <1>4, <2>2
    <3>1. n = Min(I) /\ n \in I /\ \A j \in I : n <= j
      <4>1. i \in 1 .. Len(s) BY <3>0
      <4>2. n = i BY <1>3, <4>1
      <4> HIDE DEF I
      <4> QED BY <1>4, <2>2, <3>0, <4>2
    <3>2. n \in 1 .. Len(s) /\ v[s[n]] > v[t] BY <3>1
    <3>3. ASSUME NEW j \in 1 .. Len(s), j < n PROVE v[s[j]] <= v[t]
      <4>1. j \notin I BY <3>1, <3>2, <3>3
      <4>2. ~(v[s[j]] > v[t]) BY <4>1
      <4> QED BY <1>1, <4>2
    <3> QED BY <1>1, <3>2, <3>3
  <2> QED BY <2>1, <2>2
<1>6. r = InsertAt(s, n, t) BY DEF vListInsert, n
<1>7. Inserted(s, r, n, t) BY <1>5, <1>6, InsertAtFacts
<1> HIDE DEF r
<1>8. Gained(s, r, t) BY <1>5, <1>7, InsertedFacts
<1>9. Ordered(r, v)
  <2>1. /\ r \in Seq(Tasks) /\ Len(r) = Len(s) + 1 /\ r[n] = t
        /\ \A j \in 1 .. n - 1 : r[j] = s[j]
        /\ \A j \in n + 1 .. Len(r) : r[j] = s[j - 1]
    BY <1>7 DEF Inserted
  <2>2. \A a, b \in 1 .. Len(s) : a < b => v[s[a]] <= v[s[b]] BY DEF Ordered
  <2>3. \A a \in 1 .. Len(s) : n <= a => v[t] <= v[s[a]]
    <3>1. ASSUME NEW a \in 1 .. Len(s), n < a PROVE v[t] <= v[s[a]]
      <4>1. n \in 1 .. Len(s) BY <1>5, <3>1
      <4>2. v[t] <= v[s[n]] /\ v[s[n]] <= v[s[a]] BY <1>5, <2>2, <3>1, <4>1
      <4> QED BY <1>1, <4>1, <4>2
    <3> QED BY <1>5, <3>1
  <2>4. ASSUME NEW a \in 1 .. Len(r), NEW b \in 1 .. Len(r), a < b PROVE v[r[a]] <= v[r[b]]
    <3>1. CASE b < n
      <4>1. a \in 1 .. n - 1 /\ b \in 1 .. n - 1 /\ a \in 1 .. Len(s) /\ b \in 1 .. Len(s) BY <1>1, <1>5, <2>1, <2>4, <3>1
      <4> QED BY <2>1, <2>2, <2>4, <4>1
    <3>2. CASE b = n
      <4>1. a \in 1 .. n - 1 /\ a \in 1 .. Len(s) /\ a < n BY <1>1, <1>5, <2>1, <2>4, <3>2
      <4> QED BY <1>5, <2>1, <3>2, <4>1
    <3>3. CASE b > n /\ a = n
      <4>1. b \in n + 1 .. Len(r) /\ b - 1 \in 1 .. Len(s) /\ n <= b - 1 BY <1>1, <1>5, <2>1, <2>4, <3>3
      <4> QED BY <2>1, <2>3, <3>3, <4>1
    <3>4. CASE b > n /\ a > n
      <4>1. /\ a \in n + 1 .. Len(r) /\ b \in n + 1 .. Len(r) /\ a - 1 < b - 1
            /\ a - 1 \in 1 .. Len(s) /\ b - 1 \in 1 .. Len(s)
        BY <1>1, <1>5, <2>1, <2>4, <3>4
      <4> QED BY <2>1, <2>2, <4>1
    <3>5. CASE b > n /\ a < n
      <4>1. /\ a \in 1 .. n - 1 /\ a \in 1 .. Len(s) /\ b \in n + 1 .. Len(r) /\ a < b - 1
            /\ b - 1 \in 1 .. Len(s)
        BY <1>1, <1>5, <2>1, <2>4, <3>5
      <4> QED BY <2>1, <2>2, <4>1
    <3> QED BY <1>5, <2>1, <3>1, <3>2, <3>3, <3>4, <3>5
  <2> QED BY <2>4 DEF Ordered
<1> QED BY <1>8, <1>9 DEF r

-----------------------------------------------------------------------------
(* The scheduler's data.                                                   *)

Kernels ==
    [cur : Tasks, ready : [Priorities -> Rings],
     delayed : Seq(Tasks), overflow : Seq(Tasks), sleeping : Seq(Tasks), dying : Seq(Tasks),
     tick : Ticks, ovf : 0 .. Overflows - 1, top : Priorities, next : Ticks,
     susp : Nat, pended : Nat, yield : BOOLEAN, num : Int, cleanup : Int,
     events : [EventLists \cup {Pending} -> Seq(Tasks)],
     prio : [Tasks -> Priorities], base : [Tasks -> Priorities], held : [Tasks -> Int],
     wake : [Tasks -> Ticks], rank : [Tasks -> Int], nstate : [Tasks -> 0 .. 2],
     nval : [Tasks -> Int], aborted : [Tasks -> BOOLEAN]]

(* The tasks on the ready list of their priority.                          *)
Readied(x) == {t \in Tasks : t \in ToSet(x.ready[x.prio[t]].items)}

(* The tasks P are on five kinds of lists, each on one of them.            *)
Apart(R, D, O, S, Y, P) ==
    /\ P = R \cup D \cup O \cup S \cup Y
    /\ R \cap (D \cup O \cup S \cup Y) = {}
    /\ D \cap (O \cup S \cup Y) = {}
    /\ O \cap (S \cup Y) = {}
    /\ S \cap Y = {}

Seated(x, P) ==
    /\ Apart(Readied(x), ToSet(x.delayed), ToSet(x.overflow), ToSet(x.sleeping), ToSet(x.dying), P)
    /\ IsInjective(x.delayed) /\ IsInjective(x.overflow)
    /\ IsInjective(x.sleeping) /\ IsInjective(x.dying)

(* A ready task is on the list of its priority, not above uxTopReadyPriority. *)
Ranked(x) ==
    \A p \in Priorities :
        /\ Turning(x.ready[p])
        /\ \A t \in ToSet(x.ready[p].items) : x.prio[t] = p /\ p <= x.top

(* The sleeping tasks are in order of their wake times, and none is to     *)
(* wake before xNextTaskUnblockTime.                                       *)
InOrder(x) ==
    /\ Ordered(x.delayed, x.wake) /\ Ordered(x.overflow, x.wake)
    /\ \A t \in ToSet(x.delayed) : x.next <= x.wake[t]

(* The state lists hold the tasks P.                                       *)
Orderly(x, P) == x \in Kernels /\ Seated(x, P) /\ Ranked(x) /\ InOrder(x)

(* What the scheduler knows of its tasks, their lists apart.               *)
Alike(x, y) ==
    /\ y.cur = x.cur /\ y.susp = x.susp /\ y.num = x.num /\ y.cleanup = x.cleanup
    /\ y.prio = x.prio /\ y.base = x.base /\ y.held = x.held /\ y.rank = x.rank
    /\ y.nstate = x.nstate /\ y.nval = x.nval /\ y.aborted = x.aborted

(* The routines on the lists leave the rest alone.                         *)
Same(x, y) ==
    /\ Alike(x, y)
    /\ y.tick = x.tick /\ y.ovf = x.ovf /\ y.pended = x.pended /\ y.yield = x.yield

LEMMA KernelFields ==
    ASSUME NEW x \in Kernels
    PROVE  /\ x.cur \in Tasks /\ x.ready \in [Priorities -> Rings]
           /\ x.delayed \in Seq(Tasks) /\ x.overflow \in Seq(Tasks)
           /\ x.sleeping \in Seq(Tasks) /\ x.dying \in Seq(Tasks)
           /\ x.tick \in Ticks /\ x.ovf \in 0 .. Overflows - 1 /\ x.top \in Priorities /\ x.next \in Ticks
           /\ x.susp \in Nat /\ x.pended \in Nat /\ x.yield \in BOOLEAN
           /\ x.num \in Int /\ x.cleanup \in Int
           /\ x.events \in [EventLists \cup {Pending} -> Seq(Tasks)]
           /\ x.prio \in [Tasks -> Priorities] /\ x.base \in [Tasks -> Priorities]
           /\ x.held \in [Tasks -> Int] /\ x.wake \in [Tasks -> Ticks] /\ x.rank \in [Tasks -> Int]
           /\ x.nstate \in [Tasks -> 0 .. 2] /\ x.nval \in [Tasks -> Int]
           /\ x.aborted \in [Tasks -> BOOLEAN]
BY DEF Kernels

(* Which tasks are on the ready list of a priority.                        *)
LEMMA ReadyOf ==
    ASSUME NEW x \in Kernels, Ranked(x), NEW p \in Priorities
    PROVE  /\ x.ready[p].items \in Seq(Tasks)
           /\ ToSet(x.ready[p].items) = {t \in Readied(x) : x.prio[t] = p}
<1>1. x.ready[p].items \in Seq(Tasks) BY KernelFields DEF Rings
<1>2. ToSet(x.ready[p].items) \subseteq Tasks BY <1>1, SetOf
<1> QED BY <1>1, <1>2 DEF Readied, Ranked

(* listREMOVE_ITEM of the state item.                                      *)
LEMMA RemoveStateFacts ==
    ASSUME NEW x, NEW P, Orderly(x, P), NEW t \in Tasks
    PROVE  LET y == RemoveState(x, t)
           IN  /\ Orderly(y, P \ {t}) /\ Same(x, y)
               /\ y.wake = x.wake /\ y.next = x.next /\ y.top = x.top /\ y.events = x.events
               /\ Readied(y) = Readied(x) \ {t}
               /\ ToSet(y.delayed) = ToSet(x.delayed) \ {t}
               /\ ToSet(y.overflow) = ToSet(x.overflow) \ {t}
               /\ ToSet(y.sleeping) = ToSet(x.sleeping) \ {t}
               /\ ToSet(y.dying) = ToSet(x.dying) \ {t}
               /\ t \notin ToSet(x.dying) => y.dying = x.dying
<1> DEFINE y == RemoveState(x, t)
           ready == [p \in Priorities |-> uxListRemove(x.ready[p], t)]
<1>1. x \in Kernels /\ Seated(x, P) /\ Ranked(x) /\ InOrder(x) BY DEF Orderly
<1>2. /\ x.delayed \in Seq(Tasks) /\ x.overflow \in Seq(Tasks)
      /\ x.sleeping \in Seq(Tasks) /\ x.dying \in Seq(Tasks)
      /\ IsInjective(x.delayed) /\ IsInjective(x.overflow)
      /\ IsInjective(x.sleeping) /\ IsInjective(x.dying)
  BY <1>1, KernelFields DEF Seated
<1>3. /\ Lost(x.delayed, Without(x.delayed, t), t) /\ Lost(x.overflow, Without(x.overflow, t), t)
      /\ Lost(x.sleeping, Without(x.sleeping, t), t) /\ Lost(x.dying, Without(x.dying, t), t)
      /\ t \notin ToSet(x.dying) => Without(x.dying, t) = x.dying
  BY <1>2, WithoutFacts
<1>4. \A p \in Priorities : Turning(ready[p]) /\ Lost(x.ready[p].items, ready[p].items, t)
  <2>1. ASSUME NEW p \in Priorities PROVE Turning(ready[p]) /\ Lost(x.ready[p].items, ready[p].items, t)
    <3>1. Turning(x.ready[p]) BY <1>1 DEF Ranked
    <3> QED BY <3>1, RemoveFacts
  <2> QED BY <2>1
<1>5. ready \in [Priorities -> Rings] BY <1>4 DEF Turning
<1> HIDE DEF ready
<1>6. y = [x EXCEPT !.ready = ready, !.delayed = Without(x.delayed, t), !.overflow = Without(x.overflow, t),
                    !.sleeping = Without(x.sleeping, t), !.dying = Without(x.dying, t)]
  BY <1>1 DEF RemoveState, Kernels, ready
<1>7. y \in Kernels
  <2>1. /\ Without(x.delayed, t) \in Seq(Tasks) /\ Without(x.overflow, t) \in Seq(Tasks)
        /\ Without(x.sleeping, t) \in Seq(Tasks) /\ Without(x.dying, t) \in Seq(Tasks)
    BY <1>3 DEF Lost
  <2> DEFINE z == [x EXCEPT !.ready = ready, !.delayed = Without(x.delayed, t),
                            !.overflow = Without(x.overflow, t)]
  <2>2. z \in Kernels BY <1>1, <1>5, <2>1 DEF Kernels
  <2>3. y = [z EXCEPT !.sleeping = Without(x.sleeping, t), !.dying = Without(x.dying, t)] BY <1>6
  <2> HIDE DEF z
  <2> QED BY <2>1, <2>2, <2>3 DEF Kernels
<1>8. /\ y.ready = ready /\ y.delayed = Without(x.delayed, t) /\ y.overflow = Without(x.overflow, t)
      /\ y.sleeping = Without(x.sleeping, t) /\ y.dying = Without(x.dying, t)
  BY <1>1, <1>6 DEF Kernels
<1>9. Same(x, y) /\ y.wake = x.wake /\ y.next = x.next /\ y.top = x.top /\ y.events = x.events
  BY <1>1, <1>6 DEF Kernels, Same, Alike
<1> HIDE DEF y
<1>10. /\ ToSet(y.delayed) = ToSet(x.delayed) \ {t} /\ ToSet(y.overflow) = ToSet(x.overflow) \ {t}
       /\ ToSet(y.sleeping) = ToSet(x.sleeping) \ {t} /\ ToSet(y.dying) = ToSet(x.dying) \ {t}
       /\ t \notin ToSet(x.dying) => y.dying = x.dying
       /\ \A p \in Priorities : ToSet(y.ready[p].items) = ToSet(x.ready[p].items) \ {t}
  BY <1>3, <1>4, <1>8 DEF Lost
<1>11. Ranked(y) BY <1>1, <1>4, <1>8, <1>9, <1>10 DEF Ranked, Same, Alike
<1>12. Readied(y) = Readied(x) \ {t}
  <2>1. \A u \in Tasks : x.prio[u] \in Priorities /\ y.prio[u] = x.prio[u] BY <1>1, <1>9, KernelFields DEF Same, Alike
  <2> QED BY <1>10, <2>1 DEF Readied
<1>13. Seated(y, P \ {t})
  <2>1. Apart(Readied(x), ToSet(x.delayed), ToSet(x.overflow), ToSet(x.sleeping), ToSet(x.dying), P)
    BY <1>1 DEF Seated
  <2>2. Apart(Readied(y), ToSet(y.delayed), ToSet(y.overflow), ToSet(y.sleeping), ToSet(y.dying), P \ {t})
    BY <1>10, <1>12, <2>1 DEF Apart
  <2> QED BY <1>3, <1>8, <2>2 DEF Seated, Lost
<1>14. InOrder(y) BY <1>1, <1>3, <1>8, <1>9, <1>10 DEF InOrder, Lost
<1> QED BY <1>7, <1>9, <1>10, <1>11, <1>12, <1>13, <1>14 DEF Orderly, y

LEMMA AddFacts ==
    ASSUME NEW x, NEW P, Orderly(x, P), NEW t \in Tasks, t \notin P
    PROVE  LET y == prvAddTaskToReadyList(x, t)
           IN  /\ Orderly(y, P \cup {t}) /\ Same(x, y)
               /\ y.wake = x.wake /\ y.next = x.next /\ y.events = x.events
               /\ Readied(y) = Readied(x) \cup {t}
               /\ y.delayed = x.delayed /\ y.overflow = x.overflow
               /\ y.sleeping = x.sleeping /\ y.dying = x.dying
<1> DEFINE y == prvAddTaskToReadyList(x, t)
           q == x.prio[t]
           l == vListInsertEnd(x.ready[q], t)
<1>1. x \in Kernels /\ Seated(x, P) /\ Ranked(x) /\ InOrder(x) BY DEF Orderly
<1>2. q \in Priorities /\ x.top \in Priorities /\ x.ready \in [Priorities -> Rings]
      /\ \A u \in Tasks : x.prio[u] \in Priorities
  BY <1>1, KernelFields
<1>3. t \notin ToSet(x.ready[q].items) BY <1>1 DEF Seated, Apart, Readied
<1>4. Turning(x.ready[q]) BY <1>1, <1>2 DEF Ranked
<1>5. Turning(l) /\ Gained(x.ready[q].items, l.items, t) BY <1>3, <1>4, InsertEndFacts
<1>6. /\ y = [x EXCEPT !.top = IF q > x.top THEN q ELSE x.top, !.ready = [x.ready EXCEPT ![q] = l]]
      /\ [x.ready EXCEPT ![q] = l] \in [Priorities -> Rings]
      /\ (IF q > x.top THEN q ELSE x.top) \in Priorities
  <2>1. l \in Rings BY <1>5 DEF Turning
  <2> HIDE DEF l
  <2>2. y = [x EXCEPT !.top = IF q > x.top THEN q ELSE x.top, !.ready = [x.ready EXCEPT ![q] = l]]
    BY <1>1 DEF prvAddTaskToReadyList, Kernels, l
  <2> QED BY <1>2, <2>1, <2>2
<1> HIDE DEF l, y
<1>7. y \in Kernels BY <1>1, <1>6 DEF Kernels
<1>8. /\ y.ready = [x.ready EXCEPT ![q] = l] /\ y.top = IF q > x.top THEN q ELSE x.top
      /\ Same(x, y) /\ y.wake = x.wake /\ y.next = x.next /\ y.events = x.events
      /\ y.delayed = x.delayed /\ y.overflow = x.overflow /\ y.sleeping = x.sleeping /\ y.dying = x.dying
  BY <1>1, <1>6 DEF Kernels, Same, Alike
<1>9. \A p \in Priorities : y.ready[p] = IF p = q THEN l ELSE x.ready[p] BY <1>2, <1>8
<1>10. Ranked(y)
  <2>1. ASSUME NEW p \in Priorities
        PROVE  /\ Turning(y.ready[p])
               /\ \A u \in ToSet(y.ready[p].items) : y.prio[u] = p /\ p <= y.top
    <3>1. x.prio = y.prio /\ q <= y.top /\ (p <= x.top => p <= y.top)
      BY <1>2, <1>8 DEF Same, Alike, Priorities
    <3>2. CASE p = q
      <4>1. ToSet(y.ready[p].items) = ToSet(x.ready[q].items) \cup {t} BY <1>5, <1>9, <3>2 DEF Gained
      <4>2. \A u \in ToSet(x.ready[q].items) : x.prio[u] = q BY <1>1, <1>2 DEF Ranked
      <4> QED BY <1>5, <1>9, <3>1, <3>2, <4>1, <4>2
    <3>3. CASE p # q BY <1>1, <1>9, <3>1, <3>3 DEF Ranked
    <3> QED BY <3>2, <3>3
  <2> QED BY <2>1 DEF Ranked
<1>11. Readied(y) = Readied(x) \cup {t}
  <2>1. ASSUME NEW u \in Tasks PROVE u \in Readied(y) <=> u \in Readied(x) \/ u = t
    <3>1. y.prio[u] = x.prio[u] /\ x.prio[u] \in Priorities BY <1>2, <1>8 DEF Same, Alike
    <3>2. CASE x.prio[u] = q
      <4>1. y.ready[y.prio[u]] = l BY <1>9, <3>1, <3>2
      <4> QED BY <1>5, <3>2, <4>1 DEF Readied, Gained
    <3>3. CASE x.prio[u] # q
      <4>1. y.ready[y.prio[u]] = x.ready[x.prio[u]] BY <1>9, <3>1, <3>3
      <4> QED BY <3>3, <4>1 DEF Readied
    <3> QED BY <3>2, <3>3
  <2> QED BY <2>1 DEF Readied
<1>12. Seated(y, P \cup {t})
  <2>1. Apart(Readied(x), ToSet(x.delayed), ToSet(x.overflow), ToSet(x.sleeping), ToSet(x.dying), P)
    BY <1>1 DEF Seated
  <2>2. Apart(Readied(y), ToSet(x.delayed), ToSet(x.overflow), ToSet(x.sleeping), ToSet(x.dying), P \cup {t})
    BY <1>11, <2>1 DEF Apart
  <2> QED BY <1>1, <1>8, <2>2 DEF Seated
<1>13. InOrder(y) BY <1>1, <1>8 DEF InOrder
<1> QED BY <1>7, <1>8, <1>10, <1>11, <1>12, <1>13 DEF Orderly, y

-----------------------------------------------------------------------------
(* Who sleeps, and until when.                                             *)

(* What every routine does to the tasks but T: they only wake, they do not *)
(* fall asleep, and xPendingReadyList loses them to the ready lists.       *)
Kept(x, y, T) ==
    /\ Readied(x) \ T \subseteq Readied(y)
    /\ Timed(y) \ T \subseteq Timed(x)
    /\ ToSet(y.sleeping) \ T \subseteq ToSet(x.sleeping)
    /\ ToSet(x.events[Pending]) \ T \subseteq Readied(y) \cup ToSet(y.events[Pending])
    /\ ToSet(y.events[Pending]) \ T \subseteq ToSet(x.events[Pending])

(* A routine that counts no tick.                                          *)
Timeless(x, y, T) ==
    /\ y.tick = x.tick /\ y.ovf = x.ovf
    /\ ToSet(y.delayed) \ T \subseteq ToSet(x.delayed)
    /\ ToSet(y.overflow) \ T \subseteq ToSet(x.overflow)
    /\ \A t \in Tasks \ T : y.wake[t] = x.wake[t]

Calm(x, y, T) == Kept(x, y, T) /\ Timeless(x, y, T)

(* The times u are those the sleeping tasks are to wake at: those on the   *)
(* current list before the tick counter wraps, the others after.           *)
Timely(x, u) ==
    /\ \A t \in ToSet(x.delayed) :
          x.tick < x.wake[t] /\ u[t] = x.ovf * Wrap + x.wake[t]
    /\ \A t \in ToSet(x.overflow) :
          x.wake[t] < x.tick /\ u[t] = ((x.ovf + 1) % Overflows) * Wrap + x.wake[t]

(* The time a is j ticks from now.                                         *)
After(x, j, a) == \E c \in Int : a = Now(x) + j + c * Cycle

(* A routine that counts m ticks: who sleeps does so until its time, and   *)
(* is woken by one of these ticks if by nobody else.                       *)
Later(x, y, m) ==
    /\ Kept(x, y, {}) /\ After(x, m, Now(y))
    /\ \A u : Timely(x, u) =>
          /\ Timely(y, u)
          /\ \A t \in Timed(x) \ Timed(y) :
                t \in ToSet(x.events[Pending]) \/ \E j \in 1 .. m : After(x, j, u[t])

LEMMA CalmAgain ==
    ASSUME NEW x, NEW y, NEW z, NEW T, Calm(x, y, T), Calm(y, z, T)
    PROVE  Calm(x, z, T)
BY DEF Calm, Timeless, Kept

LEMMA CalmMore ==
    ASSUME NEW x, NEW y, NEW T, NEW U, Calm(x, y, T), T \subseteq U
    PROVE  Calm(x, y, U)
BY DEF Calm, Timeless, Kept

(* The lists are the same.                                                 *)
Still(x, y) ==
    /\ Readied(y) = Readied(x) /\ y.events = x.events
    /\ y.delayed = x.delayed /\ y.overflow = x.overflow /\ y.sleeping = x.sleeping
    /\ y.wake = x.wake /\ y.tick = x.tick /\ y.ovf = x.ovf

LEMMA StillIsCalm ==
    ASSUME NEW x, NEW y, NEW T, Still(x, y)
    PROVE  Calm(x, y, T)
BY DEF Calm, Timeless, Kept, Still, Timed

(* Times are whole numbers.                                                *)
LEMMA Widths ==
    /\ Wrap \in Nat \ {0} /\ Overflows \in Nat \ {0} /\ Cycle \in Nat /\ MaxDelay \in Nat
    /\ Wrap = MaxDelay + 1 /\ Cycle = Overflows * Wrap /\ Ticks = 0 .. Wrap - 1
    /\ \A x \in Kernels : Now(x) \in Nat /\ x.tick \in 0 .. Wrap - 1 /\ x.ovf \in 0 .. Overflows - 1
<1>1. MaxDelay \in Nat /\ Overflows \in Nat \ {0} BY KernelAssumption
<1>2. Wrap \in Nat \ {0} /\ Wrap = MaxDelay + 1 /\ Ticks = 0 .. Wrap - 1 BY <1>1 DEF Wrap, Ticks
<1>3. Cycle = Overflows * Wrap /\ Cycle \in Nat BY <1>1, <1>2 DEF Cycle
<1>4. ASSUME NEW x \in Kernels
      PROVE  Now(x) \in Nat /\ x.tick \in 0 .. Wrap - 1 /\ x.ovf \in 0 .. Overflows - 1
  <2>1. x.tick \in 0 .. Wrap - 1 /\ x.ovf \in 0 .. Overflows - 1 BY <1>2, KernelFields
  <2>2. x.tick \in Nat /\ x.ovf \in Nat BY <1>1, <1>2, <2>1
  <2> QED BY <1>1, <1>2, <2>1, <2>2 DEF Now
<1> QED BY <1>1, <1>2, <1>3, <1>4

LEMMA StillIsLater ==
    ASSUME NEW x \in Kernels, NEW y, Still(x, y)
    PROVE  Later(x, y, 0)
<1>1. Kept(x, y, {}) BY DEF Kept, Still, Timed
<1>2. After(x, 0, Now(y))
  <2>1. Now(y) = Now(x) BY DEF Still, Now
  <2>2. Now(x) = Now(x) + 0 + 0 * Cycle BY Widths
  <2> QED BY <2>1, <2>2 DEF After
<1>3. Timed(y) = Timed(x) BY DEF Still, Timed
<1>4. \A u : Timely(x, u) => Timely(y, u) BY DEF Still, Timely
<1> QED BY <1>1, <1>2, <1>3, <1>4 DEF Later

(* Who sleeps on does so until the same time.                              *)
LEMMA CalmIsTimely ==
    ASSUME NEW x \in Kernels, NEW y \in Kernels, NEW T, Timeless(x, y, T), Timed(y) \cap T = {},
           NEW u, Timely(x, u), NEW v, \A t \in Timed(y) : v[t] = u[t]
    PROVE  Timely(y, v)
<1>1. Timed(y) \subseteq Tasks
  <2>1. y.delayed \in Seq(Tasks) /\ y.overflow \in Seq(Tasks) BY KernelFields
  <2> QED BY <2>1, SetOf DEF Timed
<1>2. ASSUME NEW t \in Timed(y)
      PROVE  /\ v[t] = u[t] /\ y.wake[t] = x.wake[t]
             /\ t \in ToSet(y.delayed) => t \in ToSet(x.delayed)
             /\ t \in ToSet(y.overflow) => t \in ToSet(x.overflow)
  <2>1. t \in Tasks \ T BY <1>1
  <2> QED BY <2>1 DEF Timeless
<1>3. y.tick = x.tick /\ y.ovf = x.ovf BY DEF Timeless
<1> QED BY <1>2, <1>3 DEF Timely, Timed

LEMMA CalmIsLater ==
    ASSUME NEW x \in Kernels, NEW y \in Kernels, Calm(x, y, {}),
           Timed(x) \ Timed(y) \subseteq ToSet(x.events[Pending])
    PROVE  Later(x, y, 0)
<1>1. Kept(x, y, {}) /\ y.tick = x.tick /\ y.ovf = x.ovf BY DEF Calm, Timeless
<1>2. After(x, 0, Now(y))
  <2>1. Now(y) = Now(x) BY <1>1 DEF Now
  <2>2. Now(x) = Now(x) + 0 + 0 * Cycle BY Widths
  <2> QED BY <2>1, <2>2 DEF After
<1>3. \A u : Timely(x, u) => Timely(y, u) BY CalmIsTimely DEF Calm
<1> QED BY <1>1, <1>2, <1>3 DEF Later

(* Ticks are counted one after the other.                                  *)
LEMMA LaterAgain ==
    ASSUME NEW x \in Kernels, NEW y \in Kernels, NEW z \in Kernels, NEW m \in Nat, NEW n \in Nat,
           Later(x, y, m), Later(y, z, n)
    PROVE  Later(x, z, m + n)
<1>1. Kept(x, z, {}) BY DEF Later, Kept
<1>2. Now(x) \in Int /\ Cycle \in Int BY Widths
<1>3. PICK c \in Int : Now(y) = Now(x) + m + c * Cycle BY DEF Later, After
<1>4. ASSUME NEW j \in Nat, NEW a, After(y, j, a) PROVE After(x, m + j, a)
  <2>1. PICK d \in Int : a = Now(y) + j + d * Cycle BY <1>4 DEF After
  <2>2. a = Now(x) + (m + j) + (c + d) * Cycle BY <1>2, <1>3, <2>1
  <2>3. c + d \in Int OBVIOUS
  <2> QED BY <2>2, <2>3 DEF After
<1>5. After(x, m + n, Now(z)) BY <1>4 DEF Later
<1>6. ASSUME NEW u, Timely(x, u)
      PROVE  /\ Timely(z, u)
             /\ \A t \in Timed(x) \ Timed(z) :
                   t \in ToSet(x.events[Pending]) \/ \E j \in 1 .. m + n : After(x, j, u[t])
  <2>1. Timely(y, u) BY <1>6 DEF Later
  <2>2. ASSUME NEW t \in Timed(x) \ Timed(z), t \notin ToSet(x.events[Pending])
        PROVE  \E j \in 1 .. m + n : After(x, j, u[t])
    <3>1. CASE t \notin Timed(y)
      <4>1. PICK j \in 1 .. m : After(x, j, u[t]) BY <1>6, <2>2, <3>1 DEF Later
      <4>2. j \in 1 .. m + n OBVIOUS
      <4> QED BY <4>1, <4>2
    <3>2. CASE t \in Timed(y)
      <4>1. t \notin ToSet(y.events[Pending]) BY <2>2 DEF Later, Kept
      <4>2. PICK j \in 1 .. n : After(y, j, u[t]) BY <2>1, <2>2, <3>2, <4>1 DEF Later
      <4>3. After(x, m + j, u[t]) BY <1>4, <4>2
      <4>4. m + j \in 1 .. m + n OBVIOUS
      <4> QED BY <4>3, <4>4
    <3> QED BY <3>1, <3>2
  <2>3. Timely(z, u) BY <2>1 DEF Later
  <2> QED BY <2>2, <2>3
<1> QED BY <1>1, <1>5, <1>6 DEF Later

-----------------------------------------------------------------------------
(* Loops.                                                                  *)

(* A loop of n turns from a, the i-th of which, F[i], takes S[i - 1] to    *)
(* S[i].                                                                   *)
Loop(n, S, a, F) ==
    n \in Nat /\ a \in S[0] /\ \A i \in 1 .. n : F[i] \in [S[i - 1] -> S[i]]

(* There is a function of the turns.                                       *)
LEMMA LoopExists ==
    ASSUME NEW n, NEW S, NEW a, NEW F, Loop(n, S, a, F)
    PROVE  \E f : /\ f = [i \in 0 .. n |-> IF i = 0 THEN a ELSE F[i][f[i - 1]]]
                  /\ \A i \in 0 .. n : f[i] \in S[i]
<1>0. n \in Nat /\ a \in S[0] /\ \A i \in 1 .. n : F[i] \in [S[i - 1] -> S[i]] BY DEF Loop
<1> DEFINE Runs(m, f) == /\ f = [i \in 0 .. m |-> IF i = 0 THEN a ELSE F[i][f[i - 1]]]
                         /\ \A i \in 0 .. m : f[i] \in S[i]
           Stuck == {m \in 0 .. n : ~ \E f : Runs(m, f)}
<1>1. ASSUME Stuck # {} PROVE FALSE
  <2>1. Stuck \subseteq Nat BY <1>0
  <2>2. PICK m \in Stuck : \A j \in Stuck : m <= j
    <3> HIDE DEF Stuck
    <3> QED BY <1>1, <2>1, LeastNatural
  <2>3. m \in 0 .. n /\ ~ \E f : Runs(m, f) OBVIOUS
  <2>4. CASE m = 0
    <3> DEFINE f == [i \in 0 .. 0 |-> a]
    <3>1. f = [i \in 0 .. 0 |-> IF i = 0 THEN a ELSE F[i][f[i - 1]]] OBVIOUS
    <3>2. \A i \in 0 .. 0 : f[i] \in S[i] BY <1>0
    <3>3. Runs(0, f) BY <3>1, <3>2
    <3> QED BY <2>3, <2>4, <3>3
  <2>5. CASE m # 0
    <3>0. m - 1 \in 0 .. n /\ ~(m <= m - 1) BY <1>0, <2>3, <2>5
    <3>1. m - 1 \in 0 .. n /\ m - 1 \notin Stuck BY <2>2, <3>0
    <3>2. PICK g : Runs(m - 1, g) BY <3>1
    <3>3. g = [i \in 0 .. m - 1 |-> IF i = 0 THEN a ELSE F[i][g[i - 1]]] BY <3>2
    <3>4. \A i \in 0 .. m - 1 : g[i] \in S[i] BY <3>2
    <3>5. \A i \in 0 .. m - 1 : g[i] = IF i = 0 THEN a ELSE F[i][g[i - 1]] BY <3>3
    <3> DEFINE f == [i \in 0 .. m |-> IF i = m THEN F[m][g[m - 1]] ELSE g[i]]
    <3>6. \A i \in 0 .. m - 1 : f[i] = g[i] BY <2>3
    <3>7. f[m] = F[m][g[m - 1]] BY <2>3
    <3>8. DOMAIN f = 0 .. m /\ f = [i \in 0 .. m |-> f[i]] OBVIOUS
    <3> HIDE DEF f
    <3>9. m - 1 \in 0 .. m - 1 /\ m \in 1 .. n BY <1>0, <2>3, <2>5
    <3>10. f[m] \in S[m] BY <1>0, <3>4, <3>7, <3>9
    <3>11. \A i \in 0 .. m : f[i] \in S[i]
      <4>1. ASSUME NEW i \in 0 .. m PROVE f[i] \in S[i]
        <5>1. CASE i = m BY <3>10, <5>1
        <5>2. CASE i # m
          <6>1. i \in 0 .. m - 1 BY <2>3, <5>2
          <6> QED BY <3>4, <3>6, <6>1
        <5> QED BY <5>1, <5>2
      <4> QED BY <4>1
    <3>12. \A i \in 0 .. m : f[i] = IF i = 0 THEN a ELSE F[i][f[i - 1]]
      <4>1. ASSUME NEW i \in 0 .. m PROVE f[i] = IF i = 0 THEN a ELSE F[i][f[i - 1]]
        <5>1. CASE i = m
          <6>1. f[m - 1] = g[m - 1] BY <3>6, <3>9
          <6> QED BY <2>5, <3>7, <5>1, <6>1
        <5>2. CASE i # m
          <6>1. i \in 0 .. m - 1 BY <2>3, <5>2
          <6>2. i # 0 => i - 1 \in 0 .. m - 1 BY <6>1
          <6> QED BY <3>5, <3>6, <6>1, <6>2
        <5> QED BY <5>1, <5>2
      <4> QED BY <4>1
    <3>13. f = [i \in 0 .. m |-> IF i = 0 THEN a ELSE F[i][f[i - 1]]] BY <3>8, <3>12
    <3>14. Runs(m, f) BY <3>11, <3>13
    <3> QED BY <2>3, <3>14
  <2> QED BY <2>4, <2>5
<1>2. n \in 0 .. n BY <1>0
<1>3. \E f : Runs(n, f) BY <1>1, <1>2
<1> QED BY <1>3

(* What every turn keeps holds at the end.                                 *)
LEMMA LoopInvariant ==
    ASSUME NEW n \in Nat, NEW S, NEW f, f[0] \in S[0],
           \A i \in 1 .. n : f[i - 1] \in S[i - 1] => f[i] \in S[i]
    PROVE  f[n] \in S[n]
<1> DEFINE Out == {m \in 0 .. n : f[m] \notin S[m]}
<1>1. ASSUME Out # {} PROVE FALSE
  <2>1. Out \subseteq Nat OBVIOUS
  <2>2. PICK m \in Out : \A j \in Out : m <= j
    <3> HIDE DEF Out
    <3> QED BY <1>1, <2>1, LeastNatural
  <2>3. m \in 0 .. n /\ f[m] \notin S[m] OBVIOUS
  <2>4. m \in 1 .. n /\ m - 1 \in 0 .. n /\ ~(m <= m - 1) BY <2>3
  <2>5. f[m - 1] \in S[m - 1] BY <2>2, <2>4
  <2> QED BY <2>3, <2>4, <2>5
<1>2. n \in 0 .. n OBVIOUS
<1> QED BY <1>1, <1>2

-----------------------------------------------------------------------------
(* Waking tasks.                                                           *)

(* Nothing waits for an event but on xPendingReadyList, where no deleted   *)
(* task is.                                                                *)
Evented(x, P) ==
    /\ \A l \in EventLists : x.events[l] = <<>>
    /\ IsInjective(x.events[Pending])
    /\ ToSet(x.events[Pending]) \subseteq P \ ToSet(x.dying)

Good(x, P) == Orderly(x, P) /\ Evented(x, P)

LEMMA PendingFields ==
    ASSUME NEW x \in Kernels
    PROVE  /\ x.events[Pending] \in Seq(Tasks) /\ ToSet(x.events[Pending]) \subseteq Tasks
           /\ DOMAIN x.events = EventLists \cup {Pending}
<1>1. x.events \in [EventLists \cup {Pending} -> Seq(Tasks)] BY KernelFields
<1> QED BY <1>1, SetOf

LEMMA RemoveEventFacts ==
    ASSUME NEW x, NEW P, NEW Q, Orderly(x, Q), Evented(x, P), NEW t \in Tasks
    PROVE  LET y == RemoveEvent(x, t)
           IN  /\ Orderly(y, Q) /\ Same(x, y) /\ Evented(y, P)
               /\ y.wake = x.wake /\ y.next = x.next /\ y.top = x.top /\ y.ready = x.ready
               /\ y.delayed = x.delayed /\ y.overflow = x.overflow
               /\ y.sleeping = x.sleeping /\ y.dying = x.dying
               /\ Readied(y) = Readied(x)
               /\ ToSet(y.events[Pending]) = ToSet(x.events[Pending]) \ {t}
<1> DEFINE y == RemoveEvent(x, t)
           events == [l \in DOMAIN x.events |-> Without(x.events[l], t)]
<1>1. x \in Kernels /\ Seated(x, Q) /\ Ranked(x) /\ InOrder(x) BY DEF Orderly
<1>2. /\ x.events \in [EventLists \cup {Pending} -> Seq(Tasks)]
      /\ DOMAIN x.events = EventLists \cup {Pending}
  BY <1>1, KernelFields
<1>3. \A l \in EventLists : Without(x.events[l], t) = <<>>
  <2>1. ASSUME NEW l \in EventLists PROVE Without(x.events[l], t) = <<>>
    <3>1. x.events[l] = <<>> BY DEF Evented
    <3>2. <<>> \in Seq(Tasks) /\ IsInjective(<<>>) /\ t \notin ToSet(<<>>)
      <4>1. <<>> \in Seq(Tasks) OBVIOUS
      <4>2. \A i, j \in 1 .. Len(<<>>) : <<>>[i] = <<>>[j] => i = j OBVIOUS
      <4> QED BY <4>1, <4>2, Distinct, SetOf
    <3> QED BY <3>1, <3>2, WithoutFacts
  <2> QED BY <2>1
<1>4. Lost(x.events[Pending], Without(x.events[Pending], t), t)
  <2>1. x.events[Pending] \in Seq(Tasks) /\ IsInjective(x.events[Pending]) BY <1>2 DEF Evented
  <2> QED BY <2>1, WithoutFacts
<1>5. /\ events \in [EventLists \cup {Pending} -> Seq(Tasks)]
      /\ events[Pending] = Without(x.events[Pending], t)
      /\ \A l \in EventLists : events[l] = <<>>
  <2>1. \A l \in EventLists \cup {Pending} : Without(x.events[l], t) \in Seq(Tasks)
    <3>1. Without(x.events[Pending], t) \in Seq(Tasks) BY <1>4 DEF Lost
    <3>2. <<>> \in Seq(Tasks) OBVIOUS
    <3> QED BY <1>3, <3>1, <3>2
  <2> QED BY <1>2, <1>3, <2>1
<1> HIDE DEF events
<1>6. y = [x EXCEPT !.events = events] BY <1>1 DEF RemoveEvent, Kernels, events
<1>7. y \in Kernels BY <1>1, <1>5, <1>6 DEF Kernels
<1>8. /\ Same(x, y) /\ y.events = events /\ y.wake = x.wake /\ y.next = x.next /\ y.top = x.top
      /\ y.ready = x.ready /\ y.delayed = x.delayed /\ y.overflow = x.overflow
      /\ y.sleeping = x.sleeping /\ y.dying = x.dying
  BY <1>1, <1>6 DEF Kernels, Same, Alike
<1> HIDE DEF y
<1>9. Readied(y) = Readied(x) BY <1>8 DEF Readied, Same, Alike
<1>10. Seated(y, Q) /\ InOrder(y) BY <1>1, <1>8, <1>9 DEF Seated, InOrder
<1>11. Ranked(y) BY <1>1, <1>8 DEF Ranked, Same, Alike
<1>12. Evented(y, P) /\ ToSet(y.events[Pending]) = ToSet(x.events[Pending]) \ {t}
  BY <1>4, <1>5, <1>8 DEF Evented, Lost
<1> QED BY <1>7, <1>8, <1>9, <1>10, <1>11, <1>12 DEF Orderly, y

LEMMA GoodIsKernel ==
    ASSUME NEW x, NEW P, Good(x, P)
    PROVE  x \in Kernels
BY DEF Good, Orderly

(* The tasks D have been made ready.                                       *)
Woken(x, P, D, y) ==
    /\ Good(y, P) /\ Same(x, y) /\ y.wake = x.wake /\ y.dying = x.dying
    /\ Readied(y) = Readied(x) \cup D
    /\ ToSet(y.delayed) = ToSet(x.delayed) \ D
    /\ ToSet(y.overflow) = ToSet(x.overflow) \ D
    /\ ToSet(y.sleeping) = ToSet(x.sleeping) \ D
    /\ ToSet(y.events[Pending]) = ToSet(x.events[Pending]) \ D

LEMMA WokenNone ==
    ASSUME NEW x, NEW P, Good(x, P)
    PROVE  Woken(x, P, {}, x)
BY DEF Woken, Same, Alike

LEMMA WokenAgain ==
    ASSUME NEW x, NEW P, NEW D, NEW y, NEW E, NEW z, Woken(x, P, D, y), Woken(y, P, E, z)
    PROVE  Woken(x, P, D \cup E, z)
BY DEF Woken, Same, Alike

LEMMA WokenIsCalm ==
    ASSUME NEW x, NEW P, NEW D, NEW y, Woken(x, P, D, y)
    PROVE  Calm(x, y, {}) /\ Timed(x) \ Timed(y) \subseteq D
<1>1. Kept(x, y, {}) BY DEF Woken, Kept, Timed
<1> QED BY <1>1 DEF Woken, Same, Calm, Timeless, Timed

(* Making a task ready that is not being deleted.                          *)
Wakes(x, P, t, y) == Good(x, P) /\ t \in P \ ToSet(x.dying) /\ y = Unblock(x, t)

LEMMA UnblockFacts ==
    ASSUME NEW x, NEW P, NEW t, NEW y, Wakes(x, P, t, y)
    PROVE  Woken(x, P, {t}, y)
<1>0. Good(x, P) /\ t \in P \ ToSet(x.dying) /\ y = Unblock(x, t) BY DEF Wakes
<1>1. Orderly(x, P) /\ Evented(x, P) /\ x \in Kernels BY <1>0 DEF Good, Orderly
<1>2. t \in Tasks
  <2>1. /\ ToSet(x.delayed) \subseteq Tasks /\ ToSet(x.overflow) \subseteq Tasks
        /\ ToSet(x.sleeping) \subseteq Tasks
    BY <1>1, KernelFields, SetOf
  <2> QED BY <1>0, <1>1, <2>1 DEF Orderly, Seated, Apart, Readied
<1> DEFINE a == RemoveState(x, t)
           b == RemoveEvent(a, t)
           c == prvAddTaskToReadyList(b, t)
<1>3. /\ Orderly(a, P \ {t}) /\ Same(x, a)
      /\ a.wake = x.wake /\ a.next = x.next /\ a.events = x.events
      /\ Readied(a) = Readied(x) \ {t}
      /\ ToSet(a.delayed) = ToSet(x.delayed) \ {t}
      /\ ToSet(a.overflow) = ToSet(x.overflow) \ {t}
      /\ ToSet(a.sleeping) = ToSet(x.sleeping) \ {t}
      /\ a.dying = x.dying
  BY <1>0, <1>1, <1>2, RemoveStateFacts
<1> HIDE DEF a
<1>4. Evented(a, P) BY <1>1, <1>3 DEF Evented
<1>5. /\ Orderly(b, P \ {t}) /\ Same(a, b) /\ Evented(b, P)
      /\ b.wake = a.wake /\ b.next = a.next
      /\ b.delayed = a.delayed /\ b.overflow = a.overflow
      /\ b.sleeping = a.sleeping /\ b.dying = a.dying
      /\ Readied(b) = Readied(a)
      /\ ToSet(b.events[Pending]) = ToSet(a.events[Pending]) \ {t}
  BY <1>2, <1>3, <1>4, RemoveEventFacts
<1> HIDE DEF b
<1>6. /\ Orderly(c, (P \ {t}) \cup {t}) /\ Same(b, c)
      /\ c.wake = b.wake /\ c.next = b.next /\ c.events = b.events
      /\ Readied(c) = Readied(b) \cup {t}
      /\ c.delayed = b.delayed /\ c.overflow = b.overflow
      /\ c.sleeping = b.sleeping /\ c.dying = b.dying
  BY <1>2, <1>5, AddFacts
<1>7. y = c BY <1>0 DEF Unblock, a, b
<1> HIDE DEF c
<1>8. (P \ {t}) \cup {t} = P BY <1>0
<1>9. Good(y, P) BY <1>5, <1>6, <1>7, <1>8 DEF Good, Evented
<1>10. Same(x, y) BY <1>3, <1>5, <1>6, <1>7 DEF Same, Alike
<1> QED BY <1>3, <1>5, <1>6, <1>7, <1>9, <1>10 DEF Woken

(* Making the tasks of a sequence ready.                                   *)
LEMMA UnblockAllFacts ==
    ASSUME NEW x, NEW P, Good(x, P), NEW s \in Seq(P \ ToSet(x.dying))
    PROVE  Woken(x, P, ToSet(s), UnblockAll(x, s))
<1> DEFINE n == Len(s)
           done(i) == {s[j] : j \in 1 .. i}
           S == [i \in 0 .. n |-> {y \in Kernels : Woken(x, P, done(i), y)}]
           F == [i \in 1 .. n |-> [y \in S[i - 1] |-> Unblock(y, s[i])]]
           T(f) == [i \in 0 .. n |-> IF i = 0 THEN x ELSE Unblock(f[i - 1], s[i])]
<1>1. n \in Nat /\ \A i \in 1 .. n : s[i] \in P \ ToSet(x.dying) OBVIOUS
<1>2. x \in S[0]
  <2>1. x \in Kernels /\ Woken(x, P, {}, x) BY WokenNone, GoodIsKernel
  <2>2. done(0) = {} OBVIOUS
  <2> HIDE DEF done
  <2>3. S[0] = {y \in Kernels : Woken(x, P, done(0), y)} BY <1>1
  <2> QED BY <2>1, <2>2, <2>3
<1>3. ASSUME NEW i \in 1 .. n, NEW y \in S[i - 1] PROVE Unblock(y, s[i]) \in S[i]
  <2>1. i - 1 \in 0 .. n /\ i \in 0 .. n BY <1>1
  <2>2. done(i) = done(i - 1) \cup {s[i]}
    <3>1. 1 .. i = (1 .. i - 1) \cup {i} OBVIOUS
    <3> QED BY <3>1
  <2> HIDE DEF done
  <2>3. Woken(x, P, done(i - 1), y) BY <2>1
  <2> DEFINE t == s[i]
             z == Unblock(y, t)
  <2>4. t \in P \ ToSet(y.dying) /\ Good(y, P) BY <1>1, <2>3 DEF Woken
  <2>5. Woken(y, P, {t}, z)
    <3>1. Wakes(y, P, t, z) BY <2>4 DEF Wakes
    <3> HIDE DEF t, z, S, F, T, n
    <3> QED BY <3>1, UnblockFacts
  <2> HIDE DEF z, t
  <2>6. Woken(x, P, done(i - 1) \cup {t}, z)
    <3> HIDE DEF S, F, T, n
    <3> QED BY <2>3, <2>5, WokenAgain
  <2>7. Woken(x, P, done(i), z) BY <2>2, <2>6 DEF t
  <2>8. z \in Kernels BY <2>7, GoodIsKernel DEF Woken
  <2>9. S[i] = {v \in Kernels : Woken(x, P, done(i), v)} BY <2>1
  <2> QED BY <2>7, <2>8, <2>9 DEF z, t
<1>4. \E f : f = T(f)
  <2>1. \A i \in 1 .. n : F[i] \in [S[i - 1] -> S[i]] BY <1>3
  <2> HIDE DEF F
  <2>2. PICK f : /\ f = [i \in 0 .. n |-> IF i = 0 THEN x ELSE F[i][f[i - 1]]]
                 /\ \A i \in 0 .. n : f[i] \in S[i]
    <3>1. Loop(n, S, x, F) BY <1>1, <1>2, <2>1 DEF Loop
    <3> HIDE DEF S, n
    <3> QED BY <3>1, LoopExists
  <2>3. \A i \in 1 .. n : F[i][f[i - 1]] = Unblock(f[i - 1], s[i])
    <3>1. ASSUME NEW i \in 1 .. n PROVE F[i][f[i - 1]] = Unblock(f[i - 1], s[i])
      <4>1. i - 1 \in 0 .. n BY <1>1
      <4>2. f[i - 1] \in S[i - 1] BY <2>2, <4>1
      <4> HIDE DEF S
      <4> QED BY <4>2 DEF F
    <3> QED BY <3>1
  <2>4. \A i \in 0 .. n : (IF i = 0 THEN x ELSE F[i][f[i - 1]]) = (IF i = 0 THEN x ELSE Unblock(f[i - 1], s[i]))
    BY <1>1, <2>3
  <2>5. f = T(f) BY <2>2, <2>4
  <2> QED BY <2>5
<1> DEFINE turn == CHOOSE f : f = T(f)
<1>5. turn = T(turn) BY <1>4
<1>6. UnblockAll(x, s) = turn[n] BY DEF UnblockAll
<1> HIDE DEF turn
<1>7. turn[0] = x /\ \A i \in 1 .. n : turn[i] = Unblock(turn[i - 1], s[i]) BY <1>1, <1>5
<1>8. turn[n] \in S[n]
  <2>1. ASSUME NEW i \in 1 .. n, turn[i - 1] \in S[i - 1] PROVE turn[i] \in S[i]
    <3>1. Unblock(turn[i - 1], s[i]) \in S[i] BY <1>3, <2>1
    <3> QED BY <1>7, <3>1
  <2> HIDE DEF S, n
  <2> QED BY <1>1, <1>2, <1>7, <2>1, LoopInvariant
<1>9. done(n) = ToSet(s)
  <2>1. DOMAIN s = 1 .. n OBVIOUS
  <2> QED BY <2>1 DEF ToSet
<1> HIDE DEF done
<1>10. n \in 0 .. n BY <1>1
<1> QED BY <1>6, <1>8, <1>9, <1>10

-----------------------------------------------------------------------------
(* Time.                                                                   *)

(* Good but for xNextTaskUnblockTime.                                      *)
Loose(x, P) ==
    /\ x \in Kernels /\ Seated(x, P) /\ Ranked(x) /\ Evented(x, P)
    /\ Ordered(x.delayed, x.wake) /\ Ordered(x.overflow, x.wake)

LEMMA GoodIsLoose ==
    ASSUME NEW x, NEW P, Good(x, P)
    PROVE  Loose(x, P) /\ x \in Kernels
BY DEF Loose, Good, Orderly, InOrder

LEMMA ResetFacts ==
    ASSUME NEW x, NEW P, Loose(x, P)
    PROVE  LET y == prvResetNextTaskUnblockTime(x)
           IN  /\ Good(y, P) /\ Same(x, y) /\ y.wake = x.wake /\ Readied(y) = Readied(x)
               /\ y.ready = x.ready /\ y.top = x.top
               /\ y.delayed = x.delayed /\ y.overflow = x.overflow
               /\ y.sleeping = x.sleeping /\ y.dying = x.dying /\ y.events = x.events
<1> DEFINE y == prvResetNextTaskUnblockTime(x)
           t == Head(x.delayed)
           n == IF x.delayed = <<>> THEN MaxDelay ELSE x.wake[t]
<1>1. x \in Kernels BY DEF Loose
<1>2. x.delayed \in Seq(Tasks) /\ x.wake \in [Tasks -> Ticks] BY <1>1, KernelFields
<1>3. n \in Ticks /\ \A u \in ToSet(x.delayed) : n <= x.wake[u]
  <2>1. CASE x.delayed = <<>>
    <3>1. ToSet(x.delayed) = {} BY <1>2, <2>1, SetOf
    <3>2. MaxDelay \in Ticks BY KernelAssumption DEF Ticks
    <3> QED BY <2>1, <3>1, <3>2
  <2>2. CASE x.delayed # <<>>
    <3>1. 1 \in 1 .. Len(x.delayed) /\ t = x.delayed[1] /\ t \in Tasks BY <1>2, <2>2
    <3>2. ASSUME NEW u \in ToSet(x.delayed) PROVE x.wake[t] <= x.wake[u]
      <4>1. PICK i \in 1 .. Len(x.delayed) : x.delayed[i] = u BY <1>2, SetOf
      <4>2. x.wake[t] \in Int BY <1>2, <3>1 DEF Ticks
      <4>3. i = 1 \/ 1 < i OBVIOUS
      <4> QED BY <3>1, <4>1, <4>2, <4>3 DEF Loose, Ordered
    <3> QED BY <1>2, <2>2, <3>1, <3>2
  <2> QED BY <2>1, <2>2
<1>4. y = [x EXCEPT !.next = n] BY DEF prvResetNextTaskUnblockTime
<1> HIDE DEF n
<1>5. y \in Kernels BY <1>1, <1>3, <1>4 DEF Kernels
<1>6. /\ Same(x, y) /\ y.next = n /\ y.events = x.events /\ y.wake = x.wake /\ y.top = x.top
      /\ y.ready = x.ready /\ y.delayed = x.delayed /\ y.overflow = x.overflow
      /\ y.sleeping = x.sleeping /\ y.dying = x.dying
  BY <1>1, <1>4 DEF Kernels, Same, Alike
<1> HIDE DEF y
<1>7. Readied(y) = Readied(x) BY <1>6 DEF Readied, Same, Alike
<1>8. Seated(y, P) BY <1>6, <1>7 DEF Seated, Loose
<1>9. Ranked(y) BY <1>6 DEF Ranked, Loose, Same, Alike
<1>10. InOrder(y) BY <1>3, <1>6 DEF InOrder, Loose
<1>11. Evented(y, P) BY <1>6 DEF Evented, Loose
<1> QED BY <1>5, <1>6, <1>7, <1>8, <1>9, <1>10, <1>11 DEF Good, Orderly, y

(* The tick counts on, whichever delayed list is the current one.          *)
LEMMA CountTickFacts ==
    ASSUME NEW x, NEW P, Good(x, P)
    PROVE  LET y == CountTick(x)
           IN  /\ Good(y, P) /\ Alike(x, y) /\ y.pended = x.pended /\ y.yield = x.yield
               /\ Readied(y) = Readied(x) /\ y.wake = x.wake /\ y.dying = x.dying
               /\ y.sleeping = x.sleeping /\ y.events = x.events
               /\ Timed(y) = Timed(x)
               /\ x.tick = MaxDelay => /\ y.tick = 0 /\ y.ovf = (x.ovf + 1) % Overflows
                                       /\ y.delayed = x.overflow /\ y.overflow = x.delayed
               /\ x.tick # MaxDelay => /\ y.tick = x.tick + 1 /\ y.ovf = x.ovf
                                       /\ y.delayed = x.delayed /\ y.overflow = x.overflow
<1>1. Loose(x, P) /\ x \in Kernels /\ InOrder(x) BY GoodIsLoose DEF Good, Orderly
<1>2. x.tick \in 0 .. MaxDelay /\ MaxDelay \in Nat BY <1>1, KernelFields, KernelAssumption DEF Ticks
<1>3. CASE x.tick = MaxDelay
  <2> DEFINE a == [x EXCEPT !.tick = 0]
             b == [a EXCEPT !.delayed = a.overflow, !.overflow = a.delayed, !.ovf = (@ + 1) % Overflows]
             y == prvResetNextTaskUnblockTime(b)
  <2>1. CountTick(x) = y BY <1>3 DEF CountTick, taskSWITCH_DELAYED_LISTS
  <2>2. x.ovf \in Nat /\ Overflows \in Nat \ {0} BY <1>1, KernelFields, KernelAssumption
  <2>3. (x.ovf + 1) % Overflows \in 0 .. Overflows - 1 BY <2>2
  <2>4. 0 \in Ticks BY <1>2 DEF Ticks
  <2>5. b = [x EXCEPT !.tick = 0, !.delayed = x.overflow, !.overflow = x.delayed,
                      !.ovf = (x.ovf + 1) % Overflows]
    BY <1>1 DEF Kernels
  <2> HIDE DEF a, b
  <2>6. b \in Kernels
    <3> DEFINE o == (x.ovf + 1) % Overflows
               c == [x EXCEPT !.tick = 0, !.ovf = o]
    <3>1. o \in 0 .. Overflows - 1 BY <2>3
    <3> HIDE DEF o
    <3>2. c \in Kernels BY <1>1, <2>4, <3>1 DEF Kernels
    <3>3. b = [c EXCEPT !.delayed = x.overflow, !.overflow = x.delayed] BY <1>1, <2>5 DEF Kernels, o
    <3>4. x.overflow \in Seq(Tasks) /\ x.delayed \in Seq(Tasks) BY <1>1, KernelFields
    <3> HIDE DEF c
    <3> QED BY <3>2, <3>3, <3>4 DEF Kernels
  <2>7. /\ Alike(x, b) /\ b.pended = x.pended /\ b.yield = x.yield /\ b.wake = x.wake /\ b.top = x.top
        /\ b.ready = x.ready /\ b.delayed = x.overflow /\ b.overflow = x.delayed
        /\ b.sleeping = x.sleeping /\ b.dying = x.dying /\ b.events = x.events
        /\ b.tick = 0 /\ b.ovf = (x.ovf + 1) % Overflows
    BY <1>1, <2>5 DEF Kernels, Alike
  <2>8. Readied(b) = Readied(x) BY <2>7 DEF Readied, Alike
  <2>9. Seated(b, P)
    <3>1. Apart(Readied(x), ToSet(x.delayed), ToSet(x.overflow), ToSet(x.sleeping), ToSet(x.dying), P)
      BY <1>1 DEF Loose, Seated
    <3>2. Apart(Readied(b), ToSet(b.delayed), ToSet(b.overflow), ToSet(b.sleeping), ToSet(b.dying), P)
      BY <2>7, <2>8, <3>1 DEF Apart
    <3> QED BY <1>1, <2>7, <3>2 DEF Loose, Seated
  <2>10. Ranked(b) BY <1>1, <2>7 DEF Ranked, Loose, Alike
  <2>11. Loose(b, P) BY <1>1, <2>6, <2>7, <2>9, <2>10 DEF Loose, Evented
  <2>12. /\ Good(y, P) /\ Same(b, y) /\ y.wake = b.wake /\ Readied(y) = Readied(b)
         /\ y.delayed = b.delayed /\ y.overflow = b.overflow
         /\ y.sleeping = b.sleeping /\ y.dying = b.dying /\ y.events = b.events
    BY <2>11, ResetFacts
  <2> HIDE DEF y
  <2>13. /\ Alike(x, y) /\ y.pended = x.pended /\ y.yield = x.yield
         /\ y.tick = 0 /\ y.ovf = (x.ovf + 1) % Overflows
    BY <2>7, <2>12 DEF Same, Alike
  <2>14. Timed(y) = Timed(x) BY <2>7, <2>12 DEF Timed
  <2> QED BY <1>3, <2>1, <2>7, <2>8, <2>12, <2>13, <2>14
<1>4. CASE x.tick # MaxDelay
  <2> DEFINE y == CountTick(x)
  <2>1. y = [x EXCEPT !.tick = x.tick + 1] BY <1>1, <1>4 DEF CountTick, Kernels
  <2>2. x.tick + 1 \in Ticks BY <1>2, <1>4 DEF Ticks
  <2> HIDE DEF y
  <2>3. y \in Kernels BY <1>1, <2>1, <2>2 DEF Kernels
  <2>4. /\ Alike(x, y) /\ y.pended = x.pended /\ y.yield = x.yield /\ y.wake = x.wake /\ y.top = x.top
        /\ y.ready = x.ready /\ y.delayed = x.delayed /\ y.overflow = x.overflow /\ y.next = x.next
        /\ y.sleeping = x.sleeping /\ y.dying = x.dying /\ y.events = x.events
        /\ y.tick = x.tick + 1 /\ y.ovf = x.ovf
    BY <1>1, <2>1 DEF Kernels, Alike
  <2>5. Readied(y) = Readied(x) BY <2>4 DEF Readied, Alike
  <2>6. Seated(y, P) BY <1>1, <2>4, <2>5 DEF Seated, Loose
  <2>7. Ranked(y) BY <1>1, <2>4 DEF Ranked, Loose, Alike
  <2>8. InOrder(y) /\ Evented(y, P) BY <1>1, <2>4 DEF InOrder, Evented, Loose
  <2>9. Timed(y) = Timed(x) BY <2>4 DEF Timed
  <2> QED BY <1>4, <2>3, <2>4, <2>5, <2>6, <2>7, <2>8, <2>9 DEF Good, Orderly, y
<1> QED BY <1>3, <1>4

(* The tasks that are due are on the delayed list.                         *)
LEMMA DueFacts ==
    ASSUME NEW x, NEW P, Good(x, P)
    PROVE  /\ Due(x) \in Seq(Tasks) /\ ToSet(Due(x)) \subseteq ToSet(x.delayed)
           /\ Due(x) \in Seq(P \ ToSet(x.dying))
           /\ x.tick < x.next => Due(x) = <<>>
           /\ \A t \in ToSet(Due(x)) : x.wake[t] <= x.tick
           /\ \A t \in ToSet(x.delayed) \ ToSet(Due(x)) : x.tick < x.wake[t]
<1> DEFINE s == x.delayed
           I == {j \in 1 .. Len(s) : x.wake[s[j]] > x.tick}
           i == SelectInSeq(s, LAMBDA t : x.wake[t] > x.tick)
           D == ToSet(s)
<1>1. x \in Kernels BY GoodIsLoose
<1>2. s \in Seq(Tasks) /\ Len(s) \in Nat BY <1>1, KernelFields
<1>3. D \subseteq P \ ToSet(x.dying) BY DEF Good, Orderly, Seated, Apart
<1>4. i = IF I # {} THEN Min(I) ELSE 0 BY DEF SelectInSeq
<1>5. i \in 0 .. Len(s)
  <2>1. I \subseteq 1 .. Len(s) /\ I \subseteq Nat OBVIOUS
  <2>2. I # {} => Min(I) \in I
    <3> HIDE DEF I
    <3> QED BY <2>1, LeastOf
  <2>3. CASE I = {} BY <1>2, <1>4, <2>3
  <2>4. CASE I # {}
    <3>1. i = Min(I) /\ Min(I) \in I BY <1>4, <2>2, <2>4
    <3> HIDE DEF I, i
    <3>2. i \in 1 .. Len(s) BY <2>1, <3>1
    <3> QED BY <1>2, <3>2
  <2> QED BY <2>3, <2>4
<1>6. Due(x) = IF x.tick < x.next THEN <<>> ELSE IF i = 0 THEN s ELSE SubSeq(s, 1, i - 1) BY DEF Due
<1>15. /\ i = 0 => \A j \in 1 .. Len(s) : ~(x.wake[s[j]] > x.tick)
       /\ i # 0 => /\ x.wake[s[i]] > x.tick
                   /\ \A j \in 1 .. i - 1 : ~(x.wake[s[j]] > x.tick)
  <2>1. I \subseteq 1 .. Len(s) /\ I \subseteq Nat OBVIOUS
  <2>2. I # {} => Min(I) \in I /\ \A j \in I : Min(I) <= j
    <3> HIDE DEF I
    <3> QED BY <2>1, LeastOf
  <2>3. CASE I = {} BY <1>2, <1>4, <2>3
  <2>4. CASE I # {}
    <3>1. i = Min(I) /\ i \in I /\ \A j \in I : i <= j BY <1>4, <2>2, <2>4
    <3> HIDE DEF i
    <3>2. i \in 1 .. Len(s) /\ x.wake[s[i]] > x.tick BY <3>1
    <3>3. ASSUME NEW j \in 1 .. i - 1 PROVE ~(x.wake[s[j]] > x.tick)
      <4>1. j \in 1 .. Len(s) /\ ~(i <= j) BY <1>2, <3>2
      <4> QED BY <3>1, <4>1
    <3> QED BY <3>2, <3>3
  <2> QED BY <2>3, <2>4
<1> HIDE DEF i, I
<1>16. x.wake \in [Tasks -> Ticks] /\ x.tick \in Int /\ x.next \in Int /\ Ticks \subseteq Int
  BY <1>1, KernelFields DEF Ticks
<1>17. \A j \in 1 .. Len(s) : s[j] \in Tasks /\ x.wake[s[j]] \in Int
  <2>1. \A j \in 1 .. Len(s) : s[j] \in Tasks
    <3> HIDE DEF s
    <3> QED BY <1>2
  <2>2. \A u \in Tasks : x.wake[u] \in Int BY <1>16
  <2> QED BY <2>1, <2>2
<1>21. /\ \A t \in ToSet(Due(x)) : x.wake[t] <= x.tick
       /\ \A t \in ToSet(s) \ ToSet(Due(x)) : x.tick < x.wake[t]
  <2>1. CASE x.tick < x.next
    <3>1. Due(x) = <<>> BY <1>6, <2>1
    <3>2. ToSet(<<>>) = {} BY DEF ToSet
    <3>3. ASSUME NEW t \in ToSet(s) PROVE x.tick < x.wake[t]
      <4>1. x.next <= x.wake[t] BY <3>3 DEF Good, Orderly, InOrder
      <4>2. x.wake[t] \in Int BY <1>2, <1>17, <3>3, SetOf
      <4> QED BY <1>16, <2>1, <4>1, <4>2
    <3> QED BY <3>1, <3>2, <3>3
  <2>2. CASE ~(x.tick < x.next) /\ i = 0
    <3>1. Due(x) = s BY <1>6, <2>2
    <3>2. ASSUME NEW t \in ToSet(s) PROVE x.wake[t] <= x.tick
      <4>1. PICK j \in 1 .. Len(s) : s[j] = t BY <1>2, SetOf
      <4>2. ~(x.wake[s[j]] > x.tick) /\ x.wake[s[j]] \in Int BY <1>15, <1>17, <2>2, <4>1
      <4> QED BY <1>16, <4>1, <4>2
    <3>3. ToSet(s) \ ToSet(s) = {} OBVIOUS
    <3> QED BY <3>1, <3>2, <3>3
  <2>3. CASE ~(x.tick < x.next) /\ i # 0
    <3> DEFINE d == SubSeq(s, 1, i - 1)
    <3>1. Due(x) = d BY <1>6, <2>3
    <3>2. i \in 1 .. Len(s) BY <1>5, <2>3
    <3>3. Len(d) = i - 1 /\ (\A j \in 1 .. i - 1 : d[j] = s[j]) /\ d \in Seq(Tasks)
      <4> HIDE DEF s
      <4> QED BY <1>2, <3>2
    <3>4. i \in Int BY <3>2
    <3> HIDE DEF d
    <3>5. ToSet(d) = {d[j] : j \in 1 .. i - 1} BY <3>3, SetOf
    <3>6. ASSUME NEW t \in ToSet(d) PROVE x.wake[t] <= x.tick
      <4>1. PICK j \in 1 .. i - 1 : s[j] = t BY <3>3, <3>5
      <4>2. j \in 1 .. Len(s) BY <1>2, <3>2
      <4>3. ~(x.wake[s[j]] > x.tick) /\ x.wake[s[j]] \in Int BY <1>15, <1>17, <2>3, <4>1, <4>2
      <4> QED BY <1>16, <4>1, <4>3
    <3>7. ASSUME NEW t \in ToSet(s) \ ToSet(d) PROVE x.tick < x.wake[t]
      <4>1. PICK j \in 1 .. Len(s) : s[j] = t BY <1>2, SetOf
      <4>2. j \notin 1 .. i - 1 BY <3>3, <3>5, <3>7, <4>1
      <4>3. i <= j BY <3>2, <4>2
      <4>4. x.wake[s[i]] <= x.wake[s[j]]
        <5>1. i = j \/ i < j BY <3>2, <4>3
        <5>2. Ordered(s, x.wake) BY DEF Good, Orderly, InOrder
        <5>3. i < j => x.wake[s[i]] <= x.wake[s[j]] BY <3>2, <5>2 DEF Ordered
        <5>4. x.wake[s[j]] \in Int BY <1>17
        <5> QED BY <5>1, <5>3, <5>4
      <4>5. x.wake[s[i]] > x.tick /\ x.wake[s[i]] \in Int /\ x.wake[s[j]] \in Int
        BY <1>15, <1>17, <2>3, <3>2
      <4> QED BY <1>16, <4>1, <4>4, <4>5
    <3> HIDE DEF s
    <3> QED BY <3>1, <3>6, <3>7
  <2> QED BY <2>1, <2>2, <2>3
<1>7. s \in Seq(D)
  <2>1. \A j \in 1 .. Len(s) : s[j] \in D BY <1>2, SetOf
  <2> HIDE DEF D
  <2> QED BY <1>2, <2>1
<1>8. <<>> \in Seq(D) OBVIOUS
<1>9. i # 0 => SubSeq(s, 1, i - 1) \in Seq(D)
  <2> HIDE DEF s, D
  <2> QED BY <1>5, <1>7
<1>10. Due(x) \in Seq(D)
  <2> HIDE DEF s, D
  <2> QED BY <1>6, <1>7, <1>8, <1>9
<1>11. D \subseteq Tasks BY <1>2, SetOf
<1> HIDE DEF D, s
<1>12. Due(x) \in Seq(Tasks) /\ Due(x) \in Seq(P \ ToSet(x.dying)) BY <1>3, <1>10, <1>11
<1>13. ToSet(Due(x)) \subseteq D
  <2>1. \A j \in 1 .. Len(Due(x)) : Due(x)[j] \in D BY <1>10
  <2> QED BY <1>12, <2>1, SetOf
<1>14. x.tick < x.next => Due(x) = <<>> BY <1>6
<1> QED BY <1>12, <1>13, <1>14, <1>21 DEF D, s

LEMMA WakeDueFacts ==
    ASSUME NEW x, NEW P, Good(x, P)
    PROVE  Woken(x, P, ToSet(Due(x)), WakeDue(x))
<1> DEFINE d == Due(x)
           a == UnblockAll(x, d)
           y == prvResetNextTaskUnblockTime(a)
<1>1. d \in Seq(Tasks) /\ d \in Seq(P \ ToSet(x.dying)) /\ (x.tick < x.next => d = <<>>)
  BY DueFacts
<1> HIDE DEF d
<1>2. CASE x.tick < x.next
  <2>1. WakeDue(x) = x BY <1>2 DEF WakeDue
  <2>2. ToSet(d) = {} BY <1>1, <1>2, SetOf
  <2> QED BY <2>1, <2>2, WokenNone DEF d
<1>3. CASE ~(x.tick < x.next)
  <2>1. WakeDue(x) = y BY <1>3 DEF WakeDue, d
  <2>2. Woken(x, P, ToSet(d), a) BY <1>1, UnblockAllFacts
  <2> HIDE DEF a
  <2>3. Loose(a, P) BY <2>2, GoodIsLoose DEF Woken
  <2>4. /\ Good(y, P) /\ Same(a, y) /\ y.wake = a.wake /\ Readied(y) = Readied(a)
        /\ y.delayed = a.delayed /\ y.dying = a.dying /\ y.events = a.events
        /\ y.overflow = a.overflow /\ y.sleeping = a.sleeping
    BY <2>3, ResetFacts
  <2> HIDE DEF y
  <2>5. Woken(a, P, {}, y) BY <2>4 DEF Woken
  <2>6. Woken(x, P, ToSet(d) \cup {}, y) BY <2>2, <2>5, WokenAgain
  <2>7. ToSet(d) \cup {} = ToSet(d) OBVIOUS
  <2> QED BY <2>1, <2>6, <2>7 DEF d
<1> QED BY <1>2, <1>3

-----------------------------------------------------------------------------
(* What runs.                                                              *)

(* The current task is ready, and no ready task has a higher priority.     *)
CurReady(x) == x.cur \in Readied(x)
NoHigher(x) == \A t \in Readied(x) : x.prio[t] <= x.prio[x.cur]

(* The idle task is always ready.                                          *)
IdleReady(x) == Idle \in Readied(x) /\ x.prio[Idle] = 0

(* xTaskIncrementTick: whoever it makes ready, if a task then outranks the *)
(* current one a switch is asked for.                                      *)
LEMMA IncrementTickFacts ==
    ASSUME NEW x, NEW P, Good(x, P)
    PROVE  LET r == xTaskIncrementTick(x)
               y == r.k
           IN  /\ Good(y, P) /\ Alike(x, y) /\ y.yield = x.yield /\ y.dying = x.dying
               /\ Readied(x) \subseteq Readied(y)
               /\ ToSet(y.events[Pending]) \subseteq ToSet(x.events[Pending])
               /\ r.switch \in BOOLEAN
               /\ x.susp # 0 => Readied(y) = Readied(x) /\ y.pended = x.pended + 1
               /\ x.susp = 0 => y.pended = x.pended
               /\ x.susp = 0 /\ (x.yield \/ NoHigher(x)) => r.switch \/ NoHigher(y)
<1>0. x \in Kernels /\ Loose(x, P) BY GoodIsLoose
<1>1. CASE x.susp # 0
  <2> DEFINE y == [x EXCEPT !.pended = @ + 1]
  <2>1. xTaskIncrementTick(x) = [k |-> y, switch |-> FALSE] BY <1>1 DEF xTaskIncrementTick
  <2>2. x.pended + 1 \in Nat BY <1>0, KernelFields
  <2>3. y \in Kernels BY <1>0, <2>2 DEF Kernels
  <2>4. /\ Alike(x, y) /\ y.pended = x.pended + 1 /\ y.yield = x.yield /\ y.wake = x.wake /\ y.top = x.top
        /\ y.ready = x.ready /\ y.delayed = x.delayed /\ y.overflow = x.overflow /\ y.next = x.next
        /\ y.sleeping = x.sleeping /\ y.dying = x.dying /\ y.events = x.events
    BY <1>0 DEF Kernels, Alike
  <2> HIDE DEF y
  <2>5. Readied(y) = Readied(x) BY <2>4 DEF Readied, Alike
  <2>6. Seated(y, P) BY <1>0, <2>4, <2>5 DEF Seated, Loose
  <2>7. Ranked(y) BY <1>0, <2>4 DEF Ranked, Loose, Alike
  <2>8. InOrder(y) /\ Evented(y, P) BY <2>4 DEF InOrder, Evented, Good, Orderly
  <2>9. Good(y, P) BY <2>3, <2>6, <2>7, <2>8 DEF Good, Orderly
  <2> QED BY <1>1, <2>1, <2>4, <2>5, <2>9
<1>2. CASE x.susp = 0
  <2> DEFINE a == CountTick(x)
             d == Due(a)
             y == WakeDue(a)
  <2>1. xTaskIncrementTick(x) = [k |-> y, switch |-> SwitchRequired(y, d)]
    BY <1>2 DEF xTaskIncrementTick, ProcessTick, Ticked
  <2>2. /\ Good(a, P) /\ Alike(x, a) /\ a.pended = x.pended /\ a.yield = x.yield
        /\ Readied(a) = Readied(x) /\ a.dying = x.dying /\ a.events = x.events
    BY CountTickFacts
  <2> HIDE DEF a
  <2>0. Woken(a, P, ToSet(d), y) /\ d \in Seq(Tasks) BY <2>2, WakeDueFacts, DueFacts
  <2>3. /\ Good(y, P) /\ Same(a, y) /\ y.dying = a.dying
        /\ Readied(y) = Readied(a) \cup ToSet(d)
        /\ ToSet(y.events[Pending]) = ToSet(a.events[Pending]) \ ToSet(d)
    BY <2>0 DEF Woken
  <2> HIDE DEF y, d
  <2>8. d \in Seq(Tasks) BY <2>0
  <2>4. Alike(x, y) /\ y.pended = x.pended /\ y.yield = x.yield BY <2>2, <2>3 DEF Same, Alike
  <2>5. y \in Kernels /\ y.yield \in BOOLEAN BY <2>3, GoodIsLoose, KernelFields
  <2>6. SwitchRequired(y, d) \in BOOLEAN BY <2>5 DEF SwitchRequired, Outranked
  <2>7. ASSUME ~SwitchRequired(y, d), x.yield \/ NoHigher(x) PROVE NoHigher(y)
    <3>1. ~x.yield /\ ~Outranked(y, d) BY <2>4, <2>7 DEF SwitchRequired
    <3>2. ASSUME NEW t \in Readied(y) PROVE y.prio[t] <= y.prio[y.cur]
      <4>1. y.prio \in [Tasks -> Priorities] /\ t \in Tasks /\ y.cur \in Tasks
        BY <2>5, KernelFields DEF Readied
      <4>2. y.prio[t] \in Int /\ y.prio[y.cur] \in Int BY <4>1 DEF Priorities
      <4>3. CASE t \in Readied(x) BY <2>4, <2>7, <3>1, <4>3 DEF NoHigher, Alike
      <4>4. CASE t \in ToSet(d)
        <5>1. PICK i \in 1 .. Len(d) : d[i] = t BY <2>8, <4>4, SetOf
        <5>2. i \in DOMAIN d BY <2>8, <5>1
        <5>3. ~(y.prio[t] > y.prio[y.cur]) BY <3>1, <5>1, <5>2 DEF Outranked
        <5> QED BY <4>2, <5>3
      <4> QED BY <2>2, <2>3, <4>3, <4>4
    <3> QED BY <3>2 DEF NoHigher
  <2> QED BY <1>2, <2>1, <2>2, <2>3, <2>4, <2>6, <2>7
<1> QED BY <1>0, <1>1, <1>2, KernelFields

(* Timely, but that a task whose time has come has yet to be woken.        *)
Nearly(x, u) ==
    /\ \A t \in ToSet(x.delayed) :
          x.tick <= x.wake[t] /\ u[t] = x.ovf * Wrap + x.wake[t]
    /\ \A t \in ToSet(x.overflow) :
          x.wake[t] < x.tick /\ u[t] = ((x.ovf + 1) % Overflows) * Wrap + x.wake[t]

(* When the tick counter wraps nobody is on the current list: who was to   *)
(* wake before has woken.                                                  *)
LEMMA CountTickTime ==
    ASSUME NEW x, NEW P, Good(x, P)
    PROVE  LET y == CountTick(x)
           IN  After(x, 1, Now(y)) /\ \A u : Timely(x, u) => Nearly(y, u)
<1> DEFINE y == CountTick(x)
<1>1. x \in Kernels BY GoodIsKernel
<1>2. /\ y.wake = x.wake
      /\ x.tick = MaxDelay => /\ y.tick = 0 /\ y.ovf = (x.ovf + 1) % Overflows
                              /\ y.delayed = x.overflow /\ y.overflow = x.delayed
      /\ x.tick # MaxDelay => /\ y.tick = x.tick + 1 /\ y.ovf = x.ovf
                              /\ y.delayed = x.delayed /\ y.overflow = x.overflow
  BY CountTickFacts
<1> HIDE DEF y
<1>3. /\ x.tick \in 0 .. Wrap - 1 /\ x.ovf \in 0 .. Overflows - 1 /\ Wrap \in Nat \ {0}
      /\ Overflows \in Nat \ {0} /\ MaxDelay = Wrap - 1 /\ Cycle = Overflows * Wrap
  BY <1>1, Widths
<1>4. /\ x.delayed \in Seq(Tasks) /\ x.overflow \in Seq(Tasks)
      /\ ToSet(x.delayed) \subseteq Tasks /\ ToSet(x.overflow) \subseteq Tasks
      /\ \A t \in Tasks : x.wake[t] \in 0 .. Wrap - 1
  BY <1>1, KernelFields, SetOf, Widths
<1>5. CASE x.tick # MaxDelay
  <2>1. Now(y) = x.ovf * Wrap + x.tick + 1 BY <1>2, <1>3, <1>5 DEF Now
  <2>2. Now(y) = Now(x) + 1 + 0 * Cycle BY <1>3, <2>1 DEF Now
  <2>3. ASSUME NEW u, Timely(x, u) PROVE Nearly(y, u)
    <3>1. ASSUME NEW t \in ToSet(x.delayed)
          PROVE  y.tick <= x.wake[t] /\ u[t] = y.ovf * Wrap + x.wake[t]
      <4>1. x.tick < x.wake[t] /\ u[t] = x.ovf * Wrap + x.wake[t] /\ x.wake[t] \in Int
        BY <1>4, <2>3, <3>1 DEF Timely
      <4> QED BY <1>2, <1>3, <1>5, <4>1
    <3>2. ASSUME NEW t \in ToSet(x.overflow)
          PROVE  x.wake[t] < y.tick /\ u[t] = ((y.ovf + 1) % Overflows) * Wrap + x.wake[t]
      <4>1. /\ x.wake[t] < x.tick /\ x.wake[t] \in Int
            /\ u[t] = ((x.ovf + 1) % Overflows) * Wrap + x.wake[t]
        BY <1>4, <2>3, <3>2 DEF Timely
      <4>2. x.wake[t] < y.tick BY <1>2, <1>3, <1>5, <4>1
      <4> QED BY <1>2, <1>5, <4>1, <4>2
    <3> QED BY <1>2, <1>5, <3>1, <3>2 DEF Nearly
  <2> QED BY <2>2, <2>3 DEF After, y
<1>6. CASE x.tick = MaxDelay
  <2>1. Now(y) = ((x.ovf + 1) % Overflows) * Wrap
    <3> DEFINE o == (x.ovf + 1) % Overflows
    <3>1. o \in Int BY <1>3
    <3>2. y.ovf = o /\ y.tick = 0 BY <1>2, <1>6
    <3> HIDE DEF o
    <3>3. o * Wrap + 0 = o * Wrap BY <1>3, <3>1
    <3> QED BY <3>2, <3>3 DEF Now, o
  <2>2. Now(x) + 1 = (x.ovf + 1) * Wrap BY <1>3, <1>6 DEF Now
  <2>3. After(x, 1, Now(y))
    <3>1. CASE x.ovf + 1 < Overflows
      <4>1. (x.ovf + 1) % Overflows = x.ovf + 1 BY <1>3, <3>1
      <4>2. Now(y) = Now(x) + 1 + 0 * Cycle BY <1>3, <2>1, <2>2, <4>1
      <4> QED BY <4>2 DEF After
    <3>2. CASE ~(x.ovf + 1 < Overflows)
      <4>1. x.ovf + 1 = Overflows BY <1>3, <3>2
      <4>2. (x.ovf + 1) % Overflows = 0 BY <1>3, <4>1
      <4>3. Now(y) = 0 BY <1>3, <2>1, <4>2
      <4>4. Now(x) + 1 = Cycle BY <1>3, <2>2, <4>1
      <4>5. Now(y) = Now(x) + 1 + (-1) * Cycle BY <1>3, <4>3, <4>4
      <4> QED BY <4>5 DEF After
    <3> QED BY <3>1, <3>2
  <2>4. ASSUME NEW u, Timely(x, u) PROVE Nearly(y, u)
    <3>1. ToSet(x.delayed) = {}
      <4>1. ASSUME NEW t \in ToSet(x.delayed) PROVE FALSE
        <5>1. x.tick < x.wake[t] /\ x.wake[t] \in 0 .. Wrap - 1 BY <1>4, <2>4, <4>1 DEF Timely
        <5> QED BY <1>3, <1>6, <5>1
      <4> QED BY <4>1
    <3>2. ASSUME NEW t \in ToSet(x.overflow)
          PROVE  y.tick <= x.wake[t] /\ u[t] = y.ovf * Wrap + x.wake[t]
      <4>1. u[t] = ((x.ovf + 1) % Overflows) * Wrap + x.wake[t] /\ x.wake[t] \in 0 .. Wrap - 1
        BY <1>4, <2>4, <3>2 DEF Timely
      <4>2. 0 <= x.wake[t] BY <1>3, <4>1
      <4> QED BY <1>2, <1>6, <4>1, <4>2
    <3> QED BY <1>2, <1>6, <3>1, <3>2 DEF Nearly
  <2> QED BY <2>3, <2>4 DEF y
<1> QED BY <1>5, <1>6

(* Exactly the tasks whose time it is are woken.                           *)
LEMMA WakeDueTime ==
    ASSUME NEW x, NEW P, Good(x, P), NEW u, Nearly(x, u)
    PROVE  LET y == WakeDue(x)
           IN  Timely(y, u) /\ \A t \in Timed(x) \ Timed(y) : u[t] = Now(x)
<1> DEFINE y == WakeDue(x)
           D == ToSet(Due(x))
<1>1. x \in Kernels BY GoodIsKernel
<1>2. Woken(x, P, D, y) BY WakeDueFacts
<1>3. /\ D \subseteq ToSet(x.delayed) /\ \A t \in D : x.wake[t] <= x.tick
      /\ \A t \in ToSet(x.delayed) \ D : x.tick < x.wake[t]
  BY DueFacts
<1> HIDE DEF y, D
<1>4. /\ y.wake = x.wake /\ y.tick = x.tick /\ y.ovf = x.ovf
      /\ ToSet(y.delayed) = ToSet(x.delayed) \ D /\ ToSet(y.overflow) = ToSet(x.overflow) \ D
  BY <1>2 DEF Woken, Same
<1>5. Timely(y, u) BY <1>3, <1>4 DEF Timely, Nearly
<1>6. ASSUME NEW t \in Timed(x) \ Timed(y) PROVE u[t] = Now(x)
  <2>1. t \in D BY <1>4, <1>6 DEF Timed
  <2>2. x.tick <= x.wake[t] /\ x.wake[t] <= x.tick /\ u[t] = x.ovf * Wrap + x.wake[t]
    BY <1>3, <2>1 DEF Nearly
  <2>3. x.wake[t] \in Int /\ x.tick \in Int
    <3>1. x.delayed \in Seq(Tasks) /\ x.wake \in [Tasks -> Ticks] /\ x.tick \in Ticks
      BY <1>1, KernelFields
    <3>2. t \in Tasks BY <1>3, <2>1, <3>1, SetOf
    <3> QED BY <3>1, <3>2 DEF Ticks
  <2>4. x.wake[t] = x.tick BY <2>2, <2>3
  <2> QED BY <2>2, <2>4 DEF Now
<1> QED BY <1>5, <1>6 DEF y

(* xTaskIncrementTick counts a tick, or holds it back.                     *)
LEMMA IncrementTickTime ==
    ASSUME NEW x, NEW P, Good(x, P)
    PROVE  LET y == xTaskIncrementTick(x).k
           IN  /\ x.susp = 0 => Later(x, y, 1)
               /\ x.susp # 0 => Still(x, y)
<1>1. x \in Kernels BY GoodIsKernel
<1>2. CASE x.susp # 0
  <2> DEFINE y == [x EXCEPT !.pended = @ + 1]
  <2>1. xTaskIncrementTick(x).k = y BY <1>2 DEF xTaskIncrementTick
  <2>2. /\ y.ready = x.ready /\ y.prio = x.prio /\ y.events = x.events /\ y.delayed = x.delayed
        /\ y.overflow = x.overflow /\ y.sleeping = x.sleeping /\ y.wake = x.wake
        /\ y.tick = x.tick /\ y.ovf = x.ovf
    BY <1>1 DEF Kernels
  <2> HIDE DEF y
  <2>3. Still(x, y) BY <2>2 DEF Still, Readied
  <2> QED BY <1>2, <2>1, <2>3
<1>3. CASE x.susp = 0
  <2> DEFINE a == CountTick(x)
             y == WakeDue(a)
             D == ToSet(Due(a))
  <2>1. xTaskIncrementTick(x).k = y BY <1>3 DEF xTaskIncrementTick, ProcessTick, Ticked
  <2>2. /\ Good(a, P) /\ Readied(a) = Readied(x) /\ a.events = x.events
        /\ a.sleeping = x.sleeping /\ Timed(a) = Timed(x)
    BY CountTickFacts
  <2>3. After(x, 1, Now(a)) /\ \A u : Timely(x, u) => Nearly(a, u) BY CountTickTime
  <2> HIDE DEF a
  <2>4. Woken(a, P, D, y) BY <2>2, WakeDueFacts
  <2>5. \A u : Nearly(a, u) => Timely(y, u) /\ \A t \in Timed(a) \ Timed(y) : u[t] = Now(a)
    BY <2>2, WakeDueTime
  <2> HIDE DEF y, D
  <2>6. Kept(x, y, {})
    <3>1. /\ Readied(y) = Readied(a) \cup D /\ Timed(y) \subseteq Timed(a)
          /\ ToSet(y.sleeping) \subseteq ToSet(a.sleeping)
          /\ ToSet(y.events[Pending]) = ToSet(a.events[Pending]) \ D
      BY <2>4 DEF Woken, Timed
    <3> QED BY <2>2, <3>1 DEF Kept
  <2>7. Now(y) = Now(a) BY <2>4 DEF Woken, Same, Now
  <2>8. ASSUME NEW u, Timely(x, u)
        PROVE  /\ Timely(y, u)
               /\ \A t \in Timed(x) \ Timed(y) :
                     t \in ToSet(x.events[Pending]) \/ \E j \in 1 .. 1 : After(x, j, u[t])
    <3>1. Nearly(a, u) BY <2>3, <2>8
    <3>2. Timely(y, u) /\ \A t \in Timed(x) \ Timed(y) : u[t] = Now(a) BY <2>2, <2>5, <3>1
    <3>3. 1 \in 1 .. 1 OBVIOUS
    <3> QED BY <2>3, <3>2, <3>3
  <2> QED BY <1>3, <2>1, <2>3, <2>6, <2>7, <2>8 DEF Later
<1> QED BY <1>2, <1>3

-----------------------------------------------------------------------------
(* Switching tasks.                                                        *)

(* What a switch leaves alone.                                             *)
Members(x, y) ==
    /\ y.num = x.num /\ y.cleanup = x.cleanup /\ y.prio = x.prio /\ y.base = x.base
    /\ y.nstate = x.nstate /\ y.nval = x.nval

Switched(x, y) ==
    /\ Members(x, y) /\ y.susp = x.susp /\ Readied(y) = Readied(x)
    /\ y.tick = x.tick /\ y.ovf = x.ovf /\ y.pended = x.pended
    /\ y.dying = x.dying /\ y.events = x.events /\ y.delayed = x.delayed
    /\ y.overflow = x.overflow /\ y.sleeping = x.sleeping /\ y.wake = x.wake

LEMMA SwitchedIsStill ==
    ASSUME NEW x, NEW y, Switched(x, y)
    PROVE  Still(x, y)
BY DEF Switched, Still

(* There is a highest priority with a ready task, and what there is above  *)
(* it is not ready.                                                        *)
LEMMA HighestExists ==
    ASSUME NEW x, NEW P, Good(x, P), IdleReady(x)
    PROVE  \E p \in 0 .. x.top : /\ x.ready[p].items # <<>>
                                 /\ \A q \in p + 1 .. x.top : x.ready[q].items = <<>>
<1> DEFINE Q == {i \in 0 .. x.top : x.ready[x.top - i].items # <<>>}
<1>1. x \in Kernels /\ Ranked(x) BY DEF Good, Orderly
<1>2. x.top \in Priorities /\ x.top \in Nat BY <1>1, KernelFields, KernelAssumption DEF Priorities
<1>3. x.ready[0].items # <<>>
  <2>1. Idle \in ToSet(x.ready[0].items) BY DEF IdleReady, Readied
  <2> QED BY <2>1 DEF ToSet
<1>4. x.top \in Q
  <2>1. x.top - x.top = 0 /\ x.top \in 0 .. x.top BY <1>2
  <2> QED BY <1>3, <2>1
<1>5. Q \subseteq Nat BY <1>2
<1>6. PICK m \in Q : \A j \in Q : m <= j
  <2> HIDE DEF Q
  <2> QED BY <1>4, <1>5, LeastNatural
<1> DEFINE p == x.top - m
<1>7. m \in 0 .. x.top /\ x.ready[p].items # <<>> BY <1>6
<1>8. p \in 0 .. x.top BY <1>2, <1>7
<1>9. ASSUME NEW q \in p + 1 .. x.top PROVE x.ready[q].items = <<>>
  <2> DEFINE i == x.top - q
  <2>1. i \in 0 .. x.top /\ i < m /\ x.top - i = q BY <1>2, <1>7
  <2>2. i \notin Q
    <3>1. i \in Int /\ m \in Int BY <1>7, <2>1
    <3> HIDE DEF Q, i
    <3> QED BY <1>6, <2>1, <3>1
  <2> QED BY <2>1, <2>2
<1> QED BY <1>7, <1>8, <1>9

(* The task that is picked is of priority p.                               *)
LEMMA SelectFromFacts ==
    ASSUME NEW x, NEW P, Good(x, P), NEW p \in 0 .. x.top, x.ready[p].items # <<>>,
           \A q \in p + 1 .. x.top : x.ready[q].items = <<>>
    PROVE  LET y == SelectFrom(x, p)
           IN  /\ Good(y, P) /\ Switched(x, y) /\ y.yield = x.yield
               /\ CurReady(y) /\ NoHigher(y)
<1> DEFINE l == listGET_OWNER_OF_NEXT_ENTRY(x.ready[p])
           y == SelectFrom(x, p)
<1>1. x \in Kernels /\ Ranked(x) /\ Seated(x, P) /\ InOrder(x) /\ Evented(x, P) BY DEF Good, Orderly
<1>2. x.top \in Nat /\ p \in Priorities /\ p \in Int /\ x.ready \in [Priorities -> Rings]
      /\ x.prio \in [Tasks -> Priorities]
  BY <1>1, KernelFields, KernelAssumption DEF Priorities
<1>3. Turning(x.ready[p]) BY <1>1, <1>2 DEF Ranked
<1>4. Turning(l) /\ l.items = x.ready[p].items /\ l.items[l.index] \in ToSet(x.ready[p].items)
  BY <1>3, NextFacts
<1> DEFINE t == l.items[l.index]
           r == [x.ready EXCEPT ![p] = l]
<1>5. y = [x EXCEPT !.ready = r, !.top = p, !.cur = t] BY <1>1 DEF SelectFrom, Kernels
<1>6. l \in Rings BY <1>4 DEF Turning
<1>7. t \in Tasks
  <2>1. x.ready[p].items \in Seq(Tasks) BY <1>2 DEF Rings
  <2> QED BY <1>4, <2>1, SetOf
<1> HIDE DEF l, t
<1>8. r \in [Priorities -> Rings] BY <1>2, <1>6
<1>9. \A q \in Priorities : r[q] = IF q = p THEN l ELSE x.ready[q] BY <1>2
<1> HIDE DEF r
<1> HIDE DEF y
<1>10. y \in Kernels BY <1>1, <1>2, <1>5, <1>7, <1>8 DEF Kernels
<1>11. /\ y.ready = r /\ y.top = p /\ y.cur = t /\ y.yield = x.yield
       /\ y.num = x.num /\ y.cleanup = x.cleanup /\ y.prio = x.prio /\ y.base = x.base
       /\ y.nstate = x.nstate /\ y.nval = x.nval /\ y.susp = x.susp /\ y.tick = x.tick
       /\ y.ovf = x.ovf /\ y.pended = x.pended
  BY <1>1, <1>5 DEF Kernels
<1>12. /\ y.delayed = x.delayed /\ y.overflow = x.overflow /\ y.sleeping = x.sleeping
       /\ y.dying = x.dying /\ y.events = x.events /\ y.wake = x.wake /\ y.next = x.next
  BY <1>1, <1>5 DEF Kernels
<1>13. \A q \in Priorities : y.ready[q].items = x.ready[q].items /\ Turning(y.ready[q])
  BY <1>1, <1>4, <1>9, <1>11 DEF Ranked
<1>14. Readied(y) = Readied(x) BY <1>2, <1>11, <1>13 DEF Readied
<1>15. Seated(y, P) /\ InOrder(y) /\ Evented(y, P) BY <1>1, <1>12, <1>14 DEF Seated, InOrder, Evented
<1>16. ASSUME NEW q \in Priorities, NEW u \in ToSet(x.ready[q].items) PROVE q <= p
  <2>1. q <= x.top BY <1>1 DEF Ranked
  <2>2. x.ready[q].items # <<>> BY DEF ToSet
  <2>3. q \notin p + 1 .. x.top BY <2>2
  <2>4. q \in Int BY DEF Priorities
  <2> QED BY <1>2, <2>1, <2>3, <2>4
<1>17. Ranked(y)
  <2>1. ASSUME NEW q \in Priorities
        PROVE  Turning(y.ready[q]) /\ \A u \in ToSet(y.ready[q].items) : y.prio[u] = q /\ q <= y.top
    <3>1. \A u \in ToSet(x.ready[q].items) : x.prio[u] = q BY <1>1 DEF Ranked
    <3> QED BY <1>11, <1>13, <1>16, <3>1
  <2> QED BY <2>1 DEF Ranked
<1>18. y.cur \in Readied(x) /\ x.prio[y.cur] = p
  <2>1. x.prio[t] = p BY <1>1, <1>2, <1>4 DEF Ranked, t
  <2> QED BY <1>4, <1>7, <1>11, <2>1 DEF Readied, t
<1>19. CurReady(y) /\ NoHigher(y)
  <2>1. ASSUME NEW u \in Readied(x) PROVE x.prio[u] <= p
    <3>1. x.prio[u] \in Priorities /\ u \in ToSet(x.ready[x.prio[u]].items) BY <1>2 DEF Readied
    <3> QED BY <1>16, <3>1
  <2> QED BY <1>11, <1>14, <1>18, <2>1 DEF CurReady, NoHigher
<1> QED BY <1>10, <1>11, <1>12, <1>14, <1>15, <1>17, <1>19 DEF Good, Orderly, Switched, Members, y

(* Nothing but xYieldPendings changes.                                     *)
LEMMA FlagFacts ==
    ASSUME NEW x, NEW P, Good(x, P), NEW b \in BOOLEAN
    PROVE  LET y == [x EXCEPT !.yield = b]
           IN  /\ Good(y, P) /\ Alike(x, y) /\ Switched(x, y) /\ y.yield = b
               /\ y.delayed = x.delayed /\ y.overflow = x.overflow /\ y.wake = x.wake
<1> DEFINE y == [x EXCEPT !.yield = b]
<1>0. x \in Kernels /\ Loose(x, P) BY GoodIsLoose
<1>1. y \in Kernels BY <1>0 DEF Kernels
<1>2. /\ Alike(x, y) /\ y.yield = b /\ y.pended = x.pended /\ y.wake = x.wake /\ y.top = x.top
      /\ y.tick = x.tick /\ y.ovf = x.ovf
      /\ y.ready = x.ready /\ y.delayed = x.delayed /\ y.overflow = x.overflow /\ y.next = x.next
      /\ y.sleeping = x.sleeping /\ y.dying = x.dying /\ y.events = x.events
  BY <1>0 DEF Kernels, Alike
<1> HIDE DEF y
<1>3. Readied(y) = Readied(x) BY <1>2 DEF Readied, Alike
<1>4. Seated(y, P) BY <1>0, <1>2, <1>3 DEF Seated, Loose
<1>5. Ranked(y) BY <1>0, <1>2 DEF Ranked, Loose, Alike
<1>6. InOrder(y) /\ Evented(y, P) BY <1>2 DEF InOrder, Evented, Good, Orderly
<1> QED BY <1>1, <1>2, <1>3, <1>4, <1>5, <1>6 DEF Good, Orderly, Switched, Members, Alike, y

(* vTaskSwitchContext: the highest priority runs, or, with the scheduler   *)
(* suspended, a yield is pending.                                          *)
LEMMA SwitchFacts ==
    ASSUME NEW x, NEW P, Good(x, P), IdleReady(x)
    PROVE  LET y == vTaskSwitchContext(x)
           IN  /\ Good(y, P) /\ Switched(x, y)
               /\ x.susp = 0 => CurReady(y) /\ NoHigher(y)
               /\ x.susp # 0 => y.cur = x.cur /\ y.yield
<1>1. CASE x.susp # 0
  <2> DEFINE y == [x EXCEPT !.yield = TRUE]
  <2>1. vTaskSwitchContext(x) = y BY <1>1 DEF vTaskSwitchContext
  <2>2. Good(y, P) /\ Alike(x, y) /\ Switched(x, y) /\ y.yield = TRUE BY FlagFacts
  <2> HIDE DEF y
  <2> QED BY <1>1, <2>1, <2>2 DEF Alike
<1>2. CASE x.susp = 0
  <2> DEFINE a == [x EXCEPT !.yield = FALSE]
             H(p) == /\ a.ready[p].items # <<>>
                     /\ \A q \in p + 1 .. a.top : a.ready[q].items = <<>>
             h == CHOOSE p \in 0 .. a.top : H(p)
             y == SelectFrom(a, h)
  <2>1. vTaskSwitchContext(x) = y BY <1>2 DEF vTaskSwitchContext, taskSELECT_HIGHEST_PRIORITY_TASK
  <2>2. Good(a, P) /\ Alike(x, a) /\ Switched(x, a) BY FlagFacts
  <2> HIDE DEF a
  <2>3. IdleReady(a) BY <2>2 DEF IdleReady, Switched, Alike
  <2>4. \E p \in 0 .. a.top : H(p) BY <2>2, <2>3, HighestExists
  <2>5. h \in 0 .. a.top /\ H(h) BY <2>4
  <2> HIDE DEF h
  <2>6. Good(y, P) /\ Switched(a, y) /\ CurReady(y) /\ NoHigher(y)
    BY <2>2, <2>5, SelectFromFacts
  <2> HIDE DEF y
  <2>7. Switched(x, y) BY <2>2, <2>6 DEF Switched, Members
  <2> QED BY <1>2, <2>1, <2>6, <2>7
<1> QED BY <1>1, <1>2

LEMMA YieldIfHigherFacts ==
    ASSUME NEW x, NEW P, Good(x, P), IdleReady(x), NEW t \in Tasks
    PROVE  LET y == YieldIfHigher(x, t)
           IN  /\ Good(y, P) /\ Switched(x, y)
               /\ x.prio[x.cur] < x.prio[t] /\ x.susp = 0 => CurReady(y) /\ NoHigher(y)
               /\ x.prio[x.cur] < x.prio[t] /\ x.susp # 0 => y.cur = x.cur /\ y.yield
               /\ ~(x.prio[x.cur] < x.prio[t]) => y = x
<1>1. Switched(x, x) BY DEF Switched, Members
<1>2. CASE x.prio[x.cur] < x.prio[t]
  <2> DEFINE y == vTaskSwitchContext(x)
  <2>1. YieldIfHigher(x, t) = y BY <1>2 DEF YieldIfHigher
  <2>2. /\ Good(y, P) /\ Switched(x, y)
        /\ x.susp = 0 => CurReady(y) /\ NoHigher(y)
        /\ x.susp # 0 => y.cur = x.cur /\ y.yield
    BY SwitchFacts
  <2> HIDE DEF y
  <2> QED BY <1>2, <2>1, <2>2
<1>3. CASE ~(x.prio[x.cur] < x.prio[t])
  <2>1. YieldIfHigher(x, t) = x BY <1>3 DEF YieldIfHigher
  <2> QED BY <1>1, <1>3, <2>1
<1> QED BY <1>2, <1>3

-----------------------------------------------------------------------------
(* Going to sleep.                                                         *)

(* The lists and what orders them are the same.                            *)
Shelved(x, y) ==
    /\ y.prio = x.prio /\ y.wake = x.wake /\ y.next = x.next /\ y.top = x.top
    /\ y.ready = x.ready /\ y.delayed = x.delayed /\ y.overflow = x.overflow
    /\ y.sleeping = x.sleeping /\ y.dying = x.dying /\ y.events = x.events

LEMMA ShelvedFacts ==
    ASSUME NEW x, NEW P, NEW y \in Kernels, Shelved(x, y)
    PROVE  /\ Readied(y) = Readied(x)
           /\ Orderly(x, P) => Orderly(y, P)
           /\ Evented(x, P) => Evented(y, P)
           /\ Good(x, P) => Good(y, P)
<1>1. Readied(y) = Readied(x) BY DEF Readied, Shelved
<1>2. Seated(x, P) => Seated(y, P) BY <1>1 DEF Seated, Shelved
<1>3. Ranked(x) => Ranked(y) BY DEF Ranked, Shelved
<1>4. InOrder(x) => InOrder(y) BY DEF InOrder, Shelved
<1>5. Evented(x, P) => Evented(y, P) BY DEF Evented, Shelved
<1> QED BY <1>1, <1>2, <1>3, <1>4, <1>5 DEF Good, Orderly

(* t goes to the end of xSuspendedTaskList or xTasksWaitingTermination.    *)
Stows(x, Q, t, y) ==
    /\ Orderly(x, Q) /\ t \in Tasks \ Q /\ y \in Kernels
    /\ y.prio = x.prio /\ y.wake = x.wake /\ y.next = x.next /\ y.top = x.top
    /\ y.ready = x.ready /\ y.delayed = x.delayed /\ y.overflow = x.overflow
    /\ \/ y.sleeping = Append(x.sleeping, t) /\ y.dying = x.dying
       \/ y.dying = Append(x.dying, t) /\ y.sleeping = x.sleeping

LEMMA StowFacts ==
    ASSUME NEW x, NEW Q, NEW t, NEW y, Stows(x, Q, t, y)
    PROVE  /\ Orderly(y, Q \cup {t}) /\ Readied(y) = Readied(x)
           /\ ToSet(y.sleeping) \ {t} \subseteq ToSet(x.sleeping)
           /\ \/ y.dying = x.dying
              \/ ToSet(y.dying) = ToSet(x.dying) \cup {t} /\ Len(y.dying) = Len(x.dying) + 1
<1>1. /\ Orderly(x, Q) /\ t \in Tasks \ Q /\ y \in Kernels /\ x \in Kernels
      /\ Seated(x, Q) /\ Ranked(x) /\ InOrder(x)
  BY DEF Stows, Orderly
<1>2. /\ y.prio = x.prio /\ y.wake = x.wake /\ y.next = x.next /\ y.top = x.top
      /\ y.ready = x.ready /\ y.delayed = x.delayed /\ y.overflow = x.overflow
  BY DEF Stows
<1>3. Readied(y) = Readied(x) BY <1>2 DEF Readied
<1>4. Ranked(y) BY <1>1, <1>2 DEF Ranked
<1>5. InOrder(y) BY <1>1, <1>2 DEF InOrder
<1>6. /\ x.sleeping \in Seq(Tasks) /\ x.dying \in Seq(Tasks)
      /\ IsInjective(x.sleeping) /\ IsInjective(x.dying)
      /\ t \notin ToSet(x.sleeping) /\ t \notin ToSet(x.dying)
  BY <1>1, KernelFields DEF Seated, Apart
<1>7. Apart(Readied(x), ToSet(x.delayed), ToSet(x.overflow), ToSet(x.sleeping), ToSet(x.dying), Q)
  BY <1>1 DEF Seated
<1>8. CASE y.sleeping = Append(x.sleeping, t) /\ y.dying = x.dying
  <2>1. Gained(x.sleeping, y.sleeping, t) BY <1>1, <1>6, <1>8, AppendFacts
  <2>2. ToSet(y.sleeping) = ToSet(x.sleeping) \cup {t} /\ IsInjective(y.sleeping) BY <2>1 DEF Gained
  <2>3. Apart(Readied(y), ToSet(y.delayed), ToSet(y.overflow), ToSet(y.sleeping), ToSet(y.dying), Q \cup {t})
    BY <1>1, <1>2, <1>3, <1>7, <1>8, <2>2 DEF Apart
  <2>4. IsInjective(y.delayed) /\ IsInjective(y.overflow) BY <1>1, <1>2 DEF Seated
  <2>5. IsInjective(y.dying) BY <1>6, <1>8
  <2>6. Seated(y, Q \cup {t}) BY <2>2, <2>3, <2>4, <2>5 DEF Seated
  <2>7. Orderly(y, Q \cup {t}) BY <1>1, <1>4, <1>5, <2>6 DEF Orderly
  <2> QED BY <1>3, <1>8, <2>2, <2>7
<1>9. CASE y.dying = Append(x.dying, t) /\ y.sleeping = x.sleeping
  <2>1. Gained(x.dying, y.dying, t) BY <1>1, <1>6, <1>9, AppendFacts
  <2>2. ToSet(y.dying) = ToSet(x.dying) \cup {t} /\ IsInjective(y.dying) BY <2>1 DEF Gained
  <2>3. Apart(Readied(y), ToSet(y.delayed), ToSet(y.overflow), ToSet(y.sleeping), ToSet(y.dying), Q \cup {t})
    BY <1>1, <1>2, <1>3, <1>7, <1>9, <2>2 DEF Apart
  <2>4. Len(y.dying) = Len(x.dying) + 1 BY <1>6, <1>9
  <2> QED BY <1>1, <1>2, <1>3, <1>4, <1>5, <1>6, <1>9, <2>2, <2>3, <2>4 DEF Orderly, Seated
<1> QED BY <1>8, <1>9 DEF Stows

(* What going to sleep leaves alone.                                       *)
Steady(x, y) ==
    /\ Members(x, y) /\ y.cur = x.cur /\ y.susp = x.susp /\ y.yield = x.yield
    /\ y.events = x.events /\ y.dying = x.dying /\ y.tick = x.tick /\ y.ovf = x.ovf
    /\ y.pended = x.pended

(* t goes to sleep until the tick w, which is on the current list's side of *)
(* the wrap or past it; it may also go to sleep for ever.                  *)
Sleeps(x, y, t, w) ==
    /\ Calm(x, y, {t})
    /\ t \in Timed(y) => y.wake[t] = w
    /\ t \in ToSet(y.delayed) => ~(w < x.tick)
    /\ t \in ToSet(y.overflow) => w < x.tick

LEMMA SleepUntilFacts ==
    ASSUME NEW x, NEW Q, Orderly(x, Q), NEW t \in Tasks, t \notin Q, NEW w \in Ticks
    PROVE  LET y == SleepUntil(x, t, w)
           IN  /\ Orderly(y, Q \cup {t}) /\ Steady(x, y) /\ Readied(y) = Readied(x)
               /\ Sleeps(x, y, t, w)
<1> DEFINE v == [x.wake EXCEPT ![t] = w]
           o == vListInsert(x.overflow, t, v)
           d == vListInsert(x.delayed, t, v)
           n == IF w < x.next THEN w ELSE x.next
<1>1. /\ x \in Kernels /\ Seated(x, Q) /\ Ranked(x) /\ InOrder(x)
      /\ Apart(Readied(x), ToSet(x.delayed), ToSet(x.overflow), ToSet(x.sleeping), ToSet(x.dying), Q)
  BY DEF Orderly, Seated
<1>2. /\ x.delayed \in Seq(Tasks) /\ x.overflow \in Seq(Tasks)
      /\ IsInjective(x.delayed) /\ IsInjective(x.overflow)
      /\ t \notin ToSet(x.delayed) /\ t \notin ToSet(x.overflow)
      /\ x.wake \in [Tasks -> Ticks] /\ x.next \in Ticks
  BY <1>1, KernelFields DEF Seated, Apart
<1>3. Ticks \subseteq Int BY DEF Ticks
<1>4. v \in [Tasks -> Ticks] /\ v \in [Tasks -> Int] /\ v[t] = w
      /\ \A u \in Tasks : u # t => v[u] = x.wake[u]
  BY <1>2, <1>3
<1> HIDE DEF v
<1>5. ASSUME NEW s \in Seq(Tasks), IsInjective(s), t \notin ToSet(s), Ordered(s, x.wake)
      PROVE  /\ Gained(s, vListInsert(s, t, v), t) /\ Ordered(vListInsert(s, t, v), v)
             /\ Ordered(s, v)
  <2>1. \A i \in 1 .. Len(s) : s[i] \in Tasks /\ s[i] # t BY <1>5, SetOf
  <2>2. Ordered(s, v) BY <1>4, <1>5, <2>1 DEF Ordered
  <2> QED BY <1>4, <1>5, <2>2, InsertFacts
<1>6. /\ Gained(x.delayed, d, t) /\ Ordered(d, v) /\ Ordered(x.delayed, v)
      /\ Gained(x.overflow, o, t) /\ Ordered(o, v) /\ Ordered(x.overflow, v)
  BY <1>1, <1>2, <1>5 DEF InOrder
<1>7. d \in Seq(Tasks) /\ o \in Seq(Tasks) /\ IsInjective(d) /\ IsInjective(o)
      /\ ToSet(d) = ToSet(x.delayed) \cup {t} /\ ToSet(o) = ToSet(x.overflow) \cup {t}
  BY <1>6 DEF Gained
<1>8. ToSet(x.delayed) \subseteq Tasks BY <1>2, SetOf
<1>9. CASE w < x.tick
  <2> DEFINE y == [x EXCEPT !.wake = v, !.overflow = o]
  <2>1. SleepUntil(x, t, w) = y BY <1>1, <1>9 DEF SleepUntil, Kernels, v
  <2> HIDE DEF o, d
  <2>2. y \in Kernels BY <1>1, <1>4, <1>7 DEF Kernels
  <2>3. /\ Steady(x, y) /\ y.wake = v /\ y.next = x.next /\ y.top = x.top /\ y.ready = x.ready
        /\ y.delayed = x.delayed /\ y.overflow = o /\ y.sleeping = x.sleeping
    BY <1>1 DEF Kernels, Steady, Members
  <2> HIDE DEF y
  <2>4. Readied(y) = Readied(x) BY <2>3 DEF Readied, Steady, Members
  <2>5. Ranked(y) BY <1>1, <2>3 DEF Ranked, Steady, Members
  <2>6. Apart(Readied(y), ToSet(y.delayed), ToSet(y.overflow), ToSet(y.sleeping), ToSet(y.dying), Q \cup {t})
    BY <1>1, <1>7, <2>3, <2>4 DEF Apart, Steady
  <2>7. Seated(y, Q \cup {t}) BY <1>1, <1>7, <2>3, <2>6 DEF Seated, Steady
  <2>8. InOrder(y)
    <3>1. \A u \in ToSet(x.delayed) : x.next <= v[u] BY <1>1, <1>2, <1>4, <1>8 DEF InOrder
    <3> QED BY <1>6, <2>3, <3>1 DEF InOrder
  <2>9. Sleeps(x, y, t, w)
    <3>1. Kept(x, y, {t}) BY <1>7, <2>3, <2>4 DEF Kept, Timed, Steady
    <3>2. Calm(x, y, {t}) BY <1>4, <1>7, <2>3, <3>1 DEF Calm, Timeless, Steady
    <3> QED BY <1>2, <1>4, <1>9, <2>3, <3>2 DEF Sleeps
  <2> QED BY <2>1, <2>2, <2>3, <2>4, <2>5, <2>7, <2>8, <2>9 DEF Orderly
<1>10. CASE ~(w < x.tick)
  <2> DEFINE y == [x EXCEPT !.wake = v, !.delayed = d, !.next = n]
  <2>1. SleepUntil(x, t, w) = y BY <1>1, <1>10 DEF SleepUntil, Kernels, v
  <2>2. n \in Ticks /\ n <= w /\ n <= x.next BY <1>2 DEF Ticks
  <2> HIDE DEF o, d, n
  <2>3. y \in Kernels BY <1>1, <1>4, <1>7, <2>2 DEF Kernels
  <2>4. /\ Steady(x, y) /\ y.wake = v /\ y.next = n /\ y.top = x.top /\ y.ready = x.ready
        /\ y.delayed = d /\ y.overflow = x.overflow /\ y.sleeping = x.sleeping
    BY <1>1 DEF Kernels, Steady, Members
  <2> HIDE DEF y
  <2>5. Readied(y) = Readied(x) BY <2>4 DEF Readied, Steady, Members
  <2>6. Ranked(y) BY <1>1, <2>4 DEF Ranked, Steady, Members
  <2>7. Apart(Readied(y), ToSet(y.delayed), ToSet(y.overflow), ToSet(y.sleeping), ToSet(y.dying), Q \cup {t})
    BY <1>1, <1>7, <2>4, <2>5 DEF Apart, Steady
  <2>8. Seated(y, Q \cup {t}) BY <1>1, <1>7, <2>4, <2>7 DEF Seated, Steady
  <2>9. InOrder(y)
    <3>1. ASSUME NEW u \in ToSet(d) PROVE n <= v[u]
      <4>1. CASE u = t BY <1>4, <2>2, <4>1
      <4>2. CASE u # t
        <5>1. u \in ToSet(x.delayed) /\ u \in Tasks BY <1>7, <1>8, <4>2
        <5>2. x.next <= x.wake[u] /\ v[u] = x.wake[u] /\ x.wake[u] \in Int
          BY <1>1, <1>2, <1>3, <1>4, <4>2, <5>1 DEF InOrder
        <5>3. n \in Int /\ x.next \in Int BY <1>2, <1>3, <2>2
        <5> QED BY <2>2, <5>2, <5>3
      <4> QED BY <4>1, <4>2
    <3> QED BY <1>6, <2>4, <3>1 DEF InOrder
  <2>10. Sleeps(x, y, t, w)
    <3>1. Kept(x, y, {t}) BY <1>7, <2>4, <2>5 DEF Kept, Timed, Steady
    <3>2. Calm(x, y, {t}) BY <1>4, <1>7, <2>4, <3>1 DEF Calm, Timeless, Steady
    <3> QED BY <1>2, <1>4, <1>10, <2>4, <3>2 DEF Sleeps
  <2> QED BY <2>1, <2>3, <2>4, <2>5, <2>6, <2>8, <2>9, <2>10 DEF Orderly
<1> QED BY <1>9, <1>10

(* The current task goes to sleep.                                         *)
LEMMA SleepFacts ==
    ASSUME NEW x, NEW P, Good(x, P), x.cur \in P, x.cur \notin ToSet(x.dying),
           NEW wait \in Ticks, NEW always \in BOOLEAN
    PROVE  LET y == prvAddCurrentTaskToDelayedList(x, wait, always)
           IN  /\ Good(y, P) /\ Steady(x, y) /\ Readied(y) = Readied(x) \ {x.cur}
               /\ Sleeps(x, y, x.cur, Plus(x.tick, wait))
<1> DEFINE t == x.cur
           a == [x EXCEPT !.aborted[x.cur] = FALSE]
           b == RemoveState(a, t)
           y == SleepFor(b, t, wait, always)
<1>1. x \in Kernels /\ t \in Tasks BY GoodIsLoose, KernelFields
<1>2. a \in Kernels BY <1>1 DEF Kernels
<1>3. Shelved(x, a) /\ Steady(x, a) BY <1>1 DEF Kernels, Shelved, Steady, Members
<1>0. t \in P /\ t \notin ToSet(x.dying) OBVIOUS
<1> HIDE DEF a, t
<1>4. Orderly(a, P) /\ Evented(a, P) /\ Readied(a) = Readied(x) BY <1>2, <1>3, ShelvedFacts DEF Good
<1>5. /\ Orderly(b, P \ {t}) /\ Same(a, b) /\ b.events = a.events
      /\ Readied(b) = Readied(a) \ {t} /\ b.dying = a.dying /\ b.wake = a.wake
      /\ ToSet(b.delayed) = ToSet(a.delayed) \ {t} /\ ToSet(b.overflow) = ToSet(a.overflow) \ {t}
      /\ ToSet(b.sleeping) = ToSet(a.sleeping) \ {t}
  <2>1. t \notin ToSet(a.dying) BY <1>0, <1>3 DEF Steady
  <2> QED BY <1>1, <1>4, <2>1, RemoveStateFacts
<1> HIDE DEF b
<1>11. Calm(x, b, {t}) /\ b.tick = x.tick /\ t \notin Timed(b)
  <2>1. /\ a.delayed = x.delayed /\ a.overflow = x.overflow /\ a.sleeping = x.sleeping
        /\ a.wake = x.wake /\ a.events = x.events /\ a.tick = x.tick /\ a.ovf = x.ovf
    BY <1>3 DEF Shelved, Steady
  <2>2. b.tick = x.tick /\ b.ovf = x.ovf BY <1>5, <2>1 DEF Same
  <2>3. Kept(x, b, {t}) BY <1>4, <1>5, <2>1 DEF Kept, Timed
  <2>4. Calm(x, b, {t}) BY <1>5, <2>1, <2>2, <2>3 DEF Calm, Timeless
  <2> QED BY <1>5, <2>2, <2>4 DEF Timed
<1>6. b \in Kernels /\ b.tick \in Ticks BY <1>5, KernelFields DEF Orderly
<1>7. Steady(x, b) BY <1>3, <1>5 DEF Steady, Members, Same, Alike
<1>8. (P \ {t}) \cup {t} = P BY <1>0
<1>9. CASE wait = MaxDelay /\ always
  <2> DEFINE z == [b EXCEPT !.sleeping = Append(b.sleeping, t)]
  <2>1. y = z BY <1>6, <1>9 DEF SleepFor, Kernels
  <2>2. Append(b.sleeping, t) \in Seq(Tasks) BY <1>1, <1>6, KernelFields
  <2>3. z \in Kernels BY <1>6, <2>2 DEF Kernels
  <2>4. Stows(b, P \ {t}, t, z) /\ Steady(b, z)
    BY <1>1, <1>5, <1>6, <2>3 DEF Stows, Steady, Members, Kernels
  <2> HIDE DEF z
  <2>5. /\ Orderly(z, (P \ {t}) \cup {t}) /\ Readied(z) = Readied(b)
        /\ ToSet(z.sleeping) \ {t} \subseteq ToSet(b.sleeping)
    BY <2>4, StowFacts
  <2>6. Steady(x, z) BY <1>7, <2>4 DEF Steady, Members
  <2>7. Evented(z, P) BY <1>3, <1>4, <2>6 DEF Evented, Steady
  <2>8. Sleeps(x, z, t, Plus(x.tick, wait))
    <3>1. z.delayed = b.delayed /\ z.overflow = b.overflow /\ z.wake = b.wake BY <2>4 DEF Stows
    <3>2. Kept(b, z, {t}) BY <2>4, <2>5, <3>1 DEF Kept, Timed, Steady
    <3>3. Calm(b, z, {t}) BY <2>4, <3>1, <3>2 DEF Calm, Timeless, Steady
    <3>4. Calm(x, z, {t}) BY <1>11, <3>3, CalmAgain
    <3> QED BY <1>11, <3>1, <3>4 DEF Sleeps, Timed
  <2> QED BY <1>4, <1>5, <1>8, <2>1, <2>5, <2>6, <2>7, <2>8 DEF Good, prvAddCurrentTaskToDelayedList, a, b, t
<1>10. CASE ~(wait = MaxDelay /\ always)
  <2> DEFINE w == Plus(b.tick, wait)
             z == SleepUntil(b, t, w)
  <2>1. y = z BY <1>10 DEF SleepFor
  <2>2. w \in Ticks
    <3> DEFINE m == MaxDelay + 1
               i == b.tick + wait
    <3>1. i \in Nat /\ m \in Nat \ {0} /\ MaxDelay = m - 1 BY <1>6, KernelAssumption DEF Ticks
    <3> HIDE DEF m, i
    <3>2. i % m \in 0 .. m - 1 BY <3>1
    <3> QED BY <3>1, <3>2 DEF Plus, Ticks, m, i
  <2> HIDE DEF w
  <2>3. /\ Orderly(z, (P \ {t}) \cup {t}) /\ Steady(b, z) /\ Readied(z) = Readied(b)
        /\ Sleeps(b, z, t, w)
    BY <1>1, <1>5, <2>2, SleepUntilFacts
  <2> HIDE DEF z
  <2>4. Steady(x, z) BY <1>7, <2>3 DEF Steady, Members
  <2>5. Evented(z, P) BY <1>3, <1>4, <2>4 DEF Evented, Steady
  <2>6. Sleeps(x, z, t, w)
    <3>1. Calm(x, z, {t}) BY <1>11, <2>3, CalmAgain DEF Sleeps
    <3> QED BY <1>11, <2>3, <3>1 DEF Sleeps
  <2>7. w = Plus(x.tick, wait) BY <1>11 DEF w
  <2> QED BY <1>4, <1>5, <1>8, <2>1, <2>3, <2>4, <2>5, <2>6, <2>7 DEF Good, prvAddCurrentTaskToDelayedList, a, b, t
<1> QED BY <1>9, <1>10

-----------------------------------------------------------------------------
(* Resuming the scheduler.                                                 *)

LEMMA SuspendAllFacts ==
    ASSUME NEW x, NEW P, Good(x, P)
    PROVE  LET y == vTaskSuspendAll(x)
           IN  /\ Good(y, P) /\ Members(x, y) /\ Readied(y) = Readied(x) /\ y.susp = x.susp + 1
               /\ y.cur = x.cur /\ y.yield = x.yield /\ y.events = x.events /\ y.dying = x.dying
               /\ y.pended = x.pended /\ Shelved(x, y) /\ Still(x, y)
<1> DEFINE y == vTaskSuspendAll(x)
<1>1. x \in Kernels /\ x.susp \in Nat BY GoodIsLoose, KernelFields
<1>2. y = [x EXCEPT !.susp = x.susp + 1] BY <1>1 DEF vTaskSuspendAll, Kernels
<1>3. x.susp + 1 \in Nat BY <1>1
<1> HIDE DEF y
<1>4. y \in Kernels BY <1>1, <1>2, <1>3 DEF Kernels
<1>5. /\ Members(x, y) /\ y.susp = x.susp + 1 /\ y.cur = x.cur /\ y.yield = x.yield
      /\ Shelved(x, y) /\ y.pended = x.pended /\ y.tick = x.tick /\ y.ovf = x.ovf
  BY <1>1, <1>2 DEF Kernels, Members, Shelved
<1>6. Good(y, P) /\ Readied(y) = Readied(x) BY <1>4, <1>5, ShelvedFacts
<1>7. Still(x, y) BY <1>5, <1>6 DEF Still, Shelved
<1> QED BY <1>5, <1>6, <1>7 DEF y, Shelved

(* What every step of resuming keeps: tasks only become ready, and if one  *)
(* comes to outrank the current task a yield is pending.                   *)
Onward(x, y) ==
    /\ Alike(x, y) /\ y.dying = x.dying /\ Readied(x) \subseteq Readied(y)
    /\ ToSet(y.events[Pending]) \subseteq ToSet(x.events[Pending])
    /\ x.yield \/ NoHigher(x) => y.yield \/ NoHigher(y)

LEMMA OnwardAgain ==
    ASSUME NEW x, NEW y, NEW z, Onward(x, y), Onward(y, z)
    PROVE  Onward(x, z)
BY DEF Onward, Alike

LEMMA OnwardSelf ==
    ASSUME NEW x
    PROVE  Onward(x, x)
BY DEF Onward, Alike

(* One turn of the loop over xPendingReadyList.                            *)
Pends(x, P, t, y) == Good(x, P) /\ t \in P \ ToSet(x.dying) /\ y = ReadyPended(x, t)

LEMMA ReadyPendedFacts ==
    ASSUME NEW x, NEW P, NEW t, NEW y, Pends(x, P, t, y)
    PROVE  /\ Good(y, P) /\ Onward(x, y) /\ y.pended = x.pended
           /\ ToSet(y.events[Pending]) = ToSet(x.events[Pending]) \ {t}
           /\ Calm(x, y, {}) /\ Timed(x) \ Timed(y) \subseteq {t}
<1> DEFINE a == Unblock(x, t)
           h == x.prio[t] > x.prio[x.cur]
<1>1. Good(x, P) /\ t \in P \ ToSet(x.dying) /\ y = [a EXCEPT !.yield = @ \/ h]
  BY DEF Pends, ReadyPended
<1>2. Wakes(x, P, t, a) BY <1>1 DEF Wakes
<1> HIDE DEF a
<1>12. Woken(x, P, {t}, a) BY <1>2, UnblockFacts
<1>3. /\ Good(a, P) /\ Same(x, a) /\ Readied(a) = Readied(x) \cup {t} /\ a.dying = x.dying
      /\ ToSet(a.events[Pending]) = ToSet(x.events[Pending]) \ {t}
  BY <1>12 DEF Woken
<1> DEFINE b == a.yield \/ h
<1>4. a \in Kernels /\ x \in Kernels /\ a.yield \in BOOLEAN /\ b \in BOOLEAN
  BY <1>1, <1>3, GoodIsLoose, KernelFields
<1>5. y = [a EXCEPT !.yield = b] BY <1>1, <1>4 DEF Kernels
<1>6. t \in Tasks BY <1>3 DEF Readied
<1>7. x.prio \in [Tasks -> Priorities] /\ x.cur \in Tasks /\ Readied(x) \subseteq Tasks
      /\ Priorities \subseteq Int
  BY <1>4, KernelFields DEF Readied, Priorities
<1>8. ~h => x.prio[t] <= x.prio[x.cur]
  <2>1. x.prio[t] \in Int /\ x.prio[x.cur] \in Int BY <1>6, <1>7
  <2> QED BY <2>1
<1> HIDE DEF b
<1>9. Good(y, P) /\ Alike(a, y) /\ Switched(a, y) /\ y.yield = b BY <1>3, <1>4, <1>5, FlagFacts
<1>10. /\ Alike(x, y) /\ y.dying = x.dying /\ Readied(y) = Readied(x) \cup {t} /\ y.pended = x.pended
       /\ ToSet(y.events[Pending]) = ToSet(x.events[Pending]) \ {t}
  BY <1>3, <1>9 DEF Alike, Same, Switched
<1>11. x.yield \/ NoHigher(x) => y.yield \/ NoHigher(y)
  <2>1. CASE x.yield
    <3>1. b BY <1>3, <2>1 DEF Same, b
    <3> QED BY <1>9, <3>1
  <2>2. CASE h BY <1>9, <2>2 DEF b
  <2>3. CASE NoHigher(x) /\ ~h BY <1>8, <1>10, <2>3 DEF NoHigher, Alike
  <2> QED BY <2>1, <2>2, <2>3
<1>13. Still(a, y) BY <1>9, SwitchedIsStill
<1>14. Calm(a, y, {}) BY <1>13, StillIsCalm
<1>15. Calm(x, a, {}) /\ Timed(x) \ Timed(a) \subseteq {t} BY <1>12, WokenIsCalm
<1>16. Calm(x, y, {}) BY <1>14, <1>15, CalmAgain
<1>17. Timed(y) = Timed(a) BY <1>13 DEF Still, Timed
<1> QED BY <1>9, <1>10, <1>11, <1>15, <1>16, <1>17 DEF Onward

LEMMA ReadyEachFacts ==
    ASSUME NEW x, NEW P, Good(x, P), NEW s \in Seq(P \ ToSet(x.dying))
    PROVE  LET y == ReadyEach(x, s)
           IN  /\ Good(y, P) /\ Onward(x, y) /\ y.pended = x.pended
               /\ ToSet(y.events[Pending]) = ToSet(x.events[Pending]) \ ToSet(s)
               /\ Calm(x, y, {}) /\ Timed(x) \ Timed(y) \subseteq ToSet(s)
<1> DEFINE n == Len(s)
           done(i) == {s[j] : j \in 1 .. i}
           Q(y) == Calm(x, y, {}) /\ Timed(x) \ Timed(y) \subseteq ToSet(s)
           K == {y \in Kernels : Good(y, P) /\ Onward(x, y) /\ y.pended = x.pended /\ Q(y)}
           S == [i \in 0 .. n |->
                   {y \in K : ToSet(y.events[Pending]) = ToSet(x.events[Pending]) \ done(i)}]
           F == [i \in 1 .. n |-> [y \in S[i - 1] |-> ReadyPended(y, s[i])]]
           T(f) == [i \in 0 .. n |-> IF i = 0 THEN x ELSE ReadyPended(f[i - 1], s[i])]
<1>1. n \in Nat /\ \A i \in 1 .. n : s[i] \in P \ ToSet(x.dying) OBVIOUS
<1>2. x \in S[0]
  <2>3. Q(x)
    <3>1. Still(x, x) BY DEF Still
    <3> QED BY <3>1, StillIsCalm
  <2>1. x \in K
    <3> HIDE DEF Q
    <3> QED BY <2>3, OnwardSelf DEF Good, Orderly
  <2>2. done(0) = {} OBVIOUS
  <2> HIDE DEF K, done
  <2>4. S[0] = {y \in K : ToSet(y.events[Pending]) = ToSet(x.events[Pending]) \ done(0)}
    BY <1>1
  <2> QED BY <2>1, <2>2, <2>4
<1>3. ASSUME NEW i \in 1 .. n, NEW y \in S[i - 1] PROVE ReadyPended(y, s[i]) \in S[i]
  <2>1. i - 1 \in 0 .. n /\ i \in 0 .. n BY <1>1
  <2>2. done(i) = done(i - 1) \cup {s[i]}
    <3>1. 1 .. i = (1 .. i - 1) \cup {i} OBVIOUS
    <3> QED BY <3>1
  <2> HIDE DEF done
  <2>3. y \in K /\ ToSet(y.events[Pending]) = ToSet(x.events[Pending]) \ done(i - 1)
    <3> HIDE DEF K
    <3> QED BY <2>1
  <2>4. Good(y, P) /\ Onward(x, y) /\ y.pended = x.pended /\ Q(y) BY <2>3
  <2>5. s[i] \in P \ ToSet(y.dying) BY <1>1, <2>4 DEF Onward
  <2> DEFINE t == s[i]
             z == ReadyPended(y, t)
  <2>6. /\ Good(z, P) /\ Onward(y, z) /\ z.pended = y.pended
        /\ ToSet(z.events[Pending]) = ToSet(y.events[Pending]) \ {t}
        /\ Calm(y, z, {}) /\ Timed(y) \ Timed(z) \subseteq {t}
    <3>1. Pends(y, P, t, z) BY <2>4, <2>5 DEF Pends
    <3> HIDE DEF t, z, S, K, F, T, n, Q
    <3> QED BY <3>1, ReadyPendedFacts
  <2> HIDE DEF z
  <2>7. z \in K
    <3>1. Onward(x, z) BY <2>4, <2>6, OnwardAgain
    <3>2. Calm(x, z, {}) BY <2>4, <2>6, CalmAgain
    <3>3. t \in ToSet(s) BY DEF ToSet
    <3>4. Q(z) BY <2>4, <2>6, <3>2, <3>3
    <3> HIDE DEF Q
    <3> QED BY <2>4, <2>6, <3>1, <3>4 DEF Good, Orderly
  <2>8. ToSet(z.events[Pending]) = ToSet(x.events[Pending]) \ done(i) BY <2>2, <2>3, <2>6
  <2> HIDE DEF K
  <2>9. z \in S[i] BY <2>1, <2>7, <2>8
  <2> QED BY <2>9 DEF z
<1>4. \E f : f = T(f)
  <2>1. \A i \in 1 .. n : F[i] \in [S[i - 1] -> S[i]] BY <1>3
  <2> HIDE DEF F
  <2>2. PICK f : /\ f = [i \in 0 .. n |-> IF i = 0 THEN x ELSE F[i][f[i - 1]]]
                 /\ \A i \in 0 .. n : f[i] \in S[i]
    <3>1. Loop(n, S, x, F) BY <1>1, <1>2, <2>1 DEF Loop
    <3> HIDE DEF S, n
    <3> QED BY <3>1, LoopExists
  <2>3. \A i \in 1 .. n : F[i][f[i - 1]] = ReadyPended(f[i - 1], s[i])
    <3>1. ASSUME NEW i \in 1 .. n PROVE F[i][f[i - 1]] = ReadyPended(f[i - 1], s[i])
      <4>1. i - 1 \in 0 .. n BY <1>1
      <4>2. f[i - 1] \in S[i - 1] BY <2>2, <4>1
      <4> HIDE DEF S
      <4> QED BY <4>2 DEF F
    <3> QED BY <3>1
  <2>4. \A i \in 0 .. n : (IF i = 0 THEN x ELSE F[i][f[i - 1]]) = (IF i = 0 THEN x ELSE ReadyPended(f[i - 1], s[i]))
    BY <1>1, <2>3
  <2>5. f = T(f) BY <2>2, <2>4
  <2> QED BY <2>5
<1> DEFINE turn == CHOOSE f : f = T(f)
<1>5. turn = T(turn) BY <1>4
<1>6. ReadyEach(x, s) = turn[n] BY DEF ReadyEach
<1> HIDE DEF turn
<1>7. turn[0] = x /\ \A i \in 1 .. n : turn[i] = ReadyPended(turn[i - 1], s[i]) BY <1>1, <1>5
<1>8. turn[n] \in S[n]
  <2>1. ASSUME NEW i \in 1 .. n, turn[i - 1] \in S[i - 1] PROVE turn[i] \in S[i]
    <3>1. ReadyPended(turn[i - 1], s[i]) \in S[i] BY <1>3, <2>1
    <3> QED BY <1>7, <3>1
  <2> HIDE DEF S, n
  <2> QED BY <1>1, <1>2, <1>7, <2>1, LoopInvariant
<1>9. done(n) = ToSet(s)
  <2>1. DOMAIN s = 1 .. n OBVIOUS
  <2> QED BY <2>1 DEF ToSet
<1> HIDE DEF done
<1>10. n \in 0 .. n BY <1>1
<1> QED BY <1>6, <1>8, <1>9, <1>10

(* Afterwards xPendingReadyList is empty.                                  *)
LEMMA ReadyAllPendedFacts ==
    ASSUME NEW x, NEW P, Good(x, P)
    PROVE  LET y == ReadyAllPended(x)
           IN  /\ Good(y, P) /\ Onward(x, y) /\ y.events[Pending] = <<>>
               /\ y.pended = x.pended /\ Later(x, y, 0)
<1> DEFINE s == x.events[Pending]
           a == ReadyEach(x, s)
           y == prvResetNextTaskUnblockTime(a)
<1>1. CASE s = <<>>
  <2>1. ReadyAllPended(x) = x BY <1>1 DEF ReadyAllPended
  <2>2. Later(x, x, 0) BY GoodIsKernel, StillIsLater DEF Still
  <2> QED BY <1>1, <2>1, <2>2, OnwardSelf
<1>2. CASE s # <<>>
  <2>1. ReadyAllPended(x) = y BY <1>2 DEF ReadyAllPended
  <2>2. s \in Seq(Tasks)
    <3>1. x \in Kernels BY GoodIsLoose
    <3> QED BY <3>1, KernelFields
  <2>3. ToSet(s) \subseteq P \ ToSet(x.dying) BY DEF Good, Evented
  <2>4. s \in Seq(P \ ToSet(x.dying))
    <3>1. \A i \in 1 .. Len(s) : s[i] \in ToSet(s) BY <2>2, SetOf
    <3> HIDE DEF s
    <3> QED BY <2>2, <2>3, <3>1
  <2> HIDE DEF s
  <2>5. /\ Good(a, P) /\ Onward(x, a) /\ a.pended = x.pended
        /\ ToSet(a.events[Pending]) = ToSet(x.events[Pending]) \ ToSet(s)
        /\ Calm(x, a, {}) /\ Timed(x) \ Timed(a) \subseteq ToSet(s)
    BY <2>4, ReadyEachFacts
  <2> HIDE DEF a
  <2>6. /\ Good(y, P) /\ Same(a, y) /\ Readied(y) = Readied(a) /\ Still(a, y)
        /\ y.dying = a.dying /\ y.events = a.events
    <3> HIDE DEF y
    <3>1. /\ Good(y, P) /\ Same(a, y) /\ Readied(y) = Readied(a) /\ y.wake = a.wake
          /\ y.delayed = a.delayed /\ y.overflow = a.overflow /\ y.sleeping = a.sleeping
          /\ y.dying = a.dying /\ y.events = a.events
      BY <2>5, ResetFacts, GoodIsLoose DEF y
    <3> QED BY <3>1 DEF Still, Same
  <2> HIDE DEF y
  <2>7. Onward(a, y) BY <2>6 DEF Onward, Same, Alike, NoHigher
  <2>8. Onward(x, y) BY <2>5, <2>7, OnwardAgain
  <2>9. y.events[Pending] = <<>>
    <3>1. ToSet(y.events[Pending]) = {} BY <2>5, <2>6 DEF s
    <3>2. y.events[Pending] \in Seq(Tasks)
      <4>1. y \in Kernels BY <2>6, GoodIsLoose
      <4> QED BY <4>1, KernelFields
    <3> QED BY <3>1, <3>2, SetOf
  <2>10. Later(x, y, 0)
    <3>1. Calm(a, y, {}) BY <2>6, StillIsCalm
    <3>2. Calm(x, y, {}) BY <2>5, <3>1, CalmAgain
    <3>3. Timed(x) \ Timed(y) \subseteq ToSet(x.events[Pending])
      <4>1. Timed(y) = Timed(a) BY <2>6 DEF Still, Timed
      <4> QED BY <2>5, <4>1 DEF s
    <3>4. x \in Kernels /\ y \in Kernels BY <2>6, GoodIsKernel
    <3> QED BY <3>2, <3>3, <3>4, CalmIsLater
  <2>11. y.pended = x.pended BY <2>5, <2>6 DEF Same
  <2> QED BY <2>1, <2>6, <2>8, <2>9, <2>10, <2>11
<1> QED BY <1>1, <1>2

(* One tick that was held back.                                            *)
LEMMA CatchUpTickFacts ==
    ASSUME NEW x, NEW P, Good(x, P), x.susp = 0
    PROVE  LET y == CatchUpTick(x)
           IN  Good(y, P) /\ Onward(x, y) /\ y.susp = 0 /\ Later(x, y, 1)
<1> DEFINE r == xTaskIncrementTick(x)
           a == r.k
           b == a.yield \/ r.switch
           y == [a EXCEPT !.yield = b]
<1>1. /\ Good(a, P) /\ Alike(x, a) /\ a.yield = x.yield /\ a.dying = x.dying
      /\ Readied(x) \subseteq Readied(a)
      /\ ToSet(a.events[Pending]) \subseteq ToSet(x.events[Pending])
      /\ r.switch \in BOOLEAN
      /\ x.yield \/ NoHigher(x) => r.switch \/ NoHigher(a)
  BY IncrementTickFacts
<1>2. a \in Kernels /\ a.yield \in BOOLEAN BY <1>1, GoodIsLoose, KernelFields
<1>10. Later(x, a, 1) BY IncrementTickTime
<1>3. CatchUpTick(x) = y BY <1>2 DEF CatchUpTick, YieldLater, Kernels
<1>4. b \in BOOLEAN BY <1>1, <1>2
<1> HIDE DEF r, a
<1>5. Good(y, P) /\ Alike(a, y) /\ Switched(a, y) /\ y.yield = b
  <2> HIDE DEF b
  <2> QED BY <1>1, <1>4, FlagFacts
<1>6. b = (a.yield \/ r.switch) OBVIOUS
<1> HIDE DEF y, b
<1>7. y.yield = b /\ Alike(x, y) /\ y.dying = x.dying /\ Readied(y) = Readied(a)
      /\ y.events = a.events /\ y.susp = x.susp
  BY <1>1, <1>5 DEF Alike, Switched
<1>8. NoHigher(a) => NoHigher(y) BY <1>5 DEF NoHigher, Alike, Switched
<1>9. x.yield \/ NoHigher(x) => y.yield \/ NoHigher(y) BY <1>1, <1>6, <1>7, <1>8
<1>11. Later(x, y, 1)
  <2>1. x \in Kernels /\ y \in Kernels BY <1>5, GoodIsKernel
  <2>2. Later(a, y, 0) BY <1>2, <1>5, SwitchedIsStill, StillIsLater
  <2>3. Later(x, y, 1 + 0) BY <1>2, <1>10, <2>1, <2>2, LaterAgain
  <2> QED BY <2>3
<1> QED BY <1>1, <1>3, <1>5, <1>7, <1>9, <1>11 DEF Onward

LEMMA PendedFacts ==
    ASSUME NEW x \in Kernels, NEW n \in Nat
    PROVE  [x EXCEPT !.pended = n] \in Kernels
BY DEF Kernels

LEMMA CatchUpFacts ==
    ASSUME NEW x, NEW P, Good(x, P), x.susp = 0
    PROVE  LET y == CatchUp(x)
           IN  Good(y, P) /\ Onward(x, y) /\ Later(x, y, x.pended)
<1> DEFINE n == x.pended
           K == {y \in Kernels : Good(y, P) /\ Onward(x, y) /\ y.susp = 0}
           S == [i \in 0 .. n |-> {y \in K : Later(x, y, i)}]
           F == [i \in 1 .. n |-> [y \in S[i - 1] |-> CatchUpTick(y)]]
           T(f) == [i \in 0 .. n |-> IF i = 0 THEN x ELSE CatchUpTick(f[i - 1])]
<1>1. n \in Nat /\ x \in Kernels BY GoodIsLoose, KernelFields
<1>2. x \in S[0]
  <2>1. x \in K BY <1>1, OnwardSelf
  <2>2. Later(x, x, 0) BY <1>1, StillIsLater DEF Still
  <2> HIDE DEF K
  <2>3. 0 \in 0 .. n BY <1>1
  <2> QED BY <2>1, <2>2, <2>3
<1>3. ASSUME NEW i \in 1 .. n, NEW y \in S[i - 1] PROVE CatchUpTick(y) \in S[i]
  <2>1. i - 1 \in 0 .. n /\ i \in 0 .. n /\ i - 1 \in Nat /\ (i - 1) + 1 = i BY <1>1
  <2>2. y \in K /\ Later(x, y, i - 1)
    <3> HIDE DEF K
    <3> QED BY <2>1
  <2>3. y \in Kernels /\ Good(y, P) /\ Onward(x, y) /\ y.susp = 0 BY <2>2
  <2> DEFINE z == CatchUpTick(y)
  <2>4. Good(z, P) /\ Onward(y, z) /\ z.susp = 0 /\ Later(y, z, 1)
    <3> HIDE DEF K, S, F, T, n
    <3> QED BY <2>3, CatchUpTickFacts
  <2> HIDE DEF z
  <2>5. Onward(x, z) BY <2>3, <2>4, OnwardAgain
  <2>6. z \in Kernels BY <2>4, GoodIsKernel
  <2>7. z \in K BY <2>4, <2>5, <2>6
  <2>8. Later(x, z, i)
    <3> HIDE DEF K, S, F, T, n
    <3>1. Later(x, z, (i - 1) + 1) BY <1>1, <2>1, <2>2, <2>3, <2>4, <2>6, LaterAgain
    <3> QED BY <2>1, <3>1
  <2> HIDE DEF K
  <2>9. z \in S[i] BY <2>1, <2>7, <2>8
  <2> QED BY <2>9 DEF z
<1>4. \E f : f = T(f)
  <2>1. \A i \in 1 .. n : F[i] \in [S[i - 1] -> S[i]]
    <3> HIDE DEF S
    <3> QED BY <1>3
  <2> HIDE DEF F
  <2>3. PICK f : /\ f = [i \in 0 .. n |-> IF i = 0 THEN x ELSE F[i][f[i - 1]]]
                 /\ \A i \in 0 .. n : f[i] \in S[i]
    <3>1. Loop(n, S, x, F) BY <1>1, <1>2, <2>1 DEF Loop
    <3> HIDE DEF S, n
    <3> QED BY <3>1, LoopExists
  <2>4. \A i \in 1 .. n : F[i][f[i - 1]] = CatchUpTick(f[i - 1])
    <3>1. ASSUME NEW i \in 1 .. n PROVE F[i][f[i - 1]] = CatchUpTick(f[i - 1])
      <4>1. i - 1 \in 0 .. n BY <1>1
      <4> HIDE DEF S
      <4>2. f[i - 1] \in S[i - 1] BY <2>3, <4>1
      <4> QED BY <4>2 DEF F
    <3> QED BY <3>1
  <2>5. \A i \in 0 .. n : (IF i = 0 THEN x ELSE F[i][f[i - 1]]) = (IF i = 0 THEN x ELSE CatchUpTick(f[i - 1]))
    BY <1>1, <2>4
  <2>6. f = T(f) BY <2>3, <2>5
  <2> QED BY <2>6
<1> DEFINE turn == CHOOSE f : f = T(f)
<1>5. turn = T(turn) BY <1>4
<1>6. CatchUp(x) = [turn[n] EXCEPT !.pended = 0] BY DEF CatchUp
<1> HIDE DEF turn
<1>7. turn[0] = x /\ \A i \in 1 .. n : turn[i] = CatchUpTick(turn[i - 1]) BY <1>1, <1>5
<1>8. turn[n] \in K /\ Later(x, turn[n], n)
  <2>1. ASSUME NEW i \in 1 .. n, turn[i - 1] \in S[i - 1] PROVE turn[i] \in S[i]
    <3> HIDE DEF S
    <3>1. CatchUpTick(turn[i - 1]) \in S[i] BY <1>3, <2>1
    <3> QED BY <1>7, <3>1
  <2>2. turn[0] \in S[0] /\ n \in 0 .. n
    <3> HIDE DEF S
    <3> QED BY <1>1, <1>2, <1>7
  <2>3. turn[n] \in S[n]
    <3> HIDE DEF S, n
    <3> QED BY <1>1, <2>1, <2>2, LoopInvariant
  <2> HIDE DEF K
  <2> QED BY <2>2, <2>3
<1> DEFINE a == turn[n]
           y == [a EXCEPT !.pended = 0]
<1>9. a \in Kernels /\ Good(a, P) /\ Onward(x, a) /\ Later(x, a, n) BY <1>8
<1> HIDE DEF a, K, S, F, T
<1>10. y \in Kernels
  <2>1. a \in Kernels /\ 0 \in Nat BY <1>9
  <2> QED BY <2>1, PendedFacts
<1>11. Shelved(a, y) /\ Alike(a, y) /\ y.yield = a.yield /\ y.tick = a.tick /\ y.ovf = a.ovf
  BY <1>9 DEF Kernels, Shelved, Alike
<1> HIDE DEF y
<1>12. Good(y, P) /\ Readied(y) = Readied(a) BY <1>9, <1>10, <1>11, ShelvedFacts
<1>13. Onward(a, y) BY <1>11, <1>12 DEF Onward, Alike, Shelved, NoHigher
<1>14. Onward(x, y) BY <1>9, <1>13, OnwardAgain
<1>15. Later(x, y, n)
  <2>1. Still(a, y) BY <1>11, <1>12 DEF Still, Shelved
  <2>2. Later(a, y, 0) BY <1>9, <2>1, StillIsLater
  <2>3. n + 0 = n /\ 0 \in Nat BY <1>1
  <2> HIDE DEF n, K
  <2>4. Later(x, y, n + 0) BY <1>1, <1>9, <1>10, <2>2, <2>3, LaterAgain
  <2> QED BY <2>3, <2>4
<1> QED BY <1>6, <1>12, <1>14, <1>15 DEF y, a

(* xTaskResumeAll: the last call empties xPendingReadyList, counts the     *)
(* ticks that were held back and switches if a yield is pending.           *)
Resumes(x, y, yielded) ==
    /\ Members(x, y) /\ y.susp = x.susp - 1 /\ y.dying = x.dying
    /\ Readied(x) \subseteq Readied(y)
    /\ ToSet(y.events[Pending]) \subseteq ToSet(x.events[Pending])
    /\ y.susp = 0 => y.events[Pending] = <<>>
    /\ ~yielded => y.cur = x.cur
    /\ yielded => y.susp = 0 /\ CurReady(y) /\ NoHigher(y)
    /\ y.susp = 0 /\ (x.yield \/ NoHigher(x)) => NoHigher(y)
    /\ y.susp # 0 => Readied(y) = Readied(x) /\ y.yield = x.yield
    /\ \E m \in 0 .. x.pended : Later(x, y, m)

LEMMA ResumeAllFacts ==
    ASSUME NEW x, NEW P, Good(x, P), IdleReady(x), x.susp # 0
    PROVE  LET r == xTaskResumeAll(x)
           IN  Good(r.k, P) /\ Resumes(x, r.k, r.yielded) /\ r.yielded \in BOOLEAN
<1>1. x \in Kernels /\ x.susp \in Nat BY GoodIsLoose, KernelFields
<1> DEFINE a == [x EXCEPT !.susp = x.susp - 1]
<1>2. x.susp - 1 \in Nat BY <1>1
<1>3. a \in Kernels BY <1>1, <1>2 DEF Kernels
<1>4. /\ Shelved(x, a) /\ Members(x, a) /\ a.susp = x.susp - 1 /\ a.cur = x.cur
      /\ a.yield = x.yield
  BY <1>1 DEF Kernels, Shelved, Members
<1>5. Good(a, P) /\ Readied(a) = Readied(x) BY <1>3, <1>4, ShelvedFacts
<1>9. a.tick = x.tick /\ a.ovf = x.ovf /\ a.pended = x.pended /\ x.pended \in Nat
  BY <1>1, KernelFields DEF Kernels
<1>10. Later(x, a, 0)
  <2>1. Still(x, a) BY <1>4, <1>5, <1>9 DEF Still, Shelved
  <2> QED BY <1>1, <2>1, StillIsLater
<1>6. [x EXCEPT !.susp = @ - 1] = a BY <1>1 DEF Kernels
<1> HIDE DEF a
<1>7. CASE x.susp > 1
  <2>1. xTaskResumeAll(x) = [k |-> a, yielded |-> FALSE] BY <1>6, <1>7 DEF xTaskResumeAll
  <2>2. a.susp # 0 BY <1>1, <1>4, <1>7
  <2>6. 0 \in 0 .. x.pended BY <1>9
  <2>3. Resumes(x, a, FALSE) BY <1>4, <1>5, <1>10, <2>2, <2>6 DEF Resumes, Shelved
  <2> DEFINE r == xTaskResumeAll(x)
  <2>4. r.k = a /\ ~r.yielded /\ r.yielded = FALSE BY <2>1
  <2> HIDE DEF r
  <2>5. Resumes(x, r.k, r.yielded) BY <2>3, <2>4 DEF Resumes
  <2> QED BY <1>5, <2>4, <2>5 DEF r
<1>8. CASE ~(x.susp > 1)
  <2> DEFINE b == ReadyAllPended(a)
             c == CatchUp(b)
             y == IF c.yield THEN vTaskSwitchContext(c) ELSE c
  <2>1. xTaskResumeAll(x) = [k |-> y, yielded |-> c.yield]
    BY <1>6, <1>8 DEF xTaskResumeAll, YieldIfPending
  <2>2. a.susp = 0 BY <1>1, <1>4, <1>8
  <2>3. /\ Good(b, P) /\ Onward(a, b) /\ b.events[Pending] = <<>>
        /\ b.pended = a.pended /\ Later(a, b, 0)
    BY <1>5, ReadyAllPendedFacts
  <2> HIDE DEF b
  <2>4. b.susp = 0 BY <2>2, <2>3 DEF Onward, Alike
  <2>5. Good(c, P) /\ Onward(b, c) /\ Later(b, c, b.pended) BY <2>3, <2>4, CatchUpFacts
  <2> HIDE DEF c
  <2>6. Onward(a, c) BY <2>3, <2>5, OnwardAgain
  <2>7. c \in Kernels /\ c.yield \in BOOLEAN /\ c.events[Pending] \in Seq(Tasks)
    <3>1. c \in Kernels BY <2>5, GoodIsLoose
    <3> QED BY <3>1, KernelFields
  <2>8. c.events[Pending] = <<>>
    <3>1. ToSet(b.events[Pending]) = {} BY <2>3 DEF ToSet
    <3>2. ToSet(c.events[Pending]) = {} BY <2>5, <3>1 DEF Onward
    <3> QED BY <2>7, <3>2, SetOf
  <2>9. /\ Members(x, c) /\ c.susp = 0 /\ c.dying = x.dying /\ Readied(x) \subseteq Readied(c)
        /\ c.cur = x.cur
        /\ x.yield \/ NoHigher(x) => c.yield \/ NoHigher(c)
    <3>1. x.yield \/ NoHigher(x) => a.yield \/ NoHigher(a)
      BY <1>4, <1>5 DEF NoHigher, Members
    <3> QED BY <1>4, <1>5, <2>2, <2>6, <3>1 DEF Onward, Alike, Members, Shelved
  <2>10. x.susp - 1 = 0 BY <1>4, <2>2
  <2>11. ToSet(<<>>) \subseteq ToSet(x.events[Pending]) BY DEF ToSet
  <2>14. Later(x, c, x.pended) /\ x.pended \in 0 .. x.pended
    <3>1. b \in Kernels BY <2>3, GoodIsKernel
    <3>2. b.pended = x.pended /\ 0 + x.pended = x.pended /\ 0 + 0 = 0 /\ 0 \in Nat BY <1>9, <2>3
    <3>3. Later(x, b, 0 + 0) BY <1>1, <1>3, <1>10, <2>3, <3>1, <3>2, LaterAgain
    <3>4. Later(x, c, 0 + x.pended) BY <1>1, <1>9, <2>5, <2>7, <3>1, <3>2, <3>3, LaterAgain
    <3> QED BY <1>9, <3>2, <3>4
  <2>12. CASE c.yield
    <3>1. IdleReady(c) BY <2>9 DEF IdleReady, Members
    <3> DEFINE d == vTaskSwitchContext(c)
    <3>2. Good(d, P) /\ Switched(c, d) /\ CurReady(d) /\ NoHigher(d)
      BY <2>5, <2>9, <3>1, SwitchFacts
    <3>3. y = d BY <2>12
    <3> HIDE DEF d, y
    <3>4. /\ Members(x, d) /\ d.susp = 0 /\ d.dying = x.dying /\ Readied(x) \subseteq Readied(d)
          /\ d.events[Pending] = <<>>
      BY <2>8, <2>9, <3>2 DEF Switched, Members
    <3>6. Later(x, d, x.pended)
      <4>1. Later(c, d, 0) BY <2>7, <3>2, SwitchedIsStill, StillIsLater
      <4>2. d \in Kernels /\ x.pended + 0 = x.pended /\ 0 \in Nat BY <1>9, <3>2, GoodIsKernel
      <4>3. Later(x, d, x.pended + 0) BY <1>1, <1>9, <2>7, <2>14, <4>1, <4>2, LaterAgain
      <4> QED BY <4>2, <4>3
    <3>5. Resumes(x, d, TRUE) BY <2>10, <2>11, <2>14, <3>2, <3>4, <3>6 DEF Resumes
    <3> QED BY <2>1, <2>12, <3>2, <3>3, <3>5 DEF Resumes
  <2>13. CASE ~c.yield
    <3>1. y = c BY <2>13
    <3> HIDE DEF y
    <3>2. Resumes(x, c, FALSE) BY <2>8, <2>9, <2>10, <2>11, <2>13, <2>14 DEF Resumes
    <3> DEFINE r == xTaskResumeAll(x)
    <3>3. r.k = c /\ ~r.yielded /\ r.yielded \in BOOLEAN BY <2>1, <2>7, <2>13, <3>1
    <3> HIDE DEF r
    <3>4. Resumes(x, r.k, r.yielded) BY <3>2, <3>3 DEF Resumes
    <3> QED BY <2>5, <3>3, <3>4 DEF r
  <2> QED BY <2>12, <2>13
<1> QED BY <1>7, <1>8

-----------------------------------------------------------------------------
(* Moving one task from list to list.                                      *)

(* A task taken off every list.                                            *)
LEMMA OffFacts ==
    ASSUME NEW x, NEW P, Good(x, P), NEW t \in P, t \notin ToSet(x.dying)
    PROVE  LET y == RemoveEvent(RemoveState(x, t), t)
           IN  /\ Orderly(y, P \ {t}) /\ Evented(y, P \ {t}) /\ Same(x, y) /\ t \in Tasks
               /\ Readied(y) = Readied(x) \ {t} /\ y.dying = x.dying
               /\ ToSet(y.events[Pending]) = ToSet(x.events[Pending]) \ {t}
               /\ Calm(x, y, {t}) /\ t \notin Timed(y)
<1> DEFINE a == RemoveState(x, t)
           y == RemoveEvent(a, t)
<1>1. Orderly(x, P) /\ Evented(x, P) /\ x \in Kernels BY DEF Good, Orderly
<1>2. t \in Tasks
  <2>1. /\ ToSet(x.delayed) \subseteq Tasks /\ ToSet(x.overflow) \subseteq Tasks
        /\ ToSet(x.sleeping) \subseteq Tasks
    BY <1>1, KernelFields, SetOf
  <2> QED BY <1>1, <2>1 DEF Orderly, Seated, Apart, Readied
<1>3. /\ Orderly(a, P \ {t}) /\ Same(x, a) /\ a.events = x.events
      /\ Readied(a) = Readied(x) \ {t} /\ a.dying = x.dying /\ a.wake = x.wake
      /\ ToSet(a.delayed) = ToSet(x.delayed) \ {t} /\ ToSet(a.overflow) = ToSet(x.overflow) \ {t}
      /\ ToSet(a.sleeping) = ToSet(x.sleeping) \ {t}
  BY <1>1, <1>2, RemoveStateFacts
<1> HIDE DEF a
<1>4. Evented(a, P) BY <1>1, <1>3 DEF Evented
<1>5. /\ Orderly(y, P \ {t}) /\ Same(a, y) /\ Evented(y, P) /\ y.dying = a.dying
      /\ Readied(y) = Readied(a) /\ y.wake = a.wake
      /\ y.delayed = a.delayed /\ y.overflow = a.overflow /\ y.sleeping = a.sleeping
      /\ ToSet(y.events[Pending]) = ToSet(a.events[Pending]) \ {t}
  BY <1>2, <1>3, <1>4, RemoveEventFacts
<1> HIDE DEF y
<1>6. Same(x, y) BY <1>3, <1>5 DEF Same, Alike
<1>7. Evented(y, P \ {t}) BY <1>3, <1>5 DEF Evented
<1>8. Calm(x, y, {t}) /\ t \notin Timed(y)
  <2>1. Kept(x, y, {t}) BY <1>3, <1>5 DEF Kept, Timed
  <2>2. Timeless(x, y, {t}) BY <1>3, <1>5, <1>6 DEF Timeless, Same
  <2> QED BY <1>3, <1>5, <2>1, <2>2 DEF Calm, Timeless, Timed
<1> QED BY <1>2, <1>3, <1>5, <1>6, <1>7, <1>8 DEF y, a

(* A task moved to the ready list, its event item staying where it is.     *)
Readies(x, P, t, y) ==
    Good(x, P) /\ t \in P \ ToSet(x.dying) /\ y = prvAddTaskToReadyList(RemoveState(x, t), t)

LEMMA ReadyFacts ==
    ASSUME NEW x, NEW P, NEW t, NEW y, Readies(x, P, t, y)
    PROVE  /\ Good(y, P) /\ Same(x, y) /\ Readied(y) = Readied(x) \cup {t} /\ t \in Tasks
           /\ y.dying = x.dying /\ y.events = x.events /\ Calm(x, y, {})
<1> DEFINE a == RemoveState(x, t)
           b == prvAddTaskToReadyList(a, t)
<1>0. Good(x, P) /\ t \in P \ ToSet(x.dying) /\ y = b BY DEF Readies
<1>1. Orderly(x, P) /\ Evented(x, P) /\ x \in Kernels BY <1>0 DEF Good, Orderly
<1>2. t \in Tasks BY <1>0, OffFacts
<1>3. /\ Orderly(a, P \ {t}) /\ Same(x, a) /\ a.events = x.events
      /\ Readied(a) = Readied(x) \ {t} /\ a.dying = x.dying /\ a.wake = x.wake
      /\ ToSet(a.delayed) = ToSet(x.delayed) \ {t} /\ ToSet(a.overflow) = ToSet(x.overflow) \ {t}
      /\ ToSet(a.sleeping) = ToSet(x.sleeping) \ {t}
  BY <1>0, <1>1, <1>2, RemoveStateFacts
<1> HIDE DEF a
<1>4. /\ Orderly(b, (P \ {t}) \cup {t}) /\ Same(a, b) /\ b.events = a.events
      /\ Readied(b) = Readied(a) \cup {t} /\ b.dying = a.dying /\ b.wake = a.wake
      /\ b.delayed = a.delayed /\ b.overflow = a.overflow /\ b.sleeping = a.sleeping
  BY <1>2, <1>3, AddFacts
<1> HIDE DEF b
<1>5. (P \ {t}) \cup {t} = P BY <1>0
<1>6. Same(x, y) BY <1>0, <1>3, <1>4 DEF Same, Alike
<1>7. Evented(y, P) BY <1>0, <1>1, <1>3, <1>4 DEF Evented
<1>8. Calm(x, y, {})
  <2>1. Kept(x, y, {}) BY <1>0, <1>3, <1>4 DEF Kept, Timed
  <2>2. Timeless(x, y, {}) BY <1>0, <1>3, <1>4, <1>6 DEF Timeless, Same
  <2> QED BY <2>1, <2>2 DEF Calm
<1> QED BY <1>0, <1>2, <1>3, <1>4, <1>5, <1>6, <1>7, <1>8 DEF Good

(* A task made ready, or left on xPendingReadyList to be made ready.       *)
Rouses(x, P, t, y) ==
    /\ Good(x, P) /\ t \in P \ ToSet(x.dying) /\ t \notin ToSet(x.events[Pending])
    /\ y = ReadyOrPend(x, t)

Risen(x, P, t, y) ==
    /\ Good(y, P) /\ Same(x, y) /\ t \in Tasks /\ y.dying = x.dying
    /\ x.susp = 0 => Readied(y) = Readied(x) \cup {t} /\ y.events = x.events
    /\ x.susp # 0 => /\ Readied(y) = Readied(x)
                     /\ ToSet(y.events[Pending]) = ToSet(x.events[Pending]) \cup {t}
    /\ Kept(x, y, {t}) /\ Timeless(x, y, {})
    /\ t \in Readied(y) \cup ToSet(y.events[Pending])

LEMMA ReadyOrPendFacts ==
    ASSUME NEW x, NEW P, NEW t, NEW y, Rouses(x, P, t, y)
    PROVE  Risen(x, P, t, y)
<1>0. /\ Good(x, P) /\ t \in P \ ToSet(x.dying) /\ t \notin ToSet(x.events[Pending])
      /\ y = ReadyOrPend(x, t)
  BY DEF Rouses
<1>1. CASE x.susp = 0
  <2>1. Readies(x, P, t, y) BY <1>0, <1>1 DEF Readies, ReadyOrPend
  <2>2. /\ Good(y, P) /\ Same(x, y) /\ Readied(y) = Readied(x) \cup {t} /\ t \in Tasks
        /\ y.dying = x.dying /\ y.events = x.events /\ Calm(x, y, {})
    BY <2>1, ReadyFacts
  <2>3. Kept(x, y, {t}) BY <2>2, CalmMore DEF Calm
  <2> QED BY <1>1, <2>2, <2>3 DEF Calm, Risen
<1>2. CASE x.susp # 0
  <2> DEFINE s == x.events[Pending]
             e == [x.events EXCEPT ![Pending] = Append(s, t)]
  <2>1. x \in Kernels /\ t \in Tasks /\ Evented(x, P) /\ Orderly(x, P)
    BY <1>0, OffFacts, GoodIsLoose DEF Good
  <2>2. x.events \in [EventLists \cup {Pending} -> Seq(Tasks)] /\ s \in Seq(Tasks)
    BY <2>1, KernelFields
  <2>3. Gained(s, Append(s, t), t)
    <3>1. IsInjective(s) BY <2>1 DEF Evented
    <3> HIDE DEF s
    <3>2. t \notin ToSet(s) BY <1>0 DEF s
    <3> QED BY <2>1, <2>2, <3>1, <3>2, AppendFacts
  <2>4. Append(s, t) \in Seq(Tasks) BY <2>1, <2>2
  <2>5. e \in [EventLists \cup {Pending} -> Seq(Tasks)] BY <2>2, <2>4
  <2>6. e[Pending] = Append(s, t) /\ \A l \in EventLists : e[l] = x.events[l]
    BY <2>2, KernelAssumption
  <2>7. y = [x EXCEPT !.events = e] BY <1>0, <1>2, <2>1 DEF ReadyOrPend, Kernels
  <2> HIDE DEF e
  <2>8. y \in Kernels BY <2>1, <2>5, <2>7 DEF Kernels
  <2>9. /\ Same(x, y) /\ y.events = e /\ y.wake = x.wake /\ y.next = x.next /\ y.top = x.top
        /\ y.ready = x.ready /\ y.delayed = x.delayed /\ y.overflow = x.overflow
        /\ y.sleeping = x.sleeping /\ y.dying = x.dying
    BY <2>1, <2>7 DEF Kernels, Same, Alike
  <2>10. Readied(y) = Readied(x) BY <2>9 DEF Readied, Same, Alike
  <2>11. Seated(y, P) BY <2>1, <2>9, <2>10 DEF Orderly, Seated
  <2>12. Ranked(y) BY <2>1, <2>9 DEF Orderly, Ranked, Same, Alike
  <2>13. InOrder(y) BY <2>1, <2>9 DEF Orderly, InOrder
  <2>14. ToSet(y.events[Pending]) = ToSet(s) \cup {t} /\ IsInjective(y.events[Pending])
    BY <2>3, <2>6, <2>9 DEF Gained
  <2>15. Evented(y, P) BY <1>0, <2>1, <2>6, <2>9, <2>14 DEF Evented
  <2>16. Kept(x, y, {t}) BY <2>9, <2>10, <2>14 DEF Kept, Timed
  <2>17. Timeless(x, y, {}) BY <2>9 DEF Timeless, Same
  <2> QED BY <1>2, <2>1, <2>8, <2>9, <2>10, <2>11, <2>12, <2>13, <2>14, <2>15, <2>16, <2>17
          DEF Good, Orderly, Risen
<1> QED BY <1>1, <1>2

(* vTaskSuspend and vTaskDelete of the current task: a task put at the end *)
(* of xSuspendedTaskList or of xTasksWaitingTermination.                   *)
Shuts(x, P, t, a, y) ==
    /\ Good(x, P) /\ t \in P \ ToSet(x.dying)
    /\ a = RemoveEvent(RemoveState(x, t), t) /\ y \in Kernels /\ y.events = a.events
    /\ y.prio = a.prio /\ y.wake = a.wake /\ y.next = a.next /\ y.top = a.top
    /\ y.ready = a.ready /\ y.delayed = a.delayed /\ y.overflow = a.overflow
    /\ y.tick = a.tick /\ y.ovf = a.ovf
    /\ \/ y.sleeping = Append(a.sleeping, t) /\ y.dying = a.dying
       \/ y.dying = Append(a.dying, t) /\ y.sleeping = a.sleeping

Shut(x, P, t, y) ==
    /\ Good(y, P) /\ Readied(y) = Readied(x) \ {t}
    /\ ToSet(y.events[Pending]) = ToSet(x.events[Pending]) \ {t}
    /\ Calm(x, y, {t}) /\ t \notin Timed(y)
    /\ ToSet(y.dying) \ {t} \subseteq ToSet(x.dying)

LEMMA ShutFacts ==
    ASSUME NEW x, NEW P, NEW t, NEW a, NEW y, Shuts(x, P, t, a, y)
    PROVE  Shut(x, P, t, y)
<1>0. Good(x, P) /\ t \in P \ ToSet(x.dying) /\ a = RemoveEvent(RemoveState(x, t), t) BY DEF Shuts
<1>1. /\ Orderly(a, P \ {t}) /\ Evented(a, P \ {t}) /\ Same(x, a) /\ t \in Tasks
      /\ Readied(a) = Readied(x) \ {t} /\ a.dying = x.dying
      /\ ToSet(a.events[Pending]) = ToSet(x.events[Pending]) \ {t}
      /\ Calm(x, a, {t}) /\ t \notin Timed(a)
  BY <1>0, OffFacts
<1>2. Stows(a, P \ {t}, t, y) BY <1>1 DEF Shuts, Stows
<1>3. /\ Orderly(y, (P \ {t}) \cup {t}) /\ Readied(y) = Readied(a)
      /\ ToSet(y.sleeping) \ {t} \subseteq ToSet(a.sleeping)
      /\ \/ y.dying = a.dying
         \/ ToSet(y.dying) = ToSet(a.dying) \cup {t} /\ Len(y.dying) = Len(a.dying) + 1
  BY <1>2, StowFacts
<1>4. (P \ {t}) \cup {t} = P BY <1>0
<1>5. y.events = a.events BY DEF Shuts
<1>6. Evented(y, P) BY <1>1, <1>3, <1>5 DEF Evented
<1>7. Calm(x, y, {t}) /\ t \notin Timed(y)
  <2>1. /\ y.wake = a.wake /\ y.delayed = a.delayed /\ y.overflow = a.overflow
        /\ y.tick = a.tick /\ y.ovf = a.ovf
    BY DEF Shuts
  <2>2. Kept(a, y, {t}) BY <1>3, <1>5, <2>1 DEF Kept, Timed
  <2>3. Timeless(a, y, {t}) BY <2>1 DEF Timeless
  <2>4. Calm(x, y, {t}) BY <1>1, <2>2, <2>3, CalmAgain DEF Calm
  <2> QED BY <1>1, <2>1, <2>4 DEF Timed
<1> QED BY <1>1, <1>3, <1>4, <1>5, <1>6, <1>7 DEF Good, Shut

(* prvResetNextTaskUnblockTime after a task has gone for good.             *)
Goes(x, P, t, y) ==
    /\ Good(x, P) /\ t \in P \ ToSet(x.dying)
    /\ y = prvResetNextTaskUnblockTime(
               [RemoveEvent(RemoveState(x, t), t) EXCEPT !.num = @ - 1])

Gone(x, P, t, y) ==
    /\ Good(y, P \ {t}) /\ Readied(y) = Readied(x) \ {t}
    /\ y.dying = x.dying /\ y.num = x.num - 1 /\ y.cleanup = x.cleanup
    /\ y.cur = x.cur /\ y.susp = x.susp /\ y.yield = x.yield
    /\ y.prio = x.prio /\ y.base = x.base /\ y.nstate = x.nstate /\ y.nval = x.nval
    /\ ToSet(y.events[Pending]) = ToSet(x.events[Pending]) \ {t}
    /\ Calm(x, y, {t}) /\ t \notin Timed(y)

LEMMA GoneFacts ==
    ASSUME NEW x, NEW P, NEW t, NEW z, Goes(x, P, t, z)
    PROVE  Gone(x, P, t, z)
<1> DEFINE a == RemoveEvent(RemoveState(x, t), t)
           b == [a EXCEPT !.num = @ - 1]
           y == prvResetNextTaskUnblockTime(b)
<1>8. z = y /\ Good(x, P) /\ t \in P /\ t \notin ToSet(x.dying) BY DEF Goes
<1>1. /\ Orderly(a, P \ {t}) /\ Evented(a, P \ {t}) /\ Same(x, a) /\ t \in Tasks
      /\ Readied(a) = Readied(x) \ {t} /\ a.dying = x.dying
      /\ ToSet(a.events[Pending]) = ToSet(x.events[Pending]) \ {t}
      /\ Calm(x, a, {t}) /\ t \notin Timed(a)
  BY <1>8, OffFacts
<1> HIDE DEF a
<1>2. a \in Kernels /\ a.num \in Int BY <1>1, KernelFields DEF Orderly
<1>3. b \in Kernels
  <2> DEFINE n == a.num - 1
  <2>1. n \in Int BY <1>2
  <2>2. b = [a EXCEPT !.num = n] BY <1>2 DEF Kernels
  <2> HIDE DEF n, b
  <2> QED BY <1>2, <2>1, <2>2 DEF Kernels
<1>4. /\ Shelved(a, b) /\ b.num = a.num - 1 /\ b.cleanup = a.cleanup
      /\ b.cur = a.cur /\ b.susp = a.susp /\ b.yield = a.yield
      /\ b.base = a.base /\ b.nstate = a.nstate /\ b.nval = a.nval
      /\ b.tick = a.tick /\ b.ovf = a.ovf
  BY <1>2 DEF Kernels, Shelved
<1> HIDE DEF b
<1>5. Good(b, P \ {t}) /\ Readied(b) = Readied(a) BY <1>1, <1>3, <1>4, ShelvedFacts DEF Good
<1>6. /\ Good(y, P \ {t}) /\ Same(b, y) /\ Readied(y) = Readied(b) /\ y.dying = b.dying
      /\ y.events = b.events /\ y.wake = b.wake
      /\ y.delayed = b.delayed /\ y.overflow = b.overflow /\ y.sleeping = b.sleeping
  BY <1>5, GoodIsLoose, ResetFacts
<1> HIDE DEF y
<1>7. b.num = x.num - 1 BY <1>1, <1>4 DEF Same, Alike
<1>9. Still(a, y)
  <2>1. y.tick = a.tick /\ y.ovf = a.ovf BY <1>4, <1>6 DEF Same
  <2> QED BY <1>4, <1>5, <1>6, <2>1 DEF Still, Shelved
<1>10. Calm(x, y, {t}) /\ t \notin Timed(y)
  <2>1. Calm(a, y, {t}) BY <1>9, StillIsCalm
  <2>2. Timed(y) = Timed(a) BY <1>9 DEF Still, Timed
  <2> QED BY <1>1, <2>1, <2>2, CalmAgain
<1> QED BY <1>1, <1>4, <1>5, <1>6, <1>7, <1>8, <1>10 DEF Same, Alike, Shelved, Gone

-----------------------------------------------------------------------------
(* Priorities.                                                             *)

(* The priority of a task that is on no ready list may be written, and of  *)
(* what orders no list of its, everything.                                 *)
Rewrites(x, P, t, y) ==
    /\ Orderly(x, P) /\ y \in Kernels /\ t \in Tasks
    /\ t \notin Readied(x) \/ y.prio[t] = x.prio[t]
    /\ t \in P => y.wake[t] = x.wake[t]
    /\ \A u \in Tasks \ {t} : y.prio[u] = x.prio[u] /\ y.wake[u] = x.wake[u]
    /\ y.next = x.next /\ y.top = x.top
    /\ y.ready = x.ready /\ y.delayed = x.delayed /\ y.overflow = x.overflow
    /\ y.sleeping = x.sleeping /\ y.dying = x.dying

LEMMA RewriteFacts ==
    ASSUME NEW x, NEW P, NEW t, NEW y, Rewrites(x, P, t, y)
    PROVE  Orderly(y, P) /\ Readied(y) = Readied(x)
<1>0. /\ Orderly(x, P) /\ y \in Kernels /\ x \in Kernels /\ t \in Tasks
      /\ Seated(x, P) /\ Ranked(x) /\ InOrder(x)
  BY DEF Rewrites, Orderly
<1>1. /\ t \notin Readied(x) \/ y.prio[t] = x.prio[t]
      /\ t \in P => y.wake[t] = x.wake[t]
      /\ \A u \in Tasks \ {t} : y.prio[u] = x.prio[u] /\ y.wake[u] = x.wake[u]
      /\ y.next = x.next /\ y.top = x.top
      /\ y.ready = x.ready /\ y.delayed = x.delayed /\ y.overflow = x.overflow
      /\ y.sleeping = x.sleeping /\ y.dying = x.dying
  BY DEF Rewrites
<1>2. ASSUME NEW p \in Priorities, t \in ToSet(x.ready[p].items) PROVE y.prio[t] = p /\ t \in Readied(x)
  <2>1. x.prio[t] = p BY <1>0, <1>2 DEF Ranked
  <2> QED BY <1>0, <1>1, <1>2, <2>1 DEF Readied
<1>3. ASSUME NEW p \in Priorities, NEW u \in ToSet(x.ready[p].items)
      PROVE  u \in Tasks /\ y.prio[u] = p /\ x.prio[u] = p
  <2>1. x.ready[p].items \in Seq(Tasks) BY <1>0, ReadyOf
  <2>2. u \in Tasks BY <2>1, SetOf
  <2>3. x.prio[u] = p BY <1>0 DEF Ranked
  <2> QED BY <1>1, <1>2, <2>2, <2>3
<1>4. Ranked(y) BY <1>0, <1>1, <1>3 DEF Ranked
<1>5. \A u \in Tasks : x.prio[u] \in Priorities /\ y.prio[u] \in Priorities BY <1>0, KernelFields
<1>6. Readied(y) = Readied(x) BY <1>1, <1>3, <1>5 DEF Readied
<1>7. Seated(y, P) BY <1>0, <1>1, <1>6 DEF Seated
<1>8. InOrder(y)
  <2>1. x.delayed \in Seq(Tasks) /\ x.overflow \in Seq(Tasks) BY <1>0, KernelFields
  <2>2. ToSet(x.delayed) \subseteq P /\ ToSet(x.overflow) \subseteq P BY <1>0 DEF Seated, Apart
  <2>3. /\ \A i \in 1 .. Len(x.delayed) : x.delayed[i] \in ToSet(x.delayed) /\ x.delayed[i] \in Tasks
        /\ \A i \in 1 .. Len(x.overflow) : x.overflow[i] \in ToSet(x.overflow) /\ x.overflow[i] \in Tasks
    BY <2>1, SetOf
  <2>4. \A u \in Tasks : u \in P => y.wake[u] = x.wake[u] BY <1>1
  <2>5. Ordered(y.delayed, y.wake) BY <1>0, <1>1, <2>2, <2>3, <2>4 DEF InOrder, Ordered
  <2>6. Ordered(y.overflow, y.wake) BY <1>0, <1>1, <2>2, <2>3, <2>4 DEF InOrder, Ordered
  <2>7. ToSet(x.delayed) \subseteq Tasks BY <2>1, SetOf
  <2> QED BY <1>0, <1>1, <2>2, <2>4, <2>5, <2>6, <2>7 DEF InOrder
<1> QED BY <1>0, <1>4, <1>6, <1>7, <1>8 DEF Orderly

LEMMA ReadyTest ==
    ASSUME NEW x, x \in Kernels, NEW t \in Tasks
    PROVE  InReady(x, t, x.prio[t]) <=> t \in Readied(x)
<1>1. x.prio[t] \in Priorities BY KernelFields
<1>2. x.ready[x.prio[t]].items \in Seq(Tasks) BY <1>1, KernelFields DEF Rings
<1> QED BY <1>2, SetOf DEF InReady, Contains, Readied

(* A task moved to another priority.                                       *)
Regrades(x, P, t, p, y) ==
    /\ Good(x, P) /\ t \in P \ ToSet(x.dying) /\ p \in Priorities
    /\ y = ChangePriority(x, t, p)

LEMMA ChangePriorityFacts ==
    ASSUME NEW x, NEW P, NEW t, NEW p, NEW y, Regrades(x, P, t, p, y)
    PROVE  /\ Good(y, P) /\ Readied(y) = Readied(x) /\ t \in Tasks
           /\ y.prio = [x.prio EXCEPT ![t] = p] /\ y.base = x.base /\ y.nstate = x.nstate
           /\ y.num = x.num /\ y.cleanup = x.cleanup /\ y.dying = x.dying
           /\ y.cur = x.cur /\ y.susp = x.susp /\ y.yield = x.yield /\ y.events = x.events
           /\ y.nval = x.nval /\ Calm(x, y, {})
<1>0. Good(x, P) /\ t \in P \ ToSet(x.dying) /\ p \in Priorities /\ y = ChangePriority(x, t, p)
  BY DEF Regrades
<1>1. x \in Kernels /\ t \in Tasks /\ Orderly(x, P) /\ Evented(x, P)
  BY <1>0, GoodIsLoose, OffFacts DEF Good
<1>2. x.prio \in [Tasks -> Priorities] BY <1>1, KernelFields
<1> DEFINE a == [x EXCEPT !.prio[t] = p]
           f == [x.prio EXCEPT ![t] = p]
<1>3. InReady(x, t, x.prio[t]) <=> t \in Readied(x) BY <1>1, ReadyTest
<1>4. a = [x EXCEPT !.prio = f] BY <1>1 DEF Kernels
<1>5. f \in [Tasks -> Priorities] /\ f[t] = p /\ \A u \in Tasks \ {t} : f[u] = x.prio[u] BY <1>0, <1>1, <1>2
<1>6. CASE t \notin Readied(x)
  <2>1. y = a BY <1>0, <1>3, <1>6 DEF ChangePriority
  <2> HIDE DEF a, f
  <2>2. a \in Kernels BY <1>1, <1>4, <1>5 DEF Kernels
  <2>3. /\ a.prio = f /\ a.base = x.base /\ a.nstate = x.nstate /\ a.num = x.num
        /\ a.cleanup = x.cleanup /\ a.cur = x.cur /\ a.susp = x.susp /\ a.yield = x.yield
        /\ a.wake = x.wake /\ a.next = x.next /\ a.top = x.top
        /\ a.ready = x.ready /\ a.delayed = x.delayed /\ a.overflow = x.overflow
        /\ a.sleeping = x.sleeping /\ a.dying = x.dying /\ a.events = x.events
        /\ a.nval = x.nval /\ a.tick = x.tick /\ a.ovf = x.ovf
    BY <1>1, <1>4 DEF Kernels
  <2>4. Rewrites(x, P, t, a) BY <1>0, <1>1, <1>5, <1>6, <2>2, <2>3 DEF Rewrites
  <2>5. Orderly(a, P) /\ Readied(a) = Readied(x) BY <2>4, RewriteFacts
  <2>6. Good(a, P) BY <1>1, <2>3, <2>5 DEF Good, Evented
  <2>7. Calm(x, a, {})
    <3>1. Still(x, a) BY <2>3, <2>5 DEF Still
    <3> QED BY <3>1, StillIsCalm
  <2> QED BY <1>1, <2>1, <2>3, <2>5, <2>6, <2>7 DEF f
<1>7. CASE t \in Readied(x)
  <2> DEFINE b == RemoveState(x, t)
             c == RemoveState(a, t)
             d == [b EXCEPT !.prio = f]
             z == prvAddTaskToReadyList(d, t)
  <2>1. y = prvAddTaskToReadyList(c, t) BY <1>0, <1>3, <1>7 DEF ChangePriority
  <2>2. c = d
    <3> DEFINE R == [q \in Priorities |-> uxListRemove(x.ready[q], t)]
               D == Without(x.delayed, t)
               O == Without(x.overflow, t)
               S == Without(x.sleeping, t)
               Y == Without(x.dying, t)
    <3> HIDE DEF f, a
    <3>1. a \in Kernels BY <1>1, <1>4, <1>5 DEF Kernels
    <3>2. /\ a.ready = x.ready /\ a.delayed = x.delayed /\ a.overflow = x.overflow
          /\ a.sleeping = x.sleeping /\ a.dying = x.dying
      BY <1>1, <1>4 DEF Kernels
    <3>3. b = [x EXCEPT !.ready = R, !.delayed = D, !.overflow = O, !.sleeping = S, !.dying = Y]
      BY <1>1 DEF RemoveState, Kernels
    <3>4. c = [a EXCEPT !.ready = R, !.delayed = D, !.overflow = O, !.sleeping = S, !.dying = Y]
      BY <3>1, <3>2 DEF RemoveState, Kernels
    <3> HIDE DEF R, D, O, S, Y, b, c
    <3>5. c = [b EXCEPT !.prio = f] BY <1>1, <1>4, <3>3, <3>4 DEF Kernels
    <3> QED BY <3>5 DEF d
  <2>3. /\ Orderly(b, P \ {t}) /\ Same(x, b) /\ b.events = x.events
        /\ Readied(b) = Readied(x) \ {t} /\ b.dying = x.dying /\ b.wake = x.wake
        /\ ToSet(b.delayed) = ToSet(x.delayed) \ {t} /\ ToSet(b.overflow) = ToSet(x.overflow) \ {t}
        /\ ToSet(b.sleeping) = ToSet(x.sleeping) \ {t}
    BY <1>0, <1>1, RemoveStateFacts
  <2> HIDE DEF a, b, c, f
  <2>4. b \in Kernels BY <2>3 DEF Orderly
  <2>5. d \in Kernels BY <1>5, <2>4 DEF Kernels
  <2>6. /\ d.prio = f /\ d.base = b.base /\ d.nstate = b.nstate /\ d.num = b.num
        /\ d.cleanup = b.cleanup /\ d.cur = b.cur /\ d.susp = b.susp /\ d.yield = b.yield
        /\ d.wake = b.wake /\ d.next = b.next /\ d.top = b.top
        /\ d.ready = b.ready /\ d.delayed = b.delayed /\ d.overflow = b.overflow
        /\ d.sleeping = b.sleeping /\ d.dying = b.dying /\ d.events = b.events
        /\ d.nval = b.nval /\ d.tick = b.tick /\ d.ovf = b.ovf
    BY <2>4 DEF Kernels
  <2> HIDE DEF d
  <2>7. Orderly(d, P \ {t}) /\ Readied(d) = Readied(b)
    <3>1. b.prio = x.prio BY <2>3 DEF Same, Alike
    <3>2. Rewrites(b, P \ {t}, t, d) BY <1>1, <1>5, <2>3, <2>5, <2>6, <3>1 DEF Rewrites
    <3> QED BY <3>2, RewriteFacts
  <2>8. /\ Orderly(z, (P \ {t}) \cup {t}) /\ Same(d, z) /\ z.events = d.events
        /\ Readied(z) = Readied(d) \cup {t} /\ z.dying = d.dying /\ z.wake = d.wake
        /\ z.delayed = d.delayed /\ z.overflow = d.overflow /\ z.sleeping = d.sleeping
    BY <1>1, <2>7, AddFacts
  <2>9. y = z BY <2>1, <2>2
  <2> HIDE DEF z
  <2>10. (P \ {t}) \cup {t} = P /\ (Readied(x) \ {t}) \cup {t} = Readied(x) BY <1>0, <1>7
  <2>11. /\ y.prio = f /\ y.base = x.base /\ y.nstate = x.nstate
         /\ y.num = x.num /\ y.cleanup = x.cleanup /\ y.dying = x.dying
         /\ y.cur = x.cur /\ y.susp = x.susp /\ y.yield = x.yield /\ y.events = x.events
         /\ Readied(y) = Readied(x) /\ Orderly(y, P)
         /\ y.nval = x.nval /\ y.tick = x.tick /\ y.ovf = x.ovf
    BY <2>3, <2>6, <2>7, <2>8, <2>9, <2>10 DEF Same, Alike
  <2>12. Good(y, P) BY <1>1, <2>11 DEF Good, Evented
  <2>13. Calm(x, y, {})
    <3>1. /\ ToSet(y.delayed) \subseteq ToSet(x.delayed) /\ ToSet(y.overflow) \subseteq ToSet(x.overflow)
          /\ ToSet(y.sleeping) \subseteq ToSet(x.sleeping) /\ y.wake = x.wake
      BY <2>3, <2>6, <2>8, <2>9
    <3>2. Kept(x, y, {}) BY <2>11, <3>1 DEF Kept, Timed
    <3> QED BY <2>11, <3>1, <3>2 DEF Calm, Timeless
  <2> QED BY <1>1, <2>11, <2>12, <2>13 DEF f
<1> QED BY <1>6, <1>7

(* A new control block is filled in.                                       *)
Initialised(x, P, t, p, y) ==
    /\ Good(y, P) /\ Readied(y) = Readied(x)
    /\ y.prio = [x.prio EXCEPT ![t] = p] /\ y.base = [x.base EXCEPT ![t] = p]
    /\ y.nstate = [x.nstate EXCEPT ![t] = NOT_WAITING]
    /\ y.num = x.num /\ y.cleanup = x.cleanup /\ y.dying = x.dying
    /\ y.cur = x.cur /\ y.susp = x.susp /\ y.yield = x.yield /\ y.events = x.events
    /\ y.pended = x.pended /\ y.nval = [x.nval EXCEPT ![t] = 0]
    /\ Calm(x, y, {t}) /\ t \notin Timed(y)

LEMMA InitialiseFacts ==
    ASSUME NEW x, NEW P, Good(x, P), NEW t \in Tasks, t \notin P, NEW p \in Priorities
    PROVE  Initialised(x, P, t, p, prvInitialiseNewTask(x, t, p))
<1> DEFINE y == prvInitialiseNewTask(x, t, p)
           pr == [x.prio EXCEPT ![t] = p]
           ba == [x.base EXCEPT ![t] = p]
           he == [x.held EXCEPT ![t] = 0]
           wa == [x.wake EXCEPT ![t] = 0]
           ra == [x.rank EXCEPT ![t] = EventRank(p)]
           ns == [x.nstate EXCEPT ![t] = NOT_WAITING]
           nv == [x.nval EXCEPT ![t] = 0]
           ab == [x.aborted EXCEPT ![t] = FALSE]
<1>1. x \in Kernels /\ Orderly(x, P) /\ Evented(x, P) BY GoodIsLoose DEF Good
<1>2. /\ x.prio \in [Tasks -> Priorities] /\ x.base \in [Tasks -> Priorities]
      /\ x.held \in [Tasks -> Int] /\ x.wake \in [Tasks -> Ticks] /\ x.rank \in [Tasks -> Int]
      /\ x.nstate \in [Tasks -> 0 .. 2] /\ x.nval \in [Tasks -> Int]
      /\ x.aborted \in [Tasks -> BOOLEAN]
  BY <1>1, KernelFields
<1>3. EventRank(p) \in Int BY KernelAssumption DEF EventRank, Priorities
<1>4. 0 \in Ticks BY KernelAssumption DEF Ticks
<1>5. /\ pr \in [Tasks -> Priorities] /\ ba \in [Tasks -> Priorities]
      /\ he \in [Tasks -> Int] /\ wa \in [Tasks -> Ticks] /\ ra \in [Tasks -> Int]
      /\ ns \in [Tasks -> 0 .. 2] /\ nv \in [Tasks -> Int] /\ ab \in [Tasks -> BOOLEAN]
  <2>1. NOT_WAITING \in 0 .. 2 BY DEF NOT_WAITING
  <2> QED BY <1>2, <1>3, <1>4, <2>1
<1>6. y = [x EXCEPT !.prio = pr, !.base = ba, !.held = he, !.wake = wa, !.rank = ra,
                    !.nstate = ns, !.nval = nv, !.aborted = ab]
  BY <1>1 DEF prvInitialiseNewTask, Kernels
<1>7. \A u \in Tasks \ {t} : pr[u] = x.prio[u] /\ wa[u] = x.wake[u] BY <1>2
<1> DEFINE a == [x EXCEPT !.prio = pr, !.base = ba, !.held = he]
           b == [a EXCEPT !.wake = wa, !.rank = ra, !.nstate = ns]
<1> HIDE DEF pr, ba, he, wa, ra, ns, nv, ab, y
<1>8. a \in Kernels BY <1>1, <1>5 DEF Kernels
<1>9. y = [b EXCEPT !.nval = nv, !.aborted = ab] BY <1>1, <1>6 DEF Kernels
<1> HIDE DEF a
<1>10. b \in Kernels BY <1>5, <1>8 DEF Kernels
<1> HIDE DEF b
<1>11. y \in Kernels BY <1>5, <1>9, <1>10 DEF Kernels
<1>12. /\ y.prio = pr /\ y.base = ba /\ y.nstate = ns /\ y.wake = wa /\ y.num = x.num
       /\ y.cleanup = x.cleanup /\ y.cur = x.cur /\ y.susp = x.susp /\ y.yield = x.yield
       /\ y.next = x.next /\ y.top = x.top
       /\ y.ready = x.ready /\ y.delayed = x.delayed /\ y.overflow = x.overflow
       /\ y.sleeping = x.sleeping /\ y.dying = x.dying /\ y.events = x.events
       /\ y.nval = nv /\ y.tick = x.tick /\ y.ovf = x.ovf /\ y.pended = x.pended
  BY <1>1, <1>6 DEF Kernels
<1>13. t \notin Readied(x) BY <1>1 DEF Orderly, Seated, Apart
<1>14. Rewrites(x, P, t, y) BY <1>1, <1>7, <1>11, <1>12, <1>13 DEF Rewrites
<1>15. Orderly(y, P) /\ Readied(y) = Readied(x) BY <1>14, RewriteFacts
<1>16. Good(y, P) BY <1>1, <1>12, <1>15 DEF Good, Evented
<1>17. Calm(x, y, {t}) /\ t \notin Timed(y)
  <2>1. Kept(x, y, {t}) BY <1>12, <1>15 DEF Kept, Timed
  <2>2. Timeless(x, y, {t}) BY <1>7, <1>12 DEF Timeless
  <2>3. t \notin Timed(y) BY <1>1, <1>12 DEF Orderly, Seated, Apart, Timed
  <2> QED BY <2>1, <2>2, <2>3 DEF Calm
<1>18. Initialised(x, P, t, p, y) BY <1>12, <1>15, <1>16, <1>17 DEF pr, ba, ns, nv, Initialised
<1> QED BY <1>18 DEF y

-----------------------------------------------------------------------------
(* What a record whose lists are in order says of a task.                  *)

(* A task on a list is not on another.                                     *)
LEMMA WhereFacts ==
    ASSUME NEW x, NEW P, Good(x, P), NEW t \in Tasks
    PROVE  /\ Contains(x.delayed, t) <=> t \in ToSet(x.delayed)
           /\ Contains(x.overflow, t) <=> t \in ToSet(x.overflow)
           /\ Contains(x.sleeping, t) <=> t \in ToSet(x.sleeping)
           /\ Contains(x.dying, t) <=> t \in ToSet(x.dying)
           /\ Contains(x.events[Pending], t) <=> t \in ToSet(x.events[Pending])
           /\ \A p \in Priorities : InReady(x, t, p) <=> t \in Readied(x) /\ p = x.prio[t]
           /\ Readied(x) \subseteq P /\ ToSet(x.delayed) \subseteq P
           /\ ToSet(x.overflow) \subseteq P /\ ToSet(x.sleeping) \subseteq P
           /\ ToSet(x.dying) \subseteq P /\ ToSet(x.events[Pending]) \subseteq P \ ToSet(x.dying)
           /\ Readied(x) \cap ToSet(x.dying) = {} /\ ToSet(x.delayed) \cap ToSet(x.dying) = {}
           /\ ToSet(x.overflow) \cap ToSet(x.dying) = {} /\ ToSet(x.sleeping) \cap ToSet(x.dying) = {}
<1>1. x \in Kernels /\ Ranked(x) /\ Seated(x, P) /\ Evented(x, P) BY GoodIsLoose DEF Loose
<1>2. /\ x.delayed \in Seq(Tasks) /\ x.overflow \in Seq(Tasks)
      /\ x.sleeping \in Seq(Tasks) /\ x.dying \in Seq(Tasks) /\ x.events[Pending] \in Seq(Tasks)
      /\ x.prio \in [Tasks -> Priorities]
  BY <1>1, KernelFields
<1>3. ASSUME NEW s \in Seq(Tasks) PROVE Contains(s, t) <=> t \in ToSet(s)
  BY <1>3, SetOf DEF Contains
<1>4. ASSUME NEW p \in Priorities PROVE InReady(x, t, p) <=> t \in Readied(x) /\ p = x.prio[t]
  <2>1. x.ready[p].items \in Seq(Tasks) /\ ToSet(x.ready[p].items) = {u \in Readied(x) : x.prio[u] = p}
    BY <1>1, ReadyOf
  <2> QED BY <1>3, <2>1 DEF InReady
<1>5. /\ Contains(x.delayed, t) <=> t \in ToSet(x.delayed)
      /\ Contains(x.overflow, t) <=> t \in ToSet(x.overflow)
      /\ Contains(x.sleeping, t) <=> t \in ToSet(x.sleeping)
      /\ Contains(x.dying, t) <=> t \in ToSet(x.dying)
      /\ Contains(x.events[Pending], t) <=> t \in ToSet(x.events[Pending])
  BY <1>2, <1>3
<1>6. Apart(Readied(x), ToSet(x.delayed), ToSet(x.overflow), ToSet(x.sleeping), ToSet(x.dying), P)
  BY <1>1 DEF Seated
<1>7. ToSet(x.events[Pending]) \subseteq P \ ToSet(x.dying) BY <1>1 DEF Evented
<1> QED BY <1>4, <1>5, <1>6, <1>7 DEF Apart
=============================================================================
