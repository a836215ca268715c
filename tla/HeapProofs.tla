----------------------------- MODULE HeapProofs -----------------------------
(***************************************************************************)
(* The kernel's heap is sound: the inductive invariant of Heap4 and the    *)
(* proofs of HeapSound and FailsOnlyWhenFull, for every heap, alignment,   *)
(* size of header and number of tasks.                                     *)
(***************************************************************************)
EXTENDS Heap4, FiniteSetTheorems, WellFoundedInduction, TLAPS

-----------------------------------------------------------------------------
(* Alignment.                                                              *)

(* The assumption on the constants, one by one.                            *)
LEMMA ConstantFacts ==
    /\ HeapAt \in Nat /\ HeapAt > 0 /\ Alignment \in Nat /\ Alignment > 0
    /\ StructSize \in Nat /\ StructSize > 0 /\ StructSize % Alignment = 0
    /\ SizeMax \in Nat /\ HeapSize \in Nat /\ HeapSize >= 2 * StructSize + 2 * Alignment
    /\ HeapSize <= SizeMax \div 2
<1>1. SizeMax \in Nat /\ SizeMax \div 2 \in Int BY HeapAssumption
<1>2. StructSize \in Nat \ {0} /\ Alignment \in Nat \ {0} /\ HeapAt \in Nat \ {0} BY HeapAssumption
<1> QED BY <1>1, <1>2, HeapAssumption

(* The multiples of Alignment.                                             *)
LEMMA MultipleFacts ==
    ASSUME NEW a \in Int
    PROVE  a % Alignment = 0 <=> \E k \in Int : a = Alignment * k
<1>1. Alignment \in Nat /\ Alignment > 0 BY ConstantFacts
<1>2. a = Alignment * (a \div Alignment) + (a % Alignment) /\ a \div Alignment \in Int BY <1>1
<1>3. a % Alignment = 0 => a = Alignment * (a \div Alignment) BY <1>1, <1>2
<1>4. ASSUME NEW k \in Int, a = Alignment * k PROVE a % Alignment = 0
  BY <1>1, <1>4
<1> QED BY <1>2, <1>3, <1>4

(* Sums and differences of multiples; two of them are Alignment apart.     *)
LEMMA AlignedFacts ==
    ASSUME NEW a \in Int, NEW c \in Int, a % Alignment = 0, c % Alignment = 0
    PROVE  /\ (a + c) % Alignment = 0 /\ (a - c) % Alignment = 0
           /\ a < c => a + Alignment <= c
<1>1. Alignment \in Nat /\ Alignment > 0 BY ConstantFacts
<1>2. PICK k \in Int : a = Alignment * k BY MultipleFacts
<1>3. PICK l \in Int : c = Alignment * l BY MultipleFacts
<1>4. k + l \in Int /\ k - l \in Int
      /\ a + c = Alignment * (k + l) /\ a - c = Alignment * (k - l) BY <1>1, <1>2, <1>3
<1>5. a + c \in Int /\ a - c \in Int OBVIOUS
<1>6. (a + c) % Alignment = 0 /\ (a - c) % Alignment = 0 BY <1>4, <1>5, MultipleFacts
<1>7. ASSUME a < c PROVE a + Alignment <= c
  <2>1. k < l BY <1>1, <1>2, <1>3, <1>7
  <2>2. k + 1 <= l BY <2>1
  <2>3. Alignment * (k + 1) <= Alignment * l BY <1>1, <2>2
  <2> QED BY <1>1, <1>2, <1>3, <2>3
<1> QED BY <1>6, <1>7

(* Rounding up and down to a multiple.                                     *)
LEMMA RoundFacts ==
    ASSUME NEW a \in Nat
    PROVE  /\ Up(a) \in Nat /\ Up(a) % Alignment = 0 /\ a <= Up(a) /\ Up(a) < a + Alignment
           /\ Down(a) \in Nat /\ Down(a) % Alignment = 0 /\ Down(a) <= a /\ a < Down(a) + Alignment
<1>1. Alignment \in Nat /\ Alignment > 0 BY ConstantFacts
<1>2. ASSUME NEW n \in Nat
      PROVE  /\ (n \div Alignment) * Alignment \in Nat /\ ((n \div Alignment) * Alignment) % Alignment = 0
             /\ (n \div Alignment) * Alignment <= n /\ n < (n \div Alignment) * Alignment + Alignment
  <2>1. PICK q \in Nat : q = n \div Alignment BY <1>1
  <2>2. PICK r \in 0..Alignment - 1 : r = n % Alignment BY <1>1
  <2>3. n = Alignment * q + r BY <1>1, <2>1, <2>2
  <2>4. q * Alignment \in Nat /\ q * Alignment = Alignment * q BY <1>1
  <2>5. (q * Alignment) % Alignment = 0 BY <2>4, MultipleFacts
  <2> QED BY <1>1, <2>1, <2>3, <2>4, <2>5
<1>3. a + Alignment - 1 \in Nat BY <1>1
<1>4. /\ Up(a) \in Nat /\ Up(a) % Alignment = 0
      /\ Up(a) <= a + Alignment - 1 /\ a + Alignment - 1 < Up(a) + Alignment
  BY <1>2, <1>3 DEF Up
<1>5. /\ Down(a) \in Nat /\ Down(a) % Alignment = 0 /\ Down(a) <= a /\ a < Down(a) + Alignment
  BY <1>2 DEF Down
<1> QED BY <1>1, <1>4, <1>5

(* Where the first block begins and the end marker lies.                   *)
LEMMA PlaceFacts ==
    /\ FirstBlock \in Nat /\ EndBlock \in Nat /\ FirstBlock >= HeapAt /\ FirstBlock > Start
    /\ FirstBlock % Alignment = 0 /\ EndBlock % Alignment = 0
    /\ EndBlock - FirstBlock >= StructSize + Alignment
    /\ EndBlock + StructSize <= HeapAt + HeapSize
    /\ EndBlock - FirstBlock <= SizeMax \div 2
<1>1. FirstBlock \in Nat /\ FirstBlock % Alignment = 0 /\ HeapAt <= FirstBlock /\ FirstBlock < HeapAt + Alignment
  BY ConstantFacts, RoundFacts DEF FirstBlock
<1> DEFINE top == FirstBlock + (HeapSize - (FirstBlock - HeapAt)) - StructSize
<1>2. top \in Nat /\ top = HeapAt + HeapSize - StructSize BY <1>1, ConstantFacts
<1>3. EndBlock = Down(top) BY DEF EndBlock
<1> HIDE DEF top
<1>4. EndBlock \in Nat /\ EndBlock % Alignment = 0 /\ EndBlock <= top /\ top < EndBlock + Alignment
  BY <1>2, <1>3, RoundFacts
<1>5. EndBlock - FirstBlock > StructSize BY <1>1, <1>2, <1>4, ConstantFacts
<1>6. EndBlock - FirstBlock \in Int /\ (EndBlock - FirstBlock) % Alignment = 0 BY <1>1, <1>4, AlignedFacts
<1>7. StructSize + Alignment <= EndBlock - FirstBlock
  <2> DEFINE room == EndBlock - FirstBlock
  <2>1. StructSize \in Int /\ StructSize % Alignment = 0 /\ room \in Int /\ room % Alignment = 0
        /\ StructSize < room
    BY <1>5, <1>6, ConstantFacts
  <2> HIDE DEF room
  <2>2. StructSize + Alignment <= room BY <2>1, AlignedFacts
  <2> QED BY <2>2 DEF room
<1>8. EndBlock - FirstBlock <= HeapSize BY <1>1, <1>2, <1>4, ConstantFacts
<1>9. SizeMax \div 2 \in Int BY ConstantFacts
<1> QED BY <1>1, <1>2, <1>4, <1>7, <1>8, <1>9, ConstantFacts DEF Start

-----------------------------------------------------------------------------
(* Least and greatest numbers.                                             *)

(* A set of natural numbers that is not empty has a least one ...          *)
LEMMA LeastNatural ==
    ASSUME NEW T \in SUBSET Nat, T # {}
    PROVE  \E m \in T : \A k \in T : m <= k
<1> DEFINE R == OpToRel(<, Nat)
           N == Nat
<1>1. IsWellFoundedOn(R, N) BY NatLessThanWellFounded
<1>2. T \subseteq N OBVIOUS
<1>3. \A x, y \in Nat : <<x, y>> \in R <=> x < y BY DEF OpToRel
<1> HIDE DEF R, N
<1>4. PICK x \in T : \A y \in T : ~(<<y, x>> \in R)
  <2>1. \A RR, SS : IsWellFoundedOn(RR, SS) =>
          \A TT : TT \subseteq SS /\ TT # {} =>
            \E x \in TT : \A y \in TT : ~(<<y, x>> \in RR)
    BY WFMin, Zenon
  <2> QED BY <1>1, <1>2, <2>1, Zenon
<1>5. ASSUME NEW y \in T PROVE x <= y
  <2>1. x \in Nat /\ y \in Nat OBVIOUS
  <2>2. ~(y < x) BY <1>3, <1>4, <2>1
  <2> QED BY <2>1, <2>2
<1> QED BY <1>5

(* ... and a greatest, when it is bounded.                                 *)
LEMMA GreatestNatural ==
    ASSUME NEW n \in Nat, NEW T \in SUBSET (0 .. n), T # {}
    PROVE  \E m \in T : \A k \in T : k <= m
<1> DEFINE U == {n - k : k \in T}
<1>1. U \in SUBSET Nat /\ U # {}
  <2>1. \A k \in T : n - k \in Nat OBVIOUS
  <2>2. PICK k \in T : TRUE OBVIOUS
  <2>3. n - k \in U OBVIOUS
  <2> QED BY <2>1, <2>3
<1> HIDE DEF U
<1>2. PICK u \in U : \A k \in U : u <= k BY <1>1, LeastNatural
<1>3. PICK m \in T : u = n - m BY DEF U
<1>4. ASSUME NEW k \in T PROVE k <= m
  <2>1. n - k \in U BY DEF U
  <2>2. n - m <= n - k BY <1>2, <1>3, <2>1
  <2> QED BY <2>2
<1> QED BY <1>4

-----------------------------------------------------------------------------
(* The shape of the heap: b its headers, F those on the free list.         *)

Header    == [size : Nat, next : Int, used : BOOLEAN]
Blocks(b) == DOMAIN b \ {Start, EndBlock}

Placed(b) ==
    /\ DOMAIN b \subseteq {Start} \cup FirstBlock .. EndBlock
    /\ {Start, FirstBlock, EndBlock} \subseteq DOMAIN b
    /\ \A a \in DOMAIN b : b[a] \in Header
    /\ b[EndBlock].next = Null
    /\ \A a \in {Start, EndBlock} : b[a].size = 0 /\ ~b[a].used

Tiled(b) ==
    \A a \in Blocks(b) :
        /\ a % Alignment = 0 /\ b[a].size % Alignment = 0
        /\ b[a].size >= StructSize + Alignment
        /\ a + b[a].size \in DOMAIN b
        /\ \A c \in Blocks(b) : a < c => a + b[a].size <= c

Linked(b, F) ==
    /\ F \subseteq {a \in Blocks(b) : ~b[a].used}
    /\ \A a \in Blocks(b) \ F : b[a].next = Null
    /\ \A a \in F \cup {Start} :
         /\ b[a].next \in F \cup {EndBlock} /\ a < b[a].next
         /\ \A c \in F : c <= a \/ b[a].next <= c

Apart(b, F) == \A a \in F : a + b[a].size \notin F

Sound(b, F) == Placed(b) /\ Tiled(b) /\ Linked(b, F)
Shape(b, F) == Placed(b) /\ Tiled(b) /\ Linked(b, F) /\ Apart(b, F)

(* Addresses in use are numbers between the first block and the end.       *)
LEMMA AddressFacts ==
    ASSUME NEW b, Placed(b)
    PROVE  /\ \A a \in DOMAIN b : a \in Nat /\ a <= EndBlock
           /\ \A a \in Blocks(b) : a \in Nat /\ FirstBlock <= a /\ a < EndBlock
           /\ \A a \in DOMAIN b : b[a].size \in Nat /\ b[a].next \in Int /\ b[a].used \in BOOLEAN
           /\ Null \notin DOMAIN b /\ FirstBlock \in Blocks(b)
           /\ Start \in DOMAIN b /\ EndBlock \in DOMAIN b
<1>1. \A a \in DOMAIN b : a \in Nat /\ a <= EndBlock BY PlaceFacts DEF Placed, Start
<1>2. \A a \in Blocks(b) : FirstBlock <= a /\ a < EndBlock BY <1>1, PlaceFacts DEF Placed, Blocks
<1>3. \A a \in DOMAIN b : b[a].size \in Nat /\ b[a].next \in Int /\ b[a].used \in BOOLEAN
  BY DEF Placed, Header
<1>4. FirstBlock # Start /\ FirstBlock # EndBlock BY PlaceFacts, ConstantFacts DEF Start
<1> QED BY <1>1, <1>2, <1>3, <1>4 DEF Placed, Blocks, Null

(* Every free block, and the end marker, comes behind something.           *)
LEMMA Predecessor ==
    ASSUME NEW b, NEW F, Placed(b), Linked(b, F), NEW c \in F \cup {EndBlock}
    PROVE  \E q \in F \cup {Start} : q < c /\ b[q].next = c
<1> DEFINE T == {x \in F \cup {Start} : x < c}
<1>1. \A x \in F : x \in Nat /\ Start < x /\ x < EndBlock
  BY AddressFacts, PlaceFacts DEF Linked, Start
<1>2. c \in Nat /\ Start < c BY <1>1, PlaceFacts, ConstantFacts DEF Start
<1>3. T \in SUBSET (0 .. c) /\ T # {}
  <2>1. \A x \in T : x \in 0 .. c BY <1>1, <1>2 DEF Start
  <2>2. Start \in T BY <1>2
  <2> QED BY <2>1, <2>2
<1> HIDE DEF T
<1>4. PICK q \in T : \A k \in T : k <= q BY <1>2, <1>3, GreatestNatural
<1>5. q \in F \cup {Start} /\ q < c BY DEF T
<1>6. /\ b[q].next \in F \cup {EndBlock} /\ q < b[q].next
      /\ \A x \in F : x <= q \/ b[q].next <= x
  BY <1>5 DEF Linked
<1>7. q \in Nat /\ b[q].next \in Nat /\ b[q].next <= EndBlock BY <1>1, <1>5, <1>6, PlaceFacts DEF Start
<1>8. b[q].next <= c
  <2>1. CASE c \in F BY <1>2, <1>5, <1>6, <1>7, <2>1
  <2>2. CASE c = EndBlock BY <1>7, <2>2
  <2> QED BY <2>1, <2>2
<1>9. ~(b[q].next < c)
  <2>1. SUFFICES ASSUME b[q].next < c PROVE FALSE OBVIOUS
  <2>2. c <= EndBlock BY <1>1, PlaceFacts
  <2>3. b[q].next \in F BY <1>2, <1>6, <1>7, <2>1, <2>2
  <2>4. b[q].next \in T BY <2>1, <2>3 DEF T
  <2> QED BY <1>4, <1>6, <1>7, <2>4
<1> QED BY <1>2, <1>5, <1>7, <1>8, <1>9

-----------------------------------------------------------------------------
(* Walks along the free list.                                              *)

(* Iterate stops at the last header it may: all it has passed is in the    *)
(* set, and what comes next is not.                                        *)
LEMMA IterateFacts ==
    ASSUME NEW b, NEW F, Placed(b), Linked(b, F),
           NEW passed, passed \subseteq DOMAIN b, EndBlock \notin passed
    PROVE  /\ Iterate(b, passed) \in F \cup {Start}
           /\ b[Iterate(b, passed)].next \notin passed
           /\ \A c \in F : c <= Iterate(b, passed) => c \in passed
<1> DEFINE Chain == F \cup {Start}
           Stops(a) == {x \in Chain : a <= x /\ b[x].next \notin passed}
           First(a) == CHOOSE x \in Stops(a) : \A y \in Stops(a) : x <= y
           Eq(f) == f = [a \in DOMAIN b |-> IF b[a].next \in passed THEN f[b[a].next] ELSE a]
<1>1. /\ \A x \in Chain : x \in Nat /\ x < EndBlock /\ x \in DOMAIN b
      /\ \A x \in F : Start < x
  BY AddressFacts, PlaceFacts, ConstantFacts DEF Linked, Start, Blocks
<1>2. \A a \in Chain : /\ b[a].next \in F \cup {EndBlock} /\ a < b[a].next
                       /\ \A c \in F : c <= a \/ b[a].next <= c
  BY DEF Linked
<1>3. Null \notin passed BY AddressFacts
<1>4. \A a \in DOMAIN b \ Chain : b[a].next = Null BY DEF Linked, Placed, Blocks
<1>5. ASSUME NEW a \in Chain
      PROVE  /\ First(a) \in Stops(a) /\ \A y \in Stops(a) : First(a) <= y
             /\ \A x \in Stops(a) : (\A y \in Stops(a) : x <= y) => x = First(a)
  <2>1. PICK q \in Chain : q < EndBlock /\ b[q].next = EndBlock BY Predecessor
  <2>2. a <= q
    <3>1. CASE a = Start BY <1>1, <2>1, <3>1 DEF Start
    <3>2. CASE a \in F
      <4>1. a <= q \/ EndBlock <= a BY <1>2, <2>1, <3>2
      <4> QED BY <1>1, <4>1, PlaceFacts
    <3> QED BY <3>1, <3>2
  <2>3. q \in Stops(a) BY <2>1, <2>2
  <2>4. Stops(a) \in SUBSET Nat BY <1>1
  <2> HIDE DEF Stops
  <2>5. \E x \in Stops(a) : \A y \in Stops(a) : x <= y BY <2>3, <2>4, LeastNatural
  <2>6. First(a) \in Stops(a) /\ \A y \in Stops(a) : First(a) <= y BY <2>5
  <2> HIDE DEF First
  <2>7. ASSUME NEW x \in Stops(a), \A y \in Stops(a) : x <= y PROVE x = First(a)
    <3>1. x \in Nat /\ First(a) \in Nat BY <2>4, <2>6
    <3>2. x <= First(a) /\ First(a) <= x BY <2>6, <2>7
    <3> QED BY <3>1, <3>2
  <2> QED BY <2>6, <2>7
<1>6. ASSUME NEW a \in Chain, b[a].next \notin passed PROVE First(a) = a
  <2>1. a \in Stops(a) /\ \A y \in Stops(a) : a <= y BY <1>1, <1>6
  <2> QED BY <1>5, <2>1
<1>7. ASSUME NEW a \in Chain, b[a].next \in passed
      PROVE  b[a].next \in F /\ First(a) = First(b[a].next)
  <2>1. b[a].next \in F BY <1>2, <1>7
  <2>2. ASSUME NEW x \in Chain, b[x].next \notin passed PROVE a <= x <=> b[a].next <= x
    <3>1. x # a BY <1>7, <2>2
    <3>2. a \in Nat /\ x \in Nat /\ b[a].next \in Nat /\ a < b[a].next BY <1>1, <1>2, <2>1
    <3>3. CASE x = Start BY <3>1, <3>2, <3>3 DEF Start
    <3>4. CASE x \in F
      <4>1. x <= a \/ b[a].next <= x BY <1>2, <3>4
      <4> QED BY <3>1, <3>2, <4>1
    <3> QED BY <3>3, <3>4
  <2>3. Stops(a) = Stops(b[a].next) BY <2>2
  <2> QED BY <2>1, <2>3
<1> HIDE DEF First, Stops
<1>8. \E f : Eq(f)
  <2> DEFINE f0 == [a \in DOMAIN b |-> IF a \in Chain THEN First(a) ELSE a]
  <2>1. ASSUME NEW a \in DOMAIN b
        PROVE  f0[a] = IF b[a].next \in passed THEN f0[b[a].next] ELSE a
    <3>1. CASE a \notin Chain BY <1>3, <1>4, <3>1
    <3>2. CASE a \in Chain /\ b[a].next \notin passed BY <1>6, <3>2
    <3>3. CASE a \in Chain /\ b[a].next \in passed
      <4>1. b[a].next \in F /\ First(a) = First(b[a].next) BY <1>7, <3>3
      <4>2. b[a].next \in DOMAIN b /\ b[a].next \in Chain BY <1>1, <4>1
      <4> QED BY <3>3, <4>1, <4>2
    <3> QED BY <3>1, <3>2, <3>3
  <2>2. f0 = [a \in DOMAIN b |-> IF b[a].next \in passed THEN f0[b[a].next] ELSE a] BY <2>1
  <2> QED BY <2>2
<1> DEFINE from == CHOOSE f : Eq(f)
<1>9. Eq(from) /\ Iterate(b, passed) = from[Start] BY <1>8 DEF Iterate
<1> HIDE DEF from
<1>10. \A a \in DOMAIN b : from[a] = IF b[a].next \in passed THEN from[b[a].next] ELSE a
  BY <1>9
<1>11. \A a \in Chain : from[a] = First(a)
  <2> DEFINE Bad == {a \in Chain : from[a] # First(a)}
  <2>1. SUFFICES ASSUME Bad # {} PROVE FALSE OBVIOUS
  <2>2. Bad \in SUBSET (0 .. EndBlock) /\ EndBlock \in Nat BY <1>1, PlaceFacts
  <2> HIDE DEF Bad
  <2>3. PICK g \in Bad : \A k \in Bad : k <= g BY <2>1, <2>2, GreatestNatural
  <2>4. g \in Chain /\ from[g] # First(g) BY DEF Bad
  <2>5. g \in DOMAIN b BY <1>1, <2>4
  <2>6. b[g].next \in passed BY <1>6, <1>10, <2>4, <2>5
  <2>7. b[g].next \in F /\ First(g) = First(b[g].next) BY <1>7, <2>4, <2>6
  <2>8. g < b[g].next /\ g \in Nat /\ b[g].next \in Nat BY <1>1, <1>2, <2>4, <2>7
  <2>9. b[g].next \notin Bad BY <2>3, <2>8
  <2>10. from[b[g].next] = First(b[g].next) BY <2>7, <2>9 DEF Bad
  <2> QED BY <1>10, <2>4, <2>5, <2>6, <2>7, <2>10
<1> DEFINE p == Iterate(b, passed)
<1>12. p \in Stops(Start) /\ \A y \in Stops(Start) : p <= y BY <1>5, <1>9, <1>11
<1> HIDE DEF p
<1>13. ASSUME NEW c \in F, c <= p PROVE c \in passed
  <2>1. PICK q \in Chain : q < c /\ b[q].next = c BY Predecessor
  <2>2. p \in Nat /\ q \in Nat /\ c \in Nat BY <1>1, <1>12 DEF Stops
  <2>3. q \notin Stops(Start) BY <1>12, <1>13, <2>1, <2>2
  <2> QED BY <2>1, <2>2, <2>3 DEF Stops, Start
<1> QED BY <1>12, <1>13 DEF Stops, p

(* The walk of vPortGetHeapStats meets the free blocks, all of them.       *)
LEMMA StatsFacts ==
    ASSUME NEW b, NEW F, Placed(b), Tiled(b), Linked(b, F)
    PROVE  /\ vPortGetHeapStats(b).blocks = F
           /\ vPortGetHeapStats(b).largest = 0
              \/ \E a \in F : vPortGetHeapStats(b).largest = b[a].size
<1> DEFINE Chain == F \cup {Start}
           Rest(a) == IF a \in Chain THEN {x \in Chain : a <= x} ELSE {}
           Eq(f) == f = [a \in DOMAIN b |-> IF b[a].next = Null THEN {}
                                            ELSE {a} \cup f[b[a].next]]
<1>1. /\ \A x \in Chain : x \in Nat /\ x < EndBlock /\ x \in DOMAIN b
      /\ \A x \in F : Start < x
      /\ EndBlock \notin Chain /\ EndBlock \in Nat
  BY AddressFacts, PlaceFacts, ConstantFacts DEF Linked, Start, Blocks
<1>2. \A a \in Chain : /\ b[a].next \in F \cup {EndBlock} /\ a < b[a].next
                       /\ \A c \in F : c <= a \/ b[a].next <= c
  BY DEF Linked
<1>3. \A a \in DOMAIN b \ Chain : b[a].next = Null BY DEF Linked, Placed, Blocks
<1>4. ASSUME NEW a \in Chain
      PROVE  b[a].next # Null /\ b[a].next \in DOMAIN b /\ Rest(a) = {a} \cup Rest(b[a].next)
  <2> DEFINE n == b[a].next
  <2>1. n \in F \cup {EndBlock} /\ a < n /\ a \in Nat /\ n \in Nat BY <1>1, <1>2
  <2>2. n # Null /\ n \in DOMAIN b BY <1>1, <2>1, AddressFacts DEF Null
  <2>3. \A c \in F : c <= a \/ n <= c BY <1>2
  <2> HIDE DEF n
  <2>4. ASSUME NEW x \in Chain PROVE a <= x <=> x = a \/ n <= x
    <3>1. x \in Nat BY <1>1
    <3>2. CASE x = Start BY <2>1, <3>1, <3>2 DEF Start
    <3>3. CASE x \in F
      <4>1. x <= a \/ n <= x BY <2>3, <3>3
      <4> QED BY <2>1, <3>1, <4>1
    <3> QED BY <3>2, <3>3
  <2>5. Rest(a) = {a} \cup Rest(n)
    <3>1. CASE n \in F
      <4>1. Rest(n) = {x \in Chain : n <= x} /\ Rest(a) = {x \in Chain : a <= x} BY <3>1
      <4> HIDE DEF Rest
      <4> QED BY <2>4, <4>1
    <3>2. CASE n = EndBlock
      <4>1. \A x \in Chain : ~(n <= x) BY <1>1, <3>2
      <4>2. Rest(n) = {} BY <1>1, <3>2
      <4>3. Rest(a) = {x \in Chain : a <= x} OBVIOUS
      <4> HIDE DEF Rest
      <4> QED BY <2>4, <4>1, <4>2, <4>3
    <3> QED BY <2>1, <3>1, <3>2
  <2> QED BY <2>2, <2>5 DEF n
<1> HIDE DEF Rest
<1>5. \E f : Eq(f)
  <2> DEFINE f0 == [a \in DOMAIN b |-> Rest(a)]
  <2>1. ASSUME NEW a \in DOMAIN b
        PROVE  f0[a] = IF b[a].next = Null THEN {} ELSE {a} \cup f0[b[a].next]
    <3>1. CASE a \notin Chain BY <1>3, <3>1 DEF Rest
    <3>2. CASE a \in Chain BY <1>4, <3>2
    <3> QED BY <3>1, <3>2
  <2>2. f0 = [a \in DOMAIN b |-> IF b[a].next = Null THEN {} ELSE {a} \cup f0[b[a].next]]
    BY <2>1
  <2> QED BY <2>2
<1> DEFINE walk == CHOOSE f : Eq(f)
           found == walk[b[Start].next]
           sizes == {b[a].size : a \in found}
<1>6. Eq(walk) BY <1>5
<1>7. vPortGetHeapStats(b) = [blocks |-> found, largest |-> IF sizes = {} THEN 0 ELSE Max(sizes)]
  BY DEF vPortGetHeapStats
<1> HIDE DEF walk
<1>8. \A a \in DOMAIN b : walk[a] = IF b[a].next = Null THEN {} ELSE {a} \cup walk[b[a].next]
  BY <1>6
<1>9. \A a \in DOMAIN b : walk[a] = Rest(a)
  <2> DEFINE Bad == {a \in DOMAIN b : walk[a] # Rest(a)}
  <2>1. SUFFICES ASSUME Bad # {} PROVE FALSE OBVIOUS
  <2>2. Bad \in SUBSET (0 .. EndBlock) BY AddressFacts
  <2> HIDE DEF Bad
  <2>3. PICK g \in Bad : \A k \in Bad : k <= g BY <1>1, <2>1, <2>2, GreatestNatural
  <2>4. g \in DOMAIN b /\ walk[g] # Rest(g) BY DEF Bad
  <2>5. g \in Chain BY <1>3, <1>8, <2>4 DEF Rest
  <2>6. b[g].next # Null /\ b[g].next \in DOMAIN b /\ Rest(g) = {g} \cup Rest(b[g].next)
    BY <1>4, <2>5
  <2>7. g < b[g].next /\ g \in Nat /\ b[g].next \in Nat BY <1>1, <1>2, <2>5
  <2>8. b[g].next \notin Bad BY <2>3, <2>7
  <2>9. walk[b[g].next] = Rest(b[g].next) BY <2>6, <2>8 DEF Bad
  <2> QED BY <1>8, <2>4, <2>6, <2>9
<1>10. found = F
  <2>1. Start \in Chain /\ Start \notin F BY <1>1 DEF Start
  <2>2. Rest(Start) = {Start} \cup found /\ b[Start].next \in DOMAIN b BY <1>4, <1>9, <2>1
  <2>3. Rest(Start) = Chain BY <1>1, <2>1 DEF Rest, Start
  <2>4. Start \notin found
    <3>1. found = Rest(b[Start].next) BY <1>9, <2>2
    <3>2. Start < b[Start].next /\ b[Start].next \in Nat BY <1>1, <1>2, <2>1
    <3> QED BY <3>1, <3>2 DEF Rest, Start
  <2> QED BY <2>1, <2>2, <2>3, <2>4
<1> HIDE DEF found
<1>11. CASE F = {} BY <1>7, <1>10, <1>11
<1>12. CASE F # {}
  <2>1. \E m \in sizes : \A k \in sizes : m >= k
    <3>1. \A a \in F : b[a].size \in 0 .. EndBlock BY <1>1, AddressFacts DEF Tiled, Linked
    <3>2. sizes \in SUBSET (0 .. EndBlock) /\ sizes # {} BY <1>10, <1>12, <3>1
    <3> HIDE DEF sizes
    <3>3. PICK m \in sizes : \A k \in sizes : k <= m BY <1>1, <3>2, GreatestNatural
    <3>4. \A k \in sizes : m >= k BY <3>2, <3>3
    <3> QED BY <3>4
  <2>2. Max(sizes) \in sizes BY <2>1 DEF Max
  <2> QED BY <1>7, <1>10, <2>2
<1> QED BY <1>7, <1>10, <1>11, <1>12

-----------------------------------------------------------------------------
(* Taking a block off the free list.                                       *)

Span(b, a)  == a .. a + b[a].size - 1
Bytes(b, S) == UNION {Span(b, a) : a \in S}

(* The bytes of a block.                                                   *)
LEMMA SpanFacts ==
    ASSUME NEW b, Placed(b), NEW a \in DOMAIN b, NEW z
    PROVE  z \in Span(b, a) <=> z \in Int /\ a <= z /\ z < a + b[a].size
<1>1. a \in Nat /\ b[a].size \in Nat BY AddressFacts
<1> QED BY <1>1 DEF Span

(* Two intervals that meet make one.                                       *)
LEMMA IntervalFacts ==
    ASSUME NEW l \in Nat, NEW m \in Nat, NEW h \in Nat, l <= m, m <= h
    PROVE  /\ (l .. m - 1) \cup (m .. h - 1) = l .. h - 1
           /\ (l .. m - 1) \cap (m .. h - 1) = {}
<1>1. ASSUME NEW z PROVE z \in l .. h - 1 <=> z \in l .. m - 1 \/ z \in m .. h - 1 OBVIOUS
<1>2. ASSUME NEW z, z \in l .. m - 1, z \in m .. h - 1 PROVE FALSE BY <1>2
<1> QED BY <1>1, <1>2

(* No two headers of the list have the same next, no two blocks end at the *)
(* same address.                                                           *)
LEMMA SoundFacts ==
    ASSUME NEW b, NEW F, Sound(b, F)
    PROVE  /\ \A a \in F : a \in Blocks(b) /\ a \in DOMAIN b /\ ~b[a].used
           /\ \A a, c \in F \cup {Start} : b[a].next = b[c].next => a = c
           /\ \A a, c \in Blocks(b) : a + b[a].size = c + b[c].size => a = c
           /\ \A a \in Blocks(b) : a + b[a].size \in Nat /\ a + b[a].size <= EndBlock /\ a # Start
<1>1. Placed(b) /\ Tiled(b) /\ Linked(b, F) BY DEF Sound
<1>2. \A a \in F : a \in Blocks(b) /\ a \in DOMAIN b /\ ~b[a].used BY <1>1 DEF Linked, Blocks
<1>3. /\ \A a \in Blocks(b) : a \in Nat /\ a > 0 /\ a < EndBlock /\ a \in DOMAIN b
      /\ \A a \in DOMAIN b : b[a].size \in Nat /\ b[a].next \in Int /\ a \in Nat /\ a <= EndBlock
  BY <1>1, AddressFacts, PlaceFacts, ConstantFacts DEF Blocks
<1>4. ASSUME NEW a \in F \cup {Start}, NEW c \in F \cup {Start}, b[a].next = b[c].next, a < c
      PROVE  FALSE
  <2>1. a \in Nat /\ c \in Nat BY <1>2, <1>3 DEF Start
  <2>2. c \in F
    <3>1. c # Start BY <1>4, <2>1 DEF Start
    <3> QED BY <3>1
  <2>3. c <= a \/ b[a].next <= c BY <1>1, <2>2 DEF Linked
  <2>4. c < b[c].next BY <1>1 DEF Linked
  <2>5. b[c].next \in Int BY <1>2, <1>3, <2>2
  <2> QED BY <1>4, <2>1, <2>3, <2>4, <2>5
<1>5. \A a \in F \cup {Start} : a \in Nat BY <1>2, <1>3 DEF Start
<1>6. \A a, c \in F \cup {Start} : b[a].next = b[c].next => a = c
  <2> SUFFICES ASSUME NEW a \in F \cup {Start}, NEW c \in F \cup {Start}, b[a].next = b[c].next
               PROVE  a = c
    OBVIOUS
  <2>1. a \in Nat /\ c \in Nat BY <1>5
  <2> QED BY <1>4, <2>1
<1>7. ASSUME NEW a \in Blocks(b), NEW c \in Blocks(b), a + b[a].size = c + b[c].size, a < c
      PROVE  FALSE
  <2>1. a + b[a].size <= c BY <1>1, <1>7 DEF Tiled
  <2>2. b[c].size > 0 BY <1>1, ConstantFacts, <1>3 DEF Tiled
  <2>3. a \in Nat /\ c \in Nat /\ b[a].size \in Nat /\ b[c].size \in Nat BY <1>3
  <2> QED BY <1>7, <2>1, <2>2, <2>3
<1>8. \A a, c \in Blocks(b) : a + b[a].size = c + b[c].size => a = c
  <2> SUFFICES ASSUME NEW a \in Blocks(b), NEW c \in Blocks(b), a + b[a].size = c + b[c].size
               PROVE  a = c
    OBVIOUS
  <2>1. a \in Nat /\ c \in Nat BY <1>3
  <2> QED BY <1>7, <2>1
<1>9. \A a \in Blocks(b) : a + b[a].size \in Nat /\ a + b[a].size <= EndBlock /\ a # Start
  BY <1>1, <1>3 DEF Tiled, Start
<1> QED BY <1>2, <1>6, <1>8, <1>9

(* The same of a heap in which no two free blocks touch.                   *)
LEMMA ShapeFacts ==
    ASSUME NEW b, NEW F, Shape(b, F)
    PROVE  /\ \A a \in F : a \in Blocks(b) /\ a \in DOMAIN b /\ ~b[a].used
           /\ \A a, c \in F \cup {Start} : b[a].next = b[c].next => a = c
           /\ \A a, c \in Blocks(b) : a + b[a].size = c + b[c].size => a = c
           /\ \A a \in Blocks(b) : a + b[a].size \in Nat /\ a + b[a].size <= EndBlock /\ a # Start
<1>1. Sound(b, F) BY DEF Shape, Sound
<1> QED BY <1>1, SoundFacts

(* b1 is b with x, behind p on the list, taken whole.                      *)
WholeTaken(b, F, b1, G, p, x) ==
    /\ G = F \ {x}
    /\ p \in F \cup {Start} /\ x \in F /\ b[p].next = x
    /\ DOMAIN b1 = DOMAIN b
    /\ b1[x] = [size |-> b[x].size, next |-> Null, used |-> TRUE]
    /\ b1[p] = [size |-> b[p].size, next |-> b[x].next, used |-> b[p].used]
    /\ \A a \in DOMAIN b \ {x, p} : b1[a] = b[a]

(* b1 is b with need bytes of x taken and a block made of the rest.        *)
FrontTaken(b, F, b1, G, p, x, need, rest) ==
    /\ G = (F \ {x}) \cup {rest}
    /\ p \in F \cup {Start} /\ x \in F /\ b[p].next = x /\ rest = x + need
    /\ need \in Nat /\ need % Alignment = 0 /\ need >= StructSize + Alignment
    /\ b[x].size - need > heapMINIMUM_BLOCK_SIZE
    /\ DOMAIN b1 = DOMAIN b \cup {rest}
    /\ b1[x] = [size |-> need, next |-> Null, used |-> TRUE]
    /\ b1[p] = [size |-> b[p].size, next |-> rest, used |-> b[p].used]
    /\ rest \notin {x, p} =>
          b1[rest] = [size |-> b[x].size - need, next |-> b[x].next, used |-> FALSE]
    /\ \A a \in DOMAIN b \ {x, p, rest} : b1[a] = b[a]

(* The first fit is taken whole.                                           *)
LEMMA CarveWhole ==
    ASSUME NEW b, NEW F, NEW b1, NEW G, NEW p, NEW x, Shape(b, F),
           WholeTaken(b, F, b1, G, p, x)
    PROVE  Shape(b1, G) /\ Bytes(b1, G) = Bytes(b, F) \ Span(b1, x)
<1> USE DEF WholeTaken
<1>1. Placed(b) /\ Tiled(b) /\ Linked(b, F) /\ Apart(b, F) BY DEF Shape
<1>2. /\ \A a \in Blocks(b) : a \in Nat /\ a > 0 /\ a < EndBlock /\ a \in DOMAIN b
      /\ \A a \in DOMAIN b : b[a].size \in Nat /\ b[a].next \in Int /\ a \in Nat
      /\ Start \in DOMAIN b /\ EndBlock \in DOMAIN b /\ Start # EndBlock
  BY <1>1, AddressFacts, PlaceFacts, ConstantFacts DEF Blocks, Start
<1>3. \A a \in F : a \in Blocks(b) /\ a \in DOMAIN b /\ ~b[a].used BY ShapeFacts
<1>4. p \in DOMAIN b /\ x \in DOMAIN b /\ p < x /\ p # x /\ p # EndBlock /\ x # EndBlock /\ x # Start
  BY <1>1, <1>2, <1>3 DEF Linked, Blocks
<1>5. /\ \A a \in DOMAIN b : b1[a].size = b[a].size
      /\ \A a \in DOMAIN b \ {x} : b1[a].used = b[a].used
      /\ \A a \in DOMAIN b \ {x, p} : b1[a].next = b[a].next
      /\ b1[x].next = Null /\ b1[x].used /\ b1[p].next = b[x].next
  <2>1. b[p] \in Header BY <1>1, <1>4 DEF Placed
  <2> QED BY <1>4, <2>1 DEF Header
<1>6. Blocks(b1) = Blocks(b) BY DEF Blocks
<1>7. b[x].next \in G \cup {EndBlock} /\ x < b[x].next /\ \A c \in G : c < x \/ b[x].next <= c
  BY <1>1, <1>2, <1>3 DEF Linked
<1>8. Placed(b1)
  <2>1. ASSUME NEW a \in DOMAIN b1 PROVE b1[a] \in Header
    <3>1. b[a] \in Header /\ b[x] \in Header /\ b[p] \in Header BY <1>1, <1>4 DEF Placed
    <3>2. CASE a = x
      <4>1. b[x].size \in Nat BY <1>2, <1>4
      <4>2. [size |-> b[x].size, next |-> Null, used |-> TRUE] \in Header BY <4>1 DEF Header, Null
      <4> QED BY <3>2, <4>2
    <3>3. CASE a = p BY <3>1, <3>3 DEF Header
    <3>4. CASE a \notin {x, p} BY <3>1, <3>4
    <3> QED BY <3>2, <3>3, <3>4
  <2> QED BY <1>1, <1>2, <1>4, <1>5, <2>1 DEF Placed
<1>9. Tiled(b1) BY <1>1, <1>2, <1>5, <1>6 DEF Tiled
<1>10. Linked(b1, G)
  <2>1. G \subseteq {a \in Blocks(b1) : ~b1[a].used} BY <1>3, <1>5, <1>6
  <2>2. ASSUME NEW a \in Blocks(b1) \ G PROVE b1[a].next = Null
    <3>1. CASE a = x BY <1>5, <3>1
    <3>2. CASE a # x
      <4>1. a \in Blocks(b) \ F /\ a # p /\ a \in DOMAIN b
        BY <1>2, <1>6, <3>2 DEF Blocks
      <4> QED BY <1>1, <1>5, <3>2, <4>1 DEF Linked
    <3> QED BY <3>1, <3>2
  <2>3. ASSUME NEW a \in G \cup {Start}
        PROVE  /\ b1[a].next \in G \cup {EndBlock} /\ a < b1[a].next
               /\ \A c \in G : c <= a \/ b1[a].next <= c
    <3>0. a \in DOMAIN b /\ a # x BY <1>2, <1>3, <1>4
    <3>1. CASE a = p
      <4>1. b1[a].next = b[x].next BY <1>5, <3>1
      <4>2. a < b[x].next BY <1>2, <1>4, <1>7, <3>1
      <4>3. \A c \in F : c <= a \/ x <= c BY <1>1, <3>1 DEF Linked
      <4>4. \A c \in G : c \in Nat BY <1>2, <1>3
      <4>5. x \in Nat BY <1>2, <1>4
      <4> QED BY <1>7, <4>1, <4>2, <4>3, <4>4, <4>5
    <3>2. CASE a # p
      <4>1. b1[a].next = b[a].next BY <1>5, <3>0, <3>2
      <4>2. b[a].next # x BY <3>2, ShapeFacts
      <4>3. /\ b[a].next \in F \cup {EndBlock} /\ a < b[a].next
            /\ \A c \in F : c <= a \/ b[a].next <= c
        BY <1>1 DEF Linked
      <4> QED BY <4>1, <4>2, <4>3
    <3> QED BY <3>1, <3>2
  <2> QED BY <2>1, <2>2, <2>3 DEF Linked
<1>11. Apart(b1, G) BY <1>1, <1>3, <1>5 DEF Apart
<1>12. Bytes(b1, G) = Bytes(b, F) \ Span(b1, x)
  <2>1. \A a \in DOMAIN b : Span(b1, a) = Span(b, a) BY <1>5 DEF Span
  <2>2. ASSUME NEW a \in G, NEW z, z \in Span(b, a), z \in Span(b, x) PROVE FALSE
    <3>1. z \in Int /\ a <= z /\ z < a + b[a].size /\ x <= z /\ z < x + b[x].size
      BY <1>1, <1>3, <1>4, <2>2, SpanFacts
    <3>2. a \in Blocks(b) /\ x \in Blocks(b) /\ a # x BY <1>3
    <3>3. a < x \/ x < a BY <1>2, <3>2
    <3>4. a + b[a].size <= x \/ x + b[x].size <= a BY <1>1, <3>2, <3>3 DEF Tiled
    <3>5. a \in Nat /\ x \in Nat /\ b[a].size \in Nat /\ b[x].size \in Nat BY <1>2, <3>2
    <3> QED BY <3>1, <3>4, <3>5
  <2>3. Bytes(b1, G) = Bytes(b, G) BY <1>3, <2>1 DEF Bytes
  <2>4. Bytes(b, F) = Bytes(b, G) \cup Span(b, x) BY DEF Bytes
  <2>5. Bytes(b, G) \cap Span(b, x) = {} BY <2>2 DEF Bytes
  <2> QED BY <1>4, <2>1, <2>3, <2>4, <2>5
<1> QED BY <1>8, <1>9, <1>10, <1>11, <1>12 DEF Shape

(* Of the first fit the front is taken, and the rest stays on the list.    *)
LEMMA CarveSplit ==
    ASSUME NEW b, NEW F, NEW b1, NEW G, NEW p, NEW x, NEW need, NEW rest, Shape(b, F),
           FrontTaken(b, F, b1, G, p, x, need, rest)
    PROVE  /\ rest \notin DOMAIN b /\ ~b1[rest].used
           /\ Shape(b1, G)
           /\ Bytes(b1, G) = Bytes(b, F) \ Span(b1, x)
           /\ Span(b1, x) \subseteq Span(b, x)
<1> DEFINE s == b[x].size
<1> USE DEF FrontTaken
<1>1. Placed(b) /\ Tiled(b) /\ Linked(b, F) /\ Apart(b, F) BY DEF Shape
<1>2. /\ \A a \in Blocks(b) : a \in Nat /\ a > 0 /\ FirstBlock <= a /\ a < EndBlock /\ a \in DOMAIN b
      /\ \A a \in DOMAIN b : b[a].size \in Nat /\ b[a].next \in Int /\ a \in Nat
      /\ Start \in DOMAIN b /\ EndBlock \in DOMAIN b /\ Start # EndBlock
  BY <1>1, AddressFacts, PlaceFacts, ConstantFacts DEF Blocks, Start
<1>3. \A a \in F : a \in Blocks(b) /\ a \in DOMAIN b /\ ~b[a].used BY ShapeFacts
<1>4. p \in DOMAIN b /\ x \in DOMAIN b /\ p < x /\ p # x /\ p # EndBlock /\ x # EndBlock /\ x # Start
      /\ x \in Blocks(b)
  BY <1>1, <1>2, <1>3 DEF Linked, Blocks
<1>5. need > 0 /\ s \in Nat /\ s - need > 2 * StructSize /\ x \in Nat /\ rest \in Nat
      /\ x < rest /\ rest < x + s
  BY <1>2, <1>4, ConstantFacts DEF heapMINIMUM_BLOCK_SIZE
<1>6. /\ x + s \in Blocks(b) \cup {EndBlock} /\ x + s <= EndBlock
      /\ \A c \in Blocks(b) : c <= x \/ x + s <= c
      /\ \A c \in Blocks(b) : c < x => c + b[c].size <= x
      /\ x % Alignment = 0 /\ s % Alignment = 0
  <2>1. x + s \in DOMAIN b /\ x + s # Start BY <1>1, <1>4, <1>5 DEF Tiled, Start
  <2>2. x + s <= EndBlock BY <1>4, ShapeFacts
  <2>3. \A c \in Blocks(b) : c <= x \/ x + s <= c
    <3>1. \A c \in Blocks(b) : x < c => x + s <= c BY <1>1, <1>4 DEF Tiled
    <3> QED BY <1>2, <1>5, <3>1
  <2> QED BY <1>1, <1>4, <2>1, <2>2, <2>3 DEF Tiled, Blocks
<1>7. rest \notin DOMAIN b /\ rest \notin {x, p} /\ rest < EndBlock /\ FirstBlock < rest
  <2>1. rest < EndBlock
    <3>1. EndBlock \in Nat BY PlaceFacts
    <3> QED BY <1>5, <1>6, <3>1
  <2>2. rest \notin Blocks(b) BY <1>5, <1>6
  <2>3. FirstBlock < rest
    <3>1. FirstBlock <= x /\ FirstBlock \in Nat BY <1>2, <1>4, PlaceFacts
    <3> QED BY <1>5, <3>1
  <2>4. rest # Start /\ rest # EndBlock BY <1>5, <2>1, PlaceFacts DEF Start
  <2>5. rest \notin DOMAIN b BY <2>2, <2>4 DEF Blocks
  <2> QED BY <1>4, <2>1, <2>3, <2>5
<1>8. /\ \A a \in DOMAIN b \ {x} : b1[a].size = b[a].size /\ b1[a].used = b[a].used
      /\ \A a \in DOMAIN b \ {x, p} : b1[a].next = b[a].next
      /\ b1[x].size = need /\ b1[x].next = Null /\ b1[x].used /\ b1[p].next = rest
      /\ b1[rest].size = s - need /\ b1[rest].next = b[x].next /\ ~b1[rest].used
  <2>1. b[p] \in Header BY <1>1, <1>4 DEF Placed
  <2> QED BY <1>4, <1>7, <2>1 DEF Header
<1>9. Blocks(b1) = Blocks(b) \cup {rest}
  <2>1. rest # Start /\ rest # EndBlock BY <1>5, <1>7, PlaceFacts DEF Start
  <2> QED BY <2>1 DEF Blocks
<1>10. b[x].next \in F \cup {EndBlock} /\ b[x].next # x /\ b[x].next \in Nat /\ x + s <= b[x].next
       /\ \A c \in F : c <= x \/ b[x].next <= c
  <2>1. b[x].next \in F \cup {EndBlock} /\ x < b[x].next /\ \A c \in F : c <= x \/ b[x].next <= c
    BY <1>1 DEF Linked
  <2>2. b[x].next \in Nat BY <1>2, <1>3, <2>1
  <2>3. x + s <= b[x].next
    <3>1. CASE b[x].next \in F
      <4>1. b[x].next \in Blocks(b) BY <1>3, <3>1
      <4>2. b[x].next <= x \/ x + s <= b[x].next BY <1>6, <4>1
      <4> QED BY <1>5, <2>1, <2>2, <4>2
    <3>2. CASE b[x].next = EndBlock BY <1>6, <3>2
    <3> QED BY <2>1, <3>1, <3>2
  <2> QED BY <1>5, <2>1, <2>2, <2>3
<1>11. Placed(b1)
  <2>1. ASSUME NEW a \in DOMAIN b1 PROVE b1[a] \in Header
    <3>1. b[x] \in Header /\ b[p] \in Header BY <1>1, <1>4 DEF Placed
    <3>2. CASE a = x
      <4>1. [size |-> need, next |-> Null, used |-> TRUE] \in Header BY DEF Header, Null
      <4> QED BY <3>2, <4>1
    <3>3. CASE a = p BY <1>5, <3>1, <3>3 DEF Header
    <3>4. CASE a = rest
      <4>1. s - need \in Nat /\ b[x].next \in Int BY <1>5, <1>10, ConstantFacts
      <4>2. [size |-> s - need, next |-> b[x].next, used |-> FALSE] \in Header BY <4>1 DEF Header
      <4> QED BY <1>7, <3>4, <4>2
    <3>5. CASE a \notin {x, p, rest} BY <1>1, <3>5 DEF Placed
    <3> QED BY <3>2, <3>3, <3>4, <3>5
  <2>2. DOMAIN b1 \subseteq {Start} \cup FirstBlock .. EndBlock
    <3>1. rest \in FirstBlock .. EndBlock BY <1>5, <1>7, PlaceFacts
    <3> QED BY <1>1, <3>1 DEF Placed
  <2>3. {Start, FirstBlock, EndBlock} \subseteq DOMAIN b1 BY <1>1 DEF Placed
  <2>4. \A a \in {Start, EndBlock} : b1[a].size = 0 /\ ~b1[a].used BY <1>1, <1>2, <1>4, <1>8 DEF Placed
  <2>5. b1[EndBlock].next = Null BY <1>1, <1>2, <1>4, <1>8 DEF Placed
  <2> QED BY <2>1, <2>2, <2>3, <2>4, <2>5 DEF Placed
<1>12. Tiled(b1)
  <2> SUFFICES ASSUME NEW a \in Blocks(b1)
               PROVE  /\ a % Alignment = 0 /\ b1[a].size % Alignment = 0
                      /\ b1[a].size >= StructSize + Alignment
                      /\ a + b1[a].size \in DOMAIN b1
                      /\ \A c \in Blocks(b1) : a < c => a + b1[a].size <= c
    BY DEF Tiled
  <2>1. CASE a = x
    <3>1. \A c \in Blocks(b1) : a < c => rest <= c
      <4>1. \A c \in Blocks(b) : c <= x \/ x + s <= c BY <1>6
      <4>2. \A c \in Blocks(b) : c \in Nat BY <1>2
      <4> QED BY <1>5, <1>9, <2>1, <4>1, <4>2
    <3> QED BY <1>6, <1>8, <2>1, <3>1
  <2>2. CASE a = rest
    <3>1. a % Alignment = 0 /\ (s - need) % Alignment = 0
      <4> HIDE DEF s
      <4>1. s \in Int /\ s % Alignment = 0 /\ need \in Int /\ need % Alignment = 0 BY <1>5, <1>6
      <4>2. x \in Int /\ x % Alignment = 0 BY <1>5, <1>6
      <4>3. (s - need) % Alignment = 0 BY <4>1, AlignedFacts
      <4>4. (x + need) % Alignment = 0 BY <4>1, <4>2, AlignedFacts
      <4> QED BY <2>2, <4>3, <4>4
    <3>2. s - need >= StructSize + Alignment
      <4> DEFINE d == s - need
                 m == StructSize + StructSize
      <4>1. d \in Int /\ m \in Int /\ d % Alignment = 0 /\ m < d BY <1>5, <3>1, ConstantFacts
      <4>2. m % Alignment = 0
        <5>1. StructSize \in Int /\ StructSize % Alignment = 0 BY ConstantFacts
        <5> QED BY <5>1, AlignedFacts
      <4>3. d \in Int /\ m \in Int BY <4>1
      <4> HIDE DEF d, m
      <4>4. m + Alignment <= d BY <4>1, <4>2, AlignedFacts
      <4> QED BY <4>3, <4>4, ConstantFacts DEF d, m
    <3>3. a + b1[a].size = x + s BY <1>5, <1>8, <2>2
    <3>4. x + s \in DOMAIN b1 BY <1>2, <1>6
    <3>5. \A c \in Blocks(b1) : a < c => x + s <= c
      <4>1. \A c \in Blocks(b) : c <= x \/ x + s <= c BY <1>6
      <4>2. \A c \in Blocks(b) : c \in Nat BY <1>2
      <4> QED BY <1>5, <1>9, <2>2, <4>1, <4>2
    <3> QED BY <1>8, <2>2, <3>1, <3>2, <3>3, <3>4, <3>5
  <2>3. CASE a \notin {x, rest}
    <3>1. a \in Blocks(b) /\ b1[a].size = b[a].size /\ a \in DOMAIN b BY <1>2, <1>8, <1>9, <2>3
    <3>2. /\ a % Alignment = 0 /\ b[a].size % Alignment = 0 /\ b[a].size >= StructSize + Alignment
          /\ a + b[a].size \in DOMAIN b
          /\ \A c \in Blocks(b) : a < c => a + b[a].size <= c
      BY <1>1, <3>1 DEF Tiled
    <3>3. ASSUME a < rest PROVE a + b[a].size <= rest
      <4>1. a <= x \/ x + s <= a BY <1>6, <3>1
      <4>2. a \in Nat /\ b[a].size \in Nat BY <1>2, <3>1
      <4>3. a < x BY <1>5, <2>3, <3>3, <4>1, <4>2
      <4>4. a + b[a].size <= x BY <1>6, <3>1, <4>3
      <4> QED BY <1>5, <4>2, <4>4
    <3> QED BY <1>9, <3>1, <3>2, <3>3
  <2> QED BY <2>1, <2>2, <2>3
<1>13. Linked(b1, G)
  <2>1. G \subseteq {a \in Blocks(b1) : ~b1[a].used} BY <1>3, <1>8, <1>9
  <2>2. ASSUME NEW a \in Blocks(b1) \ G PROVE b1[a].next = Null
    <3>1. CASE a = x BY <1>8, <3>1
    <3>2. CASE a # x
      <4>1. a \in Blocks(b) \ F /\ a # p /\ a \in DOMAIN b
        BY <1>2, <1>9, <3>2 DEF Blocks
      <4> QED BY <1>1, <1>8, <3>2, <4>1 DEF Linked
    <3> QED BY <3>1, <3>2
  <2>3. ASSUME NEW a \in G \cup {Start}
        PROVE  /\ b1[a].next \in G \cup {EndBlock} /\ a < b1[a].next
               /\ \A c \in G : c <= a \/ b1[a].next <= c
    <3>0. /\ a = rest \/ (a \in F \cup {Start} /\ a \in DOMAIN b /\ a # x /\ a # rest)
          /\ a \in Nat /\ \A c \in F : c \in Nat
      BY <1>2, <1>3, <1>4, <1>5, <1>7
    <3>1. CASE a = rest
      <4>1. b1[a].next = b[x].next BY <1>8, <3>1
      <4>2. a < b[x].next BY <1>5, <1>10, <3>1
      <4>3. b[x].next \in G \cup {EndBlock} BY <1>10
      <4>4. ASSUME NEW c \in G PROVE c <= a \/ b[x].next <= c
        <5>1. CASE c = rest BY <1>5, <3>1, <5>1
        <5>2. CASE c \in F
          <6>1. c <= x \/ b[x].next <= c BY <1>10, <5>2
          <6> QED BY <1>5, <3>0, <3>1, <5>2, <6>1
        <5> QED BY <5>1, <5>2
      <4> QED BY <4>1, <4>2, <4>3, <4>4
    <3>2. CASE a = p
      <4>1. b1[a].next = rest BY <1>8, <3>2
      <4>2. a < rest BY <1>4, <1>5, <3>0, <3>2
      <4>3. ASSUME NEW c \in F, c # x PROVE c <= a \/ rest <= c
        <5>1. c <= a \/ x <= c BY <1>1, <3>2 DEF Linked
        <5>2. c <= x \/ x + s <= c BY <1>3, <1>6
        <5>3. c \in Nat BY <3>0
        <5> QED BY <1>5, <3>0, <4>3, <5>1, <5>2, <5>3
      <4>4. \A c \in G : c <= a \/ rest <= c BY <1>5, <4>3
      <4> QED BY <4>1, <4>2, <4>4
    <3>3. CASE a \notin {p, rest}
      <4>0. a \in F \cup {Start} /\ a \in DOMAIN b /\ a # x BY <3>0, <3>3
      <4>1. b1[a].next = b[a].next BY <1>8, <3>3, <4>0
      <4>2. b[a].next # x BY <3>3, <4>0, ShapeFacts
      <4>3. /\ b[a].next \in F \cup {EndBlock} /\ a < b[a].next
            /\ \A c \in F : c <= a \/ b[a].next <= c
        BY <1>1, <4>0 DEF Linked
      <4>4. rest <= a \/ b[a].next <= rest
        <5>1. x <= a \/ b[a].next <= x BY <4>3
        <5>2. b[a].next \in Int BY <1>2, <4>0
        <5>3. a = Start \/ a <= x \/ x + s <= a BY <1>3, <1>6, <4>0
        <5>4. Start < x /\ Start \in Nat BY <1>2, <1>4 DEF Start
        <5> QED BY <1>5, <3>0, <4>0, <5>1, <5>2, <5>3, <5>4
      <4> QED BY <4>1, <4>2, <4>3, <4>4
    <3> QED BY <3>1, <3>2, <3>3
  <2> QED BY <2>1, <2>2, <2>3 DEF Linked
<1>14. Apart(b1, G)
  <2>1. ASSUME NEW a \in F, a # x PROVE a + b1[a].size \notin G
    <3>1. a + b[a].size \notin F BY <1>1 DEF Apart
    <3>2. b1[a].size = b[a].size BY <1>3, <1>8, <2>1
    <3>3. a + b[a].size # rest
      <4>1. a <= x \/ x + s <= a BY <1>3, <1>6
      <4>2. a \in Nat /\ b[a].size \in Nat BY <1>2, <1>3
      <4>3. a < x => a + b[a].size <= x BY <1>3, <1>6
      <4> QED BY <1>5, <2>1, <4>1, <4>2, <4>3
    <3> QED BY <3>1, <3>2, <3>3
  <2>2. rest + b1[rest].size \notin G
    <3>1. rest + b1[rest].size = x + s BY <1>5, <1>8
    <3>2. x + s \notin F BY <1>1 DEF Apart
    <3> QED BY <1>5, <3>1, <3>2
  <2> QED BY <2>1, <2>2 DEF Apart
<1>15. /\ Span(b1, x) \cup Span(b1, rest) = Span(b, x)
       /\ Span(b1, x) \cap Span(b1, rest) = {}
  <2>1. /\ Span(b1, x) = x .. rest - 1 /\ Span(b1, rest) = rest .. x + s - 1
        /\ Span(b, x) = x .. x + s - 1
    <3>1. x + need - 1 = rest - 1 /\ rest + (s - need) - 1 = x + s - 1 BY <1>5
    <3> QED BY <1>8, <3>1 DEF Span
  <2>2. x + s \in Nat /\ x <= rest /\ rest <= x + s BY <1>5
  <2> HIDE DEF s
  <2> QED BY <1>5, <2>1, <2>2, IntervalFacts
<1>16. Bytes(b1, G) = Bytes(b, F) \ Span(b1, x)
  <2>1. \A a \in F \ {x} : Span(b1, a) = Span(b, a) BY <1>3, <1>8 DEF Span
  <2>2. ASSUME NEW a \in F \ {x}, NEW z, z \in Span(b, a), z \in Span(b, x) PROVE FALSE
    <3>1. z \in Int /\ a <= z /\ z < a + b[a].size /\ x <= z /\ z < x + s
      BY <1>1, <1>3, <1>4, <2>2, SpanFacts
    <3>2. a \in Blocks(b) /\ a # x BY <1>3
    <3>3. a < x \/ x + s <= a BY <1>2, <1>5, <1>6, <3>2
    <3>4. a < x => a + b[a].size <= x BY <1>6, <3>2
    <3>5. a \in Nat /\ b[a].size \in Nat BY <1>2, <3>2
    <3> QED BY <1>5, <3>1, <3>3, <3>4, <3>5
  <2>3. Bytes(b1, G) = Bytes(b, F \ {x}) \cup Span(b1, rest)
    <3>1. Bytes(b1, G) = Bytes(b1, F \ {x}) \cup Span(b1, rest) BY DEF Bytes
    <3>2. Bytes(b1, F \ {x}) = Bytes(b, F \ {x}) BY <2>1 DEF Bytes
    <3> QED BY <3>1, <3>2
  <2>4. Bytes(b, F) = Bytes(b, F \ {x}) \cup Span(b, x) BY DEF Bytes
  <2>5. Bytes(b, F \ {x}) \cap Span(b, x) = {} BY <2>2 DEF Bytes
  <2> QED BY <1>15, <2>3, <2>4, <2>5
<1> QED BY <1>7, <1>8, <1>11, <1>12, <1>13, <1>14, <1>15, <1>16 DEF Shape

-----------------------------------------------------------------------------
(* Putting a block on the free list.                                       *)

Below(b, x) == {a \in DOMAIN b : a < x}
Between(b, p, x, n) == p = Iterate(b, Below(b, x)) /\ n = b[p].next

(* b1 is b with x linked in between p and n.                               *)
Relinked(b, b1, p, x, n) ==
    /\ DOMAIN b1 = DOMAIN b
    /\ b1[p] = [size |-> b[p].size, next |-> x, used |-> b[p].used]
    /\ b1[x] = [size |-> b[x].size, next |-> n, used |-> b[x].used]
    /\ \A a \in DOMAIN b \ {x, p} : b1[a] = b[a]

(* b1 is b with the block m taken into the block a.                        *)
Merged(b, b1, a, m) ==
    /\ DOMAIN b1 = DOMAIN b \ {m}
    /\ b1[a] = [size |-> b[a].size + b[m].size, next |-> b[m].next, used |-> FALSE]
    /\ \A c \in DOMAIN b \ {a, m} : b1[c] = b[c]

(* A block linked behind the last free one before it is in order.          *)
LEMMA LinkFacts ==
    ASSUME NEW b, NEW F, Sound(b, F), NEW x \in Blocks(b), x \notin F, ~b[x].used,
           NEW p, NEW n, Between(b, p, x, n),
           NEW b1, Relinked(b, b1, p, x, n)
    PROVE  /\ p \in F \cup {Start} /\ p < x /\ n \in F \cup {EndBlock} /\ x < n
           /\ Sound(b1, F \cup {x})
           /\ \A a \in DOMAIN b : b1[a].size = b[a].size /\ b1[a].used = b[a].used
           /\ b1[p].next = x /\ b1[x].next = n
           /\ Bytes(b1, F \cup {x}) = Bytes(b, F) \cup Span(b, x)
           /\ Bytes(b, F) \cap Span(b, x) = {}
<1>0. p = Iterate(b, Below(b, x)) /\ n = b[p].next BY DEF Between
<1>1. Placed(b) /\ Tiled(b) /\ Linked(b, F) BY DEF Sound
<1>2. /\ \A a \in Blocks(b) : a \in Nat /\ a > 0 /\ a < EndBlock /\ a \in DOMAIN b
      /\ \A a \in DOMAIN b : b[a].size \in Nat /\ b[a].next \in Int /\ a \in Nat
      /\ Start \in DOMAIN b /\ EndBlock \in DOMAIN b /\ Start # EndBlock /\ EndBlock \in Nat
  BY <1>1, AddressFacts, PlaceFacts, ConstantFacts DEF Blocks, Start
<1>3. \A a \in F : a \in Blocks(b) /\ a \in DOMAIN b /\ a # x BY <1>1, <1>2 DEF Linked
<1>4. p \in F \cup {Start} /\ n \notin Below(b, x) /\ \A c \in F : c <= p => c \in Below(b, x)
  <2>1. Below(b, x) \subseteq DOMAIN b /\ EndBlock \notin Below(b, x) BY <1>2 DEF Below
  <2> QED BY <1>0, <1>1, <2>1, IterateFacts
<1>5. p \in DOMAIN b /\ p < x /\ p # x /\ p # EndBlock
  <2>1. CASE p = Start BY <1>2, <2>1 DEF Start
  <2>2. CASE p \in F
    <3>1. p \in Nat /\ p \in Blocks(b) /\ x \in Nat BY <1>2, <1>3, <2>2
    <3>2. p <= p BY <3>1
    <3>3. p \in Below(b, x) BY <1>4, <2>2, <3>2
    <3>4. p \in DOMAIN b /\ p < x BY <3>3 DEF Below
    <3> QED BY <1>2, <3>1, <3>4
  <2> QED BY <1>4, <2>1, <2>2
<1>6. /\ n \in F \cup {EndBlock} /\ x < n /\ n \in Nat
      /\ \A c \in F : c <= p \/ n <= c
  <2>1. n \in F \cup {EndBlock} /\ \A c \in F : c <= p \/ n <= c BY <1>0, <1>1, <1>4 DEF Linked
  <2>2. n \in DOMAIN b /\ n # x /\ n \in Nat BY <1>2, <1>3, <2>1
  <2>3. ~(n < x) BY <1>4, <2>2 DEF Below
  <2> QED BY <1>2, <2>1, <2>2, <2>3
<1> USE DEF Relinked
<1>7. /\ \A a \in DOMAIN b : b1[a].size = b[a].size /\ b1[a].used = b[a].used
      /\ \A a \in DOMAIN b \ {x, p} : b1[a].next = b[a].next
      /\ b1[p].next = x /\ b1[x].next = n /\ \A a \in DOMAIN b : b1[a] \in Header
  <2>1. x \in DOMAIN b /\ x \in Int /\ n \in Int BY <1>2, <1>6
  <2>2. \A a \in DOMAIN b : b[a] \in Header BY <1>1 DEF Placed
  <2>3. b[p] \in Header /\ b[x] \in Header BY <1>5, <2>1, <2>2
  <2>4. b1[p].size = b[p].size /\ b1[p].used = b[p].used /\ b1[p].next = x /\ b1[p] \in Header
    BY <2>1, <2>3 DEF Header
  <2>5. b1[x].size = b[x].size /\ b1[x].used = b[x].used /\ b1[x].next = n /\ b1[x] \in Header
    BY <2>1, <2>3 DEF Header
  <2> QED BY <2>2, <2>4, <2>5
<1>8. Blocks(b1) = Blocks(b) BY DEF Blocks
<1>9. Placed(b1)
  <2>1. x # EndBlock /\ x # Start BY DEF Blocks
  <2>2. \A a \in DOMAIN b1 : b1[a] \in Header BY <1>7
  <2>3. /\ DOMAIN b1 \subseteq {Start} \cup FirstBlock .. EndBlock
        /\ {Start, FirstBlock, EndBlock} \subseteq DOMAIN b1
    BY <1>1 DEF Placed
  <2>4. b1[EndBlock].next = Null BY <1>1, <1>2, <1>5, <1>7, <2>1 DEF Placed
  <2>5. \A a \in {Start, EndBlock} : b1[a].size = 0 /\ ~b1[a].used BY <1>1, <1>2, <1>7 DEF Placed
  <2> QED BY <2>2, <2>3, <2>4, <2>5 DEF Placed
<1>10. Tiled(b1) BY <1>1, <1>2, <1>7, <1>8 DEF Tiled
<1>11. Linked(b1, F \cup {x})
  <2>1. F \cup {x} \subseteq {a \in Blocks(b1) : ~b1[a].used}
    BY <1>1, <1>2, <1>3, <1>7, <1>8 DEF Linked
  <2>2. ASSUME NEW a \in Blocks(b1) \ (F \cup {x}) PROVE b1[a].next = Null
    <3>1. a \in Blocks(b) \ F /\ a \in DOMAIN b /\ a # p BY <1>2, <1>4, <1>8 DEF Blocks
    <3> QED BY <1>1, <1>7, <3>1 DEF Linked
  <2>3. ASSUME NEW a \in F \cup {x, Start}
        PROVE  /\ b1[a].next \in F \cup {x, EndBlock} /\ a < b1[a].next
               /\ \A c \in F \cup {x} : c <= a \/ b1[a].next <= c
    <3>0. a \in Nat /\ \A c \in F \cup {x} : c \in Nat BY <1>2, <1>3 DEF Start
    <3>1. CASE a = x
      <4>1. \A c \in F : c <= x \/ n <= c
        <5>1. p \in Nat /\ x \in Nat BY <1>2, <1>5
        <5> QED BY <1>5, <1>6, <3>0, <5>1
      <4>2. x <= x BY <1>2
      <4>3. \A c \in F \cup {x} : c <= x \/ n <= c BY <4>1, <4>2
      <4> QED BY <1>6, <1>7, <3>1, <4>3
    <3>2. CASE a = p
      <4>1. \A c \in F : c <= p \/ x <= c
        <5>1. x \in Nat /\ n \in Nat BY <1>2, <1>6
        <5> QED BY <1>6, <3>0, <5>1
      <4>2. x <= x BY <1>2
      <4>3. \A c \in F \cup {x} : c <= p \/ x <= c BY <4>1, <4>2
      <4> QED BY <1>5, <1>7, <3>2, <4>3
    <3>3. CASE a \notin {x, p}
      <4>1. a \in F \cup {Start} /\ a \in DOMAIN b BY <1>2, <1>3, <3>3
      <4>2. b1[a].next = b[a].next BY <1>7, <3>3, <4>1
      <4>3. /\ b[a].next \in F \cup {EndBlock} /\ a < b[a].next
            /\ \A c \in F : c <= a \/ b[a].next <= c
        BY <1>1, <4>1 DEF Linked
      <4>4. x <= a \/ b[a].next <= x
        <5>1. b[a].next \in Nat /\ x \in Nat /\ p \in Nat BY <1>2, <1>3, <1>5, <4>3
        <5>2. CASE a < p
          <6>1. p \in F BY <1>4, <3>0, <5>2 DEF Start
          <6>2. b[a].next <= p BY <3>0, <4>3, <5>1, <5>2, <6>1
          <6> QED BY <1>5, <5>1, <6>2
        <5>3. CASE p < a
          <6>1. a \in F BY <3>0, <4>1, <5>1, <5>3 DEF Start
          <6>2. n <= a BY <1>6, <3>0, <5>1, <5>3, <6>1
          <6> QED BY <1>6, <3>0, <5>1, <6>2
        <5> QED BY <3>0, <3>3, <5>1, <5>2, <5>3
      <4> QED BY <4>2, <4>3, <4>4
    <3> QED BY <3>1, <3>2, <3>3
  <2> QED BY <2>1, <2>2, <2>3 DEF Linked
<1>12. Bytes(b1, F \cup {x}) = Bytes(b, F) \cup Span(b, x)
  <2>1. \A a \in F \cup {x} : Span(b1, a) = Span(b, a) BY <1>2, <1>3, <1>7 DEF Span
  <2>2. Bytes(b1, F \cup {x}) = Bytes(b, F \cup {x}) BY <2>1 DEF Bytes
  <2> QED BY <2>2 DEF Bytes
<1>13. ASSUME NEW a \in F, NEW z, z \in Span(b, a), z \in Span(b, x) PROVE FALSE
  <2>1. a \in DOMAIN b /\ x \in DOMAIN b BY <1>2, <1>3
  <2>2. z \in Int /\ a <= z /\ z < a + b[a].size /\ x <= z /\ z < x + b[x].size
    BY <1>1, <1>13, <2>1, SpanFacts
  <2>3. a \in Nat /\ x \in Nat /\ b[a].size \in Nat /\ b[x].size \in Nat BY <1>2, <2>1
  <2>4. a < x \/ x < a BY <1>3, <2>3
  <2>5. a + b[a].size <= x \/ x + b[x].size <= a BY <1>1, <1>3, <2>4 DEF Tiled
  <2> QED BY <2>2, <2>3, <2>5
<1>14. Bytes(b, F) \cap Span(b, x) = {} BY <1>13 DEF Bytes
<1> QED BY <1>4, <1>5, <1>6, <1>7, <1>9, <1>10, <1>11, <1>12, <1>14 DEF Sound

(* A free block that ends where the next of the list begins can take it in. *)
LEMMA MergeFacts ==
    ASSUME NEW b, NEW F, Sound(b, F), NEW a \in F, NEW m \in F, b[a].next = m,
           a + b[a].size = m,
           NEW b1, Merged(b, b1, a, m)
    PROVE  Sound(b1, F \ {m}) /\ Bytes(b1, F \ {m}) = Bytes(b, F)
<1> DEFINE G == F \ {m}
<1>1. Placed(b) /\ Tiled(b) /\ Linked(b, F) BY DEF Sound
<1>2. /\ \A c \in Blocks(b) : c \in Nat /\ c > 0 /\ c < EndBlock /\ c \in DOMAIN b /\ FirstBlock <= c
      /\ \A c \in DOMAIN b : b[c].size \in Nat /\ b[c].next \in Int /\ c \in Nat
      /\ Start \in DOMAIN b /\ EndBlock \in DOMAIN b /\ Start # EndBlock /\ FirstBlock \in Nat
  BY <1>1, AddressFacts, PlaceFacts, ConstantFacts DEF Blocks, Start
<1>3. \A c \in F : c \in Blocks(b) /\ c \in DOMAIN b /\ ~b[c].used BY SoundFacts
<1>4. /\ a \in Nat /\ m \in Nat /\ a < m /\ b[a].size \in Nat /\ b[m].size \in Nat
      /\ m # Start /\ m # EndBlock /\ a # Start /\ a # EndBlock /\ m # FirstBlock
  <2>1. a \in Nat /\ m \in Nat /\ a < m /\ b[a].size \in Nat /\ b[m].size \in Nat
    BY <1>1, <1>2, <1>3 DEF Linked
  <2>2. FirstBlock <= a BY <1>2, <1>3
  <2> QED BY <1>2, <1>3, <2>1, <2>2 DEF Blocks
<1> USE DEF Merged
<1>5. /\ \A c \in DOMAIN b \ {a, m} : b1[c].size = b[c].size /\ b1[c].next = b[c].next
                                      /\ b1[c].used = b[c].used
      /\ b1[a].size = b[a].size + b[m].size /\ b1[a].next = b[m].next /\ ~b1[a].used
      /\ a + b1[a].size = m + b[m].size
  BY <1>4
<1>6. Blocks(b1) = Blocks(b) \ {m} BY DEF Blocks
<1>7. b[m].next \in G \cup {EndBlock} /\ m < b[m].next /\ \A c \in G : c < m \/ b[m].next <= c
  BY <1>1, <1>2, <1>3 DEF Linked
<1>8. b[m].next \in Nat /\ a < b[m].next
  <2>1. b[m].next \in Nat BY <1>2, <1>3, <1>7
  <2> QED BY <1>4, <1>7, <2>1
<1>9. Placed(b1)
  <2>1. ASSUME NEW c \in DOMAIN b1 PROVE b1[c] \in Header
    <3>1. CASE c = a
      <4>1. b[a].size + b[m].size \in Nat /\ b[m].next \in Int BY <1>4, <1>8
      <4>2. [size |-> b[a].size + b[m].size, next |-> b[m].next, used |-> FALSE] \in Header
        BY <4>1 DEF Header
      <4> QED BY <3>1, <4>2
    <3>2. CASE c # a BY <1>1, <3>2 DEF Placed
    <3> QED BY <3>1, <3>2
  <2>2. /\ DOMAIN b1 \subseteq {Start} \cup FirstBlock .. EndBlock
        /\ {Start, FirstBlock, EndBlock} \subseteq DOMAIN b1
    BY <1>1, <1>4 DEF Placed
  <2>3. b1[EndBlock].next = Null BY <1>1, <1>2, <1>4, <1>5 DEF Placed
  <2>4. \A c \in {Start, EndBlock} : b1[c].size = 0 /\ ~b1[c].used BY <1>1, <1>2, <1>4, <1>5 DEF Placed
  <2> QED BY <2>1, <2>2, <2>3, <2>4 DEF Placed
<1>10. Tiled(b1)
  <2>0. \A c \in Blocks(b) : c < m \/ c = m \/ m + b[m].size <= c
    <3>1. \A c \in Blocks(b) : m < c => m + b[m].size <= c BY <1>1, <1>3 DEF Tiled
    <3> QED BY <1>2, <1>4, <3>1
  <2>1. /\ a % Alignment = 0 /\ b[a].size % Alignment = 0 /\ b[a].size >= StructSize + Alignment
        /\ b[m].size % Alignment = 0 /\ b[m].size >= StructSize + Alignment
        /\ m + b[m].size \in DOMAIN b
        /\ \A c \in Blocks(b) : a < c => m <= c
    BY <1>1, <1>3 DEF Tiled
  <2>2. b[m].size > 0 BY <2>1, <1>4, ConstantFacts
  <2> SUFFICES ASSUME NEW c \in Blocks(b1)
               PROVE  /\ c % Alignment = 0 /\ b1[c].size % Alignment = 0
                      /\ b1[c].size >= StructSize + Alignment
                      /\ c + b1[c].size \in DOMAIN b1
                      /\ \A d \in Blocks(b1) : c < d => c + b1[c].size <= d
    BY DEF Tiled
  <2>3. CASE c = a
    <3>1. (b[a].size + b[m].size) % Alignment = 0
      <4> DEFINE k == b[a].size
                 l == b[m].size
      <4>1. k \in Int /\ l \in Int /\ k % Alignment = 0 /\ l % Alignment = 0 BY <1>4, <2>1
      <4> HIDE DEF k, l
      <4>2. (k + l) % Alignment = 0 BY <4>1, AlignedFacts
      <4> QED BY <4>2 DEF k, l
    <3>2. b1[c].size >= StructSize + Alignment BY <1>4, <1>5, <2>1, <2>3, ConstantFacts
    <3>3. m + b[m].size # m BY <1>4, <2>2
    <3>4. \A d \in Blocks(b1) : a < d => m + b[m].size <= d
      <4>1. \A d \in Blocks(b1) : d \in Blocks(b) /\ d # m /\ d \in Nat BY <1>2, <1>6
      <4> QED BY <1>4, <2>0, <2>1, <4>1
    <3> QED BY <1>5, <2>1, <2>3, <3>1, <3>2, <3>3, <3>4
  <2>4. CASE c # a
    <3>1. c \in Blocks(b) /\ b1[c].size = b[c].size BY <1>2, <1>5, <1>6, <2>4
    <3>2. c + b[c].size # m BY <1>3, <2>4, <3>1, SoundFacts
    <3> QED BY <1>1, <1>6, <3>1, <3>2 DEF Tiled
  <2> QED BY <2>3, <2>4
<1>11. Linked(b1, G)
  <2>1. G \subseteq {c \in Blocks(b1) : ~b1[c].used} BY <1>3, <1>5, <1>6
  <2>2. ASSUME NEW c \in Blocks(b1) \ G PROVE b1[c].next = Null
    <3>1. c \in Blocks(b) \ F /\ c \in DOMAIN b /\ c # a BY <1>2, <1>6
    <3> QED BY <1>1, <1>5, <3>1 DEF Linked
  <2>3. ASSUME NEW c \in G \cup {Start}
        PROVE  /\ b1[c].next \in G \cup {EndBlock} /\ c < b1[c].next
               /\ \A d \in G : d <= c \/ b1[c].next <= d
    <3>0. c \in DOMAIN b /\ c # m /\ c \in F \cup {Start} BY <1>2, <1>3, <1>4
    <3>1. CASE c = a
      <4>1. \A d \in F : d <= a \/ m <= d BY <1>1 DEF Linked
      <4>2. \A d \in G : d \in Nat BY <1>2, <1>3
      <4>3. \A d \in G : d <= a \/ b[m].next <= d BY <1>4, <1>7, <4>1, <4>2
      <4> QED BY <1>5, <1>7, <1>8, <3>1, <4>3
    <3>2. CASE c # a
      <4>1. b1[c].next = b[c].next BY <1>5, <3>0, <3>2
      <4>2. b[c].next # m BY <3>0, <3>2, SoundFacts
      <4>3. /\ b[c].next \in F \cup {EndBlock} /\ c < b[c].next
            /\ \A d \in F : d <= c \/ b[c].next <= d
        BY <1>1, <3>0 DEF Linked
      <4> QED BY <4>1, <4>2, <4>3
    <3> QED BY <3>1, <3>2
  <2> QED BY <2>1, <2>2, <2>3 DEF Linked
<1>12. Bytes(b1, G) = Bytes(b, F)
  <2>1. \A c \in F \ {a, m} : Span(b1, c) = Span(b, c) BY <1>3, <1>5 DEF Span
  <2>2. Span(b1, a) = Span(b, a) \cup Span(b, m)
    <3> DEFINE e == m + b[m].size
    <3>1. Span(b1, a) = a .. e - 1 /\ Span(b, a) = a .. m - 1 /\ Span(b, m) = m .. e - 1
      <4>1. a + b1[a].size - 1 = e - 1 /\ a + b[a].size - 1 = m - 1 BY <1>4, <1>5
      <4>2. Span(b1, a) = a .. e - 1 BY <4>1 DEF Span
      <4>3. Span(b, a) = a .. m - 1 BY <4>1 DEF Span
      <4>4. Span(b, m) = m .. e - 1
        <5>1. m + b[m].size - 1 = e - 1 BY <1>4
        <5> QED BY <5>1 DEF Span
      <4> QED BY <4>2, <4>3, <4>4
    <3>2. e \in Nat /\ m <= e /\ a <= m BY <1>4
    <3> HIDE DEF e
    <3> QED BY <1>4, <3>1, <3>2, IntervalFacts
  <2>3. Bytes(b1, G) = Bytes(b1, F \ {a, m}) \cup Span(b1, a) BY <1>4 DEF Bytes
  <2>4. Bytes(b1, F \ {a, m}) = Bytes(b, F \ {a, m}) BY <2>1 DEF Bytes
  <2>5. Bytes(b, F) = Bytes(b, F \ {a, m}) \cup Span(b, a) \cup Span(b, m) BY DEF Bytes
  <2> QED BY <2>2, <2>3, <2>4, <2>5
<1> QED BY <1>9, <1>10, <1>11, <1>12 DEF Sound

(* A free block that ends at another ends at the next of the list.         *)
LEMMA TouchFacts ==
    ASSUME NEW b, NEW F, Sound(b, F), NEW a \in F, a + b[a].size \in F
    PROVE  a + b[a].size = b[a].next
<1> DEFINE e == a + b[a].size
           n == b[a].next
<1>1. Placed(b) /\ Tiled(b) /\ Linked(b, F) BY DEF Sound
<1>2. a \in Blocks(b) /\ a \in DOMAIN b /\ e \in Blocks(b) BY SoundFacts
<1>3. a \in Nat /\ b[a].size \in Nat /\ n \in Int /\ e \in Nat /\ e < EndBlock /\ EndBlock \in Nat
  BY <1>1, <1>2, AddressFacts, PlaceFacts
<1>4. b[a].size > 0 BY <1>1, <1>2, <1>3, ConstantFacts DEF Tiled
<1>5. n \in F \cup {EndBlock} /\ a < n /\ (e <= a \/ n <= e) BY <1>1 DEF Linked
<1>6. n \in F => e <= n
  <2>1. n \in F => n \in Blocks(b) BY SoundFacts
  <2> QED BY <1>1, <1>2, <1>5, <2>1 DEF Tiled
<1> QED BY <1>3, <1>4, <1>5, <1>6

(* r is b with x free and the blocks of gone merged with those before them.*)
Inserted(b, F, r, G, x, gone) ==
    /\ gone \subseteq F \cup {x} /\ DOMAIN r = DOMAIN b \ gone
    /\ G = (F \cup {x}) \ gone /\ Shape(r, G)
    /\ \A a \in DOMAIN b \ (F \cup {x, Start}) : r[a] = b[a]
    /\ Bytes(r, G) = Bytes(b, F) \cup Span(b, x)
    /\ Bytes(b, F) \cap Span(b, x) = {}

(* A block put back is merged with its neighbours on the list: no two free *)
(* blocks touch, no other header changes, and its bytes join the free ones.*)
LEMMA InsertFacts ==
    ASSUME NEW b, NEW F, NEW x, NEW r, Shape(b, F), pxEnd = EndBlock,
           x \in Blocks(b), x \notin F, ~b[x].used, r = prvInsertBlockIntoFreeList(b, x)
    PROVE  \E gone, G : Inserted(b, F, r, G, x, gone)
<1> DEFINE p  == Iterate(b, {a \in DOMAIN b : a < x})
           n  == b[p].next
           joined == p + b[p].size = x
           y  == IF joined THEN p ELSE x
           sy == IF joined THEN b[p].size + b[x].size ELSE b[x].size
           eats == y + sy = n /\ n # EndBlock
           hy == [size |-> IF eats THEN sy + b[n].size ELSE sy,
                  next |-> IF eats THEN b[n].next ELSE n,
                  used |-> FALSE]
           gone == (IF joined THEN {x} ELSE {}) \cup (IF eats THEN {n} ELSE {})
           b1 == [b EXCEPT ![p].next = x, ![x].next = n]
           F1 == F \cup {x}
           F2 == IF joined THEN F1 \ {x} ELSE F1
           b2 == IF joined
                 THEN [a \in DOMAIN b \ {x} |->
                        IF a = p THEN [size |-> b1[p].size + b1[x].size, next |-> b1[x].next, used |-> FALSE]
                        ELSE b1[a]]
                 ELSE b1
           F3 == F1 \ gone
<1>1. Placed(b) /\ Tiled(b) /\ Linked(b, F) /\ Apart(b, F) /\ Sound(b, F) BY DEF Shape, Sound
<1>2. /\ \A a \in Blocks(b) : a \in Nat /\ a > 0 /\ a < EndBlock /\ a \in DOMAIN b
      /\ \A a \in DOMAIN b : b[a].size \in Nat /\ b[a].next \in Int /\ a \in Nat /\ b[a] \in Header
      /\ Start \in DOMAIN b /\ EndBlock \in DOMAIN b /\ Start # EndBlock /\ EndBlock \in Nat
  BY <1>1, AddressFacts, PlaceFacts, ConstantFacts DEF Blocks, Start, Placed
<1>3. \A a \in F : a \in Blocks(b) /\ a \in DOMAIN b /\ ~b[a].used BY SoundFacts, <1>1
<1>4. /\ r = [a \in DOMAIN b \ gone |->
                CASE a = y -> hy
                  [] a = p /\ a # y -> [b[a] EXCEPT !.next = y]
                  [] OTHER -> b[a]]
  BY DEF prvInsertBlockIntoFreeList
<1> HIDE DEF p
<1>5. p \in DOMAIN b /\ x \in DOMAIN b /\ p # x
  <2> DEFINE passed == {a \in DOMAIN b : a < x}
  <2>1. passed \subseteq DOMAIN b /\ EndBlock \notin passed BY <1>2
  <2> HIDE DEF passed
  <2>2. Iterate(b, passed) \in F \cup {Start} BY <1>1, <2>1, IterateFacts
  <2>3. p \in F \cup {Start} BY <2>2 DEF p, passed
  <2> QED BY <1>2, <1>3, <2>3 DEF Start
<1>6. /\ DOMAIN b1 = DOMAIN b /\ b1[p] = [size |-> b[p].size, next |-> x, used |-> b[p].used]
      /\ b1[x] = [size |-> b[x].size, next |-> n, used |-> b[x].used]
      /\ \A a \in DOMAIN b \ {x, p} : b1[a] = b[a]
  <2>1. b[p] \in Header /\ b[x] \in Header BY <1>2, <1>5
  <2>2. b1[p] = [b[p] EXCEPT !.next = x] /\ b1[x] = [b[x] EXCEPT !.next = n] BY <1>5
  <2> QED BY <1>5, <2>1, <2>2 DEF Header
<1> HIDE DEF n, b1
<1>61. Relinked(b, b1, p, x, n) BY <1>6 DEF Relinked
<1>7. /\ p \in F \cup {Start} /\ p < x /\ n \in F \cup {EndBlock} /\ x < n
      /\ Sound(b1, F1)
      /\ \A a \in DOMAIN b : b1[a].size = b[a].size /\ b1[a].used = b[a].used
      /\ b1[p].next = x /\ b1[x].next = n
      /\ Bytes(b1, F1) = Bytes(b, F) \cup Span(b, x)
      /\ Bytes(b, F) \cap Span(b, x) = {}
  <2>1. p = Iterate(b, Below(b, x)) BY DEF p, Below
  <2>2. n = b[p].next BY DEF n
  <2> HIDE DEF F1
  <2>3. Between(b, p, x, n) BY <2>1, <2>2 DEF Between
  <2> QED BY <1>1, <1>61, <2>3, LinkFacts DEF F1
<1>8. /\ n \in Nat /\ n # x /\ n # p /\ n \in DOMAIN b /\ p \in Nat /\ x \in Nat
      /\ b[p].size \in Nat /\ b[x].size \in Nat /\ b[n].size \in Nat
  BY <1>2, <1>3, <1>5, <1>7
<1>9. joined => p \in F
  <2>1. ASSUME joined, p = Start PROVE FALSE
    <3>1. b[p].size = 0 /\ p = 0 BY <1>1, <2>1 DEF Placed, Start
    <3>2. p + b[p].size = 0 BY <3>1
    <3> QED BY <1>2, <2>1, <3>2
  <2> QED BY <1>7, <2>1
(* Which free blocks touch, before they are merged.                        *)
<1>10. ASSUME NEW a \in F1, a + b1[a].size \in F1
       PROVE  (a = p /\ joined) \/ (a = x /\ x + b[x].size = n)
  <2>1. a + b1[a].size = b1[a].next /\ a \in DOMAIN b BY <1>2, <1>3, <1>7, <1>10, TouchFacts
  <2>2. b1[a].size = b[a].size BY <1>7, <2>1
  <2>3. CASE a = p BY <1>7, <1>10, <2>1, <2>2, <2>3
  <2>4. CASE a = x BY <1>7, <2>1, <2>2, <2>4
  <2>5. CASE a \notin {p, x}
    <3>1. a \in F BY <2>5
    <3>2. a + b[a].size \notin F BY <1>1, <3>1 DEF Apart
    <3>3. a + b[a].size = x BY <1>10, <2>2, <3>2
    <3>4. b1[a].next = b1[p].next BY <1>7, <2>1, <2>2, <3>3
    <3>5. a \in F1 \cup {Start} /\ p \in F1 \cup {Start} BY <1>7
    <3>6. a = p BY <1>7, <3>4, <3>5, SoundFacts
    <3> QED BY <2>5, <3>6
  <2> QED BY <2>3, <2>4, <2>5
<1>11. /\ Sound(b2, F2) /\ Bytes(b2, F2) = Bytes(b1, F1)
       /\ DOMAIN b2 = IF joined THEN DOMAIN b \ {x} ELSE DOMAIN b
       /\ y \in F2 /\ b2[y].size = sy /\ b2[y].next = n /\ ~b2[y].used
       /\ \A a \in DOMAIN b2 \ {y} : b2[a] = IF a = p THEN [size |-> b[p].size, next |-> y, used |-> b[p].used] ELSE b[a]
  <2>1. CASE ~joined
    <3>1. b2 = b1 /\ F2 = F1 /\ y = x /\ sy = b[x].size BY <2>1
    <3> QED BY <1>3, <1>5, <1>6, <1>7, <3>1
  <2>2. CASE joined
    <3>1. F2 = F1 \ {x} /\ y = p /\ sy = b[p].size + b[x].size /\ p \in F2
          /\ b2 = [a \in DOMAIN b \ {x} |->
                    IF a = p THEN [size |-> b1[p].size + b1[x].size, next |-> b1[x].next, used |-> FALSE]
                    ELSE b1[a]]
      BY <1>5, <1>9, <2>2
    <3> HIDE DEF b2
    <3>2. /\ DOMAIN b2 = DOMAIN b1 \ {x}
          /\ b2[p] = [size |-> b1[p].size + b1[x].size, next |-> b1[x].next, used |-> FALSE]
          /\ \A a \in DOMAIN b1 \ {p, x} : b2[a] = b1[a]
      BY <1>5, <1>6, <3>1
    <3>3. p \in F1 /\ x \in F1 /\ b1[p].next = x /\ p + b1[p].size = x BY <1>5, <1>7, <1>9, <2>2
    <3>4. Sound(b2, F1 \ {x}) /\ Bytes(b2, F1 \ {x}) = Bytes(b1, F1)
      <4>1. Merged(b1, b2, p, x) BY <3>2 DEF Merged
      <4> QED BY <1>7, <3>3, <4>1, MergeFacts
    <3>5. b1[p].size + b1[x].size = sy BY <1>5, <1>7, <3>1
    <3> QED BY <1>5, <1>6, <1>7, <2>2, <3>1, <3>2, <3>4, <3>5
  <2> QED BY <2>1, <2>2
<1>12. ASSUME NEW a \in F2, a + b2[a].size \in F2
       PROVE  a = y /\ eats
  <2>1. a \in DOMAIN b2 /\ a \in F1 /\ a + b2[a].size \in F1 /\ (joined => a # x)
    BY <1>11, <1>12, SoundFacts
  <2>2. CASE a = y
    <3>1. y + sy = n BY <1>11, <1>12, <2>2, TouchFacts
    <3>2. n \in F2 BY <1>11, <1>12, <2>2, <3>1
    <3>3. n \in Blocks(b2) BY <1>11, <3>2, SoundFacts
    <3> QED BY <2>2, <3>1, <3>3 DEF Blocks
  <2>3. CASE a # y
    <3>1. b2[a].size = b[a].size /\ a \in DOMAIN b
      <4>1. b2[a] = IF a = p THEN [size |-> b[p].size, next |-> y, used |-> b[p].used] ELSE b[a]
        BY <1>11, <2>1, <2>3
      <4>2. a \in DOMAIN b BY <1>11, <2>1
      <4> HIDE DEF b2, y
      <4> QED BY <4>1, <4>2
    <3>2. b1[a].size = b[a].size BY <1>7, <3>1
    <3>3. (a = p /\ joined) \/ (a = x /\ x + b[x].size = n) BY <1>10, <2>1, <3>1, <3>2
    <3> QED BY <2>1, <2>3, <3>3
  <2> QED BY <2>2, <2>3
<1>13. F3 = (IF eats THEN F2 \ {n} ELSE F2) /\ gone \subseteq F1
  BY <1>7
<1>14. /\ DOMAIN r = DOMAIN b \ gone /\ y \notin gone /\ y \in DOMAIN b
       /\ (p # y => p \notin gone)
  BY <1>4, <1>5, <1>8
<1>15. /\ r[y] = hy
       /\ \A a \in DOMAIN r \ {y} : r[a] = IF a = p THEN [size |-> b[p].size, next |-> y, used |-> b[p].used] ELSE b[a]
       /\ r = [a \in DOMAIN r |-> r[a]]
  <2>1. b[p] \in Header /\ y \in Int BY <1>2, <1>5, <1>8
  <2>2. [b[p] EXCEPT !.next = y] = [size |-> b[p].size, next |-> y, used |-> b[p].used]
    BY <2>1 DEF Header
  <2>3. \A a \in DOMAIN r \ {y} : r[a] = IF a = p THEN [b[p] EXCEPT !.next = y] ELSE b[a]
    BY <1>4, <1>14
  <2>4. r[y] = hy /\ r = [a \in DOMAIN r |-> r[a]] BY <1>4, <1>14
  <2> QED BY <2>2, <2>3, <2>4
<1>16. DOMAIN r = IF eats THEN DOMAIN b2 \ {n} ELSE DOMAIN b2
  BY <1>11, <1>14
<1>17. Sound(r, F3) /\ Apart(r, F3) /\ Bytes(r, F3) = Bytes(b2, F2)
  <2>1. CASE ~eats
    <3>1. hy = [size |-> sy, next |-> n, used |-> FALSE] /\ F3 = F2 BY <1>13, <2>1
    <3>2. b2[y] \in Header
      <4>1. y \in DOMAIN b2 BY <1>11, SoundFacts
      <4> QED BY <1>11, <4>1 DEF Sound, Placed
    <3>3. b2[y] = hy BY <1>11, <3>1, <3>2 DEF Header
    <3>4. DOMAIN r = DOMAIN b2 /\ \A a \in DOMAIN r : r[a] = b2[a]
      BY <1>11, <1>15, <1>16, <2>1, <3>3
    <3>5. b2 = [a \in DOMAIN b2 |-> b2[a]] BY DEF b1
    <3>6. r = b2 BY <1>15, <3>4, <3>5
    <3> QED BY <1>11, <1>12, <2>1, <3>1, <3>6 DEF Apart
  <2>2. CASE eats
    <3>1. n \in F /\ n \in F2 /\ F3 = F2 \ {n} BY <1>7, <1>8, <1>13, <2>2
    <3>2. y + b2[y].size = n /\ b2[y].next = n BY <1>11, <2>2
    <3>3. b2[n] = b[n] /\ n # y /\ n \in DOMAIN b2
      <4>1. n # y BY <1>8
      <4>2. n \in DOMAIN b2 BY <1>11, <3>1, SoundFacts
      <4> QED BY <1>8, <1>11, <4>1, <4>2
    <3>4. r[y] = [size |-> b2[y].size + b2[n].size, next |-> b2[n].next, used |-> FALSE]
      BY <1>11, <1>15, <2>2, <3>3
    <3>5. DOMAIN r = DOMAIN b2 \ {n} /\ \A a \in DOMAIN b2 \ {y, n} : r[a] = b2[a]
      BY <1>11, <1>15, <1>16, <2>2
    <3>6. Sound(r, F2 \ {n}) /\ Bytes(r, F2 \ {n}) = Bytes(b2, F2)
      <4>1. Sound(b2, F2) /\ y \in F2 /\ n \in F2 BY <1>11, <3>1
      <4>2. Merged(b2, r, y, n) BY <3>4, <3>5 DEF Merged
      <4> HIDE DEF b2, F2, y
      <4> QED BY <3>2, <4>1, <4>2, MergeFacts
    <3>7. ASSUME NEW a \in F3, a + r[a].size \in F3 PROVE FALSE
      <4>1. CASE a = y
        <5>1. r[y].size = sy + b[n].size BY <1>11, <3>3, <3>4
        <5>2. y + r[y].size = n + b[n].size
          <6>1. y \in Nat /\ sy \in Nat BY <1>8
          <6> QED BY <1>8, <2>2, <5>1, <6>1
        <5>3. n + b[n].size \notin F BY <1>1, <3>1 DEF Apart
        <5>4. n + b[n].size # x BY <1>7, <1>8
        <5> QED BY <3>7, <4>1, <5>2, <5>3, <5>4
      <4>2. CASE a # y
        <5>1. a \in F2 /\ a # n /\ a \in DOMAIN b2 BY <1>11, <3>1, SoundFacts
        <5>2. a + b2[a].size \in F2 BY <3>1, <3>5, <3>7, <4>2, <5>1
        <5> QED BY <1>12, <4>2, <5>1, <5>2
      <4> QED BY <4>1, <4>2
    <3> QED BY <3>1, <3>6, <3>7 DEF Apart
  <2> QED BY <2>1, <2>2
<1>18. ASSUME NEW a \in DOMAIN b \ (F \cup {x, Start}) PROVE r[a] = b[a]
  <2>1. a # y /\ a # p /\ a \in DOMAIN r BY <1>7, <1>13, <1>14
  <2> QED BY <1>15, <2>1
<1>19. F3 = (F \cup {x}) \ gone /\ gone \subseteq F \cup {x} BY <1>13
<1> HIDE DEF gone, F1, F2, F3, b2
<1>20. Shape(r, F3) BY <1>17 DEF Shape, Sound
<1>21. Bytes(r, F3) = Bytes(b, F) \cup Span(b, x) BY <1>7, <1>11, <1>17
<1>22. Inserted(b, F, r, F3, x, gone) BY <1>7, <1>14, <1>18, <1>19, <1>20, <1>21 DEF Inserted
<1> QED BY <1>22

-----------------------------------------------------------------------------
(* Counting the bytes of the free blocks.                                  *)

(* They are finite in number, at least as many as in any one free block.   *)
LEMMA BytesFacts ==
    ASSUME NEW b, NEW F, Shape(b, F)
    PROVE  /\ IsFiniteSet(Bytes(b, F)) /\ Cardinality(Bytes(b, F)) \in Nat
           /\ \A a \in DOMAIN b : IsFiniteSet(Span(b, a)) /\ Cardinality(Span(b, a)) = b[a].size
           /\ \A a \in F : /\ Span(b, a) \subseteq Bytes(b, F)
                           /\ b[a].size <= Cardinality(Bytes(b, F))
                           /\ b[a].size <= SizeMax \div 2
<1>1. Placed(b) /\ Tiled(b) /\ Linked(b, F) BY DEF Shape
<1>2. /\ \A a \in DOMAIN b : a \in Nat /\ a <= EndBlock /\ b[a].size \in Nat
      /\ EndBlock \in Nat /\ FirstBlock \in Nat
  BY <1>1, AddressFacts, PlaceFacts
<1>3. \A a \in F : a \in Blocks(b) /\ a \in DOMAIN b BY ShapeFacts
<1>4. ASSUME NEW a \in DOMAIN b
      PROVE  IsFiniteSet(Span(b, a)) /\ Cardinality(Span(b, a)) = b[a].size
  <2> DEFINE h == a + b[a].size - 1
  <2>1. a \in Int /\ h \in Int /\ (a > h => b[a].size = 0) /\ h - a + 1 = b[a].size BY <1>2
  <2>2. Span(b, a) = a .. h BY DEF Span
  <2> HIDE DEF h
  <2>3. /\ IsFiniteSet(a .. h)
        /\ Cardinality(a .. h) = IF a > h THEN 0 ELSE h - a + 1
    BY <2>1, FS_Interval
  <2> QED BY <2>1, <2>2, <2>3
<1>5. Bytes(b, F) \in SUBSET (0 .. EndBlock)
  <2> SUFFICES ASSUME NEW a \in F, NEW z \in Span(b, a) PROVE z \in 0 .. EndBlock BY DEF Bytes
  <2>1. z \in Int /\ a <= z /\ z < a + b[a].size BY <1>1, <1>3, SpanFacts
  <2>2. a + b[a].size <= EndBlock BY <1>3, ShapeFacts
  <2> QED BY <1>2, <1>3, <2>1, <2>2
<1>6. IsFiniteSet(0 .. EndBlock) BY <1>2, FS_Interval
<1>7. IsFiniteSet(Bytes(b, F)) BY <1>5, <1>6, FS_Subset
<1>8. Cardinality(Bytes(b, F)) \in Nat BY <1>7, FS_CardinalityType
<1>9. ASSUME NEW a \in F
      PROVE  /\ Span(b, a) \subseteq Bytes(b, F) /\ b[a].size <= Cardinality(Bytes(b, F))
             /\ b[a].size <= SizeMax \div 2
  <2>1. Span(b, a) \in SUBSET Bytes(b, F) BY DEF Bytes
  <2>2. Cardinality(Span(b, a)) <= Cardinality(Bytes(b, F)) BY <1>7, <2>1, FS_Subset
  <2>3. Cardinality(Span(b, a)) = b[a].size BY <1>3, <1>4
  <2>4. a + b[a].size <= EndBlock /\ FirstBlock <= a BY <1>1, <1>3, ShapeFacts, AddressFacts
  <2>5. EndBlock - FirstBlock <= SizeMax \div 2 /\ SizeMax \div 2 \in Int BY PlaceFacts, ConstantFacts
  <2>6. b[a].size <= EndBlock - FirstBlock BY <1>2, <1>3, <2>4
  <2> QED BY <1>2, <1>3, <2>1, <2>2, <2>3, <2>5, <2>6
<1> QED BY <1>4, <1>7, <1>8, <1>9

(* The heap as pvPortMalloc finds it on its first call.                    *)
LEMMA InitFacts ==
    /\ Blocks(prvHeapInit) = {FirstBlock} /\ ~prvHeapInit[FirstBlock].used
    /\ Shape(prvHeapInit, {FirstBlock})
    /\ Cardinality(Bytes(prvHeapInit, {FirstBlock})) = EndBlock - FirstBlock
<1> DEFINE b == prvHeapInit
           F == {FirstBlock}
<1>1. /\ FirstBlock \in Nat /\ EndBlock \in Nat /\ FirstBlock > 0 /\ FirstBlock < EndBlock
      /\ FirstBlock % Alignment = 0 /\ EndBlock % Alignment = 0
      /\ EndBlock - FirstBlock >= StructSize + Alignment
  BY PlaceFacts, ConstantFacts DEF Start
<1>2. /\ DOMAIN b = {Start, FirstBlock, EndBlock} /\ Start # FirstBlock /\ Start # EndBlock
      /\ FirstBlock # EndBlock
  BY <1>1 DEF prvHeapInit, Start
<1>3. /\ b[Start] = [size |-> 0, next |-> FirstBlock, used |-> FALSE]
      /\ b[FirstBlock] = [size |-> EndBlock - FirstBlock, next |-> EndBlock, used |-> FALSE]
      /\ b[EndBlock] = [size |-> 0, next |-> Null, used |-> FALSE]
  BY <1>2 DEF prvHeapInit
<1> HIDE DEF b
<1>4. Blocks(b) = F BY <1>2 DEF Blocks
<1>5. Placed(b)
  <2>1. EndBlock - FirstBlock \in Nat BY <1>1
  <2>2. b[Start] \in Header /\ b[FirstBlock] \in Header /\ b[EndBlock] \in Header
    BY <1>1, <1>3, <2>1 DEF Header, Null
  <2>3. DOMAIN b \subseteq {Start} \cup FirstBlock .. EndBlock BY <1>1, <1>2
  <2>4. \A a \in DOMAIN b : b[a] \in Header BY <1>2, <2>2
  <2>5. b[EndBlock].next = Null /\ b[Start].size = 0 /\ b[EndBlock].size = 0
        /\ ~b[Start].used /\ ~b[EndBlock].used
    BY <1>3
  <2> QED BY <1>2, <2>3, <2>4, <2>5 DEF Placed
<1>6. Tiled(b)
  <2>1. (EndBlock - FirstBlock) % Alignment = 0 BY <1>1, AlignedFacts
  <2>2. FirstBlock + (EndBlock - FirstBlock) = EndBlock BY <1>1
  <2>3. \A c \in F : ~(FirstBlock < c) BY <1>1
  <2> QED BY <1>1, <1>2, <1>3, <1>4, <2>1, <2>2, <2>3 DEF Tiled
<1>7. Linked(b, F)
  <2>1. Start < FirstBlock /\ FirstBlock <= FirstBlock BY <1>1 DEF Start
  <2> QED BY <1>1, <1>2, <1>3, <1>4, <2>1 DEF Linked
<1>8. Apart(b, F)
  <2>1. FirstBlock + (EndBlock - FirstBlock) # FirstBlock BY <1>1
  <2> QED BY <1>3, <2>1 DEF Apart
<1>9. Shape(b, F) BY <1>5, <1>6, <1>7, <1>8 DEF Shape
<1>10. Cardinality(Bytes(b, F)) = EndBlock - FirstBlock
  <2>1. Bytes(b, F) = Span(b, FirstBlock) BY DEF Bytes
  <2>2. Cardinality(Span(b, FirstBlock)) = b[FirstBlock].size BY <1>2, <1>9, BytesFacts
  <2> QED BY <1>3, <2>1, <2>2
<1> QED BY <1>3, <1>4, <1>9, <1>10 DEF b

(* The size of the block for a request; there is none only for a request   *)
(* of nothing or one too large to be represented.                          *)
LEMMA BlockSizeFacts ==
    ASSUME NEW want \in Nat
    PROVE  /\ BlockSize(want) \in Nat /\ BlockSize(want) % Alignment = 0
           /\ BlockSize(want) > 0 => /\ BlockSize(want) = Up(want + StructSize)
                                     /\ BlockSize(want) >= want + StructSize
                                     /\ BlockSize(want) >= StructSize + Alignment
           /\ BlockSize(want) = 0 => want = 0 \/ Up(want + StructSize) > SizeMax
<1> DEFINE sum == want + StructSize
           up  == Up(sum)
<1>1. sum \in Nat /\ SizeMax \in Nat /\ StructSize \in Nat /\ StructSize > 0
      /\ Alignment \in Nat /\ Alignment > 0
  BY ConstantFacts
<1>2. up \in Nat /\ up % Alignment = 0 /\ sum <= up BY <1>1, RoundFacts
<1>3. BlockSize(want) = IF want = 0 \/ want > SizeMax - StructSize \/ sum > SizeMax - (up - sum)
                        THEN 0 ELSE sum + (up - sum)
  BY DEF BlockSize, heapADD_WILL_OVERFLOW
<1> HIDE DEF up
<1>4. CASE want = 0 \/ want > SizeMax - StructSize \/ sum > SizeMax - (up - sum)
  <2>1. 0 % Alignment = 0
    <3>1. 0 = Alignment * 0 BY <1>1
    <3> QED BY <3>1, MultipleFacts
  <2>2. want = 0 \/ up > SizeMax BY <1>1, <1>2, <1>4
  <2> QED BY <1>3, <1>4, <2>1, <2>2 DEF up
<1>5. CASE ~(want = 0 \/ want > SizeMax - StructSize \/ sum > SizeMax - (up - sum))
  <2>1. BlockSize(want) = up BY <1>1, <1>2, <1>3, <1>5
  <2>2. StructSize < up /\ up > 0 BY <1>1, <1>2, <1>5
  <2>3. StructSize + Alignment <= up
    <3>1. StructSize \in Int /\ up \in Int /\ StructSize % Alignment = 0 BY <1>2, ConstantFacts
    <3> QED BY <1>2, <2>2, <3>1, AlignedFacts
  <2> QED BY <1>1, <1>2, <2>1, <2>2, <2>3 DEF up
<1> QED BY <1>4, <1>5

-----------------------------------------------------------------------------
(* An allocation finds the first free block that is large enough, if there *)
(* is one.                                                                 *)
LEMMA FirstFitFacts ==
    ASSUME NEW b, NEW F, Shape(b, F), NEW need \in Nat, NEW p, p = FirstFit(b, need),
           NEW x, x = b[p].next
    PROVE  /\ p \in F \cup {Start} /\ x \in F \cup {EndBlock}
           /\ x \in F => b[x].size >= need
           /\ x = EndBlock => \A a \in F : b[a].size < need
<1> DEFINE passed == {a \in DOMAIN b : b[a].size < need /\ b[a].next # Null}
<1>1. Placed(b) /\ Linked(b, F) BY DEF Shape
<1>2. passed \subseteq DOMAIN b /\ EndBlock \notin passed BY <1>1 DEF Placed
<1>3. p = Iterate(b, passed) BY DEF FirstFit
<1> HIDE DEF passed
<1>4. p \in F \cup {Start} /\ x \notin passed /\ \A c \in F : c <= p => c \in passed
  BY <1>1, <1>2, <1>3, IterateFacts
<1>5. /\ x \in F \cup {EndBlock} /\ \A c \in F : c <= p \/ x <= c
  BY <1>1, <1>4 DEF Linked
<1>6. \A a \in F : /\ a \in DOMAIN b /\ a \in Nat /\ a < EndBlock /\ b[a].size \in Nat
                    /\ b[a].next \in Nat
  <2>1. \A a \in F : a \in Blocks(b) /\ a \in DOMAIN b BY ShapeFacts
  <2>2. \A a \in F : a \in Nat /\ a < EndBlock /\ b[a].size \in Nat BY <1>1, <2>1, AddressFacts
  <2>3. \A a \in F : b[a].next \in F \cup {EndBlock} BY <1>1 DEF Linked
  <2> QED BY <2>1, <2>2, <2>3, PlaceFacts
<1>7. x \in F => b[x].size >= need
  <2>1. SUFFICES ASSUME x \in F PROVE b[x].size >= need OBVIOUS
  <2>2. b[x].next # Null BY <1>6, <2>1 DEF Null
  <2>3. ~(b[x].size < need) BY <1>4, <1>6, <2>1, <2>2 DEF passed
  <2> QED BY <1>6, <2>1, <2>3
<1>8. x = EndBlock => \A a \in F : b[a].size < need
  <2>1. SUFFICES ASSUME x = EndBlock, NEW a \in F PROVE b[a].size < need OBVIOUS
  <2>2. EndBlock \in Nat BY PlaceFacts
  <2>3. a \in passed BY <1>4, <1>5, <1>6, <2>1, <2>2
  <2> QED BY <2>3 DEF passed
<1> QED BY <1>4, <1>5, <1>7, <1>8

(* b1 is b with x used and the blocks of left made of the rest of it.      *)
Carved(b, F, b1, G, x, need, left) ==
    /\ left \cap DOMAIN b = {} /\ Blocks(b1) = Blocks(b) \cup left
    /\ DOMAIN b1 = DOMAIN b \cup left
    /\ G = (F \ {x}) \cup left /\ Shape(b1, G)
    /\ Bytes(b1, G) = Bytes(b, F) \ Span(b1, x)
    /\ Span(b1, x) \subseteq Span(b, x)
    /\ b1[x].used /\ b1[x].size >= need
    /\ \A a \in DOMAIN b \ (F \cup {Start}) : b1[a] = b[a]

(* The first fit is taken off the list, what is left over put in its place.*)
LEMMA CarveFacts ==
    ASSUME NEW b, NEW F, NEW need, NEW p, NEW x, NEW b1,
           Shape(b, F), need \in Nat, need % Alignment = 0, need >= StructSize + Alignment,
           p \in F \cup {Start}, x \in F, b[p].next = x, b[x].size >= need,
           b1 = Carve(b, p, need)
    PROVE  \E left, G : Carved(b, F, b1, G, x, need, left)
<1> DEFINE rest  == x + need
           split == b[x].size - need > heapMINIMUM_BLOCK_SIZE
<1>1. Placed(b) /\ Tiled(b) /\ Linked(b, F) BY DEF Shape
<1>2. /\ \A a \in DOMAIN b : a \in Nat /\ b[a].size \in Nat /\ b[a] \in Header
      /\ Start \in DOMAIN b
  BY <1>1, AddressFacts DEF Placed
<1>3. x \in Blocks(b) /\ x \in DOMAIN b /\ p \in DOMAIN b /\ p # x BY <1>1, <1>2, ShapeFacts DEF Linked
<1> DEFINE Whole  == DOMAIN b \cup (IF split THEN {rest} ELSE {})
           Taken  == [size |-> IF split THEN need ELSE b[x].size, next |-> Null, used |-> TRUE]
           Moved(a) == [b[a] EXCEPT !.next = IF split THEN rest ELSE b[x].next]
           Left   == [size |-> b[x].size - need, next |-> b[x].next, used |-> FALSE]
           New(a) == CASE a = x -> Taken
                       [] a = p -> Moved(a)
                       [] a = rest /\ split -> Left
                       [] OTHER -> b[a]
<1>4. b1 = [a \in Whole |-> New(a)] BY DEF Carve
<1> HIDE DEF Taken, Moved, Left
<1>39. rest # x /\ rest # p
  <2>1. p < x /\ need > 0 BY <1>1, ConstantFacts DEF Linked
  <2> QED BY <1>2, <1>3, <2>1
<1>40. New(x) = Taken BY <1>3, <1>39
<1>41. New(p) = Moved(p) BY <1>3, <1>39
<1>42. rest \notin {x, p} /\ split => New(rest) = Left OBVIOUS
<1>43. \A a : a \notin {x, p} /\ ~(a = rest /\ split) => New(a) = b[a] OBVIOUS
<1> HIDE DEF New
<1>44. DOMAIN b1 = Whole /\ \A a \in Whole : b1[a] = New(a) BY <1>4
<1>45. /\ DOMAIN b1 = Whole /\ b1[x] = Taken /\ b1[p] = Moved(p)
       /\ rest \notin {x, p} /\ split => b1[rest] = Left
       /\ \A a \in DOMAIN b \ {x, p} : ~(a = rest /\ split) => b1[a] = b[a]
  BY <1>3, <1>40, <1>41, <1>42, <1>43, <1>44
<1>46. Moved(p) = [size |-> b[p].size, next |-> IF split THEN rest ELSE b[x].next, used |-> b[p].used]
  BY <1>2, <1>3 DEF Header, Moved
<1>6. CASE ~split
  <2>1. /\ DOMAIN b1 = DOMAIN b /\ b1[x] = [size |-> b[x].size, next |-> Null, used |-> TRUE]
        /\ b1[p] = [size |-> b[p].size, next |-> b[x].next, used |-> b[p].used]
        /\ \A a \in DOMAIN b \ {x, p} : b1[a] = b[a]
    BY <1>6, <1>45, <1>46 DEF Taken
  <2> DEFINE G == F \ {x}
  <2>2. Shape(b1, G) /\ Bytes(b1, G) = Bytes(b, F) \ Span(b1, x)
    <3>1. WholeTaken(b, F, b1, G, p, x) BY <2>1 DEF WholeTaken
    <3> HIDE DEF G
    <3> QED BY <3>1, CarveWhole
  <2>3. Span(b1, x) = Span(b, x) BY <2>1 DEF Span
  <2>4. b1[x].size = b[x].size /\ b1[x].used BY <2>1
  <2>5. G = (F \ {x}) \cup {} /\ Blocks(b1) = Blocks(b) \cup {} BY <2>1 DEF Blocks
  <2> HIDE DEF G
  <2>6. Carved(b, F, b1, G, x, need, {}) BY <1>3, <2>1, <2>2, <2>3, <2>4, <2>5 DEF Carved
  <2> QED BY <2>6
<1>7. CASE split
  <2>0. rest # x BY <1>2, <1>3, ConstantFacts
  <2>1. /\ DOMAIN b1 = DOMAIN b \cup {rest}
        /\ b1[x] = [size |-> need, next |-> Null, used |-> TRUE]
        /\ b1[p] = [size |-> b[p].size, next |-> rest, used |-> b[p].used]
        /\ (rest \notin {x, p} =>
              b1[rest] = [size |-> b[x].size - need, next |-> b[x].next, used |-> FALSE])
        /\ \A a \in DOMAIN b \ {x, p, rest} : b1[a] = b[a]
    BY <1>7, <1>45, <1>46 DEF Taken, Left
  <2>2. rest = x + need OBVIOUS
  <2> HIDE DEF rest
  <2> DEFINE G == (F \ {x}) \cup {rest}
  <2>3. /\ rest \notin DOMAIN b /\ ~b1[rest].used /\ Shape(b1, G)
        /\ Bytes(b1, G) = Bytes(b, F) \ Span(b1, x) /\ Span(b1, x) \subseteq Span(b, x)
    <3>1. FrontTaken(b, F, b1, G, p, x, need, rest) BY <1>7, <2>1, <2>2 DEF FrontTaken
    <3> HIDE DEF G
    <3> QED BY <3>1, CarveSplit
  <2>4. b1[x].size = need /\ b1[x].used /\ need >= need BY <2>1
  <2>5. Blocks(b1) = Blocks(b) \cup {rest} BY <1>2, <2>1, <2>3, ShapeFacts, <1>1 DEF Blocks, Placed
  <2>6. \A a \in DOMAIN b \ (F \cup {Start}) : b1[a] = b[a] BY <1>3, <2>1, <2>3
  <2>7. G = (F \ {x}) \cup {rest} OBVIOUS
  <2> HIDE DEF G
  <2>8. Carved(b, F, b1, G, x, need, {rest}) BY <2>7, <2>1, <2>3, <2>4, <2>5, <2>6 DEF Carved
  <2> QED BY <2>8
<1> QED BY <1>6, <1>7

(* b1 is b with the allocated bit of x cleared.                            *)
Cleared(b, b1, x) == b1 = [b EXCEPT ![x].used = FALSE]

(* Clearing the allocated bit changes nothing else.                        *)
LEMMA ClearFacts ==
    ASSUME NEW b, NEW F, NEW x, NEW b1, Shape(b, F), x \in Blocks(b), x \notin F,
           Cleared(b, b1, x)
    PROVE  /\ DOMAIN b1 = DOMAIN b /\ Blocks(b1) = Blocks(b)
           /\ \A a \in DOMAIN b \ {x} : b1[a] = b[a]
           /\ ~b1[x].used /\ b1[x].size = b[x].size
           /\ Shape(b1, F) /\ Bytes(b1, F) = Bytes(b, F)
<1>1. Placed(b) /\ Tiled(b) /\ Linked(b, F) /\ Apart(b, F) BY DEF Shape
<1>2. /\ DOMAIN b1 = DOMAIN b /\ Blocks(b1) = Blocks(b) /\ x \in DOMAIN b
      /\ \A a \in DOMAIN b \ {x} : b1[a] = b[a] /\ b1[x] = [b[x] EXCEPT !.used = FALSE]
      /\ b1[x] = [b[x] EXCEPT !.used = FALSE]
  BY DEF Blocks, Cleared
<1>3. /\ ~b1[x].used /\ b1[x].size = b[x].size /\ b1[x].next = b[x].next /\ b1[x] \in Header
  <2>1. b[x] \in Header BY <1>1, <1>2 DEF Placed
  <2> QED BY <1>2, <2>1 DEF Header
<1>4. /\ \A a \in DOMAIN b : b1[a].size = b[a].size /\ b1[a].next = b[a].next
  BY <1>2, <1>3
<1>5. \A a \in F : a # x /\ a \in Blocks(b) /\ a \in DOMAIN b /\ ~b[a].used BY ShapeFacts
<1>6. x # Start /\ x # EndBlock BY DEF Blocks
<1>7. Placed(b1)
  <2>1. \A a \in DOMAIN b1 : b1[a] \in Header BY <1>1, <1>2, <1>3 DEF Placed
  <2>2. Start \in DOMAIN b /\ EndBlock \in DOMAIN b BY <1>1, AddressFacts
  <2> QED BY <1>1, <1>2, <1>6, <2>1, <2>2 DEF Placed
<1>8. Tiled(b1)
  <2>1. \A a \in Blocks(b) : b1[a].size = b[a].size BY <1>4 DEF Blocks
  <2> QED BY <1>1, <1>2, <2>1 DEF Tiled
<1>9. Linked(b1, F)
  <2>1. \A a \in Blocks(b) : b1[a].next = b[a].next BY <1>4 DEF Blocks
  <2>2. b1[Start].next = b[Start].next BY <1>1, <1>4, AddressFacts
  <2>3. \A a \in F : ~b1[a].used BY <1>2, <1>5
  <2> QED BY <1>1, <1>2, <1>5, <2>1, <2>2, <2>3 DEF Linked
<1>10. Apart(b1, F) BY <1>1, <1>4, <1>5 DEF Apart
<1>11. Bytes(b1, F) = Bytes(b, F) BY <1>4, <1>5 DEF Bytes, Span
<1> QED BY <1>2, <1>3, <1>7, <1>8, <1>9, <1>10, <1>11 DEF Shape

-----------------------------------------------------------------------------
(* The inductive invariant: whatever is half done, the free list holds the *)
(* blocks that are neither lent nor in limbo, and their bytes are counted; *)
(* what is lent lies in a block of its own that is marked as used.         *)

FreeOf(b, L) == {a \in Blocks(b) : ~b[a].used} \ L

Lends(b, own) ==
    /\ own \subseteq [at : Nat, size : Nat]
    /\ \A o \in own : /\ o.at - StructSize \in Blocks(b) /\ b[o.at - StructSize].used
                      /\ StructSize + o.size <= b[o.at - StructSize].size
    /\ \A o, q \in own : o.at = q.at => o = q

Intact(b, f, own, L) ==
    /\ L \subseteq Blocks(b) /\ \A a \in L : ~b[a].used
    /\ Shape(b, FreeOf(b, L))
    /\ f = Cardinality(Bytes(b, FreeOf(b, L)))
    /\ Lends(b, own)

HeapInv ==
    /\ freeing \in [Users -> Int]
    /\ \A u, v \in Users : freeing[u] = freeing[v] => u = v \/ freeing[u] = Null
    /\ \/ pxEnd = Null /\ owned = {} /\ Limbo = {} /\ free = 0
       \/ pxEnd = EndBlock /\ Intact(blk, free, owned, Limbo)
    /\ FailsOnlyWhenFull

(* The heap of one free block is intact.                                   *)
LEMMA InitIntact ==
    ASSUME NEW f, f = EndBlock - FirstBlock
    PROVE  Intact(prvHeapInit, f, {}, {})
<1> DEFINE b == prvHeapInit
<1>1. /\ Blocks(b) = {FirstBlock} /\ ~b[FirstBlock].used
      /\ Shape(b, {FirstBlock}) /\ Cardinality(Bytes(b, {FirstBlock})) = f
  BY InitFacts
<1> HIDE DEF b
<1>2. FreeOf(b, {}) = {FirstBlock} BY <1>1 DEF FreeOf
<1>3. Lends(b, {}) BY DEF Lends
<1> QED BY <1>1, <1>2, <1>3 DEF Intact, b

(* An allocation that succeeds leaves the heap intact.                     *)
LEMMA AllocFacts ==
    ASSUME NEW b, NEW f, NEW own, NEW L, NEW want \in Nat, NEW need, NEW p, NEW x,
           Intact(b, f, own, L), need = BlockSize(want), need > 0,
           p = FirstFit(b, need), x = b[p].next, x # EndBlock,
           NEW b1, b1 = Carve(b, p, need), NEW f1, f1 = f - b1[x].size, NEW own1,
           own1 = own \cup {[at |-> x + StructSize, size |-> want]}
    PROVE  Intact(b1, f1, own1, L)
<1> DEFINE F == FreeOf(b, L)
           o == [at |-> x + StructSize, size |-> want]
<1>1. /\ L \subseteq Blocks(b) /\ \A a \in L : ~b[a].used
      /\ Shape(b, F) /\ f = Cardinality(Bytes(b, F)) /\ Lends(b, own)
      /\ \A a : a \in F <=> a \in Blocks(b) /\ ~b[a].used /\ a \notin L
  BY DEF Intact, FreeOf
<1> HIDE DEF F
<1>2. /\ need \in Nat /\ need % Alignment = 0 /\ need >= want + StructSize
      /\ need >= StructSize + Alignment
  BY BlockSizeFacts
<1>3. p \in F \cup {Start} /\ x \in F /\ b[x].size >= need BY <1>1, <1>2, FirstFitFacts
<1>14. PICK left, G : Carved(b, F, b1, G, x, need, left) BY <1>1, <1>2, <1>3, CarveFacts
<1>4. /\ left \cap DOMAIN b = {} /\ Blocks(b1) = Blocks(b) \cup left
      /\ DOMAIN b1 = DOMAIN b \cup left
      /\ G = (F \ {x}) \cup left /\ Shape(b1, G)
      /\ Bytes(b1, G) = Bytes(b, F) \ Span(b1, x)
      /\ Span(b1, x) \subseteq Span(b, x)
      /\ b1[x].used /\ b1[x].size >= need
      /\ \A a \in DOMAIN b \ (F \cup {Start}) : b1[a] = b[a]
  BY <1>14 DEF Carved
<1>5. /\ \A a : a \in G <=> (a \in F /\ a # x) \/ a \in left
      /\ Shape(b1, G) /\ Bytes(b1, G) = Bytes(b, F) \ Span(b1, x)
  BY <1>4
<1>6. \A a \in G : ~b1[a].used BY <1>5, ShapeFacts
<1>7. \A a \in Blocks(b) : a \in DOMAIN b /\ a # Start BY DEF Blocks
<1>8. x \in Blocks(b) /\ x \notin L /\ ~b[x].used BY <1>1, <1>3
<1>9. FreeOf(b1, L) = G
  <2>1. ASSUME NEW a PROVE a \in FreeOf(b1, L) <=> a \in G
    <3>1. a \in FreeOf(b1, L) <=> a \in Blocks(b1) /\ ~b1[a].used /\ a \notin L BY DEF FreeOf
    <3>2. CASE a \in left
      <4>1. a \notin L BY <1>1, <1>4, <1>7, <3>2
      <4> QED BY <1>4, <1>5, <1>6, <3>1, <3>2, <4>1
    <3>3. CASE a = x
      <4>1. x \notin left BY <1>4, <1>7, <1>8
      <4> QED BY <1>4, <1>5, <3>1, <3>3, <4>1
    <3>4. CASE a \in F /\ a # x BY <1>1, <1>4, <1>5, <1>6, <3>1, <3>4
    <3>5. CASE a \in Blocks(b) /\ a \notin F
      <4>1. b1[a] = b[a] /\ a \notin left /\ a # x BY <1>3, <1>4, <1>7, <3>5
      <4> QED BY <1>1, <1>4, <1>5, <3>1, <3>5, <4>1
    <3>6. CASE a \notin Blocks(b) /\ a \notin left BY <1>1, <1>4, <1>5, <3>1, <3>6
    <3> QED BY <3>2, <3>3, <3>4, <3>5, <3>6
  <2> QED BY <2>1
<1>10. L \subseteq Blocks(b1) /\ \A a \in L : ~b1[a].used BY <1>1, <1>4, <1>7
<1>11. f1 = Cardinality(Bytes(b1, G)) /\ f1 \in Nat
  <2>1. IsFiniteSet(Bytes(b, F)) /\ f \in Nat BY <1>1, BytesFacts
  <2>2. Span(b, x) \subseteq Bytes(b, F) BY <1>1, <1>3, BytesFacts
  <2>3. x \in DOMAIN b1 BY <1>4, <1>7, <1>8
  <2>4. Cardinality(Span(b1, x)) = b1[x].size BY <1>5, <2>3, BytesFacts
  <2> DEFINE S == Bytes(b, F)
             T == Span(b1, x)
  <2>5. S \cap T = T BY <1>4, <2>2
  <2>6. IsFiniteSet(S) BY <2>1
  <2> HIDE DEF S, T
  <2>7. Cardinality(S \ T) = Cardinality(S) - Cardinality(S \cap T) BY <2>6, FS_Difference
  <2>8. Cardinality(S \ T) = f1 BY <1>1, <2>4, <2>5, <2>7 DEF S, T
  <2>9. Bytes(b1, G) = S \ T BY <1>5 DEF S, T
  <2>10. Cardinality(Bytes(b1, G)) \in Nat BY <1>5, BytesFacts
  <2> QED BY <2>8, <2>9, <2>10
<1>12. Lends(b1, own \cup {o})
  <2>1. x \in Nat /\ StructSize \in Nat /\ x + StructSize - StructSize = x
    <3>1. x \in Nat BY <1>1, <1>8, AddressFacts DEF Shape
    <3> QED BY <3>1, ConstantFacts
  <2>2. o \in [at : Nat, size : Nat] /\ o.at = x + StructSize /\ o.size = want BY <2>1
  <2> HIDE DEF o
  <2>3. o.at - StructSize = x BY <2>1, <2>2
  <2>4. StructSize + o.size <= b1[x].size
    <3>1. x \in DOMAIN b1 BY <1>4, <1>7, <1>8
    <3>2. b1[x].size \in Nat BY <1>5, <3>1, AddressFacts DEF Shape
    <3> QED BY <1>2, <1>4, <2>1, <2>2, <3>2
  <2>5. x \in Blocks(b1) /\ b1[x].used BY <1>4, <1>8
  <2>6. ASSUME NEW q \in own
        PROVE  /\ q.at - StructSize \in Blocks(b1) /\ b1[q.at - StructSize].used
               /\ StructSize + q.size <= b1[q.at - StructSize].size
               /\ q.at # o.at
    <3> DEFINE a == q.at - StructSize
    <3>1. a \in Blocks(b) /\ b[a].used /\ StructSize + q.size <= b[a].size BY <1>1 DEF Lends
    <3> HIDE DEF a
    <3>2. b1[a] = b[a] /\ a \in Blocks(b1) BY <1>1, <1>4, <1>7, <3>1
    <3>3. a # x BY <1>8, <3>1
    <3>4. q.at # o.at BY <2>3, <3>3 DEF a
    <3> QED BY <3>1, <3>2, <3>4 DEF a
  <2>7. \A q, r \in own : q.at = r.at => q = r BY <1>1 DEF Lends
  <2>8. own \subseteq [at : Nat, size : Nat] BY <1>1 DEF Lends
  <2> QED BY <2>2, <2>3, <2>4, <2>5, <2>6, <2>7, <2>8 DEF Lends
<1>13. own1 = own \cup {o} OBVIOUS
<1> HIDE DEF o
<1> QED BY <1>5, <1>9, <1>10, <1>11, <1>12, <1>13 DEF Intact

(* One that fails finds no free block that is large enough.                *)
LEMMA FailFacts ==
    ASSUME NEW b, NEW f, NEW own, NEW L, NEW want \in Nat, NEW need, NEW p, NEW x,
           Intact(b, f, own, L), need = BlockSize(want),
           p = FirstFit(b, need), x = b[p].next,
           ~(heapBLOCK_SIZE_IS_VALID(need) /\ need > 0 /\ need <= f /\ x # EndBlock), want # 0
    PROVE  Up(want + StructSize) > vPortGetHeapStats(b).largest
<1> DEFINE F == FreeOf(b, L)
           room == vPortGetHeapStats(b).largest
           up == Up(want + StructSize)
<1>1. Shape(b, F) /\ f = Cardinality(Bytes(b, F)) BY DEF Intact
<1> HIDE DEF F
<1>2. Placed(b) /\ Tiled(b) /\ Linked(b, F) BY <1>1 DEF Shape
<1>3. /\ need \in Nat
      /\ need > 0 => need = up
      /\ need = 0 => up > SizeMax
  BY BlockSizeFacts
<1>4. up \in Nat /\ up > 0
  <2> DEFINE sum == want + StructSize
  <2>1. sum \in Nat /\ sum > 0 BY ConstantFacts
  <2> HIDE DEF sum
  <2>2. Up(sum) \in Nat /\ sum <= Up(sum) BY <2>1, RoundFacts
  <2> QED BY <2>1, <2>2 DEF sum
<1>5. room = 0 \/ \E a \in F : room = b[a].size BY <1>2, StatsFacts
<1> HIDE DEF room, up
<1>6. ASSUME NEW a \in F PROVE b[a].size < up
  <2>1. a \in DOMAIN b BY <1>1, ShapeFacts
  <2>2. b[a].size \in Nat BY <1>2, <2>1, AddressFacts
  <2>3. b[a].size <= f /\ f \in Nat /\ b[a].size <= SizeMax \div 2 BY <1>1, BytesFacts
  <2>4. SizeMax \in Nat /\ SizeMax \div 2 \in Nat /\ SizeMax \div 2 <= SizeMax
    <3>1. SizeMax \in Nat BY ConstantFacts
    <3> QED BY <3>1
  <2>5. CASE need = 0 BY <1>3, <1>4, <2>2, <2>3, <2>4, <2>5
  <2>6. CASE need > 0 /\ ~(need <= SizeMax \div 2) BY <1>3, <1>4, <2>2, <2>3, <2>4, <2>6
  <2>7. CASE need > 0 /\ ~(need <= f) BY <1>3, <1>4, <2>2, <2>3, <2>7
  <2>8. CASE need > 0 /\ x = EndBlock
    <3>1. b[a].size < need BY <1>1, <1>3, <2>8, FirstFitFacts
    <3> QED BY <1>3, <2>8, <3>1
  <2> QED BY <1>3, <2>5, <2>6, <2>7, <2>8 DEF heapBLOCK_SIZE_IS_VALID
<1> QED BY <1>4, <1>5, <1>6 DEF room, up

(* vPortFree's first half sends a lent block into limbo.                   *)
LEMMA ReleaseFacts ==
    ASSUME NEW b, NEW f, NEW own, NEW L, NEW o, NEW x, NEW b1, NEW own1, NEW L1,
           Intact(b, f, own, L), o \in own, x = o.at - StructSize,
           Cleared(b, b1, x), own1 = own \ {o}, L1 = L \cup {x}
    PROVE  x \in Int /\ x # Null /\ x \notin L /\ Intact(b1, f, own1, L1)
<1> DEFINE F == FreeOf(b, L)
<1>1. /\ L \subseteq Blocks(b) /\ \A a \in L : ~b[a].used
      /\ Shape(b, F) /\ f = Cardinality(Bytes(b, F)) /\ Lends(b, own)
      /\ \A a : a \in F <=> a \in Blocks(b) /\ ~b[a].used /\ a \notin L
  BY DEF Intact, FreeOf
<1> HIDE DEF F
<1>2. x \in Blocks(b) /\ b[x].used BY <1>1 DEF Lends
<1>3. x \notin F /\ x \notin L BY <1>1, <1>2
<1>4. /\ DOMAIN b1 = DOMAIN b /\ Blocks(b1) = Blocks(b)
      /\ \A a \in DOMAIN b \ {x} : b1[a] = b[a]
      /\ ~b1[x].used /\ b1[x].size = b[x].size
      /\ Shape(b1, F) /\ Bytes(b1, F) = Bytes(b, F)
  BY <1>1, <1>2, <1>3, ClearFacts
<1>5. x \in Int /\ x # Null
  <2>1. x \in Nat BY <1>1, <1>2, AddressFacts DEF Shape
  <2> QED BY <2>1 DEF Null
<1>6. \A a \in Blocks(b) : a \in DOMAIN b BY DEF Blocks
<1>7. FreeOf(b1, L1) = F
  <2>1. ASSUME NEW a PROVE a \in FreeOf(b1, L1) <=> a \in F
    <3>1. a \in FreeOf(b1, L1) <=> a \in Blocks(b) /\ ~b1[a].used /\ a \notin L /\ a # x
      BY <1>4 DEF FreeOf
    <3>2. CASE a \in Blocks(b) /\ a # x
      <4>1. b1[a] = b[a] BY <1>4, <1>6, <3>2
      <4> QED BY <1>1, <3>1, <3>2, <4>1
    <3>3. CASE ~(a \in Blocks(b) /\ a # x) BY <1>1, <1>3, <3>1, <3>3
    <3> QED BY <3>2, <3>3
  <2> QED BY <2>1
<1>8. L1 \subseteq Blocks(b1) /\ \A a \in L1 : ~b1[a].used BY <1>1, <1>2, <1>4, <1>6
<1>9. Lends(b1, own1)
  <2>1. own \subseteq [at : Nat, size : Nat] /\ \A q, r \in own : q.at = r.at => q = r BY <1>1 DEF Lends
  <2>2. ASSUME NEW q \in own1
        PROVE  /\ q.at - StructSize \in Blocks(b1) /\ b1[q.at - StructSize].used
               /\ StructSize + q.size <= b1[q.at - StructSize].size
    <3> DEFINE a == q.at - StructSize
    <3>1. a \in Blocks(b) /\ b[a].used /\ StructSize + q.size <= b[a].size BY <1>1 DEF Lends
    <3>2. a # x
      <4>1. q.at \in Nat /\ o.at \in Nat /\ q.at # o.at BY <2>1
      <4> QED BY <4>1, ConstantFacts
    <3> HIDE DEF a
    <3>3. b1[a] = b[a] BY <1>4, <1>6, <3>1, <3>2
    <3> QED BY <1>4, <3>1, <3>3 DEF a
  <2> QED BY <2>1, <2>2 DEF Lends
<1>10. Bytes(b1, FreeOf(b1, L1)) = Bytes(b, F) BY <1>4, <1>7
<1>11. Shape(b1, FreeOf(b1, L1)) BY <1>4, <1>7
<1> QED BY <1>1, <1>3, <1>5, <1>8, <1>9, <1>10, <1>11 DEF Intact

(* Its second half takes the block out of limbo and onto the free list.    *)
LEMMA ReturnFacts ==
    ASSUME NEW b, NEW f, NEW own, NEW L, NEW x, NEW b1, NEW f1, NEW L1,
           Intact(b, f, own, L), pxEnd = EndBlock, x \in L,
           b1 = prvInsertBlockIntoFreeList(b, x), f1 = f + b[x].size, L1 = L \ {x}
    PROVE  Intact(b1, f1, own, L1)
<1> DEFINE F == FreeOf(b, L)
<1>1. /\ L \subseteq Blocks(b) /\ \A a \in L : ~b[a].used
      /\ Shape(b, F) /\ f = Cardinality(Bytes(b, F)) /\ Lends(b, own)
      /\ \A a : a \in F <=> a \in Blocks(b) /\ ~b[a].used /\ a \notin L
  BY DEF Intact, FreeOf
<1> HIDE DEF F
<1>2. x \in Blocks(b) /\ x \notin F /\ ~b[x].used /\ x \in DOMAIN b BY <1>1 DEF Blocks
<1>3. PICK gone, G : Inserted(b, F, b1, G, x, gone) BY <1>1, <1>2, InsertFacts
<1>4. /\ gone \subseteq F \cup {x} /\ DOMAIN b1 = DOMAIN b \ gone
      /\ G = (F \cup {x}) \ gone /\ Shape(b1, G)
      /\ \A a \in DOMAIN b \ (F \cup {x, Start}) : b1[a] = b[a]
      /\ Bytes(b1, G) = Bytes(b, F) \cup Span(b, x)
      /\ Bytes(b, F) \cap Span(b, x) = {}
  BY <1>3 DEF Inserted
<1>5. \A a : a \in Blocks(b1) <=> a \in Blocks(b) /\ a \notin gone BY <1>4 DEF Blocks
<1>6. \A a \in Blocks(b) : a \in DOMAIN b /\ a # Start BY DEF Blocks
<1>7. \A a \in G : ~b1[a].used BY <1>4, ShapeFacts
<1>8. \A a \in Blocks(b) : a \notin F /\ a # x => b1[a] = b[a] /\ a \notin gone /\ a \in Blocks(b1)
  BY <1>4, <1>5, <1>6
<1>9. FreeOf(b1, L1) = G
  <2>1. ASSUME NEW a PROVE a \in FreeOf(b1, L1) <=> a \in G
    <3>1. a \in FreeOf(b1, L1) <=> a \in Blocks(b1) /\ ~b1[a].used /\ (a \notin L \/ a = x)
      BY DEF FreeOf
    <3>2. CASE a \in F \/ a = x
      <4>1. a \in Blocks(b) /\ (a \notin L \/ a = x) BY <1>1, <1>2, <3>2
      <4>2. a \in G <=> a \notin gone BY <1>4, <3>2
      <4>3. a \in Blocks(b1) <=> a \notin gone BY <1>5, <4>1
      <4> QED BY <1>7, <3>1, <4>1, <4>2, <4>3
    <3>3. CASE a \in Blocks(b) /\ a \notin F /\ a # x BY <1>1, <1>4, <1>8, <3>1, <3>3
    <3>4. CASE a \notin Blocks(b) BY <1>1, <1>2, <1>4, <1>5, <3>1, <3>4
    <3> QED BY <3>2, <3>3, <3>4
  <2> QED BY <2>1
<1>10. L1 \subseteq Blocks(b1) /\ \A a \in L1 : ~b1[a].used
  <2>1. \A a \in L1 : a \in Blocks(b) /\ a \notin F /\ a # x /\ ~b[a].used BY <1>1
  <2> QED BY <1>8, <2>1
<1>11. Lends(b1, own)
  <2>1. own \subseteq [at : Nat, size : Nat] /\ \A q, r \in own : q.at = r.at => q = r BY <1>1 DEF Lends
  <2>2. ASSUME NEW q \in own
        PROVE  /\ q.at - StructSize \in Blocks(b1) /\ b1[q.at - StructSize].used
               /\ StructSize + q.size <= b1[q.at - StructSize].size
    <3> DEFINE a == q.at - StructSize
    <3>1. a \in Blocks(b) /\ b[a].used /\ StructSize + q.size <= b[a].size BY <1>1 DEF Lends
    <3> HIDE DEF a
    <3>2. a \notin F /\ a # x BY <1>1, <1>2, <3>1
    <3> QED BY <1>8, <3>1, <3>2 DEF a
  <2> QED BY <2>1, <2>2 DEF Lends
<1>12. f1 = Cardinality(Bytes(b1, G))
  <2> DEFINE S == Bytes(b, F)
             T == Span(b, x)
  <2>1. /\ IsFiniteSet(S) /\ IsFiniteSet(T) /\ Cardinality(S) \in Nat
        /\ Cardinality(T) = b[x].size
    BY <1>1, <1>2, BytesFacts
  <2>2. S \cap T = {} /\ Bytes(b1, G) = S \cup T /\ Cardinality(S) = f BY <1>1, <1>4
  <2>3. b[x].size \in Nat BY <1>1, <1>2, AddressFacts DEF Shape
  <2> HIDE DEF S, T
  <2>4. Cardinality(S \cup T) = Cardinality(S) + Cardinality(T) - Cardinality(S \cap T)
    BY <2>1, FS_Union
  <2>5. Cardinality(S \cap T) = 0 BY <2>2, FS_EmptySet
  <2>6. Cardinality(S \cup T) = f + b[x].size BY <2>1, <2>2, <2>3, <2>4, <2>5
  <2> QED BY <1>1, <2>1, <2>2, <2>3, <2>6
<1> QED BY <1>1, <1>4, <1>9, <1>10, <1>11, <1>12 DEF Intact

-----------------------------------------------------------------------------
(* What the invariant says of the heap.                                    *)
LEMMA InvIsSound == HeapInv => HeapSound
<1> SUFFICES ASSUME HeapInv PROVE HeapSound OBVIOUS
<1>1. EndBlock \in Nat /\ EndBlock # Null /\ HeapAt \in Nat /\ StructSize \in Nat /\ HeapSize \in Nat
      /\ HeapAt <= FirstBlock /\ FirstBlock \in Nat /\ EndBlock + StructSize <= HeapAt + HeapSize
      /\ Alignment \in Nat /\ StructSize > 0
  BY PlaceFacts, ConstantFacts DEF Null
<1>2. CASE pxEnd = Null
  <2>1. owned = {} BY <1>1, <1>2 DEF HeapInv
  <2> QED BY <1>2, <2>1 DEF HeapSound, HeapCanonical, AllocationsDisjoint
<1>3. CASE pxEnd # Null
  <2> DEFINE F == FreeOf(blk, Limbo)
             B == Blocks(blk)
  <2>1. pxEnd = EndBlock /\ Intact(blk, free, owned, Limbo) BY <1>3 DEF HeapInv
  <2>2. /\ Shape(blk, F) /\ free = Cardinality(Bytes(blk, F)) /\ Lends(blk, owned)
    BY <2>1 DEF Intact
  <2>3. /\ B = DOMAIN blk \ {Start, pxEnd} /\ F = {a \in B : ~blk[a].used} \ Limbo
    BY <2>1 DEF Blocks, FreeOf
  <2> HIDE DEF F, B
  <2>4. /\ Placed(blk) /\ Tiled(blk) /\ Linked(blk, F) /\ Apart(blk, F)
    BY <2>2 DEF Shape
  <2>5. /\ \A a \in B : a \in Nat /\ FirstBlock <= a /\ a < EndBlock /\ blk[a].size \in Nat /\ a \in DOMAIN blk
      BY <2>3, <2>4, AddressFacts DEF B
  <2>6. vPortGetHeapStats(blk).blocks = F BY <2>4, StatsFacts
  <2>7. HeapCanonical
    <3>1. ASSUME NEW a \in B
          PROVE  /\ a + blk[a].size \in B \cup {pxEnd} /\ a % Alignment = 0
                 /\ blk[a].size >= StructSize + Alignment
                 /\ \A c \in B : a < c => a + blk[a].size <= c
      <4>1. /\ a + blk[a].size \in DOMAIN blk /\ a % Alignment = 0
            /\ blk[a].size >= StructSize + Alignment
            /\ \A c \in B : a < c => a + blk[a].size <= c
        BY <2>4 DEF Tiled, B
      <4>2. a + blk[a].size # Start BY <1>1, <2>5, <4>1 DEF Start
      <4> QED BY <2>3, <4>1, <4>2
    <3>2. FirstBlock \in B BY <2>4, AddressFacts DEF B
    <3>3. \A a \in F : blk[a].next > a /\ a + blk[a].size \notin F
      <4>1. ASSUME NEW a \in F PROVE blk[a].next > a
        <5>1. a < blk[a].next BY <2>4 DEF Linked
        <5> QED BY <5>1
      <4> QED BY <2>4, <4>1 DEF Apart
    <3>4. free = Cardinality(UNION {a .. a + blk[a].size - 1 : a \in F}) BY <2>2 DEF Bytes, Span
    <3> QED BY <2>2, <2>3, <2>6, <3>1, <3>2, <3>3, <3>4 DEF HeapCanonical
  <2>8. AllocationsDisjoint
    <3>1. ASSUME NEW o \in owned
          PROVE  /\ o.at \in Nat /\ o.size \in Nat
                 /\ o.at - StructSize \in B
                 /\ StructSize + o.size <= blk[o.at - StructSize].size
      BY <2>2 DEF Lends, B
    <3>2. ASSUME NEW o \in owned
          PROVE  /\ o.at >= HeapAt /\ o.at + o.size <= HeapAt + HeapSize /\ o.at % Alignment = 0
                 /\ \A a \in DOMAIN blk \ {Start} :
                       a + StructSize <= o.at \/ o.at + o.size <= a
      <4> DEFINE x == o.at - StructSize
                 s == blk[x].size
      <4>1. /\ o.at \in Nat /\ o.size \in Nat /\ x \in B /\ StructSize + o.size <= s BY <3>1
      <4>2. x \in Nat /\ FirstBlock <= x /\ s \in Nat /\ x \in DOMAIN blk BY <2>5, <4>1
      <4>3. o.at = x + StructSize BY <1>1, <4>1
      <4>4. x % Alignment = 0 /\ \A c \in B : x < c => x + s <= c BY <2>4, <4>1 DEF Tiled, B
      <4>5. x + s <= EndBlock BY <2>2, <4>1, ShapeFacts DEF B
      <4> HIDE DEF x, s
      <4>6. o.at >= HeapAt BY <1>1, <4>2, <4>3
      <4>7. o.at + o.size <= x + s BY <1>1, <4>1, <4>2, <4>3
      <4>8. o.at + o.size <= HeapAt + HeapSize BY <1>1, <4>1, <4>2, <4>5, <4>7
      <4>9. o.at % Alignment = 0
        <5>1. StructSize % Alignment = 0 /\ StructSize \in Int /\ x \in Int BY <1>1, <4>2, ConstantFacts
        <5>2. (x + StructSize) % Alignment = 0 BY <4>4, <5>1, AlignedFacts
        <5> QED BY <4>3, <5>2
      <4>10. ASSUME NEW a \in DOMAIN blk \ {Start}
             PROVE  a + StructSize <= o.at \/ o.at + o.size <= a
        <5>1. a \in B \/ a = EndBlock BY <2>1, <2>3
        <5>2. a \in Nat BY <1>1, <2>5, <5>1
        <5>3. a <= x \/ x + s <= a BY <4>2, <4>4, <4>5, <5>1, <5>2
        <5> QED BY <1>1, <4>1, <4>2, <4>3, <4>7, <5>2, <5>3
      <4> QED BY <4>6, <4>8, <4>9, <4>10
    <3>3. ASSUME NEW o \in owned, NEW q \in owned \ {o}
          PROVE  o.at + o.size <= q.at \/ q.at + q.size <= o.at
      <4> DEFINE x == o.at - StructSize
                 y == q.at - StructSize
      <4>1. /\ o.at \in Nat /\ o.size \in Nat /\ x \in B
            /\ q.at \in Nat /\ q.size \in Nat /\ y \in B /\ q.at # o.at
        <5>1. q.at # o.at BY <2>2 DEF Lends
        <5> QED BY <3>1, <5>1
      <4>2. x \in DOMAIN blk \ {Start} /\ y \in DOMAIN blk \ {Start} BY <2>3, <4>1
      <4>3. y + StructSize <= o.at \/ o.at + o.size <= y BY <3>2, <4>2
      <4>4. x + StructSize <= q.at \/ q.at + q.size <= x BY <3>2, <4>2
      <4>5. o.at = x + StructSize /\ q.at = y + StructSize /\ x \in Int /\ y \in Int BY <1>1, <4>1
      <4> HIDE DEF x, y
      <4> QED BY <1>1, <4>1, <4>3, <4>4, <4>5
    <3> QED BY <3>2, <3>3 DEF AllocationsDisjoint
  <2> QED BY <2>7, <2>8 DEF HeapSound
<1> QED BY <1>2, <1>3

-----------------------------------------------------------------------------
(* Every step keeps the invariant.                                         *)

(* pvPortMalloc, the first call and the later ones, and pvPortCalloc.      *)
LEMMA AllocStep ==
    ASSUME NEW u \in Users, NEW want \in Nat, HeapInv, pvPortMalloc(u, want)
    PROVE  HeapInv'
<1> DEFINE b0   == IF pxEnd = Null THEN prvHeapInit ELSE blk
           f0   == IF pxEnd = Null THEN EndBlock - FirstBlock ELSE free
           need == BlockSize(want)
           p    == FirstFit(b0, need)
           x    == b0[p].next
           ok   == /\ heapBLOCK_SIZE_IS_VALID(need)
                   /\ need > 0 /\ need <= f0
                   /\ x # EndBlock
           b1   == Carve(b0, p, need)
           f1   == f0 - b1[x].size
           own1 == owned \cup {[at |-> x + StructSize, size |-> want]}
<1>1. Intact(b0, f0, owned, Limbo)
  <2>1. EndBlock # Null BY PlaceFacts DEF Null
  <2>2. CASE pxEnd = Null
    <3>1. owned = {} /\ Limbo = {} BY <2>1, <2>2 DEF HeapInv
    <3>2. b0 = prvHeapInit /\ f0 = EndBlock - FirstBlock BY <2>2
    <3> HIDE DEF b0, f0
    <3> QED BY <3>1, <3>2, InitIntact
  <2>3. CASE pxEnd # Null BY <2>3 DEF HeapInv
  <2> QED BY <2>2, <2>3
<1>2. /\ pxEnd' = EndBlock /\ blk' = (IF ok THEN b1 ELSE b0) /\ free' = (IF ok THEN f1 ELSE f0)
      /\ owned' = (IF ok THEN own1 ELSE owned)
      /\ failed' = (IF ok THEN NoFailure
                    ELSE [asked |-> want, room |-> vPortGetHeapStats(b0).largest])
      /\ freeing' = freeing
  BY DEF pvPortMalloc
<1>3. need = BlockSize(want) /\ p = FirstFit(b0, need) /\ x = b0[p].next /\ b1 = Carve(b0, p, need)
      /\ f1 = f0 - b1[x].size
      /\ own1 = owned \cup {[at |-> x + StructSize, size |-> want]}
  OBVIOUS
<1>4. ok => need > 0 /\ x # EndBlock OBVIOUS
<1>5. ~ok => ~(heapBLOCK_SIZE_IS_VALID(need) /\ need > 0 /\ need <= f0 /\ x # EndBlock) OBVIOUS
<1> HIDE DEF b0, f0, need, p, x, ok, b1, f1, own1
<1>7. Limbo' = Limbo BY <1>2 DEF Limbo
<1>8. Intact(blk', free', owned', Limbo')
  <2>1. CASE ok
    <3>1. Intact(b1, f1, own1, Limbo) BY <1>1, <1>3, <1>4, <2>1, AllocFacts
    <3> QED BY <1>2, <1>7, <2>1, <3>1
  <2>2. CASE ~ok BY <1>1, <1>2, <1>7, <2>2
  <2> QED BY <2>1, <2>2
<1>9. FailsOnlyWhenFull'
  <2>1. CASE ok BY <1>2, <2>1 DEF FailsOnlyWhenFull, NoFailure
  <2>2. CASE ~ok
    <3>1. failed'.asked = want /\ failed'.room = vPortGetHeapStats(b0).largest BY <1>2, <2>2
    <3>2. want # 0 => Up(want + StructSize) > vPortGetHeapStats(b0).largest
      BY <1>1, <1>3, <1>5, <2>2, FailFacts
    <3> QED BY <3>1, <3>2 DEF FailsOnlyWhenFull
  <2> QED BY <2>1, <2>2
<1>10. /\ freeing' \in [Users -> Int]
       /\ \A v, w \in Users : freeing'[v] = freeing'[w] => v = w \/ freeing'[v] = Null
  BY <1>2 DEF HeapInv
<1> QED BY <1>2, <1>8, <1>9, <1>10 DEF HeapInv

(* While the heap is not set up nothing is lent and nothing in limbo.      *)
LEMMA SetUp ==
    ASSUME HeapInv, owned # {} \/ Limbo # {}
    PROVE  pxEnd = EndBlock /\ Intact(blk, free, owned, Limbo)
BY DEF HeapInv

(* vPortFree up to where it suspends the scheduler.                        *)
LEMMA ReleaseStep ==
    ASSUME NEW u \in Users, HeapInv, vPortFree(u)
    PROVE  HeapInv'
<1>1. PICK o \in owned :
        /\ blk' = [blk EXCEPT ![o.at - StructSize].used = FALSE]
        /\ owned' = owned \ {o}
        /\ freeing' = [freeing EXCEPT ![u] = o.at - StructSize]
  BY DEF vPortFree
<1> DEFINE x == o.at - StructSize
<1>2. Cleared(blk, blk', x) BY <1>1 DEF Cleared
<1>3. freeing[u] = Null /\ failed' = NoFailure /\ pxEnd' = pxEnd /\ free' = free
      /\ owned' = owned \ {o} /\ freeing' = [freeing EXCEPT ![u] = x]
  BY <1>1 DEF vPortFree, BetweenCalls
<1>4. x = o.at - StructSize OBVIOUS
<1> HIDE DEF x
<1>5. /\ freeing \in [Users -> Int]
      /\ \A v, w \in Users : freeing[v] = freeing[w] => v = w \/ freeing[v] = Null
  BY DEF HeapInv
<1>6. pxEnd = EndBlock /\ Intact(blk, free, owned, Limbo) BY SetUp
<1> DEFINE L1 == Limbo \cup {x}
           own1 == owned \ {o}
<1>7. L1 = Limbo \cup {x} /\ own1 = owned \ {o} OBVIOUS
<1> HIDE DEF L1, own1
<1>8. x \in Int /\ x # Null /\ x \notin Limbo /\ Intact(blk', free, own1, L1)
  BY <1>2, <1>4, <1>6, <1>7, ReleaseFacts
<1>9. Limbo' = L1
  <2>1. \A v \in Users : freeing'[v] = IF v = u THEN x ELSE freeing[v] BY <1>3, <1>5
  <2>2. freeing'[u] = x BY <2>1
  <2> QED BY <1>3, <1>7, <1>8, <2>1 DEF Limbo
<1>10. Intact(blk', free', owned', Limbo')
  <2>1. owned' = own1 BY <1>3, <1>7
  <2> QED BY <1>3, <1>8, <1>9, <2>1
<1>11. FailsOnlyWhenFull' BY <1>3 DEF FailsOnlyWhenFull, NoFailure
<1>12. /\ freeing' \in [Users -> Int]
       /\ \A v, w \in Users : freeing'[v] = freeing'[w] => v = w \/ freeing'[v] = Null
  <2>1. freeing' \in [Users -> Int] BY <1>3, <1>5, <1>8
  <2>2. \A v \in Users : freeing'[v] = IF v = u THEN x ELSE freeing[v] BY <1>3, <1>5
  <2>3. \A v \in Users : freeing[v] # x BY <1>8 DEF Limbo
  <2> QED BY <1>5, <2>1, <2>2, <2>3
<1> QED BY <1>3, <1>6, <1>10, <1>11, <1>12 DEF HeapInv

(* vPortFree with the scheduler suspended.                                 *)
LEMMA ReturnStep ==
    ASSUME NEW u \in Users, HeapInv, FreeInsert(u)
    PROVE  HeapInv'
<1> DEFINE x == freeing[u]
           L1 == Limbo \ {x}
<1>1. /\ x # Null /\ free' = free + blk[x].size /\ blk' = prvInsertBlockIntoFreeList(blk, x)
      /\ freeing' = [freeing EXCEPT ![u] = Null] /\ failed' = NoFailure
      /\ pxEnd' = pxEnd /\ owned' = owned
  BY DEF FreeInsert
<1>2. /\ freeing \in [Users -> Int]
      /\ \A v, w \in Users : freeing[v] = freeing[w] => v = w \/ freeing[v] = Null
  BY DEF HeapInv
<1>3. x \in Limbo BY <1>1 DEF Limbo
<1>4. pxEnd = EndBlock /\ Intact(blk, free, owned, Limbo) BY <1>3, SetUp
<1>5. Limbo' = L1
  <2>1. \A v \in Users : freeing'[v] = IF v = u THEN Null ELSE freeing[v] BY <1>1, <1>2
  <2>2. \A v \in Users : v # u => freeing[v] # x BY <1>1, <1>2
  <2>3. ASSUME NEW a PROVE a \in Limbo' <=> a \in Limbo /\ a # x
    <3>1. a \in Limbo' <=> a # Null /\ \E v \in Users : freeing'[v] = a BY DEF Limbo
    <3>2. a \in Limbo <=> a # Null /\ \E v \in Users : freeing[v] = a BY DEF Limbo
    <3> HIDE DEF x
    <3>3. freeing[u] = x BY DEF x
    <3> QED BY <2>1, <2>2, <3>1, <3>2, <3>3
  <2> QED BY <2>3
<1>6. L1 = Limbo \ {x} OBVIOUS
<1> HIDE DEF x, L1
<1>7. Intact(blk', free', owned, L1)
  <2>1. /\ Intact(blk, free, owned, Limbo) /\ pxEnd = EndBlock /\ x \in Limbo
        /\ blk' = prvInsertBlockIntoFreeList(blk, x) /\ free' = free + blk[x].size
    BY <1>1, <1>3, <1>4
  <2>2. Intact(prvInsertBlockIntoFreeList(blk, x), free + blk[x].size, owned, Limbo \ {x})
    BY <2>1, ReturnFacts
  <2> QED BY <1>6, <2>1, <2>2
<1>8. FailsOnlyWhenFull' BY <1>1 DEF FailsOnlyWhenFull, NoFailure
<1>9. /\ freeing' \in [Users -> Int]
      /\ \A v, w \in Users : freeing'[v] = freeing'[w] => v = w \/ freeing'[v] = Null
  <2>1. Null \in Int BY DEF Null
  <2>2. freeing' \in [Users -> Int] BY <1>1, <1>2, <2>1
  <2>3. \A v \in Users : freeing'[v] = IF v = u THEN Null ELSE freeing[v] BY <1>1, <1>2
  <2> QED BY <1>2, <2>2, <2>3
<1> QED BY <1>1, <1>4, <1>5, <1>7, <1>8, <1>9 DEF HeapInv

(* The reset of the minimum, by its load and its store, touches neither    *)
(* the headers nor the count of free bytes.                                *)
LEMMA ResetStep ==
    ASSUME NEW u \in Users, HeapInv,
           xPortResetHeapMinimumEverFreeHeapSize(u) \/ StoreMinimum(u)
    PROVE  HeapInv'
<1>1. /\ failed' = NoFailure /\ blk' = blk /\ pxEnd' = pxEnd /\ free' = free
      /\ owned' = owned /\ freeing' = freeing
  BY DEF xPortResetHeapMinimumEverFreeHeapSize, StoreMinimum
<1>2. Limbo' = Limbo BY <1>1 DEF Limbo
<1>3. FailsOnlyWhenFull' BY <1>1 DEF FailsOnlyWhenFull, NoFailure
<1> QED BY <1>1, <1>2, <1>3 DEF HeapInv

-----------------------------------------------------------------------------
(* The theorems.                                                           *)

(* The invariant holds throughout, for every heap, every size of header    *)
(* and alignment, and any number of tasks half way through a call.         *)
THEOREM HeapInvariant == HeapSpec => []HeapInv
<1>1. HeapInit => HeapInv
  <2> SUFFICES ASSUME HeapInit PROVE HeapInv OBVIOUS
  <2>1. \A u \in Users : freeing[u] = Null BY DEF HeapInit
  <2>2. Limbo = {} BY <2>1 DEF Limbo
  <2>3. freeing \in [Users -> Int] BY DEF HeapInit, Null
  <2>4. FailsOnlyWhenFull BY DEF HeapInit, FailsOnlyWhenFull, NoFailure
  <2> QED BY <2>1, <2>2, <2>3, <2>4 DEF HeapInit, HeapInv
<1>2. HeapInv /\ [HeapNext]_heapVars => HeapInv'
  <2> SUFFICES ASSUME HeapInv, [HeapNext]_heapVars PROVE HeapInv' OBVIOUS
  <2>1. ASSUME NEW u \in Users, Malloc(u) PROVE HeapInv'
    <3>1. PICK n \in Sizes : pvPortMalloc(u, n) BY <2>1 DEF Malloc
    <3>2. n \in Nat BY HeapAssumption
    <3> QED BY <3>1, <3>2, AllocStep
  <2>2. ASSUME NEW u \in Users, pvPortCalloc(u) PROVE HeapInv'
    <3>1. PICK n \in Sizes, m \in Sizes : pvPortMalloc(u, n * m) BY <2>2 DEF pvPortCalloc
    <3>2. n \in Nat /\ m \in Nat BY HeapAssumption
    <3>3. n * m \in Nat BY <3>2
    <3> QED BY <3>1, <3>3, AllocStep
  <2>3. ASSUME NEW u \in Users, vPortFree(u) PROVE HeapInv' BY <2>3, ReleaseStep
  <2>4. ASSUME NEW u \in Users, FreeInsert(u) PROVE HeapInv' BY <2>4, ReturnStep
  <2>5. ASSUME NEW u \in Users, xPortResetHeapMinimumEverFreeHeapSize(u) \/ StoreMinimum(u)
        PROVE  HeapInv'
    BY <2>5, ResetStep
  <2>6. CASE UNCHANGED heapVars
    <3>1. /\ blk' = blk /\ pxEnd' = pxEnd /\ free' = free /\ owned' = owned
          /\ freeing' = freeing /\ failed' = failed
      BY <2>6 DEF heapVars
    <3>2. Limbo' = Limbo BY <3>1 DEF Limbo
    <3> QED BY <3>1, <3>2 DEF HeapInv, FailsOnlyWhenFull
  <2> QED BY <2>1, <2>2, <2>3, <2>4, <2>5, <2>6 DEF HeapNext
<1> QED BY <1>1, <1>2, PTL DEF HeapSpec

(* The heap is tiled by its blocks, the free list holds the free ones in   *)
(* order with no two touching, xFreeBytesRemaining counts their bytes, and *)
(* what is lent overlaps nothing, with any number of calls half done.      *)
THEOREM HeapIsSound == HeapSpec => []HeapSound
<1>1. HeapInv => HeapSound BY InvIsSound
<1> QED BY <1>1, HeapInvariant, PTL

(* An allocation of something fails only if no one free block is large     *)
(* enough for it with its header, padded to the alignment.                 *)
THEOREM FailsOnlyWhenHeapIsFull == HeapSpec => []FailsOnlyWhenFull
<1>1. HeapInv => FailsOnlyWhenFull BY DEF HeapInv
<1> QED BY <1>1, HeapInvariant, PTL
=============================================================================
