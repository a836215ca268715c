---------------------------- MODULE QueueProofs ----------------------------
(***************************************************************************)
(* The queues of queue.c are bounded first-in first-out queues: for any    *)
(* tasks, queues, lengths, items and queue sets, and whatever the          *)
(* scheduler does between the steps of a call.                             *)
(***************************************************************************)
EXTENDS Queues, SequenceTheorems, WellFoundedInduction, TLAPS

-----------------------------------------------------------------------------
(* A ring of n places.                                                     *)

Goods   == (UNION {l.msgs : l \in Loads}) \cup QueueIds
Size(x) == load.kinds[x].len

Controls(n) ==
    [count : Int, store : [0 .. n - 1 -> Goods \cup {NoQueue}],
     write : 0 .. n - 1, read : 0 .. n - 1,
     tx : Nat \cup {Unlocked}, rx : Nat \cup {Unlocked},
     holder : Tasks \cup {NoQueue}, depth : Int]

(* a % n for an a that is no more than three turns away.                   *)
Low(a, n) == IF a < n THEN a ELSE IF a < 2 * n THEN a - n ELSE a - 2 * n

(* The items lie behind the one last read, and the place to write next     *)
(* behind them.                                                            *)
Ring(z, n) ==
    /\ z.count \in 0 .. n
    /\ z.write = Low(z.read + z.count + 1, n)
    /\ \A i \in 1 .. z.count : z.store[Low(z.read + i, n)] \in Goods

Inside(z, n) == [i \in 1 .. z.count |-> z.store[Low(z.read + i, n)]]

LEMMA LowIsRest ==
    ASSUME NEW m \in Nat \ {0}, NEW a \in 0 .. 3 * m - 1
    PROVE  a % m = Low(a, m) /\ Low(a, m) \in 0 .. m - 1
<1>1. CASE a < m BY <1>1 DEF Low
<1>2. CASE ~(a < m) /\ a < 2 * m
  <2>1. a - m \in 0 .. m - 1 BY <1>2
  <2>2. a = 1 * m + (a - m) OBVIOUS
  <2> QED BY <1>2, <2>1, <2>2 DEF Low
<1>3. CASE ~(a < m) /\ ~(a < 2 * m)
  <2>1. a - 2 * m \in 0 .. m - 1 BY <1>3
  <2>2. a = 2 * m + (a - 2 * m) OBVIOUS
  <2> QED BY <1>3, <2>1, <2>2 DEF Low
<1> QED BY <1>1, <1>2, <1>3

(* What the record of a ring holds.                                        *)
LEMMA RingParts ==
    ASSUME NEW n \in Nat \ {0}, NEW z \in Controls(n)
    PROVE  /\ z.read \in 0 .. n - 1 /\ z.write \in 0 .. n - 1
           /\ z.store \in [0 .. n - 1 -> Goods \cup {NoQueue}]
BY DEF Controls

LEMMA InsideFacts ==
    ASSUME NEW n \in Nat \ {0}, NEW z \in Controls(n), Ring(z, n)
    PROVE  /\ Inside(z, n) \in Seq(Goods) /\ Len(Inside(z, n)) = z.count
           /\ \A i \in 1 .. z.count : Inside(z, n)[i] = z.store[Low(z.read + i, n)]
<1> DEFINE c == z.count
           f(i) == z.store[Low(z.read + i, n)]
<1>1. c \in Nat /\ \A i \in 1 .. c : f(i) \in Goods BY DEF Ring
<1>2. Inside(z, n) = [i \in 1 .. c |-> f(i)] BY DEF Inside
<1> HIDE DEF c, f
<1>3. /\ Inside(z, n) \in Seq(Goods) /\ Len(Inside(z, n)) = c
      /\ \A i \in 1 .. c : Inside(z, n)[i] = f(i)
  BY <1>1, <1>2
<1> QED BY <1>3 DEF c, f

(* An item at the back.                                                    *)
LEMMA RingBack ==
    ASSUME NEW n \in Nat \ {0}, NEW z \in Controls(n), Ring(z, n), z.count < n,
           NEW v \in Goods, NEW y \in Controls(n),
           y.store = [z.store EXCEPT ![z.write] = v], y.write = Low(z.write + 1, n),
           y.count = z.count + 1, y.read = z.read
    PROVE  Ring(y, n) /\ Inside(y, n) = Append(Inside(z, n), v)
<1> DEFINE r == z.read
           c == z.count
           s == z.store
           w == z.write
           sy == y.store
           At_(i) == Low(r + i, n)
<1>1. r \in 0 .. n - 1 /\ w \in 0 .. n - 1 /\ s \in [0 .. n - 1 -> Goods \cup {NoQueue}]
  BY RingParts
<1>2. /\ c \in 0 .. n - 1 /\ w = Low(r + c + 1, n)
      /\ \A i \in 1 .. c : s[At_(i)] \in Goods
  BY DEF Ring
<1>3. y.read = r /\ y.count = c + 1 /\ sy = [s EXCEPT ![w] = v] /\ y.write = Low(w + 1, n)
  OBVIOUS
<1> HIDE DEF r, c, s, w, sy
<1>4. w = At_(c + 1) /\ y.write = Low(r + (c + 1) + 1, n) BY <1>1, <1>2, <1>3 DEF Low
<1>5. \A i \in 1 .. c : At_(i) \in 0 .. n - 1 /\ At_(i) # w BY <1>1, <1>2 DEF Low
<1> HIDE DEF At_
<1>6. sy[w] = v /\ \A i \in 1 .. c : sy[At_(i)] = s[At_(i)] BY <1>1, <1>3, <1>5
<1>7. \A i \in 1 .. c + 1 : i \in 1 .. c \/ i = c + 1 BY <1>2
<1>8. \A i \in 1 .. c + 1 : sy[At_(i)] \in Goods BY <1>2, <1>4, <1>6, <1>7
<1>9. Ring(y, n) BY <1>2, <1>3, <1>4, <1>8 DEF Ring, At_, sy
<1> DEFINE u == Inside(y, n)
           o == Inside(z, n)
           a == Append(o, v)
<1>10. u \in Seq(Goods) /\ Len(u) = c + 1 /\ \A i \in 1 .. c + 1 : u[i] = sy[At_(i)]
  <2>1. /\ u \in Seq(Goods) /\ Len(u) = y.count
        /\ \A i \in 1 .. y.count : u[i] = y.store[Low(y.read + i, n)]
    BY <1>9, InsideFacts
  <2> HIDE DEF u
  <2> QED BY <1>3, <2>1 DEF At_, sy
<1>11. o \in Seq(Goods) /\ Len(o) = c /\ \A i \in 1 .. c : o[i] = s[At_(i)]
  BY InsideFacts DEF c, r, s, At_
<1> HIDE DEF u, o
<1>12. a \in Seq(Goods) /\ Len(a) = c + 1 /\ a[c + 1] = v /\ \A i \in 1 .. c : a[i] = o[i]
  BY <1>11
<1> HIDE DEF a
<1>13. \A i \in 1 .. c + 1 : u[i] = a[i]
  <2> TAKE i \in 1 .. c + 1
  <2>1. u[i] = sy[At_(i)] BY <1>10
  <2>2. CASE i \in 1 .. c
    <3>1. sy[At_(i)] = s[At_(i)] /\ o[i] = s[At_(i)] BY <1>6, <1>11, <2>2
    <3>2. a[i] = o[i] BY <1>12, <2>2
    <3> QED BY <2>1, <3>1, <3>2
  <2>3. CASE i = c + 1 BY <1>4, <1>6, <1>12, <2>1, <2>3
  <2> QED BY <1>7, <2>2, <2>3
<1>14. u = a BY <1>2, <1>10, <1>12, <1>13, SeqEqual
<1> QED BY <1>9, <1>14 DEF u, a, o

(* An item at the front.                                                   *)
LEMMA RingFront ==
    ASSUME NEW n \in Nat \ {0}, NEW z \in Controls(n), Ring(z, n), z.count < n,
           NEW v \in Goods, NEW y \in Controls(n),
           y.store = [z.store EXCEPT ![z.read] = v], y.read = Low(z.read + n - 1, n),
           y.count = z.count + 1, y.write = z.write
    PROVE  /\ Ring(y, n) /\ Inside(y, n) # <<>>
           /\ Head(Inside(y, n)) = v /\ Tail(Inside(y, n)) = Inside(z, n)
<1> DEFINE r == z.read
           c == z.count
           s == z.store
           sy == y.store
           p == y.read
           At_(i) == Low(r + i, n)
           New(i) == Low(p + i, n)
<1>1. r \in 0 .. n - 1 /\ p \in 0 .. n - 1 /\ s \in [0 .. n - 1 -> Goods \cup {NoQueue}]
  BY RingParts
<1>2. /\ c \in 0 .. n - 1 /\ z.write = Low(r + c + 1, n)
      /\ \A i \in 1 .. c : s[At_(i)] \in Goods
  BY DEF Ring
<1>3. y.count = c + 1 /\ sy = [s EXCEPT ![r] = v] /\ y.write = z.write /\ p = Low(r + n - 1, n)
  OBVIOUS
<1> HIDE DEF r, c, s, p, sy
<1>4. New(1) = r /\ y.write = Low(p + (c + 1) + 1, n) BY <1>1, <1>2, <1>3 DEF Low
<1>5. \A i \in 1 .. c : New(i + 1) = At_(i) BY <1>1, <1>2, <1>3 DEF Low
<1>6. \A i \in 1 .. c : At_(i) \in 0 .. n - 1 /\ At_(i) # r BY <1>1, <1>2 DEF Low
<1> HIDE DEF At_, New
<1>7. sy[r] = v /\ \A i \in 1 .. c : sy[At_(i)] = s[At_(i)] BY <1>1, <1>3, <1>6
<1>8. \A i \in 1 .. c + 1 : i = 1 \/ (i - 1 \in 1 .. c /\ (i - 1) + 1 = i) BY <1>2
<1>9. ASSUME NEW i \in 1 .. c + 1 PROVE sy[New(i)] \in Goods
  <2>1. CASE i = 1 BY <1>4, <1>7, <2>1
  <2>2. CASE i # 1
    <3> DEFINE j == i - 1
    <3>1. j \in 1 .. c /\ j + 1 = i BY <1>8, <2>2
    <3> HIDE DEF j
    <3> QED BY <1>2, <1>5, <1>7, <3>1
  <2> QED BY <2>1, <2>2
<1>10. Ring(y, n) BY <1>2, <1>3, <1>4, <1>9 DEF Ring, New, sy, p
<1> DEFINE u == Inside(y, n)
           o == Inside(z, n)
           a == Tail(u)
<1>11. u \in Seq(Goods) /\ Len(u) = c + 1 /\ \A i \in 1 .. c + 1 : u[i] = sy[New(i)]
  <2>1. /\ u \in Seq(Goods) /\ Len(u) = y.count
        /\ \A i \in 1 .. y.count : u[i] = y.store[Low(y.read + i, n)]
    BY <1>10, InsideFacts
  <2> HIDE DEF u
  <2> QED BY <1>3, <2>1 DEF New, sy, p
<1>12. o \in Seq(Goods) /\ Len(o) = c /\ \A i \in 1 .. c : o[i] = s[At_(i)]
  BY InsideFacts DEF c, r, s, At_
<1> HIDE DEF u, o
<1>13. u # <<>> /\ Head(u) = u[1] BY <1>2, <1>11
<1>14. Head(u) = v BY <1>2, <1>4, <1>7, <1>11, <1>13
<1>15. a \in Seq(Goods) /\ Len(a) = c /\ \A i \in 1 .. c : a[i] = u[i + 1] BY <1>2, <1>11, <1>13
<1> HIDE DEF a
<1>16. \A i \in 1 .. c : i + 1 \in 1 .. c + 1 BY <1>2
<1>17. \A i \in 1 .. c : a[i] = o[i]
  <2> TAKE i \in 1 .. c
  <2>1. a[i] = u[i + 1] /\ u[i + 1] = sy[New(i + 1)] BY <1>11, <1>15, <1>16
  <2> QED BY <1>5, <1>7, <1>12, <2>1
<1>18. a = o BY <1>2, <1>12, <1>15, <1>17, SeqEqual
<1> QED BY <1>10, <1>13, <1>14, <1>18 DEF u, o, a

(* The only item replaced.                                                 *)
LEMMA RingOver ==
    ASSUME NEW z \in Controls(1), Ring(z, 1), NEW v \in Goods, NEW y \in Controls(1),
           y.store = [z.store EXCEPT ![z.read] = v], y.count = 1, y.write = z.write
    PROVE  Ring(y, 1) /\ Inside(y, 1) # <<>> /\ Head(Inside(y, 1)) = v
<1>1. /\ z.read = 0 /\ y.read = 0 /\ y.write = 0
      /\ z.store \in [0 .. 0 -> Goods \cup {NoQueue}]
  BY RingParts
<1>2. y.store[0] = v BY <1>1
<1>3. Low(0 + 1, 1) = 0 /\ Low(0 + 1 + 1, 1) = 0 BY DEF Low
<1>4. \A i \in 1 .. 1 : i = 1 OBVIOUS
<1>5. Ring(y, 1) BY <1>1, <1>2, <1>3, <1>4 DEF Ring
<1> DEFINE u == Inside(y, 1)
<1>6. u \in Seq(Goods) /\ Len(u) = 1 /\ u[1] = v
  <2>1. u \in Seq(Goods) /\ Len(u) = 1 /\ \A i \in 1 .. 1 : u[i] = y.store[Low(y.read + i, 1)]
    BY <1>1, <1>5, 1 \in Nat \ {0}, InsideFacts
  <2> HIDE DEF u
  <2>2. u[1] = y.store[Low(0 + 1, 1)] BY <1>1, <2>1
  <2> QED BY <1>2, <1>3, <2>1, <2>2
<1> HIDE DEF u
<1>7. u # <<>>
  <2>1. ASSUME u = <<>> PROVE FALSE
    <3>1. Len(u) = 0 BY <2>1
    <3> QED BY <1>6, <3>1
  <2> QED BY <2>1
<1>8. Head(u) = v BY <1>6, <1>7
<1> QED BY <1>5, <1>7, <1>8 DEF u

(* The first item taken.                                                   *)
LEMMA RingTake ==
    ASSUME NEW n \in Nat \ {0}, NEW z \in Controls(n), Ring(z, n), z.count # 0,
           NEW y \in Controls(n), y.read = Low(z.read + 1, n),
           y.store = [z.store EXCEPT ![y.read] = NoQueue],
           y.count = z.count - 1, y.write = z.write
    PROVE  /\ Ring(y, n) /\ Inside(z, n) # <<>> /\ Inside(y, n) = Tail(Inside(z, n))
           /\ z.store[Low(z.read + 1, n)] = Head(Inside(z, n))
<1> DEFINE r == z.read
           c == z.count
           s == z.store
           sy == y.store
           p == y.read
           At_(i) == Low(r + i, n)
           New(i) == Low(p + i, n)
<1>1. r \in 0 .. n - 1 /\ p \in 0 .. n - 1 /\ s \in [0 .. n - 1 -> Goods \cup {NoQueue}]
  BY RingParts
<1>2. /\ c \in 1 .. n /\ z.write = Low(r + c + 1, n)
      /\ \A i \in 1 .. c : s[At_(i)] \in Goods
  BY DEF Ring
<1>3. y.count = c - 1 /\ sy = [s EXCEPT ![p] = NoQueue] /\ y.write = z.write /\ p = Low(r + 1, n)
  OBVIOUS
<1> HIDE DEF r, c, s, p, sy
<1>4. y.write = Low(p + (c - 1) + 1, n) /\ At_(1) = p BY <1>1, <1>2, <1>3 DEF Low
<1>5. \A i \in 1 .. c - 1 : New(i) = At_(i + 1) BY <1>1, <1>2, <1>3 DEF Low
<1>6. \A i \in 1 .. c - 1 : At_(i + 1) \in 0 .. n - 1 /\ At_(i + 1) # p BY <1>1, <1>2, <1>3 DEF Low
<1> HIDE DEF At_, New
<1>7. \A i \in 1 .. c - 1 : sy[New(i)] = s[At_(i + 1)] BY <1>1, <1>3, <1>5, <1>6
<1>8. \A i \in 1 .. c - 1 : i + 1 \in 1 .. c BY <1>2
<1>9. \A i \in 1 .. c - 1 : sy[New(i)] \in Goods BY <1>2, <1>7, <1>8
<1>10. c - 1 \in 0 .. n BY <1>2
<1>11. Ring(y, n) BY <1>3, <1>4, <1>9, <1>10 DEF Ring, New, sy, p
<1> DEFINE u == Inside(y, n)
           o == Inside(z, n)
           a == Tail(o)
<1>12. u \in Seq(Goods) /\ Len(u) = c - 1 /\ \A i \in 1 .. c - 1 : u[i] = sy[New(i)]
  <2>1. /\ u \in Seq(Goods) /\ Len(u) = y.count
        /\ \A i \in 1 .. y.count : u[i] = y.store[Low(y.read + i, n)]
    BY <1>11, InsideFacts
  <2> HIDE DEF u
  <2> QED BY <1>3, <2>1 DEF New, sy, p
<1>13. o \in Seq(Goods) /\ Len(o) = c /\ \A i \in 1 .. c : o[i] = s[At_(i)]
  BY InsideFacts DEF c, r, s, At_
<1> HIDE DEF u, o
<1>14. o # <<>> /\ Head(o) = o[1] /\ 1 \in 1 .. c BY <1>2, <1>13
<1>15. Head(o) = s[p] BY <1>4, <1>13, <1>14
<1>16. a \in Seq(Goods) /\ Len(a) = c - 1 /\ \A i \in 1 .. c - 1 : a[i] = o[i + 1]
  BY <1>2, <1>13, <1>14
<1> HIDE DEF a
<1>17. \A i \in 1 .. c - 1 : u[i] = a[i]
  <2> TAKE i \in 1 .. c - 1
  <2>1. u[i] = sy[New(i)] /\ sy[New(i)] = s[At_(i + 1)] BY <1>7, <1>12
  <2>2. a[i] = o[i + 1] /\ i + 1 \in 1 .. c BY <1>8, <1>16
  <2>3. o[i + 1] = s[At_(i + 1)] BY <1>13, <2>2
  <2> QED BY <2>1, <2>2, <2>3
<1>18. u = a BY <1>10, <1>12, <1>16, <1>17, SeqEqual
<1> QED BY <1>3, <1>11, <1>14, <1>15, <1>18 DEF u, o, a, s, r

-----------------------------------------------------------------------------
(* Changes of a sequence.                                                  *)

(* v has been put behind u, once or several times or not at all.           *)
Told(u, w, v, n) ==
    /\ w \in Seq(Goods) /\ Len(u) <= Len(w) /\ Len(w) <= n
    /\ \A i \in 1 .. Len(u) : w[i] = u[i]
    /\ \A i \in Len(u) + 1 .. Len(w) : w[i] = v

Grown(u, w, n) ==
    /\ Len(w) > Len(u) /\ Len(w) <= n
    /\ SubSeq(w, 1, Len(u)) = u
    /\ \A i \in Len(u) + 1 .. Len(w) : w[i] = Last(w) /\ w[i] \in Goods
Fronted(u, w, n) == Len(u) < n /\ w # <<>> /\ Head(w) \in Goods /\ Tail(w) = u
Overwritten(w, n) == n = 1 /\ w # <<>> /\ Head(w) \in Goods
Puts(u, w, n) == w = u \/ Grown(u, w, n) \/ Fronted(u, w, n) \/ Overwritten(w, n)

LEMMA ToldNothing ==
    ASSUME NEW n \in Nat, NEW u \in Seq(Goods), Len(u) <= n, NEW v
    PROVE  Told(u, u, v, n)
BY DEF Told

LEMMA ToldAgain ==
    ASSUME NEW n \in Nat, NEW u \in Seq(Goods), NEW v \in Goods, NEW w,
           Told(u, w, v, n), Len(w) < n
    PROVE  Told(u, Append(w, v), v, n)
<1> DEFINE a == Append(w, v)
<1>1. /\ w \in Seq(Goods) /\ Len(u) <= Len(w) /\ Len(u) \in Nat /\ Len(w) \in Nat
      /\ \A i \in 1 .. Len(u) : w[i] = u[i]
      /\ \A i \in Len(u) + 1 .. Len(w) : w[i] = v
  BY DEF Told
<1>2. a \in Seq(Goods) /\ Len(a) = Len(w) + 1 /\ a[Len(w) + 1] = v
  BY <1>1
<1>3. \A i \in 1 .. Len(w) : a[i] = w[i] BY <1>1
<1> HIDE DEF a
<1>4. \A i \in 1 .. Len(u) : a[i] = u[i] BY <1>1, <1>3
<1>5. ASSUME NEW i \in Len(u) + 1 .. Len(a) PROVE a[i] = v
  <2>1. i = Len(w) + 1 \/ (i \in 1 .. Len(w) /\ i \in Len(u) + 1 .. Len(w)) BY <1>1, <1>2
  <2> QED BY <1>1, <1>2, <1>3, <2>1
<1>6. Told(u, a, v, n) BY <1>1, <1>2, <1>4, <1>5 DEF Told
<1> QED BY <1>6 DEF a

LEMMA ToldPuts ==
    ASSUME NEW n \in Nat, NEW u \in Seq(Goods), NEW v \in Goods, NEW w, Told(u, w, v, n)
    PROVE  Puts(u, w, n)
<1>1. /\ w \in Seq(Goods) /\ Len(u) <= Len(w) /\ Len(u) \in Nat /\ Len(w) \in Nat /\ Len(w) <= n
      /\ \A i \in 1 .. Len(u) : w[i] = u[i]
      /\ \A i \in Len(u) + 1 .. Len(w) : w[i] = v
  BY DEF Told
<1>2. CASE Len(w) = Len(u)
  <2>1. w = u BY <1>1, <1>2, SeqEqual
  <2> QED BY <2>1 DEF Puts
<1>3. CASE Len(w) # Len(u)
  <2>1. Len(w) > Len(u) /\ Len(w) \in Len(u) + 1 .. Len(w) BY <1>1, <1>3
  <2>2. Last(w) = v BY <1>1, <2>1 DEF Last
  <2>3. SubSeq(w, 1, Len(u)) = u
    <3> DEFINE a == SubSeq(w, 1, Len(u))
    <3>1. a \in Seq(Goods) /\ Len(a) = Len(u) /\ \A i \in 1 .. Len(u) : a[i] = w[i]
      BY <1>1
    <3> HIDE DEF a
    <3>2. \A i \in 1 .. Len(u) : a[i] = u[i] BY <1>1, <3>1
    <3>3. a = u BY <3>1, <3>2, SeqEqual
    <3> QED BY <3>3 DEF a
  <2>4. Grown(u, w, n) BY <1>1, <2>1, <2>2, <2>3 DEF Grown
  <2> QED BY <2>4 DEF Puts
<1> QED BY <1>2, <1>3

-----------------------------------------------------------------------------
(* All the queues.                                                         *)

SetOf(x) == load.kinds[x].set

Right(qq) ==
    /\ load \in Loads
    /\ qq = [x \in QueueIds |-> qq[x]]
    /\ \A x \in QueueIds : /\ qq[x] \in Controls(Size(x))
                           /\ Sized(x) => Ring(qq[x], Size(x))

InsideOf(z, x) == IF Sized(x) THEN Inside(z, Size(x)) ELSE <<>>
Contents(qq)   == [x \in QueueIds |-> InsideOf(qq[x], x)]

(* Everywhere but at x the queues rr are the queues qq.                    *)
Only(qq, rr, x) ==
    /\ Right(rr)
    /\ \A y \in QueueIds \ {x} : rr[y] = qq[y] /\ Contents(rr)[y] = Contents(qq)[y]

LEMMA KindFacts ==
    ASSUME load \in Loads, NEW x \in QueueIds
    PROVE  Size(x) \in Nat \ {0} /\ SetOf(x) \in (QueueIds \ {x}) \cup {NoQueue}
BY QueueAssumption DEF Size, SetOf

LEMMA ContentsType ==
    ASSUME NEW qq, Right(qq), NEW x \in QueueIds
    PROVE  Contents(qq)[x] \in Seq(Goods) /\ Len(Contents(qq)[x]) <= Size(x)
<1>1. Size(x) \in Nat \ {0} BY KindFacts DEF Right
<1>2. qq[x] \in Controls(Size(x)) /\ (Sized(x) => Ring(qq[x], Size(x))) BY DEF Right
<1>3. CASE Sized(x)
  <2>1. Contents(qq)[x] = Inside(qq[x], Size(x)) BY <1>3 DEF Contents, InsideOf
  <2>2. qq[x].count <= Size(x) BY <1>1, <1>2, <1>3 DEF Ring
  <2>3. Inside(qq[x], Size(x)) \in Seq(Goods) /\ Len(Inside(qq[x], Size(x))) = qq[x].count
    BY <1>1, <1>2, <1>3, InsideFacts
  <2> QED BY <2>1, <2>2, <2>3
<1>4. CASE ~Sized(x)
  <2>1. Contents(qq)[x] = <<>> BY <1>4 DEF Contents, InsideOf
  <2> QED BY <1>1, <2>1
<1> QED BY <1>3, <1>4

(* One queue replaced.                                                     *)
Swapped(qq, rr, x, y) == rr = [qq EXCEPT ![x] = y]

LEMMA Replace ==
    ASSUME NEW qq, Right(qq), NEW x \in QueueIds, NEW y \in Controls(Size(x)),
           Sized(x) => Ring(y, Size(x)), NEW rr, Swapped(qq, rr, x, y)
    PROVE  Only(qq, rr, x) /\ rr[x] = y /\ Contents(rr)[x] = InsideOf(y, x)
<1>1. /\ load \in Loads /\ qq = [z \in QueueIds |-> qq[z]]
      /\ \A z \in QueueIds : qq[z] \in Controls(Size(z)) /\ (Sized(z) => Ring(qq[z], Size(z)))
  BY DEF Right
<1>2. /\ rr = [z \in QueueIds |-> rr[z]] /\ rr[x] = y
      /\ \A z \in QueueIds \ {x} : rr[z] = qq[z]
  BY <1>1 DEF Swapped
<1>3. Right(rr)
  <2>1. \A z \in QueueIds : rr[z] \in Controls(Size(z)) /\ (Sized(z) => Ring(rr[z], Size(z)))
    <3> TAKE z \in QueueIds
    <3>1. CASE z = x BY <1>2, <3>1
    <3>2. CASE z # x BY <1>1, <1>2, <3>2
    <3> QED BY <3>1, <3>2
  <2> QED BY <1>1, <1>2, <2>1 DEF Right
<1>4. \A z \in QueueIds : Contents(rr)[z] = InsideOf(rr[z], z) /\ Contents(qq)[z] = InsideOf(qq[z], z)
  BY DEF Contents
<1> QED BY <1>2, <1>3, <1>4 DEF Only

(* A change that leaves a queue's ring alone leaves what is in it alone.   *)
SameRing(z, y) == y.count = z.count /\ y.store = z.store /\ y.read = z.read /\ y.write = z.write

LEMMA Untouched ==
    ASSUME NEW qq, Right(qq), NEW x \in QueueIds, NEW y \in Controls(Size(x)),
           Sized(x) => SameRing(qq[x], y), NEW rr, Swapped(qq, rr, x, y)
    PROVE  Only(qq, rr, x) /\ rr[x] = y /\ Contents(rr) = Contents(qq)
<1>1. Sized(x) => Ring(qq[x], Size(x)) BY DEF Right
<1>2. Sized(x) => Ring(y, Size(x)) BY <1>1 DEF Ring, SameRing
<1>3. Only(qq, rr, x) /\ rr[x] = y /\ Contents(rr)[x] = InsideOf(y, x) BY <1>2, Replace
<1>4. InsideOf(y, x) = InsideOf(qq[x], x) BY DEF InsideOf, Inside, SameRing
<1>5. Contents(rr)[x] = Contents(qq)[x] BY <1>3, <1>4 DEF Contents
<1>6. \A z \in QueueIds : Contents(rr)[z] = Contents(qq)[z] BY <1>3, <1>5 DEF Only
<1>7. Contents(rr) = Contents(qq) BY <1>6 DEF Contents
<1> QED BY <1>3, <1>7

-----------------------------------------------------------------------------
(* Copying in.                                                             *)

Positions == {"back", "front", "overwrite"}

(* There is room for an item of x at pos.                                  *)
Room(qq, x, pos) == Sized(x) => IF pos = "overwrite" THEN Size(x) = 1 ELSE qq[x].count # Size(x)

StoredIn(qq, rr, x, v, pos) ==
    /\ Only(qq, rr, x)
    /\ Puts(Contents(qq)[x], Contents(rr)[x], Size(x))
    /\ Sized(x) /\ pos = "back" => Contents(rr)[x] = Append(Contents(qq)[x], v)
    /\ ~Sized(x) => Contents(rr)[x] = Contents(qq)[x]

(* A ring's record after a copy in, and after a copy out.                  *)
CopyOf(z, p, v, w, r, c) == [z EXCEPT !.store[p] = v, !.write = w, !.read = r, !.count = c]

CopyMade(n, z, p, v, w, r, c) ==
    LET y == CopyOf(z, p, v, w, r, c)
    IN  /\ y \in Controls(n) /\ y.store = [z.store EXCEPT ![p] = v]
        /\ y.write = w /\ y.read = r /\ y.count = c

LEMMA CopiedIn ==
    ASSUME NEW n \in Nat \ {0}, NEW z \in Controls(n), NEW p \in 0 .. n - 1, NEW v \in Goods \cup {NoQueue},
           NEW w \in 0 .. n - 1, NEW r \in 0 .. n - 1, NEW c \in Int
    PROVE  CopyMade(n, z, p, v, w, r, c)
<1> DEFINE y == CopyOf(z, p, v, w, r, c)
<1>1. z.store \in [0 .. n - 1 -> Goods \cup {NoQueue}] BY DEF Controls
<1>2. [z.store EXCEPT ![p] = v] \in [0 .. n - 1 -> Goods \cup {NoQueue}] BY <1>1
<1>3. y = [z EXCEPT !.store = [z.store EXCEPT ![p] = v], !.write = w, !.read = r, !.count = c]
  BY DEF Controls, CopyOf
<1> DEFINE s == [z.store EXCEPT ![p] = v]
<1> HIDE DEF s, y
<1>4. y \in Controls(n) /\ y.store = s /\ y.write = w /\ y.read = r /\ y.count = c
  BY <1>2, <1>3 DEF Controls, s
<1> QED BY <1>4 DEF s, y, CopyMade

LEMMA StoredKeeps ==
    ASSUME NEW qq, Right(qq), NEW x \in QueueIds, NEW v, Sized(x) => v \in Goods,
           NEW pos \in Positions, Room(qq, x, pos)
    PROVE  StoredIn(qq, Stored(qq, x, v, pos), x, v, pos)
<1> DEFINE z  == qq[x]
           n  == Size(x)
           in == IF pos = "overwrite" /\ z.count > 0 THEN z.count ELSE z.count + 1
           rr == Stored(qq, x, v, pos)
           cq == Contents(qq)[x]
           cr == Contents(rr)[x]
<1>1. n \in Nat \ {0} /\ z \in Controls(n) /\ (Sized(x) => Ring(z, n)) BY KindFacts DEF Right
<1>2. z.count \in Int /\ in \in Int BY <1>1 DEF Controls
<1>3. cq \in Seq(Goods) /\ Len(cq) <= n BY ContentsType
<1>4. /\ z.read \in 0 .. n - 1 /\ z.write \in 0 .. n - 1
      /\ z.store \in [0 .. n - 1 -> Goods \cup {NoQueue}]
  BY <1>1, RingParts
<1>5. CASE ~Sized(x)
  <2> DEFINE y == [z EXCEPT !.holder = NoQueue, !.count = in]
  <2>1. y \in Controls(n) BY <1>1, <1>2 DEF Controls
  <2>2. Swapped(qq, rr, x, y) BY <1>5 DEF Swapped, Stored
  <2> HIDE DEF y, rr, n
  <2>3. Only(qq, rr, x) /\ Contents(rr) = Contents(qq)
    BY <1>5, <2>1, <2>2, Untouched DEF n
  <2> QED BY <1>5, <2>3 DEF StoredIn, Puts, rr
<1>6. CASE Sized(x) /\ pos = "back"
  <2> DEFINE w == Low(z.write + 1, n)
             y == CopyOf(z, z.write, v, w, z.read, z.count + 1)
             y0 == [z EXCEPT !.store[z.write] = v, !.write = (@ + 1) % n, !.count = in]
  <2>1. (z.write + 1) % n = w /\ w \in 0 .. n - 1
    <3> DEFINE a == z.write + 1
    <3>1. a \in 0 .. 3 * n - 1 BY <1>1, <1>4
    <3> HIDE DEF a, n
    <3>2. a % n = Low(a, n) /\ Low(a, n) \in 0 .. n - 1 BY <1>1, <3>1, LowIsRest
    <3> QED BY <3>2 DEF a
  <2>2. in = z.count + 1 BY <1>6
  <2>3. v \in Goods \cup {NoQueue} /\ v \in Goods BY <1>6
  <2>4. /\ y \in Controls(n) /\ y.store = [z.store EXCEPT ![z.write] = v]
        /\ y.write = w /\ y.read = z.read /\ y.count = z.count + 1
    <3> DEFINE c == z.count + 1
    <3>1. c \in Int BY <1>2
    <3> HIDE DEF w, n, c, z
    <3>2. CopyMade(n, z, z.write, v, w, z.read, c) BY <1>1, <1>4, <2>1, <2>3, <3>1, CopiedIn
    <3> QED BY <3>2 DEF CopyMade, c
  <2>5. y0 = y BY <1>1, <2>1, <2>2 DEF Controls, CopyOf
  <2>6. Swapped(qq, rr, x, y0) BY <1>6 DEF Swapped, Stored, Size
  <2>7. z.count < n BY <1>1, <1>6 DEF Ring, Room
  <2> HIDE DEF y, y0, rr, n, w, z
  <2>8. Ring(y, n) /\ Inside(y, n) = Append(Inside(z, n), v)
    BY <1>1, <1>6, <2>3, <2>4, <2>7, RingBack DEF w
  <2>9. Swapped(qq, rr, x, y) BY <2>5, <2>6
  <2>10. Only(qq, rr, x) /\ Contents(rr)[x] = InsideOf(y, x)
    BY <2>4, <2>8, <2>9, Replace DEF n
  <2>11. cr = Inside(y, n) BY <1>6, <2>10 DEF InsideOf, n
  <2>12. cq = Inside(z, n) /\ Len(cq) = z.count
    BY <1>1, <1>6, InsideFacts DEF Contents, InsideOf, z, n
  <2>13. cr = Append(cq, v) BY <2>8, <2>11, <2>12
  <2> HIDE DEF cq, cr
  <2>14. Told(cq, cq, v, n) BY <1>1, <1>3, ToldNothing
  <2>15. Told(cq, cr, v, n) BY <1>1, <1>3, <2>3, <2>7, <2>12, <2>13, <2>14, ToldAgain
  <2>16. Puts(cq, cr, n) BY <1>1, <1>3, <2>3, <2>15, ToldPuts
  <2> QED BY <1>6, <2>10, <2>13, <2>16 DEF StoredIn, cq, cr, n, rr
<1>7. CASE Sized(x) /\ pos # "back"
  <2> DEFINE r == Low(z.read + n - 1, n)
             y == CopyOf(z, z.read, v, z.write, r, in)
             y0 == [z EXCEPT !.store[z.read] = v, !.read = (@ + n - 1) % n, !.count = in]
  <2>1. (z.read + n - 1) % n = r /\ r \in 0 .. n - 1
    <3> DEFINE a == z.read + n - 1
    <3>1. a \in 0 .. 3 * n - 1 BY <1>1, <1>4
    <3> HIDE DEF a, n
    <3>2. a % n = Low(a, n) /\ Low(a, n) \in 0 .. n - 1 BY <1>1, <3>1, LowIsRest
    <3> QED BY <3>2 DEF a
  <2>3. v \in Goods \cup {NoQueue} /\ v \in Goods BY <1>7
  <2>4. /\ y \in Controls(n) /\ y.store = [z.store EXCEPT ![z.read] = v]
        /\ y.write = z.write /\ y.read = r /\ y.count = in
    <3> HIDE DEF r, n, in, z
    <3>1. CopyMade(n, z, z.read, v, z.write, r, in) BY <1>1, <1>2, <1>4, <2>1, <2>3, CopiedIn
    <3> QED BY <3>1 DEF CopyMade
  <2>5. y0 = y BY <1>1, <2>1 DEF Controls, CopyOf
  <2>6. Swapped(qq, rr, x, y0) BY <1>7 DEF Swapped, Stored, Size
  <2>7. Swapped(qq, rr, x, y) BY <2>5, <2>6
  <2>8. z.count \in 0 .. n BY <1>1, <1>7 DEF Ring
  <2>9. CASE pos = "front"
    <3>1. z.count < n /\ in = z.count + 1 BY <1>1, <1>7, <2>8, <2>9 DEF Room
    <3> HIDE DEF y, y0, rr, n, r, in, z
    <3>2. /\ Ring(y, n) /\ Inside(y, n) # <<>>
          /\ Head(Inside(y, n)) = v /\ Tail(Inside(y, n)) = Inside(z, n)
      BY <1>1, <1>7, <2>3, <2>4, <3>1, RingFront DEF r
    <3>3. Only(qq, rr, x) /\ Contents(rr)[x] = InsideOf(y, x)
      BY <2>4, <2>7, <3>2, Replace DEF n
    <3>4. cr = Inside(y, n) BY <1>7, <3>3 DEF InsideOf, n
    <3>5. cq = Inside(z, n) /\ Len(cq) = z.count
      BY <1>1, <1>7, InsideFacts DEF Contents, InsideOf, z, n
    <3> HIDE DEF cq, cr
    <3>6. Fronted(cq, cr, n) BY <2>3, <3>1, <3>2, <3>4, <3>5 DEF Fronted
    <3> QED BY <1>7, <3>3, <3>6 DEF StoredIn, Puts, cq, cr, n, rr
  <2>10. CASE pos = "overwrite"
    <3>1. n = 1 /\ in = 1 BY <1>1, <1>7, <2>8, <2>10 DEF Room
    <3> HIDE DEF y, y0, rr, n, r, in, z
    <3>2. Ring(y, 1) /\ Inside(y, 1) # <<>> /\ Head(Inside(y, 1)) = v
      BY <1>1, <1>7, <2>3, <2>4, <3>1, RingOver
    <3>3. Only(qq, rr, x) /\ Contents(rr)[x] = InsideOf(y, x)
      BY <2>4, <2>7, <3>1, <3>2, Replace DEF n
    <3>4. cr = Inside(y, 1) BY <1>7, <3>1, <3>3 DEF InsideOf, n
    <3> HIDE DEF cq, cr
    <3>5. Overwritten(cr, n) BY <2>3, <3>1, <3>2, <3>4 DEF Overwritten
    <3> QED BY <1>7, <2>10, <3>3, <3>5 DEF StoredIn, Puts, cq, cr, n, rr
  <2> QED BY <1>7, <2>9, <2>10 DEF Positions
<1> QED BY <1>5, <1>6, <1>7

-----------------------------------------------------------------------------
(* Copying out.                                                            *)

TakenFrom(qq, rr, x) ==
    /\ Only(qq, rr, x)
    /\ Contents(qq)[x] # <<>> /\ Contents(rr)[x] = Tail(Contents(qq)[x])

LEMMA NextReadLow ==
    ASSUME NEW qq, Right(qq), NEW x \in QueueIds
    PROVE  /\ NextRead(qq, x) = Low(qq[x].read + 1, Size(x))
           /\ NextRead(qq, x) \in 0 .. Size(x) - 1
<1> DEFINE n == Size(x)
           a == qq[x].read + 1
<1>1. n \in Nat \ {0} /\ qq[x] \in Controls(n) BY KindFacts DEF Right
<1>2. qq[x].read \in 0 .. n - 1
  <2> HIDE DEF n
  <2> QED BY <1>1, RingParts
<1> HIDE DEF n
<1>3. a \in 0 .. 3 * n - 1 BY <1>1, <1>2
<1> HIDE DEF a
<1>4. a % n = Low(a, n) /\ Low(a, n) \in 0 .. n - 1 BY <1>1, <1>3, LowIsRest
<1> QED BY <1>4 DEF NextRead, a, n, Size

LEMMA TakenKeeps ==
    ASSUME NEW qq, Right(qq), NEW x \in QueueIds, Sized(x), qq[x].count # 0
    PROVE  /\ TakenFrom(qq, [prvCopyDataFromQueue(qq, x) EXCEPT ![x].count = @ - 1], x)
           /\ Copied(qq, x) = Head(Contents(qq)[x])
<1> DEFINE z  == qq[x]
           n  == Size(x)
           p  == Low(z.read + 1, n)
           c  == z.count - 1
           y  == CopyOf(z, p, NoQueue, z.write, p, c)
           rr == [prvCopyDataFromQueue(qq, x) EXCEPT ![x].count = @ - 1]
<1>1. n \in Nat \ {0} /\ z \in Controls(n) /\ Ring(z, n) BY KindFacts DEF Right
<1>2. p \in 0 .. n - 1 /\ NextRead(qq, x) = p BY NextReadLow
<1>3. z.count \in Int /\ c \in Int /\ z.write \in 0 .. n - 1 BY <1>1 DEF Controls
<1>4. /\ y \in Controls(n) /\ y.store = [z.store EXCEPT ![p] = NoQueue]
      /\ y.write = z.write /\ y.read = p /\ y.count = c
  <2> HIDE DEF z, n, p, c
  <2>1. NoQueue \in Goods \cup {NoQueue} OBVIOUS
  <2>2. CopyMade(n, z, p, NoQueue, z.write, p, c) BY <1>1, <1>2, <1>3, <2>1, CopiedIn
  <2> QED BY <2>2 DEF CopyMade
<1>5. qq = [w \in QueueIds |-> qq[w]] BY DEF Right
<1>6. Swapped(qq, rr, x, y)
  <2> HIDE DEF p
  <2> QED BY <1>1, <1>2, <1>5 DEF Swapped, CopyOf, prvCopyDataFromQueue, Controls
<1> HIDE DEF y, rr, n, z, p, c
<1>7. /\ Ring(y, n) /\ Inside(z, n) # <<>> /\ Inside(y, n) = Tail(Inside(z, n))
      /\ z.store[p] = Head(Inside(z, n))
  <2>1. z.count # 0 BY DEF z
  <2> QED BY <1>1, <1>4, <2>1, RingTake DEF p, c
<1>8. Only(qq, rr, x) /\ Contents(rr)[x] = InsideOf(y, x) BY <1>4, <1>6, <1>7, Replace DEF n
<1>9. Contents(rr)[x] = Inside(y, n) BY <1>8 DEF InsideOf, n
<1>10. Contents(qq)[x] = Inside(z, n) BY DEF Contents, InsideOf, z, n
<1>11. Copied(qq, x) = z.store[p] BY <1>2 DEF Copied, z
<1> QED BY <1>7, <1>8, <1>9, <1>10, <1>11 DEF TakenFrom, rr

-----------------------------------------------------------------------------
(* Telling a queue set.                                                    *)

LEMMA QueueIsGood == ASSUME NEW x \in QueueIds PROVE x \in Goods
<1> DEFINE M == UNION {l.msgs : l \in Loads}
<1>1. Goods = M \cup QueueIds BY DEF Goods
<1> HIDE DEF M
<1> QED BY <1>1

Hears(qq, rr, s, v) ==
    Only(qq, rr, s) /\ Told(Contents(qq)[s], Contents(rr)[s], v, Size(s))

LEMMA NotifyKeeps ==
    ASSUME NEW kk, NEW qq, Right(qq), NEW s \in QueueIds, NEW x \in QueueIds
    PROVE  Hears(qq, prvNotifyQueueSetContainer(kk, qq, s, x).q, s, x)
<1> DEFINE rr == prvNotifyQueueSetContainer(kk, qq, s, x).q
           st == Stored(qq, s, x, "back")
           n  == Size(s)
           cq == Contents(qq)[s]
<1>1. n \in Nat \ {0} /\ qq[s] \in Controls(n) /\ (Sized(s) => Ring(qq[s], n)) BY KindFacts DEF Right
<1>2. cq \in Seq(Goods) /\ Len(cq) <= n BY ContentsType
<1>3. x \in Goods BY QueueIsGood
<1>4. Told(cq, cq, x, n)
  <2> HIDE DEF cq, n
  <2> QED BY <1>1, <1>2, ToldNothing
<1>5. CASE qq[s].count >= n
  <2>1. rr = qq BY <1>5 DEF prvNotifyQueueSetContainer, Size
  <2>2. Only(qq, qq, s) BY DEF Only
  <2> HIDE DEF rr
  <2> QED BY <1>4, <2>1, <2>2 DEF Hears, rr
<1>6. CASE ~(qq[s].count >= n)
  <2>1. Room(qq, s, "back")
    <3>1. qq[s].count \in Int BY <1>1 DEF Controls
    <3> QED BY <1>1, <1>6, <3>1 DEF Room
  <2>2. StoredIn(qq, st, s, x, "back") BY <1>3, <2>1, StoredKeeps DEF Positions
  <2>3. Only(qq, st, s) BY <2>2 DEF StoredIn
  <2>4. Told(cq, Contents(st)[s], x, n)
    <3>1. CASE Sized(s)
      <4>1. Contents(st)[s] = Append(cq, x) BY <2>2, <3>1 DEF StoredIn
      <4>2. cq = Inside(qq[s], n) BY <3>1 DEF Contents, InsideOf
      <4>3. Len(cq) = qq[s].count BY <1>1, <3>1, <4>2, InsideFacts
      <4>4. Len(cq) < n BY <1>1, <1>2, <1>6, <4>3
      <4> HIDE DEF cq, n, st
      <4> QED BY <1>1, <1>2, <1>3, <1>4, <4>1, <4>4, ToldAgain
    <3>2. CASE ~Sized(s) BY <1>4, <2>2, <3>2 DEF StoredIn
    <3> QED BY <3>1, <3>2
  <2>5. CASE qq[s].tx = Unlocked
    <3>1. rr = st BY <1>6, <2>5 DEF prvNotifyQueueSetContainer, Size, Woken
    <3> HIDE DEF rr, st
    <3> QED BY <2>3, <2>4, <3>1 DEF Hears, rr
  <2>6. CASE qq[s].tx # Unlocked
    <3> DEFINE y == [st[s] EXCEPT !.tx = prvIncrementQueueTxLock(kk, @)]
    <3>1. rr = [st EXCEPT ![s].tx = prvIncrementQueueTxLock(kk, @)]
      BY <1>6, <2>6 DEF prvNotifyQueueSetContainer, Size
    <3> HIDE DEF st
    <3>2. Right(st) BY <2>3 DEF Only
    <3>3. Swapped(st, rr, s, y) BY <3>1 DEF Swapped
    <3>4. st[s] \in Controls(n) BY <3>2 DEF Right
    <3>5. y \in Controls(n) /\ SameRing(st[s], y)
      BY <3>4 DEF Controls, SameRing, prvIncrementQueueTxLock, Unlocked
    <3> HIDE DEF rr, y
    <3>6. Only(st, rr, s) /\ Contents(rr) = Contents(st) BY <3>2, <3>3, <3>5, Untouched
    <3>7. Only(qq, rr, s)
      <4>1. Right(rr) BY <3>6 DEF Only
      <4>2. \A w \in QueueIds \ {s} : rr[w] = qq[w] BY <2>3, <3>6 DEF Only
      <4>3. \A w \in QueueIds \ {s} : Contents(rr)[w] = Contents(qq)[w] BY <2>3, <3>6 DEF Only
      <4> QED BY <4>1, <4>2, <4>3 DEF Only
    <3> QED BY <2>4, <3>6, <3>7 DEF Hears, rr
  <2> QED BY <2>5, <2>6
<1> QED BY <1>5, <1>6

(* Only the set of x hears of x.                                           *)
Spread(qq, rr, x) ==
    /\ Right(rr)
    /\ \A y \in QueueIds :
         IF y = SetOf(x) THEN Told(Contents(qq)[y], Contents(rr)[y], x, Size(y))
                         ELSE Contents(rr)[y] = Contents(qq)[y]

LEMMA SpreadNothing ==
    ASSUME NEW qq, Right(qq), NEW x, NEW rr, Right(rr), Contents(rr) = Contents(qq)
    PROVE  Spread(qq, rr, x)
<1>1. ASSUME NEW y \in QueueIds
      PROVE  Told(Contents(qq)[y], Contents(qq)[y], x, Size(y))
  <2> DEFINE n == Size(y)
             u == Contents(qq)[y]
  <2>1. n \in Nat \ {0} BY KindFacts DEF Right
  <2>2. u \in Seq(Goods) /\ Len(u) <= n BY ContentsType
  <2> HIDE DEF n, u
  <2>3. Told(u, u, x, n) BY <2>1, <2>2, ToldNothing
  <2> QED BY <2>3 DEF n, u
<1> QED BY <1>1 DEF Spread

LEMMA AnnounceKeeps ==
    ASSUME NEW kk, NEW qq, Right(qq), NEW x \in QueueIds
    PROVE  Spread(qq, Announce(kk, qq, x).q, x)
<1> DEFINE s  == SetOf(x)
           rr == Announce(kk, qq, x).q
<1>1. CASE s = NoQueue
  <2>1. rr = qq BY <1>1 DEF Announce, Woken, SetOf
  <2> HIDE DEF rr
  <2>2. Spread(qq, rr, x) BY <2>1, SpreadNothing
  <2> QED BY <2>2 DEF rr
<1>2. CASE s # NoQueue
  <2>1. s \in QueueIds BY <1>2, KindFacts DEF Right
  <2>2. rr = prvNotifyQueueSetContainer(kk, qq, s, x).q BY <1>2 DEF Announce, SetOf
  <2> HIDE DEF rr, s
  <2>3. Hears(qq, rr, s, x) BY <2>1, <2>2, NotifyKeeps
  <2>4. /\ Right(rr) /\ Told(Contents(qq)[s], Contents(rr)[s], x, Size(s))
        /\ \A y \in QueueIds \ {s} : Contents(rr)[y] = Contents(qq)[y]
    BY <2>3 DEF Hears, Only
  <2>5. Spread(qq, rr, x) BY <2>4 DEF Spread, s
  <2> QED BY <2>5 DEF rr
<1> QED BY <1>1, <1>2

LEMMA SpreadTwice ==
    ASSUME NEW qq, Right(qq), NEW x \in QueueIds, NEW r1, Spread(qq, r1, x),
           NEW r2, Spread(r1, r2, x)
    PROVE  Spread(qq, r2, x)
<1>1. Right(r1) /\ Right(r2) BY DEF Spread
<1>2. ASSUME NEW y \in QueueIds, y = SetOf(x)
      PROVE  Told(Contents(qq)[y], Contents(r2)[y], x, Size(y))
  <2> DEFINE u == Contents(qq)[y]
             v == Contents(r1)[y]
             w == Contents(r2)[y]
             n == Size(y)
  <2>1. Told(u, v, x, n) /\ Told(v, w, x, n) BY <1>2 DEF Spread
  <2>2. u \in Seq(Goods) BY ContentsType
  <2> HIDE DEF u, v, w, n
  <2>3. /\ v \in Seq(Goods) /\ w \in Seq(Goods) /\ Len(u) <= Len(v) /\ Len(v) <= Len(w) /\ Len(w) <= n
        /\ \A i \in 1 .. Len(u) : v[i] = u[i]
        /\ \A i \in Len(u) + 1 .. Len(v) : v[i] = x
        /\ \A i \in 1 .. Len(v) : w[i] = v[i]
        /\ \A i \in Len(v) + 1 .. Len(w) : w[i] = x
    BY <2>1 DEF Told
  <2>4. Len(u) \in Nat /\ Len(v) \in Nat /\ Len(w) \in Nat BY <2>2, <2>3
  <2>5. \A i \in 1 .. Len(u) : w[i] = u[i] BY <2>3, <2>4
  <2>6. ASSUME NEW i \in Len(u) + 1 .. Len(w) PROVE w[i] = x
    <3>1. (i \in Len(u) + 1 .. Len(v) /\ i \in 1 .. Len(v)) \/ i \in Len(v) + 1 .. Len(w) BY <2>4
    <3> QED BY <2>3, <3>1
  <2>7. Len(u) <= Len(w) BY <2>3, <2>4
  <2>8. Told(u, w, x, n) BY <2>3, <2>5, <2>6, <2>7 DEF Told
  <2> QED BY <2>8 DEF u, w, n
<1>3. \A y \in QueueIds : y # SetOf(x) => Contents(r2)[y] = Contents(qq)[y] BY DEF Spread
<1> QED BY <1>1, <1>2, <1>3 DEF Spread

-----------------------------------------------------------------------------
(* Unlocking: a turn for each item that came.                              *)

LEMMA LeastNatural ==
    ASSUME NEW T \in SUBSET Nat, T # {}
    PROVE  \E m \in T : \A j \in T : m <= j
<1> DEFINE R == OpToRel(<, Nat)
           N == Nat
<1>1. IsWellFoundedOn(R, N) BY NatLessThanWellFounded
<1>2. T \subseteq N OBVIOUS
<1>3. \A x, y \in Nat : <<x, y>> \in R <=> x < y BY DEF OpToRel
<1> HIDE DEF R, N
<1>4. PICK x \in T : \A y \in T : ~(<<y, x>> \in R)
  <2>1. \A RR, SS : IsWellFoundedOn(RR, SS) =>
          \A TT : TT \subseteq SS /\ TT # {} =>
            \E x \in TT : \A y \in TT : ~(<<y, x>> \in RR)
    BY WFMin, Zenon
  <2> QED BY <1>1, <1>2, <2>1, Zenon
<1>5. ASSUME NEW y \in T PROVE x <= y
  <2>1. x \in Nat /\ y \in Nat OBVIOUS
  <2>2. ~(y < x) BY <1>3, <1>4, <2>1
  <2> QED BY <2>1, <2>2
<1> QED BY <1>5

Turned(r, x) == MissedIn(Announce(r.k, r.q, x))
Turns(f, n, a, x) == f = [i \in Unlocked .. n |-> IF i <= 0 THEN a ELSE Turned(f[i - 1], x)]

LEMMA TurnsExist ==
    ASSUME NEW n \in Nat \cup {Unlocked}, NEW a, NEW x
    PROVE  \E f : Turns(f, n, a, x)
<1> DEFINE Runs(m, f) == f = [i \in Unlocked .. m |-> IF i <= 0 THEN a ELSE Turned(f[i - 1], x)]
           Stuck == {m \in Nat : ~ \E f : Runs(m, f)}
<1>1. ASSUME Stuck # {} PROVE FALSE
  <2>1. Stuck \subseteq Nat OBVIOUS
  <2>2. PICK m \in Stuck : \A j \in Stuck : m <= j
    <3> HIDE DEF Stuck
    <3> QED BY <1>1, <2>1, LeastNatural
  <2>3. m \in Nat /\ ~ \E f : Runs(m, f) OBVIOUS
  <2>4. CASE m = 0
    <3> DEFINE f == [i \in Unlocked .. 0 |-> a]
    <3>1. Runs(0, f) BY DEF Unlocked
    <3> QED BY <2>3, <2>4, <3>1
  <2>5. CASE m # 0
    <3>0. m - 1 \in Nat /\ ~(m <= m - 1) BY <2>3, <2>5
    <3>1. m - 1 \notin Stuck BY <2>2, <3>0
    <3>2. PICK g : Runs(m - 1, g) BY <3>0, <3>1
    <3>3. g = [i \in Unlocked .. m - 1 |-> IF i <= 0 THEN a ELSE Turned(g[i - 1], x)] BY <3>2
    <3>4. \A i \in Unlocked .. m - 1 : g[i] = IF i <= 0 THEN a ELSE Turned(g[i - 1], x)
      BY <3>3
    <3> DEFINE f == [i \in Unlocked .. m |-> IF i = m THEN Turned(g[m - 1], x) ELSE g[i]]
    <3>5. \A i \in Unlocked .. m - 1 : f[i] = g[i] BY <2>3 DEF Unlocked
    <3>6. f[m] = Turned(g[m - 1], x) BY <2>3 DEF Unlocked
    <3>7. f = [i \in Unlocked .. m |-> f[i]] OBVIOUS
    <3> HIDE DEF f
    <3>8. \A i \in Unlocked .. m : f[i] = IF i <= 0 THEN a ELSE Turned(f[i - 1], x)
      <4>1. ASSUME NEW i \in Unlocked .. m
            PROVE  f[i] = IF i <= 0 THEN a ELSE Turned(f[i - 1], x)
        <5>1. CASE i = m
          <6>1. m - 1 \in Unlocked .. m - 1 /\ ~(m <= 0) BY <2>3, <2>5 DEF Unlocked
          <6>2. f[m - 1] = g[m - 1] BY <3>5, <6>1
          <6> QED BY <3>6, <5>1, <6>1, <6>2
        <5>2. CASE i # m
          <6>1. i \in Unlocked .. m - 1 BY <2>3, <5>2 DEF Unlocked
          <6>2. ~(i <= 0) => i - 1 \in Unlocked .. m - 1 BY <2>3, <6>1 DEF Unlocked
          <6>3. f[i] = g[i] BY <3>5, <6>1
          <6>4. ~(i <= 0) => f[i - 1] = g[i - 1] BY <3>5, <6>2
          <6> QED BY <3>4, <6>1, <6>3, <6>4
        <5> QED BY <5>1, <5>2
      <4> QED BY <4>1
    <3>9. f = [i \in Unlocked .. m |-> IF i <= 0 THEN a ELSE Turned(f[i - 1], x)] BY <3>7, <3>8
    <3>10. Runs(m, f) BY <3>9
    <3> QED BY <2>3, <3>10
  <2> QED BY <2>4, <2>5
<1>2. CASE n \in Nat
  <2>1. \E f : Runs(n, f) BY <1>1, <1>2
  <2> QED BY <2>1 DEF Turns
<1>3. CASE n = Unlocked
  <2> DEFINE f == [i \in Unlocked .. Unlocked |-> a]
  <2>1. \A i \in Unlocked .. Unlocked : i <= 0 BY DEF Unlocked
  <2>2. f = [i \in Unlocked .. Unlocked |-> IF i <= 0 THEN a ELSE Turned(f[i - 1], x)] BY <2>1
  <2>3. Turns(f, n, a, x) BY <1>3, <2>2 DEF Turns
  <2> QED BY <2>3
<1> QED BY <1>2, <1>3

(* What one turn leaves alone, all of them do.                             *)
LEMMA TurnsKeep ==
    ASSUME NEW qq, Right(qq), NEW x \in QueueIds, NEW n \in Nat \cup {Unlocked}, NEW kk, NEW f,
           Turns(f, n, [k |-> kk, q |-> qq], x)
    PROVE  Spread(qq, f[n].q, x) /\ f[n] = [k |-> f[n].k, q |-> f[n].q]
<1> DEFINE Kept(r) == Spread(qq, r.q, x) /\ r = [k |-> r.k, q |-> r.q]
           a == [k |-> kk, q |-> qq]
           Out == {m \in Nat : m <= n /\ ~Kept(f[m])}
<1>1. \A i \in Unlocked .. n : f[i] = IF i <= 0 THEN a ELSE Turned(f[i - 1], x)
  <2>1. f = [i \in Unlocked .. n |-> IF i <= 0 THEN a ELSE Turned(f[i - 1], x)] BY DEF Turns
  <2> QED BY <2>1
<1>2. Kept(a)
  <2>1. Spread(qq, qq, x) BY SpreadNothing
  <2> QED BY <2>1
<1>3. ASSUME NEW r, Kept(r) PROVE Kept(Turned(r, x))
  <2>1. Right(r.q) BY <1>3 DEF Spread
  <2>2. Spread(r.q, Announce(r.k, r.q, x).q, x) BY <2>1, AnnounceKeeps
  <2>3. Spread(qq, Announce(r.k, r.q, x).q, x) BY <1>3, <2>2, SpreadTwice
  <2>4. Turned(r, x) = [k |-> Missed(Announce(r.k, r.q, x)), q |-> Announce(r.k, r.q, x).q]
    BY DEF Turned, MissedIn
  <2> QED BY <2>3, <2>4
<1> HIDE DEF Kept, a
<1>4. ASSUME Out # {} PROVE FALSE
  <2>1. Out \subseteq Nat OBVIOUS
  <2>2. PICK m \in Out : \A j \in Out : m <= j
    <3> HIDE DEF Out
    <3> QED BY <1>4, <2>1, LeastNatural
  <2>3. m \in Nat /\ m <= n /\ ~Kept(f[m]) /\ m \in Unlocked .. n BY DEF Unlocked
  <2>4. CASE m = 0 BY <1>1, <1>2, <2>3, <2>4
  <2>5. CASE m # 0
    <3>1. m - 1 \in Nat /\ m - 1 <= n /\ ~(m <= m - 1) /\ ~(m <= 0) BY <2>3, <2>5 DEF Unlocked
    <3>2. Kept(f[m - 1]) BY <2>2, <3>1
    <3>3. f[m] = Turned(f[m - 1], x) BY <1>1, <2>3, <3>1
    <3> QED BY <1>3, <2>3, <3>2, <3>3
  <2> QED BY <2>4, <2>5
<1>5. Kept(f[n])
  <2>1. CASE n \in Nat
    <3>1. n \notin Out BY <1>4
    <3> QED BY <2>1, <3>1
  <2>2. CASE n = Unlocked
    <3>1. n \in Unlocked .. n /\ n <= 0 BY <2>2 DEF Unlocked
    <3> QED BY <1>1, <1>2, <3>1
  <2> QED BY <2>1, <2>2
<1> QED BY <1>5 DEF Kept

LEMMA UnlockTxKeeps ==
    ASSUME NEW kk, NEW qq, Right(qq), NEW x \in QueueIds
    PROVE  Spread(qq, UnlockTx(kk, qq, x).q, x)
<1> DEFINE n == qq[x].tx
           a == [k |-> kk, q |-> qq]
           f0 == CHOOSE f : Turns(f, n, a, x)
           r == f0[n]
           rr == UnlockTx(kk, qq, x).q
<1>1. n \in Nat \cup {Unlocked} BY DEF Right, Controls
<1>2. \E f : Turns(f, n, a, x)
  <2> HIDE DEF n, a
  <2> QED BY <1>1, TurnsExist
<1>3. Turns(f0, n, a, x) BY <1>2
<1>4. UnlockTx(kk, qq, x) = [r EXCEPT !.q[x].tx = Unlocked]
  BY DEF UnlockTx, Turns, Turned
<1> HIDE DEF f0
<1>5. Spread(qq, r.q, x) /\ r = [k |-> r.k, q |-> r.q]
  <2> HIDE DEF n
  <2> QED BY <1>1, <1>3, TurnsKeep
<1> DEFINE y == [r.q[x] EXCEPT !.tx = Unlocked]
<1> HIDE DEF r
<1>6. rr = [r.q EXCEPT ![x].tx = Unlocked] BY <1>4, <1>5
<1>7. Swapped(r.q, rr, x, y) BY <1>6 DEF Swapped
<1>8. Right(r.q) /\ r.q[x] \in Controls(Size(x)) BY <1>5 DEF Spread, Right
<1>9. y \in Controls(Size(x)) /\ SameRing(r.q[x], y) BY <1>8 DEF Controls, SameRing
<1> HIDE DEF rr, y
<1>10. Right(rr) /\ Contents(rr) = Contents(r.q) BY <1>7, <1>8, <1>9, Untouched DEF Only
<1>11. Spread(qq, rr, x) BY <1>5, <1>10 DEF Spread
<1> QED BY <1>11 DEF rr

LEMMA UnlockRxKeeps ==
    ASSUME NEW kk, NEW qq, Right(qq), NEW x \in QueueIds
    PROVE  Right(UnlockRx(kk, qq, x).q) /\ Contents(UnlockRx(kk, qq, x).q) = Contents(qq)
<1> DEFINE rr == UnlockRx(kk, qq, x).q
           y == [qq[x] EXCEPT !.rx = Unlocked]
<1>1. rr = [qq EXCEPT ![x].rx = Unlocked] BY DEF UnlockRx
<1>2. Swapped(qq, rr, x, y) BY <1>1 DEF Swapped
<1>3. qq[x] \in Controls(Size(x)) BY DEF Right
<1>4. y \in Controls(Size(x)) /\ SameRing(qq[x], y) BY <1>3 DEF Controls, SameRing
<1> HIDE DEF rr, y
<1>5. Right(rr) /\ Contents(rr) = Contents(qq) BY <1>2, <1>4, Untouched DEF Only
<1> QED BY <1>5 DEF rr

-----------------------------------------------------------------------------
(* Where the tasks are: a task at a place of queue.c is in a call that     *)
(* queue.c makes there, whatever calls of tasks.c the others are in.       *)

Wrappers    == {"resume", "resumeOnly", "yield"}
QueuePlaces == {"try", "hold", "lock", "check", "unlockTx", "unlockRx", "late", "disinherit"}
QueueOps    == {"send", "receive", "peek", "take"}
Unlocking   == {"unlockTx", "unlockRx"}
Endings     == {"block", "retry", "timeout"}

Legal(c) ==
    /\ {"op", "q", "item", "pos", "wait", "out", "inh", "after"} \subseteq DOMAIN c
    /\ c.q \in QueueIds
    /\ c.op = "send" => /\ Sized(c.q) /\ c.item \in Goods /\ c.pos \in Positions
                        /\ c.pos = "overwrite" => Size(c.q) = 1
    /\ c.op \in {"receive", "peek"} => Sized(c.q)
    /\ c.op = "take" => ~Sized(c.q)
    /\ c.at \in Unlocking => c.after \in Endings

Plain(c) ==
    /\ "at" \in DOMAIN c /\ c.at \notin Wrappers
    /\ c.at \in {"check", "block", "done"} => "op" \in DOMAIN c
    /\ c.at \in QueuePlaces /\ c.op \in QueueOps => Legal(c)
Sound(c) == Plain(c) \/ (c.at \in Wrappers /\ Plain(c.then))
Places   == pc = [t \in Tasks |-> pc[t]] /\ \A t \in Tasks : Sound(pc[t])

LEMMA SoundLater ==
    ASSUME load' = load, \A u \in Tasks : Sound(pc'[u])
    PROVE  \A u \in Tasks : Sound(pc[u])'
BY DEF Sound, Plain, Legal, Sized, Size

LEMMA GoneTo ==
    ASSUME Places, load' = load, NEW t \in Tasks, NEW c, Sound(c), pc' = [pc EXCEPT ![t] = c]
    PROVE  Places'
<1>1. \A u \in Tasks : Sound(pc[u]) BY DEF Places
<1>2. pc' = [u \in Tasks |-> IF u = t THEN c ELSE pc[u]] BY DEF Places
<1>3. \A u \in Tasks : pc'[u] = IF u = t THEN c ELSE pc[u] BY <1>2
<1>4. pc' = [u \in Tasks |-> pc'[u]] BY <1>2
<1>5. \A u \in Tasks : Sound(pc'[u]) BY <1>1, <1>3
<1>6. \A u \in Tasks : Sound(pc[u])' BY <1>5, SoundLater
<1> QED BY <1>4, <1>6 DEF Places

LEMMA StaysAt == ASSUME Places, load' = load, pc' = pc PROVE Places'
<1>1. \A u \in Tasks : Sound(pc[u]) BY DEF Places
<1>2. \A u \in Tasks : Sound(pc[u])' BY <1>1 DEF Sound, Plain, Legal, Sized, Size
<1> QED BY <1>2 DEF Places

(* The places of tasks.c, and the ways back from a call.                   *)
LEMMA SoundElsewhere ==
    /\ Plain(Run) /\ Plain([at |-> "gone"])
    /\ \A x : /\ Plain([at |-> "leaked", holds |-> x]) /\ Plain([at |-> "suspend", task |-> x])
              /\ Plain([at |-> "free", task |-> x]) /\ Plain([at |-> "add", task |-> x])
              /\ Plain([at |-> "added", task |-> x])
BY DEF Plain, Run, Wrappers, QueuePlaces

LEMMA SoundPlain == ASSUME NEW c, Plain(c) PROVE Sound(c) BY DEF Sound

LEMMA SoundWrapped ==
    ASSUME NEW c, Plain(c)
    PROVE  Sound(Resume(c)) /\ Sound(Yield(c)) /\ Sound([at |-> "resumeOnly", then |-> c])
BY DEF Sound, Resume, Yield, Wrappers

LEMMA WrappedThen ==
    ASSUME Places, NEW t \in Tasks, pc[t].at \in Wrappers
    PROVE  Plain(pc[t].then)
BY DEF Places, Sound, Plain

(* A task that waits for a notification is in no call of queue.c.          *)
LEMMA NotifyPlaces ==
    ASSUME NEW c, "at" \in DOMAIN c, "op" \in DOMAIN c, c.op \in {"notifyTake", "notifyWait"},
           NEW p, p \notin Wrappers
    PROVE  Plain([c EXCEPT !.at = p])
BY DEF Plain, QueueOps

LEMMA TaskPlaces ==
    ASSUME Places, NEW t \in Tasks, TaskStep(t)
    PROVE  Places' /\ load' = load
<1>1. load' = load
  BY DEF TaskStep, ResumeStep, ResumeOnlyStep, YieldStep, prvDeleteTCB, vTaskDelay, xTaskDelayUntil,
         xTaskAbortDelay, xTaskCatchUpTicks, vTaskSuspend, SuspendReset, vTaskResume, SuspendAll, ResumeAll,
         vTaskPrioritySet, prvCreateTask, AddNewTask, YieldToNewTask, vTaskDelete, taskYIELD,
         ulTaskGenericNotifyTake, xTaskGenericNotifyWait, xTaskGenericNotify,
         xTaskGenericNotifyStateClear, ulTaskGenericNotifyValueClear
<1>2. CASE ResumeStep(t)
  <2>1. Plain(pc[t].then) BY <1>2, WrappedThen DEF ResumeStep, At, Wrappers
  <2>2. PICK c : Sound(c) /\ pc' = [pc EXCEPT ![t] = c]
    BY <1>2, <2>1, SoundPlain, SoundWrapped DEF ResumeStep, Resumed, Goto
  <2> QED BY <1>1, <2>2, GoneTo
<1>3. CASE ResumeOnlyStep(t) \/ YieldStep(t)
  <2>1. Plain(pc[t].then) BY <1>3, WrappedThen DEF ResumeOnlyStep, YieldStep, At, Wrappers
  <2>2. pc' = [pc EXCEPT ![t] = pc[t].then] BY <1>3 DEF ResumeOnlyStep, YieldStep, Goto
  <2> QED BY <1>1, <2>1, <2>2, SoundPlain, GoneTo
<1>4. CASE prvDeleteTCB(t)
  <2> DEFINE x == pc[t].task
             N(u) == CASE u = t -> Run
                       [] u \in Orphans(x) -> [at |-> "leaked", holds |-> Orphans(u)]
                       [] OTHER -> pc[u]
  <2>1. pc' = [u \in Tasks |-> N(u)] BY <1>4 DEF prvDeleteTCB
  <2>2. ASSUME NEW u \in Tasks PROVE Sound(N(u))
    <3>1. CASE u = t BY <3>1, SoundElsewhere, SoundPlain
    <3>2. CASE u # t /\ u \in Orphans(x) BY <3>2, SoundElsewhere, SoundPlain
    <3>3. CASE u # t /\ u \notin Orphans(x) BY <3>3 DEF Places
    <3> QED BY <3>1, <3>2, <3>3
  <2> HIDE DEF N
  <2>3. \A u \in Tasks : Sound(pc'[u]) BY <2>1, <2>2
  <2>4. \A u \in Tasks : Sound(pc[u])' BY <1>1, <2>3, SoundLater
  <2>5. pc' = [u \in Tasks |-> pc'[u]] BY <2>1
  <2> QED BY <1>1, <2>4, <2>5 DEF Places
<1>5. CASE prvCreateTask(t)
  <2>1. PICK x \in Tasks : pc' = [pc EXCEPT ![t] = [at |-> "add", task |-> x], ![x] = Run]
    BY <1>5 DEF prvCreateTask
  <2> DEFINE N(u) == IF u = x THEN Run ELSE IF u = t THEN [at |-> "add", task |-> x] ELSE pc[u]
  <2>2. pc' = [u \in Tasks |-> N(u)] BY <2>1 DEF Places
  <2>3. ASSUME NEW u \in Tasks PROVE Sound(N(u))
    <3>1. CASE u = x BY <3>1, SoundElsewhere, SoundPlain
    <3>2. CASE u # x /\ u = t BY <3>2, SoundElsewhere, SoundPlain
    <3>3. CASE u # x /\ u # t BY <3>3 DEF Places
    <3> QED BY <3>1, <3>2, <3>3
  <2> HIDE DEF N
  <2>4. \A u \in Tasks : Sound(pc'[u]) BY <2>2, <2>3
  <2>5. \A u \in Tasks : Sound(pc[u])' BY <1>1, <2>4, SoundLater
  <2>6. pc' = [u \in Tasks |-> pc'[u]] BY <2>2
  <2> QED BY <1>1, <2>5, <2>6 DEF Places
<1>6. CASE vTaskDelay(t) \/ xTaskDelayUntil(t) \/ xTaskAbortDelay(t) \/ xTaskCatchUpTicks(t)
  <2>1. pc' = pc \/ \E c : Sound(c) /\ pc' = [pc EXCEPT ![t] = c]
    <3>1. Sound(Resume(Run)) /\ Sound([at |-> "resumeOnly", then |-> Run])
      BY SoundElsewhere, SoundWrapped
    <3> QED BY <1>6, <3>1 DEF vTaskDelay, xTaskDelayUntil, xTaskAbortDelay, xTaskCatchUpTicks, Goto
  <2> QED BY <1>1, <2>1, StaysAt, GoneTo
<1>7. CASE vTaskSuspend(t) \/ SuspendReset(t) \/ AddNewTask(t) \/ YieldToNewTask(t) \/ vTaskDelete(t)
  <2>1. \E c : Sound(c) /\ pc' = [pc EXCEPT ![t] = c]
    <3>1. Sound(Run) /\ Sound(Yield(Run)) /\ Sound(Yield([at |-> "gone"]))
      BY SoundElsewhere, SoundWrapped, SoundPlain
    <3>2. \A x : /\ Sound([at |-> "suspend", task |-> x]) /\ Sound([at |-> "added", task |-> x])
                 /\ Sound([at |-> "free", task |-> x])
      BY SoundElsewhere, SoundPlain
    <3> QED BY <1>7, <3>1, <3>2
            DEF vTaskSuspend, SuspendReset, AddNewTask, YieldToNewTask, vTaskDelete, Goto
  <2> QED BY <1>1, <2>1, GoneTo
<1>8. CASE \/ vTaskResume(t) \/ SuspendAll(t) \/ ResumeAll(t) \/ vTaskPrioritySet(t) \/ taskYIELD(t)
           \/ xTaskGenericNotify(t) \/ xTaskGenericNotifyStateClear(t) \/ ulTaskGenericNotifyValueClear(t)
  <2>1. pc' = pc
    BY <1>8 DEF vTaskResume, SuspendAll, ResumeAll, vTaskPrioritySet, taskYIELD, xTaskGenericNotify,
                xTaskGenericNotifyStateClear, ulTaskGenericNotifyValueClear
  <2> QED BY <1>1, <2>1, StaysAt
<1>9. CASE ulTaskGenericNotifyTake(t) \/ xTaskGenericNotifyWait(t)
  <2> DEFINE Ops == {"notifyTake", "notifyWait"}
  <2>1. \A c : "at" \in DOMAIN c /\ "op" \in DOMAIN c /\ c.op \in Ops =>
          /\ Sound([c EXCEPT !.at = "check"]) /\ Sound([c EXCEPT !.at = "done"])
          /\ Sound([c EXCEPT !.at = "block"]) /\ Sound(Resume([c EXCEPT !.at = "done"]))
          /\ Sound([at |-> "resumeOnly", then |-> [c EXCEPT !.at = "done"]])
    BY NotifyPlaces, SoundPlain, SoundWrapped DEF Wrappers
  <2>2. pc[t].at \in {"check", "block", "done"} => "at" \in DOMAIN pc[t] /\ "op" \in DOMAIN pc[t]
    BY DEF Places, Sound, Plain, Wrappers
  <2>3. CASE ulTaskGenericNotifyTake(t)
    <3>1. CASE \E n \in Delays \cup {MaxDelay}, all \in BOOLEAN :
                 NotifyEnter(t, [at |-> "run", op |-> "notifyTake", wait |-> n, all |-> all], k.nval[t] = 0)
      <4>1. PICK c : /\ "at" \in DOMAIN c /\ "op" \in DOMAIN c /\ c.op \in Ops
                     /\ NotifyEnter(t, c, k.nval[t] = 0)
        BY <3>1
      <4>2. \E d : Sound(d) /\ pc' = [pc EXCEPT ![t] = d] BY <2>1, <4>1 DEF NotifyEnter, Goto
      <4> QED BY <1>1, <4>2, GoneTo
    <3>2. CASE In(t, "notifyTake", "check") /\ NotifyCheck(t, k, k.nval[t] = 0)
      <4>1. \E d : Sound(d) /\ pc' = [pc EXCEPT ![t] = d]
        BY <2>1, <2>2, <3>2 DEF NotifyCheck, Goto, In, At
      <4> QED BY <1>1, <4>1, GoneTo
    <3>3. CASE In(t, "notifyTake", "block") /\ NotifyBlock(t)
      <4>1. \E d : Sound(d) /\ pc' = [pc EXCEPT ![t] = d]
        BY <2>1, <2>2, <3>3 DEF NotifyBlock, Goto, In, At
      <4> QED BY <1>1, <4>1, GoneTo
    <3>4. CASE Goto(t, Run)
      <4>1. \E d : Sound(d) /\ pc' = [pc EXCEPT ![t] = d]
        BY <3>4, SoundElsewhere, SoundPlain DEF Goto
      <4> QED BY <1>1, <4>1, GoneTo
    <3> QED BY <2>3, <3>1, <3>2, <3>3, <3>4 DEF ulTaskGenericNotifyTake
  <2>4. CASE xTaskGenericNotifyWait(t)
    <3>1. CASE \E n \in Delays \cup {MaxDelay}, e, x \in {0, 3} :
                 NotifyEnter(t, [at |-> "run", op |-> "notifyWait", wait |-> n, entry |-> e, exit |-> x],
                             k.nstate[t] # RECEIVED)
      <4>1. PICK c : /\ "at" \in DOMAIN c /\ "op" \in DOMAIN c /\ c.op \in Ops
                     /\ NotifyEnter(t, c, k.nstate[t] # RECEIVED)
        BY <3>1
      <4>2. \E d : Sound(d) /\ pc' = [pc EXCEPT ![t] = d] BY <2>1, <4>1 DEF NotifyEnter, Goto
      <4> QED BY <1>1, <4>2, GoneTo
    <3>2. CASE \E k1, b : In(t, "notifyWait", "check") /\ NotifyCheck(t, k1, b)
      <4>1. \E d : Sound(d) /\ pc' = [pc EXCEPT ![t] = d]
        BY <2>1, <2>2, <3>2 DEF NotifyCheck, Goto, In, At
      <4> QED BY <1>1, <4>1, GoneTo
    <3>3. CASE In(t, "notifyWait", "block") /\ NotifyBlock(t)
      <4>1. \E d : Sound(d) /\ pc' = [pc EXCEPT ![t] = d]
        BY <2>1, <2>2, <3>3 DEF NotifyBlock, Goto, In, At
      <4> QED BY <1>1, <4>1, GoneTo
    <3>4. CASE Goto(t, Run)
      <4>1. \E d : Sound(d) /\ pc' = [pc EXCEPT ![t] = d]
        BY <3>4, SoundElsewhere, SoundPlain DEF Goto
      <4> QED BY <1>1, <4>1, GoneTo
    <3> QED BY <2>4, <3>1, <3>2, <3>3, <3>4 DEF xTaskGenericNotifyWait
  <2> QED BY <1>9, <2>3, <2>4
<1> QED BY <1>2, <1>3, <1>4, <1>5, <1>6, <1>7, <1>8, <1>9 DEF TaskStep

LEMMA OtherPlaces ==
    ASSUME Places, prvIdleTask \/ TaskInterrupt \/ Tick
    PROVE  Places' /\ load' = load
<1>1. load' = load
  BY DEF prvIdleTask, TaskInterrupt, Tick, xTaskResumeFromISR, xTaskGenericNotifyFromISR,
         vTaskGenericNotifyGiveFromISR
<1>2. CASE TaskInterrupt \/ Tick
  <2>1. pc' = pc
    BY <1>2 DEF TaskInterrupt, Tick, xTaskResumeFromISR, xTaskGenericNotifyFromISR,
                vTaskGenericNotifyGiveFromISR
  <2> QED BY <1>1, <2>1, StaysAt
<1>3. CASE prvIdleTask
  <2>1. Idle \in Tasks BY KernelAssumption
  <2>2. \A x : Sound([at |-> "free", task |-> x]) BY SoundElsewhere, SoundPlain
  <2>3. pc' = pc \/ \E c : Sound(c) /\ pc' = [pc EXCEPT ![Idle] = c]
    BY <1>3, <2>2 DEF prvIdleTask, prvCheckTasksWaitingTermination, Goto
  <2> QED BY <1>1, <2>1, <2>3, StaysAt, GoneTo
<1> QED BY <1>2, <1>3

-----------------------------------------------------------------------------
(* What a step does to what is queued.                                     *)

Moves(qq, rr) ==
    Right(rr) /\ \A y \in QueueIds : Puts(Contents(qq)[y], Contents(rr)[y], Size(y))

Fine(qq, g, rr, h) ==
    /\ Right(rr)
    /\ \/ h = g /\ \A y \in QueueIds : Puts(Contents(qq)[y], Contents(rr)[y], Size(y))
       \/ \E x \in QueueIds : TakenFrom(qq, rr, x) /\ h = Head(Contents(qq)[x])
       \/ \E x \in QueueIds : /\ Contents(rr) = Contents(qq)
                              /\ Contents(qq)[x] # <<>> /\ h = Head(Contents(qq)[x])
       \/ \E x \in QueueIds : Only(qq, rr, x) /\ Contents(rr)[x] = <<>> /\ h = g

LEMMA QuietFine ==
    ASSUME NEW qq, NEW rr, Right(rr), Contents(rr) = Contents(qq), NEW g
    PROVE  Fine(qq, g, rr, g)
BY DEF Fine, Puts

LEMMA MovesFine ==
    ASSUME NEW qq, NEW rr, Moves(qq, rr), NEW g
    PROVE  Fine(qq, g, rr, g)
BY DEF Fine, Moves

(* An item goes into x, and then the set of x hears of it.                 *)
Fed(qq, rr, x) == Only(qq, rr, x) /\ Puts(Contents(qq)[x], Contents(rr)[x], Size(x))

LEMMA FedMoves ==
    ASSUME NEW qq, NEW x \in QueueIds, NEW rr, Fed(qq, rr, x)
    PROVE  Moves(qq, rr)
<1>1. ASSUME NEW y \in QueueIds PROVE Puts(Contents(qq)[y], Contents(rr)[y], Size(y))
  <2>1. CASE y = x BY <2>1 DEF Fed
  <2>2. CASE y # x BY <2>2 DEF Fed, Only, Puts
  <2> QED BY <2>1, <2>2
<1> QED BY <1>1 DEF Moves, Fed, Only

LEMMA SpreadMoves ==
    ASSUME NEW qq, Right(qq), NEW x \in QueueIds, NEW rr, Spread(qq, rr, x)
    PROVE  Moves(qq, rr)
<1>1. ASSUME NEW y \in QueueIds PROVE Puts(Contents(qq)[y], Contents(rr)[y], Size(y))
  <2>1. CASE y = SetOf(x)
    <3> DEFINE u == Contents(qq)[y]
               w == Contents(rr)[y]
               n == Size(y)
    <3>1. Told(u, w, x, n) BY <2>1 DEF Spread
    <3>2. u \in Seq(Goods) /\ n \in Nat BY ContentsType, KindFacts DEF Right
    <3>3. x \in Goods BY QueueIsGood
    <3> HIDE DEF u, w, n
    <3>4. Puts(u, w, n) BY <3>1, <3>2, <3>3, ToldPuts
    <3> QED BY <3>4 DEF u, w, n
  <2>2. CASE y # SetOf(x) BY <2>2 DEF Spread, Puts
  <2> QED BY <2>1, <2>2
<1> QED BY <1>1 DEF Moves, Spread

LEMMA FedSpread ==
    ASSUME NEW qq, Right(qq), NEW x \in QueueIds, NEW r1, Fed(qq, r1, x),
           NEW rr, Spread(r1, rr, x)
    PROVE  Moves(qq, rr)
<1>1. Right(r1) BY DEF Fed, Only
<1>2. Moves(r1, rr) BY <1>1, SpreadMoves
<1>3. SetOf(x) # x BY KindFacts, QueueAssumption DEF Right
<1>4. ASSUME NEW y \in QueueIds PROVE Puts(Contents(qq)[y], Contents(rr)[y], Size(y))
  <2>1. CASE y = x
    <3>1. Contents(rr)[x] = Contents(r1)[x] BY <1>3 DEF Spread
    <3> QED BY <2>1, <3>1 DEF Fed
  <2>2. CASE y # x
    <3>1. Contents(r1)[y] = Contents(qq)[y] BY <2>2 DEF Fed, Only
    <3> QED BY <1>2, <3>1 DEF Moves
  <2> QED BY <2>1, <2>2
<1> QED BY <1>2, <1>4 DEF Moves

-----------------------------------------------------------------------------
(* What a call does when it need not wait.                                 *)

(* c puts something into its queue, where there is room for it.            *)
Putting(c) ==
    /\ c.q \in QueueIds /\ c.pos \in Positions
    /\ Sized(c.q) => c.item \in Goods
    /\ Room(q, c.q, c.pos)

LEMMA StoredFeeds ==
    ASSUME Right(q), NEW x \in QueueIds, NEW v, Sized(x) => v \in Goods, NEW pos \in Positions,
           Room(q, x, pos)
    PROVE  Fed(q, Stored(q, x, v, pos), x)
<1>1. StoredIn(q, Stored(q, x, v, pos), x, v, pos) BY StoredKeeps
<1> QED BY <1>1 DEF StoredIn, Fed

LEMMA SendMoves ==
    ASSUME Right(q), NEW c, Putting(c)
    PROVE  Moves(q, SendNow(c).q) /\ SendNow(c).got = got
<1> DEFINE x == c.q
           r == prvCopyDataToQueue(k, q, x, c.item, c.pos)
           a == Announce(r.k, r.q, x)
<1>1. x \in QueueIds BY DEF Putting
<1>2. r.q = Stored(q, x, c.item, c.pos) BY DEF prvCopyDataToQueue, WithQueues
<1>3. Fed(q, r.q, x) BY <1>2, StoredFeeds DEF Putting
<1> HIDE DEF r
<1>4. Spread(r.q, a.q, x) BY <1>1, <1>3, AnnounceKeeps DEF Fed, Only
<1>5. Moves(q, a.q)
  <2> HIDE DEF a, x
  <2> QED BY <1>1, <1>3, <1>4, FedSpread
<1>6. Moves(q, r.q)
  <2> HIDE DEF x
  <2> QED BY <1>1, <1>3, FedMoves
<1>7. SendNow(c) = AfterCopy(c, r) BY DEF SendNow, r
<1>8. AfterCopy(c, r).got = got /\ AfterCopy(c, r).q \in {r.q, a.q}
  <2> HIDE DEF a
  <2> DEFINE over == load.kinds[x].set # NoQueue /\ c.pos = "overwrite" /\ ~prvIsQueueEmpty(x)
             b == load.kinds[x].set = NoQueue /\ r.k.events[Recv(x)] = <<>> /\ r.yield
  <2>1. AfterCopy(c, r) = IF over THEN [k |-> r.k, q |-> r.q, got |-> got] ELSE Announced(a, b)
    BY DEF AfterCopy, a
  <2> HIDE DEF over, b
  <2>2. CASE over
    <3>1. AfterCopy(c, r) = [k |-> r.k, q |-> r.q, got |-> got] BY <2>1, <2>2
    <3> QED BY <3>1
  <2>3. CASE ~over
    <3>1. AfterCopy(c, r) = [k |-> SwitchIf(a.k, a.higher \/ b), q |-> a.q, got |-> got]
      BY <2>1, <2>3 DEF Announced, Done
    <3> QED BY <3>1
  <2> QED BY <2>2, <2>3
<1> HIDE DEF a
<1> QED BY <1>5, <1>6, <1>7, <1>8

LEMMA ReceiveTakes ==
    ASSUME Right(q), NEW c, c.q \in QueueIds, Sized(c.q), q[c.q].count # 0
    PROVE  Fine(q, got, ReceiveNow(c).q, ReceiveNow(c).got)
<1> DEFINE x  == c.q
           rr == [prvCopyDataFromQueue(q, x) EXCEPT ![x].count = @ - 1]
<1>1. TakenFrom(q, rr, x) /\ Copied(q, x) = Head(Contents(q)[x]) BY TakenKeeps
<1>2. ReceiveNow(c).q = rr /\ ReceiveNow(c).got = Copied(q, x) BY DEF ReceiveNow, DoneWaking, Done
<1> HIDE DEF rr
<1>3. Right(rr) BY <1>1 DEF TakenFrom, Only
<1> QED BY <1>1, <1>2, <1>3 DEF Fine

LEMMA PeekLooks ==
    ASSUME Right(q), NEW c, c.q \in QueueIds, Sized(c.q), q[c.q].count # 0
    PROVE  Fine(q, got, PeekNow(c).q, PeekNow(c).got)
<1> DEFINE x  == c.q
           rr == [prvCopyDataFromQueue(q, x) EXCEPT ![x].count = @ - 1]
<1>1. TakenFrom(q, rr, x) /\ Copied(q, x) = Head(Contents(q)[x]) BY TakenKeeps
<1>2. PeekNow(c).q = q /\ PeekNow(c).got = Copied(q, x) BY DEF PeekNow, DoneWaking, Done
<1> HIDE DEF rr
<1>3. Contents(q)[x] # <<>> BY <1>1 DEF TakenFrom
<1> QED BY <1>1, <1>2, <1>3 DEF Fine

LEMMA TakeMoves ==
    ASSUME Right(q), k.cur \in Tasks, NEW c, c.q \in QueueIds, ~Sized(c.q)
    PROVE  Fine(q, got, TakeNow(c).q, TakeNow(c).got)
<1> DEFINE x  == c.q
           rr == TakeNow(c).q
           z  == q[x]
           h  == IF IsMutex(x) THEN k.cur ELSE z.holder
           d  == IF load.kinds[x].kind = "recursive" THEN 1 ELSE z.depth
           y  == [z EXCEPT !.count = @ - 1, !.holder = h, !.depth = d]
<1>1. z \in Controls(Size(x)) BY DEF Right
<1>2. h \in Tasks \cup {NoQueue} /\ d \in Int /\ z.count - 1 \in Int
  <2>1. z.holder \in Tasks \cup {NoQueue} /\ z.depth \in Int /\ z.count \in Int
    BY <1>1 DEF Controls
  <2> HIDE DEF z
  <2> QED BY <2>1
<1>3. y \in Controls(Size(x))
  <2> HIDE DEF h, d, z
  <2> QED BY <1>1, <1>2 DEF Controls
<1>4. q = [w \in QueueIds |-> q[w]] BY DEF Right
<1>5. rr = [q EXCEPT ![x].count = @ - 1,
                     ![x].holder = IF IsMutex(x) THEN k.cur ELSE @,
                     ![x].depth = IF load.kinds[x].kind = "recursive" THEN 1 ELSE @]
  BY DEF TakeNow, DoneWaking, Done
<1>6. Swapped(q, rr, x, y)
  <2> HIDE DEF rr
  <2> QED BY <1>1, <1>4, <1>5 DEF Swapped, Controls
<1>7. TakeNow(c).got = got BY DEF TakeNow, DoneWaking, Done
<1> HIDE DEF rr, y, x
<1>8. Right(rr) /\ Contents(rr) = Contents(q) BY <1>3, <1>6, Untouched DEF Only, x
<1>9. Fine(q, got, rr, got) BY <1>8, QuietFine
<1> QED BY <1>7, <1>9 DEF rr

(* A call that queue.c makes.                                              *)
LEMMA EffectFine ==
    ASSUME Right(q), k.cur \in Tasks, NEW c, Legal(c), c.op \in QueueOps, Possible(c)
    PROVE  Fine(q, got, Effect(c).q, Effect(c).got)
<1>1. c.q \in QueueIds BY DEF Legal
<1>2. CASE c.op = "send"
  <2>1. Room(q, c.q, c.pos) BY <1>2 DEF Legal, Possible, Room, prvIsQueueFull, Size
  <2>2. Putting(c) BY <1>1, <1>2, <2>1 DEF Putting, Legal
  <2>3. Moves(q, SendNow(c).q) /\ SendNow(c).got = got BY <2>2, SendMoves
  <2>4. Effect(c) = SendNow(c) BY <1>2 DEF Effect
  <2>5. Fine(q, got, SendNow(c).q, got) BY <2>3, MovesFine
  <2> QED BY <2>3, <2>4, <2>5
<1>3. c.op # "send" => q[c.q].count # 0 BY DEF Possible, prvIsQueueEmpty
<1>4. CASE c.op = "receive"
  <2>1. Effect(c) = ReceiveNow(c) BY <1>4 DEF Effect
  <2> QED BY <1>1, <1>3, <1>4, <2>1, ReceiveTakes DEF Legal
<1>5. CASE c.op = "peek"
  <2>1. Effect(c) = PeekNow(c) BY <1>5 DEF Effect
  <2> QED BY <1>1, <1>3, <1>5, <2>1, PeekLooks DEF Legal
<1>6. CASE c.op = "take"
  <2>1. Effect(c) = TakeNow(c) BY <1>6 DEF Effect
  <2> QED BY <1>1, <1>6, <2>1, TakeMoves DEF Legal
<1> QED BY <1>2, <1>4, <1>5, <1>6 DEF QueueOps

-----------------------------------------------------------------------------
(* The steps of a call.                                                    *)

Progress(t) ==
    Fine(q, got, q', got') /\ \E c : Sound(c) /\ pc' = [pc EXCEPT ![t] = c]

(* The places a call goes to from a place.                                 *)
LEMMA LegalElsewhere ==
    ASSUME NEW c, "at" \in DOMAIN c, Legal(c)
    PROVE  /\ \A p \in QueuePlaces \ Unlocking : Plain([c EXCEPT !.at = p])
           /\ \A p \in QueuePlaces \ Unlocking : \A o : Plain([c EXCEPT !.at = p, !.out = o])
           /\ c.at \in Unlocking => \A p \in QueuePlaces : Plain([c EXCEPT !.at = p])
BY DEF Legal, Plain, QueuePlaces, Wrappers, Unlocking

LEMMA LegalSleeps ==
    ASSUME NEW c, "at" \in DOMAIN c, Legal(c), NEW o, NEW w, NEW d,
           d = [c EXCEPT !.at = "unlockTx", !.out = o, !.wait = w]
    PROVE  \A a \in Endings : /\ Plain([d EXCEPT !.after = a])
                              /\ \A i : Plain([d EXCEPT !.after = a, !.inh = i])
<1>1. /\ DOMAIN d = DOMAIN c /\ d.at = "unlockTx" /\ d.op = c.op /\ d.q = c.q
      /\ d.item = c.item /\ d.pos = c.pos
  BY DEF Legal
<1>2. /\ {"op", "q", "item", "pos", "wait", "out", "inh", "after"} \subseteq DOMAIN c
      /\ c.q \in QueueIds
      /\ c.op = "send" => /\ Sized(c.q) /\ c.item \in Goods /\ c.pos \in Positions
                          /\ c.pos = "overwrite" => Size(c.q) = 1
      /\ c.op \in {"receive", "peek"} => Sized(c.q)
      /\ c.op = "take" => ~Sized(c.q)
  BY DEF Legal
<1>3. ASSUME NEW a \in Endings PROVE Plain([d EXCEPT !.after = a])
  <2> DEFINE e == [d EXCEPT !.after = a]
  <2>1. /\ DOMAIN e = DOMAIN c /\ e.at = "unlockTx" /\ e.op = c.op /\ e.q = c.q
        /\ e.item = c.item /\ e.pos = c.pos /\ e.after = a
    BY <1>1, <1>2
  <2> HIDE DEF e
  <2>2. Legal(e) BY <1>2, <2>1 DEF Legal
  <2>3. Plain(e) BY <1>2, <2>1, <2>2 DEF Plain, Wrappers
  <2> QED BY <2>3 DEF e
<1>4. ASSUME NEW a \in Endings, NEW i PROVE Plain([d EXCEPT !.after = a, !.inh = i])
  <2> DEFINE e == [d EXCEPT !.after = a, !.inh = i]
  <2>1. /\ DOMAIN e = DOMAIN c /\ e.at = "unlockTx" /\ e.op = c.op /\ e.q = c.q
        /\ e.item = c.item /\ e.pos = c.pos /\ e.after = a
    BY <1>1, <1>2
  <2> HIDE DEF e
  <2>2. Legal(e) BY <1>2, <2>1 DEF Legal
  <2>3. Plain(e) BY <1>2, <2>1, <2>2 DEF Plain, Wrappers
  <2> QED BY <2>3 DEF e
<1> QED BY <1>3, <1>4

LEMMA SoundRun == Sound(Run) BY SoundElsewhere, SoundPlain

LEMMA TryFine ==
    ASSUME Right(q), NEW t \in Tasks, k.cur = t, NEW c, "at" \in DOMAIN c, Legal(c), c.op \in QueueOps,
           Try(t, c)
    PROVE  Progress(t)
<1>1. CASE Possible(c)
  <2>1. q' = Effect(c).q /\ got' = Effect(c).got /\ pc' = [pc EXCEPT ![t] = Run]
    BY <1>1 DEF Try, Finish, Becomes, Goto
  <2>2. Fine(q, got, Effect(c).q, Effect(c).got) BY <1>1, EffectFine
  <2> QED BY <2>1, <2>2, SoundRun DEF Progress
<1>2. CASE ~Possible(c)
  <2> DEFINE o == IF c.out.ovf < 0 THEN vTaskInternalSetTimeOutState(k) ELSE c.out
             d == [c EXCEPT !.at = "hold", !.out = o]
             e == [c EXCEPT !.at = "hold",
                            !.out = IF @.ovf < 0 THEN vTaskInternalSetTimeOutState(k) ELSE @]
  <2>1. q' = q /\ got' = got BY <1>2 DEF Try
  <2>2. pc' = [pc EXCEPT ![t] = IF c.wait = 0 THEN Run ELSE e] BY <1>2 DEF Try, Goto
  <2>3. e = d OBVIOUS
  <2>4. Plain(d)
    <3> HIDE DEF o
    <3> QED BY LegalElsewhere DEF QueuePlaces, Unlocking
  <2> HIDE DEF d, e
  <2>5. Sound(IF c.wait = 0 THEN Run ELSE e) BY <2>3, <2>4, SoundPlain, SoundRun
  <2>6. Fine(q, got, q', got') BY <2>1, QuietFine
  <2> QED BY <2>2, <2>5, <2>6 DEF Progress
<1> QED BY <1>1, <1>2

(* A place of queue.c that a task is at.                                   *)
LEMMA InCallLegal ==
    ASSUME Places, NEW t \in Tasks, NEW op \in QueueOps, NEW p \in QueuePlaces, In(t, op, p)
    PROVE  "at" \in DOMAIN pc[t] /\ Legal(pc[t]) /\ pc[t].at = p /\ pc[t].op = op
BY DEF Places, Sound, Plain, In, At, QueuePlaces, Wrappers

LEMMA LockFine ==
    ASSUME Right(q), Places, NEW t \in Tasks, NEW op \in QueueOps, Lock(t, op)
    PROVE  Progress(t)
<1> DEFINE c == pc[t]
           x == c.q
           z == q[x]
           a == IF z.rx = Unlocked THEN 0 ELSE z.rx
           b == IF z.tx = Unlocked THEN 0 ELSE z.tx
           y == [z EXCEPT !.rx = a, !.tx = b]
<1>1. In(t, op, "lock") /\ got' = got /\ pc' = [pc EXCEPT ![t] = [c EXCEPT !.at = "check"]]
  BY DEF Lock, Goto
<1>2. "at" \in DOMAIN c /\ Legal(c) BY <1>1, InCallLegal DEF QueuePlaces
<1>3. Plain([c EXCEPT !.at = "check"])
  <2> HIDE DEF c
  <2> QED BY <1>2, LegalElsewhere DEF QueuePlaces, Unlocking
<1>4. q' = [q EXCEPT ![x].rx = IF @ = Unlocked THEN 0 ELSE @,
                     ![x].tx = IF @ = Unlocked THEN 0 ELSE @]
  BY DEF Lock, prvLockQueue
<1>5. x \in QueueIds BY <1>2 DEF Legal
<1> HIDE DEF x, c
<1>6. z \in Controls(Size(x)) /\ q = [w \in QueueIds |-> q[w]] BY <1>5 DEF Right
<1>7. a \in Nat \cup {Unlocked} /\ b \in Nat \cup {Unlocked}
  <2>1. z.rx \in Nat \cup {Unlocked} /\ z.tx \in Nat \cup {Unlocked} BY <1>6 DEF Controls
  <2> HIDE DEF z
  <2> QED BY <2>1
<1>8. y \in Controls(Size(x)) /\ SameRing(z, y)
  <2> HIDE DEF a, b, z
  <2> QED BY <1>6, <1>7 DEF Controls, SameRing
<1>9. Swapped(q, q', x, y) BY <1>4, <1>5, <1>6 DEF Swapped, Controls
<1> HIDE DEF y, z
<1>10. Right(q') /\ Contents(q') = Contents(q)
  <2> DEFINE rr == q'
  <2>1. Swapped(q, rr, x, y) BY <1>9
  <2> HIDE DEF rr
  <2>2. Right(rr) /\ Contents(rr) = Contents(q) BY <1>5, <1>8, <2>1, Untouched DEF Only, z
  <2> QED BY <2>2 DEF rr
<1>11. Fine(q, got, q', got') BY <1>1, <1>10, QuietFine
<1> QED BY <1>1, <1>3, <1>11, SoundPlain DEF Progress, c

LEMMA CheckFine ==
    ASSUME Right(q), Places, NEW t \in Tasks, NEW op \in QueueOps,
           In(t, op, "check"), WaitCheck(t)
    PROVE  Progress(t)
<1> DEFINE c == pc[t]
           r == xTaskCheckForTimeOut(k, c.out, c.wait)
           d == [c EXCEPT !.at = "unlockTx", !.out = r.out, !.wait = r.wait]
<1>1. "at" \in DOMAIN c /\ Legal(c) BY InCallLegal DEF QueuePlaces
<1>2. q' = q /\ got' = got /\ SleepOrNot(t, r, d) BY DEF WaitCheck, Checked
<1>3. \A a \in Endings : Sound([d EXCEPT !.after = a]) /\ \A i : Sound([d EXCEPT !.after = a, !.inh = i])
  <2> HIDE DEF c, r
  <2> QED BY <1>1, LegalSleeps, SoundPlain
<1> HIDE DEF c, r, d
<1>4. \E e : Sound(e) /\ pc' = [pc EXCEPT ![t] = e]
  <2>1. "block" \in Endings /\ "retry" \in Endings /\ "timeout" \in Endings BY DEF Endings
  <2>2. CASE r.up \/ Possible(d)
    <3>1. PICK a \in Endings : pc' = [pc EXCEPT ![t] = [d EXCEPT !.after = a]]
      BY <1>2, <2>1, <2>2 DEF SleepOrNot, Goto
    <3> QED BY <1>3, <3>1
  <2>3. CASE ~(r.up \/ Possible(d))
    <3>1. PICK i : pc' = [pc EXCEPT ![t] = [d EXCEPT !.after = "block", !.inh = i]]
      BY <1>2, <2>3 DEF SleepOrNot, GoToSleep, Goto
    <3> QED BY <1>3, <2>1, <3>1
  <2> QED BY <2>2, <2>3
<1>5. Fine(q, got, q', got') BY <1>2, QuietFine
<1> QED BY <1>4, <1>5 DEF Progress

LEMMA UnlockFine ==
    ASSUME Right(q), Places, NEW t \in Tasks, NEW op \in QueueOps,
           prvUnlockQueue(t, op, AfterUnlock(pc[t]))
    PROVE  Progress(t)
<1> DEFINE c == pc[t]
           x == c.q
<1>1. got' = got BY DEF prvUnlockQueue
<1>2. CASE /\ In(t, op, "unlockTx") /\ q' = UnlockTx(k, q, x).q
           /\ pc' = [pc EXCEPT ![t] = [c EXCEPT !.at = "unlockRx"]]
  <2>1. "at" \in DOMAIN c /\ Legal(c) /\ c.at = "unlockTx" BY <1>2, InCallLegal DEF QueuePlaces
  <2>2. x \in QueueIds BY <2>1 DEF Legal
  <2>3. Plain([c EXCEPT !.at = "unlockRx"])
    <3> HIDE DEF c
    <3> QED BY <2>1, LegalElsewhere DEF QueuePlaces, Unlocking
  <2> DEFINE rr == UnlockTx(k, q, x).q
  <2> HIDE DEF c, x
  <2>4. Spread(q, rr, x) BY <2>2, UnlockTxKeeps
  <2> HIDE DEF rr
  <2>5. Moves(q, rr) BY <2>2, <2>4, SpreadMoves
  <2>6. Fine(q, got, rr, got) BY <2>5, MovesFine
  <2>7. Fine(q, got, q', got') BY <1>1, <1>2, <2>6 DEF rr
  <2> QED BY <1>2, <2>3, <2>7, SoundPlain DEF Progress, c
<1>3. CASE /\ In(t, op, "unlockRx") /\ q' = UnlockRx(k, q, x).q
           /\ pc' = [pc EXCEPT ![t] = AfterUnlock(c)]
  <2>1. "at" \in DOMAIN c /\ Legal(c) /\ c.at = "unlockRx" BY <1>3, InCallLegal DEF QueuePlaces
  <2>2. x \in QueueIds /\ c.after \in Endings BY <2>1 DEF Legal, Unlocking
  <2>3. Plain([c EXCEPT !.at = "try"]) /\ Plain([c EXCEPT !.at = "late"]) /\ Plain(Run)
    <3> HIDE DEF c
    <3> QED BY <2>1, LegalElsewhere, SoundElsewhere DEF QueuePlaces, Unlocking
  <2> DEFINE again == [c EXCEPT !.at = "try"]
             late  == IF c.op = "send" THEN Run ELSE [c EXCEPT !.at = "late"]
  <2>4. Plain(again) /\ Plain(late) BY <2>3
  <2>5. AfterUnlock(c) = CASE c.after = "block"   -> Resume(again)
                           [] c.after = "retry"   -> [at |-> "resumeOnly", then |-> again]
                           [] c.after = "timeout" -> [at |-> "resumeOnly", then |-> late]
    BY DEF AfterUnlock
  <2> DEFINE rr == UnlockRx(k, q, x).q
  <2> HIDE DEF c, x, again, late
  <2>6. Sound(AfterUnlock(c))
    <3>1. /\ Sound(Resume(again)) /\ Sound([at |-> "resumeOnly", then |-> again])
          /\ Sound([at |-> "resumeOnly", then |-> late])
      BY <2>4, SoundWrapped
    <3> QED BY <2>2, <2>5, <3>1 DEF Endings
  <2>7. Right(rr) /\ Contents(rr) = Contents(q) BY <2>2, UnlockRxKeeps
  <2> HIDE DEF rr
  <2>8. Fine(q, got, rr, got) BY <2>7, QuietFine
  <2>9. Fine(q, got, q', got') BY <1>1, <1>3, <2>8 DEF rr
  <2> QED BY <1>3, <2>6, <2>9 DEF Progress
<1> QED BY <1>2, <1>3 DEF prvUnlockQueue, Becomes, Goto

LEMMA WaitFine ==
    ASSUME Right(q), Places, NEW t \in Tasks, NEW op \in QueueOps, WaitSteps(t, op)
    PROVE  Progress(t)
<1>1. CASE In(t, op, "try") /\ Try(t, pc[t])
  <2>1. /\ "at" \in DOMAIN pc[t] /\ Legal(pc[t]) /\ pc[t].op \in QueueOps /\ k.cur = t
    BY <1>1, InCallLegal DEF QueuePlaces, In, At
  <2> DEFINE c == pc[t]
  <2>2. Try(t, c) BY <1>1
  <2> HIDE DEF c
  <2> QED BY <2>1, <2>2, TryFine DEF c
<1>2. CASE /\ In(t, op, "hold") /\ UNCHANGED <<q, got>>
           /\ pc' = [pc EXCEPT ![t] = [pc[t] EXCEPT !.at = "lock"]]
  <2>1. "at" \in DOMAIN pc[t] /\ Legal(pc[t]) BY <1>2, InCallLegal DEF QueuePlaces
  <2>2. Plain([pc[t] EXCEPT !.at = "lock"]) BY <2>1, LegalElsewhere DEF QueuePlaces, Unlocking
  <2>3. Fine(q, got, q', got') BY <1>2, QuietFine
  <2> QED BY <1>2, <2>2, <2>3, SoundPlain DEF Progress
<1>3. CASE Lock(t, op) BY <1>3, LockFine
<1>4. CASE In(t, op, "check") /\ WaitCheck(t) BY <1>4, CheckFine
<1>5. CASE prvUnlockQueue(t, op, AfterUnlock(pc[t])) BY <1>5, UnlockFine
<1> QED BY <1>1, <1>2, <1>3, <1>4, <1>5 DEF WaitSteps, Goto

LEMMA LateFine ==
    ASSUME Right(q), Places, NEW t \in Tasks, NEW op \in QueueOps, LateLook(t, op)
    PROVE  Progress(t)
<1> DEFINE c == pc[t]
<1>1. "at" \in DOMAIN c /\ Legal(c) BY InCallLegal DEF QueuePlaces, LateLook
<1>2. Plain([c EXCEPT !.at = "try"]) /\ Plain([c EXCEPT !.at = "disinherit"])
  <2> HIDE DEF c
  <2> QED BY <1>1, LegalElsewhere DEF QueuePlaces, Unlocking
<1>3. Sound([c EXCEPT !.at = "try"]) /\ Sound([c EXCEPT !.at = "disinherit"]) BY <1>2, SoundPlain
<1>4. \E d : Sound(d) /\ pc' = [pc EXCEPT ![t] = d] BY <1>3, SoundRun DEF LateLook, Goto
<1>5. Fine(q, got, q', got')
  <2>1. q' = q /\ got' = got BY DEF LateLook
  <2> QED BY <2>1, QuietFine
<1> QED BY <1>4, <1>5 DEF Progress

LEMMA BeginFine ==
    ASSUME Right(q), NEW t \in Tasks, NEW x \in QueueIds, NEW op \in QueueOps, NEW v, NEW pos, NEW n,
           op = "send" => /\ Sized(x) /\ v \in Goods /\ pos \in Positions
                          /\ pos = "overwrite" => Size(x) = 1,
           op \in {"receive", "peek"} => Sized(x), op = "take" => ~Sized(x),
           Begin(t, Call(op, x, v, pos, n))
    PROVE  Progress(t)
<1> DEFINE c == Call(op, x, v, pos, n)
<1>1. /\ "at" \in DOMAIN c /\ c.at = "try" /\ c.op = op /\ c.q = x /\ c.item = v /\ c.pos = pos
      /\ {"op", "q", "item", "pos", "wait", "out", "inh", "after"} \subseteq DOMAIN c
  BY DEF Call
<1>2. Begin(t, c) OBVIOUS
<1> HIDE DEF c
<1>3. Legal(c) BY <1>1 DEF Legal, Unlocking
<1>4. k.cur = t /\ Try(t, c) BY <1>2 DEF Begin
<1> QED BY <1>1, <1>3, <1>4, TryFine

-----------------------------------------------------------------------------
(* The calls, from tasks and from interrupts.                              *)

Kept == load' = load /\ Places' /\ Fine(q, got, q', got')

LEMMA ProgressKept ==
    ASSUME Places, load' = load, NEW t \in Tasks, Progress(t)
    PROVE  Kept
<1>1. PICK c : Sound(c) /\ pc' = [pc EXCEPT ![t] = c] BY DEF Progress
<1>2. Places' BY <1>1, GoneTo
<1> QED BY <1>2 DEF Kept, Progress

LEMMA MsgIsGood == ASSUME load \in Loads, NEW m \in load.msgs PROVE m \in Goods
<1> DEFINE M == UNION {l.msgs : l \in Loads}
<1>1. Goods = M \cup QueueIds BY DEF Goods
<1>2. m \in M OBVIOUS
<1> HIDE DEF M
<1> QED BY <1>1, <1>2

LEMMA SendKept ==
    ASSUME Right(q), Places, NEW t \in Tasks, xQueueGenericSend(t)
    PROVE  Kept
<1>1. load' = load BY DEF xQueueGenericSend
<1>2. CASE WaitSteps(t, "send")
  <2>1. Progress(t) BY <1>2, WaitFine DEF QueueOps
  <2> QED BY <1>1, <2>1, ProgressKept
<1>3. CASE \E x \in QueueIds, m \in load.msgs, n \in load.waits[t], pos \in {"back", "front", "overwrite"} :
             /\ Sized(x)
             /\ pos = "overwrite" => load.kinds[x].len = 1
             /\ Begin(t, Call("send", x, m, pos, n))
  <2>1. PICK x \in QueueIds, m \in load.msgs, n \in load.waits[t], pos \in {"back", "front", "overwrite"} :
             /\ Sized(x)
             /\ pos = "overwrite" => load.kinds[x].len = 1
             /\ Begin(t, Call("send", x, m, pos, n))
    BY <1>3
  <2>2. m \in Goods BY MsgIsGood DEF Right
  <2>3. pos \in Positions /\ (pos = "overwrite" => Size(x) = 1) /\ "send" \in QueueOps
    BY <2>1 DEF Positions, Size, QueueOps
  <2>4. Progress(t) BY <2>1, <2>2, <2>3, BeginFine
  <2> QED BY <1>1, <2>4, ProgressKept
<1> QED BY <1>2, <1>3 DEF xQueueGenericSend

LEMMA ReadKept ==
    ASSUME Right(q), Places, NEW t \in Tasks, xQueueReceive(t) \/ xQueuePeek(t)
    PROVE  Kept
<1>1. load' = load BY DEF xQueueReceive, xQueuePeek
<1>2. PICK op \in {"receive", "peek"} :
        \/ \E x \in QueueIds, n \in load.waits[t] : Sized(x) /\ Begin(t, Call(op, x, NoQueue, "", n))
        \/ WaitSteps(t, op) \/ LateLook(t, op)
  BY DEF xQueueReceive, xQueuePeek
<1>3. op \in QueueOps BY DEF QueueOps
<1>4. CASE WaitSteps(t, op) \/ LateLook(t, op)
  <2>1. Progress(t) BY <1>3, <1>4, WaitFine, LateFine
  <2> QED BY <1>1, <2>1, ProgressKept
<1>5. CASE \E x \in QueueIds, n \in load.waits[t] : Sized(x) /\ Begin(t, Call(op, x, NoQueue, "", n))
  <2>1. PICK x \in QueueIds, n \in load.waits[t] : Sized(x) /\ Begin(t, Call(op, x, NoQueue, "", n))
    BY <1>5
  <2>2. op # "send" /\ op # "take" OBVIOUS
  <2>3. Progress(t) BY <1>3, <2>1, <2>2, BeginFine
  <2> QED BY <1>1, <2>3, ProgressKept
<1> QED BY <1>2, <1>4, <1>5

LEMMA TakeKept ==
    ASSUME Right(q), Places, NEW t \in Tasks, xQueueSemaphoreTake(t)
    PROVE  Kept
<1>1. load' = load BY DEF xQueueSemaphoreTake
<1>2. "take" \in QueueOps BY DEF QueueOps
<1>3. CASE WaitSteps(t, "take") \/ LateLook(t, "take")
  <2>1. Progress(t) BY <1>2, <1>3, WaitFine, LateFine
  <2> QED BY <1>1, <2>1, ProgressKept
<1>4. CASE \E x \in QueueIds, n \in load.waits[t] : ~Sized(x) /\ Begin(t, Call("take", x, NoQueue, "", n))
  <2>1. PICK x \in QueueIds, n \in load.waits[t] : ~Sized(x) /\ Begin(t, Call("take", x, NoQueue, "", n))
    BY <1>4
  <2>2. Progress(t) BY <1>2, <2>1, BeginFine
  <2> QED BY <1>1, <2>2, ProgressKept
<1>5. CASE q' = q /\ got' = got /\ Goto(t, Run)
  <2>1. Fine(q, got, q', got') BY <1>5, QuietFine
  <2>2. Progress(t) BY <1>5, <2>1, SoundRun DEF Progress, Goto
  <2> QED BY <1>1, <2>2, ProgressKept
<1> QED BY <1>3, <1>4, <1>5 DEF xQueueSemaphoreTake

(* Giving: nothing is queued, but a queue set may hear of it.              *)
LEMMA GiveMoves ==
    ASSUME Right(q), NEW x \in QueueIds, ~Sized(x)
    PROVE  Moves(q, GiveNow(x).q) /\ GiveNow(x) = [k |-> GiveNow(x).k, q |-> GiveNow(x).q, got |-> got]
<1> DEFINE c == Call("send", x, NoQueue, "back", 0)
<1>1. c.q = x /\ c.pos = "back" BY DEF Call
<1>2. GiveNow(x) = SendNow(c) BY DEF GiveNow
<1>3. \A d : SendNow(d) = [k |-> SendNow(d).k, q |-> SendNow(d).q, got |-> got]
  BY DEF SendNow, AfterCopy, Announced, Done
<1> HIDE DEF c
<1>4. Putting(c) BY <1>1 DEF Putting, Room, Positions
<1>5. Moves(q, SendNow(c).q) BY <1>4, SendMoves
<1> QED BY <1>2, <1>3, <1>5

LEMMA GiveKept ==
    ASSUME Right(q), Places, NEW t \in Tasks, Give(t)
    PROVE  Kept
<1>1. load' = load /\ pc' = pc /\ got' = got BY DEF Give
<1>2. PICK x \in QueueIds : /\ load.kinds[x].kind = "semaphore" \/ load.kinds[x].kind = "mutex"
                            /\ q' = GiveNow(x).q
  BY DEF Give, Becomes
<1>3. ~Sized(x) BY <1>2 DEF Sized
<1> DEFINE rr == GiveNow(x).q
<1>4. Moves(q, rr) BY <1>3, GiveMoves
<1> HIDE DEF rr
<1>5. Fine(q, got, rr, got) BY <1>4, MovesFine
<1>6. Fine(q, got, q', got') BY <1>1, <1>2, <1>5 DEF rr
<1> QED BY <1>1, <1>6, StaysAt DEF Kept

(* The depth of a recursive mutex is not what is queued.                   *)
Deeper(qq, rr, x, d) == rr = [qq EXCEPT ![x].depth = d]

LEMMA DepthMoves ==
    ASSUME NEW qq, Right(qq), NEW x \in QueueIds, NEW d \in Int, NEW rr, Deeper(qq, rr, x, d)
    PROVE  Right(rr) /\ Contents(rr) = Contents(qq)
<1> DEFINE y == [qq[x] EXCEPT !.depth = d]
<1>1. Swapped(qq, rr, x, y) BY DEF Swapped, Deeper
<1>2. qq[x] \in Controls(Size(x)) BY DEF Right
<1>3. y \in Controls(Size(x)) /\ SameRing(qq[x], y) BY <1>2 DEF Controls, SameRing
<1> HIDE DEF y
<1> QED BY <1>1, <1>3, Untouched DEF Only

LEMMA RecursiveKept ==
    ASSUME Right(q), Places, NEW t \in Tasks,
           xQueueGiveMutexRecursive(t) \/ xQueueTakeMutexRecursive(t)
    PROVE  Kept
<1>1. load' = load /\ pc' = pc /\ got' = got
  BY DEF xQueueGiveMutexRecursive, xQueueTakeMutexRecursive, taskVars
<1>2. PICK x \in QueueIds : /\ load.kinds[x].kind = "recursive"
                            /\ \/ q' = [GiveNow(x) EXCEPT !.q[x].depth = 0].q
                               \/ q' = [q EXCEPT ![x].depth = @ - 1]
                               \/ q' = [q EXCEPT ![x].depth = @ + 1]
  BY DEF xQueueGiveMutexRecursive, xQueueTakeMutexRecursive, Becomes
<1>3. ~Sized(x) BY <1>2 DEF Sized
<1>4. q[x].depth \in Int
  <2>1. q[x] \in Controls(Size(x)) BY DEF Right
  <2> QED BY <2>1 DEF Controls
<1>5. CASE q' = [GiveNow(x) EXCEPT !.q[x].depth = 0].q
  <2> DEFINE g  == GiveNow(x).q
             rr == [g EXCEPT ![x].depth = 0]
  <2>1. Moves(q, g) /\ GiveNow(x) = [k |-> GiveNow(x).k, q |-> g, got |-> got] BY <1>3, GiveMoves
  <2>2. [GiveNow(x) EXCEPT !.q[x].depth = 0].q = rr BY <2>1
  <2> HIDE DEF g
  <2>3. Deeper(g, rr, x, 0) /\ Right(g) BY <2>1 DEF Moves, Deeper
  <2> HIDE DEF rr
  <2>4. Right(rr) /\ Contents(rr) = Contents(g) BY <2>3, 0 \in Int, DepthMoves
  <2>5. Moves(q, rr) BY <2>1, <2>4 DEF Moves
  <2>6. Fine(q, got, rr, got) BY <2>5, MovesFine
  <2>7. Fine(q, got, q', got') BY <1>1, <1>5, <2>2, <2>6
  <2> QED BY <1>1, <2>7, StaysAt DEF Kept
<1>6. CASE q' = [q EXCEPT ![x].depth = @ - 1] \/ q' = [q EXCEPT ![x].depth = @ + 1]
  <2> DEFINE rr == q'
  <2>1. PICK d \in Int : Deeper(q, rr, x, d)
    <3>1. q[x].depth - 1 \in Int /\ q[x].depth + 1 \in Int BY <1>4
    <3> QED BY <1>6, <3>1 DEF Deeper
  <2> HIDE DEF rr
  <2>2. Right(rr) /\ Contents(rr) = Contents(q) BY <2>1, DepthMoves
  <2>3. Fine(q, got, rr, got) BY <2>2, QuietFine
  <2>4. Fine(q, got, q', got') BY <1>1, <2>3 DEF rr
  <2> QED BY <1>1, <2>4, StaysAt DEF Kept
<1> QED BY <1>2, <1>5, <1>6

LEMMA ResetKept ==
    ASSUME Right(q), Places, NEW t \in Tasks, xQueueGenericReset(t)
    PROVE  Kept
<1>1. load' = load /\ pc' = pc /\ got' = got BY DEF xQueueGenericReset
<1>2. PICK x \in QueueIds :
        q' = [q EXCEPT ![x].count = 0, ![x].write = 0, ![x].read = load.kinds[x].len - 1,
                       ![x].rx = Unlocked, ![x].tx = Unlocked]
  BY DEF xQueueGenericReset, Becomes, DoneWaking, Done
<1> DEFINE n  == Size(x)
           z  == q[x]
           y  == [z EXCEPT !.count = 0, !.write = 0, !.read = n - 1, !.rx = Unlocked, !.tx = Unlocked]
           rr == q'
<1>3. n \in Nat \ {0} /\ z \in Controls(n) /\ q = [w \in QueueIds |-> q[w]] BY KindFacts DEF Right
<1>4. Swapped(q, rr, x, y) BY <1>2, <1>3 DEF Swapped, Size, Controls
<1>5. /\ y \in Controls(n) /\ y.count = 0 /\ y.write = 0 /\ y.read = n - 1
  <2> DEFINE r == n - 1
             a == Unlocked
  <2>1. y = [z EXCEPT !.count = 0, !.write = 0, !.read = r, !.rx = a, !.tx = a] OBVIOUS
  <2>2. 0 \in 0 .. n - 1 /\ r \in 0 .. n - 1 /\ 0 \in Int /\ a \in Nat \cup {Unlocked}
    <3> HIDE DEF n
    <3> QED BY <1>3
  <2> HIDE DEF n, z, r, y, a
  <2>3. y \in Controls(n) /\ y.count = 0 /\ y.write = 0 /\ y.read = r
    BY <1>3, <2>1, <2>2 DEF Controls
  <2> QED BY <2>3 DEF r
<1> HIDE DEF y, rr, n
<1>6. Ring(y, n)
  <2>1. Low(n - 1 + 0 + 1, n) = 0 BY <1>3 DEF Low
  <2> QED BY <1>3, <1>5, <2>1 DEF Ring
<1>7. Only(q, rr, x) /\ Contents(rr)[x] = InsideOf(y, x) BY <1>4, <1>5, <1>6, Replace DEF n
<1>8. InsideOf(y, x) = <<>>
  <2>1. Inside(y, n) \in Seq(Goods) /\ Len(Inside(y, n)) = 0 BY <1>3, <1>5, <1>6, InsideFacts
  <2> DEFINE u == Inside(y, n)
  <2> HIDE DEF u
  <2>2. u = <<>> BY <2>1 DEF u
  <2> QED BY <2>2 DEF InsideOf, u, n
<1>9. Fine(q, got, rr, got) BY <1>7, <1>8 DEF Fine, Only
<1>10. Fine(q, got, q', got') BY <1>1, <1>9 DEF rr
<1> QED BY <1>1, <1>10, StaysAt DEF Kept

(* After the item, an interrupt counts it or tells of it.                  *)
LEMMA IsrMoves ==
    ASSUME Right(q), NEW x \in QueueIds, NEW r, Fed(q, r.q, x), NEW b, CopiedFromISR(r, x, b)
    PROVE  Moves(q, q')
<1> DEFINE rr == q'
           g  == r.q
           a  == Announce(r.k, g, x).q
           n  == prvIncrementQueueTxLock(k, g[x].tx)
           y  == [g[x] EXCEPT !.tx = n]
<1>1. Right(g) BY DEF Fed, Only
<1>2. \/ rr = [g EXCEPT ![x].tx = prvIncrementQueueTxLock(k, @)]
      \/ rr = a
      \/ rr = g
  BY DEF CopiedFromISR, Announced, Done, Becomes
<1>3. CASE rr = [g EXCEPT ![x].tx = prvIncrementQueueTxLock(k, @)]
  <2>1. Swapped(g, rr, x, y) BY <1>3 DEF Swapped
  <2>2. g[x] \in Controls(Size(x)) BY <1>1 DEF Right
  <2>3. n \in Nat \cup {Unlocked}
    <3>1. g[x].tx \in Nat \cup {Unlocked} BY <2>2 DEF Controls
    <3> HIDE DEF g
    <3> QED BY <3>1 DEF prvIncrementQueueTxLock, Unlocked
  <2>4. y \in Controls(Size(x)) /\ SameRing(g[x], y)
    <3> HIDE DEF n, g
    <3> QED BY <2>2, <2>3 DEF Controls, SameRing
  <2> HIDE DEF rr, y, g
  <2>5. Only(g, rr, x) /\ Contents(rr) = Contents(g) BY <1>1, <2>1, <2>4, Untouched
  <2>6. Moves(q, g)
    <3>1. Fed(q, g, x) BY DEF g
    <3> QED BY <3>1, FedMoves
  <2>7. Moves(q, rr) BY <2>5, <2>6 DEF Moves, Only
  <2> QED BY <2>7 DEF rr
<1>4. CASE rr = a
  <2>1. Spread(g, a, x)
    <3> HIDE DEF g
    <3> QED BY <1>1, AnnounceKeeps
  <2>2. Fed(q, g, x) OBVIOUS
  <2> HIDE DEF a, g, rr
  <2>3. Moves(q, a) BY <1>1, <2>1, <2>2, FedSpread
  <2> QED BY <1>4, <2>3 DEF rr
<1>5. CASE rr = g
  <2>1. Fed(q, g, x) OBVIOUS
  <2> HIDE DEF g, rr
  <2>2. Moves(q, g) BY <2>1, FedMoves
  <2> QED BY <1>5, <2>2 DEF rr
<1> QED BY <1>2, <1>3, <1>4, <1>5

LEMMA MovesKept ==
    ASSUME Places, load' = load, pc' = pc, got' = got, Moves(q, q')
    PROVE  Kept
<1> DEFINE rr == q'
<1>1. Moves(q, rr) OBVIOUS
<1> HIDE DEF rr
<1>2. Fine(q, got, rr, got) BY <1>1, MovesFine
<1>3. Fine(q, got, q', got') BY <1>2 DEF rr
<1> QED BY <1>3, StaysAt DEF Kept

LEMMA SendIsrKept ==
    ASSUME Right(q), Places, xQueueGenericSendFromISR
    PROVE  Kept
<1>1. load' = load /\ pc' = pc /\ got' = got BY DEF xQueueGenericSendFromISR
<1>2. PICK x \in QueueIds, m \in load.msgs, pos \in {"back", "front", "overwrite"} :
        Sized(x) /\ SendFromISR(x, m, pos)
  BY DEF xQueueGenericSendFromISR
<1>3. m \in Goods /\ pos \in Positions BY MsgIsGood DEF Right, Positions
<1>4. Room(q, x, pos) BY <1>2 DEF SendFromISR, Room, Size, prvIsQueueFull
<1> DEFINE r == prvCopyDataToQueue(k, q, x, m, pos)
<1>5. PICK b : CopiedFromISR(r, x, b) BY <1>2 DEF SendFromISR
<1>6. r.q = Stored(q, x, m, pos) BY DEF prvCopyDataToQueue, WithQueues
<1>7. Fed(q, r.q, x) BY <1>3, <1>4, <1>6, StoredFeeds
<1> HIDE DEF r
<1>8. Moves(q, q') BY <1>5, <1>7, IsrMoves
<1> QED BY <1>1, <1>8, MovesKept

LEMMA GiveIsrKept ==
    ASSUME Right(q), Places, xQueueGiveFromISR
    PROVE  Kept
<1>1. load' = load /\ pc' = pc /\ got' = got BY DEF xQueueGiveFromISR
<1>2. PICK x \in QueueIds :
        /\ load.kinds[x].kind = "semaphore"
        /\ CopiedFromISR([k |-> k, q |-> [q EXCEPT ![x].count = @ + 1]], x, TRUE)
  BY DEF xQueueGiveFromISR
<1>3. ~Sized(x) BY <1>2 DEF Sized
<1> DEFINE g == [q EXCEPT ![x].count = @ + 1]
           z == q[x]
           c == z.count + 1
           y == [z EXCEPT !.count = c]
           r == [k |-> k, q |-> g]
<1>4. Swapped(q, g, x, y) BY DEF Swapped
<1>5. z \in Controls(Size(x)) BY DEF Right
<1>6. c \in Int
  <2>1. z.count \in Int BY <1>5 DEF Controls
  <2> HIDE DEF z
  <2> QED BY <2>1
<1>7. y \in Controls(Size(x))
  <2> HIDE DEF c, z
  <2> QED BY <1>5, <1>6 DEF Controls
<1>8. r.q = g /\ CopiedFromISR(r, x, TRUE) BY <1>2
<1> HIDE DEF g, y, r
<1>9. Only(q, g, x) /\ Contents(g) = Contents(q) BY <1>3, <1>4, <1>7, Untouched
<1>10. Fed(q, g, x) BY <1>9 DEF Fed, Puts
<1>11. Moves(q, q') BY <1>8, <1>10, IsrMoves
<1> QED BY <1>1, <1>11, MovesKept

LEMMA ReceiveIsrKept ==
    ASSUME Right(q), Places, xQueueReceiveFromISR
    PROVE  Kept
<1>1. load' = load /\ pc' = pc BY DEF xQueueReceiveFromISR
<1>2. PICK x \in QueueIds :
        LET q1 == [prvCopyDataFromQueue(q, x) EXCEPT ![x].count = @ - 1]
        IN  /\ Sized(x) /\ ~prvIsQueueEmpty(x) /\ got' = Copied(q, x)
            /\ q' = q1 \/ q' = [q1 EXCEPT ![x].rx = prvIncrementQueueRxLock(k, @)]
  BY DEF xQueueReceiveFromISR, Becomes, DoneWaking, Done
<1> DEFINE g  == [prvCopyDataFromQueue(q, x) EXCEPT ![x].count = @ - 1]
           rr == q'
           h  == got'
           n  == prvIncrementQueueRxLock(k, g[x].rx)
           y  == [g[x] EXCEPT !.rx = n]
<1>3. /\ Sized(x) /\ q[x].count # 0 /\ h = Copied(q, x)
      /\ rr = g \/ rr = [g EXCEPT ![x].rx = prvIncrementQueueRxLock(k, @)]
  BY <1>2 DEF prvIsQueueEmpty
<1>4. TakenFrom(q, g, x) /\ h = Head(Contents(q)[x]) BY <1>3, TakenKeeps
<1> HIDE DEF g, h
<1>5. Right(g) BY <1>4 DEF TakenFrom, Only
<1>6. TakenFrom(q, rr, x)
  <2>1. CASE rr = g
    <3> HIDE DEF rr
    <3> QED BY <1>4, <2>1
  <2>2. CASE rr = [g EXCEPT ![x].rx = prvIncrementQueueRxLock(k, @)]
    <3>1. Swapped(g, rr, x, y) BY <2>2 DEF Swapped
    <3>2. g[x] \in Controls(Size(x)) BY <1>5 DEF Right
    <3>3. n \in Nat \cup {Unlocked}
      <4>1. g[x].rx \in Nat \cup {Unlocked} BY <3>2 DEF Controls
      <4> QED BY <4>1 DEF prvIncrementQueueRxLock, Unlocked
    <3>4. y \in Controls(Size(x)) /\ SameRing(g[x], y)
      <4> HIDE DEF n
      <4> QED BY <3>2, <3>3 DEF Controls, SameRing
    <3> HIDE DEF rr, y
    <3>5. Only(g, rr, x) /\ Contents(rr) = Contents(g) BY <1>5, <3>1, <3>4, Untouched
    <3>6. Only(q, rr, x)
      <4>1. Right(rr) BY <3>5 DEF Only
      <4>2. \A w \in QueueIds \ {x} : rr[w] = q[w] BY <1>4, <3>5 DEF TakenFrom, Only
      <4>3. \A w \in QueueIds \ {x} : Contents(rr)[w] = Contents(q)[w] BY <1>4, <3>5 DEF TakenFrom, Only
      <4> QED BY <4>1, <4>2, <4>3 DEF Only
    <3> QED BY <1>4, <3>5, <3>6 DEF TakenFrom
  <2> QED BY <1>3, <2>1, <2>2
<1>7. Fine(q, got, q', got')
  <2> HIDE DEF rr
  <2>1. Fine(q, got, rr, h) BY <1>4, <1>6 DEF Fine, TakenFrom, Only
  <2> QED BY <2>1 DEF rr, h
<1> QED BY <1>1, <1>7, StaysAt DEF Kept

(* Every step.                                                             *)
LEMMA StepKept ==
    ASSUME Right(q), Places, [QueueNext]_queueVars
    PROVE  Kept
<1>1. CASE QueueInterrupt BY <1>1, SendIsrKept, GiveIsrKept, ReceiveIsrKept DEF QueueInterrupt
<1>2. CASE \E t \in Tasks : QueueStep(t)
  BY <1>2, SendKept, GiveKept, RecursiveKept, ReadKept, TakeKept, ResetKept DEF QueueStep
<1>3. CASE /\ (\E t \in Tasks : TaskStep(t)) \/ prvIdleTask \/ TaskInterrupt \/ (Prompt /\ Tick)
           /\ UNCHANGED <<q, got>>
  <2>1. Places' /\ load' = load BY <1>3, TaskPlaces, OtherPlaces
  <2>2. q' = q /\ got' = got BY <1>3
  <2>3. Fine(q, got, q', got') BY <2>2, QuietFine
  <2> QED BY <2>1, <2>3 DEF Kept
<1>4. CASE UNCHANGED queueVars
  <2>1. load' = load /\ pc' = pc /\ q' = q /\ got' = got BY <1>4 DEF queueVars, taskVars
  <2>2. Fine(q, got, q', got') BY <2>1, QuietFine
  <2> QED BY <2>1, <2>2, StaysAt DEF Kept
<1> QED BY <1>1, <1>2, <1>3, <1>4 DEF QueueNext

-----------------------------------------------------------------------------
(* What BoundedFifo sees of the queues.                                    *)

View == [x \in QueueIds |-> IF Sized(x) THEN Queued(x) ELSE <<>>]
Lens == [x \in QueueIds |-> load.kinds[x].len]

Seen(qq) ==
    [x \in QueueIds |-> IF Sized(x)
                        THEN [i \in 1 .. qq[x].count |->
                               qq[x].store[(qq[x].read + i) % load.kinds[x].len]]
                        ELSE <<>>]

LEMMA SeenIsContents == ASSUME NEW qq, Right(qq) PROVE Seen(qq) = Contents(qq)
<1>1. ASSUME NEW x \in QueueIds, Sized(x)
      PROVE  [i \in 1 .. qq[x].count |-> qq[x].store[(qq[x].read + i) % load.kinds[x].len]]
               = Inside(qq[x], Size(x))
  <2> DEFINE n == Size(x)
             z == qq[x]
  <2>1. n \in Nat \ {0} /\ z \in Controls(n) /\ Ring(z, n) BY <1>1, KindFacts DEF Right
  <2> HIDE DEF n, z
  <2>2. z.read \in 0 .. n - 1 /\ z.count \in 0 .. n BY <2>1, RingParts DEF Ring
  <2>3. ASSUME NEW i \in 1 .. z.count PROVE (z.read + i) % n = Low(z.read + i, n)
    <3> DEFINE a == z.read + i
    <3>1. a \in 0 .. 3 * n - 1 BY <2>1, <2>2
    <3> HIDE DEF a
    <3>2. a % n = Low(a, n) BY <2>1, <3>1, LowIsRest
    <3> QED BY <3>2 DEF a
  <2>4. [i \in 1 .. z.count |-> z.store[(z.read + i) % n]]
          = [i \in 1 .. z.count |-> z.store[Low(z.read + i, n)]]
    BY <2>3
  <2>5. Inside(z, n) = [i \in 1 .. z.count |-> z.store[Low(z.read + i, n)]] BY DEF Inside
  <2>6. [i \in 1 .. z.count |-> z.store[(z.read + i) % n]] = Inside(z, n) BY <2>4, <2>5
  <2> QED BY <2>6 DEF n, z, Size
<1>2. ASSUME NEW x \in QueueIds PROVE Seen(qq)[x] = Contents(qq)[x]
  <2>1. CASE Sized(x) BY <1>1, <2>1 DEF Seen, Contents, InsideOf
  <2>2. CASE ~Sized(x) BY <2>2 DEF Seen, Contents, InsideOf
  <2> QED BY <2>1, <2>2
<1>3. /\ Seen(qq) = [x \in QueueIds |-> Seen(qq)[x]]
      /\ Contents(qq) = [x \in QueueIds |-> Contents(qq)[x]]
  BY DEF Seen, Contents
<1> QED BY <1>2, <1>3

LEMMA ViewNow == View = Seen(q)
BY DEF View, Seen, Queued

LEMMA ViewNext == ASSUME load' = load PROVE View' = Seen(q')
BY DEF View, Seen, Queued, Sized

LEMMA RightLater == ASSUME load' = load, Right(q') PROVE Right(q)'
BY DEF Right, Sized, Size

-----------------------------------------------------------------------------
(* The beginning.                                                          *)

Inv == Right(q) /\ Places

LEMMA InitRight == ASSUME QueueInit PROVE Right(q) /\ \A x \in QueueIds : Contents(q)[x] = <<>>
<1>1. load \in Loads BY DEF QueueInit, TaskInit
<1>2. q = [x \in QueueIds |-> IF IsMutex(x)
                              THEN prvInitialiseMutex(prvInitialiseNewQueue(x))
                              ELSE prvInitialiseNewQueue(x)]
  BY DEF QueueInit
<1>3. ASSUME NEW x \in QueueIds
      PROVE  /\ q[x] \in Controls(Size(x))
             /\ Sized(x) => Ring(q[x], Size(x)) /\ Inside(q[x], Size(x)) = <<>>
  <2> DEFINE n == Size(x)
             r == n - 1
             a == Unlocked
             s == [i \in 0 .. r |-> NoQueue]
             z == q[x]
             c == IF IsMutex(x) THEN 1 ELSE 0
  <2>1. n \in Nat \ {0} BY <1>1, KindFacts
  <2>2. z = [count |-> c, store |-> s, write |-> 0, read |-> r, tx |-> a, rx |-> a,
             holder |-> NoQueue, depth |-> 0]
    BY <1>2 DEF prvInitialiseMutex, prvInitialiseNewQueue, Size
  <2>3. /\ c \in Int /\ 0 \in 0 .. n - 1 /\ r \in 0 .. n - 1 /\ 0 \in Int
        /\ a \in Nat \cup {Unlocked} /\ s \in [0 .. n - 1 -> Goods \cup {NoQueue}]
    <3> HIDE DEF n
    <3> QED BY <2>1
  <2>4. Sized(x) => c = 0 BY DEF Sized, IsMutex
  <2> HIDE DEF n, r, a, s, z, c
  <2>5. z \in Controls(n) BY <2>2, <2>3 DEF Controls
  <2>6. Sized(x) => z.count = 0 /\ z.write = 0 /\ z.read = n - 1 BY <2>2, <2>4 DEF r
  <2>7. Sized(x) => Ring(z, n)
    <3>1. Low(n - 1 + 0 + 1, n) = 0 BY <2>1 DEF Low
    <3> QED BY <2>1, <2>6, <3>1 DEF Ring
  <2>8. Sized(x) => Inside(z, n) = <<>>
    <3> DEFINE u == Inside(z, n)
    <3>1. Sized(x) => u \in Seq(Goods) /\ Len(u) = 0 BY <2>1, <2>5, <2>6, <2>7, InsideFacts
    <3> HIDE DEF u
    <3>2. Sized(x) => u = <<>> BY <3>1
    <3> QED BY <3>2 DEF u
  <2> QED BY <2>5, <2>7, <2>8 DEF n, z
<1>4. q = [x \in QueueIds |-> q[x]] BY <1>2
<1>5. Right(q) BY <1>1, <1>3, <1>4 DEF Right
<1>6. \A x \in QueueIds : Contents(q)[x] = <<>> BY <1>3 DEF Contents, InsideOf
<1> QED BY <1>5, <1>6

LEMMA InitFifo == ASSUME QueueInit PROVE Inv /\ Fifo!Init
<1>1. Right(q) /\ \A x \in QueueIds : Contents(q)[x] = <<>> BY InitRight
<1>2. Places
  <2>1. pc = [t \in Tasks |-> Run] BY DEF QueueInit, TaskInit
  <2> QED BY <2>1, SoundRun DEF Places
<1>3. View = Contents(q) BY <1>1, ViewNow, SeenIsContents
<1>4. View = [x \in QueueIds |-> <<>>]
  <2>1. View = [x \in QueueIds |-> View[x]] BY DEF View
  <2> QED BY <1>1, <1>3, <2>1
<1>5. got \notin Goods
  <2> DEFINE M == UNION {l.msgs : l \in Loads}
  <2>1. NoQueue \notin M /\ NoQueue \notin QueueIds BY QueueAssumption
  <2>2. Goods = M \cup QueueIds BY DEF Goods
  <2>3. got = NoQueue BY DEF QueueInit
  <2> HIDE DEF M
  <2> QED BY <2>1, <2>2, <2>3
<1>6. Fifo!Init BY <1>4, <1>5 DEF Fifo!Init, View, Goods
<1> QED BY <1>1, <1>2, <1>6 DEF Inv

-----------------------------------------------------------------------------
(* Every step is one of BoundedFifo's.                                     *)

LEMMA FineIsNext ==
    ASSUME Inv, Kept
    PROVE  Fifo!Next
<1> DEFINE u == Contents(q)
           w == Contents(q')
<1>1. load' = load /\ Right(q) /\ Fine(q, got, q', got') BY DEF Inv, Kept
<1>2. View = u BY <1>1, ViewNow, SeenIsContents
<1>3. View' = w
  <2> DEFINE rr == q'
  <2>1. Right(rr) BY <1>1 DEF Fine
  <2> HIDE DEF rr
  <2>2. Seen(rr) = Contents(rr) BY <2>1, SeenIsContents
  <2> QED BY <1>1, <2>2, ViewNext DEF rr
<1>4. Lens' = Lens /\ \A x \in QueueIds : Lens[x] = Size(x) BY <1>1 DEF Lens, Size
<1>5. u = [x \in QueueIds |-> u[x]] /\ w = [x \in QueueIds |-> w[x]] BY DEF Contents
<1>6. /\ DOMAIN View' = QueueIds
      /\ Lens' = Lens
      /\ \/ \E x \in QueueIds : View[x] # <<>> /\ View' = View /\ got' = Head(View[x])
         \/ \E x \in QueueIds : /\ View[x] # <<>> /\ View'[x] = Tail(View[x]) /\ got' = Head(View[x])
                                /\ \A y \in QueueIds \ {x} : View'[y] = View[y]
         \/ \E x \in QueueIds : /\ View'[x] = <<>> /\ got' = got
                                /\ \A y \in QueueIds \ {x} : View'[y] = View[y]
         \/ got' = got /\ \A x \in QueueIds : Puts(View[x], View'[x], Lens[x])
  <2>1. \/ got' = got /\ \A y \in QueueIds : Puts(u[y], w[y], Size(y))
        \/ \E x \in QueueIds : TakenFrom(q, q', x) /\ got' = Head(u[x])
        \/ \E x \in QueueIds : w = u /\ u[x] # <<>> /\ got' = Head(u[x])
        \/ \E x \in QueueIds : Only(q, q', x) /\ w[x] = <<>> /\ got' = got
    BY <1>1 DEF Fine
  <2>2. \A x \in QueueIds : TakenFrom(q, q', x) =>
           u[x] # <<>> /\ w[x] = Tail(u[x]) /\ \A y \in QueueIds \ {x} : w[y] = u[y]
    BY DEF TakenFrom, Only
  <2>3. \A x \in QueueIds : Only(q, q', x) => \A y \in QueueIds \ {x} : w[y] = u[y] BY DEF Only
  <2> HIDE DEF u, w
  <2>4. DOMAIN View' = QueueIds BY <1>3, <1>5
  <2>5. CASE got' = got /\ \A y \in QueueIds : Puts(u[y], w[y], Size(y))
    <3>1. \A x \in QueueIds : Puts(View[x], View'[x], Lens[x])
      BY <1>2, <1>3, <1>4, <2>5
    <3> QED BY <1>4, <2>4, <2>5, <3>1
  <2>6. CASE \E x \in QueueIds : TakenFrom(q, q', x) /\ got' = Head(u[x])
    <3>1. PICK x \in QueueIds : TakenFrom(q, q', x) /\ got' = Head(u[x]) BY <2>6
    <3>2. /\ View[x] # <<>> /\ View'[x] = Tail(View[x]) /\ got' = Head(View[x])
          /\ \A y \in QueueIds \ {x} : View'[y] = View[y]
      BY <1>2, <1>3, <2>2, <3>1
    <3> QED BY <1>4, <2>4, <3>2
  <2>7. CASE \E x \in QueueIds : w = u /\ u[x] # <<>> /\ got' = Head(u[x])
    BY <1>2, <1>3, <1>4, <2>4, <2>7
  <2>8. CASE \E x \in QueueIds : Only(q, q', x) /\ w[x] = <<>> /\ got' = got
    BY <1>2, <1>3, <1>4, <2>3, <2>4, <2>8
  <2> QED BY <2>1, <2>5, <2>6, <2>7, <2>8
<1>7. \A x \in QueueIds : Puts(View[x], View'[x], Lens[x]) => View'[x] = View[x] \/ Fifo!Put(x)
  BY DEF Puts, Grown, Fronted, Overwritten,
         Fifo!Put, Fifo!PushBack, Fifo!PushFront, Fifo!Overwrite, Fifo!Last, Last, View, Lens, Goods
<1>8. \A x \in QueueIds :
         /\ View[x] # <<>> /\ View' = View /\ got' = Head(View[x]) => Fifo!Peek(x)
         /\ View[x] # <<>> /\ View'[x] = Tail(View[x]) /\ got' = Head(View[x]) => Fifo!Pop(x)
         /\ View'[x] = <<>> /\ got' = got => Fifo!Clear(x)
  BY DEF Fifo!Peek, Fifo!Pop, Fifo!Clear, View
<1>9. /\ DOMAIN View' = QueueIds
      /\ Lens' = Lens
      /\ \/ \E x \in QueueIds : Fifo!Peek(x)
         \/ \E x \in QueueIds : Fifo!Pop(x) /\ \A y \in QueueIds \ {x} : View'[y] = View[y]
         \/ \E x \in QueueIds : Fifo!Clear(x) /\ \A y \in QueueIds \ {x} : View'[y] = View[y]
         \/ got' = got /\ \A x \in QueueIds : View'[x] = View[x] \/ Fifo!Put(x)
  BY <1>6, <1>7, <1>8
<1> QED BY <1>9 DEF Fifo!Next, View, Lens

LEMMA NextFifo ==
    ASSUME Inv, [QueueNext]_queueVars
    PROVE  Inv' /\ [Fifo!Next]_(Fifo!vars)
<1>1. Kept BY StepKept DEF Inv
<1>2. Right(q)'
  <2>1. load' = load /\ Right(q') BY <1>1 DEF Kept, Fine
  <2> QED BY <2>1, RightLater
<1>3. Fifo!Next BY <1>1, FineIsNext
<1> QED BY <1>1, <1>2, <1>3 DEF Inv, Kept

(* Whatever tasks and interrupts do between the steps of a call, each queue *)
(* is a bounded first-in first-out sequence: what is put to the back comes  *)
(* out last and what is put to the front comes out next, each item once, a  *)
(* receiver or a peek gets the first, and a queue set is told of an item of *)
(* its member in the step that the item comes or once the member is         *)
(* unlocked (prvCopyDataToQueue, prvCopyDataFromQueue,                      *)
(* prvNotifyQueueSetContainer, prvUnlockQueue).                             *)
THEOREM QueuesImplementFifo == QueueSpec => ImplementsFifo
<1>1. QueueInit => Inv /\ Fifo!Init BY InitFifo
<1>2. Inv /\ [QueueNext]_queueVars => Inv' /\ [Fifo!Next]_(Fifo!vars) BY NextFifo
<1> QED BY <1>1, <1>2, PTL DEF QueueSpec, ImplementsFifo, Fifo!Spec
=============================================================================
