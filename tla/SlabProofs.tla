------------------------------ MODULE SlabProofs ------------------------------
(***************************************************************************)
(* Proofs about Slab for every page size, every set of sizes and frames    *)
(* and every number of slabs and calls.                                    *)
(***************************************************************************)
EXTENDS Slab, CommonLemmas, FiniteSetTheorems

----------------------------------------------------------------------------
(* Lemmas about pages and sizes *)

\* Page and offset of an address.
LEMMA AddressLemma ==
  ASSUME NEW P \in Nat \ {0}, NEW p \in Nat, NEW r \in 0 .. P - 1
  PROVE  (p * P + r) \div P = p /\ (p * P + r) % P = r
  <1> DEFINE n == p * P + r
             q == n \div P
             t == n % P
  <1>1. n \in Nat /\ n = p * P + r
    OBVIOUS
  <1>2. q \in Int /\ t \in 0 .. P - 1 /\ n = P * q + t
    BY <1>1
  <1> HIDE DEF n, q, t
  <1>3. ~ (q >= p + 1)
    <2> SUFFICES ASSUME q >= p + 1 PROVE FALSE
      OBVIOUS
    <2>1. P * q >= P * (p + 1)
      BY <1>2
    <2>2. P * (p + 1) = p * P + P
      OBVIOUS
    <2> QED
      BY <1>1, <1>2, <2>1, <2>2
  <1>4. ~ (q <= p - 1)
    <2> SUFFICES ASSUME q <= p - 1 PROVE FALSE
      OBVIOUS
    <2>1. P * q <= P * (p - 1)
      BY <1>2
    <2>2. P * (p - 1) = p * P - P
      OBVIOUS
    <2> QED
      BY <1>1, <1>2, <2>1, <2>2
  <1>5. q = p
    BY <1>2, <1>3, <1>4
  <1>6. P * q = p * P
    BY <1>5
  <1>7. t = r
    BY <1>1, <1>2, <1>6
  <1> QED
    BY <1>5, <1>7 DEF q, t, n

\* Of two powers of two the smaller divides the larger.  For otherwise take the
\* least n with a power m that does not divide it: half of n has half of m.
LEMMA PowersDivide ==
  ASSUME NEW m, NEW n, PowerOfTwo(m), PowerOfTwo(n), m <= n
  PROVE  \E c \in Nat : c * m = n
  <1> DEFINE Divides(a, b) == \E c \in Nat : c * a = b
             S == {b \in Nat : /\ PowerOfTwo(b)
                               /\ \E a \in 1 .. b : PowerOfTwo(a) /\ ~ Divides(a, b)}
  <1>1. \A a \in Nat \ {0} : PowerOfTwo(a) /\ a # 1 => a % 2 = 0
    <2> SUFFICES ASSUME NEW a \in Nat \ {0}, PowerOfTwo(a), a # 1
                 PROVE  a % 2 = 0
      OBVIOUS
    <2>1. a \in 1 .. a /\ 1 \in 1 .. a /\ a * 1 = a
      OBVIOUS
    <2> QED
      BY <2>1 DEF PowerOfTwo
  <1>2. \A a, h \in Nat \ {0} : PowerOfTwo(a) /\ a = 2 * h => PowerOfTwo(h)
    <2> SUFFICES ASSUME NEW a \in Nat \ {0}, NEW h \in Nat \ {0}, PowerOfTwo(a),
                        a = 2 * h, NEW d \in 1 .. h, NEW e \in 1 .. h,
                        d * e = h, d # 1
                 PROVE  d % 2 = 0
      BY DEF PowerOfTwo
    <2>1. d \in 1 .. a /\ 2 * e \in 1 .. a
      OBVIOUS
    <2>2. d * (2 * e) = 2 * (d * e)
      OBVIOUS
    <2>3. d * (2 * e) = a
      BY <2>2
    <2> QED
      BY <2>1, <2>3 DEF PowerOfTwo
  <1>3. S = {}
    <2> SUFFICES ASSUME S # {} PROVE FALSE
      OBVIOUS
    <2>1. S \in SUBSET Nat
      OBVIOUS
    <2>2. PICK b \in S : \A y \in S : b <= y
      BY <2>1, LeastLemma
    <2>3. b \in Nat /\ PowerOfTwo(b)
      OBVIOUS
    <2>4. PICK a \in 1 .. b : PowerOfTwo(a) /\ ~ Divides(a, b)
      OBVIOUS
    <2>5. a # 1
      <3> SUFFICES ASSUME a = 1 PROVE FALSE
        OBVIOUS
      <3>1. b * a = b
        BY <2>3
      <3> QED
        BY <2>3, <2>4, <3>1
    <2>6. a % 2 = 0 /\ b % 2 = 0
      BY <1>1, <2>3, <2>4, <2>5
    <2>7. PICK g \in Nat \ {0}, h \in Nat \ {0} : a = 2 * g /\ b = 2 * h
      <3>1. a = 2 * (a \div 2) /\ b = 2 * (b \div 2)
        BY <2>3, <2>6
      <3>2. a \div 2 \in Nat \ {0} /\ b \div 2 \in Nat \ {0}
        BY <2>3, <2>6
      <3> QED
        BY <3>1, <3>2
    <2>8. PowerOfTwo(g) /\ PowerOfTwo(h)
      BY <1>2, <2>3, <2>4, <2>7
    <2>9. h < b /\ g \in 1 .. h
      BY <2>3, <2>7
    <2>10. Divides(g, h)
      <3>1. h \notin S
        BY <2>2, <2>3, <2>9
      <3> QED
        BY <2>8, <2>9, <3>1
    <2>11. PICK c \in Nat : c * g = h
      BY <2>10
    <2>12. c * (2 * g) = 2 * (c * g)
      OBVIOUS
    <2>13. c * a = b
      BY <2>7, <2>11, <2>12
    <2> QED
      BY <2>4, <2>11, <2>13
  <1>4. m \in 1 .. n /\ n \in Nat
    BY DEF PowerOfTwo
  <1> QED
    BY <1>3, <1>4

\* The sizes of objects: they divide the page.
ObjSizes == {z \in MinSize .. PageSize : \E c \in Nat : c * z = PageSize}

LEMMA ObjSizesLemma ==
  \A z \in ObjSizes : z \in Nat \ {0} /\ z \in MinSize .. PageSize
  BY SlabAssumption DEF ObjSizes

\* The sizes of slabs are such sizes, and not smaller than what was asked for.
LEMMA RoundedSizeLemma ==
  ASSUME NEW size \in 1 .. PageSize
  PROVE  RoundedSize(size) \in ObjSizes /\ size <= RoundedSize(size)
  <1> DEFINE Fits(p) == PowerOfTwo(p) /\ size <= p
             S == {p \in MinSize .. PageSize : Fits(p)}
  <1>1. /\ PageSize \in Nat \ {0} /\ MinSize \in Nat \ {0} /\ MinSize <= PageSize
        /\ PowerOfTwo(PageSize)
    BY SlabAssumption DEF PowerOfTwo
  <1>2. PageSize \in S /\ S \in SUBSET Nat
    BY <1>1
  <1>3. PICK x \in S : \A y \in S : x <= y
    BY <1>2, LeastLemma
  <1>4. \A q \in MinSize .. x - 1 : ~ Fits(q)
    BY <1>1, <1>3
  <1> DEFINE p == RoundedSize(size)
  <1>5. p \in MinSize .. PageSize /\ Fits(p)
    <2>1. /\ x \in MinSize .. PageSize /\ PowerOfTwo(x) /\ size <= x
          /\ \A q \in MinSize .. x - 1 : ~ (PowerOfTwo(q) /\ size <= q)
      BY <1>3, <1>4
    <2> HIDE DEF S, Fits
    <2>2. p \in MinSize .. PageSize /\ PowerOfTwo(p) /\ size <= p
      BY <2>1 DEF RoundedSize
    <2> QED
      BY <2>2 DEF Fits
  <1> HIDE DEF p
  <1>6. \E c \in Nat : c * p = PageSize
    <2>1. PowerOfTwo(p) /\ p <= PageSize
      BY <1>1, <1>5
    <2> QED
      BY <1>1, <2>1, PowersDivide
  <1> QED
    BY <1>5, <1>6 DEF p, ObjSizes

\* So is the size of the descriptors.
LEMMA DescSizeLemma == DescSize \in ObjSizes
  <1>1. /\ PowerOfTwo(PageSize) /\ PowerOfTwo(DescSize) /\ DescSize <= PageSize
        /\ DescSize \in MinSize .. PageSize
    BY SlabAssumption DEF PowerOfTwo
  <1> QED
    BY <1>1, PowersDivide DEF ObjSizes

----------------------------------------------------------------------------
(* Lists through the words of memory *)

\* q are the objects on the way from head along the links lk: they are those of
\* the set F, each once, and the last links to null.
IsList(q, head, lk, F) ==
  /\ \A i \in 1 .. Len(q) : q[i] \in F
  /\ \A o \in F : \E i \in 1 .. Len(q) : q[i] = o
  /\ \A i, j \in 1 .. Len(q) : q[i] = q[j] => i = j
  /\ head = IF q = <<>> THEN Null ELSE q[1]
  /\ \A i \in 1 .. Len(q) - 1 : lk[q[i]] = q[i + 1]
  /\ q # <<>> => lk[q[Len(q)]] = Null

\* An address is not one of the words that mark something else.
LEMMA ObjectsLemma ==
  /\ Objects \subseteq Nat
  /\ Null \notin Objects /\ Global \notin Objects /\ Data \notin Objects
  <1>1. PageSize \in Nat \ {0} /\ Frames \subseteq Nat
    BY SlabAssumption
  <1>2. ASSUME NEW p \in Frames, NEW k \in 0 .. PageSize - 1
        PROVE  p * PageSize + k \in Nat
    <2>1. p \in Nat /\ p * PageSize \in Nat
      BY <1>1
    <2> QED
      BY <1>1, <2>1
  <1>3. Objects \subseteq Nat
    BY <1>2 DEF Objects
  <1> QED
    BY <1>3 DEF Null, Global, Data

\* A list that does not start with null is not empty, and its head is in it.
LEMMA HeadLemma ==
  ASSUME NEW q \in Seq(Objects), NEW head, NEW lk, NEW F, IsList(q, head, lk, F)
  PROVE  /\ head = Null => q = <<>> /\ F = {}
         /\ head # Null => /\ q # <<>> /\ Len(q) \in Nat \ {0}
                           /\ head = q[1] /\ head \in F /\ head \in Objects
  <1>1. Len(q) \in Nat /\ (q # <<>> => Len(q) \in Nat \ {0})
    BY LenProperties, EmptySeq
  <1>2. CASE q = <<>>
    <2>1. head = Null /\ Len(q) = 0
      BY <1>2 DEF IsList
    <2>2. F = {}
      BY <2>1 DEF IsList
    <2> QED
      BY <1>2, <2>1, <2>2
  <1>3. CASE q # <<>>
    <2>1. 1 \in 1 .. Len(q)
      BY <1>1, <1>3
    <2>2. head = q[1] /\ q[1] \in F
      BY <1>3, <2>1 DEF IsList
    <2>3. q[1] \in Objects
      BY <2>1, ElementOfSeq
    <2> QED
      BY <1>1, <1>3, <2>2, <2>3, ObjectsLemma
  <1> QED
    BY <1>2, <1>3

\* Taking the head of a list, whose word is then overwritten.
LEMMA TakeLemma ==
  ASSUME NEW q \in Seq(Objects), NEW head, NEW lk, NEW F, IsList(q, head, lk, F),
         head # Null, NEW lk2,
         \A o \in F \ {head} : lk2[o] = lk[o]
  PROVE  Tail(q) \in Seq(Objects) /\ IsList(Tail(q), lk[head], lk2, F \ {head})
  <1> DEFINE t == Tail(q)
  <1>1. q # <<>> /\ Len(q) \in Nat \ {0} /\ head = q[1] /\ head \in F
    BY HeadLemma
  <1>2. /\ t \in Seq(Objects) /\ Len(t) = Len(q) - 1
        /\ \A i \in 1 .. Len(t) : t[i] = q[i + 1]
    BY <1>1, HeadTailProperties
  <1> HIDE DEF t
  <1>3. /\ \A i \in 1 .. Len(q) : q[i] \in F
        /\ \A o \in F : \E i \in 1 .. Len(q) : q[i] = o
        /\ \A i, j \in 1 .. Len(q) : q[i] = q[j] => i = j
        /\ \A i \in 1 .. Len(q) - 1 : lk[q[i]] = q[i + 1]
        /\ lk[q[Len(q)]] = Null
    BY <1>1 DEF IsList
  <1>4. ASSUME NEW i \in 1 .. Len(t) PROVE t[i] \in F \ {head}
    <2>1. i + 1 \in 1 .. Len(q) /\ 1 \in 1 .. Len(q) /\ i + 1 # 1
      BY <1>1, <1>2
    <2>2. q[i + 1] \in F /\ q[i + 1] # q[1]
      BY <1>3, <2>1
    <2> QED
      BY <1>1, <1>2, <2>2
  <1>5. ASSUME NEW o \in F \ {head} PROVE \E i \in 1 .. Len(t) : t[i] = o
    <2>1. PICK k \in 1 .. Len(q) : q[k] = o
      BY <1>3
    <2>2. k # 1
      BY <1>1, <2>1
    <2>3. k - 1 \in 1 .. Len(t) /\ k - 1 + 1 = k
      BY <1>1, <1>2, <2>2
    <2>4. t[k - 1] = o
      BY <1>2, <2>1, <2>3
    <2> QED
      BY <2>3, <2>4
  <1>6. ASSUME NEW i \in 1 .. Len(t), NEW j \in 1 .. Len(t), t[i] = t[j]
        PROVE  i = j
    <2>1. i + 1 \in 1 .. Len(q) /\ j + 1 \in 1 .. Len(q)
      BY <1>1, <1>2
    <2>2. q[i + 1] = q[j + 1]
      BY <1>2, <1>6
    <2>3. i + 1 = j + 1
      BY <1>3, <2>1, <2>2
    <2> QED
      BY <2>3
  <1>7. lk[head] = IF t = <<>> THEN Null ELSE t[1]
    <2>1. CASE t = <<>>
      <3>1. Len(t) = 0
        BY <2>1, EmptySeq
      <3>2. Len(q) = 1
        BY <1>1, <1>2, <3>1
      <3> QED
        BY <1>1, <1>3, <2>1, <3>2
    <2>2. CASE t # <<>>
      <3>1. Len(t) \in Nat \ {0}
        BY <1>2, <2>2, EmptySeq
      <3>2. 1 \in 1 .. Len(t) /\ 1 \in 1 .. Len(q) - 1 /\ 1 + 1 = 2
        BY <1>1, <1>2, <3>1
      <3>3. t[1] = q[1 + 1] /\ lk[q[1]] = q[1 + 1]
        BY <1>2, <1>3, <3>2
      <3> QED
        BY <1>1, <2>2, <3>3
    <2> QED
      BY <2>1, <2>2
  <1>8. ASSUME NEW i \in 1 .. Len(t) - 1 PROVE lk2[t[i]] = t[i + 1]
    <2>1. /\ i \in 1 .. Len(t) /\ i + 1 \in 1 .. Len(t)
          /\ i + 1 \in 1 .. Len(q) - 1
      BY <1>1, <1>2
    <2>2. lk[q[i + 1]] = q[i + 1 + 1]
      BY <1>3, <2>1
    <2>3. t[i] = q[i + 1] /\ t[i + 1] = q[i + 1 + 1]
      BY <1>2, <2>1
    <2>4. lk2[t[i]] = lk[t[i]]
      BY <1>4, <2>1
    <2> QED
      BY <2>2, <2>3, <2>4
  <1>9. ASSUME t # <<>> PROVE lk2[t[Len(t)]] = Null
    <2>1. Len(t) \in Nat \ {0}
      BY <1>2, <1>9, EmptySeq
    <2>2. Len(t) \in 1 .. Len(t) /\ Len(t) + 1 = Len(q)
      BY <1>1, <1>2, <2>1
    <2>3. t[Len(t)] = q[Len(q)]
      BY <1>2, <2>2
    <2>4. lk2[t[Len(t)]] = lk[t[Len(t)]]
      BY <1>4, <2>2
    <2> QED
      BY <1>3, <2>3, <2>4
  <1>10. IsList(t, lk[head], lk2, F \ {head})
    BY <1>4, <1>5, <1>6, <1>7, <1>8, <1>9 DEF IsList
  <1> QED
    BY <1>2, <1>10 DEF t

\* Putting an object in front of a list.
LEMMA GiveLemma ==
  ASSUME NEW q \in Seq(Objects), NEW head, NEW lk, NEW F, IsList(q, head, lk, F),
         NEW x \in Objects, x \notin F, NEW lk2,
         lk2[x] = head, \A o \in F : lk2[o] = lk[o]
  PROVE  \E w \in Seq(Objects) : IsList(w, x, lk2, F \cup {x})
  <1> DEFINE a == <<x>>
             t == a \o q
  <1>1. Len(q) \in Nat /\ (q # <<>> => Len(q) \in Nat \ {0})
    BY LenProperties, EmptySeq
  <1>2. a \in Seq(Objects) /\ Len(a) = 1 /\ a[1] = x
    OBVIOUS
  <1> HIDE DEF a
  <1>3. /\ t \in Seq(Objects) /\ Len(t) = Len(a) + Len(q)
        /\ \A i \in 1 .. Len(a) + Len(q) :
             t[i] = IF i <= Len(a) THEN a[i] ELSE q[i - Len(a)]
    BY <1>2, ConcatProperties
  <1> HIDE DEF t
  <1>4. /\ Len(t) = Len(q) + 1 /\ t[1] = x
        /\ \A i \in 2 .. Len(q) + 1 : t[i] = q[i - 1]
    BY <1>1, <1>2, <1>3
  <1>5. /\ \A i \in 1 .. Len(q) : q[i] \in F
        /\ \A o \in F : \E i \in 1 .. Len(q) : q[i] = o
        /\ \A i, j \in 1 .. Len(q) : q[i] = q[j] => i = j
        /\ \A i \in 1 .. Len(q) - 1 : lk[q[i]] = q[i + 1]
        /\ head = IF q = <<>> THEN Null ELSE q[1]
        /\ q # <<>> => lk[q[Len(q)]] = Null
    BY DEF IsList
  <1>6. t # <<>>
    BY <1>1, <1>4, EmptySeq
  <1>7. ASSUME NEW i \in 2 .. Len(t)
        PROVE  i - 1 \in 1 .. Len(q) /\ t[i] = q[i - 1] /\ t[i] \in F
    <2>1. i \in 2 .. Len(q) + 1 /\ i - 1 \in 1 .. Len(q)
      BY <1>1, <1>4
    <2> QED
      BY <1>4, <1>5, <2>1
  <1>8. ASSUME NEW i \in 1 .. Len(t) PROVE t[i] \in F \cup {x}
    <2>1. i = 1 \/ i \in 2 .. Len(t)
      BY <1>1, <1>4
    <2> QED
      BY <1>4, <1>7, <2>1
  <1>9. ASSUME NEW o \in F \cup {x} PROVE \E i \in 1 .. Len(t) : t[i] = o
    <2>1. CASE o = x
      <3>1. 1 \in 1 .. Len(t)
        BY <1>1, <1>4
      <3> QED
        BY <1>4, <2>1, <3>1
    <2>2. CASE o \in F
      <3>1. PICK k \in 1 .. Len(q) : q[k] = o
        BY <1>5, <2>2
      <3>2. k + 1 \in 2 .. Len(q) + 1 /\ k + 1 \in 1 .. Len(t) /\ k + 1 - 1 = k
        BY <1>1, <1>4
      <3>3. t[k + 1] = o
        BY <1>4, <3>1, <3>2
      <3> QED
        BY <3>2, <3>3
    <2> QED
      BY <2>1, <2>2
  <1>10. ASSUME NEW i \in 1 .. Len(t), NEW j \in 1 .. Len(t), t[i] = t[j]
         PROVE  i = j
    <2>1. (i = 1 \/ i \in 2 .. Len(t)) /\ (j = 1 \/ j \in 2 .. Len(t))
      BY <1>1, <1>4
    <2>2. CASE i = 1 /\ j \in 2 .. Len(t)
      BY <1>4, <1>7, <1>10, <2>2
    <2>3. CASE j = 1 /\ i \in 2 .. Len(t)
      BY <1>4, <1>7, <1>10, <2>3
    <2>4. CASE i \in 2 .. Len(t) /\ j \in 2 .. Len(t)
      <3>1. /\ i - 1 \in 1 .. Len(q) /\ j - 1 \in 1 .. Len(q)
            /\ q[i - 1] = q[j - 1]
        BY <1>7, <1>10, <2>4
      <3>2. i - 1 = j - 1
        BY <1>5, <3>1
      <3> QED
        BY <2>4, <3>2
    <2> QED
      BY <2>1, <2>2, <2>3, <2>4
  <1>11. ASSUME NEW i \in 1 .. Len(t) - 1 PROVE lk2[t[i]] = t[i + 1]
    <2>1. i \in 1 .. Len(q) /\ i + 1 \in 2 .. Len(t) /\ i + 1 - 1 = i
      BY <1>1, <1>4
    <2>2. t[i + 1] = q[i]
      BY <1>7, <2>1
    <2>3. CASE i = 1
      <3>1. head = q[1]
        BY <1>1, <1>5, <2>1, EmptySeq
      <3> QED
        BY <1>4, <2>2, <2>3, <3>1
    <2>4. CASE i # 1
      <3>1. i \in 2 .. Len(t) /\ i - 1 \in 1 .. Len(q) - 1 /\ i - 1 + 1 = i
        BY <1>1, <1>4, <2>1, <2>4
      <3>2. t[i] = q[i - 1] /\ t[i] \in F /\ lk[q[i - 1]] = q[i]
        <4>1. lk[q[i - 1]] = q[i - 1 + 1]
          BY <1>5, <3>1
        <4> QED
          BY <1>7, <3>1, <4>1
      <3> QED
        BY <2>2, <3>2
    <2> QED
      BY <2>3, <2>4
  <1>12. lk2[t[Len(t)]] = Null
    <2>1. CASE q = <<>>
      <3>1. Len(t) = 1 /\ head = Null
        BY <1>1, <1>4, <1>5, <2>1, EmptySeq
      <3> QED
        BY <1>4, <3>1
    <2>2. CASE q # <<>>
      <3>1. Len(t) \in 2 .. Len(t) /\ Len(t) - 1 = Len(q)
        BY <1>1, <1>4, <2>2
      <3>2. t[Len(t)] = q[Len(q)] /\ t[Len(t)] \in F
        BY <1>7, <3>1
      <3> QED
        BY <1>5, <2>2, <3>2
    <2> QED
      BY <2>1, <2>2
  <1>13. IsList(t, x, lk2, F \cup {x})
    BY <1>4, <1>6, <1>8, <1>9, <1>10, <1>11, <1>12 DEF IsList
  <1> QED
    BY <1>3, <1>13 DEF t, a

\* A list stays one while its own words do.
LEMMA FrameLemma ==
  ASSUME NEW q \in Seq(Objects), NEW head, NEW lk, NEW F, IsList(q, head, lk, F),
         NEW lk2, \A o \in F : lk2[o] = lk[o]
  PROVE  IsList(q, head, lk2, F)
  <1>1. Len(q) \in Nat /\ (q # <<>> => Len(q) \in Nat \ {0})
    BY LenProperties, EmptySeq
  <1>2. \A i \in 1 .. Len(q) : lk2[q[i]] = lk[q[i]]
    BY DEF IsList
  <1>3. \A i \in 1 .. Len(q) - 1 : lk2[q[i]] = q[i + 1]
    <2> TAKE i \in 1 .. Len(q) - 1
    <2>1. i \in 1 .. Len(q)
      BY <1>1
    <2> QED
      BY <1>2, <2>1 DEF IsList
  <1>4. q # <<>> => lk2[q[Len(q)]] = Null
    <2> SUFFICES ASSUME q # <<>> PROVE lk2[q[Len(q)]] = Null
      OBVIOUS
    <2>1. Len(q) \in 1 .. Len(q)
      BY <1>1
    <2> QED
      BY <1>2, <2>1 DEF IsList
  <1> QED
    BY <1>3, <1>4 DEF IsList

----------------------------------------------------------------------------
(* A fresh page *)

\* o is one of the objects of size z that page p is cut into.
Placed(o, p, z) == \E k \in Nat : o = p * PageSize + k * z /\ k * z + z <= PageSize

\* The objects of a fresh page are all it has room for, in one list.
LEMMA ChainLemma ==
  ASSUME NEW page \in Frames, NEW z \in ObjSizes
  PROVE  LET ch == Chain(page, z)
         IN  /\ DOMAIN ch = {o \in Objects : PageOf(o) = page /\ Placed(o, page, z)}
             /\ ch \in [DOMAIN ch -> Objects \cup {Null}]
             /\ IsFiniteSet(DOMAIN ch)
             /\ \E q \in Seq(Objects) : IsList(q, page * PageSize, ch, DOMAIN ch)
  <1> DEFINE P    == PageSize
             base == page * P
             ch   == Chain(page, z)
             D    == DOMAIN ch
  <1>1. P \in Nat \ {0} /\ page \in Nat /\ z \in Nat \ {0} /\ z <= P
    BY SlabAssumption DEF ObjSizes
  <1>2. PICK c \in Nat : c * z = P
    BY DEF ObjSizes
  <1>3. c \in Nat \ {0}
    <2> SUFFICES ASSUME c = 0 PROVE FALSE
      OBVIOUS
    <2>1. c * z = 0
      BY <1>1
    <2> QED
      BY <1>1, <1>2, <2>1
  <1>4. LastOffset(z) = (c - 1) * z + 0
    <2>1. (c - 1) * z = c * z - z
      BY <1>1
    <2> QED
      BY <1>1, <1>2, <2>1 DEF LastOffset
  <1>5. LastOffset(z) \div z = c - 1
    <2>1. c - 1 \in Nat /\ 0 \in 0 .. z - 1
      BY <1>1, <1>3
    <2> QED
      BY <1>1, <1>4, <2>1, AddressLemma
  <1> DEFINE at == [k \in Nat |-> base + k * z]
  <1>6. base \in Nat
    BY <1>1
  <1>7. ch = [o \in {at[k] : k \in 0 .. c - 1} |->
                IF o = at[c - 1] THEN Null ELSE o + z]
    <2>1. \A k \in 0 .. c - 1 : base + k * z = at[k]
      BY <1>3
    <2>2. {base + k * z : k \in 0 .. c - 1} = {at[k] : k \in 0 .. c - 1}
      BY <2>1
    <2>3. base + LastOffset(z) = at[c - 1]
      BY <1>1, <1>3, <1>4, <1>6
    <2> HIDE DEF at
    <2> QED
      BY <1>5, <2>2, <2>3 DEF Chain
  <1>8. \A k, l \in Nat : k < l => at[k] + z <= at[l]
    <2> SUFFICES ASSUME NEW k \in Nat, NEW l \in Nat, k < l
                 PROVE  at[k] + z <= at[l]
      OBVIOUS
    <2>1. (k + 1) * z <= l * z
      BY <1>1
    <2>2. (k + 1) * z = k * z + z
      BY <1>1
    <2>3. k * z \in Nat /\ l * z \in Nat
      BY <1>1
    <2> QED
      BY <1>1, <1>6, <2>1, <2>2, <2>3
  <1>9. \A k \in Nat : at[k] \in Nat /\ at[k + 1] = at[k] + z
    <2> SUFFICES ASSUME NEW k \in Nat PROVE at[k] \in Nat /\ at[k + 1] = at[k] + z
      OBVIOUS
    <2>1. (k + 1) * z = k * z + z /\ k * z \in Nat
      BY <1>1
    <2> QED
      BY <1>1, <1>6, <2>1
  <1>10. at[0] = base /\ at[c] = base + P
    <2>1. 0 * z = 0
      BY <1>1
    <2> QED
      BY <1>2, <1>6, <2>1
  <1>11. \A o : Placed(o, page, z) <=> \E k \in 0 .. c - 1 : o = at[k]
    <2>1. ASSUME NEW k \in Nat PROVE k * z + z <= P <=> k \in 0 .. c - 1
      <3>1. k \in 0 .. c - 1 <=> k + 1 <= c
        BY <1>3
      <3>2. at[k + 1] = base + (k * z + z)
        BY <1>1, <1>6, <1>9
      <3>3. k + 1 <= c => at[k + 1] <= at[c]
        <4>1. CASE k + 1 = c
          BY <4>1, <1>9
        <4>2. CASE k + 1 < c
          BY <4>2, <1>1, <1>8, <1>9
        <4> QED
          BY <4>1, <4>2, <1>3
      <3>4. ~ (k + 1 <= c) => at[k + 1] > at[c]
        BY <1>1, <1>3, <1>8, <1>9
      <3>5. k * z \in Nat
        BY <1>1
      <3> HIDE DEF at
      <3> QED
        BY <1>1, <1>6, <1>10, <3>1, <3>2, <3>3, <3>4, <3>5
    <2>2. \A k \in 0 .. c - 1 : k \in Nat /\ at[k] = page * PageSize + k * z
      BY <1>3
    <2>3. \A k \in Nat : at[k] = page * PageSize + k * z
      OBVIOUS
    <2> HIDE DEF at
    <2> QED
      BY <2>1, <2>2, <2>3 DEF Placed
  <1>12. ASSUME NEW k \in 0 .. c - 1
         PROVE  at[k] \in Objects /\ PageOf(at[k]) = page
    <2>1. k \in Nat /\ k * z \in Nat /\ at[k] = base + k * z
      BY <1>1, <1>3
    <2>2. at[k] < at[c] /\ at[c] = base + P
      BY <1>1, <1>3, <1>8, <1>9, <1>10
    <2>3. k * z \in 0 .. P - 1
      BY <1>1, <1>6, <2>1, <2>2
    <2>4. PageOf(at[k]) = page
      BY <1>1, <2>1, <2>3, AddressLemma DEF PageOf
    <2>5. at[k] \in Objects
      BY <2>1, <2>3 DEF Objects
    <2> QED
      BY <2>4, <2>5
  <1> HIDE DEF at, base, ch
  <1>13. D = {at[k] : k \in 0 .. c - 1}
    BY <1>7
  <1>14. D = {o \in Objects : PageOf(o) = page /\ Placed(o, page, z)}
    BY <1>11, <1>12, <1>13
  <1>15. ASSUME NEW k \in 0 .. c - 1
         PROVE  ch[at[k]] = IF k = c - 1 THEN Null ELSE at[k + 1]
    <2>1. k \in Nat /\ c - 1 \in Nat
      BY <1>3
    <2>2. k < c - 1 => at[k] # at[c - 1]
      BY <1>1, <1>8, <1>9, <2>1
    <2>3. ch[at[k]] = IF at[k] = at[c - 1] THEN Null ELSE at[k] + z
      BY <1>7
    <2> QED
      BY <1>3, <1>9, <2>1, <2>2, <2>3
  <1>16. ch \in [D -> Objects \cup {Null}]
    <2>1. ASSUME NEW o \in D PROVE ch[o] \in Objects \cup {Null}
      <3>1. PICK k \in 0 .. c - 1 : o = at[k]
        BY <1>13
      <3>2. k # c - 1 => k + 1 \in 0 .. c - 1
        BY <1>3
      <3> QED
        BY <1>12, <1>15, <3>1, <3>2
    <2> QED
      BY <1>7, <2>1
  <1> DEFINE q == [i \in 1 .. c |-> at[i - 1]]
  <1>17. \A i \in 1 .. c : i - 1 \in 0 .. c - 1 /\ q[i] = at[i - 1]
    BY <1>3
  <1>18. q \in [1 .. c -> D] /\ q \in [1 .. c -> Objects]
    BY <1>12, <1>13, <1>17
  <1> HIDE DEF q, D
  <1>19. q \in Seq(Objects) /\ Len(q) = c /\ q # <<>>
    <2>1. q \in Seq(Objects) /\ Len(q) = c
      BY <1>18, FunctionIsSeq
    <2>2. q # <<>>
      BY <1>3, <2>1, EmptySeq
    <2> QED
      BY <2>1, <2>2
  <1>20. ASSUME NEW o \in D PROVE \E i \in 1 .. c : q[i] = o
    <2>1. PICK k \in 0 .. c - 1 : o = at[k]
      BY <1>13
    <2>2. k + 1 \in 1 .. c /\ k + 1 - 1 = k
      BY <1>3
    <2>3. q[k + 1] = o
      BY <1>17, <2>1, <2>2
    <2> QED
      BY <2>2, <2>3
  <1>21. ASSUME NEW i \in 1 .. c, NEW j \in 1 .. c, q[i] = q[j] PROVE i = j
    <2>1. i - 1 \in Nat /\ j - 1 \in Nat /\ at[i - 1] = at[j - 1]
      BY <1>17, <1>21
    <2>2. ~ (i - 1 < j - 1) /\ ~ (j - 1 < i - 1)
      BY <1>1, <1>8, <1>9, <2>1
    <2> QED
      BY <2>1, <2>2
  <1>22. base = q[1]
    <2>1. 1 \in 1 .. c /\ 1 - 1 = 0
      BY <1>3
    <2> QED
      BY <1>10, <1>17, <2>1
  <1>23. ASSUME NEW i \in 1 .. c - 1 PROVE ch[q[i]] = q[i + 1]
    <2>1. /\ i \in 1 .. c /\ i + 1 \in 1 .. c /\ i - 1 \in 0 .. c - 1
          /\ i - 1 # c - 1 /\ i + 1 - 1 = i /\ i - 1 + 1 = i
      BY <1>3
    <2>2. ch[at[i - 1]] = at[i - 1 + 1]
      BY <1>15, <2>1
    <2> QED
      BY <1>17, <2>1, <2>2
  <1>24. ch[q[c]] = Null
    <2>1. c \in 1 .. c /\ c - 1 \in 0 .. c - 1
      BY <1>3
    <2> QED
      BY <1>15, <1>17, <2>1
  <1>25. \A i \in 1 .. c : q[i] \in D
    BY <1>18
  <1>26. IsList(q, base, ch, D)
    BY <1>19, <1>20, <1>21, <1>22, <1>23, <1>24, <1>25 DEF IsList
  <1>27. IsFiniteSet(D)
    <2>1. q \in Surjection(1 .. c, D)
      BY <1>18, <1>20 DEF Surjection
    <2>2. IsFiniteSet(1 .. c)
      BY <1>3, FS_Interval
    <2> QED
      BY <2>1, <2>2, FS_Surjection
  <1>28. \E w \in Seq(Objects) : IsList(w, base, ch, D)
    BY <1>19, <1>26
  <1> QED
    BY <1>14, <1>16, <1>27, <1>28 DEF ch, D, base

----------------------------------------------------------------------------
(* The memory: slabs sl, first words lk, owners ow of pages, free pages fr, and *)
(* the set H of held objects                                                *)

SlabType == [obj_size : ObjSizes, free_list : Objects \cup {Null}]

\* The objects that the pages of the slabs were cut into.
MadeOf(sl, ow) ==
  {o \in Objects : /\ PageOf(o) \in DOMAIN ow
                   /\ Placed(o, PageOf(o), sl[ow[PageOf(o)]].obj_size)}

\* The objects of slab s that nobody holds.
FreeOf(lk, ow, H, s) == {o \in DOMAIN lk \ H : ow[PageOf(o)] = s}

\* s has them all in its list.
HasList(sl, lk, ow, H, s) ==
  \E q \in Seq(Objects) : IsList(q, sl[s].free_list, lk, FreeOf(lk, ow, H, s))

Typed(sl, lk, ow, fr) ==
  /\ sl \in [DOMAIN sl -> SlabType]
  /\ fr \subseteq Frames /\ ow \in [Frames \ fr -> DOMAIN sl]
  /\ lk \in [DOMAIN lk -> Objects \cup {Null, Data}]

MemInv(sl, lk, ow, fr, H) ==
  /\ Typed(sl, lk, ow, fr)
  /\ DOMAIN lk = MadeOf(sl, ow) /\ IsFiniteSet(DOMAIN lk)
  /\ H \subseteq DOMAIN lk
  /\ \A s \in DOMAIN sl : HasList(sl, lk, ow, H, s)

\* Neither a slab's size nor a page's slab changes.
Extends(sl, ow, sl2, ow2) ==
  /\ DOMAIN sl2 = DOMAIN sl
  /\ \A s \in DOMAIN sl : sl2[s].obj_size = sl[s].obj_size
  /\ \A p \in DOMAIN ow : p \in DOMAIN ow2 /\ ow2[p] = ow[p]

\* Setting the head of one list.
LEMMA HeadSetLemma ==
  ASSUME NEW sl, sl \in [DOMAIN sl -> SlabType], NEW s \in DOMAIN sl,
         NEW h \in Objects \cup {Null},
         NEW sl2, sl2 = [sl EXCEPT ![s].free_list = h]
  PROVE  /\ DOMAIN sl2 = DOMAIN sl /\ sl2 \in [DOMAIN sl -> SlabType]
         /\ sl2[s].free_list = h
         /\ \A t \in DOMAIN sl : sl2[t].obj_size = sl[t].obj_size
         /\ \A t \in DOMAIN sl \ {s} : sl2[t] = sl[t]
  <1> DEFINE v == [sl[s] EXCEPT !.free_list = h]
  <1>1. sl[s] \in SlabType
    OBVIOUS
  <1>2. v \in SlabType /\ v.free_list = h /\ v.obj_size = sl[s].obj_size
    BY <1>1 DEF SlabType
  <1>3. sl2 = [sl EXCEPT ![s] = v]
    OBVIOUS
  <1> HIDE DEF v
  <1> QED
    BY <1>2, <1>3

\* g2 is g with the value v at x, where g has none.
Added(g2, g, x, v) ==
  /\ DOMAIN g2 = DOMAIN g \cup {x} /\ g2 = [y \in DOMAIN g2 |-> g2[y]]
  /\ g2[x] = v /\ \A y \in DOMAIN g : g2[y] = g[y]

LEMMA AddedLemma ==
  ASSUME NEW g, NEW x, NEW v, x \notin DOMAIN g
  PROVE  Added(Over(At(x, v), g), g, x, v)
  <1>1. DOMAIN At(x, v) = {x} /\ At(x, v)[x] = v
    BY DEF At
  <1> QED
    BY <1>1 DEF Over, Added

\* A page's share of the first words.
LEMMA OverLemma ==
  ASSUME NEW f, NEW g
  PROVE  /\ DOMAIN Over(f, g) = DOMAIN f \cup DOMAIN g
         /\ \A x \in DOMAIN f : Over(f, g)[x] = f[x]
         /\ \A x \in DOMAIN g \ DOMAIN f : Over(f, g)[x] = g[x]
  BY DEF Over

\* slab_alloc takes a page for a slab whose list is empty.
LEMMA RefillLemma ==
  ASSUME NEW sl, NEW lk, NEW ow, NEW fr, NEW H, MemInv(sl, lk, ow, fr, H),
         NEW s \in DOMAIN sl, sl[s].free_list = Null, NEW page \in fr,
         NEW base, base = page * PageSize,
         NEW sl2, sl2 = [sl EXCEPT ![s].free_list = base],
         NEW lk2, lk2 = Over(Chain(page, sl[s].obj_size), lk),
         NEW ow2, Added(ow2, ow, page, s)
  PROVE  /\ MemInv(sl2, lk2, ow2, fr \ {page}, H)
         /\ Extends(sl, ow, sl2, ow2)
         /\ sl2[s].free_list # Null
  <1> DEFINE z    == sl[s].obj_size
             ch   == Chain(page, z)
             fr2  == fr \ {page}
  <1>1. /\ sl \in [DOMAIN sl -> SlabType] /\ fr \subseteq Frames
        /\ ow \in [Frames \ fr -> DOMAIN sl]
        /\ lk \in [DOMAIN lk -> Objects \cup {Null, Data}]
        /\ DOMAIN lk = MadeOf(sl, ow) /\ IsFiniteSet(DOMAIN lk)
        /\ H \subseteq DOMAIN lk
        /\ \A t \in DOMAIN sl : HasList(sl, lk, ow, H, t)
    BY DEF MemInv, Typed
  <1>3. page \in Frames /\ page \notin DOMAIN ow /\ z \in ObjSizes
    BY <1>1 DEF SlabType
  <1>4. /\ DOMAIN ch = {o \in Objects : PageOf(o) = page /\ Placed(o, page, z)}
        /\ ch \in [DOMAIN ch -> Objects \cup {Null}]
        /\ IsFiniteSet(DOMAIN ch)
        /\ \E q \in Seq(Objects) : IsList(q, base, ch, DOMAIN ch)
    BY <1>3, ChainLemma
  <1> HIDE DEF z
  <1>5. PICK w \in Seq(Objects) : IsList(w, base, ch, DOMAIN ch)
    BY <1>4
  <1>6. base \in Objects
    <2>1. PageSize \in Nat \ {0} /\ page \in Nat
      BY <1>3, SlabAssumption
    <2>2. base = page * PageSize + 0 /\ 0 \in 0 .. PageSize - 1
      BY <2>1
    <2>3. \E p \in Frames, k \in 0 .. PageSize - 1 : base = p * PageSize + k
      BY <1>3, <2>2
    <2> QED
      BY <2>3 DEF Objects
  <1>7. base # Null
    BY <1>6, ObjectsLemma
  <1>8. /\ DOMAIN sl2 = DOMAIN sl /\ sl2 \in [DOMAIN sl -> SlabType]
        /\ sl2[s].free_list = base
        /\ \A t \in DOMAIN sl : sl2[t].obj_size = sl[t].obj_size
        /\ \A t \in DOMAIN sl \ {s} : sl2[t] = sl[t]
    BY <1>1, <1>6, HeadSetLemma
  <1>9. lk2 = Over(ch, lk)
    BY DEF z
  <1> HIDE DEF ch
  <1>10. /\ DOMAIN ow2 = DOMAIN ow \cup {page} /\ ow2[page] = s
         /\ \A p \in DOMAIN ow : ow2[p] = ow[p]
    BY DEF Added
  <1>11. \A o \in DOMAIN lk : PageOf(o) \in DOMAIN ow /\ PageOf(o) # page
    BY <1>1, <1>3 DEF MadeOf
  <1>12. \A o \in DOMAIN ch : PageOf(o) = page /\ o \notin DOMAIN lk
    BY <1>4, <1>11
  <1>13. /\ DOMAIN lk2 = DOMAIN ch \cup DOMAIN lk
         /\ \A o \in DOMAIN ch : lk2[o] = ch[o]
         /\ \A o \in DOMAIN lk : lk2[o] = lk[o]
    <2>1. /\ DOMAIN Over(ch, lk) = DOMAIN ch \cup DOMAIN lk
          /\ \A o \in DOMAIN ch : Over(ch, lk)[o] = ch[o]
          /\ \A o \in DOMAIN lk \ DOMAIN ch : Over(ch, lk)[o] = lk[o]
      BY OverLemma
    <2> QED
      BY <1>9, <1>12, <2>1
  <1>14. Typed(sl2, lk2, ow2, fr2)
    <2>1. sl2 \in [DOMAIN sl2 -> SlabType] /\ fr2 \subseteq Frames
      BY <1>1, <1>8
    <2>2. ow2 \in [Frames \ fr2 -> DOMAIN sl2]
      <3>1. Frames \ fr2 = DOMAIN ow \cup {page} /\ DOMAIN ow = Frames \ fr
        BY <1>1, <1>3
      <3>2. \A p \in DOMAIN ow \cup {page} : ow2[p] \in DOMAIN sl
        BY <1>1, <1>10
      <3>3. ow2 = [p \in DOMAIN ow2 |-> ow2[p]]
        BY DEF Added
      <3>4. DOMAIN ow2 = Frames \ fr2 /\ \A p \in DOMAIN ow2 : ow2[p] \in DOMAIN sl2
        BY <1>8, <1>10, <3>1, <3>2
      <3> QED
        BY <3>3, <3>4
    <2>3. lk2 \in [DOMAIN lk2 -> Objects \cup {Null, Data}]
      <3>1. \A o \in DOMAIN lk2 : lk2[o] \in Objects \cup {Null, Data}
        BY <1>1, <1>4, <1>13
      <3>2. lk2 = [o \in DOMAIN lk2 |-> lk2[o]]
        BY DEF Over
      <3> QED
        BY <3>1, <3>2
    <2> QED
      BY <2>1, <2>2, <2>3 DEF Typed
  <1>15. DOMAIN lk2 = MadeOf(sl2, ow2)
    <2>1. ASSUME NEW o \in Objects
          PROVE  o \in DOMAIN lk2 <=>
                   /\ PageOf(o) \in DOMAIN ow2
                   /\ Placed(o, PageOf(o), sl2[ow2[PageOf(o)]].obj_size)
      <3>1. CASE PageOf(o) = page
        <4>1. o \notin DOMAIN lk
          BY <1>11, <3>1
        <4>2. sl2[ow2[PageOf(o)]].obj_size = z
          BY <1>8, <1>10, <3>1 DEF z
        <4> QED
          BY <1>4, <1>10, <1>13, <3>1, <4>1, <4>2
      <3>2. CASE PageOf(o) # page
        <4>1. o \notin DOMAIN ch
          BY <1>12, <3>2
        <4>2. PageOf(o) \in DOMAIN ow2 <=> PageOf(o) \in DOMAIN ow
          BY <1>10, <3>2
        <4>3. PageOf(o) \in DOMAIN ow =>
                sl2[ow2[PageOf(o)]].obj_size = sl[ow[PageOf(o)]].obj_size
          BY <1>1, <1>8, <1>10
        <4>4. o \in DOMAIN lk <=>
                /\ PageOf(o) \in DOMAIN ow
                /\ Placed(o, PageOf(o), sl[ow[PageOf(o)]].obj_size)
          BY <1>1 DEF MadeOf
        <4> QED
          BY <1>13, <4>1, <4>2, <4>3, <4>4
      <3> QED
        BY <3>1, <3>2
    <2>2. DOMAIN lk2 \subseteq Objects
      BY <1>1, <1>4, <1>13 DEF MadeOf
    <2> QED
      BY <2>1, <2>2 DEF MadeOf
  <1>16. IsFiniteSet(DOMAIN lk2)
    <2>1. IsFiniteSet(DOMAIN ch) /\ IsFiniteSet(DOMAIN lk)
      BY <1>1, <1>4
    <2>2. IsFiniteSet(DOMAIN ch \cup DOMAIN lk)
      BY <2>1, FS_Union
    <2> QED
      BY <1>13, <2>2
  <1>17. H \subseteq DOMAIN lk2
    BY <1>1, <1>13
  <1>18. ASSUME NEW t \in DOMAIN sl PROVE HasList(sl2, lk2, ow2, H, t)
    <2>1. PICK q \in Seq(Objects) :
            IsList(q, sl[t].free_list, lk, FreeOf(lk, ow, H, t))
      BY <1>1 DEF HasList
    <2>2. CASE t # s
      <3>1. FreeOf(lk2, ow2, H, t) = FreeOf(lk, ow, H, t)
        BY <1>10, <1>11, <1>12, <1>13, <2>2 DEF FreeOf
      <3>2. \A o \in FreeOf(lk, ow, H, t) : lk2[o] = lk[o]
        BY <1>13 DEF FreeOf
      <3>3. IsList(q, sl[t].free_list, lk2, FreeOf(lk, ow, H, t))
        BY <2>1, <3>2, FrameLemma
      <3>4. sl2[t] = sl[t]
        BY <1>8, <2>2
      <3> QED
        BY <3>1, <3>3, <3>4 DEF HasList
    <2>3. CASE t = s
      <3>1. FreeOf(lk, ow, H, s) = {}
        BY <2>1, <2>3, HeadLemma
      <3>2. FreeOf(lk2, ow2, H, s) = DOMAIN ch
        <4>1. \A o \in DOMAIN lk \ H : ow2[PageOf(o)] # s
          BY <1>10, <1>11, <3>1 DEF FreeOf
        <4>2. \A o \in DOMAIN ch : o \notin H /\ ow2[PageOf(o)] = s
          BY <1>1, <1>10, <1>12
        <4> QED
          BY <1>13, <4>1, <4>2 DEF FreeOf
      <3>3. IsList(w, base, lk2, DOMAIN ch)
        BY <1>5, <1>13, FrameLemma
      <3> QED
        BY <1>8, <2>3, <3>2, <3>3 DEF HasList
    <2> QED
      BY <2>2, <2>3
  <1>19. MemInv(sl2, lk2, ow2, fr2, H)
    BY <1>8, <1>14, <1>15, <1>16, <1>17, <1>18 DEF MemInv
  <1>20. Extends(sl, ow, sl2, ow2)
    BY <1>8, <1>10 DEF Extends
  <1> QED
    BY <1>7, <1>8, <1>19, <1>20

\* slab_alloc takes the head of a list; its new owner writes it.
LEMMA TakenLemma ==
  ASSUME NEW sl, NEW lk, NEW ow, NEW fr, NEW H, MemInv(sl, lk, ow, fr, H),
         NEW s \in DOMAIN sl, NEW obj, obj = sl[s].free_list, obj # Null,
         NEW sl2, sl2 = [sl EXCEPT ![s].free_list = lk[obj]],
         NEW lk2, lk2 = [lk EXCEPT ![obj] = Data]
  PROVE  /\ MemInv(sl2, lk2, ow, fr, H \cup {obj})
         /\ Extends(sl, ow, sl2, ow)
         /\ obj \in Objects /\ obj \notin H
         /\ PageOf(obj) \in DOMAIN ow /\ ow[PageOf(obj)] = s
  <1> DEFINE F == FreeOf(lk, ow, H, s)
  <1>1. /\ sl \in [DOMAIN sl -> SlabType] /\ fr \subseteq Frames
        /\ ow \in [Frames \ fr -> DOMAIN sl]
        /\ lk \in [DOMAIN lk -> Objects \cup {Null, Data}]
        /\ DOMAIN lk = MadeOf(sl, ow) /\ IsFiniteSet(DOMAIN lk)
        /\ H \subseteq DOMAIN lk
        /\ \A t \in DOMAIN sl : HasList(sl, lk, ow, H, t)
    BY DEF MemInv, Typed
  <1>2. PICK q \in Seq(Objects) : IsList(q, obj, lk, F)
    BY <1>1 DEF HasList
  <1>3. obj \in F /\ obj \in Objects
    <2> HIDE DEF F
    <2> QED
      BY <1>2, HeadLemma
  <1>4. obj \in DOMAIN lk /\ obj \notin H /\ ow[PageOf(obj)] = s
    BY <1>3 DEF FreeOf
  <1>5. PageOf(obj) \in DOMAIN ow
    BY <1>1, <1>4 DEF MadeOf
  <1>6. DOMAIN lk2 = DOMAIN lk /\ \A o \in DOMAIN lk \ {obj} : lk2[o] = lk[o]
    OBVIOUS
  <1>7. \A o \in F \ {obj} : lk2[o] = lk[o]
    BY <1>6 DEF FreeOf
  <1>8. Tail(q) \in Seq(Objects) /\ IsList(Tail(q), lk[obj], lk2, F \ {obj})
    <2> HIDE DEF F
    <2> QED
      BY <1>2, <1>7, TakeLemma
  <1>9. lk[obj] \in Objects \cup {Null}
    <2> DEFINE t == Tail(q)
               h == lk[obj]
               G == F \ {obj}
    <2>1. t \in Seq(Objects) /\ IsList(t, h, lk2, G)
      BY <1>8
    <2> HIDE DEF t, h, G
    <2>2. h = Null \/ h \in Objects
      BY <2>1, HeadLemma
    <2> QED
      BY <2>2 DEF h
  <1>10. /\ DOMAIN sl2 = DOMAIN sl /\ sl2 \in [DOMAIN sl -> SlabType]
         /\ sl2[s].free_list = lk[obj]
         /\ \A t \in DOMAIN sl : sl2[t].obj_size = sl[t].obj_size
         /\ \A t \in DOMAIN sl \ {s} : sl2[t] = sl[t]
    <2> DEFINE h == lk[obj]
    <2>1. h \in Objects \cup {Null} /\ sl2 = [sl EXCEPT ![s].free_list = h]
      BY <1>9
    <2> HIDE DEF h
    <2>2. /\ DOMAIN sl2 = DOMAIN sl /\ sl2 \in [DOMAIN sl -> SlabType]
          /\ sl2[s].free_list = h
          /\ \A t \in DOMAIN sl : sl2[t].obj_size = sl[t].obj_size
          /\ \A t \in DOMAIN sl \ {s} : sl2[t] = sl[t]
      BY <1>1, <2>1, HeadSetLemma, SMTT(60)
    <2> QED
      BY <2>2 DEF h
  <1>11. Typed(sl2, lk2, ow, fr)
    <2>1. lk2 \in [DOMAIN lk2 -> Objects \cup {Null, Data}]
      BY <1>1
    <2>2. sl2 \in [DOMAIN sl2 -> SlabType] /\ ow \in [Frames \ fr -> DOMAIN sl2]
      BY <1>1, <1>10
    <2> QED
      BY <1>1, <2>1, <2>2 DEF Typed
  <1>12. MadeOf(sl2, ow) = MadeOf(sl, ow)
    <2>1. \A p \in DOMAIN ow : sl2[ow[p]].obj_size = sl[ow[p]].obj_size
      BY <1>1, <1>10
    <2> QED
      BY <2>1 DEF MadeOf
  <1>13. ASSUME NEW t \in DOMAIN sl
         PROVE  HasList(sl2, lk2, ow, H \cup {obj}, t)
    <2>1. CASE t = s
      <3>1. FreeOf(lk2, ow, H \cup {obj}, s) = F \ {obj}
        BY <1>6 DEF FreeOf
      <3>2. sl2[t].free_list = lk[obj]
        BY <1>10, <2>1
      <3>3. IsList(Tail(q), sl2[t].free_list, lk2, FreeOf(lk2, ow, H \cup {obj}, t))
        BY <1>8, <2>1, <3>1, <3>2
      <3> QED
        BY <1>8, <3>3 DEF HasList
    <2>2. CASE t # s
      <3>1. PICK w \in Seq(Objects) :
              IsList(w, sl[t].free_list, lk, FreeOf(lk, ow, H, t))
        BY <1>1 DEF HasList
      <3>2. FreeOf(lk2, ow, H \cup {obj}, t) = FreeOf(lk, ow, H, t)
        BY <1>4, <1>6, <2>2 DEF FreeOf
      <3>3. \A o \in FreeOf(lk, ow, H, t) : lk2[o] = lk[o]
        BY <1>4, <1>6, <2>2 DEF FreeOf
      <3>4. IsList(w, sl[t].free_list, lk2, FreeOf(lk, ow, H, t))
        BY <3>1, <3>3, FrameLemma
      <3>5. sl2[t] = sl[t]
        BY <1>10, <2>2
      <3> QED
        BY <3>2, <3>4, <3>5 DEF HasList
    <2> QED
      BY <2>1, <2>2
  <1>14. H \cup {obj} \subseteq DOMAIN lk2 /\ IsFiniteSet(DOMAIN lk2)
    BY <1>1, <1>4, <1>6
  <1>15. MemInv(sl2, lk2, ow, fr, H \cup {obj})
    BY <1>1, <1>6, <1>10, <1>11, <1>12, <1>13, <1>14 DEF MemInv
  <1>16. Extends(sl, ow, sl2, ow)
    BY <1>10 DEF Extends
  <1> QED
    BY <1>3, <1>4, <1>5, <1>15, <1>16

\* slab_free2 puts an object in front of the list of its page's slab.
LEMMA GivenLemma ==
  ASSUME NEW sl, NEW lk, NEW ow, NEW fr, NEW H, MemInv(sl, lk, ow, fr, H),
         NEW obj \in H, NEW s, s = ow[PageOf(obj)],
         NEW sl2, sl2 = [sl EXCEPT ![s].free_list = obj],
         NEW lk2, lk2 = [lk EXCEPT ![obj] = sl[s].free_list]
  PROVE  /\ MemInv(sl2, lk2, ow, fr, H \ {obj})
         /\ Extends(sl, ow, sl2, ow)
  <1> DEFINE F == FreeOf(lk, ow, H, s)
             h == sl[s].free_list
  <1>1. /\ sl \in [DOMAIN sl -> SlabType] /\ fr \subseteq Frames
        /\ ow \in [Frames \ fr -> DOMAIN sl]
        /\ lk \in [DOMAIN lk -> Objects \cup {Null, Data}]
        /\ DOMAIN lk = MadeOf(sl, ow) /\ IsFiniteSet(DOMAIN lk)
        /\ H \subseteq DOMAIN lk
        /\ \A t \in DOMAIN sl : HasList(sl, lk, ow, H, t)
    BY DEF MemInv, Typed
  <1>2. obj \in DOMAIN lk /\ obj \in Objects /\ PageOf(obj) \in DOMAIN ow
    BY <1>1 DEF MadeOf
  <1>3. s \in DOMAIN sl
    BY <1>1, <1>2
  <1>4. h \in Objects \cup {Null} /\ obj \notin F
    BY <1>1, <1>3 DEF SlabType, FreeOf
  <1>5. PICK q \in Seq(Objects) : IsList(q, h, lk, F)
    BY <1>1, <1>3 DEF HasList
  <1>6. /\ DOMAIN sl2 = DOMAIN sl /\ sl2 \in [DOMAIN sl -> SlabType]
        /\ sl2[s].free_list = obj
        /\ \A t \in DOMAIN sl : sl2[t].obj_size = sl[t].obj_size
        /\ \A t \in DOMAIN sl \ {s} : sl2[t] = sl[t]
    BY <1>1, <1>2, <1>3, HeadSetLemma
  <1>7. lk2 = [lk EXCEPT ![obj] = h]
    OBVIOUS
  <1> HIDE DEF h
  <1>8. /\ DOMAIN lk2 = DOMAIN lk /\ lk2[obj] = h
        /\ \A o \in DOMAIN lk \ {obj} : lk2[o] = lk[o]
    BY <1>2, <1>7
  <1>9. \A o \in F : lk2[o] = lk[o]
    BY <1>8 DEF FreeOf
  <1>10. \E w \in Seq(Objects) : IsList(w, obj, lk2, F \cup {obj})
    <2> HIDE DEF F
    <2>1. obj \in Objects /\ obj \notin F /\ lk2[obj] = h
      BY <1>2, <1>4, <1>8
    <2>2. IsList(q, h, lk, F)
      BY <1>5
    <2>3. \A o \in F : lk2[o] = lk[o]
      BY <1>9
    <2> QED
      BY <2>1, <2>2, <2>3, GiveLemma
  <1>11. Typed(sl2, lk2, ow, fr)
    <2>1. lk2 \in [DOMAIN lk2 -> Objects \cup {Null, Data}]
      BY <1>1, <1>4, <1>7
    <2>2. sl2 \in [DOMAIN sl2 -> SlabType] /\ ow \in [Frames \ fr -> DOMAIN sl2]
      BY <1>1, <1>6
    <2> QED
      BY <1>1, <2>1, <2>2 DEF Typed
  <1>12. MadeOf(sl2, ow) = MadeOf(sl, ow)
    <2>1. \A p \in DOMAIN ow : sl2[ow[p]].obj_size = sl[ow[p]].obj_size
      BY <1>1, <1>6
    <2> QED
      BY <2>1 DEF MadeOf
  <1>13. ASSUME NEW t \in DOMAIN sl PROVE HasList(sl2, lk2, ow, H \ {obj}, t)
    <2>1. CASE t = s
      <3>1. FreeOf(lk2, ow, H \ {obj}, s) = F \cup {obj}
        BY <1>2, <1>8 DEF FreeOf
      <3>2. PICK w \in Seq(Objects) : IsList(w, obj, lk2, F \cup {obj})
        BY <1>10
      <3>3. sl2[t].free_list = obj
        BY <1>6, <2>1
      <3>4. IsList(w, sl2[t].free_list, lk2, FreeOf(lk2, ow, H \ {obj}, t))
        BY <2>1, <3>1, <3>2, <3>3
      <3> QED
        BY <3>4 DEF HasList
    <2>2. CASE t # s
      <3>1. PICK w \in Seq(Objects) :
              IsList(w, sl[t].free_list, lk, FreeOf(lk, ow, H, t))
        BY <1>1 DEF HasList
      <3>2. FreeOf(lk2, ow, H \ {obj}, t) = FreeOf(lk, ow, H, t)
        BY <1>8, <2>2 DEF FreeOf
      <3>3. \A o \in FreeOf(lk, ow, H, t) : lk2[o] = lk[o]
        BY <1>8, <2>2 DEF FreeOf
      <3>4. IsList(w, sl[t].free_list, lk2, FreeOf(lk, ow, H, t))
        BY <3>1, <3>3, FrameLemma
      <3>5. sl2[t] = sl[t]
        BY <1>6, <2>2
      <3> QED
        BY <3>2, <3>4, <3>5 DEF HasList
    <2> QED
      BY <2>1, <2>2
  <1>14. MemInv(sl2, lk2, ow, fr, H \ {obj})
    BY <1>1, <1>6, <1>8, <1>11, <1>12, <1>13 DEF MemInv
  <1>15. Extends(sl, ow, sl2, ow)
    BY <1>6 DEF Extends
  <1> QED
    BY <1>14, <1>15

\* slab_create fills in a descriptor; the new slab has no page yet.
LEMMA CreatedLemma ==
  ASSUME NEW sl, NEW lk, NEW ow, NEW fr, NEW H, MemInv(sl, lk, ow, fr, H),
         NEW x, x \notin DOMAIN sl, NEW z \in ObjSizes,
         NEW sl2, Added(sl2, sl, x, Slab(z))
  PROVE  MemInv(sl2, lk, ow, fr, H) /\ sl2[x].obj_size = z
  <1>1. /\ sl \in [DOMAIN sl -> SlabType] /\ fr \subseteq Frames
        /\ ow \in [Frames \ fr -> DOMAIN sl]
        /\ lk \in [DOMAIN lk -> Objects \cup {Null, Data}]
        /\ DOMAIN lk = MadeOf(sl, ow) /\ IsFiniteSet(DOMAIN lk)
        /\ H \subseteq DOMAIN lk
        /\ \A t \in DOMAIN sl : HasList(sl, lk, ow, H, t)
    BY DEF MemInv, Typed
  <1>2. /\ DOMAIN sl2 = DOMAIN sl \cup {x} /\ sl2[x] = Slab(z)
        /\ \A s \in DOMAIN sl : sl2[s] = sl[s]
    BY DEF Added
  <1>3. Slab(z) \in SlabType /\ Slab(z).free_list = Null /\ Slab(z).obj_size = z
    BY DEF Slab, SlabType
  <1>4. Typed(sl2, lk, ow, fr)
    <2>1. \A s \in DOMAIN sl2 : sl2[s] \in SlabType
      BY <1>1, <1>2, <1>3
    <2>2. sl2 = [s \in DOMAIN sl2 |-> sl2[s]]
      BY DEF Added
    <2>3. sl2 \in [DOMAIN sl2 -> SlabType]
      BY <2>1, <2>2
    <2>4. ow \in [Frames \ fr -> DOMAIN sl2]
      BY <1>1, <1>2
    <2> QED
      BY <1>1, <2>3, <2>4 DEF Typed
  <1>5. MadeOf(sl2, ow) = MadeOf(sl, ow)
    <2>1. \A p \in DOMAIN ow : sl2[ow[p]] = sl[ow[p]]
      BY <1>1, <1>2
    <2> QED
      BY <2>1 DEF MadeOf
  <1>6. ASSUME NEW t \in DOMAIN sl2 PROVE HasList(sl2, lk, ow, H, t)
    <2>1. CASE t \in DOMAIN sl
      <3>1. sl2[t] = sl[t] /\ HasList(sl, lk, ow, H, t)
        BY <1>1, <1>2, <2>1
      <3> QED
        BY <3>1 DEF HasList
    <2>2. CASE t = x
      <3>1. FreeOf(lk, ow, H, x) = {}
        BY <1>1 DEF FreeOf, MadeOf
      <3>2. <<>> \in Seq(Objects) /\ Len(<<>>) = 0
        BY EmptySeq
      <3>3. IsList(<<>>, Null, lk, {})
        BY <3>2 DEF IsList
      <3> QED
        BY <1>2, <1>3, <2>2, <3>1, <3>2, <3>3 DEF HasList
    <2> QED
      BY <1>2, <2>1, <2>2
  <1>7. MemInv(sl2, lk, ow, fr, H)
    BY <1>1, <1>4, <1>5, <1>6 DEF MemInv
  <1> QED
    BY <1>2, <1>3, <1>7

----------------------------------------------------------------------------
(* slab_alloc as a whole *)

\* The fields of a memory an object was taken from.
LEMMA TakenFields ==
  ASSUME NEW sl, NEW lk, NEW ow, NEW fr, NEW x, NEW s, NEW m, NEW obj,
         m = [slabs |-> sl, link |-> lk, owner |-> ow, free |-> fr, obj |-> x],
         obj = sl[s].free_list
  PROVE  /\ Taken(m, s).slabs = [sl EXCEPT ![s].free_list = lk[obj]]
         /\ Taken(m, s).link = [lk EXCEPT ![obj] = Data]
         /\ Taken(m, s).owner = ow /\ Taken(m, s).free = fr
         /\ Taken(m, s).obj = obj
  BY DEF Taken

\* Whether slab s has free objects or needs a page, slab_alloc returns an object
\* of s that nobody held.
LEMMA AllocLemma ==
  ASSUME NEW H, MemInv(slabs, link, owner, free, H), NEW s \in DOMAIN slabs,
         CanAlloc(s), NEW a, a = slab_alloc(Now, s)
  PROVE  /\ MemInv(a.slabs, a.link, a.owner, a.free, H \cup {a.obj})
         /\ Extends(slabs, owner, a.slabs, a.owner)
         /\ a.obj \in Objects /\ a.obj \notin H
         /\ PageOf(a.obj) \in DOMAIN a.owner /\ a.owner[PageOf(a.obj)] = s
  <1>1. CASE slabs[s].free_list # Null
    <2> DEFINE obj == slabs[s].free_list
               sl2 == [slabs EXCEPT ![s].free_list = link[obj]]
               lk2 == [link EXCEPT ![obj] = Data]
    <2>1. a = Taken(Now, s)
      BY <1>1 DEF slab_alloc, Now
    <2>2. /\ a.slabs = sl2 /\ a.link = lk2 /\ a.owner = owner /\ a.free = free
          /\ a.obj = obj
      BY <2>1, TakenFields DEF Now
    <2>3. /\ MemInv(sl2, lk2, owner, free, H \cup {obj})
          /\ Extends(slabs, owner, sl2, owner)
          /\ obj \in Objects /\ obj \notin H
          /\ PageOf(obj) \in DOMAIN owner /\ owner[PageOf(obj)] = s
      BY <1>1, TakenLemma
    <2> HIDE DEF obj, sl2, lk2
    <2> QED
      BY <2>2, <2>3
  <1>2. CASE slabs[s].free_list = Null
    <2> DEFINE n    == Now
               page == CHOOSE p \in n.free : \A q \in n.free : p <= q
               sl1  == [n.slabs EXCEPT ![s].free_list = page * PageSize]
               lk1  == Over(Chain(page, n.slabs[s].obj_size), n.link)
               ow1  == Over(At(page, s), n.owner)
               fr1  == n.free \ {page}
               m    == Refilled(n, s)
               obj  == sl1[s].free_list
               sl2  == [sl1 EXCEPT ![s].free_list = lk1[obj]]
               lk2  == [lk1 EXCEPT ![obj] = Data]
    <2>1. /\ n.slabs = slabs /\ n.link = link /\ n.owner = owner
          /\ n.free = free
      BY DEF Now
    <2>2. a = Taken(m, s)
      BY <1>2, <2>1 DEF slab_alloc
    <2> HIDE DEF n
    <2>3. page \in free
      <3>1. free # {} /\ free \in SUBSET Nat
        BY <1>2, SlabAssumption DEF CanAlloc, MemInv, Typed
      <3>2. \E p \in n.free : \A q \in n.free : p <= q
        BY <2>1, <3>1, LeastLemma
      <3>3. page \in n.free
        BY <3>2
      <3> QED
        BY <2>1, <3>3
    <2>4. m = [slabs |-> sl1, link |-> lk1, owner |-> ow1, free |-> fr1,
               obj |-> n.obj]
      BY DEF Refilled
    <2> HIDE DEF m
    <2>5. /\ MemInv(sl1, lk1, ow1, fr1, H) /\ Extends(slabs, owner, sl1, ow1)
          /\ obj # Null
      <3>1. page \notin DOMAIN owner
        BY <2>3 DEF MemInv, Typed
      <3> HIDE DEF page
      <3>2. Added(ow1, owner, page, s)
        BY <2>1, <3>1, AddedLemma
      <3> DEFINE base == page * PageSize
      <3>3. /\ base = page * PageSize
            /\ sl1 = [slabs EXCEPT ![s].free_list = base]
            /\ lk1 = Over(Chain(page, slabs[s].obj_size), link)
            /\ fr1 = free \ {page} /\ obj = sl1[s].free_list
        BY <2>1
      <3> HIDE DEF base, sl1, lk1, ow1, fr1, obj
      <3> QED
        BY <1>2, <2>3, <3>2, <3>3, RefillLemma
    <2> HIDE DEF page, sl1, lk1, ow1, fr1
    <2>6. /\ a.slabs = sl2 /\ a.link = lk2 /\ a.owner = ow1 /\ a.free = fr1
          /\ a.obj = obj
      <3>1. obj = sl1[s].free_list
        OBVIOUS
      <3> HIDE DEF obj
      <3> QED
        BY <2>2, <2>4, <3>1, TakenFields
    <2>7. s \in DOMAIN sl1
      BY <2>5 DEF Extends
    <2>8. /\ MemInv(sl2, lk2, ow1, fr1, H \cup {obj})
          /\ Extends(sl1, ow1, sl2, ow1)
          /\ obj \in Objects /\ obj \notin H
          /\ PageOf(obj) \in DOMAIN ow1 /\ ow1[PageOf(obj)] = s
      BY <2>5, <2>7, TakenLemma
    <2> HIDE DEF obj, sl2, lk2
    <2>9. Extends(slabs, owner, sl2, ow1)
      BY <2>5, <2>8 DEF Extends
    <2> QED
      BY <2>6, <2>8, <2>9
  <1> QED
    BY <1>1, <1>2

----------------------------------------------------------------------------
(* The inductive invariant *)

\* Nobody asked for more than the objects of the slab are long.
HeldFits(sl, ow, hd) ==
  /\ hd \in [DOMAIN hd -> Nat]
  /\ \A o \in DOMAIN hd : /\ PageOf(o) \in DOMAIN ow /\ ow[PageOf(o)] \in DOMAIN sl
                          /\ hd[o] <= sl[ow[PageOf(o)]].obj_size

\* The descriptors of the slabs but that of global_slab are themselves held.
Descriptors(sl, hd) ==
  /\ Global \in DOMAIN sl /\ sl[Global].obj_size = DescSize
  /\ DOMAIN sl \ {Global} \subseteq DOMAIN hd

KmallocOK(sl, ks) ==
  /\ ks \in Seq(DOMAIN sl) /\ Len(ks) <= Len(Sizes)
  /\ \A i \in 1 .. Len(ks) : Sizes[i] <= sl[ks[i]].obj_size

SlabInv ==
  /\ MemInv(slabs, link, owner, free, DOMAIN held)
  /\ HeldFits(slabs, owner, held)
  /\ Descriptors(slabs, held)
  /\ KmallocOK(slabs, kmalloc_slabs)

\* Before kmalloc_init there is global_slab, and it has no page.
LEMMA SlabInit == Init => SlabInv
  <1> SUFFICES ASSUME Init PROVE SlabInv
    OBVIOUS
  <1>1. /\ slabs = [s \in {Global} |-> Slab(DescSize)]
        /\ DOMAIN link = {} /\ DOMAIN owner = {} /\ DOMAIN held = {}
        /\ free = Frames /\ kmalloc_slabs = <<>>
    BY DEF Init
  <1>2. /\ DOMAIN slabs = {Global} /\ slabs[Global] = Slab(DescSize)
        /\ slabs \in [DOMAIN slabs -> SlabType]
        /\ slabs[Global].free_list = Null /\ slabs[Global].obj_size = DescSize
    BY <1>1, DescSizeLemma DEF Slab, SlabType
  <1>3. Typed(slabs, link, owner, free)
    <2>1. link \in [DOMAIN link -> Objects \cup {Null, Data}]
      BY DEF Init
    <2>2. owner \in [Frames \ free -> DOMAIN slabs]
      BY <1>1 DEF Init
    <2> QED
      BY <1>1, <1>2, <2>1, <2>2 DEF Typed
  <1>4. DOMAIN link = MadeOf(slabs, owner)
    BY <1>1 DEF MadeOf
  <1>5. IsFiniteSet(DOMAIN link)
    BY <1>1, FS_EmptySet
  <1>6. HasList(slabs, link, owner, DOMAIN held, Global)
    <2>1. FreeOf(link, owner, DOMAIN held, Global) = {}
      BY <1>1 DEF FreeOf
    <2>2. <<>> \in Seq(Objects) /\ Len(<<>>) = 0
      BY EmptySeq
    <2>3. IsList(<<>>, Null, link, {})
      BY <2>2 DEF IsList
    <2> QED
      BY <1>2, <2>1, <2>2, <2>3 DEF HasList
  <1>7. MemInv(slabs, link, owner, free, DOMAIN held)
    BY <1>1, <1>2, <1>3, <1>4, <1>5, <1>6 DEF MemInv
  <1>8. HeldFits(slabs, owner, held)
    BY <1>1 DEF HeldFits, Init
  <1>9. Descriptors(slabs, held)
    BY <1>2 DEF Descriptors
  <1>10. KmallocOK(slabs, kmalloc_slabs)
    <2>1. kmalloc_slabs \in Seq(DOMAIN slabs) /\ Len(kmalloc_slabs) = 0
      BY <1>1, EmptySeq
    <2>2. Len(Sizes) \in Nat
      BY SlabAssumption, LenProperties
    <2> QED
      BY <2>1, <2>2 DEF KmallocOK
  <1> QED
    BY <1>7, <1>8, <1>9, <1>10 DEF SlabInv

\* One more object is held, of slab s and of no larger size than its objects.
LEMMA HeldLemma ==
  ASSUME NEW sl, NEW ow, NEW hd, HeldFits(sl, ow, hd),
         NEW sl2, NEW ow2, DOMAIN sl \subseteq DOMAIN sl2,
         \A t \in DOMAIN sl : sl2[t].obj_size = sl[t].obj_size,
         \A p \in DOMAIN ow : p \in DOMAIN ow2 /\ ow2[p] = ow[p],
         NEW obj, obj \notin DOMAIN hd, PageOf(obj) \in DOMAIN ow2,
         ow2[PageOf(obj)] \in DOMAIN sl2,
         NEW size \in Nat, size <= sl2[ow2[PageOf(obj)]].obj_size,
         NEW hd2, Added(hd2, hd, obj, size)
  PROVE  HeldFits(sl2, ow2, hd2)
  <1>2. /\ DOMAIN hd2 = DOMAIN hd \cup {obj} /\ hd2[obj] = size
        /\ \A o \in DOMAIN hd : hd2[o] = hd[o]
        /\ hd2 = [o \in DOMAIN hd2 |-> hd2[o]]
    BY DEF Added
  <1>3. \A o \in DOMAIN hd : /\ hd[o] \in Nat /\ PageOf(o) \in DOMAIN ow
                             /\ ow[PageOf(o)] \in DOMAIN sl
                             /\ hd[o] <= sl[ow[PageOf(o)]].obj_size
    BY DEF HeldFits
  <1>4. ASSUME NEW o \in DOMAIN hd2
        PROVE  /\ hd2[o] \in Nat /\ PageOf(o) \in DOMAIN ow2
               /\ ow2[PageOf(o)] \in DOMAIN sl2
               /\ hd2[o] <= sl2[ow2[PageOf(o)]].obj_size
    <2>1. CASE o = obj
      BY <1>2, <2>1
    <2>2. CASE o \in DOMAIN hd
      BY <1>2, <1>3, <2>2
    <2> QED
      BY <1>2, <2>1, <2>2
  <1>5. hd2 \in [DOMAIN hd2 -> Nat]
    BY <1>2, <1>4
  <1> QED
    BY <1>2, <1>4, <1>5 DEF HeldFits

\* slab_alloc for a client, of a slab that has an object or can get a page.
LEMMA AllocateStep ==
  ASSUME SlabInv, NEW s \in DOMAIN slabs, NEW size \in Nat,
         size <= slabs[s].obj_size, Allocate(s, size)
  PROVE  SlabInv'
  <1> DEFINE a == slab_alloc(Now, s)
             H == DOMAIN held
  <1>1. /\ CanAlloc(s) /\ kmalloc_slabs' = kmalloc_slabs
        /\ slabs' = a.slabs /\ link' = a.link /\ owner' = a.owner
        /\ free' = a.free /\ held' = Over(At(a.obj, size), held)
    BY DEF Allocate, Become
  <1>2. /\ MemInv(slabs, link, owner, free, H) /\ HeldFits(slabs, owner, held)
        /\ Descriptors(slabs, held) /\ KmallocOK(slabs, kmalloc_slabs)
    BY DEF SlabInv
  <1>3. /\ MemInv(a.slabs, a.link, a.owner, a.free, H \cup {a.obj})
        /\ Extends(slabs, owner, a.slabs, a.owner)
        /\ a.obj \in Objects /\ a.obj \notin H
        /\ PageOf(a.obj) \in DOMAIN a.owner /\ a.owner[PageOf(a.obj)] = s
    BY <1>1, <1>2, AllocLemma
  <1> HIDE DEF a
  <1>4. /\ DOMAIN slabs' = DOMAIN slabs
        /\ \A t \in DOMAIN slabs : slabs'[t].obj_size = slabs[t].obj_size
        /\ \A p \in DOMAIN owner : p \in DOMAIN owner' /\ owner'[p] = owner[p]
    BY <1>1, <1>3 DEF Extends
  <1>5. DOMAIN held' = H \cup {a.obj} /\ HeldFits(slabs', owner', held')
    <2> DEFINE obj == a.obj
    <2>1. /\ obj \notin DOMAIN held /\ PageOf(obj) \in DOMAIN owner'
          /\ owner'[PageOf(obj)] = s /\ held' = Over(At(obj, size), held)
      BY <1>1, <1>3
    <2>2. size <= slabs'[owner'[PageOf(obj)]].obj_size
      BY <1>4, <2>1
    <2>3. owner'[PageOf(obj)] \in DOMAIN slabs' /\ DOMAIN slabs \subseteq DOMAIN slabs'
      BY <1>4, <2>1
    <2> HIDE DEF obj
    <2>4. Added(held', held, obj, size)
      BY <2>1, AddedLemma
    <2>5. HeldFits(slabs', owner', held')
      BY <1>2, <1>4, <2>1, <2>2, <2>3, <2>4, HeldLemma
    <2> QED
      BY <2>4, <2>5 DEF obj, Added
  <1>6. MemInv(slabs', link', owner', free', DOMAIN held')
    BY <1>1, <1>3, <1>5
  <1>7. Descriptors(slabs', held')
    BY <1>2, <1>4, <1>5 DEF Descriptors
  <1>8. KmallocOK(slabs', kmalloc_slabs')
    <2>1. \A i \in 1 .. Len(kmalloc_slabs) : kmalloc_slabs[i] \in DOMAIN slabs
      BY <1>2, ElementOfSeq DEF KmallocOK
    <2> QED
      BY <1>1, <1>2, <1>4, <2>1 DEF KmallocOK
  <1> QED
    BY <1>5, <1>6, <1>7, <1>8 DEF SlabInv

\* slab_create: a descriptor from global_slab, which becomes a slab.
LEMMA CreateStep ==
  ASSUME SlabInv, NEW size \in 1 .. PageSize, slab_create(size)
  PROVE  LET obj == slab_alloc(Now, Global).obj
         IN  /\ MemInv(slabs', link', owner', free', DOMAIN held')
             /\ HeldFits(slabs', owner', held')
             /\ Descriptors(slabs', held')
             /\ DOMAIN slabs' = DOMAIN slabs \cup {obj}
             /\ size <= slabs'[obj].obj_size
             /\ \A t \in DOMAIN slabs : slabs'[t].obj_size = slabs[t].obj_size
  <1> DEFINE a == slab_alloc(Now, Global)
             z == RoundedSize(size)
             H == DOMAIN held
             sl2 == Over(At(a.obj, Slab(z)), a.slabs)
             m   == [a EXCEPT !.slabs = Over(At(a.obj, Slab(z)), @)]
  <1>1. /\ CanAlloc(Global) /\ Become(m) /\ held' = Over(At(a.obj, DescSize), held)
    BY DEF slab_create
  <1>2. /\ MemInv(slabs, link, owner, free, H) /\ HeldFits(slabs, owner, held)
        /\ Descriptors(slabs, held) /\ KmallocOK(slabs, kmalloc_slabs)
    BY DEF SlabInv
  <1>3. Global \in DOMAIN slabs
    BY <1>2 DEF Descriptors
  <1>4. /\ MemInv(a.slabs, a.link, a.owner, a.free, H \cup {a.obj})
        /\ Extends(slabs, owner, a.slabs, a.owner)
        /\ a.obj \in Objects /\ a.obj \notin H
        /\ PageOf(a.obj) \in DOMAIN a.owner /\ a.owner[PageOf(a.obj)] = Global
    BY <1>1, <1>2, <1>3, AllocLemma
  <1>5. slabs' = sl2 /\ link' = a.link /\ owner' = a.owner /\ free' = a.free
    <2>1. /\ m.slabs = sl2 /\ m.link = a.link /\ m.owner = a.owner
          /\ m.free = a.free
      BY DEF slab_alloc, Taken, Refilled, Now
    <2> HIDE DEF a, m
    <2> QED
      BY <1>1, <2>1 DEF Become
  <1>6. z \in ObjSizes /\ size <= z
    BY RoundedSizeLemma
  <1> HIDE DEF a, z
  <1>7. a.obj \notin DOMAIN a.slabs
    BY <1>2, <1>4, ObjectsLemma DEF Descriptors, Extends
  <1>8. /\ MemInv(sl2, a.link, a.owner, a.free, H \cup {a.obj})
        /\ DOMAIN sl2 = DOMAIN a.slabs \cup {a.obj}
        /\ sl2[a.obj].obj_size = z
        /\ \A s \in DOMAIN a.slabs : sl2[s] = a.slabs[s]
    <2> DEFINE sl == a.slabs
               x  == a.obj
    <2>1. sl2 = Over(At(x, Slab(z)), sl) /\ x \notin DOMAIN sl
      BY <1>7
    <2>2. MemInv(sl, a.link, a.owner, a.free, H \cup {a.obj})
      BY <1>4
    <2> HIDE DEF sl, x, sl2
    <2>3. Added(sl2, sl, x, Slab(z))
      BY <2>1, AddedLemma
    <2>4. MemInv(sl2, a.link, a.owner, a.free, H \cup {a.obj}) /\ sl2[x].obj_size = z
      BY <1>6, <2>1, <2>2, <2>3, CreatedLemma
    <2> QED
      BY <2>3, <2>4 DEF sl, x, Added
  <1> HIDE DEF sl2
  <1>9. /\ DOMAIN slabs' = DOMAIN slabs \cup {a.obj}
        /\ size <= slabs'[a.obj].obj_size
        /\ \A t \in DOMAIN slabs : slabs'[t].obj_size = slabs[t].obj_size
        /\ \A p \in DOMAIN owner : p \in DOMAIN owner' /\ owner'[p] = owner[p]
    BY <1>4, <1>5, <1>6, <1>8 DEF Extends
  <1>10. slabs'[Global].obj_size = DescSize /\ DescSize \in Nat
    BY <1>2, <1>3, <1>9, SlabAssumption DEF Descriptors, PowerOfTwo
  <1>11. DOMAIN held' = H \cup {a.obj} /\ HeldFits(slabs', owner', held')
    <2> DEFINE obj == a.obj
    <2>1. /\ obj \notin DOMAIN held /\ PageOf(obj) \in DOMAIN owner'
          /\ owner'[PageOf(obj)] = Global /\ held' = Over(At(obj, DescSize), held)
      BY <1>1, <1>4, <1>5
    <2>2. /\ DescSize <= slabs'[owner'[PageOf(obj)]].obj_size
          /\ owner'[PageOf(obj)] \in DOMAIN slabs'
          /\ DOMAIN slabs \subseteq DOMAIN slabs'
      BY <1>3, <1>9, <1>10, <2>1
    <2> HIDE DEF obj
    <2>3. Added(held', held, obj, DescSize)
      BY <2>1, AddedLemma
    <2>4. HeldFits(slabs', owner', held')
      BY <1>2, <1>9, <1>10, <2>1, <2>2, <2>3, HeldLemma
    <2> QED
      BY <2>3, <2>4 DEF obj, Added
  <1>12. MemInv(slabs', link', owner', free', DOMAIN held')
    BY <1>5, <1>8, <1>11
  <1>13. Descriptors(slabs', held')
    BY <1>2, <1>9, <1>10, <1>11 DEF Descriptors
  <1> QED
    BY <1>9, <1>11, <1>12, <1>13 DEF a

\* kmalloc's sizes fit a page.
LEMMA SizesLemma ==
  \A z \in 1 .. PageSize \div 2 : z \in 1 .. PageSize /\ z \in Nat
  <1>1. PageSize \in Nat /\ PageSize \div 2 <= PageSize
    BY SlabAssumption
  <1> QED
    BY <1>1

\* kmalloc_init creates the slabs of kmalloc one after the other.
LEMMA KmallocInitStep ==
  ASSUME SlabInv, kmalloc_init
  PROVE  SlabInv'
  <1> DEFINE n   == Len(kmalloc_slabs)
             obj == slab_alloc(Now, Global).obj
             ks2 == Append(kmalloc_slabs, obj)
  <1>1. /\ kmalloc_slabs \in Seq(DOMAIN slabs) /\ n <= Len(Sizes)
        /\ \A i \in 1 .. n : Sizes[i] <= slabs[kmalloc_slabs[i]].obj_size
    BY DEF SlabInv, KmallocOK
  <1>2. /\ n # Len(Sizes) /\ slab_create(Sizes[n + 1]) /\ kmalloc_slabs' = ks2
    BY DEF kmalloc_init, Initialised
  <1>3. n \in Nat /\ Len(Sizes) \in Nat /\ n + 1 <= Len(Sizes)
    BY <1>1, <1>2, SlabAssumption, LenProperties
  <1>4. Sizes[n + 1] \in 1 .. PageSize
    <2>1. Sizes[n + 1] \in 1 .. PageSize \div 2
      BY <1>3, SlabAssumption, ElementOfSeq
    <2> QED
      BY <2>1, SizesLemma
  <1>5. /\ MemInv(slabs', link', owner', free', DOMAIN held')
        /\ HeldFits(slabs', owner', held')
        /\ Descriptors(slabs', held')
        /\ DOMAIN slabs' = DOMAIN slabs \cup {obj}
        /\ Sizes[n + 1] <= slabs'[obj].obj_size
        /\ \A t \in DOMAIN slabs : slabs'[t].obj_size = slabs[t].obj_size
    BY <1>2, <1>4, CreateStep
  <1> HIDE DEF obj
  <1>6. KmallocOK(slabs', ks2)
    <2>1. /\ kmalloc_slabs \in Seq(DOMAIN slabs') /\ obj \in DOMAIN slabs'
      BY <1>1, <1>5, SeqMonotonic
    <2>2. /\ ks2 \in Seq(DOMAIN slabs') /\ Len(ks2) = n + 1 /\ ks2[n + 1] = obj
          /\ \A i \in 1 .. n : ks2[i] = kmalloc_slabs[i]
      BY <2>1, AppendProperties
    <2> HIDE DEF ks2
    <2>3. ASSUME NEW i \in 1 .. n + 1 PROVE Sizes[i] <= slabs'[ks2[i]].obj_size
      <3>1. CASE i = n + 1
        BY <1>5, <2>2, <3>1
      <3>2. CASE i \in 1 .. n
        <4>1. kmalloc_slabs[i] \in DOMAIN slabs
          BY <1>1, <3>2, ElementOfSeq
        <4> QED
          BY <1>1, <1>5, <2>2, <3>2, <4>1
      <3> QED
        BY <1>3, <3>1, <3>2
    <2> QED
      BY <1>3, <2>2, <2>3 DEF KmallocOK
  <1> QED
    BY <1>2, <1>5, <1>6 DEF SlabInv

\* A client creates a slab; kmalloc's stay what they are.
LEMMA ClientCreateStep ==
  ASSUME SlabInv, NEW size \in 1 .. PageSize \div 2, Create(size)
  PROVE  SlabInv'
  <1>1. slab_create(size) /\ kmalloc_slabs' = kmalloc_slabs
    BY DEF Create
  <1>2. size \in 1 .. PageSize
    BY SizesLemma
  <1> DEFINE obj == slab_alloc(Now, Global).obj
  <1>3. /\ MemInv(slabs', link', owner', free', DOMAIN held')
        /\ HeldFits(slabs', owner', held')
        /\ Descriptors(slabs', held')
        /\ DOMAIN slabs' = DOMAIN slabs \cup {obj}
        /\ \A t \in DOMAIN slabs : slabs'[t].obj_size = slabs[t].obj_size
    BY <1>1, <1>2, CreateStep
  <1> HIDE DEF obj
  <1>4. KmallocOK(slabs', kmalloc_slabs')
    <2>1. /\ kmalloc_slabs \in Seq(DOMAIN slabs) /\ Len(kmalloc_slabs) <= Len(Sizes)
          /\ \A i \in 1 .. Len(kmalloc_slabs) :
               Sizes[i] <= slabs[kmalloc_slabs[i]].obj_size
      BY DEF SlabInv, KmallocOK
    <2>2. \A i \in 1 .. Len(kmalloc_slabs) : kmalloc_slabs[i] \in DOMAIN slabs
      BY <2>1, ElementOfSeq
    <2>3. kmalloc_slabs \in Seq(DOMAIN slabs')
      BY <1>3, <2>1, SeqMonotonic
    <2> QED
      BY <1>1, <1>3, <2>1, <2>2, <2>3 DEF KmallocOK
  <1> QED
    BY <1>3, <1>4 DEF SlabInv

\* kmalloc allocates from a slab whose objects are large enough.
LEMMA KmallocStep ==
  ASSUME SlabInv, NEW size \in 1 .. PageSize \div 2, kmalloc(size)
  PROVE  SlabInv'
  <1>1. PICK i \in 1 .. Len(Sizes) : /\ Suffices(i, size)
                                    /\ Allocate(kmalloc_slabs[i], size)
    BY DEF kmalloc
  <1>2. Initialised /\ size <= Sizes[i]
    BY <1>1 DEF kmalloc, Call, Suffices
  <1>3. /\ kmalloc_slabs \in Seq(DOMAIN slabs) /\ i \in 1 .. Len(kmalloc_slabs)
        /\ Sizes[i] <= slabs[kmalloc_slabs[i]].obj_size
    BY <1>2 DEF SlabInv, KmallocOK, Initialised
  <1>4. kmalloc_slabs[i] \in DOMAIN slabs
    BY <1>3, ElementOfSeq
  <1>5. size \in Nat /\ Sizes[i] \in Int
    BY SizesLemma, SlabAssumption, ElementOfSeq
  <1>6. slabs[kmalloc_slabs[i]].obj_size \in Int
    <2>1. slabs \in [DOMAIN slabs -> SlabType]
      BY DEF SlabInv, MemInv, Typed
    <2>2. slabs[kmalloc_slabs[i]].obj_size \in ObjSizes
      BY <1>4, <2>1 DEF SlabType
    <2> QED
      BY <2>2, ObjSizesLemma
  <1>7. size <= slabs[kmalloc_slabs[i]].obj_size
    BY <1>2, <1>3, <1>5, <1>6
  <1> QED
    BY <1>1, <1>4, <1>5, <1>7, AllocateStep

\* A client of a slab of its own asks for what its objects have.
LEMMA AllocateFromStep ==
  ASSUME SlabInv, NEW s \in DOMAIN slabs, AllocateFrom(s)
  PROVE  SlabInv'
  <1>1. Allocate(s, slabs[s].obj_size)
    BY DEF AllocateFrom
  <1>2. slabs[s].obj_size \in Nat
    <2>1. slabs \in [DOMAIN slabs -> SlabType]
      BY DEF SlabInv, MemInv, Typed
    <2>2. slabs[s].obj_size \in ObjSizes
      BY <2>1 DEF SlabType
    <2> QED
      BY <2>2, ObjSizesLemma
  <1>3. slabs[s].obj_size <= slabs[s].obj_size
    BY <1>2
  <1> QED
    BY <1>1, <1>2, <1>3, AllocateStep

\* kfree gives an object, never a descriptor, to the slab of its page.
LEMMA KfreeStep ==
  ASSUME SlabInv, NEW obj \in DOMAIN held, kfree(obj)
  PROVE  SlabInv'
  <1> DEFINE s  == owner[PageOf(obj)]
             hd == [o \in DOMAIN held \ {obj} |-> held[o]]
  <1>1. /\ obj \notin DOMAIN slabs
        /\ link' = [link EXCEPT ![obj] = slabs[s].free_list]
        /\ slabs' = [slabs EXCEPT ![s].free_list = obj]
        /\ held' = hd
        /\ kmalloc_slabs' = kmalloc_slabs /\ owner' = owner /\ free' = free
    BY DEF kfree, Relinked
  <1>2. /\ MemInv(slabs, link, owner, free, DOMAIN held)
        /\ HeldFits(slabs, owner, held)
        /\ Descriptors(slabs, held) /\ KmallocOK(slabs, kmalloc_slabs)
    BY DEF SlabInv
  <1>3. /\ MemInv(slabs', link', owner, free, DOMAIN held \ {obj})
        /\ Extends(slabs, owner, slabs', owner)
    <2>1. s = owner[PageOf(obj)]
      OBVIOUS
    <2> HIDE DEF s
    <2> QED
      BY <1>1, <1>2, <2>1, GivenLemma
  <1>4. /\ DOMAIN slabs' = DOMAIN slabs
        /\ \A t \in DOMAIN slabs : slabs'[t].obj_size = slabs[t].obj_size
    BY <1>3 DEF Extends
  <1>5. /\ DOMAIN held' = DOMAIN held \ {obj}
        /\ \A o \in DOMAIN held' : held'[o] = held[o]
        /\ held' \in [DOMAIN held' -> Nat]
    BY <1>1, <1>2 DEF HeldFits
  <1>6. HeldFits(slabs', owner', held')
    BY <1>1, <1>2, <1>4, <1>5 DEF HeldFits
  <1>7. Descriptors(slabs', held')
    BY <1>1, <1>2, <1>4, <1>5 DEF Descriptors
  <1>8. KmallocOK(slabs', kmalloc_slabs')
    <2>1. \A i \in 1 .. Len(kmalloc_slabs) : kmalloc_slabs[i] \in DOMAIN slabs
      BY <1>2, ElementOfSeq DEF KmallocOK
    <2> QED
      BY <1>1, <1>2, <1>4, <2>1 DEF KmallocOK
  <1>9. MemInv(slabs', link', owner', free', DOMAIN held')
    BY <1>1, <1>3, <1>5
  <1> QED
    BY <1>6, <1>7, <1>8, <1>9 DEF SlabInv

\* The invariant is inductive.
LEMMA SlabNext == SlabInv /\ [Next]_vars => SlabInv'
  <1> SUFFICES ASSUME SlabInv, [Next]_vars PROVE SlabInv'
    OBVIOUS
  <1>1. CASE kmalloc_init
    BY <1>1, KmallocInitStep
  <1>2. ASSUME NEW size \in 1 .. PageSize \div 2, Create(size) PROVE SlabInv'
    BY <1>2, ClientCreateStep
  <1>3. ASSUME NEW size \in 1 .. PageSize \div 2, kmalloc(size) PROVE SlabInv'
    BY <1>3, KmallocStep
  <1>4. ASSUME NEW s \in DOMAIN slabs, AllocateFrom(s) PROVE SlabInv'
    BY <1>4, AllocateFromStep
  <1>5. ASSUME NEW obj \in DOMAIN held, kfree(obj) PROVE SlabInv'
    BY <1>5, KfreeStep
  <1>6. CASE UNCHANGED vars
    BY <1>6 DEF vars, SlabInv
  <1> QED
    BY <1>1, <1>2, <1>3, <1>4, <1>5, <1>6 DEF Next

\* It holds of every behaviour.
THEOREM Invariance == Spec => []SlabInv
  BY SlabInit, SlabNext, PTL DEF Spec

----------------------------------------------------------------------------
(* What follows from it *)

LEMMA TypeLemma == SlabInv => TypeOK
  <1> SUFFICES ASSUME SlabInv PROVE TypeOK
    OBVIOUS
  <1>1. /\ slabs \in [DOMAIN slabs -> SlabType] /\ free \subseteq Frames
        /\ owner \in [Frames \ free -> DOMAIN slabs]
        /\ link \in [DOMAIN link -> Objects \cup {Null, Data}]
        /\ DOMAIN link = MadeOf(slabs, owner) /\ DOMAIN held \subseteq DOMAIN link
    BY DEF SlabInv, MemInv, Typed
  <1>2. \A s \in DOMAIN slabs : /\ slabs[s].obj_size \in MinSize .. PageSize
                                /\ slabs[s].free_list \in Objects \cup {Null}
    BY <1>1, ObjSizesLemma DEF SlabType
  <1>3. DOMAIN link \subseteq Objects
    BY <1>1 DEF MadeOf
  <1> QED
    BY <1>1, <1>2, <1>3 DEF TypeOK

\* Lists, links and owners are what they are declared to be.
THEOREM TypeCorrect == Spec => []TypeOK
  BY Invariance, TypeLemma, PTL

\* Where an object of a page is.
LEMMA PlacedLemma ==
  ASSUME SlabInv, NEW o \in DOMAIN link
  PROVE  LET p == PageOf(o)
             z == slabs[owner[p]].obj_size
         IN  /\ p \in Frames /\ p \in DOMAIN owner /\ owner[p] \in DOMAIN slabs
             /\ z \in ObjSizes
             /\ \E k \in Nat : /\ o = p * PageSize + k * z /\ k * z + z <= PageSize
                              /\ o % PageSize = k * z
  <1> DEFINE p == PageOf(o)
             z == slabs[owner[p]].obj_size
  <1>1. /\ slabs \in [DOMAIN slabs -> SlabType]
        /\ owner \in [Frames \ free -> DOMAIN slabs]
        /\ o \in Objects /\ p \in DOMAIN owner /\ Placed(o, p, z)
    BY DEF SlabInv, MemInv, Typed, MadeOf
  <1>2. p \in Frames /\ owner[p] \in DOMAIN slabs /\ z \in ObjSizes
    BY <1>1 DEF SlabType
  <1> HIDE DEF p, z
  <1>3. PICK k \in Nat : o = p * PageSize + k * z /\ k * z + z <= PageSize
    BY <1>1 DEF Placed
  <1>4. z \in Nat \ {0} /\ PageSize \in Nat \ {0} /\ p \in Nat
    BY <1>2, ObjSizesLemma, SlabAssumption
  <1> DEFINE r == k * z
  <1>5. r \in Nat /\ r + z <= PageSize /\ o = p * PageSize + r
    BY <1>3, <1>4
  <1> HIDE DEF r
  <1>6. r \in 0 .. PageSize - 1
    BY <1>4, <1>5
  <1>7. o % PageSize = r
    BY <1>4, <1>5, <1>6, AddressLemma
  <1> QED
    BY <1>1, <1>2, <1>3, <1>7 DEF p, z, r

\* Of two multiples of z the larger is at least z further.
LEMMA MultiplesLemma ==
  \A k, l, z \in Nat : k < l => k * z + z <= l * z
  <1> SUFFICES ASSUME NEW k \in Nat, NEW l \in Nat, NEW z \in Nat, k < l
               PROVE  k * z + z <= l * z
    OBVIOUS
  <1>1. PICK d \in Nat : l = k + 1 + d
    <2>1. l - k - 1 \in Nat /\ l = k + 1 + (l - k - 1)
      OBVIOUS
    <2> QED
      BY <2>1
  <1>2. (k + 1 + d) * z = k * z + z + d * z
    OBVIOUS
  <1>3. d * z \in Nat /\ k * z \in Nat
    OBVIOUS
  <1> QED
    BY <1>1, <1>2, <1>3

LEMMA ApartLemma == SlabInv => HeldApart
  <1> SUFFICES ASSUME SlabInv, NEW o \in DOMAIN held
               PROVE  /\ (o % PageSize) + held[o] <= PageSize
                      /\ \A other \in DOMAIN held \ {o} :
                           o + held[o] <= other \/ other + held[other] <= o
    BY DEF HeldApart
  <1> DEFINE Z(x) == slabs[owner[PageOf(x)]].obj_size
  <1>1. ASSUME NEW x \in DOMAIN held
        PROVE  /\ PageOf(x) \in Nat /\ Z(x) \in Nat
               /\ held[x] \in Nat /\ held[x] <= Z(x)
               /\ \E k \in Nat : /\ x = PageOf(x) * PageSize + k * Z(x)
                                /\ k * Z(x) + Z(x) <= PageSize
                                /\ x % PageSize = k * Z(x)
    <2>1. x \in DOMAIN link
      BY DEF SlabInv, MemInv
    <2>2. /\ PageOf(x) \in Frames /\ Z(x) \in ObjSizes
          /\ \E k \in Nat : /\ x = PageOf(x) * PageSize + k * Z(x)
                           /\ k * Z(x) + Z(x) <= PageSize
                           /\ x % PageSize = k * Z(x)
      BY <2>1, PlacedLemma
    <2>3. held[x] \in Nat /\ held[x] <= Z(x)
      BY DEF SlabInv, HeldFits
    <2> HIDE DEF Z
    <2> QED
      BY <2>2, <2>3, ObjSizesLemma, SlabAssumption
  <1>2. PageSize \in Nat
    BY SlabAssumption
  <1>3. \A x, y \in DOMAIN held : PageOf(x) = PageOf(y) => Z(x) = Z(y)
    OBVIOUS
  <1> HIDE DEF Z
  \* o before x, in its page or in an earlier one
  <1>4. ASSUME NEW x \in DOMAIN held, NEW y \in DOMAIN held, x < y
        PROVE  x + held[x] <= y
    <2>1. PICK k \in Nat : /\ x = PageOf(x) * PageSize + k * Z(x)
                           /\ k * Z(x) + Z(x) <= PageSize
      BY <1>1
    <2>2. PICK l \in Nat : /\ y = PageOf(y) * PageSize + l * Z(y)
                           /\ l * Z(y) + Z(y) <= PageSize
      BY <1>1
    <2> DEFINE p == PageOf(x)
               q == PageOf(y)
               a == k * Z(x)
               b == l * Z(y)
               pb == p * PageSize
               qb == q * PageSize
    <2>3. /\ p \in Nat /\ q \in Nat /\ a \in Nat /\ b \in Nat
          /\ pb \in Nat /\ qb \in Nat /\ x = pb + a /\ y = qb + b
          /\ a + Z(x) <= PageSize /\ b + Z(y) <= PageSize
          /\ Z(x) \in Nat /\ Z(y) \in Nat
          /\ held[x] \in Nat /\ held[x] <= Z(x)
      BY <1>1, <1>2, <2>1, <2>2
    <2>4. CASE p < q
      <3>1. pb + PageSize <= qb
        BY <1>2, <2>3, <2>4, MultiplesLemma
      <3> HIDE DEF p, q, a, b, pb, qb
      <3> QED
        BY <1>2, <2>3, <3>1
    <2>5. CASE p = q
      <3>1. pb = qb /\ Z(x) = Z(y)
        BY <1>3, <2>5
      <3>2. ~ (l <= k)
        <4> SUFFICES ASSUME l <= k PROVE FALSE
          OBVIOUS
        <4>1. b <= a
          <5>1. CASE l = k
            BY <2>3, <3>1, <5>1
          <5>2. CASE l < k
            <6>1. l * Z(x) + Z(x) <= k * Z(x)
              BY <2>3, <5>2, MultiplesLemma
            <6> QED
              BY <2>3, <3>1, <6>1
          <5> QED
            BY <5>1, <5>2
        <4> HIDE DEF a, b, pb, qb
        <4> QED
          BY <1>4, <2>3, <3>1, <4>1
      <3>3. k < l
        BY <3>2
      <3>4. k * Z(x) + Z(x) <= l * Z(x)
        BY <2>3, <3>3, MultiplesLemma
      <3>5. a + Z(x) <= b
        BY <3>1, <3>4
      <3> HIDE DEF a, b, pb, qb
      <3> QED
        BY <2>3, <3>1, <3>5
    <2>6. CASE q < p
      <3>1. qb + PageSize <= pb
        BY <1>2, <2>3, <2>6, MultiplesLemma
      <3> HIDE DEF p, q, a, b, pb, qb
      <3> QED
        BY <1>2, <1>4, <2>3, <3>1
    <2> QED
      BY <2>3, <2>4, <2>5, <2>6
  <1>5. (o % PageSize) + held[o] <= PageSize
    <2>1. PICK k \in Nat : k * Z(o) + Z(o) <= PageSize /\ o % PageSize = k * Z(o)
      BY <1>1
    <2> DEFINE a == k * Z(o)
    <2>2. a \in Nat /\ a + Z(o) <= PageSize /\ o % PageSize = a
      BY <1>1, <2>1
    <2> HIDE DEF a
    <2> QED
      BY <1>1, <1>2, <2>2
  <1>6. \A x \in DOMAIN held : x \in Nat
    BY ObjectsLemma DEF SlabInv, MemInv, MadeOf
  <1>7. ASSUME NEW other \in DOMAIN held \ {o}
        PROVE  o + held[o] <= other \/ other + held[other] <= o
    <2>1. o < other \/ other < o
      BY <1>6
    <2> QED
      BY <1>4, <2>1
  <1> QED
    BY <1>5, <1>7

\* No two allocations overlap, and none is smaller than what was asked for.
THEOREM Apart == Spec => []HeldApart
  BY Invariance, ApartLemma, PTL

\* A list is not longer than there are objects.
LEMMA LengthLemma ==
  ASSUME NEW S, IsFiniteSet(S), NEW q \in Seq(Objects),
         \A i \in 1 .. Len(q) : q[i] \in S,
         \A i, j \in 1 .. Len(q) : q[i] = q[j] => i = j
  PROVE  Cardinality(S) \in Nat /\ Len(q) <= Cardinality(S)
  <1>1. Len(q) \in Nat /\ q \in [1 .. Len(q) -> Objects]
    BY LenProperties
  <1>2. q \in [1 .. Len(q) -> S]
    BY <1>1
  <1>3. q \in Injection(1 .. Len(q), S)
    <2>1. IsInjective(q)
      BY <1>2 DEF IsInjective
    <2> QED
      BY <1>2, <2>1 DEF Injection
  <1>4. Cardinality(S) \in Nat
    BY FS_CardinalityType
  <1>5. IsFiniteSet(1 .. Len(q)) /\ Cardinality(1 .. Len(q)) = Len(q)
    <2> DEFINE n == Len(q)
    <2>1. n \in Int /\ 1 \in Int /\ n \in Nat
      BY <1>1
    <2> HIDE DEF n
    <2>2. IsFiniteSet(1 .. n) /\ Cardinality(1 .. n) = IF 1 > n THEN 0 ELSE n - 1 + 1
      BY <2>1, FS_Interval
    <2> QED
      BY <2>1, <2>2 DEF n
  <1> QED
    BY <1>1, <1>3, <1>4, <1>5, FS_Injection

\* The walk of ListedIn visits the list and stays at null from its end on.
LEMMA WalkLemma ==
  ASSUME NEW s, NEW F, NEW q \in Seq(Objects),
         IsList(q, slabs[s].free_list, link, F), F \subseteq DOMAIN link,
         Null \notin DOMAIN link, F \subseteq Objects, IsFiniteSet(DOMAIN link)
  PROVE  ListedIn(s) = F
  <1> DEFINE n == Cardinality(DOMAIN link)
             m == Len(q)
             h == slabs[s].free_list
             Step(v) == [k \in 0 .. n |-> IF k = 0 THEN h ELSE Successor(v[k - 1])]
             walk == CHOOSE v : v = Step(v)
             w == [k \in 0 .. n |-> IF k < m THEN q[k + 1] ELSE Null]
  <1>1. ListedIn(s) = {walk[k] : k \in DOMAIN walk} \ {Null}
    BY DEF ListedIn
  <1>2. /\ \A i \in 1 .. m : q[i] \in F
        /\ \A o \in F : \E i \in 1 .. m : q[i] = o
        /\ \A i, j \in 1 .. m : q[i] = q[j] => i = j
        /\ h = IF q = <<>> THEN Null ELSE q[1]
        /\ \A i \in 1 .. m - 1 : link[q[i]] = q[i + 1]
        /\ q # <<>> => link[q[m]] = Null
    BY DEF IsList
  <1>3. n \in Nat /\ m \in Nat /\ m <= n /\ (q = <<>> <=> m = 0)
    <2>1. m \in Nat /\ (q = <<>> <=> m = 0)
      BY LenProperties, EmptySeq
    <2>2. \A i \in 1 .. m : q[i] \in DOMAIN link
      BY <1>2
    <2> HIDE DEF m
    <2> QED
      BY <1>2, <2>1, <2>2, LengthLemma DEF m
  <1> HIDE DEF n, m, h
  <1>4. \A k \in 0 .. n : w[k] = IF k = 0 THEN h ELSE Successor(w[k - 1])
    <2> SUFFICES ASSUME NEW k \in 0 .. n
                 PROVE  w[k] = IF k = 0 THEN h ELSE Successor(w[k - 1])
      OBVIOUS
    <2>1. CASE k = 0
      <3>1. w[k] = IF 0 < m THEN q[1] ELSE Null
        BY <1>3, <2>1
      <3> QED
        BY <1>2, <1>3, <2>1, <3>1
    <2>2. CASE k # 0
      <3>1. k - 1 \in 0 .. n /\ k - 1 + 1 = k
        BY <1>3, <2>2
      <3>2. w[k - 1] = IF k <= m THEN q[k] ELSE Null
        BY <1>3, <2>2, <3>1
      <3>3. w[k] = IF k < m THEN q[k + 1] ELSE Null
        OBVIOUS
      <3> HIDE DEF w
      <3>4. CASE k < m
        <4>1. k \in 1 .. m /\ k \in 1 .. m - 1
          BY <1>3, <2>2, <3>4
        <4>2. q[k] \in DOMAIN link /\ link[q[k]] = q[k + 1]
          BY <1>2, <4>1
        <4>3. Successor(w[k - 1]) = q[k + 1]
          BY <3>2, <4>1, <4>2 DEF Successor
        <4> QED
          BY <2>2, <3>3, <3>4, <4>3
      <3>5. CASE k = m
        <4>1. k \in 1 .. m /\ q # <<>>
          BY <1>3, <2>2, <3>5
        <4>2. q[k] \in DOMAIN link /\ link[q[k]] = Null
          BY <1>2, <3>5, <4>1
        <4>3. Successor(w[k - 1]) = Null
          BY <3>2, <4>1, <4>2 DEF Successor
        <4> QED
          BY <1>3, <2>2, <3>3, <3>5, <4>3
      <3>6. CASE k > m
        <4>1. w[k - 1] = Null /\ w[k] = Null
          BY <1>3, <3>2, <3>3, <3>6
        <4> QED
          BY <2>2, <4>1 DEF Successor
      <3> QED
        BY <1>3, <3>4, <3>5, <3>6
    <2> QED
      BY <2>1, <2>2
  <1>5. w = Step(w)
    <2>1. w = [k \in 0 .. n |-> w[k]]
      OBVIOUS
    <2> HIDE DEF w
    <2> QED
      BY <1>4, <2>1
  <1>6. walk = Step(walk)
    <2>1. \E v : v = Step(v)
      BY <1>5
    <2> HIDE DEF Step, w
    <2> QED
      BY <2>1
  <1> HIDE DEF walk, w
  <1>7. DOMAIN walk = 0 .. n /\ DOMAIN w = 0 .. n
    BY <1>5, <1>6
  <1>8. \A k \in 0 .. n : walk[k] = IF k = 0 THEN h ELSE Successor(walk[k - 1])
    BY <1>6
  <1>9. \A k \in 0 .. n : walk[k] = w[k]
    <2> DEFINE S == {k \in 0 .. n : walk[k] # w[k]}
    <2> SUFFICES ASSUME S # {} PROVE FALSE
      OBVIOUS
    <2>1. S \in SUBSET Nat
      BY <1>3
    <2>2. PICK k \in S : \A y \in S : k <= y
      BY <2>1, LeastLemma
    <2>3. k \in 0 .. n /\ walk[k] # w[k]
      OBVIOUS
    <2>4. k # 0
      BY <1>4, <1>8, <2>3
    <2>5. k - 1 \in 0 .. n /\ k - 1 \notin S
      BY <1>3, <2>2, <2>3, <2>4
    <2>6. walk[k - 1] = w[k - 1]
      BY <2>5
    <2> QED
      BY <1>4, <1>8, <2>3, <2>4, <2>6
  <1>10. \A k \in 0 .. n : w[k] = IF k < m THEN q[k + 1] ELSE Null
    BY DEF w
  <1>11. ASSUME NEW o \in F PROVE o \in ListedIn(s)
    <2>1. PICK i \in 1 .. m : q[i] = o
      BY <1>2
    <2>2. i - 1 \in 0 .. n /\ i - 1 < m /\ i - 1 + 1 = i
      BY <1>3
    <2>3. walk[i - 1] = o /\ o # Null
      BY <1>9, <1>10, <2>1, <2>2, ObjectsLemma
    <2> QED
      BY <1>1, <1>7, <2>2, <2>3
  <1>12. ASSUME NEW o \in ListedIn(s) PROVE o \in F
    <2>1. PICK k \in 0 .. n : o = walk[k] /\ o # Null
      BY <1>1, <1>7
    <2>2. k < m /\ o = q[k + 1]
      BY <1>9, <1>10, <2>1
    <2>3. k + 1 \in 1 .. m
      BY <1>3, <2>2
    <2> QED
      BY <1>2, <2>2, <2>3
  <1> QED
    BY <1>11, <1>12

\* The objects of a page are those at multiples of their size.
LEMMA MadeLemma ==
  ASSUME NEW z \in ObjSizes, NEW o \in Objects, PageOf(o) \in Frames
  PROVE  Placed(o, PageOf(o), z) <=> (o % PageSize) % z = 0
  <1> DEFINE p == PageOf(o)
             r == o % PageSize
  <1>1. /\ z \in Nat \ {0} /\ PageSize \in Nat \ {0} /\ o \in Nat /\ p \in Nat
    BY ObjSizesLemma, ObjectsLemma, SlabAssumption
  <1>2. r \in 0 .. PageSize - 1 /\ o = p * PageSize + r
    <2>1. o = PageSize * (o \div PageSize) + (o % PageSize)
      BY <1>1
    <2> QED
      BY <1>1, <2>1 DEF PageOf
  <1> HIDE DEF p, r
  <1>3. ASSUME Placed(o, p, z) PROVE r % z = 0
    <2>1. PICK k \in Nat : o = p * PageSize + k * z
      BY <1>3 DEF Placed
    <2>2. r = k * z
      <3> DEFINE a == p * PageSize
                 b == k * z
      <3>1. a \in Nat /\ b \in Nat /\ o = a + b /\ o = a + r /\ r \in Nat
        BY <1>1, <1>2, <2>1
      <3> HIDE DEF a, b
      <3>2. r = b
        BY <3>1
      <3> QED
        BY <3>2 DEF b
    <2>3. 0 \in 0 .. z - 1
      BY <1>1
    <2>4. (k * z + 0) % z = 0
      BY <1>1, <2>3, AddressLemma
    <2>5. k * z + 0 = k * z
      BY <1>1
    <2> QED
      BY <2>2, <2>4, <2>5
  <1>4. ASSUME r % z = 0 PROVE Placed(o, p, z)
    <2> DEFINE k == r \div z
    <2>1. k \in Nat /\ r = z * k
      BY <1>1, <1>2, <1>4
    <2>2. PICK c \in Nat : c * z = PageSize
      BY DEF ObjSizes
    <2> HIDE DEF k
    <2>3. r = k * z
      BY <1>1, <2>1
    <2>4. k < c
      <3> SUFFICES ASSUME c <= k PROVE FALSE
        BY <2>1
      <3>1. c = k \/ c * z + z <= k * z
        BY <1>1, <2>1, MultiplesLemma
      <3> DEFINE b == k * z
      <3>2. c = k \/ PageSize + z <= b
        BY <2>2, <3>1
      <3>3. r = b /\ (c = k => b = PageSize)
        BY <2>2, <2>3
      <3> HIDE DEF b
      <3> QED
        BY <1>1, <1>2, <3>2, <3>3
    <2>5. k * z + z <= PageSize
      BY <1>1, <2>1, <2>2, <2>4, MultiplesLemma
    <2> QED
      BY <1>2, <2>1, <2>3, <2>5 DEF Placed
  <1> QED
    BY <1>3, <1>4 DEF p, r

LEMMA ListsLemma == SlabInv => ListsComplete
  <1> SUFFICES ASSUME SlabInv, NEW s \in DOMAIN slabs
               PROVE  ListedIn(s) =
                        {o \in Objects : /\ PageOf(o) \in DOMAIN owner
                                         /\ owner[PageOf(o)] = s
                                         /\ (o % PageSize) % slabs[s].obj_size = 0}
                        \ DOMAIN held
    BY DEF ListsComplete
  <1> DEFINE F == FreeOf(link, owner, DOMAIN held, s)
             z == slabs[s].obj_size
             made == {o \in Objects : /\ PageOf(o) \in DOMAIN owner
                                      /\ owner[PageOf(o)] = s
                                      /\ (o % PageSize) % z = 0}
  <1>1. /\ slabs \in [DOMAIN slabs -> SlabType]
        /\ owner \in [Frames \ free -> DOMAIN slabs]
        /\ DOMAIN link = MadeOf(slabs, owner) /\ IsFiniteSet(DOMAIN link)
        /\ HasList(slabs, link, owner, DOMAIN held, s)
    BY DEF SlabInv, MemInv, Typed
  <1>2. PICK q \in Seq(Objects) : IsList(q, slabs[s].free_list, link, F)
    BY <1>1 DEF HasList
  <1>3. /\ F \subseteq DOMAIN link /\ DOMAIN link \subseteq Objects
        /\ Null \notin DOMAIN link
    BY <1>1, ObjectsLemma DEF FreeOf, MadeOf
  <1>4. z \in ObjSizes
    BY <1>1 DEF SlabType
  <1>5. \A o \in Objects : PageOf(o) \in DOMAIN owner /\ owner[PageOf(o)] = s
           => (o \in DOMAIN link <=> (o % PageSize) % z = 0)
    <2> SUFFICES ASSUME NEW o \in Objects, PageOf(o) \in DOMAIN owner,
                        owner[PageOf(o)] = s
                 PROVE  o \in DOMAIN link <=> (o % PageSize) % z = 0
      OBVIOUS
    <2>1. PageOf(o) \in Frames
      BY <1>1
    <2>2. o \in DOMAIN link <=> Placed(o, PageOf(o), z)
      BY <1>1 DEF MadeOf
    <2> HIDE DEF z
    <2> QED
      BY <1>4, <2>1, <2>2, MadeLemma
  <1>6. \A o \in DOMAIN link : o \in Objects /\ PageOf(o) \in DOMAIN owner
    BY <1>1 DEF MadeOf
  <1>7. F = made \ DOMAIN held
    <2> HIDE DEF z
    <2> QED
      BY <1>5, <1>6 DEF FreeOf
  <1>8. ListedIn(s) = F
    <2> HIDE DEF F
    <2> QED
      BY <1>1, <1>2, <1>3, WalkLemma
  <1> QED
    BY <1>7, <1>8

\* Of no slab an object is lost, listed twice or listed while it is held.
THEOREM Lists == Spec => []ListsComplete
  BY Invariance, ListsLemma, PTL

=============================================================================
