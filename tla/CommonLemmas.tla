---------------------------- MODULE CommonLemmas ----------------------------
(***************************************************************************)
(* Facts about numbers and sequences that the proofs about several modules *)
(* use; none of them is about the program.                                 *)
(***************************************************************************)
EXTENDS Integers, SequenceTheorems, WellFoundedInduction, NaturalsInduction,
        TLAPS

\* A set of indices that is not empty has a least one.
LEMMA LeastLemma ==
  ASSUME NEW S \in SUBSET Nat, S # {}
  PROVE  \E x \in S : \A y \in S : x <= y
  <1> DEFINE R == {ss \in Nat \X Nat : ss[1] < ss[2]}
  <1>1. IsWellFoundedOn(R, Nat)
    BY NatLessThanWellFounded DEF OpToRel
  <1> HIDE DEF R
  <1>2. PICK x \in S : \A y \in S : <<y, x>> \notin R
    BY <1>1, WFMin
  <1>3. \A a, b \in Nat : a < b => <<a, b>> \in R
    BY DEF R
  <1>4. \A y \in S : ~ (y < x)
    BY <1>2, <1>3
  <1>5. \A y \in S : x <= y
    BY <1>4
  <1> QED
    BY <1>5

\* A function on 1 .. n is a sequence.
LEMMA FunctionIsSeq ==
  ASSUME NEW S, NEW n \in Nat, NEW f \in [1 .. n -> S]
  PROVE  f \in Seq(S) /\ Len(f) = n
  <1>1. f \in Seq(S)
    BY SeqDef
  <1>2. DOMAIN f = 1 .. n /\ DOMAIN f = 1 .. Len(f) /\ Len(f) \in Nat
    BY <1>1, LenProperties
  <1> QED
    BY <1>1, <1>2

\* t consists of the elements of a, m and c.
Splices(T, t, a, m, c) ==
  /\ t \in Seq(T)
  /\ Len(t) = Len(a) + Len(m) + Len(c)
  /\ \A k \in 1 .. Len(a) : t[k] = a[k]
  /\ \A k \in 1 .. Len(m) : t[Len(a) + k] = m[k]
  /\ \A k \in 1 .. Len(c) : t[Len(a) + Len(m) + k] = c[k]

\* Three sequences in a row.
LEMMA SpliceLemma ==
  ASSUME NEW T, NEW a \in Seq(T), NEW m \in Seq(T), NEW c \in Seq(T)
  PROVE  Splices(T, a \o m \o c, a, m, c)
  <1> DEFINE am == a \o m
             t == am \o c
  <1>1. Len(a) \in Nat /\ Len(m) \in Nat /\ Len(c) \in Nat
    BY LenProperties
  <1>2. /\ am \in Seq(T)
        /\ Len(am) = Len(a) + Len(m)
        /\ \A i \in 1 .. Len(a) + Len(m) :
             am[i] = IF i <= Len(a) THEN a[i] ELSE m[i - Len(a)]
    BY ConcatProperties
  <1> HIDE DEF am
  <1>3. /\ t \in Seq(T)
        /\ Len(t) = Len(am) + Len(c)
        /\ \A i \in 1 .. Len(am) + Len(c) :
             t[i] = IF i <= Len(am) THEN am[i] ELSE c[i - Len(am)]
    <2>1. am \in Seq(T)
      BY <1>2
    <2> QED
      BY <2>1, ConcatProperties
  <1> HIDE DEF t
  <1>4. /\ \A k \in 1 .. Len(a) : t[k] = a[k]
        /\ \A k \in 1 .. Len(m) : t[Len(a) + k] = m[k]
    BY <1>1, <1>2, <1>3
  <1>5. ASSUME NEW k \in 1 .. Len(c)
        PROVE  t[Len(a) + Len(m) + k] = c[k]
    <2> DEFINE j == Len(am) + k
    <2>1. /\ j \in 1 .. Len(am) + Len(c)
          /\ ~ (j <= Len(am))
          /\ j - Len(am) = k
      BY <1>1, <1>2
    <2> HIDE DEF j
    <2>2. t[j] = c[k]
      BY <1>3, <2>1
    <2> QED
      BY <1>2, <2>2 DEF j
  <1>6. Splices(T, t, a, m, c)
    BY <1>1, <1>2, <1>3, <1>4, <1>5 DEF Splices
  <1> QED
    BY <1>6 DEF t, am

\* The elements in front of the i-th.
LEMMA FrontLemma ==
  ASSUME NEW T, NEW s \in Seq(T), NEW i \in 1 .. Len(s) + 1
  PROVE  LET t == SubSeq(s, 1, i - 1)
         IN  /\ t \in Seq(T)
             /\ Len(t) = i - 1
             /\ \A k \in 1 .. i - 1 : t[k] = s[k]
  <1>1. Len(s) \in Nat /\ i - 1 \in Int
    BY LenProperties
  <1>2. \A k \in 1 .. i - 1 : s[k] \in T
    BY <1>1, ElementOfSeq
  <1> DEFINE n == i - 1
  <1> HIDE DEF n
  <1>3. /\ SubSeq(s, 1, n) \in Seq(T)
        /\ Len(SubSeq(s, 1, n)) = IF 1 <= n THEN n - 1 + 1 ELSE 0
        /\ \A k \in 1 .. n - 1 + 1 : SubSeq(s, 1, n)[k] = s[1 + k - 1]
    BY <1>1, <1>2, SubSeqProperties DEF n
  <1>4. n \in Nat /\ n - 1 + 1 = n
    BY <1>1 DEF n
  <1>5. \A k \in 1 .. n : SubSeq(s, 1, n)[k] = s[k]
    BY <1>3, <1>4
  <1> QED
    BY <1>3, <1>4, <1>5 DEF n

\* The elements from the i-th on.
LEMMA RestLemma ==
  ASSUME NEW T, NEW s \in Seq(T), NEW i \in 1 .. Len(s) + 1
  PROVE  LET t == SubSeq(s, i, Len(s))
         IN  /\ t \in Seq(T)
             /\ Len(t) = Len(s) + 1 - i
             /\ \A k \in 1 .. Len(s) + 1 - i : t[k] = s[i + k - 1]
  <1>1. Len(s) \in Nat /\ i \in Int
    BY LenProperties
  <1>2. \A k \in i .. Len(s) : s[k] \in T
    BY <1>1, ElementOfSeq
  <1>3. /\ SubSeq(s, i, Len(s)) \in Seq(T)
        /\ Len(SubSeq(s, i, Len(s))) =
             IF i <= Len(s) THEN Len(s) - i + 1 ELSE 0
        /\ \A k \in 1 .. Len(s) - i + 1 :
             SubSeq(s, i, Len(s))[k] = s[i + k - 1]
    BY <1>1, <1>2, SubSeqProperties
  <1> QED
    BY <1>1, <1>3

----------------------------------------------------------------------------
(* The elements of a sequence *)

Elements(q) == {q[i] : i \in 1 .. Len(q)}
Distinct(q) == \A i, j \in 1 .. Len(q) : q[i] = q[j] => i = j

\* One element more in front.
LEMMA ConsLemma ==
  ASSUME NEW T, NEW x \in T, NEW q \in Seq(T)
  PROVE  /\ <<x>> \o q \in Seq(T) /\ <<x>> \o q # <<>>
         /\ Len(<<x>> \o q) = Len(q) + 1
         /\ (<<x>> \o q)[1] = x
         /\ \A i \in 1 .. Len(q) : (<<x>> \o q)[i + 1] = q[i]
         /\ Elements(<<x>> \o q) = {x} \cup Elements(q)
         /\ Distinct(q) /\ x \notin Elements(q) => Distinct(<<x>> \o q)
  <1> DEFINE s == <<x>> \o q
  <1>1. Len(q) \in Nat /\ <<x>> \in Seq(T) /\ Len(<<x>>) = 1 /\ <<x>>[1] = x
    BY LenProperties
  <1>2. /\ s \in Seq(T) /\ Len(s) = Len(q) + 1
        /\ s[1] = x /\ \A i \in 1 .. Len(q) : s[i + 1] = q[i]
    <2>1. /\ s \in Seq(T) /\ Len(s) = 1 + Len(q)
          /\ \A i \in 1 .. 1 + Len(q) : s[i] = IF i <= 1 THEN <<x>>[i] ELSE q[i - 1]
      BY <1>1, ConcatProperties
    <2> HIDE DEF s
    <2>2. \A i \in 1 .. Len(q) : i + 1 \in 1 .. 1 + Len(q) /\ ~ (i + 1 <= 1) /\ i + 1 - 1 = i
      BY <1>1
    <2> QED
      BY <1>1, <2>1, <2>2
  <1> HIDE DEF s
  <1>3. \A i \in 1 .. Len(s) : i = 1 \/ (i - 1 \in 1 .. Len(q) /\ s[i] = q[i - 1])
    BY <1>1, <1>2
  <1>4. Elements(s) = {x} \cup Elements(q)
    <2>1. \A i \in 1 .. Len(q) : i + 1 \in 1 .. Len(s)
      BY <1>1, <1>2
    <2>2. 1 \in 1 .. Len(s)
      BY <1>1, <1>2
    <2>3. Elements(s) \subseteq {x} \cup Elements(q)
      BY <1>2, <1>3, SMTT(30) DEF Elements
    <2>4. Elements(q) \subseteq Elements(s)
      <3> SUFFICES ASSUME NEW i \in 1 .. Len(q) PROVE q[i] \in Elements(s)
        BY DEF Elements
      <3>1. s[i + 1] = q[i] /\ i + 1 \in 1 .. Len(s)
        BY <1>2, <2>1
      <3> QED
        BY <3>1 DEF Elements
    <2>5. x \in Elements(s)
      BY <1>2, <2>2 DEF Elements
    <2> QED
      BY <2>3, <2>4, <2>5
  <1>5. ASSUME Distinct(q), x \notin Elements(q) PROVE Distinct(s)
    <2> SUFFICES ASSUME NEW i \in 1 .. Len(s), NEW j \in 1 .. Len(s), s[i] = s[j]
                 PROVE  i = j
      BY DEF Distinct
    <2>1. \A k \in 1 .. Len(q) : q[k] # x
      BY <1>5 DEF Elements
    <2>2. CASE i = 1 \/ j = 1
      BY <1>2, <1>3, <2>1, <2>2
    <2>3. CASE i # 1 /\ j # 1
      <3>1. i - 1 \in 1 .. Len(q) /\ j - 1 \in 1 .. Len(q) /\ q[i - 1] = q[j - 1]
        BY <1>3, <2>3
      <3>2. i - 1 = j - 1
        BY <1>5, <3>1 DEF Distinct
      <3> QED
        BY <3>2
    <2> QED
      BY <2>2, <2>3
  <1>6. s # <<>>
    BY <1>1, <1>2
  <1> QED
    BY <1>2, <1>4, <1>5, <1>6 DEF s

\* Two elements more in front.
LEMMA PairLemma ==
  ASSUME NEW T, NEW x \in T, NEW y \in T, NEW q \in Seq(T)
  PROVE  <<x, y>> \o q = <<x>> \o (<<y>> \o q)
  <1>2. <<x>> \in Seq(T) /\ <<y>> \in Seq(T) /\ Len(<<x>>) = 1 /\ Len(<<y>>) = 1
        /\ <<x>>[1] = x /\ <<y>>[1] = y
    OBVIOUS
  <1>1. <<x>> \o <<y>> = <<x, y>>
    <2> DEFINE s == <<x>> \o <<y>>
               t == <<x, y>>
    <2>1. /\ s \in Seq(T) /\ Len(s) = 2
          /\ \A i \in 1 .. 2 : s[i] = IF i <= 1 THEN <<x>>[i] ELSE <<y>>[i - 1]
      BY <1>2, ConcatProperties
    <2>2. t \in Seq(T) /\ Len(t) = 2 /\ t[1] = x /\ t[2] = y
      OBVIOUS
    <2> HIDE DEF s, t
    <2>3. s[1] = x /\ s[2] = y
      BY <1>2, <2>1
    <2>4. \A i \in 1 .. Len(s) : i = 1 \/ i = 2
      BY <2>1
    <2>5. \A i \in 1 .. Len(s) : s[i] = t[i]
      BY <2>2, <2>3, <2>4
    <2>6. s = t
      BY <2>1, <2>2, <2>5, SeqEqual
    <2> QED
      BY <2>6 DEF s, t
  <1>3. (<<x>> \o <<y>>) \o q = <<x>> \o (<<y>> \o q)
    BY <1>2, ConcatAssociative
  <1> QED
    BY <1>1, <1>3

\* The first element and the others.
LEMMA TailLemma ==
  ASSUME NEW T, NEW q \in Seq(T), q # <<>>
  PROVE  /\ Head(q) \in T /\ Tail(q) \in Seq(T)
         /\ q = <<Head(q)>> \o Tail(q)
         /\ Elements(q) = {Head(q)} \cup Elements(Tail(q))
         /\ Distinct(q) => Distinct(Tail(q)) /\ Head(q) \notin Elements(Tail(q))
  <1> DEFINE t == Tail(q)
  <1>1. /\ Len(q) \in Nat /\ Len(q) > 0 /\ Head(q) = q[1] /\ Head(q) \in T
        /\ t \in Seq(T) /\ Len(t) = Len(q) - 1
        /\ \A i \in 1 .. Len(t) : t[i] = q[i + 1]
    BY HeadTailProperties, LenProperties, EmptySeq
  <1>2. q = <<Head(q)>> \o t
    BY <1>1
  <1>3. ASSUME Distinct(q) PROVE Distinct(t) /\ Head(q) \notin Elements(t)
    <2>1. \A i \in 1 .. Len(t) : i + 1 \in 1 .. Len(q) /\ i + 1 # 1
      BY <1>1
    <2>2. 1 \in 1 .. Len(q)
      BY <1>1
    <2> HIDE DEF t
    <2>3. \A i, j \in 1 .. Len(t) : i + 1 = j + 1 => i = j
      OBVIOUS
    <2>4. ASSUME NEW i \in 1 .. Len(t) PROVE t[i] # q[1]
      <3>1. t[i] = q[i + 1] /\ i + 1 \in 1 .. Len(q) /\ i + 1 # 1
        BY <1>1, <2>1
      <3> QED
        BY <1>3, <2>2, <3>1 DEF Distinct
    <2>5. ASSUME NEW i \in 1 .. Len(t), NEW j \in 1 .. Len(t), t[i] = t[j]
          PROVE  i = j
      <3>1. /\ t[i] = q[i + 1] /\ i + 1 \in 1 .. Len(q)
            /\ t[j] = q[j + 1] /\ j + 1 \in 1 .. Len(q)
        BY <1>1, <2>1
      <3>2. i + 1 = j + 1
        BY <1>3, <2>5, <3>1 DEF Distinct
      <3> QED
        BY <2>3, <3>2
    <2>6. Head(q) = q[1]
      BY <1>1
    <2> QED
      BY <2>4, <2>5, <2>6 DEF Distinct, Elements
  <1> HIDE DEF t
  <1>4. Elements(q) = {Head(q)} \cup Elements(t)
    <2> PICK h : h = Head(q)
      OBVIOUS
    <2>1. h \in T /\ t \in Seq(T) /\ q = <<h>> \o t
      BY <1>1, <1>2
    <2>2. Elements(<<h>> \o t) = {h} \cup Elements(t)
      BY <2>1, ConsLemma, Zenon
    <2> QED
      BY <2>1, <2>2
  <1> QED
    BY <1>1, <1>2, <1>3, <1>4 DEF t

\* Short sequences in a row.
LEMMA TupleConcat ==
  /\ \A a, b : <<a>> \o <<b>> = <<a, b>>
  /\ \A a, b, c : <<a>> \o <<b, c>> = <<a, b, c>>
  /\ \A a, b, c : <<a, b>> \o <<c>> = <<a, b, c>>
  /\ \A a, b, c, d : <<a, b>> \o <<c, d>> = <<a, b, c, d>>
  /\ \A a, b, c, d, e : <<a, b, c>> \o <<d, e>> = <<a, b, c, d, e>>
  /\ \A a, b, c, d, e, f : <<a, b, c>> \o <<d, e, f>> = <<a, b, c, d, e, f>>
  <1>1. ASSUME NEW a, NEW b
       PROVE  <<a>> \o <<b>> = <<a, b>>
    <2> PICK T : T = {a, b}
      OBVIOUS
    <2>0. a \in T /\ b \in T
      OBVIOUS
    <2> PICK s : s = <<a>>
      OBVIOUS
    <2>1. s = <<a>> /\ s \in Seq(T) /\ Len(s) = 1 /\ s[1] = a
      BY <2>0
    <2> PICK t : t = <<b>>
      OBVIOUS
    <2>2. t = <<b>> /\ t \in Seq(T) /\ Len(t) = 1 /\ t[1] = b
      BY <2>0
    <2> PICK u : u = <<a, b>>
      OBVIOUS
    <2>3. u = <<a, b>> /\ u \in Seq(T) /\ Len(u) = 2 /\ u[1] = a /\ u[2] = b
      BY <2>0
    <2>4. PICK v : v = s \o t
      OBVIOUS
    <2>5. v \in Seq(T) /\ Len(v) = 2 /\ v[1] = a /\ v[2] = b
      BY <2>1, <2>2, <2>4, ConcatProperties
    <2>6. \A i \in 1 .. 2 : i = 1 \/ i = 2
      OBVIOUS
    <2>7. \A i \in 1 .. Len(v) : v[i] = u[i]
      BY <2>3, <2>5, <2>6
    <2>8. v = u
      BY <2>3, <2>5, <2>7, SeqEqual
    <2> QED
      BY <2>1, <2>2, <2>3, <2>4, <2>8
  <1>2. ASSUME NEW a, NEW b, NEW c
       PROVE  <<a>> \o <<b, c>> = <<a, b, c>>
    <2> PICK T : T = {a, b, c}
      OBVIOUS
    <2>0. a \in T /\ b \in T /\ c \in T
      OBVIOUS
    <2> PICK s : s = <<a>>
      OBVIOUS
    <2>1. s = <<a>> /\ s \in Seq(T) /\ Len(s) = 1 /\ s[1] = a
      BY <2>0
    <2> PICK t : t = <<b, c>>
      OBVIOUS
    <2>2. t = <<b, c>> /\ t \in Seq(T) /\ Len(t) = 2 /\ t[1] = b /\ t[2] = c
      BY <2>0
    <2> PICK u : u = <<a, b, c>>
      OBVIOUS
    <2>3. u = <<a, b, c>> /\ u \in Seq(T) /\ Len(u) = 3 /\ u[1] = a /\ u[2] = b /\ u[3] = c
      BY <2>0
    <2>4. PICK v : v = s \o t
      OBVIOUS
    <2>5. v \in Seq(T) /\ Len(v) = 3 /\ v[1] = a /\ v[2] = b /\ v[3] = c
      BY <2>1, <2>2, <2>4, ConcatProperties
    <2>6. \A i \in 1 .. 3 : i = 1 \/ i = 2 \/ i = 3
      OBVIOUS
    <2>7. \A i \in 1 .. Len(v) : v[i] = u[i]
      BY <2>3, <2>5, <2>6
    <2>8. v = u
      BY <2>3, <2>5, <2>7, SeqEqual
    <2> QED
      BY <2>1, <2>2, <2>3, <2>4, <2>8
  <1>3. ASSUME NEW a, NEW b, NEW c
       PROVE  <<a, b>> \o <<c>> = <<a, b, c>>
    <2> PICK T : T = {a, b, c}
      OBVIOUS
    <2>0. a \in T /\ b \in T /\ c \in T
      OBVIOUS
    <2> PICK s : s = <<a, b>>
      OBVIOUS
    <2>1. s = <<a, b>> /\ s \in Seq(T) /\ Len(s) = 2 /\ s[1] = a /\ s[2] = b
      BY <2>0
    <2> PICK t : t = <<c>>
      OBVIOUS
    <2>2. t = <<c>> /\ t \in Seq(T) /\ Len(t) = 1 /\ t[1] = c
      BY <2>0
    <2> PICK u : u = <<a, b, c>>
      OBVIOUS
    <2>3. u = <<a, b, c>> /\ u \in Seq(T) /\ Len(u) = 3 /\ u[1] = a /\ u[2] = b /\ u[3] = c
      BY <2>0
    <2>4. PICK v : v = s \o t
      OBVIOUS
    <2>5. v \in Seq(T) /\ Len(v) = 3 /\ v[1] = a /\ v[2] = b /\ v[3] = c
      BY <2>1, <2>2, <2>4, ConcatProperties
    <2>6. \A i \in 1 .. 3 : i = 1 \/ i = 2 \/ i = 3
      OBVIOUS
    <2>7. \A i \in 1 .. Len(v) : v[i] = u[i]
      BY <2>3, <2>5, <2>6
    <2>8. v = u
      BY <2>3, <2>5, <2>7, SeqEqual
    <2> QED
      BY <2>1, <2>2, <2>3, <2>4, <2>8
  <1>4. ASSUME NEW a, NEW b, NEW c, NEW d
       PROVE  <<a, b>> \o <<c, d>> = <<a, b, c, d>>
    <2> PICK T : T = {a, b, c, d}
      OBVIOUS
    <2>0. a \in T /\ b \in T /\ c \in T /\ d \in T
      OBVIOUS
    <2> PICK s : s = <<a, b>>
      OBVIOUS
    <2>1. s = <<a, b>> /\ s \in Seq(T) /\ Len(s) = 2 /\ s[1] = a /\ s[2] = b
      BY <2>0
    <2> PICK t : t = <<c, d>>
      OBVIOUS
    <2>2. t = <<c, d>> /\ t \in Seq(T) /\ Len(t) = 2 /\ t[1] = c /\ t[2] = d
      BY <2>0
    <2> PICK u : u = <<a, b, c, d>>
      OBVIOUS
    <2>3. u = <<a, b, c, d>> /\ u \in Seq(T) /\ Len(u) = 4 /\ u[1] = a /\ u[2] = b /\ u[3] = c /\ u[4] = d
      BY <2>0
    <2>4. PICK v : v = s \o t
      OBVIOUS
    <2>5. v \in Seq(T) /\ Len(v) = 4 /\ v[1] = a /\ v[2] = b /\ v[3] = c /\ v[4] = d
      BY <2>1, <2>2, <2>4, ConcatProperties
    <2>6. \A i \in 1 .. 4 : i = 1 \/ i = 2 \/ i = 3 \/ i = 4
      OBVIOUS
    <2>7. \A i \in 1 .. Len(v) : v[i] = u[i]
      BY <2>3, <2>5, <2>6
    <2>8. v = u
      BY <2>3, <2>5, <2>7, SeqEqual
    <2> QED
      BY <2>1, <2>2, <2>3, <2>4, <2>8
  <1>5. ASSUME NEW a, NEW b, NEW c, NEW d, NEW e
       PROVE  <<a, b, c>> \o <<d, e>> = <<a, b, c, d, e>>
    <2> PICK T : T = {a, b, c, d, e}
      OBVIOUS
    <2>0. a \in T /\ b \in T /\ c \in T /\ d \in T /\ e \in T
      OBVIOUS
    <2> PICK s : s = <<a, b, c>>
      OBVIOUS
    <2>1. s = <<a, b, c>> /\ s \in Seq(T) /\ Len(s) = 3 /\ s[1] = a /\ s[2] = b /\ s[3] = c
      BY <2>0
    <2> PICK t : t = <<d, e>>
      OBVIOUS
    <2>2. t = <<d, e>> /\ t \in Seq(T) /\ Len(t) = 2 /\ t[1] = d /\ t[2] = e
      BY <2>0
    <2> PICK u : u = <<a, b, c, d, e>>
      OBVIOUS
    <2>3. u = <<a, b, c, d, e>> /\ u \in Seq(T) /\ Len(u) = 5 /\ u[1] = a /\ u[2] = b /\ u[3] = c /\ u[4] = d /\ u[5] = e
      BY <2>0
    <2>4. PICK v : v = s \o t
      OBVIOUS
    <2>5. v \in Seq(T) /\ Len(v) = 5 /\ v[1] = a /\ v[2] = b /\ v[3] = c /\ v[4] = d /\ v[5] = e
      BY <2>1, <2>2, <2>4, ConcatProperties
    <2>6. \A i \in 1 .. 5 : i = 1 \/ i = 2 \/ i = 3 \/ i = 4 \/ i = 5
      OBVIOUS
    <2>7. \A i \in 1 .. Len(v) : v[i] = u[i]
      BY <2>3, <2>5, <2>6
    <2>8. v = u
      BY <2>3, <2>5, <2>7, SeqEqual
    <2> QED
      BY <2>1, <2>2, <2>3, <2>4, <2>8
  <1>6. ASSUME NEW a, NEW b, NEW c, NEW d, NEW e, NEW f
       PROVE  <<a, b, c>> \o <<d, e, f>> = <<a, b, c, d, e, f>>
    <2> PICK T : T = {a, b, c, d, e, f}
      OBVIOUS
    <2>0. a \in T /\ b \in T /\ c \in T /\ d \in T /\ e \in T /\ f \in T
      OBVIOUS
    <2> PICK s : s = <<a, b, c>>
      OBVIOUS
    <2>1. s = <<a, b, c>> /\ s \in Seq(T) /\ Len(s) = 3 /\ s[1] = a /\ s[2] = b /\ s[3] = c
      BY <2>0
    <2> PICK t : t = <<d, e, f>>
      OBVIOUS
    <2>2. t = <<d, e, f>> /\ t \in Seq(T) /\ Len(t) = 3 /\ t[1] = d /\ t[2] = e /\ t[3] = f
      BY <2>0
    <2> PICK u : u = <<a, b, c, d, e, f>>
      OBVIOUS
    <2>3. u = <<a, b, c, d, e, f>> /\ u \in Seq(T) /\ Len(u) = 6 /\ u[1] = a /\ u[2] = b /\ u[3] = c /\ u[4] = d /\ u[5] = e /\ u[6] = f
      BY <2>0
    <2>4. PICK v : v = s \o t
      OBVIOUS
    <2>5. v \in Seq(T) /\ Len(v) = 6 /\ v[1] = a /\ v[2] = b /\ v[3] = c /\ v[4] = d /\ v[5] = e /\ v[6] = f
      BY <2>1, <2>2, <2>4, ConcatProperties
    <2>6. \A i \in 1 .. 6 : i = 1 \/ i = 2 \/ i = 3 \/ i = 4 \/ i = 5 \/ i = 6
      OBVIOUS
    <2>7. \A i \in 1 .. Len(v) : v[i] = u[i]
      BY <2>3, <2>5, <2>6
    <2>8. v = u
      BY <2>3, <2>5, <2>7, SeqEqual
    <2> QED
      BY <2>1, <2>2, <2>3, <2>4, <2>8
  <1> QED
    BY <1>1, <1>2, <1>3, <1>4, <1>5, <1>6

\* The elements of two sequences one behind the other.
LEMMA ConcatLemma ==
  ASSUME NEW T, NEW a \in Seq(T), NEW b \in Seq(T)
  PROVE  /\ a \o b \in Seq(T)
         /\ Len(a \o b) = Len(a) + Len(b)
         /\ Elements(a \o b) = Elements(a) \cup Elements(b)
         /\ Distinct(a) /\ Distinct(b) /\ Elements(a) \cap Elements(b) = {}
              => Distinct(a \o b)
  <1> DEFINE t == a \o b
  <1>1. Len(a) \in Nat /\ Len(b) \in Nat
    BY LenProperties
  <1>2. /\ t \in Seq(T)
        /\ Len(t) = Len(a) + Len(b)
        /\ \A i \in 1 .. Len(a) + Len(b) :
             t[i] = IF i <= Len(a) THEN a[i] ELSE b[i - Len(a)]
    BY ConcatProperties
  <1> HIDE DEF t
  <1>3. \A i \in 1 .. Len(t) : \/ i \in 1 .. Len(a) /\ t[i] = a[i]
                               \/ /\ i > Len(a) /\ i - Len(a) \in 1 .. Len(b)
                                  /\ t[i] = b[i - Len(a)]
    BY <1>1, <1>2
  <1>4. \A i \in 1 .. Len(a) : i \in 1 .. Len(t) /\ t[i] = a[i]
    BY <1>1, <1>2
  <1>5. \A i \in 1 .. Len(b) : Len(a) + i \in 1 .. Len(t) /\ t[Len(a) + i] = b[i]
    BY <1>1, <1>2
  <1>6. Elements(t) = Elements(a) \cup Elements(b)
    <2>1. Elements(t) \subseteq Elements(a) \cup Elements(b)
      BY <1>3 DEF Elements
    <2>2. Elements(a) \subseteq Elements(t)
      BY <1>4 DEF Elements
    <2>3. Elements(b) \subseteq Elements(t)
      BY <1>5 DEF Elements
    <2> QED
      BY <2>1, <2>2, <2>3
  <1>7. ASSUME Distinct(a), Distinct(b), Elements(a) \cap Elements(b) = {}
        PROVE  Distinct(t)
    <2> SUFFICES ASSUME NEW i \in 1 .. Len(t), NEW j \in 1 .. Len(t), t[i] = t[j]
                 PROVE  i = j
      BY DEF Distinct
    <2>1. CASE i \in 1 .. Len(a) /\ t[i] = a[i] /\ j \in 1 .. Len(a) /\ t[j] = a[j]
      BY <1>7, <2>1 DEF Distinct
    <2>2. CASE /\ i > Len(a) /\ i - Len(a) \in 1 .. Len(b) /\ t[i] = b[i - Len(a)]
               /\ j > Len(a) /\ j - Len(a) \in 1 .. Len(b) /\ t[j] = b[j - Len(a)]
      <3>1. i - Len(a) = j - Len(a)
        BY <1>7, <2>2 DEF Distinct
      <3> QED
        BY <1>1, <3>1
    <2>3. CASE /\ i \in 1 .. Len(a) /\ t[i] = a[i]
               /\ j - Len(a) \in 1 .. Len(b) /\ t[j] = b[j - Len(a)]
      BY <1>7, <2>3 DEF Elements
    <2>4. CASE /\ j \in 1 .. Len(a) /\ t[j] = a[j]
               /\ i - Len(a) \in 1 .. Len(b) /\ t[i] = b[i - Len(a)]
      BY <1>7, <2>4 DEF Elements
    <2> QED
      BY <1>3, <2>1, <2>2, <2>3, <2>4
  <1> QED
    BY <1>2, <1>6, <1>7 DEF t

----------------------------------------------------------------------------
(* Division and multiples *)

\* A quotient and its remainder.
LEMMA DivLemma ==
  ASSUME NEW a \in Int, NEW m \in Nat \ {0}
  PROVE  /\ a \div m \in Int /\ a % m \in 0 .. m - 1
         /\ a = m * (a \div m) + (a % m)
  OBVIOUS

\* The same in the naturals.
LEMMA DivNat ==
  ASSUME NEW a \in Nat, NEW m \in Nat \ {0}
  PROVE  /\ a \div m \in Nat /\ a % m \in 0 .. m - 1
         /\ a = (a \div m) * m + (a % m)
         /\ a < m => a \div m = 0 /\ a % m = a
  OBVIOUS

\* They are the only ones.
LEMMA DivUnique ==
  ASSUME NEW a \in Int, NEW m \in Nat \ {0}, NEW q \in Int, NEW r \in 0 .. m - 1,
         a = m * q + r
  PROVE  a % m = r /\ a \div m = q
  OBVIOUS

\* Steps of m.
LEMMA Monotone ==
  ASSUME NEW i \in Int, NEW j \in Int, NEW m \in Nat, i < j
  PROVE  i * m + m <= j * m
  OBVIOUS

\* a is m times some number.
Multiple(a, m) == \E q \in Int : a = m * q

\* What % says of it.
LEMMA MultipleMod ==
  ASSUME NEW a \in Int, NEW m \in Nat \ {0}
  PROVE  a % m = 0 <=> Multiple(a, m)
  <1>1. ASSUME a % m = 0 PROVE Multiple(a, m)
    <2>1. a \div m \in Int /\ a = m * (a \div m)
      BY <1>1, DivLemma
    <2> QED
      BY <2>1 DEF Multiple
  <1>2. ASSUME Multiple(a, m) PROVE a % m = 0
    <2>1. PICK q \in Int : a = m * q
      BY <1>2 DEF Multiple
    <2>2. 0 \in 0 .. m - 1 /\ a = m * q + 0
      BY <2>1
    <2> QED
      BY <2>2, DivUnique
  <1> QED
    BY <1>1, <1>2

\* Sums and differences of multiples.
LEMMA MultipleSum ==
  ASSUME NEW a \in Int, NEW b \in Int, NEW m \in Int, Multiple(a, m), Multiple(b, m)
  PROVE  Multiple(a + b, m) /\ Multiple(a - b, m) /\ Multiple(-a, m)
  <1>1. PICK p \in Int : a = m * p
    BY DEF Multiple
  <1>2. PICK q \in Int : b = m * q
    BY DEF Multiple
  <1>3. p + q \in Int /\ a + b = m * (p + q)
    BY <1>1, <1>2
  <1>4. p - q \in Int /\ a - b = m * (p - q)
    BY <1>1, <1>2
  <1>5. -p \in Int /\ -a = m * (-p)
    BY <1>1
  <1> QED
    BY <1>3, <1>4, <1>5 DEF Multiple

\* A multiple, k times.
LEMMA MultipleTimes ==
  ASSUME NEW a \in Int, NEW k \in Int, NEW m \in Int, Multiple(a, m)
  PROVE  Multiple(a * k, m)
  <1>1. PICK p \in Int : a = m * p
    BY DEF Multiple
  <1>2. p * k \in Int /\ a * k = m * (p * k)
    BY <1>1
  <1> QED
    BY <1>2 DEF Multiple

\* k times m is one.
LEMMA MultipleOf ==
  ASSUME NEW k \in Int, NEW m \in Int
  PROVE  Multiple(k * m, m)
  <1>1. k * m = m * k
    OBVIOUS
  <1> QED
    BY <1>1 DEF Multiple

\* A multiple of a multiple.
LEMMA MultipleTrans ==
  ASSUME NEW a \in Int, NEW b \in Int, NEW m \in Int, Multiple(a, b), Multiple(b, m)
  PROVE  Multiple(a, m)
  <1>1. PICK p \in Int : a = b * p
    BY DEF Multiple
  <1>2. Multiple(b * p, m)
    BY MultipleTimes
  <1> QED
    BY <1>1, <1>2

\* The distance to the next multiple.
LEMMA UpwardsInduction ==
  ASSUME NEW a \in Int, NEW m \in Nat \ {0}
  PROVE  (-a) % m \in 0 .. m - 1 /\ Multiple(a + ((-a) % m), m)
  <1>1. PICK b \in Int : b = -a
    OBVIOUS
  <1> DEFINE q == b \div m
             r == b % m
  <1>2. q \in Int /\ r \in 0 .. m - 1 /\ b = m * q + r
    BY DivLemma
  <1> HIDE DEF q, r
  <1>3. -q \in Int /\ a + r = m * (-q)
    BY <1>1, <1>2
  <1>4. Multiple(a + r, m)
    BY <1>3 DEF Multiple
  <1> QED
    BY <1>1, <1>2, <1>4 DEF r

=============================================================================
