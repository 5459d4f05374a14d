----------------------------- MODULE VmemProofs -----------------------------
(***************************************************************************)
(* Proofs about Vmem for every layout, number of nodes and bound.          *)
(*                                                                         *)
(* The argument is in two layers.  Whatever vfree cuts off, the list ends  *)
(* with the pageinfo area and its nodes and the free ones add up: ListInv. *)
(* Until vfree cuts off a start or a middle, the VMAs are disjoint, in the *)
(* order of their addresses, and cover what the clients own: AreaInv.  The *)
(* order is stated of any two VMAs, not only of neighbours, which makes it *)
(* inductive without an induction over the list.                           *)
(***************************************************************************)
EXTENDS Vmem, CommonLemmas

VmaType == [base : Nat, size : Int, flags : FlagSets \cup {InfoFlags},
            stale : BOOLEAN]

\* Two nodes stand for the same area.
SameArea(v, w) == v.base = w.base /\ v.size = w.size /\ v.flags = w.flags

\* They do, and v's prev pointer is not worse than w's.
NoStaler(v, w) == SameArea(v, w) /\ (v.stale => w.stale)

----------------------------------------------------------------------------
(* Lemmas about the operators on the list *)

\* Fresh changes nothing but the first prev pointer, for the better.
LEMMA FreshLemma ==
  ASSUME NEW s \in Seq(VmaType)
  PROVE  /\ Fresh(s) \in Seq(VmaType)
         /\ Len(Fresh(s)) = Len(s)
         /\ \A k \in 1 .. Len(s) : NoStaler(Fresh(s)[k], s[k])
  <1>1. \A k \in 1 .. Len(s) : s[k] \in VmaType
    BY ElementOfSeq
  <1>2. CASE s = <<>>
    BY <1>2 DEF Fresh
  <1>3. CASE s # <<>>
    <2> DEFINE e == [s[1] EXCEPT !.stale = FALSE]
    <2>1. Len(s) \in Nat \ {0}
      BY <1>3, EmptySeq
    <2>2. s[1] \in VmaType /\ 1 \in 1 .. Len(s)
      BY <1>1, <2>1
    <2>3. e \in VmaType /\ NoStaler(e, s[1])
      BY <2>2 DEF VmaType, NoStaler, SameArea
    <2>4. Fresh(s) = [s EXCEPT ![1] = e]
      BY <1>3 DEF Fresh
    <2> HIDE DEF e
    <2>5. /\ Fresh(s) \in Seq(VmaType)
          /\ Len(Fresh(s)) = Len(s)
          /\ \A j \in 1 .. Len(s) : Fresh(s)[j] = IF j = 1 THEN e ELSE s[j]
      BY <2>2, <2>3, <2>4, ExceptSeq
    <2> QED
      BY <2>3, <2>5 DEF NoStaler, SameArea
  <1> QED
    BY <1>2, <1>3

\* Stale changes nothing but the first prev pointer.
LEMMA StaleLemma ==
  ASSUME NEW s \in Seq(VmaType)
  PROVE  /\ Stale(s) \in Seq(VmaType)
         /\ Len(Stale(s)) = Len(s)
         /\ \A k \in 1 .. Len(s) : SameArea(Stale(s)[k], s[k])
  <1>1. \A k \in 1 .. Len(s) : s[k] \in VmaType
    BY ElementOfSeq
  <1>2. CASE s = <<>>
    BY <1>2 DEF Stale
  <1>3. CASE s # <<>>
    <2> DEFINE e == [s[1] EXCEPT !.stale = TRUE]
    <2>1. Len(s) \in Nat \ {0}
      BY <1>3, EmptySeq
    <2>2. s[1] \in VmaType /\ 1 \in 1 .. Len(s)
      BY <1>1, <2>1
    <2>3. e \in VmaType /\ SameArea(e, s[1])
      BY <2>2 DEF VmaType, SameArea
    <2>4. Stale(s) = [s EXCEPT ![1] = e]
      BY <1>3 DEF Stale
    <2> HIDE DEF e
    <2>5. /\ Stale(s) \in Seq(VmaType)
          /\ Len(Stale(s)) = Len(s)
          /\ \A j \in 1 .. Len(s) : Stale(s)[j] = IF j = 1 THEN e ELSE s[j]
      BY <2>2, <2>3, <2>4, ExceptSeq
    <2> QED
      BY <2>3, <2>5 DEF SameArea
  <1> QED
    BY <1>2, <1>3

----------------------------------------------------------------------------
(* The five ways in which the list changes *)

\* v is inserted in front of the i-th VMA.
Inserted(s, t, i, v) ==
  /\ t \in Seq(VmaType) /\ Len(t) = Len(s) + 1
  /\ \A k \in 1 .. i - 1 : t[k] = s[k]
  /\ t[i] = v
  /\ \A k \in i .. Len(s) : NoStaler(t[k + 1], s[k])

\* v takes the place of the i-th VMA.
Changed(s, t, i, v) ==
  /\ t \in Seq(VmaType) /\ Len(t) = Len(s)
  /\ t[i] = v
  /\ \A k \in 1 .. Len(s) : k # i => t[k] = s[k]

\* v takes the place of the i-th VMA and of its successor.
Merged(s, t, i, v) ==
  /\ t \in Seq(VmaType) /\ Len(t) = Len(s) - 1
  /\ \A k \in 1 .. i - 1 : t[k] = s[k]
  /\ t[i] = v
  /\ \A k \in i + 1 .. Len(s) - 1 : NoStaler(t[k], s[k + 1])

\* The i-th VMA is taken out.
Dropped(s, t, i) ==
  /\ t \in Seq(VmaType) /\ Len(t) = Len(s) - 1
  /\ \A k \in 1 .. i - 1 : t[k] = s[k]
  /\ \A k \in i .. Len(s) - 1 : NoStaler(t[k], s[k + 1])

\* v and w take the place of the i-th VMA.
Divided(s, t, i, v, w) ==
  /\ t \in Seq(VmaType) /\ Len(t) = Len(s) + 1
  /\ \A k \in 1 .. i - 1 : t[k] = s[k]
  /\ t[i] = v /\ t[i + 1] = w
  /\ \A k \in i + 1 .. Len(s) : SameArea(t[k + 1], s[k])

\* What create_vma makes of the list.
LEMMA InsertLemma ==
  ASSUME NEW s \in Seq(VmaType), NEW i \in 1 .. Len(s) + 1, NEW v \in VmaType
  PROVE  Inserted(s, SubSeq(s, 1, i - 1) \o <<v>>
                       \o Fresh(SubSeq(s, i, Len(s))), i, v)
  <1> DEFINE a == SubSeq(s, 1, i - 1)
             c == SubSeq(s, i, Len(s))
             f == Fresh(c)
             m == <<v>>
             t == a \o m \o f
  <1>1. Len(s) \in Nat /\ i \in Nat
    BY LenProperties
  <1>2. /\ a \in Seq(VmaType) /\ Len(a) = i - 1
        /\ \A k \in 1 .. i - 1 : a[k] = s[k]
    BY FrontLemma
  <1>3. /\ c \in Seq(VmaType) /\ Len(c) = Len(s) + 1 - i
        /\ \A k \in 1 .. Len(s) + 1 - i : c[k] = s[i + k - 1]
    BY RestLemma
  <1> HIDE DEF a, c
  <1>4. /\ f \in Seq(VmaType) /\ Len(f) = Len(c)
        /\ \A k \in 1 .. Len(c) : NoStaler(f[k], c[k])
    BY <1>3, FreshLemma
  <1>5. m \in Seq(VmaType) /\ Len(m) = 1 /\ m[1] = v
    OBVIOUS
  <1> HIDE DEF f, m
  <1>6. /\ t \in Seq(VmaType) /\ Len(t) = Len(a) + Len(m) + Len(f)
        /\ \A k \in 1 .. Len(a) : t[k] = a[k]
        /\ \A k \in 1 .. Len(m) : t[Len(a) + k] = m[k]
        /\ \A k \in 1 .. Len(f) : t[Len(a) + Len(m) + k] = f[k]
    <2>1. a \in Seq(VmaType) /\ m \in Seq(VmaType) /\ f \in Seq(VmaType)
      BY <1>2, <1>4, <1>5
    <2>2. Splices(VmaType, t, a, m, f)
      BY <2>1, SpliceLemma, Zenon
    <2> QED
      BY <2>2 DEF Splices
  <1> HIDE DEF t
  <1>7. ASSUME NEW k \in i .. Len(s) PROVE NoStaler(t[k + 1], s[k])
    <2> DEFINE j == k + 1 - i
    <2>1. /\ j \in 1 .. Len(c) /\ i + j - 1 = k
          /\ Len(a) + 1 + j = k + 1
      BY <1>1, <1>2, <1>3
    <2> HIDE DEF j
    <2>2. t[k + 1] = f[j] /\ c[j] = s[k]
      BY <1>3, <1>4, <1>5, <1>6, <2>1
    <2> QED
      BY <1>4, <2>1, <2>2
  <1>8. t[i] = v
    BY <1>1, <1>2, <1>5, <1>6
  <1>9. Inserted(s, t, i, v)
    BY <1>1, <1>2, <1>3, <1>4, <1>5, <1>6, <1>7, <1>8 DEF Inserted
  <1> QED
    BY <1>9 DEF t, m, f, a, c

\* What vmalloc makes of a list of one VMA.
LEMMA FirstLemma ==
  ASSUME NEW s \in Seq(VmaType), NEW v \in VmaType
  PROVE  Inserted(s, <<v>> \o Fresh(s), 1, v)
  <1> DEFINE f == Fresh(s)
             t == <<v>> \o f
  <1>1. /\ f \in Seq(VmaType) /\ Len(f) = Len(s)
        /\ \A k \in 1 .. Len(s) : NoStaler(f[k], s[k])
    BY FreshLemma
  <1>2. <<v>> \in Seq(VmaType) /\ Len(<<v>>) = 1 /\ <<v>>[1] = v
    OBVIOUS
  <1> HIDE DEF f
  <1>3. /\ t \in Seq(VmaType) /\ Len(t) = Len(<<v>>) + Len(f)
        /\ \A k \in 1 .. Len(<<v>>) + Len(f) :
             t[k] = IF k <= Len(<<v>>) THEN <<v>>[k] ELSE f[k - Len(<<v>>)]
    BY <1>1, <1>2, ConcatProperties
  <1> HIDE DEF t
  <1>4. Len(s) \in Nat
    BY LenProperties
  <1>5. ASSUME NEW k \in 1 .. Len(s) PROVE t[k + 1] = f[k]
    <2> DEFINE j == k + 1
    <2>1. /\ j \in 1 .. Len(<<v>>) + Len(f) /\ ~ (j <= Len(<<v>>))
          /\ j - Len(<<v>>) = k
      BY <1>1, <1>2, <1>4
    <2> HIDE DEF j
    <2>2. t[j] = f[k]
      BY <1>3, <2>1
    <2> QED
      BY <2>2 DEF j
  <1>6. t[1] = v
    BY <1>1, <1>2, <1>3, <1>4
  <1>7. Inserted(s, t, 1, v)
    BY <1>1, <1>2, <1>3, <1>4, <1>5, <1>6 DEF Inserted
  <1> QED
    BY <1>7 DEF t, f

\* What vmalloc makes of two VMAs that have grown together.
LEMMA MergeLemma ==
  ASSUME NEW s \in Seq(VmaType), NEW i \in 1 .. Len(s) - 1, NEW v \in VmaType
  PROVE  Merged(s, SubSeq(s, 1, i - 1) \o <<v>>
                     \o Fresh(SubSeq(s, i + 2, Len(s))), i, v)
  <1> DEFINE a == SubSeq(s, 1, i - 1)
             c == SubSeq(s, i + 2, Len(s))
             f == Fresh(c)
             m == <<v>>
             t == a \o m \o f
  <1>1. /\ Len(s) \in Nat /\ i \in Nat
        /\ i \in 1 .. Len(s) + 1 /\ i + 2 \in 1 .. Len(s) + 1
    BY LenProperties
  <1>2. /\ a \in Seq(VmaType) /\ Len(a) = i - 1
        /\ \A k \in 1 .. i - 1 : a[k] = s[k]
    BY <1>1, FrontLemma
  <1>3. /\ c \in Seq(VmaType) /\ Len(c) = Len(s) + 1 - (i + 2)
        /\ \A k \in 1 .. Len(s) + 1 - (i + 2) : c[k] = s[(i + 2) + k - 1]
    BY <1>1, RestLemma
  <1> HIDE DEF a, c
  <1>4. /\ f \in Seq(VmaType) /\ Len(f) = Len(c)
        /\ \A k \in 1 .. Len(c) : NoStaler(f[k], c[k])
    BY <1>3, FreshLemma
  <1>5. m \in Seq(VmaType) /\ Len(m) = 1 /\ m[1] = v
    OBVIOUS
  <1> HIDE DEF f, m
  <1>6. /\ t \in Seq(VmaType) /\ Len(t) = Len(a) + Len(m) + Len(f)
        /\ \A k \in 1 .. Len(a) : t[k] = a[k]
        /\ \A k \in 1 .. Len(m) : t[Len(a) + k] = m[k]
        /\ \A k \in 1 .. Len(f) : t[Len(a) + Len(m) + k] = f[k]
    <2>1. a \in Seq(VmaType) /\ m \in Seq(VmaType) /\ f \in Seq(VmaType)
      BY <1>2, <1>4, <1>5
    <2>2. Splices(VmaType, t, a, m, f)
      BY <2>1, SpliceLemma, Zenon
    <2> QED
      BY <2>2 DEF Splices
  <1> HIDE DEF t
  <1>7. ASSUME NEW k \in i + 1 .. Len(s) - 1 PROVE NoStaler(t[k], s[k + 1])
    <2> DEFINE j == k - i
    <2>1. /\ j \in 1 .. Len(c) /\ (i + 2) + j - 1 = k + 1
          /\ Len(a) + Len(m) + j = k
      BY <1>1, <1>2, <1>3, <1>5
    <2> HIDE DEF j
    <2>2. t[k] = f[j] /\ c[j] = s[k + 1]
      BY <1>3, <1>4, <1>5, <1>6, <2>1
    <2> QED
      BY <1>4, <2>1, <2>2
  <1>8. t[i] = v
    BY <1>1, <1>2, <1>5, <1>6
  <1>9. Len(t) = Len(s) - 1
    BY <1>1, <1>2, <1>3, <1>4, <1>5, <1>6
  <1>10. \A k \in 1 .. i - 1 : t[k] = s[k]
    BY <1>2, <1>6
  <1>11. Merged(s, t, i, v)
    BY <1>6, <1>7, <1>8, <1>9, <1>10 DEF Merged
  <1> QED
    BY <1>11 DEF t, m, f, a, c

\* What destroy_vma makes of the list.
LEMMA DropLemma ==
  ASSUME NEW s \in Seq(VmaType), NEW i \in 1 .. Len(s)
  PROVE  Dropped(s, SubSeq(s, 1, i - 1) \o Fresh(SubSeq(s, i + 1, Len(s))), i)
  <1> DEFINE a == SubSeq(s, 1, i - 1)
             c == SubSeq(s, i + 1, Len(s))
             f == Fresh(c)
             t == a \o f
  <1>1. /\ Len(s) \in Nat /\ i \in Nat
        /\ i \in 1 .. Len(s) + 1 /\ i + 1 \in 1 .. Len(s) + 1
    BY LenProperties
  <1>2. /\ a \in Seq(VmaType) /\ Len(a) = i - 1
        /\ \A k \in 1 .. i - 1 : a[k] = s[k]
    BY <1>1, FrontLemma
  <1>3. /\ c \in Seq(VmaType) /\ Len(c) = Len(s) + 1 - (i + 1)
        /\ \A k \in 1 .. Len(s) + 1 - (i + 1) : c[k] = s[(i + 1) + k - 1]
    BY <1>1, RestLemma
  <1> HIDE DEF a, c
  <1>4. /\ f \in Seq(VmaType) /\ Len(f) = Len(c)
        /\ \A k \in 1 .. Len(c) : NoStaler(f[k], c[k])
    BY <1>3, FreshLemma
  <1> HIDE DEF f
  <1>5. /\ t \in Seq(VmaType) /\ Len(t) = Len(a) + Len(f)
        /\ \A k \in 1 .. Len(a) + Len(f) :
             t[k] = IF k <= Len(a) THEN a[k] ELSE f[k - Len(a)]
    <2>1. a \in Seq(VmaType) /\ f \in Seq(VmaType)
      BY <1>2, <1>4
    <2> QED
      BY <2>1, ConcatProperties
  <1> HIDE DEF t
  <1>6. ASSUME NEW k \in i .. Len(s) - 1 PROVE NoStaler(t[k], s[k + 1])
    <2> DEFINE j == k - Len(a)
    <2>1. /\ j \in 1 .. Len(c) /\ (i + 1) + j - 1 = k + 1
          /\ k \in 1 .. Len(a) + Len(f) /\ ~ (k <= Len(a))
      BY <1>1, <1>2, <1>3, <1>4
    <2>2. t[k] = f[j]
      BY <1>5, <2>1
    <2> HIDE DEF j
    <2>3. c[j] = s[k + 1]
      BY <1>3, <2>1
    <2> QED
      BY <1>4, <2>1, <2>2, <2>3
  <1>7. Len(t) = Len(s) - 1
    BY <1>1, <1>2, <1>3, <1>4, <1>5
  <1>8. ASSUME NEW k \in 1 .. i - 1 PROVE t[k] = s[k]
    <2>1. k \in 1 .. Len(a) + Len(f) /\ k <= Len(a)
      BY <1>1, <1>2, <1>3, <1>4
    <2> QED
      BY <1>2, <1>5, <2>1
  <1>9. Dropped(s, t, i)
    BY <1>5, <1>6, <1>7, <1>8 DEF Dropped
  <1> QED
    BY <1>9 DEF t, f, a, c

\* What vfree makes of the list when it splits a VMA.
LEMMA DivideLemma ==
  ASSUME NEW s \in Seq(VmaType), NEW i \in 1 .. Len(s),
         NEW v \in VmaType, NEW w \in VmaType
  PROVE  Divided(s, SubSeq(s, 1, i - 1) \o <<v, w>>
                      \o Stale(SubSeq(s, i + 1, Len(s))), i, v, w)
  <1> DEFINE a == SubSeq(s, 1, i - 1)
             c == SubSeq(s, i + 1, Len(s))
             f == Stale(c)
             m == <<v, w>>
             t == a \o m \o f
  <1>1. /\ Len(s) \in Nat /\ i \in Nat
        /\ i \in 1 .. Len(s) + 1 /\ i + 1 \in 1 .. Len(s) + 1
    BY LenProperties
  <1>2. /\ a \in Seq(VmaType) /\ Len(a) = i - 1
        /\ \A k \in 1 .. i - 1 : a[k] = s[k]
    BY <1>1, FrontLemma
  <1>3. /\ c \in Seq(VmaType) /\ Len(c) = Len(s) + 1 - (i + 1)
        /\ \A k \in 1 .. Len(s) + 1 - (i + 1) : c[k] = s[(i + 1) + k - 1]
    BY <1>1, RestLemma
  <1> HIDE DEF a, c
  <1>4. /\ f \in Seq(VmaType) /\ Len(f) = Len(c)
        /\ \A k \in 1 .. Len(c) : SameArea(f[k], c[k])
    BY <1>3, StaleLemma
  <1>5. m \in Seq(VmaType) /\ Len(m) = 2 /\ m[1] = v /\ m[2] = w
    OBVIOUS
  <1> HIDE DEF f, m
  <1>6. /\ t \in Seq(VmaType) /\ Len(t) = Len(a) + Len(m) + Len(f)
        /\ \A k \in 1 .. Len(a) : t[k] = a[k]
        /\ \A k \in 1 .. Len(m) : t[Len(a) + k] = m[k]
        /\ \A k \in 1 .. Len(f) : t[Len(a) + Len(m) + k] = f[k]
    <2>1. a \in Seq(VmaType) /\ m \in Seq(VmaType) /\ f \in Seq(VmaType)
      BY <1>2, <1>4, <1>5
    <2>2. Splices(VmaType, t, a, m, f)
      BY <2>1, SpliceLemma, Zenon
    <2> QED
      BY <2>2 DEF Splices
  <1> HIDE DEF t
  <1>7. ASSUME NEW k \in i + 1 .. Len(s) PROVE SameArea(t[k + 1], s[k])
    <2> DEFINE j == k - i
    <2>1. /\ j \in 1 .. Len(c) /\ (i + 1) + j - 1 = k
          /\ Len(a) + Len(m) + j = k + 1
      BY <1>1, <1>2, <1>3, <1>5
    <2> HIDE DEF j
    <2>2. t[k + 1] = f[j] /\ c[j] = s[k]
      BY <1>3, <1>4, <1>5, <1>6, <2>1
    <2> QED
      BY <1>4, <2>1, <2>2
  <1>8. t[i] = v /\ t[i + 1] = w
    BY <1>1, <1>2, <1>5, <1>6
  <1>9. Divided(s, t, i, v, w)
    BY <1>1, <1>2, <1>3, <1>4, <1>5, <1>6, <1>7, <1>8 DEF Divided
  <1> QED
    BY <1>9 DEF t, m, f, a, c

----------------------------------------------------------------------------
(* What the changes preserve *)

\* The list ends with the pageinfo area, and no VMA starts past it.
EndsWithInfo(s) ==
  /\ s \in Seq(VmaType) /\ Len(s) > 0
  /\ SameArea(s[Len(s)], Vma(InfoBase, InfoSize, InfoFlags))
  /\ \A k \in 1 .. Len(s) : s[k].base <= InfoBase

\* The VMAs are disjoint, in order, and know their predecessor.
Ordered(s) ==
  /\ \A k \in 1 .. Len(s) : s[k].size > 0 /\ ~ s[k].stale
  /\ \A j, k \in 1 .. Len(s) : j < k => End(s[j]) <= s[k].base

\* Some VMA with the flags g covers page p.
CoveredWith(s, p, g) ==
  \E k \in 1 .. Len(s) : Covers(s[k], p) /\ s[k].flags = g

AllFlags == FlagSets \cup {InfoFlags}

\* The list says what the clients own, and with which flags.
Represents(s, o) ==
  \A p \in Pages, g \in AllFlags :
    CoveredWith(s, p, g) <=> p \in DOMAIN o /\ o[p] = g

\* The list covers n more pages from addr on, with the flags f.
Gains(s, t, addr, n, f) ==
  \A p \in Int, g \in AllFlags :
    CoveredWith(t, p, g) <=>
      CoveredWith(s, p, g) \/ (p \in Run(addr, n) /\ g = f)

\* It no longer covers the n pages from addr on.
Loses(s, t, addr, n) ==
  \A p \in Int, g \in AllFlags :
    CoveredWith(t, p, g) <=> CoveredWith(s, p, g) /\ p \notin Run(addr, n)

\* The members of the list, unfolded for the provers.
LEMMA Members ==
  ASSUME NEW s \in Seq(VmaType)
  PROVE  /\ Len(s) \in Nat
         /\ \A k \in 1 .. Len(s) :
              /\ s[k].base \in Nat /\ s[k].size \in Int
              /\ s[k].flags \in AllFlags /\ s[k].stale \in BOOLEAN
              /\ End(s[k]) \in Int
  <1>1. \A k \in 1 .. Len(s) : s[k] \in VmaType
    BY ElementOfSeq
  <1> QED
    BY <1>1, LenProperties DEF VmaType, AllFlags, End

\* Each change in front of the pageinfo area leaves it the last one.
LEMMA InsertedEnds ==
  ASSUME NEW s, NEW t, NEW i \in 1 .. Len(s), NEW v \in VmaType,
         EndsWithInfo(s), Inserted(s, t, i, v), v.base <= InfoBase
  PROVE  EndsWithInfo(t)
  <1>1. Len(s) \in Nat /\ Len(t) = Len(s) + 1
    BY LenProperties DEF EndsWithInfo, Inserted
  <1>2. SameArea(t[Len(t)], s[Len(s)])
    BY <1>1 DEF Inserted, NoStaler
  <1>3. ASSUME NEW k \in 1 .. Len(t) PROVE t[k].base <= InfoBase
    <2>1. CASE k < i
      BY <1>1, <2>1 DEF EndsWithInfo, Inserted
    <2>2. CASE k = i
      BY <2>2 DEF Inserted
    <2>3. CASE k > i
      <3>1. k - 1 \in i .. Len(s) /\ (k - 1) + 1 = k /\ k - 1 \in 1 .. Len(s)
        BY <1>1, <2>3
      <3>2. NoStaler(t[(k - 1) + 1], s[k - 1])
        BY <3>1 DEF Inserted
      <3> QED
        BY <3>1, <3>2 DEF EndsWithInfo, NoStaler, SameArea
    <2> QED
      BY <1>1, <2>1, <2>2, <2>3
  <1> QED
    BY <1>1, <1>2, <1>3 DEF EndsWithInfo, Inserted, SameArea

\* So does giving a VMA another base or size,
LEMMA ChangedEnds ==
  ASSUME NEW s, NEW t, NEW i \in 1 .. Len(s) - 1, NEW v \in VmaType,
         EndsWithInfo(s), Changed(s, t, i, v), v.base <= InfoBase
  PROVE  EndsWithInfo(t)
  <1>1. Len(s) \in Nat /\ Len(t) = Len(s)
    BY LenProperties DEF EndsWithInfo, Changed
  <1> QED
    BY <1>1 DEF EndsWithInfo, Changed

\* merging two,
LEMMA MergedEnds ==
  ASSUME NEW s, NEW t, NEW i \in 1 .. Len(s) - 2, NEW v \in VmaType,
         EndsWithInfo(s), Merged(s, t, i, v), v.base <= InfoBase
  PROVE  EndsWithInfo(t)
  <1>1. Len(s) \in Nat /\ Len(t) = Len(s) - 1
    BY LenProperties DEF EndsWithInfo, Merged
  <1>2. SameArea(t[Len(t)], s[Len(s)])
    BY <1>1 DEF Merged, NoStaler
  <1>3. ASSUME NEW k \in 1 .. Len(t) PROVE t[k].base <= InfoBase
    <2>1. CASE k < i
      BY <1>1, <2>1 DEF EndsWithInfo, Merged
    <2>2. CASE k = i
      BY <2>2 DEF Merged
    <2>3. CASE k > i
      <3>1. k \in i + 1 .. Len(s) - 1 /\ k + 1 \in 1 .. Len(s)
        BY <1>1, <2>3
      <3> QED
        BY <3>1 DEF EndsWithInfo, Merged, NoStaler, SameArea
    <2> QED
      BY <1>1, <2>1, <2>2, <2>3
  <1> QED
    BY <1>1, <1>2, <1>3 DEF EndsWithInfo, Merged, SameArea

\* taking one out,
LEMMA DroppedEnds ==
  ASSUME NEW s, NEW t, NEW i \in 1 .. Len(s) - 1,
         EndsWithInfo(s), Dropped(s, t, i)
  PROVE  EndsWithInfo(t)
  <1>1. Len(s) \in Nat /\ Len(t) = Len(s) - 1
    BY LenProperties DEF EndsWithInfo, Dropped
  <1>2. SameArea(t[Len(t)], s[Len(s)])
    BY <1>1 DEF Dropped, NoStaler
  <1>3. ASSUME NEW k \in 1 .. Len(t) PROVE t[k].base <= InfoBase
    <2>1. CASE k < i
      BY <1>1, <2>1 DEF EndsWithInfo, Dropped
    <2>2. CASE k >= i
      <3>1. k \in i .. Len(s) - 1 /\ k + 1 \in 1 .. Len(s)
        BY <1>1, <2>2
      <3> QED
        BY <3>1 DEF EndsWithInfo, Dropped, NoStaler, SameArea
    <2> QED
      BY <1>1, <2>1, <2>2
  <1> QED
    BY <1>1, <1>2, <1>3 DEF EndsWithInfo, Dropped, SameArea

\* and splitting one.
LEMMA DividedEnds ==
  ASSUME NEW s, NEW t, NEW i \in 1 .. Len(s) - 1,
         NEW v \in VmaType, NEW w \in VmaType,
         EndsWithInfo(s), Divided(s, t, i, v, w),
         v.base <= InfoBase, w.base <= InfoBase
  PROVE  EndsWithInfo(t)
  <1>1. Len(s) \in Nat /\ Len(t) = Len(s) + 1
    BY LenProperties DEF EndsWithInfo, Divided
  <1>2. SameArea(t[Len(t)], s[Len(s)])
    BY <1>1 DEF Divided
  <1>3. ASSUME NEW k \in 1 .. Len(t) PROVE t[k].base <= InfoBase
    <2>1. CASE k < i
      <3>1. k \in 1 .. i - 1 /\ k \in 1 .. Len(s)
        BY <1>1, <2>1
      <3> QED
        BY <3>1 DEF EndsWithInfo, Divided
    <2>2. CASE k = i \/ k = i + 1
      BY <2>2 DEF Divided
    <2>3. CASE k > i + 1
      <3>1. k - 1 \in i + 1 .. Len(s) /\ (k - 1) + 1 = k /\ k - 1 \in 1 .. Len(s)
        BY <1>1, <2>3
      <3>2. SameArea(t[(k - 1) + 1], s[k - 1])
        BY <3>1 DEF Divided
      <3> QED
        BY <3>1, <3>2 DEF EndsWithInfo, SameArea
    <2> QED
      BY <1>1, <2>1, <2>2, <2>3
  <1> QED
    BY <1>1, <1>2, <1>3 DEF EndsWithInfo, Divided, SameArea

\* A VMA of its own for the new pages.
LEMMA InsertedGains ==
  ASSUME NEW s \in Seq(VmaType), NEW t, NEW i \in 1 .. Len(s),
         NEW v \in VmaType, Inserted(s, t, i, v)
  PROVE  Gains(s, t, v.base, v.size, v.flags)
  <1>1. /\ Len(s) \in Nat /\ Len(t) = Len(s) + 1
        /\ v.base \in Int /\ v.size \in Int
    BY LenProperties DEF Inserted, VmaType
  <1> SUFFICES ASSUME NEW p \in Int, NEW g \in AllFlags
               PROVE  CoveredWith(t, p, g) <=>
                        \/ CoveredWith(s, p, g)
                        \/ p \in Run(v.base, v.size) /\ g = v.flags
    BY DEF Gains
  <1>2. Covers(v, p) <=> p \in Run(v.base, v.size)
    BY <1>1 DEF Covers, End, Run
  <1>3. ASSUME CoveredWith(t, p, g)
        PROVE  CoveredWith(s, p, g) \/ (Covers(v, p) /\ g = v.flags)
    <2>1. PICK k \in 1 .. Len(t) : Covers(t[k], p) /\ t[k].flags = g
      BY <1>3 DEF CoveredWith
    <2>2. CASE k < i
      <3>1. k \in 1 .. i - 1 /\ k \in 1 .. Len(s)
        BY <1>1, <2>2
      <3> QED
        BY <2>1, <3>1 DEF Inserted, CoveredWith
    <2>3. CASE k = i
      BY <2>1, <2>3 DEF Inserted
    <2>4. CASE k > i
      <3>1. k - 1 \in i .. Len(s) /\ (k - 1) + 1 = k /\ k - 1 \in 1 .. Len(s)
        BY <1>1, <2>4
      <3>2. NoStaler(t[k], s[k - 1])
        BY <3>1 DEF Inserted
      <3> QED
        BY <2>1, <3>1, <3>2 DEF CoveredWith, NoStaler, SameArea, Covers, End
    <2> QED
      BY <1>1, <2>2, <2>3, <2>4
  <1>4. ASSUME CoveredWith(s, p, g) PROVE CoveredWith(t, p, g)
    <2>1. PICK k \in 1 .. Len(s) : Covers(s[k], p) /\ s[k].flags = g
      BY <1>4 DEF CoveredWith
    <2>2. CASE k < i
      <3>1. k \in 1 .. i - 1 /\ k \in 1 .. Len(t)
        BY <1>1, <2>2
      <3> QED
        BY <2>1, <3>1 DEF Inserted, CoveredWith
    <2>3. CASE k >= i
      <3>1. k \in i .. Len(s) /\ k + 1 \in 1 .. Len(t)
        BY <1>1, <2>3
      <3>2. NoStaler(t[k + 1], s[k])
        BY <3>1 DEF Inserted
      <3> QED
        BY <2>1, <3>1, <3>2 DEF CoveredWith, NoStaler, SameArea, Covers, End
    <2> QED
      BY <1>1, <2>2, <2>3
  <1>5. ASSUME Covers(v, p), g = v.flags PROVE CoveredWith(t, p, g)
    <2>1. i \in 1 .. Len(t) /\ t[i] = v
      BY <1>1 DEF Inserted
    <2> QED
      BY <1>5, <2>1 DEF CoveredWith
  <1> QED
    BY <1>2, <1>3, <1>4, <1>5

\* A VMA that grows by the new pages.
LEMMA ChangedGains ==
  ASSUME NEW s \in Seq(VmaType), NEW t, NEW i \in 1 .. Len(s),
         NEW v \in VmaType, Changed(s, t, i, v),
         NEW addr \in Int, NEW n \in Nat,
         v.flags = s[i].flags,
         \A p \in Int : Covers(v, p) <=>
           Covers(s[i], p) \/ p \in Run(addr, n)
  PROVE  Gains(s, t, addr, n, v.flags)
  <1>1. Len(s) \in Nat /\ Len(t) = Len(s) /\ t[i] = v
    BY LenProperties DEF Changed
  <1>2. \A k \in 1 .. Len(s) : k # i => t[k] = s[k]
    BY DEF Changed
  <1> QED
    BY <1>1, <1>2 DEF Gains, CoveredWith

\* Two VMAs that the new pages join.
LEMMA MergedGains ==
  ASSUME NEW s \in Seq(VmaType), NEW t, NEW i \in 1 .. Len(s) - 1,
         NEW v \in VmaType, Merged(s, t, i, v),
         NEW addr \in Int, NEW n \in Nat,
         v.flags = s[i].flags, v.flags = s[i + 1].flags,
         \A p \in Int : Covers(v, p) <=>
           Covers(s[i], p) \/ Covers(s[i + 1], p) \/ p \in Run(addr, n)
  PROVE  Gains(s, t, addr, n, v.flags)
  <1>1. /\ Len(s) \in Nat /\ Len(t) = Len(s) - 1 /\ t[i] = v
        /\ i \in 1 .. Len(s) /\ i + 1 \in 1 .. Len(s) /\ i \in 1 .. Len(t)
    BY LenProperties DEF Merged
  <1> SUFFICES ASSUME NEW p \in Int, NEW g \in AllFlags
               PROVE  CoveredWith(t, p, g) <=>
                        \/ CoveredWith(s, p, g)
                        \/ p \in Run(addr, n) /\ g = v.flags
    BY DEF Gains
  <1>2. ASSUME CoveredWith(t, p, g)
        PROVE  CoveredWith(s, p, g) \/ (p \in Run(addr, n) /\ g = v.flags)
    <2>1. PICK k \in 1 .. Len(t) : Covers(t[k], p) /\ t[k].flags = g
      BY <1>2 DEF CoveredWith
    <2>2. CASE k < i
      <3>1. k \in 1 .. i - 1 /\ k \in 1 .. Len(s)
        BY <1>1, <2>2
      <3> QED
        BY <2>1, <3>1 DEF Merged, CoveredWith
    <2>3. CASE k = i
      BY <1>1, <2>1, <2>3 DEF CoveredWith
    <2>4. CASE k > i
      <3>1. k \in i + 1 .. Len(s) - 1 /\ k + 1 \in 1 .. Len(s)
        BY <1>1, <2>4
      <3>2. NoStaler(t[k], s[k + 1])
        BY <3>1 DEF Merged
      <3> QED
        BY <2>1, <3>1, <3>2 DEF CoveredWith, NoStaler, SameArea, Covers, End
    <2> QED
      BY <1>1, <2>2, <2>3, <2>4
  <1>3. ASSUME CoveredWith(s, p, g) PROVE CoveredWith(t, p, g)
    <2>1. PICK k \in 1 .. Len(s) : Covers(s[k], p) /\ s[k].flags = g
      BY <1>3 DEF CoveredWith
    <2>2. CASE k < i
      <3>1. k \in 1 .. i - 1 /\ k \in 1 .. Len(t)
        BY <1>1, <2>2
      <3> QED
        BY <2>1, <3>1 DEF Merged, CoveredWith
    <2>3. CASE k = i \/ k = i + 1
      BY <1>1, <2>1, <2>3 DEF CoveredWith
    <2>4. CASE k > i + 1
      <3>1. /\ k - 1 \in i + 1 .. Len(s) - 1 /\ k - 1 \in 1 .. Len(t)
            /\ (k - 1) + 1 = k
        BY <1>1, <2>4
      <3>2. NoStaler(t[k - 1], s[k])
        BY <3>1 DEF Merged
      <3> QED
        BY <2>1, <3>1, <3>2 DEF CoveredWith, NoStaler, SameArea, Covers, End
    <2> QED
      BY <1>1, <2>2, <2>3, <2>4
  <1>4. ASSUME p \in Run(addr, n), g = v.flags PROVE CoveredWith(t, p, g)
    BY <1>1, <1>4 DEF CoveredWith
  <1> QED
    BY <1>2, <1>3, <1>4

\* In an ordered list no two VMAs cover the same page.
LEMMA Disjoint ==
  ASSUME NEW s \in Seq(VmaType), Ordered(s),
         NEW j \in 1 .. Len(s), NEW k \in 1 .. Len(s), j # k,
         NEW p \in Int, Covers(s[j], p)
  PROVE  ~ Covers(s[k], p)
  <1>1. /\ Len(s) \in Nat
        /\ s[j].base \in Int /\ s[k].base \in Int
        /\ End(s[j]) \in Int /\ End(s[k]) \in Int
    BY Members
  <1>2. End(s[j]) <= s[k].base \/ End(s[k]) <= s[j].base
    BY <1>1 DEF Ordered
  <1> QED
    BY <1>1, <1>2 DEF Covers

\* A VMA that is taken out of an ordered list takes exactly its pages along.
LEMMA DroppedLoses ==
  ASSUME NEW s \in Seq(VmaType), NEW t, NEW i \in 1 .. Len(s),
         Ordered(s), Dropped(s, t, i)
  PROVE  Loses(s, t, s[i].base, s[i].size)
  <1>1. /\ Len(s) \in Nat /\ Len(t) = Len(s) - 1
        /\ s[i].base \in Int /\ s[i].size \in Int
    BY Members DEF Dropped
  <1> SUFFICES ASSUME NEW p \in Int, NEW g \in AllFlags
               PROVE  CoveredWith(t, p, g) <=>
                        /\ CoveredWith(s, p, g)
                        /\ p \notin Run(s[i].base, s[i].size)
    BY DEF Loses
  <1>2. Covers(s[i], p) <=> p \in Run(s[i].base, s[i].size)
    BY <1>1 DEF Covers, End, Run
  <1>3. ASSUME CoveredWith(t, p, g)
        PROVE  CoveredWith(s, p, g) /\ ~ Covers(s[i], p)
    <2>1. PICK k \in 1 .. Len(t) : Covers(t[k], p) /\ t[k].flags = g
      BY <1>3 DEF CoveredWith
    <2>2. CASE k < i
      <3>1. k \in 1 .. i - 1 /\ k \in 1 .. Len(s) /\ k # i
        BY <1>1, <2>2
      <3>2. Covers(s[k], p) /\ s[k].flags = g
        BY <2>1, <3>1 DEF Dropped
      <3> QED
        BY <3>1, <3>2, Disjoint DEF CoveredWith
    <2>3. CASE k >= i
      <3>1. /\ k \in i .. Len(s) - 1
            /\ k + 1 \in 1 .. Len(s) /\ k + 1 # i
        BY <1>1, <2>3
      <3>2. NoStaler(t[k], s[k + 1])
        BY <3>1 DEF Dropped
      <3>3. Covers(s[k + 1], p) /\ s[k + 1].flags = g
        BY <2>1, <3>2 DEF NoStaler, SameArea, Covers, End
      <3> QED
        BY <3>1, <3>3, Disjoint DEF CoveredWith
    <2> QED
      BY <1>1, <2>2, <2>3
  <1>4. ASSUME CoveredWith(s, p, g), ~ Covers(s[i], p)
        PROVE  CoveredWith(t, p, g)
    <2>1. PICK k \in 1 .. Len(s) : Covers(s[k], p) /\ s[k].flags = g
      BY <1>4 DEF CoveredWith
    <2>2. CASE k < i
      <3>1. k \in 1 .. i - 1 /\ k \in 1 .. Len(t)
        BY <1>1, <2>2
      <3> QED
        BY <2>1, <3>1 DEF Dropped, CoveredWith
    <2>3. CASE k > i
      <3>1. /\ k - 1 \in i .. Len(s) - 1 /\ k - 1 \in 1 .. Len(t)
            /\ (k - 1) + 1 = k
        BY <1>1, <2>3
      <3>2. NoStaler(t[k - 1], s[k])
        BY <3>1 DEF Dropped
      <3> QED
        BY <2>1, <3>1, <3>2 DEF CoveredWith, NoStaler, SameArea, Covers, End
    <2> QED
      BY <1>1, <1>4, <2>1, <2>2, <2>3
  <1> QED
    BY <1>2, <1>3, <1>4

\* A VMA of an ordered list that shrinks gives up exactly those pages.
LEMMA ChangedLoses ==
  ASSUME NEW s \in Seq(VmaType), NEW t, NEW i \in 1 .. Len(s),
         NEW v \in VmaType, Ordered(s), Changed(s, t, i, v),
         NEW addr \in Int, NEW n \in Nat,
         v.flags = s[i].flags,
         \A p \in Run(addr, n) : Covers(s[i], p),
         \A p \in Int : Covers(v, p) <=>
           Covers(s[i], p) /\ p \notin Run(addr, n)
  PROVE  Loses(s, t, addr, n)
  <1>1. Len(s) \in Nat /\ Len(t) = Len(s) /\ t[i] = v
    BY LenProperties DEF Changed
  <1>2. \A k \in 1 .. Len(s) : k # i => t[k] = s[k]
    BY DEF Changed
  <1>3. \A k \in 1 .. Len(s), p \in Int :
          p \in Run(addr, n) /\ k # i => ~ Covers(s[k], p)
    BY Disjoint
  <1> QED
    BY <1>1, <1>2, <1>3 DEF Loses, CoveredWith

\* The list stays ordered if a new VMA fits between its neighbours,
LEMMA InsertedOrdered ==
  ASSUME NEW s \in Seq(VmaType), NEW t, NEW i \in 1 .. Len(s),
         NEW v \in VmaType, Ordered(s), Inserted(s, t, i, v),
         v.size > 0, ~ v.stale,
         \A k \in 1 .. i - 1 : End(s[k]) <= v.base,
         \A k \in i .. Len(s) : End(v) <= s[k].base
  PROVE  Ordered(t)
  <1>1. Len(s) \in Nat /\ Len(t) = Len(s) + 1 /\ t[i] = v
    BY LenProperties DEF Inserted
  <1>2. ASSUME NEW k \in 1 .. Len(t), k < i
        PROVE  k \in 1 .. i - 1 /\ k \in 1 .. Len(s) /\ t[k] = s[k]
    BY <1>1, <1>2 DEF Inserted
  <1>3. ASSUME NEW k \in 1 .. Len(t), k > i
        PROVE  /\ k - 1 \in i .. Len(s) /\ k - 1 \in 1 .. Len(s)
               /\ t[k].base = s[k - 1].base /\ t[k].size = s[k - 1].size
               /\ End(t[k]) = End(s[k - 1])
               /\ t[k].stale => s[k - 1].stale
    <2>1. /\ k - 1 \in i .. Len(s) /\ (k - 1) + 1 = k
          /\ k - 1 \in 1 .. Len(s)
      BY <1>1, <1>3
    <2>2. NoStaler(t[k], s[k - 1])
      BY <2>1 DEF Inserted
    <2> QED
      BY <2>1, <2>2 DEF NoStaler, SameArea, End
  <1>4. ASSUME NEW k \in 1 .. Len(t) PROVE t[k].size > 0 /\ ~ t[k].stale
    BY <1>1, <1>2, <1>3, <1>4, SMTT(30) DEF Ordered
  <1>5. ASSUME NEW j \in 1 .. Len(t), NEW k \in 1 .. Len(t), j < k
        PROVE  End(t[j]) <= t[k].base
    <2>1. CASE k < i
      BY <1>1, <1>2, <1>5, <2>1 DEF Ordered
    <2>2. CASE k = i
      BY <1>1, <1>2, <1>5, <2>2
    <2>3. CASE k > i /\ j = i
      BY <1>1, <1>3, <2>3
    <2>4. CASE k > i /\ j < i
      <3>1. j < k - 1
        BY <1>1, <2>4
      <3> QED
        BY <1>2, <1>3, <2>4, <3>1 DEF Ordered
    <2>5. CASE k > i /\ j > i
      <3>1. j - 1 < k - 1
        BY <1>1, <1>5
      <3> QED
        BY <1>3, <2>5, <3>1 DEF Ordered
    <2> QED
      BY <1>1, <2>1, <2>2, <2>3, <2>4, <2>5
  <1> QED
    BY <1>4, <1>5 DEF Ordered

\* if a changed one does,
LEMMA ChangedOrdered ==
  ASSUME NEW s \in Seq(VmaType), NEW t, NEW i \in 1 .. Len(s),
         NEW v \in VmaType, Ordered(s), Changed(s, t, i, v),
         v.size > 0, ~ v.stale,
         \A k \in 1 .. i - 1 : End(s[k]) <= v.base,
         \A k \in i + 1 .. Len(s) : End(v) <= s[k].base
  PROVE  Ordered(t)
  <1>1. Len(s) \in Nat /\ Len(t) = Len(s) /\ t[i] = v
    BY LenProperties DEF Changed
  <1>2. \A k \in 1 .. Len(s) : k # i => t[k] = s[k]
    BY DEF Changed
  <1>3. ASSUME NEW j \in 1 .. Len(t), NEW k \in 1 .. Len(t), j < k
        PROVE  End(t[j]) <= t[k].base
    <2>1. CASE j # i /\ k # i
      BY <1>1, <1>2, <1>3, <2>1 DEF Ordered
    <2>2. CASE j = i
      BY <1>1, <1>2, <1>3, <2>2
    <2>3. CASE k = i
      BY <1>1, <1>2, <1>3, <2>3
    <2> QED
      BY <2>1, <2>2, <2>3
  <1> QED
    BY <1>1, <1>2, <1>3 DEF Ordered

\* if two are merged into one that does,
LEMMA MergedOrdered ==
  ASSUME NEW s \in Seq(VmaType), NEW t, NEW i \in 1 .. Len(s) - 1,
         NEW v \in VmaType, Ordered(s), Merged(s, t, i, v),
         v.size > 0, ~ v.stale,
         \A k \in 1 .. i - 1 : End(s[k]) <= v.base,
         \A k \in i + 2 .. Len(s) : End(v) <= s[k].base
  PROVE  Ordered(t)
  <1>1. Len(s) \in Nat /\ Len(t) = Len(s) - 1 /\ t[i] = v
    BY LenProperties DEF Merged
  <1>2. ASSUME NEW k \in 1 .. Len(t), k < i
        PROVE  k \in 1 .. i - 1 /\ k \in 1 .. Len(s) /\ t[k] = s[k]
    BY <1>1, <1>2 DEF Merged
  <1>3. ASSUME NEW k \in 1 .. Len(t), k > i
        PROVE  /\ k + 1 \in i + 2 .. Len(s) /\ k + 1 \in 1 .. Len(s)
               /\ t[k].base = s[k + 1].base /\ t[k].size = s[k + 1].size
               /\ End(t[k]) = End(s[k + 1])
               /\ t[k].stale => s[k + 1].stale
    <2>1. /\ k \in i + 1 .. Len(s) - 1 /\ k + 1 \in 1 .. Len(s)
          /\ k + 1 \in i + 2 .. Len(s)
      BY <1>1, <1>3
    <2>2. NoStaler(t[k], s[k + 1])
      BY <2>1 DEF Merged
    <2> QED
      BY <2>1, <2>2 DEF NoStaler, SameArea, End
  <1>4. ASSUME NEW k \in 1 .. Len(t) PROVE t[k].size > 0 /\ ~ t[k].stale
    BY <1>1, <1>2, <1>3, <1>4 DEF Ordered
  <1>5. ASSUME NEW j \in 1 .. Len(t), NEW k \in 1 .. Len(t), j < k
        PROVE  End(t[j]) <= t[k].base
    <2>1. CASE k < i
      BY <1>1, <1>2, <1>5, <2>1, SMTT(30) DEF Ordered
    <2>2. CASE k = i
      BY <1>1, <1>2, <1>5, <2>2
    <2>3. CASE k > i /\ j = i
      BY <1>1, <1>3, <2>3
    <2>4. CASE k > i /\ j < i
      <3>1. j < k + 1
        BY <1>1, <2>4
      <3> QED
        BY <1>2, <1>3, <2>4, <3>1 DEF Ordered
    <2>5. CASE k > i /\ j > i
      <3>1. j + 1 < k + 1
        BY <1>1, <1>5
      <3> QED
        BY <1>3, <2>5, <3>1 DEF Ordered
    <2> QED
      BY <1>1, <2>1, <2>2, <2>3, <2>4, <2>5
  <1> QED
    BY <1>4, <1>5 DEF Ordered

\* and if one is taken out.
LEMMA DroppedOrdered ==
  ASSUME NEW s \in Seq(VmaType), NEW t, NEW i \in 1 .. Len(s),
         Ordered(s), Dropped(s, t, i)
  PROVE  Ordered(t)
  <1>1. Len(s) \in Nat /\ Len(t) = Len(s) - 1
    BY LenProperties DEF Dropped
  <1>2. ASSUME NEW k \in 1 .. Len(t), k < i
        PROVE  k \in 1 .. Len(s) /\ t[k] = s[k]
    BY <1>1, <1>2 DEF Dropped
  <1>3. ASSUME NEW k \in 1 .. Len(t), k >= i
        PROVE  /\ k + 1 \in 1 .. Len(s)
               /\ t[k].base = s[k + 1].base /\ t[k].size = s[k + 1].size
               /\ End(t[k]) = End(s[k + 1])
               /\ t[k].stale => s[k + 1].stale
    <2>1. k \in i .. Len(s) - 1 /\ k + 1 \in 1 .. Len(s)
      BY <1>1, <1>3
    <2>2. NoStaler(t[k], s[k + 1])
      BY <2>1 DEF Dropped
    <2> QED
      BY <2>1, <2>2 DEF NoStaler, SameArea, End
  <1>4. ASSUME NEW k \in 1 .. Len(t) PROVE t[k].size > 0 /\ ~ t[k].stale
    BY <1>1, <1>2, <1>3, <1>4 DEF Ordered
  <1>5. ASSUME NEW j \in 1 .. Len(t), NEW k \in 1 .. Len(t), j < k
        PROVE  End(t[j]) <= t[k].base
    <2>1. CASE k < i
      BY <1>1, <1>2, <1>5, <2>1 DEF Ordered
    <2>2. CASE k >= i /\ j < i
      <3>1. j < k + 1
        BY <1>1, <2>2
      <3> QED
        BY <1>2, <1>3, <2>2, <3>1 DEF Ordered
    <2>3. CASE k >= i /\ j >= i
      <3>1. j + 1 < k + 1
        BY <1>1, <1>5
      <3> QED
        BY <1>3, <2>3, <3>1 DEF Ordered
    <2> QED
      BY <1>1, <2>1, <2>2, <2>3
  <1> QED
    BY <1>4, <1>5 DEF Ordered

----------------------------------------------------------------------------
(* Where create_vma inserts and where vfree looks *)

\* create_vma finds a place in front of the pageinfo area.
LEMMA PositionLemma ==
  ASSUME EndsWithInfo(vma_list), NEW addr \in Int, addr <= InfoBase
  PROVE  /\ Position(addr) \in 1 .. Len(vma_list)
         /\ vma_list[Position(addr)].base >= addr
         /\ \A j \in 1 .. Position(addr) - 1 : vma_list[j].base < addr
  <1> DEFINE S == {i \in 1 .. Len(vma_list) : vma_list[i].base >= addr}
  <1>1. /\ Len(vma_list) \in Nat /\ Len(vma_list) > 0
        /\ \A k \in 1 .. Len(vma_list) : vma_list[k].base \in Int
        /\ vma_list[Len(vma_list)].base = InfoBase
    BY Members DEF EndsWithInfo, SameArea, Vma
  <1>2. Len(vma_list) \in S /\ S \in SUBSET Nat
    BY <1>1, LayoutAssumption
  <1>3. PICK x \in S : \A y \in S : x <= y
    BY <1>2, LeastLemma
  <1>4. \A j \in 1 .. x - 1 : vma_list[j].base < addr
    BY <1>1, <1>3
  <1>5. /\ x \in 1 .. Len(vma_list) /\ vma_list[x].base >= addr
        /\ \A j \in 1 .. x - 1 : vma_list[j].base < addr
    BY <1>4
  <1> HIDE DEF S
  <1> QED
    BY <1>5 DEF Position

\* vfree looks at some VMA.
LEMMA FreeIndexLemma ==
  ASSUME EndsWithInfo(vma_list), NEW addr \in Int
  PROVE  FreeIndex(addr) \in 1 .. Len(vma_list)
  <1> DEFINE past == {i \in 2 .. Len(vma_list) : vma_list[i].base > addr}
             first == CHOOSE i \in past : \A j \in past : i <= j
  <1>1. Len(vma_list) \in Nat /\ Len(vma_list) > 0
    BY Members DEF EndsWithInfo
  <1>2. CASE past = {}
    <2>1. FreeIndex(addr) = Len(vma_list)
      BY <1>2 DEF FreeIndex
    <2> QED
      BY <1>1, <2>1
  <1>3. CASE past # {}
    <2>1. past \in SUBSET Nat
      BY <1>1
    <2>2. FreeIndex(addr) = first - 1
      BY <1>3 DEF FreeIndex
    <2>3. past \subseteq 2 .. Len(vma_list)
      OBVIOUS
    <2> HIDE DEF past
    <2>4. \E x \in past : \A y \in past : x <= y
      BY <1>3, <2>1, LeastLemma
    <2>5. first \in past
      BY <2>4
    <2> HIDE DEF first
    <2> QED
      BY <1>1, <2>2, <2>3, <2>5
  <1> QED
    BY <1>2, <1>3

----------------------------------------------------------------------------
(* What vmalloc does to the list *)

ListInv ==
  /\ EndsWithInfo(vma_list)
  /\ nfree \in Nat /\ Len(vma_list) + nfree = NodeCount

\* The list allocates n pages from addr on.
ListAllocates(addr, n, f) ==
  /\ ListInv'
  /\ Ordered(vma_list) =>
       /\ Ordered(vma_list')
       /\ Gains(vma_list, vma_list', addr, n, f)

\* In an ordered list, the gap behind the i-th VMA is behind all in front of
\* it and in front of all behind it.
LEMMA GapLemma ==
  ASSUME NEW s \in Seq(VmaType), Ordered(s), NEW i \in 1 .. Len(s) - 1,
         NEW n \in Nat, End(s[i]) + n <= s[i + 1].base
  PROVE  /\ s[i].size > 0 /\ ~ s[i].stale
         /\ s[i + 1].size > 0 /\ ~ s[i + 1].stale
         /\ s[i].base < End(s[i]) /\ s[i + 1].base < End(s[i + 1])
         /\ \A k \in 1 .. i - 1 : End(s[k]) <= s[i].base
         /\ \A k \in 1 .. i : End(s[k]) <= End(s[i])
         /\ \A k \in i + 1 .. Len(s) : End(s[i]) + n <= s[k].base
         /\ \A k \in i + 2 .. Len(s) : End(s[i + 1]) <= s[k].base
  <1>1. /\ Len(s) \in Nat
        /\ \A k \in 1 .. Len(s) : /\ s[k].base \in Int /\ s[k].size \in Int
                                  /\ End(s[k]) \in Int
    BY Members
  <1>2. \A k \in 1 .. Len(s) : End(s[k]) = s[k].base + s[k].size
    BY DEF End
  <1>3. i \in 1 .. Len(s) /\ i + 1 \in 1 .. Len(s) /\ i < i + 1
    BY <1>1
  <1>4. /\ s[i].size > 0 /\ ~ s[i].stale
        /\ s[i + 1].size > 0 /\ ~ s[i + 1].stale
        /\ s[i].base < End(s[i]) /\ s[i + 1].base < End(s[i + 1])
    BY <1>1, <1>2, <1>3, SMTT(30) DEF Ordered
  <1>5. ASSUME NEW k \in 1 .. i - 1 PROVE End(s[k]) <= s[i].base
    <2>1. k \in 1 .. Len(s) /\ k < i
      BY <1>1
    <2> QED
      BY <1>3, <2>1 DEF Ordered
  <1>6. ASSUME NEW k \in 1 .. i PROVE End(s[k]) <= End(s[i])
    BY <1>1, <1>3, <1>4, <1>5, SMTT(30)
  <1>7. ASSUME NEW k \in i + 2 .. Len(s) PROVE End(s[i + 1]) <= s[k].base
    <2>1. k \in 1 .. Len(s) /\ i + 1 < k
      BY <1>1
    <2> QED
      BY <1>3, <2>1 DEF Ordered
  <1>8. ASSUME NEW k \in i + 1 .. Len(s) PROVE End(s[i]) + n <= s[k].base
    <2>1. CASE k = i + 1
      BY <2>1
    <2>2. CASE k # i + 1
      <3>1. End(s[i + 1]) <= s[k].base
        BY <1>1, <1>7, <2>2
      <3> QED
        BY <1>1, <1>3, <1>4, <3>1, SMTT(30)
    <2> QED
      BY <2>1, <2>2
  <1> QED
    BY <1>4, <1>5, <1>6, <1>7, <1>8

\* The pages of a VMA that has grown to the right by n pages,
LEMMA CoversGrown ==
  ASSUME NEW v, NEW l, NEW n \in Nat, NEW p \in Int,
         l.base \in Int, End(l) \in Int, l.base <= End(l),
         v.base = l.base, End(v) = End(l) + n
  PROVE  Covers(v, p) <=> Covers(l, p) \/ p \in Run(End(l), n)
  BY DEF Covers, Run

\* to the left from addr on,
LEMMA CoversGrownLeft ==
  ASSUME NEW v, NEW r, NEW n \in Nat, NEW addr \in Int, NEW p \in Int,
         r.base \in Int, End(r) \in Int, r.base <= End(r),
         addr + n = r.base, v.base = addr, End(v) = End(r)
  PROVE  Covers(v, p) <=> Covers(r, p) \/ p \in Run(addr, n)
  BY DEF Covers, Run

\* of two that n pages join,
LEMMA CoversJoined ==
  ASSUME NEW v, NEW l, NEW r, NEW n \in Nat, NEW p \in Int,
         l.base \in Int, End(l) \in Int, l.base <= End(l),
         r.base \in Int, End(r) \in Int, r.base <= End(r),
         End(l) + n = r.base, v.base = l.base, End(v) = End(r)
  PROVE  Covers(v, p) <=> Covers(l, p) \/ Covers(r, p) \/ p \in Run(End(l), n)
  BY DEF Covers, Run

\* and of one that has lost its last n pages.
LEMMA CoversShrunk ==
  ASSUME NEW v, NEW l, NEW n \in Nat, NEW addr \in Int, NEW p \in Int,
         l.base \in Int, End(l) \in Int, l.base <= addr, addr + n = End(l),
         v.base = l.base, End(v) = addr
  PROVE  Covers(v, p) <=> Covers(l, p) /\ p \notin Run(addr, n)
  BY DEF Covers, Run

\* The constants and the list, unfolded for the provers.
LEMMA ListFacts ==
  ASSUME ListInv
  PROVE  /\ vma_list \in Seq(VmaType)
         /\ Len(vma_list) \in Nat /\ Len(vma_list) > 0
         /\ \A k \in 1 .. Len(vma_list) :
              /\ vma_list[k] \in VmaType
              /\ vma_list[k].base \in Nat /\ vma_list[k].size \in Int
              /\ vma_list[k].flags \in AllFlags
              /\ vma_list[k].stale \in BOOLEAN
              /\ vma_list[k].base <= InfoBase
              /\ End(vma_list[k]) = vma_list[k].base + vma_list[k].size
              /\ End(vma_list[k]) \in Int
         /\ vma_list[Len(vma_list)].base = InfoBase
         /\ vma_list[Len(vma_list)].flags \notin FlagSets
         /\ VirtBase \in Nat /\ InfoBase \in Nat /\ NodeCount \in Nat
  BY Members, ElementOfSeq, LayoutAssumption, FlagsAssumption
     DEF ListInv, EndsWithInfo, SameArea, Vma, End

\* Changing the size of a VMA leaves the rest of it.
LEMMA ResizeLemma ==
  ASSUME NEW v \in VmaType, NEW z \in Int, NEW w, w = [v EXCEPT !.size = z]
  PROVE  /\ w \in VmaType
         /\ w.base = v.base /\ w.size = z
         /\ w.flags = v.flags /\ w.stale = v.stale
         /\ End(w) = v.base + z
  BY DEF VmaType, End

\* GrowLeft extends the VMA in front of the gap, and merges it with the one
\* behind if nothing is left between them.  That one is not the pageinfo
\* area, whose flags differ.
LEMMA GrowLeftLemma ==
  ASSUME ListInv, NEW i \in 1 .. Len(vma_list) - 1, NEW n \in Nat, n > 0,
         NEW f \in FlagSets, HasRoom(i, n), GrowLeft(i, n, f)
  PROVE  ListAllocates(End(vma_list[i]), n, f) /\ stopped' = stopped
  <1> DEFINE s == vma_list
             t == vma_list'
             left == s[i]
             right == s[i + 1]
             grown == left.size + n
             merges == left.base + grown = right.base /\ right.flags = f
             v == [left EXCEPT !.size = grown]
             w == [left EXCEPT !.size = grown + right.size]
  <1>1. s \in Seq(VmaType) /\ Len(s) \in Nat
    BY ListFacts
  <1>2. i \in 1 .. Len(s) /\ i + 1 \in 1 .. Len(s)
    BY <1>1
  <1>3. /\ left.base \in Nat /\ left.size \in Int /\ End(left) \in Int
        /\ left.base <= InfoBase
        /\ End(left) = left.base + left.size
    BY <1>2, ListFacts
  <1>4. /\ right.base \in Nat /\ right.size \in Int /\ End(right) \in Int
        /\ End(right) = right.base + right.size
    BY <1>2, ListFacts
  <1>5. left \in VmaType /\ f \in AllFlags
    BY <1>2, ListFacts DEF AllFlags
  <1>6. left.flags = f /\ stopped' = stopped
    BY DEF GrowLeft
  <1>7. End(left) + n <= right.base
    BY DEF HasRoom
  <1>8. ASSUME Ordered(s)
        PROVE  /\ left.size > 0 /\ ~ left.stale /\ right.size > 0
               /\ left.base <= End(left) /\ right.base <= End(right)
               /\ \A k \in 1 .. i - 1 : End(s[k]) <= left.base
               /\ \A k \in i + 1 .. Len(s) : End(left) + n <= s[k].base
               /\ \A k \in i + 2 .. Len(s) : End(right) <= s[k].base
    BY <1>1, <1>3, <1>4, <1>7, <1>8, GapLemma, SMTT(30)
  <1>9. nfree \in Nat /\ Len(s) + nfree = NodeCount /\ EndsWithInfo(s)
    BY DEF ListInv
  <1>10. /\ merges => /\ t = Before(i) \o <<w>> \o Fresh(From(i + 2))
                      /\ nfree' = nfree + 1
         /\ ~ merges => /\ t = [s EXCEPT ![i].size = grown]
                        /\ nfree' = nfree
    BY DEF GrowLeft, FreedOnMerge
  <1>11. /\ Before(i) = SubSeq(s, 1, i - 1)
         /\ From(i + 2) = SubSeq(s, i + 2, Len(s))
    BY DEF Before, From
  <1>12. [s EXCEPT ![i].size = grown] = [s EXCEPT ![i] = v]
    OBVIOUS
  <1>13. merges => i + 1 # Len(s)
    BY ListFacts
  <1> HIDE DEF s, t, left, right
  <1>14. CASE merges
    <2>1. /\ w \in VmaType /\ w.base = left.base /\ w.stale = left.stale
          /\ w.flags = f
          /\ w.size = grown + right.size
          /\ End(w) = left.base + (grown + right.size)
      <3>1. w = [left EXCEPT !.size = grown + right.size]
        OBVIOUS
      <3>2. grown + right.size \in Int
        BY <1>3, <1>4
      <3> HIDE DEF w, grown
      <3> QED
        BY <1>5, <1>6, <3>1, <3>2, ResizeLemma
    <2>2. End(left) + n = right.base /\ right.flags = f /\ End(w) = End(right)
      BY <1>3, <1>4, <1>14, <2>1, SMTT(30)
    <2>3. Merged(s, t, i, w)
      <3>1. t = SubSeq(s, 1, i - 1) \o <<w>> \o Fresh(SubSeq(s, i + 2, Len(s)))
        BY <1>10, <1>11, <1>14
      <3> HIDE DEF w
      <3> QED
        BY <1>1, <2>1, <3>1, MergeLemma DEF s
    <2> HIDE DEF w
    <2>4. Len(t) = Len(s) - 1 /\ nfree' = nfree + 1
      BY <1>10, <1>14, <2>3 DEF Merged
    <2>5. EndsWithInfo(t)
      <3>1. i \in 1 .. Len(s) - 2
        BY <1>1, <1>2, <1>13, <1>14
      <3> QED
        BY <1>3, <1>9, <2>1, <2>3, <3>1, MergedEnds
    <2>6. ASSUME Ordered(s) PROVE Ordered(t)
      <3>1. w.size > 0 /\ ~ w.stale
        BY <1>3, <1>4, <1>8, <2>1, <2>6
      <3>2. /\ \A k \in 1 .. i - 1 : End(s[k]) <= w.base
            /\ \A k \in i + 2 .. Len(s) : End(w) <= s[k].base
        BY <1>8, <2>1, <2>2, <2>6
      <3>3. i \in 1 .. Len(s) - 1
        BY <1>1, <1>2
      <3> QED
        BY <1>1, <2>1, <2>3, <2>6, <3>1, <3>2, <3>3, MergedOrdered
    <2>7. ASSUME Ordered(s) PROVE Gains(s, t, End(left), n, f)
      <3>1. ASSUME NEW p \in Int
            PROVE  Covers(w, p) <=> \/ Covers(left, p) \/ Covers(right, p)
                                    \/ p \in Run(End(left), n)
        <4>1. left.base <= End(left) /\ right.base <= End(right)
          BY <1>8, <2>7
        <4>2. left.base \in Int /\ right.base \in Int
          BY <1>3, <1>4
        <4>3. w.base = left.base /\ End(w) = End(right)
          BY <2>1, <2>2
        <4> QED
          BY <1>3, <1>4, <2>2, <4>1, <4>2, <4>3, CoversJoined
      <3>2. s[i] = left /\ s[i + 1] = right
        BY DEF left, right
      <3>3. i \in 1 .. Len(s) - 1
        BY <1>1, <1>2
      <3> QED
        BY <1>1, <1>3, <1>6, <2>1, <2>2, <2>3, <3>1, <3>2, <3>3, MergedGains
    <2> QED
      BY <1>1, <1>6, <1>9, <2>4, <2>5, <2>6, <2>7
         DEF ListAllocates, ListInv, s, t, left
  <1>15. CASE ~ merges
    <2>1. /\ v \in VmaType /\ v.base = left.base /\ v.stale = left.stale
          /\ v.size = grown /\ v.flags = f
          /\ End(v) = left.base + grown
      <3>1. v = [left EXCEPT !.size = grown]
        OBVIOUS
      <3>2. grown \in Int
        BY <1>3
      <3> HIDE DEF v, grown
      <3> QED
        BY <1>5, <1>6, <3>1, <3>2, ResizeLemma
    <2>2. End(v) = End(left) + n
      BY <1>3, <2>1
    <2>3. Changed(s, t, i, v)
      <3>1. t = [s EXCEPT ![i] = v]
        BY <1>10, <1>12, <1>15
      <3> HIDE DEF v
      <3> QED
        BY <1>1, <1>2, <2>1, <3>1, ExceptSeq DEF Changed
    <2> HIDE DEF v
    <2>4. Len(t) = Len(s) /\ nfree' = nfree
      BY <1>10, <1>15, <2>3 DEF Changed
    <2>5. EndsWithInfo(t)
      <3>1. i \in 1 .. Len(s) - 1
        BY <1>1, <1>2
      <3> QED
        BY <1>3, <1>9, <2>1, <2>3, <3>1, ChangedEnds
    <2>6. ASSUME Ordered(s) PROVE Ordered(t)
      <3>1. v.size > 0 /\ ~ v.stale
        BY <1>3, <1>8, <2>1, <2>6
      <3>2. /\ \A k \in 1 .. i - 1 : End(s[k]) <= v.base
            /\ \A k \in i + 1 .. Len(s) : End(v) <= s[k].base
        BY <1>8, <2>1, <2>2, <2>6
      <3> QED
        BY <1>1, <1>2, <2>1, <2>3, <2>6, <3>1, <3>2, ChangedOrdered
    <2>7. ASSUME Ordered(s) PROVE Gains(s, t, End(left), n, f)
      <3>1. \A p \in Int : Covers(v, p) <=>
              Covers(left, p) \/ p \in Run(End(left), n)
        BY <1>3, <1>8, <2>1, <2>2, <2>7, CoversGrown
      <3>2. s[i] = left
        BY DEF left
      <3> QED
        BY <1>1, <1>2, <1>3, <1>6, <2>1, <2>3, <3>1, <3>2, ChangedGains
    <2> QED
      BY <1>1, <1>6, <1>9, <2>4, <2>5, <2>6, <2>7
         DEF ListAllocates, ListInv, s, t, left
  <1> QED
    BY <1>14, <1>15

\* GrowRight extends the VMA behind the gap down to the one in front.
LEMMA GrowRightLemma ==
  ASSUME ListInv, NEW i \in 1 .. Len(vma_list) - 1, NEW n \in Nat, n > 0,
         NEW f \in FlagSets, HasRoom(i, n), End(vma_list[i]) >= VirtBase,
         GrowRight(i, n, f)
  PROVE  ListAllocates(End(vma_list[i]), n, f) /\ stopped' = stopped
  <1> DEFINE s == vma_list
             t == vma_list'
             left == s[i]
             right == s[i + 1]
             v == [right EXCEPT !.base = End(left), !.size = @ + n]
  <1>1. s \in Seq(VmaType) /\ Len(s) \in Nat
    BY ListFacts
  <1>2. i \in 1 .. Len(s) /\ i + 1 \in 1 .. Len(s)
    BY <1>1
  <1>3. /\ left.base \in Nat /\ End(left) \in Int /\ left.base <= InfoBase
        /\ End(left) = left.base + left.size /\ left.size \in Int
    BY <1>2, ListFacts
  <1>4. /\ right.base \in Nat /\ right.size \in Int /\ End(right) \in Int
        /\ End(right) = right.base + right.size /\ right.base <= InfoBase
        /\ InfoBase \in Nat /\ VirtBase \in Nat
    BY <1>2, ListFacts
  <1>5. right \in VmaType /\ f \in AllFlags
    BY <1>2, ListFacts DEF AllFlags
  <1>6. right.flags = f /\ End(left) + n = right.base
    BY DEF GrowRight, MeetsRight
  <1>7. stopped' = stopped /\ nfree' = nfree
    BY DEF GrowRight
  <1>8. End(left) >= VirtBase
    OBVIOUS
  <1>9. nfree \in Nat /\ Len(s) + nfree = NodeCount /\ EndsWithInfo(s)
    BY DEF ListInv
  <1>10. t = [s EXCEPT ![i + 1].base = End(left), ![i + 1].size = @ + n]
    BY DEF GrowRight
  <1>11. t = [s EXCEPT ![i + 1] = v]
    BY <1>1, <1>2, <1>5, <1>10, LenProperties
  <1>12. i + 1 # Len(s)
    BY <1>6, ListFacts
  <1> HIDE DEF s, t, left, right
  <1>13. /\ v \in VmaType /\ v.base = End(left) /\ v.size = right.size + n
         /\ v.flags = f /\ v.stale = right.stale
    <2> DEFINE b == End(left)
               z == right.size + n
    <2>1. v = [right EXCEPT !.base = b, !.size = z]
      OBVIOUS
    <2>2. b \in Nat /\ z \in Int
      BY <1>3, <1>4, <1>8, SMTT(30)
    <2> HIDE DEF v, b, z
    <2>3. /\ v \in VmaType /\ v.base = b /\ v.size = z
          /\ v.flags = right.flags /\ v.stale = right.stale
      BY <1>5, <2>1, <2>2 DEF VmaType
    <2> QED
      BY <1>6, <2>3 DEF b, z
  <1>14. End(v) = End(right)
    BY <1>3, <1>4, <1>6, <1>13 DEF End
  <1> HIDE DEF v
  <1>15. Changed(s, t, i + 1, v)
    BY <1>1, <1>2, <1>11, <1>13, ExceptSeq DEF Changed
  <1>16. EndsWithInfo(t)
    <2>1. i + 1 \in 1 .. Len(s) - 1
      BY <1>1, <1>2, <1>12
    <2>2. v.base <= InfoBase
      BY <1>3, <1>4, <1>6, <1>13
    <2> QED
      BY <1>9, <1>13, <1>15, <2>1, <2>2, ChangedEnds
  <1>17. ASSUME Ordered(s)
         PROVE  Ordered(t) /\ Gains(s, t, End(left), n, f)
    <2>1. /\ right.size > 0 /\ ~ right.stale /\ right.base <= End(right)
          /\ \A k \in 1 .. i : End(s[k]) <= End(left)
          /\ \A k \in i + 2 .. Len(s) : End(right) <= s[k].base
      <3>1. /\ s[i] = left /\ s[i + 1] = right /\ i \in 1 .. Len(s) - 1
            /\ End(s[i]) + n <= s[i + 1].base
        BY <1>1, <1>2, <1>3, <1>4, <1>6 DEF left, right
      <3>2. /\ s[i + 1].size > 0 /\ ~ s[i + 1].stale
            /\ s[i + 1].base < End(s[i + 1])
            /\ \A k \in 1 .. i : End(s[k]) <= End(s[i])
            /\ \A k \in i + 2 .. Len(s) : End(s[i + 1]) <= s[k].base
        BY <1>1, <1>17, <3>1, GapLemma
      <3> QED
        BY <1>4, <3>1, <3>2, SMTT(30)
    <2>2. v.size > 0 /\ ~ v.stale
      BY <1>4, <1>13, <2>1
    <2>3. /\ \A k \in 1 .. (i + 1) - 1 : End(s[k]) <= v.base
          /\ \A k \in (i + 1) + 1 .. Len(s) : End(v) <= s[k].base
      <3>1. (i + 1) - 1 = i /\ (i + 1) + 1 = i + 2
        BY <1>1, <1>2
      <3> QED
        BY <1>13, <1>14, <2>1, <3>1
    <2>4. Ordered(t)
      BY <1>1, <1>2, <1>13, <1>15, <1>17, <2>2, <2>3, ChangedOrdered
    <2>5. ASSUME NEW p \in Int
          PROVE  Covers(v, p) <=> Covers(right, p) \/ p \in Run(End(left), n)
      <3>1. right.base \in Int
        BY <1>4
      <3> QED
        BY <1>3, <1>4, <1>6, <1>13, <1>14, <2>1, <3>1, CoversGrownLeft
    <2>6. s[i + 1] = right
      BY DEF right
    <2> QED
      BY <1>1, <1>2, <1>3, <1>6, <1>13, <1>15, <2>4, <2>5, <2>6, ChangedGains
  <1>18. Len(t) = Len(s)
    BY <1>15 DEF Changed
  <1> QED
    BY <1>7, <1>9, <1>16, <1>17, <1>18 DEF ListAllocates, ListInv, s, t, left

\* An allocation that needs a node stops the kernel if there is none.
NoNode ==
  stopped' = "alloc_vma" /\ vma_list' = vma_list /\ nfree' = nfree

\* create_vma inserts a VMA for the pages of the gap.
LEMMA NewInGapLemma ==
  ASSUME ListInv, NEW i \in 1 .. Len(vma_list) - 1, NEW n \in Nat, n > 0,
         NEW f \in FlagSets, HasRoom(i, n), End(vma_list[i]) >= VirtBase,
         NewInGap(i, n, f)
  PROVE  \/ ListAllocates(End(vma_list[i]), n, f) /\ stopped' = stopped
         \/ NoNode
  <1> DEFINE s == vma_list
             t == vma_list'
             left == s[i]
             right == s[i + 1]
             at == Position(End(left))
             v == Vma(End(left), n, f)
  <1>1. s \in Seq(VmaType) /\ Len(s) \in Nat
    BY ListFacts
  <1>2. i \in 1 .. Len(s) /\ i + 1 \in 1 .. Len(s) /\ i \in 1 .. Len(s) - 1
    BY <1>1
  <1>3. /\ left.base \in Nat /\ End(left) \in Int
        /\ right.base \in Nat /\ right.base <= InfoBase
        /\ InfoBase \in Nat /\ VirtBase \in Nat
        /\ \A k \in 1 .. Len(s) : s[k].base \in Nat /\ End(s[k]) \in Int
    BY <1>2, ListFacts
  <1>4. End(left) >= VirtBase /\ End(left) + n <= right.base
    BY DEF HasRoom
  <1>5. nfree \in Nat /\ Len(s) + nfree = NodeCount /\ EndsWithInfo(s)
    BY DEF ListInv
  <1>6. WithNode(SubSeq(s, 1, at - 1) \o <<v>> \o Fresh(SubSeq(s, at, Len(s))))
    BY DEF NewInGap, create_vma, Before, From
  <1>7. End(left) \in Nat /\ End(left) <= InfoBase
    BY <1>3, <1>4
  <1>8. /\ at \in 1 .. Len(s) /\ s[at].base >= End(left)
        /\ \A j \in 1 .. at - 1 : s[j].base < End(left)
    BY <1>3, <1>5, <1>7, PositionLemma
  <1>9. /\ v \in VmaType /\ v.base = End(left) /\ v.size = n
        /\ v.flags = f /\ ~ v.stale /\ End(v) = End(left) + n
    BY <1>7 DEF Vma, VmaType, End
  <1> HIDE DEF s, t, left, right, at, v
  <1>10. CASE nfree = 0
    BY <1>6, <1>10 DEF WithNode, NoNode
  <1>11. CASE nfree # 0
    <2>1. /\ t = SubSeq(s, 1, at - 1) \o <<v>> \o Fresh(SubSeq(s, at, Len(s)))
          /\ nfree' = nfree - 1 /\ stopped' = stopped
      <3> DEFINE list == SubSeq(s, 1, at - 1) \o <<v>>
                           \o Fresh(SubSeq(s, at, Len(s)))
      <3>1. WithNode(list) /\ nfree > 0
        BY <1>5, <1>6, <1>11
      <3> HIDE DEF list
      <3>2. t = list /\ nfree' = nfree - 1 /\ stopped' = stopped
        BY <3>1 DEF WithNode, t
      <3> QED
        BY <3>2 DEF list
    <2>2. Inserted(s, t, at, v)
      <3>1. at \in 1 .. Len(s) + 1
        BY <1>1, <1>8
      <3> QED
        BY <1>1, <1>9, <2>1, <3>1, InsertLemma
    <2>3. EndsWithInfo(t)
      BY <1>5, <1>7, <1>8, <1>9, <2>2, InsertedEnds
    <2>4. Len(t) = Len(s) + 1 /\ nfree' = nfree - 1
      BY <2>1, <2>2 DEF Inserted
    <2>5. ASSUME Ordered(s) PROVE Ordered(t)
      <3>1. /\ \A k \in 1 .. i : End(s[k]) <= End(left)
            /\ \A k \in i + 1 .. Len(s) : End(left) + n <= s[k].base
            /\ left.base < End(left)
            /\ \A k \in 1 .. i - 1 : End(s[k]) <= left.base
        BY <1>1, <1>2, <1>4, <2>5, GapLemma DEF left, right
      <3>2. ASSUME NEW k \in 1 .. Len(s), k <= i PROVE s[k].base < End(left)
        <4>1. s[k].base < End(s[k])
          BY <1>1, <2>5, Members, SMTT(30) DEF Ordered, End
        <4>2. End(s[k]) <= End(left)
          BY <1>1, <1>2, <3>1, <3>2
        <4> QED
          BY <1>3, <4>1, <4>2
      <3>3. at > i
        BY <1>1, <1>2, <1>3, <1>8, <3>2
      <3>4. at = i + 1
        <4>1. at <= i + 1
          <5> SUFFICES ASSUME i + 1 < at PROVE FALSE
            BY <1>2, <1>8
          <5>1. i + 1 \in 1 .. at - 1
            BY <1>2, <1>8
          <5>2. right.base < End(left)
            BY <1>8, <5>1 DEF right
          <5> QED
            BY <1>3, <1>4, <5>2
        <4> QED
          BY <1>2, <1>8, <3>3, <4>1
      <3>5. /\ \A k \in 1 .. at - 1 : End(s[k]) <= v.base
            /\ \A k \in at .. Len(s) : End(v) <= s[k].base
        <4>1. at - 1 = i
          BY <1>2, <3>4
        <4> QED
          BY <1>9, <3>1, <3>4, <4>1
      <3>6. v.size > 0
        BY <1>9
      <3> QED
        BY <1>1, <1>8, <1>9, <2>2, <2>5, <3>5, <3>6, InsertedOrdered
    <2>6. Gains(s, t, End(left), n, f)
      BY <1>1, <1>8, <1>9, <2>2, InsertedGains
    <2>7. nfree' \in Nat /\ Len(t) + nfree' = NodeCount
      BY <1>1, <1>5, <1>11, <2>4
    <2> QED
      BY <2>1, <2>3, <2>5, <2>6, <2>7 DEF ListAllocates, ListInv, s, t, left
  <1> QED
    BY <1>10, <1>11

\* The first allocation goes in front of the pageinfo area.
LEMMA FirstVmaLemma ==
  ASSUME ListInv, Len(vma_list) = 1, NEW n \in Nat, n > 0, NEW f \in FlagSets,
         VirtBase + n <= vma_list[1].base,
         WithNode(<<Vma(VirtBase, n, f)>> \o Fresh(vma_list))
  PROVE  \/ nfree > 0 /\ ListAllocates(VirtBase, n, f) /\ stopped' = stopped
         \/ ~ (nfree > 0) /\ NoNode
  <1> DEFINE s == vma_list
             t == vma_list'
             v == Vma(VirtBase, n, f)
  <1>1. s \in Seq(VmaType) /\ Len(s) = 1
    BY ListFacts
  <1>2. s[1].base = InfoBase /\ InfoBase \in Nat /\ VirtBase \in Nat
    BY ListFacts
  <1>3. nfree \in Nat /\ Len(s) + nfree = NodeCount /\ EndsWithInfo(s)
    BY DEF ListInv
  <1>4. /\ v \in VmaType /\ v.base = VirtBase /\ v.size = n
        /\ v.flags = f /\ ~ v.stale /\ End(v) = VirtBase + n
    BY <1>2 DEF Vma, VmaType, End
  <1>5. CASE ~ (nfree > 0)
    BY <1>5 DEF WithNode, NoNode
  <1>6. CASE nfree > 0
    <2>1. t = <<v>> \o Fresh(s) /\ nfree' = nfree - 1 /\ stopped' = stopped
      BY <1>6 DEF WithNode
    <2> HIDE DEF v
    <2>2. Inserted(s, t, 1, v)
      BY <1>1, <1>4, <2>1, FirstLemma
    <2> HIDE DEF s, t
    <2>3. EndsWithInfo(t)
      <3>1. 1 \in 1 .. Len(s) /\ v.base <= InfoBase
        BY <1>1, <1>2, <1>4 DEF s
      <3> QED
        BY <1>3, <1>4, <2>2, <3>1, InsertedEnds
    <2>4. ASSUME Ordered(s) PROVE Ordered(t)
      <3>1. 1 \in 1 .. Len(s) /\ v.size > 0 /\ ~ v.stale
        BY <1>1, <1>4
      <3>2. /\ \A k \in 1 .. 1 - 1 : End(s[k]) <= v.base
            /\ \A k \in 1 .. Len(s) : End(v) <= s[k].base
        BY <1>1, <1>4 DEF s
      <3> QED
        BY <1>1, <1>4, <2>2, <2>4, <3>1, <3>2, InsertedOrdered
    <2>5. Gains(s, t, VirtBase, n, f)
      <3>1. 1 \in 1 .. Len(s)
        BY <1>1
      <3> QED
        BY <1>1, <1>4, <2>2, <3>1, InsertedGains
    <2>6. Len(t) = Len(s) + 1
      BY <2>2 DEF Inserted
    <2> QED
      BY <1>1, <1>3, <1>6, <2>1, <2>3, <2>4, <2>5, <2>6
         DEF ListAllocates, ListInv, s, t
  <1> QED
    BY <1>5, <1>6

Reasons == {"alloc_vma", "vmalloc", "vfree", "stale prev", "page fault"}

\* The kernel comes to a stop and nothing else changes.
Halts ==
  /\ stopped' \in Reasons
  /\ vma_list' = vma_list /\ nfree' = nfree
  /\ owner' = owner /\ mapped' = mapped

\* A client gets the n pages from addr on, none of which was allocated.
Allocates(addr, n, f) ==
  /\ VirtBase <= addr /\ addr + n <= InfoBase
  /\ ListAllocates(addr, n, f)
  /\ Ordered(vma_list) =>
       \A k \in 1 .. Len(vma_list), p \in Run(addr, n) : ~ Covers(vma_list[k], p)
  /\ Give(addr, n, f)
  /\ mapped' = mapped /\ stopped' = "no"

\* A vmalloc that succeeds allocates, whichever way the list changes.
LEMMA VmallocLemma ==
  ASSUME ListInv, NEW n \in 1 .. MaxPages, NEW f \in FlagSets, vmalloc(n, f)
  PROVE  Halts \/ \E addr \in Nat : Allocates(addr, n, f)
  <1>1. n \in Nat /\ n > 0
    BY LayoutAssumption
  <1>2. stopped = "no"
    BY DEF vmalloc, Running
  <1>3. ASSUME VmallocFirst(n, f)
        PROVE  Halts \/ \E addr \in Nat : Allocates(addr, n, f)
    <2>1. Len(vma_list) = 1
      BY <1>3 DEF VmallocFirst
    <2>2. CASE VirtBase + n <= vma_list[1].base
      <3>1. /\ WithNode(<<Vma(VirtBase, n, f)>> \o Fresh(vma_list))
            /\ IF nfree > 0 THEN Give(VirtBase, n, f) ELSE UNCHANGED owner
            /\ mapped' = mapped
        BY <1>3, <2>2 DEF VmallocFirst
      <3>2. \/ /\ nfree > 0 /\ ListAllocates(VirtBase, n, f)
               /\ stopped' = stopped
            \/ ~ (nfree > 0) /\ NoNode
        BY <1>1, <2>1, <2>2, <3>1, FirstVmaLemma
      <3>3. CASE ~ (nfree > 0) /\ NoNode
        BY <3>1, <3>3 DEF NoNode, Halts, Reasons
      <3>4. CASE nfree > 0 /\ ListAllocates(VirtBase, n, f) /\ stopped' = stopped
        <4>1. /\ vma_list[1].base = InfoBase /\ VirtBase \in Nat
              /\ InfoBase \in Nat
          BY <2>1, ListFacts
        <4>2. \A k \in 1 .. Len(vma_list), p \in Run(VirtBase, n) :
                ~ Covers(vma_list[k], p)
          BY <1>1, <2>1, <2>2, <4>1 DEF Run, Covers
        <4>3. Allocates(VirtBase, n, f)
          BY <1>2, <2>2, <3>1, <3>4, <4>1, <4>2 DEF Allocates
        <4> QED
          BY <4>1, <4>3
      <3> QED
        BY <3>2, <3>3, <3>4
    <2>3. CASE ~ (VirtBase + n <= vma_list[1].base)
      BY <1>3, <2>3 DEF VmallocFirst, Stop, Halts, Reasons
    <2> QED
      BY <2>2, <2>3
  <1>4. ASSUME VmallocGap(n, f)
        PROVE  Halts \/ \E addr \in Nat : Allocates(addr, n, f)
    <2>1. PICK i \in Gaps(n) :
            /\ GrowLeft(i, n, f) \/ GrowRight(i, n, f) \/ NewInGap(i, n, f)
            /\ IF stopped' = "no" THEN Give(End(vma_list[i]), n, f)
                                  ELSE UNCHANGED owner
      BY <1>4 DEF VmallocGap
    <2>2. mapped' = mapped
      BY <1>4 DEF VmallocGap
    <2>3. /\ i \in 1 .. Len(vma_list) - 1
          /\ End(vma_list[i]) >= VirtBase /\ HasRoom(i, n)
      BY DEF Gaps
    <2>4. \/ ListAllocates(End(vma_list[i]), n, f) /\ stopped' = stopped
          \/ NoNode
      BY <1>1, <2>1, <2>3, GrowLeftLemma, GrowRightLemma, NewInGapLemma
    <2>5. CASE NoNode
      BY <2>1, <2>2, <2>5 DEF NoNode, Halts, Reasons
    <2>6. CASE ListAllocates(End(vma_list[i]), n, f) /\ stopped' = stopped
      <3> DEFINE addr == End(vma_list[i])
      <3>1. /\ Len(vma_list) \in Nat /\ vma_list \in Seq(VmaType)
            /\ \A k \in 1 .. Len(vma_list) :
                 /\ vma_list[k].base \in Nat /\ End(vma_list[k]) \in Int
                 /\ vma_list[k].base <= InfoBase
            /\ VirtBase \in Nat /\ InfoBase \in Nat
        BY ListFacts
      <3>2. addr + n <= vma_list[i + 1].base
        BY <2>3 DEF HasRoom
      <3>3. addr \in Nat /\ VirtBase <= addr /\ addr + n <= InfoBase
        BY <2>3, <3>1, <3>2
      <3>4. ASSUME Ordered(vma_list), NEW k \in 1 .. Len(vma_list),
                   NEW p \in Run(addr, n)
            PROVE  ~ Covers(vma_list[k], p)
        <4>1. /\ k <= i => End(vma_list[k]) <= addr
              /\ k > i => addr + n <= vma_list[k].base
          <5>1. /\ \A j \in 1 .. i : End(vma_list[j]) <= addr
                /\ \A j \in i + 1 .. Len(vma_list) : addr + n <= vma_list[j].base
            BY <1>1, <2>3, <3>1, <3>2, <3>4, GapLemma
          <5>2. /\ k <= i => k \in 1 .. i
                /\ k > i => k \in i + 1 .. Len(vma_list)
            BY <2>3, <3>1
          <5> QED
            BY <5>1, <5>2
        <4>2. p \in Int /\ addr <= p /\ p < addr + n
          BY <1>1, <3>3 DEF Run
        <4> HIDE DEF addr
        <4> QED
          BY <1>1, <2>3, <3>1, <3>3, <4>1, <4>2, SMTT(30) DEF Covers
      <3>5. Give(addr, n, f) /\ stopped' = "no"
        BY <1>2, <2>1, <2>6
      <3>6. Allocates(addr, n, f)
        BY <2>2, <2>6, <3>3, <3>4, <3>5 DEF Allocates
      <3> QED
        BY <3>3, <3>6
    <2> QED
      BY <2>4, <2>5, <2>6
  <1>5. ASSUME VmallocExhausted(n) PROVE Halts
    BY <1>5 DEF VmallocExhausted, Stop, Halts, Reasons
  <1> QED
    BY <1>3, <1>4, <1>5 DEF vmalloc

----------------------------------------------------------------------------
(* What vfree does to the list *)

\* The list gives up the n pages from addr on.
ListFrees(addr, n) ==
  /\ ListInv'
  /\ late' = 0 /\ Ordered(vma_list) =>
       /\ Ordered(vma_list')
       /\ Loses(vma_list, vma_list', addr, n)

\* The VMA that holds a page in front of the pageinfo area is not the last.
LEMMA TargetLemma ==
  ASSUME ListInv, NEW addr \in Pages, NEW i \in 1 .. Len(vma_list),
         vma_list[i].base <= addr
  PROVE  /\ i \in 1 .. Len(vma_list) - 1
         /\ addr \in Int
  <1>1. addr \in Int /\ addr < InfoBase
    BY LayoutAssumption DEF Pages
  <1>2. vma_list[Len(vma_list)].base = InfoBase /\ Len(vma_list) \in Nat
    BY ListFacts
  <1>3. i # Len(vma_list)
    BY <1>1, <1>2, ListFacts
  <1> QED
    BY <1>1, <1>2, <1>3

\* Freeing a whole VMA takes it out, unless its prev pointer is stale.
LEMMA FreeWholeLemma ==
  ASSUME ListInv, NEW i \in 1 .. Len(vma_list) - 1, FreeWhole(i)
  PROVE  \/ /\ ListFrees(vma_list[i].base, vma_list[i].size)
            /\ stopped' = stopped
         \/ /\ stopped' = "stale prev" /\ vma_list' = vma_list
            /\ nfree' = nfree
  <1> DEFINE s == vma_list
             t == vma_list'
  <1>1. s \in Seq(VmaType) /\ Len(s) \in Nat
    BY ListFacts
  <1>2. i \in 1 .. Len(s)
    BY <1>1
  <1>3. nfree \in Nat /\ Len(s) + nfree = NodeCount /\ EndsWithInfo(s)
    BY DEF ListInv
  <1>4. CASE s[i].stale
    BY <1>4 DEF FreeWhole
  <1>5. CASE ~ s[i].stale
    <2>1. /\ t = SubSeq(s, 1, i - 1) \o Fresh(SubSeq(s, i + 1, Len(s)))
          /\ nfree' = nfree + 1 /\ stopped' = stopped
      BY <1>5 DEF FreeWhole, Before, From
    <2>2. Dropped(s, t, i)
      BY <1>1, <1>2, <2>1, DropLemma
    <2> HIDE DEF s, t
    <2>3. EndsWithInfo(t)
      <3>1. i \in 1 .. Len(s) - 1
        BY DEF s
      <3> QED
        BY <1>3, <2>2, <3>1, DroppedEnds
    <2>4. Ordered(s) => Ordered(t) /\ Loses(s, t, s[i].base, s[i].size)
      BY <1>1, <1>2, <2>2, DroppedOrdered, DroppedLoses
    <2>5. Len(t) = Len(s) - 1 /\ nfree' = nfree + 1
      BY <2>1, <2>2 DEF Dropped
    <2>6. nfree' \in Nat /\ Len(t) + nfree' = NodeCount
      BY <1>1, <1>3, <2>5
    <2> QED
      BY <2>1, <2>3, <2>4, <2>6 DEF ListFrees, ListInv, s, t
  <1> QED
    BY <1>4, <1>5

\* Freeing the end of a VMA makes it shorter.
LEMMA FreeEndLemma ==
  ASSUME ListInv, NEW i \in 1 .. Len(vma_list) - 1,
         NEW addr \in Int, NEW n \in Nat, n > 0,
         vma_list[i].base < addr, addr + n = End(vma_list[i]), FreeEnd(i, n)
  PROVE  ListFrees(addr, n) /\ stopped' = stopped
  <1> DEFINE s == vma_list
             t == vma_list'
             old == s[i]
             z == old.size - n
             v == [old EXCEPT !.size = z]
  <1>1. s \in Seq(VmaType) /\ Len(s) \in Nat
    BY ListFacts
  <1>2. i \in 1 .. Len(s)
    BY <1>1
  <1>3. /\ old \in VmaType /\ old.base \in Nat /\ old.size \in Int
        /\ End(old) = old.base + old.size /\ old.base <= InfoBase
    BY <1>2, ListFacts
  <1>4. nfree \in Nat /\ Len(s) + nfree = NodeCount /\ EndsWithInfo(s)
    BY DEF ListInv
  <1>5. nfree' = nfree /\ stopped' = stopped
    BY DEF FreeEnd
  <1>6. t = [s EXCEPT ![i].size = z]
    BY DEF FreeEnd, ShrunkSize
  <1>7. t = [s EXCEPT ![i] = v]
    BY <1>6
  <1>8. old.base < addr /\ addr + n = End(old)
    OBVIOUS
  <1>9. z \in Int /\ old.base + z = addr /\ z > 0
    BY <1>3, <1>8, SMTT(30)
  <1>10. v = [old EXCEPT !.size = z]
    OBVIOUS
  <1> HIDE DEF s, t, old, z, v
  <1>11. /\ v \in VmaType /\ v.base = old.base /\ v.size = z
         /\ v.flags = old.flags /\ v.stale = old.stale
         /\ End(v) = old.base + z
    BY <1>3, <1>9, <1>10, ResizeLemma
  <1>12. Changed(s, t, i, v)
    BY <1>1, <1>2, <1>7, <1>11, ExceptSeq DEF Changed
  <1>13. EndsWithInfo(t)
    <2>1. i \in 1 .. Len(s) - 1
      BY DEF s
    <2> QED
      BY <1>3, <1>4, <1>11, <1>12, <2>1, ChangedEnds
  <1>14. ASSUME Ordered(s) PROVE Ordered(t) /\ Loses(s, t, addr, n)
    <2>1. s[i] = old
      BY DEF old
    <2>2. v.size > 0 /\ ~ v.stale
      BY <1>2, <1>9, <1>11, <1>14, <2>1 DEF Ordered
    <2>3. ASSUME NEW k \in 1 .. i - 1 PROVE End(s[k]) <= v.base
      <3>1. k \in 1 .. Len(s) /\ k < i
        BY <1>1, <1>2
      <3> QED
        BY <1>2, <1>11, <1>14, <2>1, <3>1 DEF Ordered
    <2>4. ASSUME NEW k \in i + 1 .. Len(s) PROVE End(v) <= s[k].base
      <3>1. k \in 1 .. Len(s) /\ i < k
        BY <1>1, <1>2
      <3>2. End(old) <= s[k].base
        BY <1>2, <1>14, <2>1, <3>1 DEF Ordered
      <3>3. s[k].base \in Int
        BY <1>1, <3>1, Members, SMTT(30)
      <3> QED
        BY <1>3, <1>8, <1>9, <1>11, <3>2, <3>3, SMTT(30)
    <2>5. Ordered(t)
      BY <1>1, <1>2, <1>11, <1>12, <1>14, <2>2, <2>3, <2>4, ChangedOrdered
    <2>6. ASSUME NEW p \in Int
          PROVE  Covers(v, p) <=> Covers(old, p) /\ p \notin Run(addr, n)
      <3>1. /\ old.base \in Int /\ End(old) \in Int /\ End(v) = addr
            /\ old.base <= addr
        BY <1>3, <1>8, <1>9, <1>11, SMTT(30)
      <3> QED
        BY <1>8, <1>11, <3>1, CoversShrunk
    <2>7. \A p \in Run(addr, n) : Covers(old, p)
      BY <1>3, <1>8 DEF Covers, Run
    <2> QED
      BY <1>1, <1>2, <1>11, <1>12, <1>14, <2>1, <2>5, <2>6, <2>7, ChangedLoses
  <1>15. Len(t) = Len(s)
    BY <1>12 DEF Changed
  <1> QED
    BY <1>4, <1>5, <1>13, <1>14, <1>15 DEF ListFrees, ListInv, s, t

\* Cutting off a start moves the base up, but not past the pageinfo area.
LEMMA FreeStartLemma ==
  ASSUME ListInv, NEW i \in 1 .. Len(vma_list) - 1, NEW n \in Nat,
         vma_list[i].base + n <= InfoBase, FreeStart(i, n)
  PROVE  ListInv' /\ stopped' = stopped
  <1> DEFINE s == vma_list
             t == vma_list'
             old == s[i]
             b == old.base + n
             v == [old EXCEPT !.base = b]
  <1>1. s \in Seq(VmaType) /\ Len(s) \in Nat
    BY ListFacts
  <1>2. i \in 1 .. Len(s) /\ i \in 1 .. Len(s) - 1
    BY <1>1
  <1>3. old \in VmaType /\ old.base \in Nat
    BY <1>2, ListFacts
  <1>4. nfree \in Nat /\ Len(s) + nfree = NodeCount /\ EndsWithInfo(s)
    BY DEF ListInv
  <1>5. nfree' = nfree /\ stopped' = stopped
    BY DEF FreeStart
  <1>6. t = [s EXCEPT ![i].base = b]
    BY DEF FreeStart
  <1>7. t = [s EXCEPT ![i] = v]
    BY <1>6
  <1>8. b \in Nat /\ b <= InfoBase
    BY <1>3
  <1> HIDE DEF s, t, old, b
  <1>9. v \in VmaType /\ v.base = b
    BY <1>3, <1>8 DEF VmaType
  <1> HIDE DEF v
  <1>10. Changed(s, t, i, v)
    BY <1>1, <1>2, <1>7, <1>9, ExceptSeq DEF Changed
  <1>11. EndsWithInfo(t)
    BY <1>2, <1>4, <1>8, <1>9, <1>10, ChangedEnds
  <1>12. Len(t) = Len(s)
    BY <1>10 DEF Changed
  <1> QED
    BY <1>4, <1>5, <1>11, <1>12 DEF ListInv, s, t

\* Splitting needs a node.
LEMMA FreeMiddleLemma ==
  ASSUME ListInv, NEW i \in 1 .. Len(vma_list) - 1,
         NEW addr \in Nat, NEW n \in Nat, addr + n <= InfoBase,
         FreeMiddle(i, addr, n)
  PROVE  (ListInv' /\ stopped' = stopped) \/ NoNode
  <1> DEFINE s == vma_list
             t == vma_list'
             old == s[i]
             z == addr - old.base
             l == [old EXCEPT !.size = z]
  <1>1. s \in Seq(VmaType) /\ Len(s) \in Nat
    BY ListFacts
  <1>2. i \in 1 .. Len(s) /\ i \in 1 .. Len(s) - 1
    BY <1>1
  <1>3. /\ old \in VmaType /\ old.base \in Nat /\ old.base <= InfoBase
        /\ InfoBase \in Nat
    BY <1>2, ListFacts
  <1>4. nfree \in Nat /\ Len(s) + nfree = NodeCount /\ EndsWithInfo(s)
    BY DEF ListInv
  <1>5. l = [old EXCEPT !.size = z] /\ z \in Int
    BY <1>3
  <1>6. PICK flags \in AllFlags :
          WithNode(SubSeq(s, 1, i - 1)
            \o <<l, Vma(addr + n, End(l) - (addr + n), flags)>>
            \o Stale(SubSeq(s, i + 1, Len(s))))
    BY DEF FreeMiddle, Before, From, AllFlags
  <1> HIDE DEF s, t, old, z, l
  <1>7. /\ l \in VmaType /\ l.base = old.base /\ End(l) = old.base + z
    BY <1>3, <1>5, ResizeLemma
  <1> DEFINE r == Vma(addr + n, End(l) - (addr + n), flags)
  <1>8. r \in VmaType /\ r.base = addr + n
    <2>1. addr + n \in Nat /\ End(l) - (addr + n) \in Int
      BY <1>3, <1>5, <1>7
    <2> QED
      BY <2>1 DEF Vma, VmaType, AllFlags
  <1> DEFINE list == SubSeq(s, 1, i - 1) \o <<l, r>>
                       \o Stale(SubSeq(s, i + 1, Len(s)))
  <1>9. WithNode(list)
    BY <1>6
  <1> HIDE DEF r
  <1>10. Divided(s, list, i, l, r)
    BY <1>1, <1>2, <1>7, <1>8, DivideLemma
  <1> HIDE DEF list
  <1>11. CASE nfree > 0
    <2>1. t = list /\ nfree' = nfree - 1 /\ stopped' = stopped
      BY <1>9, <1>11 DEF WithNode, t
    <2>2. EndsWithInfo(t)
      BY <1>2, <1>3, <1>4, <1>7, <1>8, <1>10, <2>1, DividedEnds
    <2>3. Len(t) = Len(s) + 1
      BY <1>10, <2>1 DEF Divided
    <2> QED
      BY <1>1, <1>4, <1>11, <2>1, <2>2, <2>3 DEF ListInv, s, t
  <1>12. CASE ~ (nfree > 0)
    BY <1>9, <1>12 DEF WithNode, NoNode
  <1> QED
    BY <1>11, <1>12

\* A client loses the n pages from addr on.
Frees(addr, n) ==
  /\ ListFrees(addr, n)
  /\ Take(addr, n)
  /\ mapped' \subseteq mapped /\ stopped' = "no"

\* A vfree that succeeds frees, whichever part of a VMA the pages are.
LEMMA VfreeLemma ==
  ASSUME ListInv, late \in Nat, Owned \subseteq Pages,
         NEW addr \in Pages, NEW n \in 1 .. MaxPages, vfree(addr, n)
  PROVE  Halts \/ Frees(addr, n)
  <1> DEFINE i == FreeIndex(addr)
             v == vma_list[i]
             part == PartOf(v, addr, n)
  <1>1. n \in Nat /\ n > 0 /\ addr \in Nat /\ InfoBase \in Nat
    BY LayoutAssumption DEF Pages
  <1>2. /\ stopped = "no" /\ Run(addr, n) \subseteq Owned
        /\ IF v.base <= addr /\ addr + n <= End(v)
             THEN /\ FreePart(part, i, addr, n)
                  /\ IF stopped' = "no"
                       THEN Take(addr, n) /\ mapped' = Unmapped(addr, n)
                       ELSE UNCHANGED <<owner, mapped>>
             ELSE Stop("vfree") /\ CountLate(FALSE)
    BY DEF vfree, Running
  <1>3. i \in 1 .. Len(vma_list)
    <2>1. addr \in Int /\ EndsWithInfo(vma_list)
      BY <1>1 DEF ListInv
    <2> QED
      BY <2>1, FreeIndexLemma
  <1>4. addr + n <= InfoBase
    <2>1. addr + n - 1 \in Run(addr, n)
      BY <1>1 DEF Run
    <2>2. addr + n - 1 \in Pages
      BY <1>2, <2>1
    <2> QED
      BY <1>1, <2>2, LayoutAssumption DEF Pages
  <1>5. CASE ~ (v.base <= addr /\ addr + n <= End(v))
    BY <1>2, <1>5 DEF Stop, Halts, Reasons
  <1>6. CASE v.base <= addr /\ addr + n <= End(v)
    <2> HIDE DEF i
    <2>1. i \in 1 .. Len(vma_list) - 1
      BY <1>3, <1>6, TargetLemma
    <2>2. /\ v.base \in Nat /\ v.size \in Int /\ End(v) = v.base + v.size
      BY <1>3, ListFacts
    <2>3. Unmapped(addr, n) \subseteq mapped
      BY DEF Unmapped
    <2>4. /\ FreePart(part, i, addr, n)
          /\ IF stopped' = "no"
               THEN Take(addr, n) /\ mapped' = Unmapped(addr, n)
               ELSE UNCHANGED <<owner, mapped>>
      BY <1>2, <1>6
    <2>5. /\ \/ part = "whole" /\ FreeWhole(i)
             \/ part = "start" /\ FreeStart(i, n)
             \/ part = "end" /\ FreeEnd(i, n)
             \/ part = "middle" /\ FreeMiddle(i, addr, n)
          /\ CountLate(part \in {"start", "middle"})
      BY <2>4 DEF FreePart
    <2>6. \/ ListFrees(addr, n) /\ stopped' = stopped
          \/ stopped' \in Reasons /\ vma_list' = vma_list /\ nfree' = nfree
      <3>1. CASE part = "whole" /\ FreeWhole(i)
        <4>1. addr = v.base /\ n = v.size
          BY <3>1 DEF PartOf
        <4> QED
          BY <2>1, <3>1, <4>1, FreeWholeLemma DEF Reasons
      <3>2. CASE part = "start" /\ FreeStart(i, n)
        <4>1. addr = v.base
          BY <3>2 DEF PartOf
        <4>2. late' = late + 1
          BY <2>5, <3>2 DEF CountLate
        <4>3. ListInv' /\ stopped' = stopped
          BY <1>1, <1>4, <2>1, <3>2, <4>1, FreeStartLemma
        <4> QED
          BY <4>2, <4>3 DEF ListFrees
      <3>3. CASE part = "end" /\ FreeEnd(i, n)
        <4>1. addr # v.base /\ addr + n = End(v)
          BY <3>3 DEF PartOf
        <4>2. v.base < addr
          BY <1>1, <1>6, <2>2, <4>1
        <4> QED
          BY <1>1, <2>1, <3>3, <4>1, <4>2, FreeEndLemma
      <3>4. CASE part = "middle" /\ FreeMiddle(i, addr, n)
        <4>1. late' = late + 1
          BY <2>5, <3>4 DEF CountLate
        <4>2. (ListInv' /\ stopped' = stopped) \/ NoNode
          BY <1>1, <1>4, <2>1, <3>4, FreeMiddleLemma
        <4>3. late' # 0
          BY <4>1
        <4>4. ListInv' /\ stopped' = stopped => ListFrees(addr, n)
          BY <4>3 DEF ListFrees
        <4>5. NoNode => /\ stopped' \in Reasons /\ vma_list' = vma_list
                        /\ nfree' = nfree
          BY DEF NoNode, Reasons
        <4> QED
          BY <4>2, <4>4, <4>5
      <3> QED
        BY <2>5, <3>1, <3>2, <3>3, <3>4
    <2> QED
      BY <1>2, <2>3, <2>4, <2>6 DEF Frees, Halts, Reasons
  <1> QED
    BY <1>5, <1>6

----------------------------------------------------------------------------
(* The inductive invariant *)

\* The owned and the mapped pages are pages of the area.
OwnInv ==
  /\ owner \in [Owned -> FlagSets] /\ Owned \subseteq Pages
  /\ mapped \subseteq Pages
  /\ stopped \in Reasons \cup {"no"}
  /\ late \in Nat

\* Until vfree cuts off a start or a middle, the list is ordered and says what
\* the clients own.
AreaInv == late = 0 => Ordered(vma_list) /\ Represents(vma_list, owner)

IInv == ListInv /\ OwnInv /\ AreaInv

\* vmem_init leaves one VMA, the pageinfo area, and every other node free.
LEMMA IInvInit == Init => IInv
  <1> SUFFICES ASSUME Init PROVE IInv
    OBVIOUS
  <1> DEFINE info == Vma(InfoBase, InfoSize, InfoFlags)
             s == <<info>>
  <1>1. /\ info \in VmaType /\ info.base = InfoBase /\ info.size = InfoSize
        /\ ~ info.stale
    BY LayoutAssumption DEF Vma, VmaType
  <1>2. vma_list = s /\ nfree = NodeCount - 1 /\ owner = [p \in {} |-> 0]
    BY DEF Init
  <1> HIDE DEF info
  <1>3. s \in Seq(VmaType) /\ Len(s) = 1 /\ s[1] = info
    BY <1>1
  <1>4. EndsWithInfo(s)
    <2>1. SameArea(s[Len(s)], Vma(InfoBase, InfoSize, InfoFlags))
      BY <1>3 DEF SameArea, info
    <2>2. \A k \in 1 .. Len(s) : s[k].base <= InfoBase
      BY <1>1, <1>3, LayoutAssumption
    <2> QED
      BY <1>3, <2>1, <2>2 DEF EndsWithInfo
  <1>5. Ordered(s)
    BY <1>1, <1>3, LayoutAssumption DEF Ordered
  <1>6. Represents(s, owner)
    <2>1. \A p \in Pages : ~ Covers(s[1], p)
      BY <1>1, <1>3, LayoutAssumption DEF Pages, Covers
    <2>2. DOMAIN owner = {}
      BY <1>2
    <2> QED
      BY <1>3, <2>1, <2>2 DEF Represents, CoveredWith
  <1> HIDE DEF s
  <1>7. ListInv
    BY <1>2, <1>3, <1>4, LayoutAssumption DEF ListInv
  <1>8. OwnInv
    BY DEF Init, OwnInv, Owned
  <1> QED
    BY <1>2, <1>5, <1>6, <1>7, <1>8 DEF IInv, AreaInv

\* What a client gets, it owns.
LEMMA GiveLemma ==
  ASSUME NEW addr \in Nat, NEW n \in Nat, NEW f \in FlagSets, OwnInv,
         VirtBase <= addr, addr + n <= InfoBase, Give(addr, n, f)
  PROVE  /\ owner' \in [Owned' -> FlagSets] /\ Owned' \subseteq Pages
         /\ Owned' = Owned \cup Run(addr, n)
         /\ \A p \in Owned' : owner'[p] = IF p \in Run(addr, n) THEN f
                                                              ELSE owner[p]
  <1>1. Run(addr, n) \subseteq Pages
    BY LayoutAssumption DEF Run, Pages
  <1>2. /\ owner \in [Owned -> FlagSets] /\ Owned \subseteq Pages
    BY DEF OwnInv
  <1>3. owner' = [p \in Owned \cup Run(addr, n) |->
                   IF p \in Run(addr, n) THEN f ELSE owner[p]]
    BY DEF Give
  <1>4. Owned' = Owned \cup Run(addr, n)
    BY <1>3 DEF Owned
  <1> QED
    BY <1>1, <1>2, <1>3, <1>4

\* What it gives back, it no longer owns.
LEMMA TakeLemma ==
  ASSUME NEW addr, NEW n, OwnInv, Take(addr, n)
  PROVE  /\ owner' \in [Owned' -> FlagSets] /\ Owned' \subseteq Pages
         /\ Owned' = Owned \ Run(addr, n)
         /\ \A p \in Owned' : owner'[p] = owner[p]
  <1>1. /\ owner \in [Owned -> FlagSets] /\ Owned \subseteq Pages
    BY DEF OwnInv
  <1>2. owner' = [p \in Owned \ Run(addr, n) |-> owner[p]]
    BY DEF Take
  <1>3. Owned' = Owned \ Run(addr, n)
    BY <1>2 DEF Owned
  <1> QED
    BY <1>1, <1>2, <1>3

\* An allocation keeps the list and the owners in agreement.
LEMMA GainsRepresents ==
  ASSUME NEW addr \in Nat, NEW n \in Nat, NEW f \in FlagSets, OwnInv,
         Allocates(addr, n, f), Ordered(vma_list), Represents(vma_list, owner),
         vma_list \in Seq(VmaType)
  PROVE  Represents(vma_list', owner')
  <1>1. /\ Owned' = Owned \cup Run(addr, n)
        /\ \A p \in Owned' : owner'[p] = IF p \in Run(addr, n) THEN f
                                                             ELSE owner[p]
    BY GiveLemma DEF Allocates
  <1>2. Gains(vma_list, vma_list', addr, n, f)
    BY DEF Allocates, ListAllocates
  <1>3. \A p \in Pages, g \in AllFlags :
          p \in Run(addr, n) => ~ CoveredWith(vma_list, p, g)
    BY DEF Allocates, CoveredWith
  <1>4. Pages \subseteq Int
    BY LayoutAssumption DEF Pages
  <1> SUFFICES ASSUME NEW p \in Pages, NEW g \in AllFlags
               PROVE  CoveredWith(vma_list', p, g) <=>
                        p \in Owned' /\ owner'[p] = g
    BY DEF Represents, Owned
  <1>5. CoveredWith(vma_list', p, g) <=>
          CoveredWith(vma_list, p, g) \/ (p \in Run(addr, n) /\ g = f)
    BY <1>2, <1>4 DEF Gains
  <1>6. CoveredWith(vma_list, p, g) <=> p \in Owned /\ owner[p] = g
    BY DEF Represents, Owned
  <1> QED
    BY <1>1, <1>3, <1>5, <1>6

\* So does a free.
LEMMA LosesRepresents ==
  ASSUME NEW addr, NEW n, OwnInv, Frees(addr, n), late' = 0,
         Ordered(vma_list), Represents(vma_list, owner)
  PROVE  Represents(vma_list', owner')
  <1>1. /\ Owned' = Owned \ Run(addr, n)
        /\ \A p \in Owned' : owner'[p] = owner[p]
    BY TakeLemma DEF Frees
  <1>2. Loses(vma_list, vma_list', addr, n)
    BY DEF Frees, ListFrees
  <1>3. Pages \subseteq Int
    BY LayoutAssumption DEF Pages
  <1> SUFFICES ASSUME NEW p \in Pages, NEW g \in AllFlags
               PROVE  CoveredWith(vma_list', p, g) <=>
                        p \in Owned' /\ owner'[p] = g
    BY DEF Represents, Owned
  <1>4. CoveredWith(vma_list', p, g) <=>
          CoveredWith(vma_list, p, g) /\ p \notin Run(addr, n)
    BY <1>2, <1>3 DEF Loses
  <1>5. CoveredWith(vma_list, p, g) <=> p \in Owned /\ owner[p] = g
    BY DEF Represents, Owned
  <1> QED
    BY <1>1, <1>4, <1>5

\* What the steps do to late.
LEMMA LateLemma ==
  ASSUME late \in Nat, NEW cut, CountLate(cut)
  PROVE  late' \in Nat /\ (late' = 0 => late = 0)
  BY DEF CountLate

\* Every step of a client, each a whole vmalloc or vfree, keeps the invariant.
LEMMA IInvStep == IInv /\ [Next]_vars => IInv'
  <1> SUFFICES ASSUME IInv, [Next]_vars PROVE IInv'
    OBVIOUS
  <1>1. ListInv /\ OwnInv /\ AreaInv
    BY DEF IInv
  <1>2. /\ late \in Nat /\ Owned \subseteq Pages
        /\ vma_list \in Seq(VmaType) /\ MaxPages \in Nat
    BY <1>1, ListFacts, LayoutAssumption DEF OwnInv
  <1>3. ASSUME Halts, late' \in Nat, late' = 0 => late = 0 PROVE IInv'
    <2>1. ListInv'
      BY <1>1, <1>3 DEF Halts, ListInv
    <2>2. OwnInv'
      BY <1>1, <1>3 DEF Halts, OwnInv, Owned
    <2>3. AreaInv'
      BY <1>1, <1>3 DEF Halts, AreaInv
    <2> QED
      BY <2>1, <2>2, <2>3 DEF IInv
  <1>4. ASSUME NEW n \in 1 .. MaxPages, NEW f \in FlagSets, vmalloc(n, f)
        PROVE  IInv'
    <2>1. late' \in Nat /\ (late' = 0 => late = 0)
      BY <1>2, <1>4, LateLemma DEF vmalloc
    <2>2. CASE Halts
      BY <1>3, <2>1, <2>2
    <2>3. ASSUME NEW addr \in Nat, Allocates(addr, n, f) PROVE IInv'
      <3>1. n \in Nat
        BY <1>2
      <3>2. ListInv'
        BY <2>3 DEF Allocates, ListAllocates
      <3>3. OwnInv'
        <4>1. owner' \in [Owned' -> FlagSets] /\ Owned' \subseteq Pages
          BY <1>1, <2>3, <3>1, GiveLemma DEF Allocates
        <4>2. mapped' \subseteq Pages /\ stopped' = "no"
          BY <1>1, <2>3 DEF Allocates, OwnInv
        <4> QED
          BY <2>1, <4>1, <4>2 DEF OwnInv
      <3>4. ASSUME late' = 0
            PROVE  Ordered(vma_list') /\ Represents(vma_list', owner')
        <4>1. Ordered(vma_list) /\ Represents(vma_list, owner)
          BY <1>1, <2>1, <3>4 DEF AreaInv
        <4>2. Ordered(vma_list')
          BY <2>3, <4>1 DEF Allocates, ListAllocates
        <4> QED
          BY <1>1, <1>2, <2>3, <3>1, <4>1, <4>2, GainsRepresents
      <3> QED
        BY <3>2, <3>3, <3>4 DEF IInv, AreaInv
    <2> QED
      BY <1>1, <1>4, <2>2, <2>3, VmallocLemma
  <1>5. ASSUME NEW addr \in Pages, NEW n \in 1 .. MaxPages, vfree(addr, n)
        PROVE  IInv'
    <2>1. late' \in Nat /\ (late' = 0 => late = 0)
      BY <1>2, <1>5, LateLemma DEF vfree, FreePart
    <2>2. CASE Halts
      BY <1>3, <2>1, <2>2
    <2>3. CASE Frees(addr, n)
      <3>1. ListInv'
        BY <2>3 DEF Frees, ListFrees
      <3>2. OwnInv'
        <4>1. owner' \in [Owned' -> FlagSets] /\ Owned' \subseteq Pages
          BY <1>1, <2>3, TakeLemma DEF Frees
        <4>2. mapped' \subseteq Pages /\ stopped' = "no"
          BY <1>1, <2>3 DEF Frees, OwnInv
        <4> QED
          BY <2>1, <4>1, <4>2 DEF OwnInv
      <3>3. ASSUME late' = 0
            PROVE  Ordered(vma_list') /\ Represents(vma_list', owner')
        <4>1. Ordered(vma_list) /\ Represents(vma_list, owner)
          BY <1>1, <2>1, <3>3 DEF AreaInv
        <4>2. Ordered(vma_list')
          BY <2>3, <3>3, <4>1 DEF Frees, ListFrees
        <4> QED
          BY <1>1, <2>3, <3>3, <4>1, <4>2, LosesRepresents
      <3> QED
        BY <3>1, <3>2, <3>3 DEF IInv, AreaInv
    <2> QED
      BY <1>1, <1>2, <1>5, <2>2, <2>3, VfreeLemma
  <1>6. ASSUME NEW p \in Pages, page_fault_handler(p) PROVE IInv'
    <2>1. late' = late
      BY <1>6 DEF page_fault_handler
    <2>2. CASE Stop("page fault")
      <3>1. Halts
        BY <2>2 DEF Stop, Halts, Reasons
      <3> QED
        BY <1>2, <1>3, <2>1, <3>1
    <2>3. CASE /\ mapped' = mapped \cup {p}
               /\ UNCHANGED <<vma_list, nfree, owner, stopped>>
      <3>1. ListInv' /\ AreaInv'
        BY <1>1, <2>1, <2>3 DEF ListInv, AreaInv
      <3>2. OwnInv'
        BY <1>1, <2>1, <2>3 DEF OwnInv, Owned
      <3> QED
        BY <3>1, <3>2 DEF IInv
    <2> QED
      BY <1>6, <2>2, <2>3 DEF page_fault_handler
  <1>7. CASE UNCHANGED vars
    <2>1. ListInv' /\ AreaInv'
      BY <1>1, <1>7 DEF vars, ListInv, AreaInv
    <2>2. OwnInv'
      BY <1>1, <1>7 DEF vars, OwnInv, Owned
    <2> QED
      BY <2>1, <2>2 DEF IInv
  <1> QED
    BY <1>4, <1>5, <1>6, <1>7 DEF Next

\* So the invariant holds for ever.
LEMMA IInvariant == Spec => []IInv
  BY IInvInit, IInvStep, PTL DEF Spec

----------------------------------------------------------------------------
(* Theorems *)

\* THEOREM: whatever the clients allocate and free, and whatever part of a VMA
\* a vfree cuts off, the list keeps a VMA, every VMA a base and a size, and
\* only pages of the area are owned or mapped.
THEOREM TypeCorrect == Spec => []TypeOK
  <1>1. IInv => TypeOK
    <2> SUFFICES ASSUME IInv PROVE TypeOK
      OBVIOUS
    <2>1. ListInv /\ OwnInv
      BY DEF IInv
    <2>2. /\ vma_list # <<>>
          /\ \A i \in 1 .. Len(vma_list) : vma_list[i] \in VmaType
      <3>1. Len(vma_list) # 0
        BY <2>1, ListFacts
      <3>2. Len(<<>>) = 0
        OBVIOUS
      <3> QED
        BY <2>1, <3>1, <3>2, ListFacts
    <2>3. nfree \in 0 .. NodeCount
      BY <2>1, ListFacts DEF ListInv
    <2> QED
      BY <2>1, <2>2, <2>3 DEF OwnInv, TypeOK, VmaType, Reasons
  <1> QED
    BY <1>1, IInvariant, PTL

\* THEOREM: no node is ever lost or freed twice: in the list and on the free
\* list together there are always as many as in the beginning.
THEOREM NodesKept == Spec => []NodesConserved
  <1>1. IInv => NodesConserved
    BY DEF IInv, ListInv, NodesConserved
  <1> QED
    BY <1>1, IInvariant, PTL

\* THEOREM: until vfree first cuts a start or a middle off a VMA, the list is in
\* the order of the addresses, no two VMAs overlap and every prev pointer
\* names the predecessor.
THEOREM Order == Spec => []ListOrdered
  <1>1. IInv => ListOrdered
    <2> SUFFICES ASSUME IInv, late = 0
                 PROVE  /\ \A i \in 1 .. Len(vma_list) :
                             vma_list[i].size > 0 /\ ~ vma_list[i].stale
                        /\ \A i \in 1 .. Len(vma_list) - 1 :
                             End(vma_list[i]) <= vma_list[i + 1].base
      BY DEF ListOrdered
    <2>1. Ordered(vma_list) /\ Len(vma_list) \in Nat
      BY ListFacts DEF IInv, AreaInv
    <2>2. ASSUME NEW i \in 1 .. Len(vma_list) - 1
          PROVE  End(vma_list[i]) <= vma_list[i + 1].base
      <3>1. /\ i \in 1 .. Len(vma_list) /\ i + 1 \in 1 .. Len(vma_list)
            /\ i < i + 1
        BY <2>1
      <3> QED
        BY <2>1, <3>1 DEF Ordered
    <2> QED
      BY <2>1, <2>2 DEF Ordered
  <1> QED
    BY <1>1, IInvariant, PTL

\* As long as the list is ordered, it is what the clients own.
LEMMA AllocatedLemma ==
  ASSUME IInv, late = 0
  PROVE  owner = Allocated
  <1> DEFINE s == vma_list
             Fst(p) == CHOOSE i \in 1 .. Len(s) :
                         /\ Covers(s[i], p)
                         /\ \A j \in 1 .. i - 1 : ~ Covers(s[j], p)
  <1>1. /\ s \in Seq(VmaType) /\ Len(s) \in Nat
        /\ \A k \in 1 .. Len(s) : s[k].flags \in AllFlags
    BY ListFacts DEF IInv
  <1>2. Ordered(s) /\ Represents(s, owner)
    BY DEF IInv, AreaInv
  <1>3. /\ owner \in [Owned -> FlagSets] /\ Owned \subseteq Pages
        /\ Pages \subseteq Int
    BY LayoutAssumption DEF IInv, OwnInv, Pages
  <1>4. ASSUME NEW p \in Pages, NEW k \in 1 .. Len(s), Covers(s[k], p)
        PROVE  p \in Owned /\ owner[p] = s[k].flags
    <2>1. CoveredWith(s, p, s[k].flags)
      BY <1>4 DEF CoveredWith
    <2> QED
      BY <1>1, <1>2, <2>1 DEF Represents, Owned
  <1>5. ASSUME NEW p \in Owned
        PROVE  \E k \in 1 .. Len(s) : Covers(s[k], p)
    <2>1. CoveredWith(s, p, owner[p])
      BY <1>2, <1>3 DEF Represents, Owned, AllFlags
    <2> QED
      BY <2>1 DEF CoveredWith
  <1>6. Owned = Covered
    BY <1>3, <1>4, <1>5 DEF Covered
  <1>7. ASSUME NEW p \in Covered
        PROVE  Fst(p) \in 1 .. Len(s) /\ Covers(s[Fst(p)], p)
    <2>1. PICK k \in 1 .. Len(s) : Covers(s[k], p)
      BY DEF Covered
    <2>2. \A j \in 1 .. k - 1 : ~ Covers(s[j], p)
      <3> SUFFICES ASSUME NEW j \in 1 .. k - 1 PROVE ~ Covers(s[j], p)
        OBVIOUS
      <3>1. j \in 1 .. Len(s) /\ j # k
        BY <1>1
      <3>2. p \in Int
        BY <1>3 DEF Covered
      <3> QED
        BY <1>1, <1>2, <2>1, <3>1, <3>2, Disjoint
    <2> QED
      BY <2>1, <2>2
  <1>8. Allocated = [p \in Covered |-> s[Fst(p)].flags]
    BY DEF Allocated
  <1> HIDE DEF Fst, s
  <1>9. ASSUME NEW p \in Covered PROVE owner[p] = s[Fst(p)].flags
    <2>1. p \in Pages
      BY DEF Covered
    <2> QED
      BY <1>4, <1>7, <2>1
  <1> QED
    BY <1>3, <1>6, <1>8, <1>9

\* THEOREM: growing, merging, shrinking and deleting VMAs, the list covers
\* exactly the pages the clients hold, with the flags they asked for, until
\* vfree first cuts a start or a middle off a VMA.
THEOREM Owners == Spec => []OwnersCovered
  <1>1. IInv => OwnersCovered
    BY AllocatedLemma DEF OwnersCovered
  <1> QED
    BY <1>1, IInvariant, PTL

\* The refinement mapping: at first nothing below the pageinfo area is allocated.
LEMMA AbstractInit == Init => AS!Init
  <1> SUFFICES ASSUME Init PROVE Allocated = [p \in {} |-> 0]
    BY DEF AS!Init
  <1>1. owner = Allocated
    BY IInvInit, AllocatedLemma DEF Init
  <1> QED
    BY <1>1 DEF Init

\* OwnersCovered, of the state after a step.
LEMMA AllocatedNext == (IInv /\ late = 0 => owner = Allocated)'
  <1>1. IInv /\ late = 0 => owner = Allocated
    BY AllocatedLemma
  <1> QED
    BY <1>1, PTL

\* The refinement mapping: vmalloc is Allocate, vfree is Free, the rest stutters.
LEMMA AbstractStep ==
  IInv /\ IInv' /\ [Next]_vars => [AS!Next \/ late' > 0]_Allocated
  <1> SUFFICES ASSUME IInv, IInv', [Next]_vars, ~ (late' > 0)
               PROVE  AS!Next \/ UNCHANGED Allocated
    OBVIOUS
  <1>1. ListInv /\ OwnInv /\ AreaInv /\ late \in Nat /\ late' \in Nat
    BY DEF IInv, OwnInv
  <1>2. late' = 0
    BY <1>1
  <1>3. owner' = Allocated'
    BY <1>2, AllocatedNext
  <1>4. late = 0 => owner = Allocated
    BY AllocatedLemma
  <1>5. ASSUME late = 0, owner' = owner PROVE UNCHANGED Allocated
    BY <1>3, <1>4, <1>5
  <1>6. ASSUME NEW n \in 1 .. MaxPages, NEW f \in FlagSets, vmalloc(n, f)
        PROVE  AS!Next \/ UNCHANGED Allocated
    <2>1. late = 0
      BY <1>1, <1>2, <1>6, LateLemma DEF vmalloc
    <2>2. CASE Halts
      BY <1>5, <2>1, <2>2 DEF Halts
    <2>3. ASSUME NEW addr \in Nat, Allocates(addr, n, f) PROVE AS!Next
      <3> DEFINE last == addr + n - 1
      <3>1. n \in Nat /\ n > 0 /\ Pages \subseteq Int
        BY LayoutAssumption DEF Pages
      <3>2. addr \in Pages /\ last \in Pages /\ addr <= last
        BY <2>3, <3>1, LayoutAssumption DEF Allocates, Pages
      <3>3. addr .. last = Run(addr, n)
        BY DEF Run
      <3>4. Run(addr, n) \cap Owned = {}
        <4> SUFFICES ASSUME NEW p \in Run(addr, n), p \in Owned PROVE FALSE
          OBVIOUS
        <4>1. Ordered(vma_list) /\ Represents(vma_list, owner)
          BY <1>1, <2>1 DEF AreaInv
        <4>2. p \in Pages /\ owner[p] \in AllFlags
          BY <1>1 DEF OwnInv, AllFlags
        <4>3. CoveredWith(vma_list, p, owner[p])
          BY <4>1, <4>2 DEF Represents, Owned
        <4> QED
          BY <2>3, <4>1, <4>3 DEF Allocates, CoveredWith
      <3>5. owner' = [p \in Owned \cup Run(addr, n) |->
                       IF p \in Run(addr, n) THEN f ELSE owner[p]]
        BY <2>3 DEF Allocates, Give
      <3> HIDE DEF last
      <3>6. AS!Alloc(addr .. last, f)
        BY <1>3, <1>4, <2>1, <3>3, <3>4, <3>5
           DEF AS!Alloc, AS!Owned, Owned
      <3> QED
        BY <3>2, <3>6 DEF AS!Next
    <2> QED
      BY <1>1, <1>6, <2>2, <2>3, VmallocLemma
  <1>7. ASSUME NEW addr \in Pages, NEW n \in 1 .. MaxPages, vfree(addr, n)
        PROVE  AS!Next \/ UNCHANGED Allocated
    <2>1. late = 0
      BY <1>1, <1>2, <1>7, LateLemma DEF vfree, FreePart
    <2>2. CASE Halts
      BY <1>5, <2>1, <2>2 DEF Halts
    <2>3. CASE Frees(addr, n)
      <3> DEFINE last == addr + n - 1
      <3>1. n \in Nat /\ n > 0 /\ addr \in Int
        BY LayoutAssumption DEF Pages
      <3>2. Run(addr, n) \subseteq Owned /\ Owned \subseteq Pages
        BY <1>1, <1>7 DEF vfree, OwnInv
      <3>3. last \in Pages /\ addr <= last
        <4>1. last \in Run(addr, n) /\ addr <= last
          BY <3>1 DEF Run
        <4> QED
          BY <3>2, <4>1
      <3>4. addr .. last = Run(addr, n)
        BY DEF Run
      <3>5. owner' = [p \in Owned \ Run(addr, n) |-> owner[p]]
        BY <2>3 DEF Frees, Take
      <3> HIDE DEF last
      <3>6. AS!Free(addr .. last)
        BY <1>3, <1>4, <2>1, <3>2, <3>4, <3>5 DEF AS!Free, AS!Owned, Owned
      <3> QED
        BY <3>3, <3>6 DEF AS!Next
    <2> QED
      BY <1>1, <1>7, <2>2, <2>3, VfreeLemma DEF OwnInv
  <1>8. ASSUME NEW p \in Pages, page_fault_handler(p)
        PROVE  UNCHANGED Allocated
    <2>1. late' = late /\ owner' = owner
      BY <1>8 DEF page_fault_handler, Stop
    <2> QED
      BY <1>2, <1>5, <2>1
  <1>9. CASE UNCHANGED vars
    BY <1>2, <1>5, <1>9 DEF vars
  <1> QED
    BY <1>6, <1>7, <1>8, <1>9 DEF Next

\* THEOREM: the list implements the address space of vmem.h: until vfree first
\* cuts a start or a middle off a VMA, every step allocates a run of pages of
\* which none was allocated, frees pages that were, or leaves the allocated
\* pages and their flags alone.
THEOREM Implements == Spec => ImplementsAddrSpace
  <1>1. Spec => [][AS!Next \/ late' > 0]_Allocated
    BY IInvariant, AbstractStep, PTL DEF Spec
  <1>2. Spec => AS!Init
    BY AbstractInit DEF Spec
  <1> QED
    BY <1>1, <1>2 DEF ImplementsAddrSpace

=============================================================================
