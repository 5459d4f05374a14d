---------------------------- MODULE PhysMemProofs ----------------------------
(***************************************************************************)
(* Proofs about PhysMem for every memory map and every bound.              *)
(*                                                                         *)
(* Exclusive and Conserved need each other: that no page has two owners    *)
(* follows from free pages being unowned, and that a stack entry names a   *)
(* page whose address fits 32 bits from the stack holding usable pages.    *)
(* Their conjunction with TypeOK is inductive.                             *)
(***************************************************************************)
EXTENDS PhysMem, SequenceTheorems, WellFoundedInduction,
        NaturalsInduction, TLAPS

\* The map ends below 4 GiB, so no page number is cut off by alloc_page.
FitsIn32 == \A i \in 1 .. Len(BootStack) : BootStack[i] < WrapPages

Elements(s) == {s[i] : i \in 1 .. Len(s)}

----------------------------------------------------------------------------
(* Lemmas about the operators *)

\* Popping keeps the entries below the top in their places.
LEMMA PopLemma ==
  ASSUME NEW T, NEW s \in Seq(T), s # <<>>
  PROVE  LET t == SubSeq(s, 1, Len(s) - 1)
         IN  /\ t \in Seq(T)
             /\ Len(s) \in Nat \ {0}
             /\ s[Len(s)] \in T
             /\ Len(t) = Len(s) - 1
             /\ \A i \in 1 .. Len(s) - 1 : t[i] = s[i]
  <1>1. Len(s) \in Nat \ {0}
    BY EmptySeq
  <1>2. \A i \in 1 .. Len(s) : s[i] \in T
    BY ElementOfSeq
  <1>3. \A i \in 1 .. Len(s) - 1 : s[i] \in T
    BY <1>1, <1>2
  <1> DEFINE n == Len(s) - 1
             t == SubSeq(s, 1, n)
  <1>4. n \in Nat
    BY <1>1
  <1>5. \A i \in 1 .. n : s[i] \in T
    BY <1>3
  <1> HIDE DEF n
  <1>6. /\ t \in Seq(T)
        /\ Len(t) = IF 1 <= n THEN n - 1 + 1 ELSE 0
        /\ \A i \in 1 .. n - 1 + 1 : t[i] = s[1 + i - 1]
    BY <1>4, <1>5, SubSeqProperties
  <1>7. /\ Len(t) = n
        /\ \A i \in 1 .. n : t[i] = s[i]
    BY <1>4, <1>6
  <1> QED
    BY <1>1, <1>2, <1>6, <1>7 DEF n

\* Pushing adds one entry on top and keeps the others.
LEMMA PushLemma ==
  ASSUME NEW T, NEW s \in Seq(T), NEW p \in T
  PROVE  LET t == Append(s, p)
         IN  /\ t \in Seq(T)
             /\ Len(s) \in Nat
             /\ Len(t) = Len(s) + 1
             /\ t[Len(s) + 1] = p
             /\ \A i \in 1 .. Len(s) : t[i] = s[i]
  OBVIOUS

\* Without a repeated entry, popping removes exactly the top from the set of
\* the entries.
LEMMA PopElements ==
  ASSUME NEW T, NEW s \in Seq(T), s # <<>>, NoDuplicates(s)
  PROVE  LET t == SubSeq(s, 1, Len(s) - 1)
         IN  /\ NoDuplicates(t)
             /\ Elements(t) = Elements(s) \ {s[Len(s)]}
             /\ s[Len(s)] \in Elements(s)
  BY PopLemma DEF NoDuplicates, Elements

\* Pushing a page that is not on the stack keeps it free of repetitions.
LEMMA PushElements ==
  ASSUME NEW T, NEW s \in Seq(T), NEW p \in T, NoDuplicates(s),
         p \notin Elements(s)
  PROVE  LET t == Append(s, p)
         IN  /\ NoDuplicates(t)
             /\ Elements(t) = Elements(s) \cup {p}
  <1> DEFINE t == Append(s, p)
  <1>1. /\ Len(s) \in Nat
        /\ Len(t) = Len(s) + 1
        /\ t[Len(s) + 1] = p
        /\ \A i \in 1 .. Len(s) : t[i] = s[i]
    BY PushLemma
  <1> HIDE DEF t
  <1>2. 1 .. Len(t) = 1 .. Len(s) \cup {Len(s) + 1}
    BY <1>1
  <1>3. NoDuplicates(t)
    BY <1>1, <1>2 DEF NoDuplicates, Elements
  <1>4. Elements(t) = Elements(s) \cup {p}
    BY <1>1, <1>2 DEF Elements
  <1> QED
    BY <1>3, <1>4 DEF t

\* A page number below the 32-bit limit survives the multiplication.
LEMMA AddressedLemma ==
  ASSUME NEW p \in Nat, p < WrapPages
  PROVE  AddressedPage(p) = p
  BY SizesAssumption DEF AddressedPage

\* A set of page numbers that is not empty has a lowest one.
LEMMA LowestLemma ==
  ASSUME NEW S \in SUBSET Nat, S # {}
  PROVE  Lowest(S) \in S /\ \A q \in S : Lowest(S) <= q
  <1> DEFINE R == {ss \in Nat \X Nat : ss[1] < ss[2]}
  <1>1. IsWellFoundedOn(R, Nat)
    BY NatLessThanWellFounded DEF OpToRel
  <1> HIDE DEF R
  <1>2. \E x \in S : \A y \in S : <<y, x>> \notin R
    BY <1>1, WFMin
  <1>3. \A x, y \in Nat : y < x => <<y, x>> \in R
    BY DEF R
  <1>4. \E x \in S : \A y \in S : x <= y
    <2>1. PICK x \in S : \A y \in S : <<y, x>> \notin R
      BY <1>2
    <2>2. \A y \in S : ~ (y < x)
      BY <1>3, <2>1
    <2>3. \A y \in S : x <= y
      BY <2>2
    <2> QED
      BY <2>3
  <1> QED
    BY <1>4 DEF Lowest

\* A page is usable high memory exactly if it is usable and not low.
LEMMA UsableSplit ==
  /\ Usable \subseteq Page
  /\ \A p \in Usable : p \notin LowPages => p \in UsableHigh
  BY SizesAssumption, MapAssumption DEF Usable, UsableHigh

----------------------------------------------------------------------------
(* Type correctness *)

LEMMA TypeStep == TypeOK /\ [Next]_vars => TypeOK'
  <1> SUFFICES ASSUME TypeOK, [Next]_vars PROVE TypeOK'
    OBVIOUS
  <1> USE DEF TypeOK, Panics
  <1>1. ASSUME AllocFromStack PROVE TypeOK'
    BY <1>1, PopLemma DEF AllocFromStack, Hold
  <1>2. ASSUME AllocFromBitmap PROVE TypeOK'
    <2>1. lowFree' \subseteq LowPages
      BY <1>2 DEF AllocFromBitmap, Bslr, WordPages
    <2>2. held' \in [Page -> Nat]
      BY <1>2 DEF AllocFromBitmap, Hold
    <2> QED
      BY <1>2, <2>1, <2>2 DEF AllocFromBitmap
  <1>3. ASSUME AllocPastBitmap PROVE TypeOK'
    BY <1>3 DEF AllocPastBitmap, Hold
  <1>4. ASSUME AllocExhausted PROVE TypeOK'
    BY <1>4 DEF AllocExhausted
  <1>5. ASSUME NEW p \in Page, free_page(p) PROVE TypeOK'
    <2>1. CASE FreeLow(p)
      BY <1>5, <2>1 DEF free_page, FreeLow, IsLow, Drop
    <2>2. CASE FreeHigh(p)
      <3>1. stack' \in Seq(Page \ LowPages)
        BY <1>5, <2>2, PushLemma DEF FreeHigh, IsLow
      <3> QED
        BY <1>5, <2>2, <3>1 DEF free_page, FreeHigh, Drop
    <2>3. CASE FreeRefused(p)
      BY <1>5, <2>3 DEF free_page, FreeRefused
    <2> QED
      BY <1>5, <2>1, <2>2, <2>3 DEF free_page
  <1>6. ASSUME NEW n \in 1 .. MaxRun, NEW align \in 1 .. MaxAlign,
               alloc_aligned(n, align)
        PROVE  TypeOK'
    BY <1>6 DEF alloc_aligned, Unmarked, Hold
  <1>7. ASSUME NEW n \in 1 .. MaxRun, NEW start \in LowPages,
               free_contig(start, n)
        PROVE  TypeOK'
    <2>1. Marked(start, n) \subseteq LowPages
      BY <1>7 DEF free_contig, Marked
    <2> QED
      BY <1>7, <2>1 DEF free_contig, Drop
  <1>8. CASE UNCHANGED vars
    BY <1>8 DEF vars
  <1> QED
    BY <1>1, <1>2, <1>3, <1>4, <1>5, <1>6, <1>7, <1>8 DEF Next, alloc_page

\* THEOREM: the bitmap only ever names low pages and the stack only high ones,
\* and no page is freed more often than it was handed out.
THEOREM TypeCorrect == Spec => []TypeOK
  <1>1. Init => TypeOK
    BY MapAssumption DEF Init, TypeOK, Panics
  <1> QED
    BY <1>1, TypeStep, PTL DEF Spec

----------------------------------------------------------------------------
(* No page has two owners, none is lost *)

Owned == {p \in Page : held[p] > 0}
IInv  == TypeOK /\ Exclusive /\ Conserved

\* What the invariant says while alloc_page has not fallen back.
Unfolded ==
  /\ FreePages = lowFree \cup Elements(stack)
  /\ Exclusive = (fallbacks = 0 => /\ \A p \in Page : held[p] <= 1
                                  /\ FreePages \cap Owned = {}
                                  /\ NoDuplicates(stack))
  /\ Conserved = (fallbacks = 0 => FreePages \cup Owned = Usable)
  /\ Elements(stack) \cap LowPages = {}
  /\ FreePages \subseteq Page

LEMMA Unfold == TypeOK => Unfolded
  <1> SUFFICES ASSUME TypeOK PROVE Unfolded
    OBVIOUS
  <1>1. Elements(stack) \subseteq Page \ LowPages
    BY ElementOfSeq DEF TypeOK, Elements
  <1>2. FreePages \subseteq Page
    BY <1>1, SizesAssumption DEF TypeOK, FreePages, Elements
  <1>3. \A p \in Page : held[p] \in Nat
    BY DEF TypeOK
  <1>4. (\A p \in FreePages : held[p] = 0) <=> FreePages \cap Owned = {}
    BY <1>2, <1>3 DEF Owned
  <1> QED
    BY <1>1, <1>2, <1>4
       DEF Unfolded, FreePages, Elements, Exclusive, Conserved, Owned

LEMMA UnfoldPrime == TypeOK' => Unfolded'
  BY Unfold, PTL

\* Handing out pages nobody holds makes them owned, once each.
LEMMA HoldLemma ==
  ASSUME TypeOK, NEW S \in SUBSET Page, S \cap Owned = {}, Hold(S),
         \A p \in Page : held[p] <= 1
  PROVE  /\ \A p \in Page : held'[p] <= 1
         /\ Owned' = Owned \cup S
  <1>1. \A p \in Page : held[p] \in Nat
    BY DEF TypeOK
  <1>2. \A p \in Page : held'[p] = IF p \in S THEN held[p] + 1 ELSE held[p]
    BY DEF Hold
  <1>3. \A p \in S : held[p] = 0
    BY <1>1 DEF Owned
  <1> QED
    BY <1>1, <1>2, <1>3 DEF Owned

\* Taking back pages that are held once makes them unowned.
LEMMA DropLemma ==
  ASSUME TypeOK, NEW S \in SUBSET Page, S \subseteq Owned, Drop(S),
         \A p \in Page : held[p] <= 1
  PROVE  /\ \A p \in Page : held'[p] <= 1
         /\ Owned' = Owned \ S
  <1>1. \A p \in Page : held[p] \in Nat
    BY DEF TypeOK
  <1>2. \A p \in Page : held'[p] = IF p \in S THEN held[p] - 1 ELSE held[p]
    BY DEF Drop
  <1>3. \A p \in S : held[p] = 1
    BY <1>1 DEF Owned
  <1> QED
    BY <1>1, <1>2, <1>3 DEF Owned

LEMMA IInvStep ==
  ASSUME FitsIn32, IInv, [Next]_vars
  PROVE  IInv'
  <1>1. TypeOK /\ TypeOK'
    BY TypeStep DEF IInv
  <1>2. SUFFICES ASSUME fallbacks' = 0, fallbacks = 0
                 PROVE  Exclusive' /\ Conserved'
    <2>1. fallbacks' = 0 => fallbacks = 0
      BY <1>1 DEF TypeOK, Next, vars, alloc_page, AllocFromStack,
                  AllocFromBitmap, AllocPastBitmap, AllocExhausted, free_page,
                  alloc_aligned, free_contig
    <2> QED
      BY <1>1, <2>1 DEF IInv, Exclusive, Conserved
  <1>3. /\ \A p \in Page : held[p] <= 1
        /\ FreePages \cap Owned = {}
        /\ NoDuplicates(stack)
        /\ FreePages \cup Owned = Usable
        /\ FreePages = lowFree \cup Elements(stack)
        /\ Elements(stack) \cap LowPages = {}
        /\ lowFree \subseteq LowPages
        /\ FreePages \subseteq Page
    BY <1>1, <1>2, Unfold DEF Unfolded, IInv, TypeOK
  <1>4. SUFFICES /\ \A p \in Page : held'[p] <= 1
                 /\ (lowFree' \cup Elements(stack')) \cap Owned' = {}
                 /\ NoDuplicates(stack')
                 /\ (lowFree' \cup Elements(stack')) \cup Owned' = Usable
    <2>1. Unfolded'
      BY <1>1, UnfoldPrime
    <2> QED
      BY <1>2, <2>1 DEF Unfolded
  <1>5. ASSUME AllocFromStack PROVE <1>4!1
    <2> DEFINE top == stack[Len(stack)]
    <2>1. /\ top \in Elements(stack)
          /\ NoDuplicates(stack')
          /\ Elements(stack') = Elements(stack) \ {top}
      BY <1>1, <1>3, <1>5, PopElements DEF AllocFromStack, TypeOK
    <2>2. top \in UsableHigh
      BY <1>3, <2>1, UsableSplit
    <2>3. AddressedPage(top) = top
      BY <1>1, <1>3, <2>1, <2>2, AddressedLemma DEF FitsIn32, UsableHigh, Page
    <2>4. Hold({top}) /\ lowFree' = lowFree
      BY <1>5, <2>3 DEF AllocFromStack
    <2>5. /\ \A p \in Page : held'[p] <= 1
          /\ Owned' = Owned \cup {top}
      BY <1>1, <1>3, <2>1, <2>4, HoldLemma
    <2>6. top \notin lowFree
      BY <1>3, <2>1
    <2> QED
      BY <1>3, <2>1, <2>4, <2>5, <2>6
  <1>6. ASSUME NEW p \in Page, free_page(p) PROVE <1>4!1
    <2>1. held[p] > 0 /\ p \in Owned /\ p \notin FreePages
      BY <1>3, <1>6 DEF free_page, Owned
    <2>2. CASE FreeLow(p)
      <3>1. /\ \A q \in Page : held'[q] <= 1
            /\ Owned' = Owned \ {p}
        BY <1>1, <1>3, <2>1, <2>2, DropLemma DEF FreeLow
      <3> QED
        BY <1>3, <2>1, <2>2, <3>1 DEF FreeLow
    <2>3. CASE FreeHigh(p)
      <3>1. /\ \A q \in Page : held'[q] <= 1
            /\ Owned' = Owned \ {p}
        BY <1>1, <1>3, <2>1, <2>3, DropLemma DEF FreeHigh
      <3>2. /\ NoDuplicates(stack')
            /\ Elements(stack') = Elements(stack) \cup {p}
        BY <1>1, <1>3, <2>1, <2>3, PushElements DEF FreeHigh, IsLow, TypeOK
      <3> QED
        BY <1>3, <2>1, <2>3, <3>1, <3>2 DEF FreeHigh
    <2>4. CASE FreeRefused(p)
      BY <1>3, <2>4 DEF FreeRefused, Owned
    <2> QED
      BY <1>6, <2>2, <2>3, <2>4 DEF free_page
  <1>7. ASSUME NEW n \in 1 .. MaxRun, NEW align \in 1 .. MaxAlign,
               alloc_aligned(n, align)
        PROVE  <1>4!1
    <2>1. CASE Fits(n, align) # {}
      <3> DEFINE start == Lowest(Fits(n, align))
      <3>1. start \in Fits(n, align)
        <4>1. Fits(n, align) \subseteq Nat
          BY DEF Fits, LowPages
        <4> QED
          BY <2>1, <4>1, LowestLemma
      <3>2. Run(start, n) \subseteq lowFree
        BY <3>1 DEF Fits
      <3>3. /\ lowFree' = lowFree \ Run(start, n)
            /\ Hold(Run(start, n))
            /\ stack' = stack
        BY <1>7, <2>1 DEF alloc_aligned, Unmarked
      <3> HIDE DEF start
      <3>4. /\ \A p \in Page : held'[p] <= 1
            /\ Owned' = Owned \cup Run(start, n)
        BY <1>1, <1>3, <3>2, <3>3, HoldLemma
      <3> QED
        BY <1>3, <3>2, <3>3, <3>4
    <2>2. CASE Fits(n, align) = {}
      BY <1>3, <1>7, <2>2 DEF alloc_aligned, Owned
    <2> QED
      BY <2>1, <2>2
  <1>8. ASSUME NEW n \in 1 .. MaxRun, NEW start \in LowPages,
               free_contig(start, n)
        PROVE  <1>4!1
    <2>1. Run(start, n) \subseteq Owned \cap LowPages
      BY <1>8, SizesAssumption DEF free_contig, Owned
    <2>2. Run(start, n) \subseteq Usable
      BY <1>3, <2>1
    <2>3. start # 0
      <3>1. start \in Run(start, n)
        BY DEF Run, LowPages
      <3>2. 0 \notin Usable
        BY MapAssumption, SizesAssumption, ElementOfSeq
           DEF Usable, UsableHigh, LowPages, LowCount
      <3> QED
        BY <2>2, <3>1, <3>2
    <2>4. lowFree' = lowFree \cup Run(start, n) /\ stack' = stack
      BY <1>8, <2>3 DEF free_contig, Marked
    <2>5. /\ \A p \in Page : held'[p] <= 1
          /\ Owned' = Owned \ Run(start, n)
      BY <1>1, <1>3, <1>8, <2>1, DropLemma DEF free_contig, Owned
    <2> QED
      BY <1>3, <2>1, <2>4, <2>5
  <1>9. ASSUME AllocExhausted \/ UNCHANGED vars PROVE <1>4!1
    BY <1>3, <1>9 DEF AllocExhausted, vars, Owned
  <1>10. ~ AllocFromBitmap /\ ~ AllocPastBitmap
    BY <1>2 DEF AllocFromBitmap, AllocPastBitmap
  <1> QED
    BY <1>5, <1>6, <1>7, <1>8, <1>9, <1>10 DEF Next, alloc_page

LEMMA IInvInit == Init => IInv
  <1> SUFFICES ASSUME Init PROVE IInv
    OBVIOUS
  <1>1. TypeOK
    BY MapAssumption DEF Init, TypeOK, Panics
  <1>2. FreePages \subseteq Page
    BY <1>1, Unfold DEF Unfolded
  <1> QED
    BY <1>1, <1>2, MapAssumption, SMTT(30)
       DEF Init, IInv, Exclusive, Conserved, FreePages, Usable, UsableHigh,
           NoDuplicates

\* THEOREM: on every memory map that ends below 4 GiB, through every sequence
\* of page and run allocations and frees during which alloc_page did not have
\* to fall back on the bitmap, no page has two owners and no owned page is
\* free.
THEOREM ExclusiveOwnership == FitsIn32 => (Spec => []Exclusive)
  <1> SUFFICES ASSUME FitsIn32 PROVE Spec => []Exclusive
    OBVIOUS
  <1>1. IInv /\ [Next]_vars => IInv'
    BY IInvStep
  <1>2. IInv => Exclusive
    BY DEF IInv
  <1> QED
    BY <1>1, <1>2, IInvInit, PTL DEF Spec

\* THEOREM: under the same conditions the free and the owned pages are exactly
\* the pages of the memory map: none is lost, none invented.
THEOREM Conservation == FitsIn32 => (Spec => []Conserved)
  <1> SUFFICES ASSUME FitsIn32 PROVE Spec => []Conserved
    OBVIOUS
  <1>1. IInv /\ [Next]_vars => IInv'
    BY IInvStep
  <1>2. IInv => Conserved
    BY DEF IInv
  <1> QED
    BY <1>1, <1>2, IInvInit, PTL DEF Spec

=============================================================================
