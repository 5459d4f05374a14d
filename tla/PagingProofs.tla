----------------------------- MODULE PagingProofs -----------------------------
(***************************************************************************)
(* That the tables of paging.c form a tree whose counters are exact, for   *)
(* any size of tables, any pages and any order of faults, maps and unmaps, *)
(* until unmap_page takes away a table that early_map has made.  Those     *)
(* tables count only what map_page adds to them.                           *)
(***************************************************************************)
EXTENDS Paging, FiniteSetTheorems, TLAPS

----------------------------------------------------------------------------
(* The invariant.  lev gives the tables in use their level, the other       *)
(* frames 0; E are the tables without counts.  Within a call x is the table *)
(* that the call works on: it may be empty for the moment, and has d counts *)
(* more than entries.                                                       *)

Memory == [entry : [Ram -> [Index -> Frame \cup {Absent}]],
           refcount : [Frame -> Nat], free : SUBSET BootFrames]

Entries(m, t) == {i \in Index : m.entry[t][i] # Absent}

\* The frames of early_map's pages, which have no counts either.
Uncounted == {FrameOf[v] : v \in Early}

Levels(m, lev) ==
  /\ lev \in [Ram -> 0 .. 4]
  /\ \A t \in Ram : lev[t] = 1 <=> t = Root
  /\ \A f \in m.free : lev[f] = 0

Links(m, lev) == \A t \in Ram, i \in Index : m.entry[t][i] # Absent =>
  /\ lev[t] \in 1 .. 3 => /\ m.entry[t][i] \in Ram
                          /\ lev[m.entry[t][i]] = lev[t] + 1
  /\ lev[t] = 4 /\ m.entry[t][i] \in Ram => /\ lev[m.entry[t][i]] = 0
                                            /\ m.entry[t][i] \notin m.free

OneName(m, lev) == \A t, u \in Ram, i, j \in Index :
  /\ lev[t] > 0 /\ lev[u] > 0
  /\ m.entry[t][i] = m.entry[u][j] /\ m.entry[t][i] # Absent
  => t = u /\ i = j

Used(m, lev, x) == \A t \in Ram : lev[t] > 1 /\ t # x => Entries(m, t) # {}

\* The entries of a table that its counter counts.
Tally(m, t, E) == {i \in Index : m.entry[t][i] \notin E \cup Uncounted \cup {Absent}}

Counted(m, lev, E, x, d) ==
  /\ \A t \in Ram : lev[t] > 1 =>
        m.refcount[t] = Cardinality(Tally(m, t, E)) + (IF t = x THEN d ELSE 0)
  /\ \A f \in m.free \cup Uncounted : m.refcount[f] = 0
  /\ \A t \in Ram, i \in Index :
        lev[t] = 4 /\ m.entry[t][i] \notin Uncounted \cup {Absent}
        => m.refcount[m.entry[t][i]] = 1

\* E are the tables on the ways to early_map's pages.
EarlyMade(m, lev, E) ==
  /\ Root \in E /\ \A t \in E : t \in Ram /\ lev[t] > 0
  /\ \A t \in Ram, i \in Index :
        \/ lev[t] \in 1 .. 3 /\ m.entry[t][i] \in E
        \/ lev[t] = 4 /\ m.entry[t][i] \in Uncounted
        => t \in E
  /\ \A t \in E : \/ t = Root \/ Entries(m, t) = {}
                   \/ \E i \in Index : m.entry[t][i] \in E \cup Uncounted

Filled(m, E) == \A t \in E : t = Root \/ Entries(m, t) # {}

\* Nothing names f and nothing counts it.
Idle(m, lev, f) ==
  /\ \A t \in Ram, i \in Index : lev[t] > 0 => m.entry[t][i] # f
  /\ m.refcount[f] = 0 /\ f \notin m.free /\ (f \in Ram => lev[f] = 0)

Pages(m, lev) ==
  /\ \A v \in Device \cup Early :
        \/ Leaf(m, v) = FrameOf[v]
        \/ Leaf(m, v) = Absent /\ Idle(m, lev, FrameOf[v])
  /\ \A v \in Anonymous : Leaf(m, v) \in Ram \cup {Absent}

Tree(m, lev, E, x, d) ==
  /\ m \in Memory /\ Levels(m, lev) /\ Links(m, lev) /\ OneName(m, lev)
  /\ Used(m, lev, x) /\ Counted(m, lev, E, x, d) /\ EarlyMade(m, lev, E)
  /\ Pages(m, lev)

\* Until mman_init and vmem_init are done, all tables are theirs.
AllEarly(lev, E) == \A t \in Ram : lev[t] > 0 => t \in E

Sound(m, todo) ==
  /\ m \in Memory /\ todo \subseteq Early
  /\ \E lev, E : Tree(m, lev, E, Root, 0) /\ (todo # {} => AllEarly(lev, E))
  /\ \A v \in todo : Leaf(m, v) = Absent

Invariant == Working => Sound(Now, pending)

----------------------------------------------------------------------------
(* The way to a page *)

\* The table at a level on the way to v, at level 5 the frame of v itself.
Node(m, v, l) == IF l = 5 THEN Leaf(m, v) ELSE Table(m, v, l)

LEMMA Facts ==
  /\ Root \in Ram /\ BootFrames \subseteq Ram /\ Ram \subseteq Frame
  /\ Frame \subseteq Nat /\ Absent \notin Frame /\ Absent \notin Nat
  /\ IsFiniteSet(Index) /\ IsFiniteSet(BootFrames) /\ IsFiniteSet(Ram)
  /\ \A v \in Virtual, l \in 1 .. 4 : v[l] \in Index
  /\ \A v \in Device \cup Early : FrameOf[v] \in Frame /\ FrameOf[v] \notin Ram
<1>1. Root \in Ram /\ BootFrames \subseteq Ram /\ Ram \subseteq Frame
  BY DEF Ram, Frame
<1>2. Frame \subseteq Nat /\ Absent \notin Frame /\ Absent \notin Nat
  BY PagesAssumption DEF PagesAssumption, Absent
<1>3. IsFiniteSet(Index) /\ IsFiniteSet(BootFrames)
  BY PagesAssumption, FramesAssumption DEF PagesAssumption, FramesAssumption
<1>4. IsFiniteSet(Ram)
  BY <1>3, FS_Singleton, FS_Union DEF Ram
<1>5. \A v \in Virtual, l \in 1 .. 4 : v[l] \in Index
  BY PagesAssumption DEF PagesAssumption
<1>6. \A v \in Device \cup Early : FrameOf[v] \in Frame /\ FrameOf[v] \notin Ram
  BY PagesAssumption DEF PagesAssumption, Frame, Fixed
<1> QED
  BY <1>1, <1>2, <1>3, <1>4, <1>5, <1>6

LEMMA SamePage ==
  ASSUME NEW u \in Virtual, NEW v \in Virtual, \A k \in 1 .. 4 : u[k] = v[k]
  PROVE  u = v
BY PagesAssumption DEF PagesAssumption

\* Each table on the way is what the one above names.
LEMMA NodeSteps ==
  ASSUME NEW m, NEW v
  PROVE  /\ Node(m, v, 1) = Root /\ Root # Absent
         /\ \A l \in 1 .. 4 : Node(m, v, l + 1) = Entry(m, Node(m, v, l), v[l])
         /\ Leaf(m, v) = Node(m, v, 5)
         /\ \A l \in 1 .. 4 : Table(m, v, l) = Node(m, v, l)
<1>1. Node(m, v, 1) = Root /\ Root # Absent
  BY Facts DEF Node, Table
<1>2. Node(m, v, 2) = Entry(m, Node(m, v, 1), v[1])
  BY <1>1 DEF Node, Table, Pdpt, Entry
<1>3. Node(m, v, 3) = Entry(m, Node(m, v, 2), v[2])
  BY DEF Node, Table, Pd
<1>4. Node(m, v, 4) = Entry(m, Node(m, v, 3), v[3])
  BY DEF Node, Table, Pt
<1>5. Node(m, v, 5) = Entry(m, Node(m, v, 4), v[4])
  BY DEF Node, Table, Leaf
<1>6. \A l \in 1 .. 4 : l = 1 \/ l = 2 \/ l = 3 \/ l = 4
  OBVIOUS
<1>7. \A l \in 1 .. 4 : Node(m, v, l + 1) = Entry(m, Node(m, v, l), v[l])
  BY <1>2, <1>3, <1>4, <1>5, <1>6
<1>8. Leaf(m, v) = Node(m, v, 5) /\ \A l \in 1 .. 4 : Table(m, v, l) = Node(m, v, l)
  BY DEF Node
<1> QED
  BY <1>1, <1>7, <1>8

\* A table on the way has the level of its place.
LEMMA NodeLevels ==
  ASSUME NEW m \in Memory, NEW lev, Levels(m, lev), Links(m, lev),
         NEW v \in Virtual
  PROVE  /\ \A l \in 1 .. 4 : \/ Node(m, v, l) = Absent
                              \/ Node(m, v, l) \in Ram /\ lev[Node(m, v, l)] = l
         /\ \A l \in 1 .. 4 : Node(m, v, l) = Absent => Node(m, v, l + 1) = Absent
         /\ \A l \in 1 .. 4 : Node(m, v, l) # Absent =>
               Node(m, v, l + 1) = m.entry[Node(m, v, l)][v[l]]
         /\ Node(m, v, 5) \in Frame \cup {Absent}
<1> DEFINE P(l) == \/ Node(m, v, l) = Absent
                   \/ Node(m, v, l) \in Ram /\ lev[Node(m, v, l)] = l
<1>1. /\ \A l \in 1 .. 4 : Node(m, v, l) = Absent => Node(m, v, l + 1) = Absent
      /\ \A l \in 1 .. 4 : Node(m, v, l) # Absent =>
            Node(m, v, l + 1) = m.entry[Node(m, v, l)][v[l]]
  BY NodeSteps DEF Entry
<1>2. P(1)
  BY NodeSteps, Facts DEF Levels
<1>3. \A l \in 1 .. 3 : P(l) => P(l + 1)
  <2> SUFFICES ASSUME NEW l \in 1 .. 3, Node(m, v, l) \in Ram,
                      lev[Node(m, v, l)] = l, Node(m, v, l + 1) # Absent
               PROVE  Node(m, v, l + 1) \in Ram /\ lev[Node(m, v, l + 1)] = l + 1
    BY <1>1
  <2> DEFINE t == Node(m, v, l)
  <2>1. t # Absent /\ v[l] \in Index /\ Node(m, v, l + 1) = m.entry[t][v[l]]
    BY <1>1, Facts
  <2> HIDE DEF t
  <2>2. t \in Ram /\ lev[t] = l
    BY DEF t
  <2> QED
    BY <2>1, <2>2 DEF Links
<1>4. P(2) /\ P(3) /\ P(4)
  <2>1. P(2)
    BY <1>2, <1>3
  <2>2. P(3)
    BY <2>1, <1>3
  <2> QED
    BY <2>1, <2>2, <1>3
<1>5. \A l \in 1 .. 4 : P(l)
  <2>1. \A l \in 1 .. 4 : l = 1 \/ l = 2 \/ l = 3 \/ l = 4
    OBVIOUS
  <2> HIDE DEF P
  <2> QED
    BY <1>2, <1>4, <2>1
<1>6. Node(m, v, 5) \in Frame \cup {Absent}
  <2>1. CASE Node(m, v, 4) = Absent
    BY <1>1, <2>1
  <2>2. CASE Node(m, v, 4) # Absent
    <3>1. Node(m, v, 4) \in Ram /\ Node(m, v, 4 + 1) = m.entry[Node(m, v, 4)][v[4]]
      BY <1>1, <1>5, <2>2
    <3>2. v[4] \in Index /\ 4 + 1 = 5
      BY Facts
    <3>3. \A t \in Ram, i \in Index : m.entry[t][i] \in Frame \cup {Absent}
      BY DEF Memory
    <3> QED
      BY <3>1, <3>2, <3>3
  <2> QED
    BY <2>1, <2>2
<1> QED
  BY <1>1, <1>5, <1>6

\* Two pages whose ways meet have come the same way.
LEMMA NodeBack ==
  ASSUME NEW m \in Memory, NEW lev, Levels(m, lev), Links(m, lev),
         OneName(m, lev), NEW u \in Virtual, NEW v \in Virtual, NEW l \in 1 .. 4,
         Node(m, u, l + 1) = Node(m, v, l + 1), Node(m, v, l + 1) # Absent
  PROVE  Node(m, u, l) = Node(m, v, l) /\ Node(m, v, l) # Absent /\ u[l] = v[l]
<1> DEFINE t == Node(m, u, l)
           r == Node(m, v, l)
<1>1. t # Absent /\ r # Absent
  BY NodeLevels
<1>2. /\ t \in Ram /\ lev[t] = l /\ r \in Ram /\ lev[r] = l
      /\ Node(m, u, l + 1) = m.entry[t][u[l]]
      /\ Node(m, v, l + 1) = m.entry[r][v[l]]
  BY <1>1, NodeLevels
<1>3. u[l] \in Index /\ v[l] \in Index
  BY Facts
<1> HIDE DEF t, r
<1>4. t = r /\ u[l] = v[l]
  BY <1>2, <1>3 DEF OneName
<1> QED
  BY <1>1, <1>4 DEF t, r

LEMMA NodeUnique ==
  ASSUME NEW m \in Memory, NEW lev, Levels(m, lev), Links(m, lev),
         OneName(m, lev), NEW u \in Virtual, NEW v \in Virtual,
         Node(m, u, 4) = Node(m, v, 4), Node(m, v, 4) # Absent
  PROVE  \A k \in 1 .. 3 : u[k] = v[k]
<1>1. Node(m, u, 3) = Node(m, v, 3) /\ Node(m, v, 3) # Absent /\ u[3] = v[3]
  BY NodeBack, 3 \in 1 .. 4, 3 + 1 = 4
<1>2. Node(m, u, 2) = Node(m, v, 2) /\ Node(m, v, 2) # Absent /\ u[2] = v[2]
  BY <1>1, NodeBack, 2 \in 1 .. 4, 2 + 1 = 3
<1>3. u[1] = v[1]
  BY <1>2, NodeBack, 1 \in 1 .. 4, 1 + 1 = 2
<1>4. \A k \in 1 .. 3 : k = 1 \/ k = 2 \/ k = 3
  OBVIOUS
<1> QED
  BY <1>1, <1>2, <1>3, <1>4

\* All entries of tables but entry i of t are the same in m and n.
Agree(m, n, lev, t, i) ==
  \A u \in Ram, j \in Index :
    lev[u] > 0 /\ ~ (u = t /\ j = i) => n.entry[u][j] = m.entry[u][j]

\* What a change of one entry of a table does to the ways through it.
LEMMA NodeChange ==
  ASSUME NEW m \in Memory, NEW n \in Memory, NEW lev,
         Levels(m, lev), Links(m, lev), NEW t \in Ram, NEW i \in Index,
         lev[t] \in 1 .. 4, Agree(m, n, lev, t, i), NEW w \in Virtual
  PROVE  /\ \A k \in 1 .. lev[t] : Node(n, w, k) = Node(m, w, k)
         /\ Node(m, w, lev[t]) = t /\ w[lev[t]] = i
              => Node(n, w, lev[t] + 1) = n.entry[t][i]
         /\ ~ (Node(m, w, lev[t]) = t /\ w[lev[t]] = i)
              => \A k \in 1 .. 5 : Node(n, w, k) = Node(m, w, k)
<1> DEFINE L == lev[t]
           Off(k) == ~ (k = L /\ Node(m, w, L) = t /\ w[L] = i)
<1>1. Node(n, w, 1) = Node(m, w, 1)
  BY NodeSteps
<1>2. \A k \in 1 .. 4 : \/ Node(m, w, k) = Absent
                        \/ Node(m, w, k) \in Ram /\ lev[Node(m, w, k)] = k
  BY NodeLevels
<1>10. \A k \in 1 .. 4 : Node(n, w, k) = Node(m, w, k) /\ Off(k)
        => Node(n, w, k + 1) = Node(m, w, k + 1)
  <2> SUFFICES ASSUME NEW k \in 1 .. 4, Node(n, w, k) = Node(m, w, k), Off(k)
               PROVE  Node(n, w, k + 1) = Node(m, w, k + 1)
    OBVIOUS
  <2>1. PICK a : a = Node(m, w, k)
    OBVIOUS
  <2>2. Node(n, w, k + 1) = Entry(n, a, w[k]) /\ Node(m, w, k + 1) = Entry(m, a, w[k])
    BY <2>1, NodeSteps
  <2>3. a = Absent \/ (a \in Ram /\ lev[a] = k)
    BY <1>2, <2>1
  <2>4. w[k] \in Index
    BY Facts
  <2>5. ~ (k = L /\ a = t /\ w[k] = i)
    BY <2>1
  <2>6. CASE a = Absent
    BY <2>2, <2>6 DEF Entry
  <2>7. CASE a \in Ram /\ lev[a] = k
    <3>1. ~ (a = t /\ w[k] = i) /\ lev[a] > 0
      BY <2>5, <2>7
    <3>2. n.entry[a][w[k]] = m.entry[a][w[k]]
      BY <2>4, <2>7, <3>1 DEF Agree
    <3> QED
      BY <2>2, <3>2 DEF Entry
  <2> QED
    BY <2>3, <2>6, <2>7
<1> DEFINE S(k) == Node(n, w, k) = Node(m, w, k)
<1>3. \A k \in 1 .. 4 : S(k) /\ Off(k) => S(k + 1)
  BY <1>10
<1>4. S(1)
  BY <1>1
<1> HIDE DEF S, Off
<1>5. /\ Off(1) => S(2)
      /\ Off(1) /\ Off(2) => S(3)
      /\ Off(1) /\ Off(2) /\ Off(3) => S(4)
      /\ Off(1) /\ Off(2) /\ Off(3) /\ Off(4) => S(5)
  <2>1. Off(1) => S(2)
    BY <1>3, <1>4, 1 \in 1 .. 4, 1 + 1 = 2
  <2>2. Off(1) /\ Off(2) => S(3)
    BY <1>3, <2>1, 2 \in 1 .. 4, 2 + 1 = 3
  <2>3. Off(1) /\ Off(2) /\ Off(3) => S(4)
    BY <1>3, <2>2, 3 \in 1 .. 4, 3 + 1 = 4
  <2> QED
    BY <1>3, <2>1, <2>2, <2>3, 4 \in 1 .. 4, 4 + 1 = 5
<1>6. \A k \in 1 .. 4 : k # L => Off(k)
  BY DEF Off
<1>7. \A k \in 1 .. L : S(k)
  BY <1>4, <1>5, <1>6
<1>8. Node(m, w, L) = t /\ w[L] = i => Node(n, w, L + 1) = n.entry[t][i]
  <2>1. L \in 1 .. L /\ L \in 1 .. 4
    OBVIOUS
  <2>2. Node(n, w, L) = Node(m, w, L) /\ t # Absent
    BY <1>7, <2>1, Facts DEF S
  <2>3. Node(n, w, L + 1) = Entry(n, Node(n, w, L), w[L])
    BY <2>1, NodeSteps
  <2> QED
    BY <2>2, <2>3 DEF Entry
<1>9. ~ (Node(m, w, L) = t /\ w[L] = i) => \A k \in 1 .. 5 : S(k)
  <2> SUFFICES ASSUME ~ (Node(m, w, L) = t /\ w[L] = i)
               PROVE  \A k \in 1 .. 5 : S(k)
    OBVIOUS
  <2>1. \A k \in 1 .. 4 : Off(k)
    BY DEF Off
  <2>2. \A k \in 1 .. 5 : k = 1 \/ k = 2 \/ k = 3 \/ k = 4 \/ k = 5
    OBVIOUS
  <2> QED
    BY <1>4, <1>5, <2>1, <2>2
<1> QED
  BY <1>7, <1>8, <1>9 DEF S

LEMMA NodeAbsent ==
  ASSUME NEW m, NEW w, NEW k \in 1 .. 5, Node(m, w, k) = Absent
  PROVE  Leaf(m, w) = Absent
<1> DEFINE A(l) == Node(m, w, l) = Absent
<1>1. \A l \in 1 .. 4 : A(l) => A(l + 1)
  BY NodeSteps DEF Entry
<1>2. A(k) /\ (A(5) <=> Leaf(m, w) = Absent)
  BY NodeSteps
<1> HIDE DEF A
<1>3. /\ A(1) => A(2)
      /\ A(2) => A(3)
      /\ A(3) => A(4)
      /\ A(4) => A(5)
  BY <1>1, 1 \in 1 .. 4, 2 \in 1 .. 4, 3 \in 1 .. 4, 4 \in 1 .. 4,
     1 + 1 = 2, 2 + 1 = 3, 3 + 1 = 4, 4 + 1 = 5
<1>4. k = 1 \/ k = 2 \/ k = 3 \/ k = 4 \/ k = 5
  OBVIOUS
<1> QED
  BY <1>2, <1>3, <1>4

----------------------------------------------------------------------------
(* A new table *)

\* n is m with the free frame new as an empty table that entry i of t names.
Link(m, n, t, i, new) ==
  /\ new \in m.free /\ n.free = m.free \ {new}
  /\ n.entry[t][i] = new
  /\ \A j \in Index : n.entry[new][j] = Absent
  /\ \A u \in Ram, j \in Index :
        u # new /\ ~ (u = t /\ j = i) => n.entry[u][j] = m.entry[u][j]

\* In lev2 the frame new has the level below t.
Grown(lev, lev2, t, new) ==
  /\ lev2 \in [Ram -> 0 .. 4] /\ lev2[new] = lev[t] + 1
  /\ \A u \in Ram : u # new => lev2[u] = lev[u]

LEMMA FreeFrameIs ==
  ASSUME NEW m \in Memory, m.free # {}
  PROVE  /\ FreeFrame(m) \in m.free /\ FreeFrame(m) \in Ram /\ FreeFrame(m) \in Frame
         /\ FreeFrame(m) # Absent
<1>1. FreeFrame(m) \in m.free
  BY DEF FreeFrame
<1>2. m.free \subseteq BootFrames
  BY DEF Memory
<1> QED
  BY <1>1, <1>2, Facts

LEMMA LinkedIs ==
  ASSUME NEW m \in Memory, m.free # {}, NEW v, NEW level,
         Table(m, v, level) \in Ram \ m.free, v[level] \in Index
  PROVE  /\ Linked(m, v, level) \in Memory
         /\ Linked(m, v, level).refcount = m.refcount
         /\ Link(m, Linked(m, v, level), Table(m, v, level), v[level], FreeFrame(m))
<1>1. PICK t \in Ram, i \in Index, new \in Ram :
        t = Table(m, v, level) /\ i = v[level] /\ new = FreeFrame(m)
  BY FreeFrameIs
<1>2. new \in m.free /\ new \in Frame /\ new # t
  BY <1>1, FreeFrameIs
<1>3. Empty \in [Index -> Frame \cup {Absent}] /\ \A j \in Index : Empty[j] = Absent
  BY DEF Empty
<1> DEFINE n == [[m EXCEPT !.free = @ \ {new}] EXCEPT !.entry[t][i] = new, !.entry[new] = Empty]
<1>4. Linked(m, v, level) = n
  BY <1>1 DEF Linked, Taken
<1>5. n \in Memory /\ n.refcount = m.refcount /\ n.free = m.free \ {new}
  BY <1>2, <1>3 DEF Memory
<1>6. n.entry = [m.entry EXCEPT ![t] = [@ EXCEPT ![i] = new], ![new] = Empty]
  BY <1>2, <1>3 DEF Memory
<1>7. m.entry \in [Ram -> [Index -> Frame \cup {Absent}]]
  BY DEF Memory
<1>8. n.entry[t][i] = new /\ (\A j \in Index : n.entry[new][j] = Absent)
  BY <1>2, <1>3, <1>6, <1>7
<1>9. \A u \in Ram, j \in Index :
        u # new /\ ~ (u = t /\ j = i) => n.entry[u][j] = m.entry[u][j]
  BY <1>2, <1>6, <1>7
<1> HIDE DEF n
<1>10. Link(m, n, t, i, new)
  BY <1>2, <1>5, <1>8, <1>9 DEF Link
<1> QED
  BY <1>1, <1>4, <1>5, <1>10

LEMMA NewFrame ==
  ASSUME NEW m \in Memory, NEW n, NEW t, NEW i, NEW new, Link(m, n, t, i, new),
         NEW lev, Levels(m, lev)
  PROVE  new \in m.free /\ new \in Ram /\ new # Absent /\ lev[new] = 0
<1>1. new \in m.free /\ m.free \subseteq BootFrames
  BY DEF Link, Memory
<1>2. lev[new] = 0
  BY <1>1 DEF Levels
<1>3. BootFrames \subseteq Ram /\ Absent \notin Ram
  BY Facts
<1> QED
  BY <1>1, <1>2, <1>3

\* The new table has the next level.
LEMMA LinkTree ==
  ASSUME NEW m \in Memory, NEW n \in Memory, NEW lev, NEW t \in Ram, NEW i \in Index,
         NEW new, Link(m, n, t, i, new), m.entry[t][i] = Absent,
         lev[t] \in 1 .. 3, Levels(m, lev), Links(m, lev), OneName(m, lev),
         Used(m, lev, t),
         NEW lev2, Grown(lev, lev2, t, new)
  PROVE  /\ Levels(n, lev2) /\ Links(n, lev2) /\ OneName(n, lev2)
         /\ Used(n, lev2, new)
<1>1. new \in m.free /\ new \in Ram /\ new # Absent /\ lev[new] = 0 /\ new # t /\ new # Root
  <2>1. lev[Root] = 1
    BY Facts DEF Levels
  <2> QED
    BY <2>1, NewFrame
<1>2. lev \in [Ram -> 0 .. 4] /\ lev2 \in [Ram -> 0 .. 4]
  BY DEF Levels, Grown
<1>3. lev2[new] = lev[t] + 1 /\ \A u \in Ram : u # new => lev2[u] = lev[u]
  BY DEF Grown
<1>4. Levels(n, lev2)
  <2>1. \A u \in Ram : lev2[u] = 1 <=> u = Root
    BY <1>1, <1>2, <1>3 DEF Levels
  <2>2. \A f \in n.free : lev2[f] = 0
    <3>1. n.free = m.free \ {new} /\ m.free \subseteq Ram
      BY Facts DEF Link, Memory
    <3> QED
      BY <1>3, <3>1 DEF Levels
  <2> QED
    BY <1>2, <2>1, <2>2 DEF Levels
<1>5. \A u \in Ram, j \in Index : m.entry[u][j] # Absent /\ lev[u] > 0
        => m.entry[u][j] # new
  <2> SUFFICES ASSUME NEW u \in Ram, NEW j \in Index, m.entry[u][j] = new, lev[u] > 0
               PROVE  FALSE
    BY <1>1
  <2>1. lev[u] \in 1 .. 3 \/ lev[u] = 4
    BY <1>2
  <2> QED
    BY <1>1, <2>1 DEF Links
<1>6. Links(n, lev2)
  <2> SUFFICES ASSUME NEW u \in Ram, NEW j \in Index, n.entry[u][j] # Absent
               PROVE  /\ lev2[u] \in 1 .. 3 => /\ n.entry[u][j] \in Ram
                                               /\ lev2[n.entry[u][j]] = lev2[u] + 1
                      /\ lev2[u] = 4 /\ n.entry[u][j] \in Ram =>
                            /\ lev2[n.entry[u][j]] = 0 /\ n.entry[u][j] \notin n.free
    BY DEF Links
  <2>1. CASE u = t /\ j = i
    <3>1. n.entry[u][j] = new /\ lev2[u] = lev[t]
      BY <1>1, <1>3, <2>1 DEF Link
    <3> QED
      BY <1>1, <1>3, <3>1
  <2>2. CASE u = new
    BY <2>2 DEF Link
  <2>3. CASE u # new /\ ~ (u = t /\ j = i)
    <3>1. PICK f : f = m.entry[u][j]
      OBVIOUS
    <3>2. n.entry[u][j] = f /\ f # Absent /\ lev2[u] = lev[u] /\ n.free \subseteq m.free
      BY <1>3, <2>3, <3>1 DEF Link
    <3>3. lev[u] > 0 => f # new
      BY <1>5, <3>1, <3>2
    <3>4. f \in Ram /\ f # new => lev2[f] = lev[f]
      BY <1>3
    <3>5. lev[u] \in 1 .. 3 => f \in Ram /\ lev[f] = lev[u] + 1
      BY <3>1, <3>2 DEF Links
    <3>6. lev[u] = 4 /\ f \in Ram => lev[f] = 0 /\ f \notin m.free
      BY <3>1, <3>2 DEF Links
    <3> QED
      BY <3>2, <3>3, <3>4, <3>5, <3>6
  <2> QED
    BY <2>1, <2>2, <2>3
<1>7. OneName(n, lev2)
  <2> DEFINE Old(u, j) == u # new /\ ~ (u = t /\ j = i)
  <2>1. \A u \in Ram, j \in Index : n.entry[u][j] # Absent /\ lev2[u] > 0 =>
          \/ u = t /\ j = i
          \/ Old(u, j) /\ n.entry[u][j] = m.entry[u][j] /\ lev[u] > 0
             /\ n.entry[u][j] # new
    BY <1>3, <1>5 DEF Link
  <2>2. n.entry[t][i] = new
    BY DEF Link
  <2> HIDE DEF Old
  <2> QED
    BY <2>1, <2>2 DEF OneName
<1>8. Used(n, lev2, new)
  <2> SUFFICES ASSUME NEW u \in Ram, lev2[u] > 1, u # new
               PROVE  Entries(n, u) # {}
    BY DEF Used
  <2>1. CASE u = t
    <3>1. n.entry[t][i] # Absent
      BY <1>1 DEF Link
    <3> QED
      BY <2>1, <3>1 DEF Entries
  <2>2. CASE u # t
    <3>1. lev[u] > 1
      BY <1>3
    <3>2. \A j \in Index : n.entry[u][j] = m.entry[u][j]
      BY <2>2 DEF Link
    <3>3. Entries(m, u) # {}
      BY <2>2, <3>1 DEF Used
    <3> QED
      BY <3>2, <3>3 DEF Entries
  <2> QED
    BY <2>1, <2>2
<1> QED
  BY <1>4, <1>6, <1>7, <1>8

\* No page is mapped or unmapped by it.
LEMMA LinkWays ==
  ASSUME NEW m \in Memory, NEW n \in Memory, NEW lev, NEW t \in Ram, NEW i \in Index,
         NEW new, Link(m, n, t, i, new), m.entry[t][i] = Absent,
         lev[t] \in 1 .. 3, Levels(m, lev), Links(m, lev), NEW w \in Virtual
  PROVE  /\ Leaf(n, w) = Leaf(m, w)
         /\ Node(m, w, lev[t]) = t /\ w[lev[t]] = i => Node(n, w, lev[t] + 1) = new
<1>1. new \in Ram /\ new # Absent /\ lev[new] = 0
  BY NewFrame
<1>2. Agree(m, n, lev, t, i)
  BY <1>1 DEF Agree, Link
<1>3. PICK l \in 1 .. 3 : l = lev[t]
  OBVIOUS
<1>4. l \in 1 .. 4 /\ l + 1 \in 1 .. 4 /\ l + 1 + 1 \in 1 .. 5
  OBVIOUS
<1>5. /\ Node(m, w, l) = t /\ w[l] = i => Node(n, w, l + 1) = n.entry[t][i]
      /\ ~ (Node(m, w, l) = t /\ w[l] = i)
            => \A k \in 1 .. 5 : Node(n, w, k) = Node(m, w, k)
  BY <1>2, <1>3, <1>4, NodeChange
<1>6. n.entry[t][i] = new
  BY DEF Link
<1>7. CASE ~ (Node(m, w, l) = t /\ w[l] = i)
  <2>1. Node(n, w, 5) = Node(m, w, 5)
    BY <1>5, <1>7
  <2> QED
    BY <1>3, <1>7, <2>1, NodeSteps
<1>8. CASE Node(m, w, l) = t /\ w[l] = i
  <2>1. Node(m, w, l + 1) = Absent
    <3>1. t # Absent
      BY Facts
    <3> QED
      BY <1>4, <1>8, <3>1, NodeLevels
  <2>2. Leaf(m, w) = Absent
    BY <1>4, <2>1, NodeAbsent
  <2>3. Node(n, w, l + 1) = new
    BY <1>5, <1>6, <1>8
  <2>4. w[l + 1] \in Index
    BY <1>4, Facts
  <2>5. Node(n, w, l + 1 + 1) = Absent
    <3>1. Node(n, w, l + 1 + 1) = Entry(n, new, w[l + 1])
      BY <1>4, <2>3, NodeSteps
    <3> QED
      BY <1>1, <2>4, <3>1 DEF Entry, Link
  <2>6. Leaf(n, w) = Absent
    BY <1>4, <2>5, NodeAbsent
  <2> QED
    BY <1>3, <2>2, <2>3, <2>6
<1> QED
  BY <1>7, <1>8

\* What was named by nothing still is, unless it is the new table.
LEMMA LinkIdle ==
  ASSUME NEW m \in Memory, NEW n \in Memory, NEW lev, NEW t \in Ram, NEW i \in Index,
         NEW new, Link(m, n, t, i, new), lev[t] \in 1 .. 3, Levels(m, lev),
         NEW lev2, Grown(lev, lev2, t, new),
         NEW f \in Frame, Idle(m, lev, f), n.refcount[f] = m.refcount[f]
  PROVE  Idle(n, lev2, f)
<1>1. new \in m.free /\ new \in Ram /\ f # new
  <2>1. new \in m.free /\ new \in Ram
    BY NewFrame
  <2> QED
    BY <2>1 DEF Idle
<1>2. \A u \in Ram : u # new => lev2[u] = lev[u]
  BY DEF Grown
<1>3. \A u \in Ram, j \in Index : lev2[u] > 0 => n.entry[u][j] # f
  <2> SUFFICES ASSUME NEW u \in Ram, NEW j \in Index, lev2[u] > 0
               PROVE  n.entry[u][j] # f
    OBVIOUS
  <2>1. f # Absent
    BY Facts
  <2>2. CASE u = t /\ j = i
    BY <1>1, <2>2 DEF Link
  <2>3. CASE u = new
    BY <2>1, <2>3 DEF Link
  <2>4. CASE u # new /\ ~ (u = t /\ j = i)
    BY <1>2, <2>4 DEF Link, Idle
  <2> QED
    BY <2>2, <2>3, <2>4
<1>4. n.refcount[f] = 0 /\ f \notin n.free /\ (f \in Ram => lev2[f] = 0)
  BY <1>1, <1>2 DEF Link, Idle
<1> QED
  BY <1>3, <1>4 DEF Idle

LEMMA LinkPages ==
  ASSUME NEW m \in Memory, NEW n \in Memory, NEW lev, NEW t \in Ram, NEW i \in Index,
         NEW new, Link(m, n, t, i, new), m.entry[t][i] = Absent,
         lev[t] \in 1 .. 3, Levels(m, lev), Links(m, lev), Pages(m, lev),
         NEW lev2, Grown(lev, lev2, t, new),
         \A f \in Frame : f # t => n.refcount[f] = m.refcount[f]
  PROVE  /\ Pages(n, lev2)
         /\ \A f \in Frame : Idle(m, lev, f) => Idle(n, lev2, f)
<1>1. \A w \in Virtual : Leaf(n, w) = Leaf(m, w)
  BY LinkWays
<1>2. \A f \in Frame : Idle(m, lev, f) => Idle(n, lev2, f)
  <2> SUFFICES ASSUME NEW f \in Frame, Idle(m, lev, f) PROVE Idle(n, lev2, f)
    OBVIOUS
  <2>1. f # t
    BY DEF Idle
  <2>2. n.refcount[f] = m.refcount[f]
    BY <2>1
  <2> QED
    BY <2>2, LinkIdle
<1>3. \A v \in Device \cup Early : FrameOf[v] \in Frame
  BY Facts
<1> QED
  BY <1>1, <1>2, <1>3 DEF Pages, Virtual

LEMMA TallyCount ==
  ASSUME NEW m, NEW t, NEW E
  PROVE  /\ IsFiniteSet(Tally(m, t, E)) /\ Cardinality(Tally(m, t, E)) \in Nat
         /\ Cardinality(Tally(m, t, E)) = 0 <=> Tally(m, t, E) = {}
<1>1. IsFiniteSet(Tally(m, t, E))
  BY Facts, FS_Subset DEF Tally
<1> QED
  BY <1>1, FS_CardinalityType, FS_EmptySet

\* One entry more, or one less.
LEMMA TallyGain ==
  ASSUME NEW m, NEW n, NEW t, NEW E, NEW i \in Index,
         m.entry[t][i] = Absent, n.entry[t][i] \notin E \cup Uncounted \cup {Absent},
         \A j \in Index : j # i => n.entry[t][j] = m.entry[t][j]
  PROVE  Cardinality(Tally(n, t, E)) = Cardinality(Tally(m, t, E)) + 1
<1>1. Tally(n, t, E) = Tally(m, t, E) \cup {i} /\ i \notin Tally(m, t, E)
  BY DEF Tally
<1> QED
  BY <1>1, TallyCount, FS_AddElement

\* No table names a free frame.
LEMMA FreeUnnamed ==
  ASSUME NEW m, NEW lev, Levels(m, lev), Links(m, lev), NEW f \in Ram, f \in m.free,
         lev[f] = 0, f # Absent
  PROVE  \A u \in Ram, j \in Index : lev[u] > 0 => m.entry[u][j] # f
<1> SUFFICES ASSUME NEW u \in Ram, NEW j \in Index, lev[u] > 0, m.entry[u][j] = f
             PROVE  FALSE
  OBVIOUS
<1>1. lev[u] \in 1 .. 3 \/ lev[u] = 4
  BY DEF Levels
<1> QED
  BY <1>1 DEF Links

\* The counts after a table was linked: either the table that names it has one
\* more, or it is one of early_map's.
LEMMA LinkCounted ==
  ASSUME NEW m \in Memory, NEW n \in Memory, NEW lev, NEW t \in Ram, NEW i \in Index,
         NEW new, Link(m, n, t, i, new), m.entry[t][i] = Absent,
         lev[t] \in 1 .. 3, Levels(m, lev), Links(m, lev),
         NEW E, Counted(m, lev, E, t, 0), new \notin E,
         NEW lev2, Grown(lev, lev2, t, new),
         \A f \in Frame : f # t => n.refcount[f] = m.refcount[f],
         NEW F,
         \/ F = E /\ (lev[t] = 1 \/ n.refcount[t] = m.refcount[t] + 1)
         \/ F = E \cup {new} /\ n.refcount[t] = m.refcount[t]
  PROVE  Counted(n, lev2, F, new, 0)
<1>1. new \in m.free /\ new \in Ram /\ new # Absent /\ lev[new] = 0 /\ new # t
  BY NewFrame
<1>2. lev2[new] = lev[t] + 1 /\ \A u \in Ram : u # new => lev2[u] = lev[u]
  BY DEF Grown
<1>3. (\A u \in Ram : u \in Frame) /\ new \notin Uncounted /\ \A f \in Uncounted : f \in Frame /\ f \notin Ram
  <2>1. \A f \in Uncounted : f \in Frame /\ f \notin Ram
    BY Facts DEF Uncounted
  <2> QED
    BY <1>1, <2>1, Facts
<1>4. ASSUME NEW u \in Ram, lev2[u] > 1
      PROVE  n.refcount[u] = Cardinality(Tally(n, u, F)) + (IF u = new THEN 0 ELSE 0)
  <2>1. Cardinality(Tally(n, u, F)) \in Nat /\ Cardinality(Tally(m, u, E)) \in Nat
    BY TallyCount
  <2>2. CASE u = new
    <3>1. Tally(n, u, F) = {}
      BY <2>2 DEF Link, Tally
    <3>2. n.refcount[u] = 0
      BY <1>1, <1>3, <2>2 DEF Counted
    <3>3. Cardinality(Tally(n, u, F)) = 0
      BY <3>1, TallyCount
    <3> QED
      BY <3>2, <3>3
  <2>3. u # new => m.refcount[u] = Cardinality(Tally(m, u, E)) + 0
    BY <1>2, <1>4 DEF Counted
  <2>4. u # new => \A j \in Index : m.entry[u][j] # new
    <3>1. u # new => lev[u] > 0
      BY <1>2, <1>4 DEF Grown
    <3>2. \A w \in Ram, j \in Index : lev[w] > 0 => m.entry[w][j] # new
      BY <1>1, FreeUnnamed
    <3> QED
      BY <3>1, <3>2
  <2>5. CASE u = t /\ F = E
    <3>1. /\ n.entry[t][i] \notin E \cup Uncounted \cup {Absent}
          /\ \A j \in Index : j # i => n.entry[t][j] = m.entry[t][j]
      BY <1>1, <1>3 DEF Link
    <3>2. Cardinality(Tally(n, t, E)) = Cardinality(Tally(m, t, E)) + 1
      BY <3>1, TallyGain
    <3>3. n.refcount[t] = m.refcount[t] + 1
      <4>1. lev[t] # 1
        BY <1>1, <1>2, <1>4, <2>5
      <4>2. F = E \cup {new} => FALSE
        BY <2>5
      <4> QED
        BY <4>1, <4>2
    <3> QED
      BY <1>1, <2>1, <2>3, <2>5, <3>2, <3>3
  <2>6. CASE u = t /\ F = E \cup {new}
    <3>1. Tally(n, t, F) = Tally(m, t, E)
      <4>1. n.entry[t][i] = new /\ \A j \in Index : j # i => n.entry[t][j] = m.entry[t][j]
        BY <1>1 DEF Link
      <4>2. \A j \in Index : m.entry[t][j] # new
        BY <1>1, <2>4, <2>6
      <4> QED
        BY <2>6, <4>1, <4>2 DEF Tally
    <3>2. n.refcount[t] = m.refcount[t]
      BY <2>6
    <3> QED
      BY <1>1, <2>1, <2>3, <2>6, <3>1, <3>2
  <2>7. CASE u # new /\ u # t
    <3>1. \A j \in Index : n.entry[u][j] = m.entry[u][j]
      BY <2>7 DEF Link
    <3>2. Tally(n, u, F) = Tally(m, u, E)
      BY <2>4, <2>7, <3>1 DEF Tally
    <3>3. n.refcount[u] = m.refcount[u]
      BY <1>3, <2>7
    <3> QED
      BY <2>1, <2>3, <2>7, <3>2, <3>3
  <2> QED
    BY <2>2, <2>5, <2>6, <2>7
<1>5. \A f \in n.free \cup Uncounted : n.refcount[f] = 0
  <2> SUFFICES ASSUME NEW f \in n.free \cup Uncounted PROVE n.refcount[f] = 0
    OBVIOUS
  <2>1. f \in m.free \cup Uncounted /\ f \in Frame
    <3>1. n.free \subseteq BootFrames
      BY DEF Memory
    <3> QED
      BY <1>3, <3>1, Facts DEF Link
  <2>2. f # t
    BY <1>3, <2>1 DEF Levels
  <2> QED
    BY <2>1, <2>2 DEF Counted
<1>6. ASSUME NEW u \in Ram, NEW j \in Index, lev2[u] = 4,
             n.entry[u][j] \notin Uncounted \cup {Absent}
      PROVE  n.refcount[n.entry[u][j]] = 1
  <2>1. u # new
    BY <1>6 DEF Link
  <2>2. u # t /\ lev[u] = 4
    BY <1>2, <1>6, <2>1
  <2>3. n.entry[u][j] = m.entry[u][j]
    BY <2>1, <2>2 DEF Link
  <2>4. PICK f : f = m.entry[u][j]
    OBVIOUS
  <2>5. f \in Frame /\ f # t /\ m.refcount[f] = 1
    <3>1. f \in Frame \cup {Absent} /\ f # Absent
      BY <1>6, <2>3, <2>4 DEF Memory
    <3>2. f # t
      BY <2>2, <2>4, <3>1 DEF Links
    <3>3. m.refcount[f] = 1
      BY <1>6, <2>2, <2>3, <2>4 DEF Counted
    <3> QED
      BY <3>1, <3>2, <3>3
  <2> QED
    BY <2>3, <2>4, <2>5
<1> QED
  BY <1>4, <1>5, <1>6 DEF Counted

\* Frames left for the tables missing from level l on.
Room(m, v, l) == \A k \in l .. 3 :
  Node(m, v, k + 1) = Absent => Cardinality(m.free) >= 4 - k

\* n is m with the way to v made as far as level l.
Made(m, lev, n, lev2, E, v, l) ==
  /\ Tree(n, lev2, E, Node(n, v, l), 0) /\ Node(n, v, l) # Absent /\ Room(n, v, l)
  /\ \A w \in Virtual : Leaf(n, w) = Leaf(m, w)
  /\ \A f \in Frame : Idle(m, lev, f) => Idle(n, lev2, f)

\* The free frames after one was taken.
LEMMA RoomKept ==
  ASSUME NEW m \in Memory, NEW n \in Memory, NEW t, NEW i, NEW new,
         Link(m, n, t, i, new), NEW v, NEW l \in 1 .. 3, Room(m, v, l),
         Node(m, v, l + 1) = Absent
  PROVE  Room(n, v, l + 1)
<1>1. new \in m.free /\ n.free = m.free \ {new} /\ IsFiniteSet(m.free)
  <2>1. m.free \subseteq BootFrames
    BY DEF Memory
  <2> QED
    BY <2>1, Facts, FS_Subset DEF Link
<1>2. Cardinality(n.free) = Cardinality(m.free) - 1 /\ Cardinality(m.free) \in Nat
  BY <1>1, FS_RemoveElement, FS_CardinalityType
<1>3. Cardinality(m.free) >= 4 - l
  <2>1. l \in l .. 3
    OBVIOUS
  <2> QED
    BY <2>1 DEF Room
<1>4. \A k \in l + 1 .. 3 : Cardinality(n.free) >= 4 - k
  BY <1>2, <1>3
<1> QED
  BY <1>4 DEF Room

LEMMA RoomNow ==
  ASSUME NEW m \in Memory, NEW v, NEW l \in 1 .. 3, Room(m, v, l),
         Node(m, v, l + 1) = Absent
  PROVE  m.free # {}
<1>1. Cardinality(m.free) >= 4 - l
  <2>1. l \in l .. 3
    OBVIOUS
  <2> QED
    BY <2>1 DEF Room
<1>2. Cardinality({}) = 0
  BY FS_EmptySet
<1> QED
  BY <1>1, <1>2

\* map_page has counted the new table, early_map makes it one of its own.
Grows(m, n, lev, t, new, E, F) ==
  \/ /\ F = E /\ Filled(m, E)
     /\ lev[t] = 1 \/ n.refcount[t] = m.refcount[t] + 1
  \/ /\ F = E \cup {new} /\ AllEarly(lev, E)
     /\ n.refcount[t] = m.refcount[t]

\* A missing table is made.
LEMMA LinkMade ==
  ASSUME NEW m \in Memory, NEW n \in Memory, NEW lev, NEW t \in Ram, NEW i \in Index,
         NEW new, Link(m, n, t, i, new), m.entry[t][i] = Absent,
         NEW v \in Virtual, NEW l \in 1 .. 3, Node(m, v, l) = t, v[l] = i,
         NEW E, Tree(m, lev, E, t, 0), Room(m, v, l),
         \A f \in Frame : f # t => n.refcount[f] = m.refcount[f],
         NEW F, Grows(m, n, lev, t, new, E, F)
  PROVE  \E lev2 : /\ Made(m, lev, n, lev2, F, v, l + 1)
                   /\ F = E => Filled(n, E)
                   /\ F = E \cup {new} => AllEarly(lev2, F)
<1> USE DEF Grows
<1>1. /\ Levels(m, lev) /\ Links(m, lev) /\ OneName(m, lev) /\ Used(m, lev, t)
      /\ Counted(m, lev, E, t, 0) /\ EarlyMade(m, lev, E) /\ Pages(m, lev)
  BY DEF Tree
<1>2. t # Absent /\ lev[t] = l
  <2>1. t # Absent
    BY Facts
  <2>2. l \in 1 .. 4
    OBVIOUS
  <2> QED
    BY <1>1, <2>1, <2>2, NodeLevels
<1>3. lev[t] \in 1 .. 3 /\ l + 1 \in 2 .. 4
  BY <1>2
<1>4. PICK lev2 : Grown(lev, lev2, t, new)
  <2> DEFINE lv == [lev EXCEPT ![new] = lev[t] + 1]
  <2>1. lev \in [Ram -> 0 .. 4] /\ lev[t] + 1 \in 0 .. 4 /\ new \in Ram
    <3>1. new \in Ram
      BY <1>1, NewFrame
    <3> QED
      BY <1>1, <1>3, <3>1 DEF Levels
  <2>2. Grown(lev, lv, t, new)
    BY <2>1 DEF Grown
  <2> QED
    BY <2>2
<1>5. /\ Levels(n, lev2) /\ Links(n, lev2) /\ OneName(n, lev2)
      /\ Used(n, lev2, new)
  BY <1>1, <1>3, <1>4, LinkTree
<1>6. new \notin E /\ Absent \notin E /\ Absent \notin Uncounted /\ Counted(n, lev2, F, new, 0)
  <2>1. \A u \in E : u \in Ram /\ lev[u] > 0
    BY <1>1 DEF EarlyMade
  <2>2. Absent \notin Ram /\ lev[new] = 0
    <3>1. lev[new] = 0
      BY <1>1, NewFrame
    <3> QED
      BY <3>1, Facts
  <2>3. new \notin E /\ Absent \notin E
    BY <2>1, <2>2
  <2>4. Absent \notin Uncounted
    BY Facts DEF Uncounted
  <2>5. Counted(n, lev2, F, new, 0)
    BY <1>1, <1>3, <1>4, <2>3, LinkCounted
  <2> QED
    BY <2>3, <2>4, <2>5
<1>7. Pages(n, lev2) /\ \A f \in Frame : Idle(m, lev, f) => Idle(n, lev2, f)
  BY <1>1, <1>3, <1>4, LinkPages
<1>8. /\ \A w \in Virtual : Leaf(n, w) = Leaf(m, w)
      /\ Node(n, v, l + 1) = new
  BY <1>1, <1>2, <1>3, LinkWays
<1>9. Room(n, v, l + 1)
  <2>1. Node(m, v, l + 1) = Absent
    <3>1. l \in 1 .. 4 /\ Node(m, v, l) # Absent
      BY <1>2
    <3> QED
      BY <1>1, <3>1, NodeLevels
  <2> QED
    BY <2>1, RoomKept
<1>10. new \in m.free /\ new \in Ram /\ new # Absent /\ lev[new] = 0
  BY <1>1, NewFrame
<1>11. lev2[new] = lev[t] + 1 /\ \A u \in Ram : u # new => lev2[u] = lev[u]
  BY <1>4 DEF Grown
<1>12. \A u \in Ram, j \in Index : lev2[u] \in 1 .. 3 /\ n.entry[u][j] # Absent =>
          \/ u = t /\ j = i /\ n.entry[u][j] = new
          \/ lev[u] \in 1 .. 3 /\ n.entry[u][j] = m.entry[u][j] /\ n.entry[u][j] # new
  <2> SUFFICES ASSUME NEW u \in Ram, NEW j \in Index, lev2[u] \in 1 .. 3,
                      n.entry[u][j] # Absent, ~ (u = t /\ j = i)
               PROVE  /\ lev[u] \in 1 .. 3 /\ n.entry[u][j] = m.entry[u][j]
                      /\ n.entry[u][j] # new
    BY DEF Link
  <2>1. u # new
    BY DEF Link
  <2>2. lev[u] \in 1 .. 3 /\ n.entry[u][j] = m.entry[u][j]
    BY <1>11, <2>1 DEF Link
  <2>3. m.entry[u][j] # new
    BY <1>1, <1>10, <2>2 DEF Links
  <2> QED
    BY <2>2, <2>3
<1>13. /\ E \subseteq F /\ F \subseteq E \cup {new} /\ Root \in E
       /\ \A u \in F : u \in Ram /\ lev2[u] > 0
       /\ F = E \cup {new} => \A u \in Ram : lev2[u] > 0 => u \in F
  <2>1. Root \in E /\ \A u \in E : u \in Ram /\ lev[u] > 0
    BY <1>1 DEF EarlyMade
  <2>2. \A u \in E \cup {new} : u \in Ram /\ lev2[u] > 0
    BY <1>3, <1>6, <1>10, <1>11, <2>1
  <2>3. F = E \cup {new} => AllEarly(lev, E)
    BY <1>6
  <2> QED
    BY <1>6, <1>11, <2>1, <2>2, <2>3 DEF AllEarly
<1>14. ASSUME NEW u \in Ram, NEW j \in Index,
              \/ lev2[u] \in 1 .. 3 /\ n.entry[u][j] \in F
              \/ lev2[u] = 4 /\ n.entry[u][j] \in Uncounted
       PROVE  u \in F
  <2>1. CASE F = E \cup {new}
    BY <1>13, <1>14, <2>1
  <2>2. CASE F = E /\ lev2[u] \in 1 .. 3 /\ n.entry[u][j] \in E
    BY <1>1, <1>6, <1>12, <2>2 DEF EarlyMade
  <2>3. CASE F = E /\ lev2[u] = 4 /\ n.entry[u][j] \in Uncounted
    <3>1. u # new
      BY <1>6, <2>3 DEF Link
    <3>2. lev[u] = 4 /\ u # t
      BY <1>3, <1>11, <2>3, <3>1
    <3>3. n.entry[u][j] = m.entry[u][j]
      BY <3>1, <3>2 DEF Link
    <3> QED
      BY <1>1, <2>3, <3>2, <3>3 DEF EarlyMade
  <2> QED
    BY <1>14, <2>1, <2>2, <2>3
<1>15. \A u \in F : \/ u = Root \/ Entries(n, u) = {}
                     \/ \E j \in Index : n.entry[u][j] \in F \cup Uncounted
  <2> SUFFICES ASSUME NEW u \in F, u # Root, Entries(n, u) # {}
               PROVE  \E j \in Index : n.entry[u][j] \in F \cup Uncounted
    OBVIOUS
  <2>1. u # new
    BY DEF Link, Entries
  <2>2. u \in E /\ u \in Ram
    BY <1>13, <2>1
  <2>3. CASE \E j \in Index : m.entry[u][j] \in E \cup Uncounted
    <3>1. PICK j \in Index : m.entry[u][j] \in E \cup Uncounted
      BY <2>3
    <3>2. ~ (u = t /\ j = i)
      BY <1>6, <3>1
    <3>3. n.entry[u][j] = m.entry[u][j]
      BY <2>1, <2>2, <3>2 DEF Link
    <3> QED
      BY <1>13, <3>1, <3>3
  <2>4. CASE Entries(m, u) = {}
    <3>1. u = t
      <4>1. u # t => \A j \in Index : n.entry[u][j] = m.entry[u][j]
        BY <2>1, <2>2 DEF Link
      <4> QED
        BY <2>4, <4>1 DEF Entries
    <3>2. F = E \cup {new}
      <4>1. ~ Filled(m, E)
        BY <2>2, <2>4 DEF Filled
      <4> QED
        BY <4>1
    <3>3. n.entry[u][i] = new
      BY <3>1 DEF Link
    <3> QED
      BY <3>2, <3>3
  <2> QED
    BY <1>1, <2>2, <2>3, <2>4 DEF EarlyMade
<1>16. EarlyMade(n, lev2, F)
  BY <1>13, <1>14, <1>15 DEF EarlyMade
<1>17. Made(m, lev, n, lev2, F, v, l + 1)
  BY <1>5, <1>6, <1>7, <1>8, <1>9, <1>10, <1>16 DEF Made, Tree
<1>18. Filled(n, E)
  <2> SUFFICES ASSUME NEW u \in E, u # Root PROVE Entries(n, u) # {}
    BY DEF Filled
  <2>1. u \in Ram /\ u # new /\ lev2[u] > 0
    BY <1>6, <1>13
  <2>2. lev2[u] > 1
    BY <1>5, <2>1 DEF Levels
  <2> QED
    BY <1>5, <2>1, <2>2 DEF Used
<1> QED
  BY <1>13, <1>17, <1>18 DEF AllEarly

\* A table that has an entry needs no exemption.
LEMMA TreeMove ==
  ASSUME NEW m, NEW lev, NEW E, NEW t, Tree(m, lev, E, t, 0), NEW x,
         t \in Ram => Entries(m, t) # {} \/ lev[t] <= 1
  PROVE  Tree(m, lev, E, x, 0)
<1>1. Used(m, lev, t) /\ Counted(m, lev, E, t, 0) /\ lev \in [Ram -> 0 .. 4]
  BY DEF Tree, Levels
<1>2. Used(m, lev, x)
  BY <1>1 DEF Used
<1>3. Counted(m, lev, E, x, 0)
  BY <1>1 DEF Counted
<1> QED
  BY <1>2, <1>3 DEF Tree

LEMMA IncPage ==
  ASSUME NEW m \in Memory, NEW f \in Frame
  PROVE  /\ inc_page(m, f) \in Memory
         /\ inc_page(m, f).entry = m.entry /\ inc_page(m, f).free = m.free
         /\ inc_page(m, f).refcount[f] = m.refcount[f] + 1
         /\ \A g \in Frame : g # f => inc_page(m, f).refcount[g] = m.refcount[g]
BY DEF Memory, inc_page

\* The table below level l is there already.
LEMMA TablePresent ==
  ASSUME NEW m, NEW lev, NEW E, NEW v \in Virtual, NEW l \in 1 .. 3,
         Tree(m, lev, E, Node(m, v, l), 0), Node(m, v, l) # Absent, Room(m, v, l),
         m.entry[Node(m, v, l)][v[l]] # Absent
  PROVE  Made(m, lev, m, lev, E, v, l + 1)
<1>1. l \in 1 .. 4 /\ l + 1 \in 1 .. 4 /\ v[l] \in Index
  BY Facts
<1>2. m \in Memory /\ Levels(m, lev) /\ Links(m, lev)
  BY DEF Tree
<1>3. Node(m, v, l + 1) # Absent
  BY <1>1, <1>2, NodeLevels
<1>4. Entries(m, Node(m, v, l)) # {}
  BY <1>1 DEF Entries
<1>5. Tree(m, lev, E, Node(m, v, l + 1), 0)
  BY <1>4, TreeMove
<1>6. Room(m, v, l + 1)
  BY DEF Room
<1> QED
  BY <1>3, <1>5, <1>6 DEF Made

\* A missing table can be made.
LEMMA TableMissing ==
  ASSUME NEW m, NEW lev, NEW E, NEW v \in Virtual, NEW l \in 1 .. 3,
         Tree(m, lev, E, Node(m, v, l), 0), Node(m, v, l) # Absent, Room(m, v, l),
         m.entry[Node(m, v, l)][v[l]] = Absent
  PROVE  /\ m \in Memory /\ Linked(m, v, l) \in Memory
         /\ Linked(m, v, l).refcount = m.refcount
         /\ Node(m, v, l) \in Ram /\ v[l] \in Index /\ Table(m, v, l) = Node(m, v, l)
         /\ lev[Node(m, v, l)] = l
         /\ Link(m, Linked(m, v, l), Node(m, v, l), v[l], FreeFrame(m))
<1>1. l \in 1 .. 4 /\ v[l] \in Index
  BY Facts
<1>2. m \in Memory /\ Levels(m, lev) /\ Links(m, lev)
  BY DEF Tree
<1>3. /\ Node(m, v, l) \in Ram /\ lev[Node(m, v, l)] = l
      /\ Node(m, v, l + 1) = Absent /\ Table(m, v, l) = Node(m, v, l)
  <2>1. Table(m, v, l) = Node(m, v, l)
    BY <1>1, NodeSteps
  <2> QED
    BY <1>1, <1>2, <2>1, NodeLevels
<1>4. Node(m, v, l) \notin m.free
  BY <1>2, <1>3 DEF Levels
<1>5. m.free # {}
  BY <1>2, <1>3, RoomNow
<1>6. Table(m, v, l) \in Ram \ m.free
  BY <1>3, <1>4
<1> QED
  BY <1>1, <1>2, <1>3, <1>5, <1>6, LinkedIs

LEMMA WithTableMade ==
  ASSUME NEW m, NEW lev, NEW E, NEW v \in Virtual, NEW l \in 1 .. 3,
         Tree(m, lev, E, Node(m, v, l), 0), Node(m, v, l) # Absent, Room(m, v, l),
         Filled(m, E)
  PROVE  \E lev2 : /\ Made(m, lev, WithTable(m, v, l), lev2, E, v, l + 1)
                   /\ Filled(WithTable(m, v, l), E)
<1> DEFINE t == Node(m, v, l)
<1>1. Table(m, v, l) = t
  BY NodeSteps, l \in 1 .. 4
<1>2. CASE m.entry[t][v[l]] # Absent
  <2>1. WithTable(m, v, l) = m
    BY <1>1, <1>2 DEF WithTable
  <2>2. Made(m, lev, m, lev, E, v, l + 1)
    BY <1>2, TablePresent
  <2> QED
    BY <2>1, <2>2
<1>3. CASE m.entry[t][v[l]] = Absent
  <2> DEFINE n == Linked(m, v, l)
             p == WithTable(m, v, l)
             new == FreeFrame(m)
  <2>1. /\ m \in Memory /\ n \in Memory /\ n.refcount = m.refcount
        /\ t \in Ram /\ v[l] \in Index /\ lev[t] = l
        /\ Link(m, n, t, v[l], new)
    BY <1>3, TableMissing
  <2>2. p = IF l > 1 THEN inc_page(n, t) ELSE n
    BY <1>1, <1>3 DEF WithTable, Counts
  <2>3. t \in Frame
    BY <2>1, Facts
  <2> HIDE DEF n, p, new
  <2>4. /\ p \in Memory /\ p.entry = n.entry /\ p.free = n.free
        /\ \A f \in Frame : f # t => p.refcount[f] = m.refcount[f]
        /\ l > 1 => p.refcount[t] = m.refcount[t] + 1
    BY <2>1, <2>2, <2>3, IncPage
  <2>5. Link(m, p, t, v[l], new)
    BY <2>1, <2>4 DEF Link
  <2>6. lev[t] = 1 \/ p.refcount[t] = m.refcount[t] + 1
    BY <2>1, <2>4
  <2>7. \E lev2 : Made(m, lev, p, lev2, E, v, l + 1) /\ Filled(p, E)
    <3>1. PICK i \in Index : i = v[l] /\ m.entry[t][i] = Absent /\ Link(m, p, t, i, new)
      BY <1>3, <2>1, <2>5
    <3>2. t = Node(m, v, l) /\ Tree(m, lev, E, t, 0)
      OBVIOUS
    <3> HIDE DEF t
    <3>3. PICK F : F = E
      OBVIOUS
    <3>4. Grows(m, p, lev, t, new, E, F)
      BY <2>6, <3>3 DEF Grows
    <3>5. \E lev2 : /\ Made(m, lev, p, lev2, F, v, l + 1)
                    /\ F = E => Filled(p, E)
                    /\ F = E \cup {new} => AllEarly(lev2, F)
      BY <2>1, <2>4, <3>1, <3>2, <3>4, LinkMade
    <3> QED
      BY <3>3, <3>5
  <2> QED
    BY <2>7 DEF p
<1> QED
  BY <1>2, <1>3

LEMMA EarlyTableMade ==
  ASSUME NEW m, NEW lev, NEW E, NEW v \in Virtual, NEW l \in 1 .. 3,
         Tree(m, lev, E, Node(m, v, l), 0), Node(m, v, l) # Absent, Room(m, v, l),
         AllEarly(lev, E)
  PROVE  \E lev2, E2 : /\ Made(m, lev, EarlyTable(m, v, l), lev2, E2, v, l + 1)
                       /\ AllEarly(lev2, E2)
<1> DEFINE t == Node(m, v, l)
<1>1. Table(m, v, l) = t
  BY NodeSteps, l \in 1 .. 4
<1>2. CASE m.entry[t][v[l]] # Absent
  <2>1. EarlyTable(m, v, l) = m
    BY <1>1, <1>2 DEF EarlyTable
  <2>2. Made(m, lev, m, lev, E, v, l + 1)
    BY <1>2, TablePresent
  <2> QED
    BY <2>1, <2>2
<1>3. CASE m.entry[t][v[l]] = Absent
  <2> DEFINE n == Linked(m, v, l)
             new == FreeFrame(m)
  <2>1. /\ m \in Memory /\ n \in Memory /\ n.refcount = m.refcount
        /\ t \in Ram /\ v[l] \in Index /\ lev[t] = l
        /\ Link(m, n, t, v[l], new)
    BY <1>3, TableMissing
  <2>2. EarlyTable(m, v, l) = n
    BY <1>1, <1>3 DEF EarlyTable
  <2> HIDE DEF n, new
  <2>4. \E lev2 : /\ Made(m, lev, n, lev2, E \cup {new}, v, l + 1)
                  /\ AllEarly(lev2, E \cup {new})
    <3>1. PICK i \in Index : i = v[l] /\ m.entry[t][i] = Absent /\ Link(m, n, t, i, new)
      BY <1>3, <2>1
    <3>2. t = Node(m, v, l) /\ Tree(m, lev, E, t, 0)
      OBVIOUS
    <3> HIDE DEF t
    <3>3. /\ \A f \in Frame : f # t => n.refcount[f] = m.refcount[f]
          /\ n.refcount[t] = m.refcount[t]
      BY <2>1
    <3>4. PICK F : F = E \cup {new}
      OBVIOUS
    <3>5. Grows(m, n, lev, t, new, E, F)
      BY <3>3, <3>4 DEF Grows
    <3>6. \E lev2 : /\ Made(m, lev, n, lev2, F, v, l + 1)
                    /\ F = E => Filled(n, E)
                    /\ F = E \cup {new} => AllEarly(lev2, F)
      BY <2>1, <3>1, <3>2, <3>3, <3>5, LinkMade
    <3> QED
      BY <3>4, <3>6
  <2> QED
    BY <2>2, <2>4
<1> QED
  BY <1>2, <1>3

LEMMA MadeTwice ==
  ASSUME NEW m, NEW lev, NEW n, NEW lev2, NEW E, NEW v, NEW l,
         Made(m, lev, n, lev2, E, v, l),
         NEW p, NEW lev3, NEW E2, NEW k, Made(n, lev2, p, lev3, E2, v, k)
  PROVE  Made(m, lev, p, lev3, E2, v, k)
BY DEF Made

\* Before the first level nothing is made.
LEMMA MadeNothing ==
  ASSUME NEW m, NEW lev, NEW E, Tree(m, lev, E, Root, 0), NEW v \in Virtual,
         Room(m, v, 1)
  PROVE  Made(m, lev, m, lev, E, v, 1)
BY NodeSteps DEF Made

\* Between two calls no table is empty.
LEMMA TreeFilled ==
  ASSUME NEW m, NEW lev, NEW E, Tree(m, lev, E, Root, 0)
  PROVE  Filled(m, E)
<1> SUFFICES ASSUME NEW t \in E, t # Root PROVE Entries(m, t) # {}
  BY DEF Filled
<1>1. t \in Ram /\ lev[t] > 0 /\ lev[t] # 1 /\ lev[t] \in 0 .. 4
  BY DEF Tree, EarlyMade, Levels
<1>2. lev[t] > 1
  BY <1>1
<1> QED
  BY <1>1, <1>2 DEF Tree, Used

\* map_page finds or makes all tables on the way.
LEMMA WithTablesMade ==
  ASSUME NEW m, NEW lev, NEW E, Tree(m, lev, E, Root, 0), NEW v \in Virtual,
         Room(m, v, 1)
  PROVE  \E lev2 : /\ Made(m, lev, WithTables(m, v), lev2, E, v, 4)
                   /\ Filled(WithTables(m, v), E)
<1> DEFINE Done(n, lev2, l) == Made(m, lev, n, lev2, E, v, l) /\ Filled(n, E)
<1>1. ASSUME NEW n, NEW lev2, NEW l \in 1 .. 3, Done(n, lev2, l)
      PROVE  \E lev3 : Done(WithTable(n, v, l), lev3, l + 1)
  <2>1. PICK lev3 : /\ Made(n, lev2, WithTable(n, v, l), lev3, E, v, l + 1)
                    /\ Filled(WithTable(n, v, l), E)
    <3>1. Tree(n, lev2, E, Node(n, v, l), 0) /\ Node(n, v, l) # Absent /\ Room(n, v, l)
      BY <1>1 DEF Made
    <3> QED
      BY <1>1, <3>1, WithTableMade
  <2> QED
    BY <1>1, <2>1, MadeTwice
<1> DEFINE n1 == WithTable(m, v, 1)
           n2 == WithTable(n1, v, 2)
<1>0. Done(m, lev, 1)
  BY MadeNothing, TreeFilled
<1> HIDE DEF Done
<1>2. PICK lev1 : Done(n1, lev1, 2)
  BY <1>0, <1>1, 1 \in 1 .. 3, 1 + 1 = 2
<1> HIDE DEF n1
<1>3. PICK lev2 : Done(n2, lev2, 3)
  BY <1>2, <1>1, 2 \in 1 .. 3, 2 + 1 = 3
<1> HIDE DEF n2
<1>4. \E lev3 : Done(WithTable(n2, v, 3), lev3, 4)
  BY <1>3, <1>1, 3 \in 1 .. 3, 3 + 1 = 4
<1> QED
  BY <1>4 DEF WithTables, n1, n2, Done

\* So does early_map, in its own way.
LEMMA EarlyTablesMade ==
  ASSUME NEW m, NEW lev, NEW E, Tree(m, lev, E, Root, 0), NEW v \in Virtual,
         Room(m, v, 1), AllEarly(lev, E)
  PROVE  \E lev2, E2 :
           /\ Made(m, lev, EarlyTable(EarlyTable(EarlyTable(m, v, 1), v, 2), v, 3),
                   lev2, E2, v, 4)
           /\ AllEarly(lev2, E2)
<1>1. ASSUME NEW n, NEW lev2, NEW F, NEW l \in 1 .. 3, Made(m, lev, n, lev2, F, v, l),
             AllEarly(lev2, F)
      PROVE  \E lev3, G : /\ Made(m, lev, EarlyTable(n, v, l), lev3, G, v, l + 1)
                          /\ AllEarly(lev3, G)
  <2>1. PICK lev3, G : /\ Made(n, lev2, EarlyTable(n, v, l), lev3, G, v, l + 1)
                       /\ AllEarly(lev3, G)
    <3>1. Tree(n, lev2, F, Node(n, v, l), 0) /\ Node(n, v, l) # Absent /\ Room(n, v, l)
      BY <1>1 DEF Made
    <3> QED
      BY <1>1, <3>1, EarlyTableMade
  <2> QED
    BY <1>1, <2>1, MadeTwice
<1> DEFINE n1 == EarlyTable(m, v, 1)
           n2 == EarlyTable(n1, v, 2)
<1>2. PICK lev1, E1 : Made(m, lev, n1, lev1, E1, v, 2) /\ AllEarly(lev1, E1)
  BY MadeNothing, <1>1, 1 \in 1 .. 3, 1 + 1 = 2
<1> HIDE DEF n1
<1>3. PICK lev2, E2 : Made(m, lev, n2, lev2, E2, v, 3) /\ AllEarly(lev2, E2)
  BY <1>2, <1>1, 2 \in 1 .. 3, 2 + 1 = 3
<1> HIDE DEF n2
<1>4. \E lev3, E3 : /\ Made(m, lev, EarlyTable(n2, v, 3), lev3, E3, v, 4)
                    /\ AllEarly(lev3, E3)
  BY <1>3, <1>1, 3 \in 1 .. 3, 3 + 1 = 4
<1> QED
  BY <1>4 DEF n1, n2

----------------------------------------------------------------------------
(* The entry of a page *)

\* n has the free frames of m, and its tables but for entry i of t.
SetEntry(m, n, t, i, f) ==
  /\ n.free = m.free /\ n.entry[t][i] = f
  /\ \A u \in Ram, j \in Index : ~ (u = t /\ j = i) => n.entry[u][j] = m.entry[u][j]

LEMMA SetEntryIs ==
  ASSUME NEW m \in Memory, NEW t \in Ram, NEW i \in Index, NEW f \in Frame \cup {Absent}
  PROVE  LET n == [m EXCEPT !.entry[t][i] = f]
         IN  n \in Memory /\ SetEntry(m, n, t, i, f) /\ n.refcount = m.refcount
<1> DEFINE n == [m EXCEPT !.entry[t][i] = f]
<1>1. n \in Memory /\ n.refcount = m.refcount /\ n.free = m.free
  BY DEF Memory
<1>2. n.entry = [m.entry EXCEPT ![t] = [@ EXCEPT ![i] = f]]
  BY DEF Memory
<1>3. m.entry \in [Ram -> [Index -> Frame \cup {Absent}]]
  BY DEF Memory
<1>4. SetEntry(m, n, t, i, f)
  BY <1>1, <1>2, <1>3 DEF SetEntry
<1> QED
  BY <1>1, <1>4

\* It is the entry of v and of no other page.
LEMMA LeafWays ==
  ASSUME NEW m \in Memory, NEW n \in Memory, NEW lev, Levels(m, lev), Links(m, lev),
         OneName(m, lev), NEW v \in Virtual, Node(m, v, 4) # Absent,
         NEW f, SetEntry(m, n, Node(m, v, 4), v[4], f)
  PROVE  /\ Node(m, v, 4) \in Ram /\ lev[Node(m, v, 4)] = 4 /\ v[4] \in Index
         /\ Leaf(n, v) = f
         /\ \A w \in Virtual : w # v => Leaf(n, w) = Leaf(m, w)
         /\ \A k \in 1 .. 4 : Node(n, v, k) = Node(m, v, k)
<1> DEFINE t == Node(m, v, 4)
<1> HIDE DEF t
<1>0. t = Node(m, v, 4) /\ SetEntry(m, n, t, v[4], f) /\ t # Absent
  BY DEF t
<1>1. t \in Ram /\ lev[t] = 4 /\ v[4] \in Index
  BY <1>0, NodeLevels, Facts, 4 \in 1 .. 4
<1>2. Agree(m, n, lev, t, v[4])
  BY <1>0 DEF Agree, SetEntry
<1>3. \A w \in Virtual :
         /\ \A k \in 1 .. 4 : Node(n, w, k) = Node(m, w, k)
         /\ Node(m, w, 4) = t /\ w[4] = v[4] => Node(n, w, 5) = n.entry[t][v[4]]
         /\ ~ (Node(m, w, 4) = t /\ w[4] = v[4]) => Node(n, w, 5) = Node(m, w, 5)
  <2> SUFFICES ASSUME NEW w \in Virtual
               PROVE  /\ \A k \in 1 .. 4 : Node(n, w, k) = Node(m, w, k)
                      /\ Node(m, w, 4) = t /\ w[4] = v[4] => Node(n, w, 5) = n.entry[t][v[4]]
                      /\ ~ (Node(m, w, 4) = t /\ w[4] = v[4]) => Node(n, w, 5) = Node(m, w, 5)
    OBVIOUS
  <2>1. PICK i \in Index : i = v[4]
    BY <1>1
  <2>2. lev[t] \in 1 .. 4 /\ 4 + 1 = 5 /\ 5 \in 1 .. 5
    BY <1>1
  <2>3. /\ \A k \in 1 .. lev[t] : Node(n, w, k) = Node(m, w, k)
        /\ Node(m, w, lev[t]) = t /\ w[lev[t]] = i
             => Node(n, w, lev[t] + 1) = n.entry[t][i]
        /\ ~ (Node(m, w, lev[t]) = t /\ w[lev[t]] = i)
             => \A k \in 1 .. 5 : Node(n, w, k) = Node(m, w, k)
    BY <1>1, <1>2, <2>1, <2>2, NodeChange
  <2> QED
    BY <1>1, <2>1, <2>2, <2>3
<1>4. Leaf(n, v) = f
  <2>1. Node(n, v, 5) = n.entry[t][v[4]]
    BY <1>0, <1>3
  <2> QED
    BY <1>0, <2>1, NodeSteps DEF SetEntry
<1>5. ASSUME NEW w \in Virtual, w # v PROVE Leaf(n, w) = Leaf(m, w)
  <2>1. ~ (Node(m, w, 4) = t /\ w[4] = v[4])
    <3> SUFFICES ASSUME Node(m, w, 4) = t, w[4] = v[4] PROVE FALSE
      OBVIOUS
    <3>1. \A k \in 1 .. 3 : w[k] = v[k]
      BY <1>0, NodeUnique
    <3>2. \A k \in 1 .. 4 : w[k] = v[k]
      BY <3>1
    <3> QED
      BY <1>5, <3>2, SamePage
  <2>2. Node(n, w, 5) = Node(m, w, 5)
    BY <1>3, <2>1
  <2> QED
    BY <2>2, NodeSteps
<1> QED
  BY <1>0, <1>1, <1>3, <1>4, <1>5

LEMMA LeafAbove ==
  ASSUME NEW m \in Memory, NEW n \in Memory, NEW lev, Levels(m, lev), Links(m, lev),
         NEW t \in Ram, lev[t] = 4, NEW i \in Index, NEW f, SetEntry(m, n, t, i, f)
  PROVE  \A w \in Virtual, k \in 1 .. 4 : Node(n, w, k) = Node(m, w, k)
<1>1. Agree(m, n, lev, t, i)
  BY DEF Agree, SetEntry
<1>2. lev[t] \in 1 .. 4
  OBVIOUS
<1>3. \A w \in Virtual : \A k \in 1 .. lev[t] : Node(n, w, k) = Node(m, w, k)
  BY <1>1, <1>2, NodeChange
<1> QED
  BY <1>3

\* What each page may be mapped to.
Fits(v, f) == /\ v \in Device \cup Early => f = FrameOf[v]
              /\ v \in Anonymous => f \in Ram

\* The page is mapped: its table and its frame have one count more, unless
\* early_map has done it.
LEMMA LeafSet ==
  ASSUME NEW m, NEW lev, NEW E, NEW v \in Virtual, NEW t, t = Node(m, v, 4), t # Absent,
         Tree(m, lev, E, t, 0), Leaf(m, v) = Absent,
         NEW f \in Frame, Idle(m, lev, f), Fits(v, f),
         NEW n \in Memory, SetEntry(m, n, t, v[4], f),
         \A g \in Frame : g # f /\ g # t => n.refcount[g] = m.refcount[g],
         \/ /\ f \in Uncounted /\ t \in E
            /\ n.refcount[t] = m.refcount[t] /\ n.refcount[f] = m.refcount[f]
         \/ /\ f \notin Uncounted /\ Filled(m, E)
            /\ n.refcount[t] = m.refcount[t] + 1 /\ n.refcount[f] = m.refcount[f] + 1
  PROVE  /\ Tree(n, lev, E, Root, 0) /\ Leaf(n, v) = f
         /\ \A w \in Virtual : w # v => Leaf(n, w) = Leaf(m, w)
<1>1. /\ m \in Memory /\ Levels(m, lev) /\ Links(m, lev) /\ OneName(m, lev)
      /\ Used(m, lev, t) /\ Counted(m, lev, E, t, 0) /\ EarlyMade(m, lev, E)
      /\ Pages(m, lev)
  BY DEF Tree
<1>2. /\ t \in Ram /\ lev[t] = 4 /\ v[4] \in Index /\ Leaf(n, v) = f
      /\ \A w \in Virtual : w # v => Leaf(n, w) = Leaf(m, w)
  <2>1. Node(m, v, 4) # Absent /\ SetEntry(m, n, Node(m, v, 4), v[4], f)
    OBVIOUS
  <2> QED
    <3>1. t \in Ram /\ lev[t] = 4 /\ v[4] \in Index
      BY <1>1, NodeLevels, Facts, 4 \in 1 .. 4
    <3>2. Leaf(n, v) = f
      <4>1. \A g : SetEntry(m, n, Node(m, v, 4), v[4], g) => Leaf(n, v) = g
        BY ONLY <1>1, <2>1, LeafWays, v \in Virtual, n \in Memory
      <4> QED
        BY ONLY <4>1, <2>1
    <3>3. \A w \in Virtual : w # v => Leaf(n, w) = Leaf(m, w)
      BY ONLY <1>1, <2>1, LeafWays, v \in Virtual, n \in Memory
    <3> QED
      BY <3>1, <3>2, <3>3
<1>3. PICK i \in Index : i = v[4]
  BY <1>2
<1>4. /\ n.free = m.free /\ n.entry[t][i] = f
      /\ \A u \in Ram, j \in Index : ~ (u = t /\ j = i) => n.entry[u][j] = m.entry[u][j]
  BY <1>3 DEF SetEntry
<1>5. m.entry[t][i] = Absent
  <2>1. Node(m, v, 4 + 1) = m.entry[t][v[4]]
    BY <1>1, NodeLevels, 4 \in 1 .. 4
  <2> QED
    BY <1>3, <2>1, NodeSteps, 4 + 1 = 5
<1>6. /\ \A u \in Ram, j \in Index : lev[u] > 0 => m.entry[u][j] # f
      /\ m.refcount[f] = 0 /\ f \notin m.free /\ (f \in Ram => lev[f] = 0)
      /\ f # Absent /\ f # t
  <2>1. f # Absent
    BY Facts
  <2> QED
    BY <1>2, <2>1 DEF Idle
<1>7. Levels(n, lev)
  BY <1>1, <1>4 DEF Levels
<1>8. Links(n, lev)
  <2> SUFFICES ASSUME NEW u \in Ram, NEW j \in Index, n.entry[u][j] # Absent
               PROVE  /\ lev[u] \in 1 .. 3 => /\ n.entry[u][j] \in Ram
                                              /\ lev[n.entry[u][j]] = lev[u] + 1
                      /\ lev[u] = 4 /\ n.entry[u][j] \in Ram =>
                            /\ lev[n.entry[u][j]] = 0 /\ n.entry[u][j] \notin n.free
    BY DEF Links
  <2>1. CASE u = t /\ j = i
    <3>1. lev[u] = 4 /\ n.entry[u][j] = f /\ n.free = m.free
      BY <1>2, <1>4, <2>1
    <3> QED
      BY <1>6, <3>1
  <2>2. CASE ~ (u = t /\ j = i)
    <3>1. n.entry[u][j] = m.entry[u][j] /\ n.free = m.free
      BY <1>4, <2>2
    <3> QED
      BY <1>1, <3>1 DEF Links
  <2> QED
    BY <2>1, <2>2
<1>9. OneName(n, lev)
  BY <1>1, <1>4, <1>6 DEF OneName
<1>10. Used(n, lev, Root)
  <2> SUFFICES ASSUME NEW u \in Ram, lev[u] > 1 PROVE Entries(n, u) # {}
    BY DEF Used
  <2>1. CASE u = t
    BY <1>4, <1>6, <2>1 DEF Entries
  <2>2. CASE u # t
    <3>1. \A j \in Index : n.entry[u][j] = m.entry[u][j]
      BY <1>4, <2>2
    <3> QED
      BY <1>1, <2>2, <3>1 DEF Used, Entries
  <2> QED
    BY <2>1, <2>2
<1>17. f \notin E /\ t # Root
  BY <1>1, <1>2, <1>6 DEF EarlyMade, Levels
<1>11. ASSUME NEW u \in Ram, lev[u] > 1
       PROVE  n.refcount[u] = Cardinality(Tally(n, u, E)) + (IF u = Root THEN 0 ELSE 0)
  <2>1. m.refcount[u] = Cardinality(Tally(m, u, E)) + (IF u = t THEN 0 ELSE 0)
    BY <1>1, <1>11 DEF Counted
  <2>2. Cardinality(Tally(n, u, E)) \in Nat /\ Cardinality(Tally(m, u, E)) \in Nat
    BY TallyCount
  <2>3. CASE u = t /\ f \in Uncounted
    <3>1. Tally(n, u, E) = Tally(m, u, E)
      BY <1>2, <1>4, <1>5, <2>3 DEF Tally
    <3>2. n.refcount[u] = m.refcount[u]
      BY <2>3
    <3> QED
      BY <2>1, <2>2, <3>1, <3>2
  <2>4. CASE u = t /\ f \notin Uncounted
    <3>1. \A j \in Index : j # i => n.entry[t][j] = m.entry[t][j]
      BY <1>2, <1>4
    <3>2. n.entry[t][i] \notin E \cup Uncounted \cup {Absent}
      BY <1>4, <1>6, <1>17, <2>4
    <3>3. Cardinality(Tally(n, t, E)) = Cardinality(Tally(m, t, E)) + 1
      BY <1>5, <3>1, <3>2, TallyGain
    <3>4. n.refcount[u] = m.refcount[u] + 1
      BY <2>4
    <3> QED
      BY <2>1, <2>2, <2>4, <3>3, <3>4
  <2>5. CASE u # t
    <3>1. \A j \in Index : n.entry[u][j] = m.entry[u][j]
      BY <1>4, <2>5
    <3>2. Tally(n, u, E) = Tally(m, u, E)
      BY <3>1 DEF Tally
    <3>3. u # f /\ u \in Frame
      BY <1>6, <1>11, Facts
    <3>4. n.refcount[u] = m.refcount[u]
      BY <2>5, <3>3
    <3> QED
      BY <2>1, <2>2, <3>2, <3>4
  <2> QED
    BY <2>3, <2>4, <2>5
<1>12. \A g \in n.free \cup Uncounted : n.refcount[g] = 0
  <2> SUFFICES ASSUME NEW g \in m.free \cup Uncounted PROVE n.refcount[g] = 0
    BY <1>4
  <2>1. g \in Frame /\ (g \in Uncounted => g \notin Ram) /\ (g \in m.free => g \in Ram)
    <3>1. m.free \subseteq BootFrames
      BY <1>1 DEF Memory
    <3> QED
      BY <3>1, Facts DEF Uncounted
  <2>2. g # t
    BY <1>1, <1>2, <2>1 DEF Levels
  <2>3. m.refcount[g] = 0
    BY <1>1 DEF Counted
  <2>4. CASE g = f
    <3>1. f \in Uncounted
      BY <1>6, <2>4
    <3> QED
      BY <1>6, <2>4, <3>1
  <2>5. CASE g # f
    BY <2>1, <2>2, <2>3, <2>5
  <2> QED
    BY <2>4, <2>5
<1>13. ASSUME NEW u \in Ram, NEW j \in Index, lev[u] = 4,
              n.entry[u][j] \notin Uncounted \cup {Absent}
       PROVE  n.refcount[n.entry[u][j]] = 1
  <2>1. CASE u = t /\ j = i
    <3>1. n.entry[u][j] = f
      BY <1>4, <2>1
    <3> QED
      BY <1>6, <1>13, <3>1
  <2>2. CASE ~ (u = t /\ j = i)
    <3>1. PICK g : g = m.entry[u][j]
      OBVIOUS
    <3>2. n.entry[u][j] = g
      BY <1>4, <2>2, <3>1
    <3>3. g \in Frame \cup {Absent} /\ g # Absent
      BY <1>1, <1>13, <3>1, <3>2 DEF Memory
    <3>4. g # f
      BY <1>6, <1>13, <3>1
    <3>5. g # t
      BY <1>1, <1>2, <1>13, <3>1, <3>3 DEF Links
    <3>6. m.refcount[g] = 1
      BY <1>1, <1>13, <3>1, <3>2 DEF Counted
    <3> QED
      BY <3>2, <3>3, <3>4, <3>5, <3>6
  <2> QED
    BY <2>1, <2>2
<1>14. Counted(n, lev, E, Root, 0)
  BY <1>11, <1>12, <1>13 DEF Counted
<1>15. EarlyMade(n, lev, E)
  <2>1. \A u \in Ram, j \in Index :
          \/ lev[u] \in 1 .. 3 /\ n.entry[u][j] \in E
          \/ lev[u] = 4 /\ n.entry[u][j] \in Uncounted
          => u \in E
    <3> SUFFICES ASSUME NEW u \in Ram, NEW j \in Index,
                        \/ lev[u] \in 1 .. 3 /\ n.entry[u][j] \in E
                        \/ lev[u] = 4 /\ n.entry[u][j] \in Uncounted
                 PROVE  u \in E
      OBVIOUS
    <3>1. CASE u = t /\ j = i
      BY <1>2, <1>4, <3>1
    <3>2. CASE ~ (u = t /\ j = i)
      <4>1. n.entry[u][j] = m.entry[u][j]
        BY <1>4, <3>2
      <4> QED
        BY <1>1, <4>1 DEF EarlyMade
    <3> QED
      BY <3>1, <3>2
  <2>2. \A u \in E : \/ u = Root \/ Entries(n, u) = {}
                      \/ \E j \in Index : n.entry[u][j] \in E \cup Uncounted
    <3> SUFFICES ASSUME NEW u \in E, u # Root
                 PROVE  \/ Entries(n, u) = {}
                        \/ \E j \in Index : n.entry[u][j] \in E \cup Uncounted
      OBVIOUS
    <3>1. u \in Ram /\ Absent \notin E \cup Uncounted
      <4>1. \A w \in E : w \in Ram
        BY <1>1 DEF EarlyMade
      <4>2. Absent \notin Ram /\ Absent \notin Uncounted
        BY Facts DEF Uncounted
      <4> QED
        BY <4>1, <4>2
    <3>2. CASE \E j \in Index : m.entry[u][j] \in E \cup Uncounted
      <4>1. PICK j \in Index : m.entry[u][j] \in E \cup Uncounted
        BY <3>2
      <4>2. n.entry[u][j] = m.entry[u][j]
        BY <1>4, <1>5, <3>1, <4>1
      <4> QED
        BY <4>1, <4>2
    <3>3. CASE Entries(m, u) = {} /\ u # t
      <4>1. \A j \in Index : n.entry[u][j] = m.entry[u][j]
        BY <1>4, <3>1, <3>3
      <4> QED
        BY <3>3, <4>1 DEF Entries
    <3>4. CASE Entries(m, u) = {} /\ u = t
      <4>1. ~ Filled(m, E)
        BY <3>4 DEF Filled
      <4> QED
        BY <1>4, <3>4, <4>1
    <3> QED
      BY <1>1, <3>2, <3>3, <3>4 DEF EarlyMade
  <2> QED
    BY <1>1, <2>1, <2>2 DEF EarlyMade
<1>16. Pages(n, lev)
  <2>1. ASSUME NEW u \in Device \cup Early
        PROVE  \/ Leaf(n, u) = FrameOf[u]
               \/ Leaf(n, u) = Absent /\ Idle(n, lev, FrameOf[u])
    <3>1. CASE u = v
      BY <1>2, <2>1, <3>1 DEF Fits
    <3>2. CASE u # v
      <4>1. Leaf(n, u) = Leaf(m, u)
        BY <1>2, <3>2 DEF Virtual
      <4>2. CASE Leaf(m, u) = FrameOf[u]
        BY <4>1, <4>2
      <4>3. CASE Leaf(m, u) = Absent /\ Idle(m, lev, FrameOf[u])
        <5>1. PICK g : g = FrameOf[u]
          OBVIOUS
        <5>2. g \in Frame /\ g \notin Ram
          BY <5>1, Facts
        <5>3. g # f
          <6>1. CASE v \in Device \cup Early
            BY <3>2, <5>1, <6>1, PagesAssumption DEF PagesAssumption, Fits
          <6>2. CASE v \in Anonymous
            BY <5>2, <6>2 DEF Fits
          <6> QED
            BY <6>1, <6>2 DEF Virtual
        <5>4. n.refcount[g] = m.refcount[g]
          BY <1>2, <5>2, <5>3
        <5>5. Idle(n, lev, g)
          BY <1>4, <4>3, <5>1, <5>3, <5>4 DEF Idle
        <5> QED
          BY <4>1, <4>3, <5>1, <5>5
      <4> QED
        BY <1>1, <4>2, <4>3 DEF Pages
    <3> QED
      BY <3>1, <3>2
  <2>2. ASSUME NEW u \in Anonymous PROVE Leaf(n, u) \in Ram \cup {Absent}
    <3>1. CASE u = v
      BY <1>2, <3>1 DEF Fits
    <3>2. CASE u # v
      BY <1>1, <1>2, <3>2 DEF Virtual, Pages
    <3> QED
      BY <3>1, <3>2
  <2> QED
    BY <2>1, <2>2 DEF Pages
<1> QED
  BY <1>2, <1>7, <1>8, <1>9, <1>10, <1>14, <1>15, <1>16 DEF Tree

\* m2 is m with v mapped to f.
NowMaps(m, m2, v, f) == /\ Leaf(m2, v) = f
                        /\ \A w \in Virtual : w # v => Leaf(m2, w) = Leaf(m, w)

\* What is there when the way to v is made.
LEMMA MadeEnd ==
  ASSUME NEW m, NEW lev, NEW n, NEW lev2, NEW E, NEW v \in Virtual,
         Made(m, lev, n, lev2, E, v, 4)
  PROVE  /\ n \in Memory /\ Levels(n, lev2) /\ Links(n, lev2) /\ OneName(n, lev2)
         /\ Table(n, v, 4) = Node(n, v, 4) /\ Node(n, v, 4) # Absent
         /\ Node(n, v, 4) \in Ram /\ lev2[Node(n, v, 4)] = 4 /\ v[4] \in Index
         /\ n.entry[Node(n, v, 4)][v[4]] = Leaf(m, v)
         /\ \A w \in Virtual : Leaf(n, w) = Leaf(m, w)
<1>1. /\ Tree(n, lev2, E, Node(n, v, 4), 0) /\ Node(n, v, 4) # Absent
      /\ \A w \in Virtual : Leaf(n, w) = Leaf(m, w)
  BY DEF Made
<1>2. n \in Memory /\ Levels(n, lev2) /\ Links(n, lev2) /\ OneName(n, lev2)
  BY <1>1 DEF Tree
<1>3. 4 \in 1 .. 4 /\ 4 + 1 = 5
  OBVIOUS
<1>4. /\ Node(n, v, 4) \in Ram /\ lev2[Node(n, v, 4)] = 4
      /\ Node(n, v, 4 + 1) = n.entry[Node(n, v, 4)][v[4]]
  BY <1>1, <1>2, <1>3, NodeLevels
<1>5. Table(n, v, 4) = Node(n, v, 4) /\ Leaf(n, v) = Node(n, v, 5) /\ v[4] \in Index
  BY <1>3, NodeSteps, Facts
<1>6. n.entry[Node(n, v, 4)][v[4]] = Leaf(m, v)
  BY <1>1, <1>3, <1>4, <1>5
<1> QED
  BY <1>1, <1>2, <1>4, <1>5, <1>6

\* map_page maps the page, or finds it mapped to that frame.
LEMMA MappedTree ==
  ASSUME NEW m, NEW lev, NEW E, Tree(m, lev, E, Root, 0), NEW v \in Virtual,
         Room(m, v, 1), NEW f \in Frame, Fits(v, f),
         Leaf(m, v) = f \/ (Leaf(m, v) = Absent /\ Idle(m, lev, f) /\ f \notin Uncounted)
  PROVE  /\ \E lev2 : Tree(Mapped(m, v, f), lev2, E, Root, 0)
         /\ NowMaps(m, Mapped(m, v, f), v, f)
<1> DEFINE n == WithTables(m, v)
<1>1. PICK lev2 : Made(m, lev, n, lev2, E, v, 4) /\ Filled(n, E)
  BY WithTablesMade
<1> DEFINE t == Node(n, v, 4)
           p == Mapped(m, v, f)
           set == [n EXCEPT !.entry[t][v[4]] = f]
<1>2. f # Absent
  BY Facts
<1>3. p = IF Leaf(m, v) = f THEN n
          ELSE IF Leaf(m, v) = Absent THEN inc_page(inc_page(set, f), t)
          ELSE inc_page(set, f)
  <2>1. Table(n, v, 4) = t /\ n.entry[t][v[4]] = Leaf(m, v)
    BY <1>1, MadeEnd
  <2> QED
    BY <2>1 DEF Mapped, AlreadyMapped
<1>4. /\ n \in Memory /\ t # Absent /\ t \in Ram /\ lev2[t] = 4 /\ v[4] \in Index
      /\ n.entry[t][v[4]] = Leaf(m, v)
      /\ \A w \in Virtual : Leaf(n, w) = Leaf(m, w)
  BY <1>1, MadeEnd
<1>5. Tree(n, lev2, E, t, 0) /\ (Idle(m, lev, f) => Idle(n, lev2, f))
  BY <1>1 DEF Made
<1>6. t = Node(n, v, 4)
  OBVIOUS
<1> HIDE DEF n, t, p
<1>7. CASE Leaf(m, v) = f
  <2>1. p = n
    BY <1>3, <1>7
  <2>2. Entries(n, t) # {}
    BY <1>2, <1>4, <1>7 DEF Entries
  <2>3. Tree(p, lev2, E, Root, 0)
    BY <1>5, <2>1, <2>2, TreeMove
  <2>4. NowMaps(m, p, v, f)
    BY <1>4, <1>7, <2>1 DEF NowMaps
  <2> QED
    BY <2>3, <2>4 DEF p
<1>8. CASE Leaf(m, v) = Absent /\ Idle(m, lev, f) /\ f \notin Uncounted
  <2>1. p = inc_page(inc_page(set, f), t)
    BY <1>2, <1>3, <1>8
  <2>2. set \in Memory /\ SetEntry(n, set, t, v[4], f) /\ set.refcount = n.refcount
    BY <1>4, SetEntryIs
  <2> HIDE DEF set
  <2>3. PICK q : q = inc_page(set, f)
    OBVIOUS
  <2>4. /\ q \in Memory /\ q.entry = set.entry /\ q.free = set.free
        /\ q.refcount[f] = n.refcount[f] + 1
        /\ \A g \in Frame : g # f => q.refcount[g] = n.refcount[g]
    BY <2>2, <2>3, IncPage
  <2>5. t \in Frame /\ p = inc_page(q, t) /\ t # f
    BY <1>4, <1>5, <1>8, <2>1, <2>3, Facts DEF Idle
  <2>6. /\ p \in Memory /\ p.entry = set.entry /\ p.free = set.free
        /\ p.refcount[t] = n.refcount[t] + 1
        /\ p.refcount[f] = n.refcount[f] + 1
        /\ \A g \in Frame : g # f /\ g # t => p.refcount[g] = n.refcount[g]
    BY <2>4, <2>5, IncPage
  <2>7. SetEntry(n, p, t, v[4], f)
    BY <2>2, <2>6 DEF SetEntry
  <2>8. Leaf(n, v) = Absent /\ Idle(n, lev2, f)
    BY <1>4, <1>5, <1>8
  <2>9. /\ Tree(p, lev2, E, Root, 0) /\ Leaf(p, v) = f
        /\ \A w \in Virtual : w # v => Leaf(p, w) = Leaf(n, w)
    BY <1>1, <1>4, <1>5, <1>6, <1>8, <2>6, <2>7, <2>8, LeafSet
  <2>10. NowMaps(m, p, v, f)
    BY <1>4, <2>9 DEF NowMaps
  <2> QED
    BY <2>9, <2>10 DEF p
<1> QED
  BY <1>7, <1>8

LEMMA EarlyMappedTree ==
  ASSUME NEW m, NEW lev, NEW E, Tree(m, lev, E, Root, 0), AllEarly(lev, E),
         NEW v \in Early, Room(m, v, 1), Leaf(m, v) = Absent
  PROVE  /\ \E lev2, E2 : /\ Tree(EarlyMapped(m, v, FrameOf[v]), lev2, E2, Root, 0)
                          /\ AllEarly(lev2, E2)
         /\ NowMaps(m, EarlyMapped(m, v, FrameOf[v]), v, FrameOf[v])
<1> DEFINE n == EarlyTable(EarlyTable(EarlyTable(m, v, 1), v, 2), v, 3)
           f == FrameOf[v]
<1>1. v \in Virtual /\ f \in Frame /\ f \in Uncounted /\ f # Absent
  BY Facts DEF Virtual, Uncounted
<1>2. PICK lev2, E2 : Made(m, lev, n, lev2, E2, v, 4) /\ AllEarly(lev2, E2)
  BY <1>1, EarlyTablesMade
<1> DEFINE t == Node(n, v, 4)
           p == EarlyMapped(m, v, f)
           set == [n EXCEPT !.entry[t][v[4]] = f]
<1>3. p = set
  <2>1. Table(n, v, 4) = t
    BY <1>1, <1>2, MadeEnd
  <2> QED
    BY <2>1 DEF EarlyMapped
<1>4. /\ n \in Memory /\ t # Absent /\ t \in Ram /\ lev2[t] = 4 /\ v[4] \in Index
      /\ n.entry[t][v[4]] = Leaf(m, v)
      /\ \A w \in Virtual : Leaf(n, w) = Leaf(m, w)
  BY <1>1, <1>2, MadeEnd
<1>5. Tree(n, lev2, E2, t, 0) /\ (Idle(m, lev, f) => Idle(n, lev2, f))
  BY <1>1, <1>2 DEF Made
<1>6. t = Node(n, v, 4) /\ t \in E2
  BY <1>2, <1>4 DEF AllEarly
<1>7. Idle(m, lev, f) /\ Fits(v, f)
  <2>1. Idle(m, lev, f)
    BY <1>1 DEF Tree, Pages
  <2>2. Fits(v, f)
    BY PagesAssumption DEF Fits, PagesAssumption
  <2> QED
    BY <2>1, <2>2
<1> HIDE DEF n, t, p
<1>8. set \in Memory /\ SetEntry(n, set, t, v[4], f) /\ set.refcount = n.refcount
  BY <1>1, <1>4, SetEntryIs
<1> HIDE DEF set, f
<1>9. /\ p \in Memory /\ SetEntry(n, p, t, v[4], f)
      /\ p.refcount = n.refcount
  BY <1>3, <1>8
<1>10. Leaf(n, v) = Absent /\ Idle(n, lev2, f)
  BY <1>1, <1>4, <1>5, <1>7
<1>11. /\ Tree(p, lev2, E2, Root, 0) /\ Leaf(p, v) = f
       /\ \A w \in Virtual : w # v => Leaf(p, w) = Leaf(n, w)
  BY <1>1, <1>4, <1>5, <1>6, <1>7, <1>9, <1>10, LeafSet
<1>12. NowMaps(m, p, v, f)
  BY <1>4, <1>11 DEF NowMaps
<1> QED
  BY <1>2, <1>11, <1>12 DEF p, f

\* alloc_page has a frame for every table that is missing.
LEMMA RoomFor ==
  ASSUME NEW m, NEW v,
         Cardinality(m.free) >= Cardinality({l \in 2 .. 4 : Table(m, v, l) = Absent}),
         Cardinality(m.free) \in Nat
  PROVE  Room(m, v, 1)
<1> DEFINE S == {l \in 2 .. 4 : Table(m, v, l) = Absent}
<1> SUFFICES ASSUME NEW k \in 1 .. 3, Node(m, v, k + 1) = Absent
             PROVE  Cardinality(m.free) >= 4 - k
  BY DEF Room
<1> DEFINE A(l) == Node(m, v, l) = Absent
<1>1. \A l \in 1 .. 4 : A(l) => A(l + 1)
  BY NodeSteps DEF Entry
<1>2. A(k + 1) /\ \A l \in 1 .. 4 : A(l) => Table(m, v, l) = Absent
  BY NodeSteps
<1> HIDE DEF A
<1>3. (A(2) => A(3)) /\ (A(3) => A(4))
  BY <1>1, 2 \in 1 .. 4, 3 \in 1 .. 4, 2 + 1 = 3, 3 + 1 = 4
<1>4. \A l \in k + 1 .. 4 : A(l)
  <2>1. k = 1 \/ k = 2 \/ k = 3
    OBVIOUS
  <2>2. \A l \in k + 1 .. 4 : l = 2 \/ l = 3 \/ l = 4
    OBVIOUS
  <2>3. CASE k = 1
    <3>1. A(2)
      BY <1>2, <2>3, 1 + 1 = 2
    <3> QED
      BY <1>3, <2>2, <3>1
  <2>4. CASE k = 2
    <3>1. A(3) /\ \A l \in k + 1 .. 4 : l = 3 \/ l = 4
      BY <1>2, <2>4, 2 + 1 = 3
    <3> QED
      BY <1>3, <3>1
  <2>5. CASE k = 3
    <3>1. A(4) /\ \A l \in k + 1 .. 4 : l = 4
      BY <1>2, <2>5, 3 + 1 = 4
    <3> QED
      BY <3>1
  <2> QED
    BY <2>1, <2>3, <2>4, <2>5
<1>5. k + 1 .. 4 \subseteq S
  BY <1>2, <1>4
<1>6. IsFiniteSet(S) /\ IsFiniteSet(k + 1 .. 4) /\ Cardinality(k + 1 .. 4) = 4 - k
  <2>1. IsFiniteSet(2 .. 4)
    <3>1. \A a, b \in Int : IsFiniteSet(a .. b)
      BY FS_Interval
    <3> QED
      BY <3>1, 2 \in Int, 4 \in Int, Zenon
  <2>2. IsFiniteSet(S)
    BY <2>1, FS_Subset
  <2> HIDE DEF S
  <2>3. IsFiniteSet(k + 1 .. 4) /\ Cardinality(k + 1 .. 4) = 4 - (k + 1) + 1
    BY FS_Interval
  <2> QED
    BY <2>2, <2>3
<1>7. Cardinality(m.free) >= Cardinality(S)
  OBVIOUS
<1> HIDE DEF S
<1>8. Cardinality(k + 1 .. 4) <= Cardinality(S) /\ Cardinality(S) \in Nat
  BY <1>5, <1>6, FS_Subset, FS_CardinalityType
<1> QED
  BY <1>6, <1>7, <1>8

----------------------------------------------------------------------------
(* unmap_page *)

\* The counter of a mapped page's frame is 1.
LEMMA LeafCount ==
  ASSUME NEW m, NEW lev, NEW E, NEW x, NEW d, Tree(m, lev, E, x, d),
         NEW v \in Anonymous \cup Device, Leaf(m, v) # Absent
  PROVE  /\ Leaf(m, v) \in Frame /\ Leaf(m, v) \notin Uncounted
         /\ m.refcount[Leaf(m, v)] = 1
         /\ v \in Device => Leaf(m, v) = FrameOf[v]
         /\ v \in Anonymous => Leaf(m, v) \in Ram
<1>1. /\ m \in Memory /\ Levels(m, lev) /\ Links(m, lev) /\ Pages(m, lev)
      /\ Counted(m, lev, E, x, d) /\ v \in Virtual
  BY DEF Tree, Virtual
<1>2. /\ v \in Device => Leaf(m, v) = FrameOf[v]
      /\ v \in Anonymous => Leaf(m, v) \in Ram
  BY <1>1 DEF Pages
<1>3. Leaf(m, v) \notin Uncounted
  <2>1. CASE v \in Device
    BY <1>2, <2>1, PagesAssumption DEF Uncounted, PagesAssumption
  <2>2. CASE v \in Anonymous
    <3>1. \A e \in Early : FrameOf[e] \notin Ram
      BY Facts
    <3> QED
      BY <1>2, <2>2, <3>1 DEF Uncounted
  <2> QED
    BY <2>1, <2>2
<1>4. PICK t : t = Node(m, v, 4)
  OBVIOUS
<1>5. t # Absent
  BY <1>1, <1>4, NodeLevels, NodeSteps, 4 \in 1 .. 4, 4 + 1 = 5
<1>6. t \in Ram /\ lev[t] = 4 /\ v[4] \in Index /\ Leaf(m, v) = m.entry[t][v[4]]
  <2>1. Node(m, v, 4 + 1) = m.entry[t][v[4]] /\ t \in Ram /\ lev[t] = 4
    BY <1>1, <1>4, <1>5, NodeLevels, 4 \in 1 .. 4
  <2> QED
    BY <1>1, <2>1, Facts, NodeSteps, 4 \in 1 .. 4, 4 + 1 = 5
<1>7. m.refcount[Leaf(m, v)] = 1 /\ Leaf(m, v) \in Frame
  <2>1. m.entry[t][v[4]] \in Frame \cup {Absent}
    BY <1>1, <1>6 DEF Memory
  <2> QED
    BY <1>1, <1>3, <1>6, <2>1 DEF Counted
<1> QED
  BY <1>2, <1>3, <1>7

\* Absent is no table and no frame.
LEMMA AbsentNot ==
  ASSUME NEW m, NEW lev, NEW E, EarlyMade(m, lev, E)
  PROVE  Absent \notin E \cup Uncounted
<1>1. \A u \in E : u \in Ram
  BY DEF EarlyMade
<1>2. Absent \notin Ram /\ Absent \notin Uncounted
  BY Facts DEF Uncounted
<1> QED
  BY <1>1, <1>2

\* The tables of early_map keep the entries that make them so.
LEMMA EarlyKept ==
  ASSUME NEW m, NEW lev, NEW E, EarlyMade(m, lev, E), Filled(m, E), NEW n, NEW lev2,
         \A u \in Ram, j \in Index : n.entry[u][j] # Absent
            => n.entry[u][j] = m.entry[u][j] /\ lev2[u] = lev[u],
         \A u \in E, j \in Index : m.entry[u][j] \in E \cup Uncounted
            => n.entry[u][j] = m.entry[u][j],
         \A u \in E : lev2[u] = lev[u]
  PROVE  EarlyMade(n, lev2, E) /\ Filled(n, E)
<1>1. Absent \notin E \cup Uncounted
  BY AbsentNot
<1>2. Root \in E /\ \A u \in E : u \in Ram /\ lev2[u] > 0
  BY DEF EarlyMade
<1>3. \A u \in Ram, j \in Index :
        \/ lev2[u] \in 1 .. 3 /\ n.entry[u][j] \in E
        \/ lev2[u] = 4 /\ n.entry[u][j] \in Uncounted
        => u \in E
  <2> SUFFICES ASSUME NEW u \in Ram, NEW j \in Index,
                      \/ lev2[u] \in 1 .. 3 /\ n.entry[u][j] \in E
                      \/ lev2[u] = 4 /\ n.entry[u][j] \in Uncounted
               PROVE  u \in E
    OBVIOUS
  <2>1. n.entry[u][j] = m.entry[u][j] /\ lev2[u] = lev[u]
    BY <1>1
  <2> QED
    BY <2>1 DEF EarlyMade
<1>4. \A u \in E : u = Root \/ \E j \in Index : n.entry[u][j] \in E \cup Uncounted
  BY DEF EarlyMade, Filled
<1>5. Filled(n, E)
  BY <1>1, <1>4 DEF Filled, Entries
<1> QED
  BY <1>2, <1>3, <1>4, <1>5 DEF EarlyMade

\* A table of map_page has no entries but its own.
LEMMA TallyAll ==
  ASSUME NEW m, NEW lev, Levels(m, lev), Links(m, lev), NEW E, EarlyMade(m, lev, E),
         NEW t \in Ram, t \notin E, lev[t] > 0
  PROVE  Tally(m, t, E) = Entries(m, t)
<1>1. lev[t] \in 1 .. 3 \/ lev[t] = 4
  BY DEF Levels
<1>2. ASSUME NEW i \in Index, m.entry[t][i] # Absent, m.entry[t][i] \in E \cup Uncounted
      PROVE  FALSE
  <2>1. \A g \in E : g \in Ram /\ lev[g] > 0
    BY DEF EarlyMade
  <2>2. \A g \in Uncounted : g \notin Ram
    BY Facts DEF Uncounted
  <2>3. CASE lev[t] \in 1 .. 3
    <3>1. m.entry[t][i] \in Ram
      BY <1>2, <2>3 DEF Links
    <3>2. m.entry[t][i] \in E
      BY <1>2, <2>2, <3>1
    <3> QED
      BY <2>3, <3>2 DEF EarlyMade
  <2>4. CASE lev[t] = 4
    <3>1. m.entry[t][i] \in Ram => lev[m.entry[t][i]] = 0
      BY <1>2, <2>4 DEF Links
    <3>2. m.entry[t][i] \in Uncounted
      BY <1>2, <2>1, <3>1
    <3> QED
      BY <2>4, <3>2 DEF EarlyMade
  <2> QED
    BY <1>1, <2>3, <2>4
<1>3. Absent \notin E \cup Uncounted
  BY AbsentNot
<1> QED
  BY <1>2 DEF Tally, Entries

\* Each table of early_map is on the way to one of its pages.
LEMMA EarlyWay ==
  ASSUME NEW m, NEW lev, NEW E, NEW x, NEW d, Tree(m, lev, E, x, d), Filled(m, E)
  PROVE  \A l \in 2 .. 4 : \A t \in E :
           lev[t] = l => \E u \in Early : Node(m, u, l) = t
<1>1. /\ m \in Memory /\ Levels(m, lev) /\ Links(m, lev) /\ OneName(m, lev)
      /\ EarlyMade(m, lev, E) /\ Pages(m, lev)
  BY DEF Tree
<1>2. \A u \in E : u \in Ram /\ lev[u] > 0
  BY <1>1 DEF EarlyMade
<1>3. \A g \in Uncounted : g \notin Ram /\ g # Absent
  BY Facts DEF Uncounted
<1>4. ASSUME NEW t \in E, lev[t] \in 2 .. 4
      PROVE  \E i \in Index : m.entry[t][i] \in E \cup Uncounted
  <2>1. t # Root
    BY <1>1, <1>2, <1>4 DEF Levels
  <2> QED
    BY <1>1, <2>1 DEF EarlyMade, Filled
<1>5. ASSUME NEW u \in Virtual, NEW l \in 2 .. 4, NEW t \in E, lev[t] = l, NEW i \in Index,
             Node(m, u, l + 1) = m.entry[t][i], m.entry[t][i] # Absent
      PROVE  Node(m, u, l) = t
  <2>1. PICK r : r = Node(m, u, l)
    OBVIOUS
  <2>2. l \in 1 .. 4 /\ u[l] \in Index
    BY Facts
  <2>3. r # Absent
    BY <1>1, <1>5, <2>1, <2>2, NodeLevels
  <2>4. r \in Ram /\ lev[r] = l /\ Node(m, u, l + 1) = m.entry[r][u[l]]
    BY <1>1, <2>1, <2>2, <2>3, NodeLevels
  <2>5. t \in Ram
    BY <1>2
  <2> QED
    BY <1>1, <1>5, <2>1, <2>2, <2>4, <2>5 DEF OneName
<1> DEFINE Q(l) == \A t \in E : lev[t] = l => \E u \in Early : Node(m, u, l) = t
<1>6. Q(4)
  <2> SUFFICES ASSUME NEW t \in E, lev[t] = 4 PROVE \E u \in Early : Node(m, u, 4) = t
    OBVIOUS
  <2>1. PICK i \in Index : m.entry[t][i] \in E \cup Uncounted
    BY <1>4
  <2>2. t \in Ram
    BY <1>2
  <2>3. m.entry[t][i] \in Uncounted
    <3>1. Absent \notin E \cup Uncounted
      BY <1>1, AbsentNot
    <3>2. m.entry[t][i] \in Ram => lev[m.entry[t][i]] = 0
      BY <1>1, <2>1, <2>2, <3>1 DEF Links
    <3> QED
      BY <1>2, <2>1, <3>2
  <2>4. PICK u \in Early : m.entry[t][i] = FrameOf[u]
    BY <2>3 DEF Uncounted
  <2>5. Leaf(m, u) = FrameOf[u]
    BY <1>1, <2>2, <2>4 DEF Pages, Idle
  <2>6. u \in Virtual /\ Node(m, u, 4 + 1) = m.entry[t][i] /\ m.entry[t][i] # Absent
    BY <1>3, <2>3, <2>4, <2>5, NodeSteps, 4 + 1 = 5 DEF Virtual
  <2> QED
    BY <1>5, <2>6
<1>7. ASSUME NEW l \in 2 .. 3, Q(l + 1) PROVE Q(l)
  <2> SUFFICES ASSUME NEW t \in E, lev[t] = l PROVE \E u \in Early : Node(m, u, l) = t
    OBVIOUS
  <2>1. PICK i \in Index : m.entry[t][i] \in E \cup Uncounted
    BY <1>4
  <2>2. t \in Ram /\ m.entry[t][i] # Absent
    BY <1>1, <1>2, <2>1, AbsentNot
  <2>3. m.entry[t][i] \in E /\ lev[m.entry[t][i]] = l + 1
    BY <1>1, <1>3, <2>1, <2>2 DEF Links
  <2>4. PICK u \in Early : Node(m, u, l + 1) = m.entry[t][i]
    BY <1>7, <2>3
  <2> QED
    BY <1>5, <2>2, <2>4 DEF Virtual
<1> HIDE DEF Q
<1>8. Q(3)
  BY <1>6, <1>7, 3 \in 2 .. 3, 3 + 1 = 4
<1>9. Q(2)
  BY <1>7, <1>8, 2 \in 2 .. 3, 2 + 1 = 3
<1>10. \A l \in 2 .. 4 : l = 2 \/ l = 3 \/ l = 4
  OBVIOUS
<1>11. \A l \in 2 .. 4 : Q(l)
  BY <1>6, <1>8, <1>9, <1>10
<1> QED
  BY <1>11 DEF Q

\* unmap_page clears the entry of v and counts its frame down to 0; the count of
\* the table comes next.
LEMMA LeafClear ==
  ASSUME NEW m, NEW lev, NEW E, Tree(m, lev, E, Root, 0),
         NEW v \in Anonymous \cup Device, NEW f, f = Leaf(m, v), f # Absent,
         NEW n \in Memory, SetEntry(m, n, Node(m, v, 4), v[4], Absent),
         n.refcount[f] = 0, \A g \in Frame : g # f => n.refcount[g] = m.refcount[g]
  PROVE  /\ Tree(n, lev, E, Node(n, v, 4), 1) /\ Filled(n, E)
         /\ Node(n, v, 4) # Absent /\ Leaf(n, v) = Absent
         /\ \A w \in Virtual : w # v => Leaf(n, w) = Leaf(m, w)
         /\ \A w \in Virtual, k \in 1 .. 4 : Node(n, w, k) = Node(m, w, k)
<1>1. /\ m \in Memory /\ Levels(m, lev) /\ Links(m, lev) /\ OneName(m, lev)
      /\ Used(m, lev, Root) /\ Counted(m, lev, E, Root, 0) /\ EarlyMade(m, lev, E)
      /\ Pages(m, lev) /\ v \in Virtual
  BY DEF Tree, Virtual
<1>2. /\ f \in Frame /\ f \notin Uncounted /\ m.refcount[f] = 1
      /\ v \in Device => f = FrameOf[v]
      /\ v \in Anonymous => f \in Ram
  BY LeafCount
<1>3. PICK t : t = Node(m, v, 4)
  OBVIOUS
<1>4. t # Absent
  BY <1>1, <1>3, NodeLevels, NodeSteps, 4 \in 1 .. 4, 4 + 1 = 5
<1>5. /\ t \in Ram /\ lev[t] = 4 /\ v[4] \in Index /\ f = m.entry[t][v[4]]
  <2>1. Node(m, v, 4 + 1) = m.entry[t][v[4]] /\ t \in Ram /\ lev[t] = 4
    BY <1>1, <1>3, <1>4, NodeLevels, 4 \in 1 .. 4
  <2> QED
    BY <1>1, <2>1, Facts, NodeSteps, 4 \in 1 .. 4, 4 + 1 = 5
<1>6. /\ Leaf(n, v) = Absent /\ Node(n, v, 4) = t
      /\ \A w \in Virtual : w # v => Leaf(n, w) = Leaf(m, w)
  <2>1. Node(m, v, 4) # Absent
    BY <1>3, <1>4
  <2>2. /\ \A k \in 1 .. 4 : Node(n, v, k) = Node(m, v, k)
        /\ \A w \in Virtual : w # v => Leaf(n, w) = Leaf(m, w)
    BY ONLY <1>1, <2>1, LeafWays, v \in Virtual, n \in Memory,
            SetEntry(m, n, Node(m, v, 4), v[4], Absent)
  <2>3. Node(n, v, 4) = t
    BY <1>3, <2>2, 4 \in 1 .. 4
  <2>4. Leaf(n, v) = Entry(n, t, v[4])
    BY <2>3, NodeSteps, 4 \in 1 .. 4, 4 + 1 = 5
  <2>5. Entry(n, t, v[4]) = Absent
    BY <1>3, <1>4 DEF Entry, SetEntry
  <2> QED
    BY <2>2, <2>3, <2>4, <2>5
<1>7. PICK i \in Index : i = v[4]
  BY <1>5
<1>8. /\ n.free = m.free /\ n.entry[t][i] = Absent
      /\ \A u \in Ram, j \in Index : ~ (u = t /\ j = i) => n.entry[u][j] = m.entry[u][j]
  BY <1>3, <1>7 DEF SetEntry
<1>9. \A w \in Virtual, k \in 1 .. 4 : Node(n, w, k) = Node(m, w, k)
  <2>1. SetEntry(m, n, t, i, Absent)
    BY <1>3, <1>7
  <2> QED
    BY <1>1, <1>5, <2>1, LeafAbove
<1>10. f \in Ram => lev[f] = 0 /\ f \notin m.free
  BY <1>1, <1>5 DEF Links
<1>11. f # t /\ f \notin m.free
  <2>1. m.free \subseteq Ram
    BY <1>1, Facts DEF Memory
  <2> QED
    BY <1>5, <1>10, <2>1
<1>12. Levels(n, lev)
  BY <1>1, <1>8 DEF Levels
<1>13. \A u \in Ram, j \in Index : n.entry[u][j] # Absent =>
          ~ (u = t /\ j = i) /\ n.entry[u][j] = m.entry[u][j]
  BY <1>8
<1>14. Links(n, lev)
  BY <1>1, <1>8, <1>13 DEF Links
<1>15. OneName(n, lev)
  BY <1>1, <1>13 DEF OneName
<1>16. Used(n, lev, t)
  <2> SUFFICES ASSUME NEW u \in Ram, lev[u] > 1, u # t PROVE Entries(n, u) # {}
    BY DEF Used
  <2>1. u # Root
    BY <1>1 DEF Levels
  <2>2. \A j \in Index : n.entry[u][j] = m.entry[u][j]
    BY <1>8
  <2> QED
    BY <1>1, <2>1, <2>2 DEF Used, Entries
<1>24. f \notin E \cup Uncounted \cup {Absent}
  BY <1>1, <1>2, <1>10 DEF EarlyMade
<1>17. ASSUME NEW u \in Ram, lev[u] > 1
       PROVE  n.refcount[u] = Cardinality(Tally(n, u, E)) + (IF u = t THEN 1 ELSE 0)
  <2>1. m.refcount[u] = Cardinality(Tally(m, u, E)) + (IF u = Root THEN 0 ELSE 0)
    BY <1>1, <1>17 DEF Counted
  <2>2. Cardinality(Tally(n, u, E)) \in Nat /\ Cardinality(Tally(m, u, E)) \in Nat
    BY TallyCount
  <2>3. n.refcount[u] = m.refcount[u]
    BY <1>10, <1>17, Facts
  <2>4. CASE u = t
    <3>1. \A j \in Index : j # i => m.entry[t][j] = n.entry[t][j]
      BY <1>5, <1>8
    <3>2. m.entry[t][i] \notin E \cup Uncounted \cup {Absent} /\ n.entry[t][i] = Absent
      BY <1>5, <1>7, <1>8, <1>24
    <3>3. Cardinality(Tally(m, t, E)) = Cardinality(Tally(n, t, E)) + 1
      BY ONLY <3>1, <3>2, i \in Index, TallyGain
    <3> QED
      BY <2>1, <2>2, <2>3, <2>4, <3>3
  <2>5. CASE u # t
    <3>1. \A j \in Index : n.entry[u][j] = m.entry[u][j]
      BY <1>8, <2>5
    <3>2. Tally(n, u, E) = Tally(m, u, E)
      BY <3>1 DEF Tally
    <3> QED
      BY <2>1, <2>2, <2>3, <2>5, <3>2
  <2> QED
    BY <2>4, <2>5
<1>18. \A g \in n.free \cup Uncounted : n.refcount[g] = 0
  <2> SUFFICES ASSUME NEW g \in m.free \cup Uncounted PROVE n.refcount[g] = 0
    BY <1>8
  <2>1. g \in Frame
    <3>1. m.free \subseteq BootFrames
      BY <1>1 DEF Memory
    <3> QED
      BY <3>1, Facts DEF Uncounted
  <2>2. g # f
    BY <1>2, <1>11
  <2> QED
    BY <1>1, <2>1, <2>2 DEF Counted
<1>19. ASSUME NEW u \in Ram, NEW j \in Index, lev[u] = 4,
              n.entry[u][j] \notin Uncounted \cup {Absent}
       PROVE  n.refcount[n.entry[u][j]] = 1
  <2>1. PICK g : g = m.entry[u][j]
    OBVIOUS
  <2>2. n.entry[u][j] = g /\ ~ (u = t /\ j = i) /\ g # Absent
    BY <1>13, <1>19, <2>1
  <2>3. g \in Frame
    BY <1>1, <2>1, <2>2 DEF Memory
  <2>4. g # f
    BY <1>1, <1>5, <1>7, <1>19, <2>1, <2>2 DEF OneName
  <2>5. m.refcount[g] = 1
    BY <1>1, <1>19, <2>1, <2>2 DEF Counted
  <2> QED
    BY <2>2, <2>3, <2>4, <2>5
<1>20. Counted(n, lev, E, t, 1)
  BY <1>17, <1>18, <1>19 DEF Counted
<1>21. EarlyMade(n, lev, E) /\ Filled(n, E)
  <2>1. Filled(m, E)
    BY TreeFilled
  <2>2. \A u \in E, j \in Index : m.entry[u][j] \in E \cup Uncounted
          => n.entry[u][j] = m.entry[u][j]
    <3>1. \A u \in E : u \in Ram
      BY <1>1 DEF EarlyMade
    <3>2. m.entry[t][i] \notin E \cup Uncounted
      BY <1>5, <1>7, <1>24
    <3> QED
      BY <1>8, <3>1, <3>2
  <2> QED
    BY <1>1, <1>13, <2>1, <2>2, EarlyKept
<1>22. Pages(n, lev)
  <2>1. ASSUME NEW u \in Device \cup Early
        PROVE  \/ Leaf(n, u) = FrameOf[u]
               \/ Leaf(n, u) = Absent /\ Idle(n, lev, FrameOf[u])
    <3>1. PICK g : g = FrameOf[u]
      OBVIOUS
    <3>2. g \in Frame /\ g \notin Ram /\ g # Absent
      BY <3>1, Facts
    <3>3. g \notin n.free
      <4>1. n.free \subseteq BootFrames
        BY DEF Memory
      <4> QED
        BY <3>2, <4>1, Facts
    <3>4. CASE u = v
      <4>1. g = f
        <5>1. v \in Device
          BY <2>1, <3>4, PagesAssumption DEF PagesAssumption
        <5> QED
          BY <1>2, <3>1, <3>4, <5>1
      <4>2. \A r \in Ram, j \in Index : lev[r] > 0 => n.entry[r][j] # f
        BY <1>1, <1>5, <1>7, <1>13, <3>2, <4>1 DEF OneName
      <4>3. Idle(n, lev, g)
        BY <3>2, <3>3, <4>1, <4>2 DEF Idle
      <4> QED
        BY <1>6, <3>1, <3>4, <4>3
    <3>5. CASE u # v
      <4>1. Leaf(n, u) = Leaf(m, u)
        BY <1>6, <3>5 DEF Virtual
      <4>2. CASE Leaf(m, u) = FrameOf[u]
        BY <4>1, <4>2
      <4>3. CASE Leaf(m, u) = Absent /\ Idle(m, lev, FrameOf[u])
        <5>1. g # f
          <6>1. CASE v \in Device
            BY <1>2, <3>1, <3>5, <6>1, PagesAssumption DEF PagesAssumption
          <6>2. CASE v \in Anonymous
            BY <1>2, <3>2, <6>2
          <6> QED
            BY <6>1, <6>2
        <5>2. n.refcount[g] = 0
          BY <3>1, <3>2, <4>3, <5>1 DEF Idle
        <5>3. \A r \in Ram, j \in Index : lev[r] > 0 => n.entry[r][j] # g
          BY <1>13, <3>1, <3>2, <4>3 DEF Idle
        <5>4. Idle(n, lev, g)
          BY <3>2, <3>3, <5>2, <5>3 DEF Idle
        <5> QED
          BY <3>1, <4>1, <4>3, <5>4
      <4> QED
        BY <1>1, <4>2, <4>3 DEF Pages
    <3> QED
      BY <3>4, <3>5
  <2>2. ASSUME NEW u \in Anonymous PROVE Leaf(n, u) \in Ram \cup {Absent}
    <3>1. CASE u = v
      BY <1>6, <3>1
    <3>2. CASE u # v
      BY <1>1, <1>6, <3>2 DEF Virtual, Pages
    <3> QED
      BY <3>1, <3>2
  <2> QED
    BY <2>1, <2>2 DEF Pages
<1>23. Tree(n, lev, E, t, 1)
  BY <1>12, <1>14, <1>15, <1>16, <1>20, <1>21, <1>22 DEF Tree
<1> QED
  BY <1>4, <1>6, <1>9, <1>21, <1>23

\* n is m without table t, which entry i of table up named.
Unlink(m, n, up, i, t) ==
  /\ n.free = m.free \cup {t} /\ n.entry[up][i] = Absent
  /\ \A j \in Index : n.entry[t][j] = Absent
  /\ \A u \in Ram, j \in Index :
        u # t /\ ~ (u = up /\ j = i) => n.entry[u][j] = m.entry[u][j]

\* The table on the way to v below level k has lost its last entry: it is freed,
\* and the table above has lost one.
LEMMA TableFreed ==
  ASSUME NEW m, NEW lev, NEW E, NEW v \in Virtual, NEW k \in 1 .. 3,
         NEW t, t = Node(m, v, k + 1), t # Absent, t \notin E,
         NEW up, up = Node(m, v, k), Filled(m, E),
         Tree(m, lev, E, t, 1), m.refcount[t] = 1,
         NEW n \in Memory, NEW i \in Index, i = v[k], Unlink(m, n, up, i, t),
         n.refcount[t] = 0, \A g \in Frame : g # t => n.refcount[g] = m.refcount[g]
  PROVE  /\ (\E lev2 : Tree(n, lev2, E, up, 1)) /\ Filled(n, E) /\ up # Absent
         /\ \A w \in Virtual, p \in 1 .. k : Node(n, w, p) = Node(m, w, p)
         /\ \A w \in Virtual : Leaf(n, w) = Leaf(m, w)
<1>1. /\ m \in Memory /\ Levels(m, lev) /\ Links(m, lev) /\ OneName(m, lev)
      /\ Used(m, lev, t) /\ Counted(m, lev, E, t, 1) /\ EarlyMade(m, lev, E)
      /\ Pages(m, lev)
  BY DEF Tree
<1>2. k \in 1 .. 4 /\ k + 1 \in 1 .. 4 /\ k + 1 + 1 \in 1 .. 5
  OBVIOUS
<1>3. up # Absent
  BY <1>1, <1>2, NodeLevels
<1>4. /\ up \in Ram /\ lev[up] = k /\ t \in Ram /\ lev[t] = k + 1
      /\ m.entry[up][i] = t
  <2>1. up \in Ram /\ lev[up] = k
    BY <1>1, <1>2, <1>3, NodeLevels
  <2>2. t \in Ram /\ lev[t] = k + 1
    BY <1>1, <1>2, NodeLevels
  <2>3. Node(m, v, k + 1) = m.entry[up][v[k]]
    BY <1>1, <1>2, <1>3, NodeLevels
  <2> QED
    BY <2>1, <2>2, <2>3
<1>5. t # up /\ t # Root /\ lev[t] > 1
  BY <1>1, <1>4 DEF Levels
<1>6. \A j \in Index : m.entry[t][j] = Absent
  <2>1. m.refcount[t] = Cardinality(Tally(m, t, E)) + 1
    BY <1>1, <1>4, <1>5 DEF Counted
  <2>2. Tally(m, t, E) = {}
    BY <2>1, TallyCount
  <2>3. Tally(m, t, E) = Entries(m, t)
    BY <1>1, <1>4, TallyAll
  <2> QED
    BY <2>2, <2>3 DEF Entries
<1>7. /\ n.free = m.free \cup {t} /\ n.entry[up][i] = Absent
      /\ \A j \in Index : n.entry[t][j] = Absent
      /\ \A u \in Ram, j \in Index :
            u # t /\ ~ (u = up /\ j = i) => n.entry[u][j] = m.entry[u][j]
  BY DEF Unlink
<1>8. \A u \in Ram, j \in Index : n.entry[u][j] # Absent =>
         ~ (u = up /\ j = i) /\ u # t /\ n.entry[u][j] = m.entry[u][j]
  BY <1>7
<1>9. PICK lev2 : /\ lev2 \in [Ram -> 0 .. 4] /\ lev2[t] = 0
                  /\ \A u \in Ram : u # t => lev2[u] = lev[u]
  <2> DEFINE lv == [lev EXCEPT ![t] = 0]
  <2>1. /\ lv \in [Ram -> 0 .. 4] /\ lv[t] = 0
        /\ \A u \in Ram : u # t => lv[u] = lev[u]
    BY <1>1, <1>4 DEF Levels
  <2> QED
    BY <2>1
<1>10. \A u \in Ram, j \in Index : lev[u] > 0 /\ n.entry[u][j] # Absent
          => n.entry[u][j] # t
  <2>1. lev[up] > 0
    BY <1>4
  <2> QED
    BY <1>1, <1>4, <1>8, <2>1 DEF OneName
<1>11. Levels(n, lev2)
  <2>1. \A u \in Ram : lev[u] = 1 <=> u = Root
    BY <1>1 DEF Levels
  <2>2. \A u \in Ram : lev2[u] = 1 <=> u = Root
    BY <1>4, <1>5, <1>9, <2>1
  <2>3. m.free \subseteq Ram /\ \A g \in m.free : lev[g] = 0
    BY <1>1, Facts DEF Levels, Memory
  <2>4. \A g \in n.free : lev2[g] = 0
    BY <1>7, <1>9, <2>3
  <2> QED
    BY <1>9, <2>2, <2>4 DEF Levels
<1>12. Links(n, lev2)
  <2> SUFFICES ASSUME NEW u \in Ram, NEW j \in Index, n.entry[u][j] # Absent
               PROVE  /\ lev2[u] \in 1 .. 3 => /\ n.entry[u][j] \in Ram
                                               /\ lev2[n.entry[u][j]] = lev2[u] + 1
                      /\ lev2[u] = 4 /\ n.entry[u][j] \in Ram =>
                            /\ lev2[n.entry[u][j]] = 0 /\ n.entry[u][j] \notin n.free
    BY DEF Links
  <2>1. PICK g : g = m.entry[u][j]
    OBVIOUS
  <2>2. n.entry[u][j] = g /\ u # t /\ lev2[u] = lev[u] /\ g # Absent
    BY <1>8, <1>9, <2>1
  <2>3. lev[u] \in 1 .. 3 => g \in Ram /\ lev[g] = lev[u] + 1
    BY <1>1, <2>1, <2>2 DEF Links
  <2>4. lev[u] = 4 /\ g \in Ram => lev[g] = 0 /\ g \notin m.free
    BY <1>1, <2>1, <2>2 DEF Links
  <2>5. lev[u] > 0 => g # t
    BY <1>10, <2>2
  <2>6. g \in Ram /\ g # t => lev2[g] = lev[g]
    BY <1>9
  <2> QED
    BY <1>7, <2>2, <2>3, <2>4, <2>5, <2>6
<1>13. OneName(n, lev2)
  BY <1>1, <1>8, <1>9 DEF OneName
<1>14. Used(n, lev2, up)
  <2> SUFFICES ASSUME NEW u \in Ram, lev2[u] > 1, u # up PROVE Entries(n, u) # {}
    BY DEF Used
  <2>1. u # t /\ lev[u] > 1
    BY <1>9
  <2>2. \A j \in Index : n.entry[u][j] = m.entry[u][j]
    BY <1>7, <2>1
  <2> QED
    BY <1>1, <2>1, <2>2 DEF Used, Entries
<1>23. t \notin E \cup Uncounted \cup {Absent}
  <2>1. t \notin Uncounted
    BY <1>4, Facts DEF Uncounted
  <2> QED
    BY <2>1
<1>15. ASSUME NEW u \in Ram, lev2[u] > 1
       PROVE  n.refcount[u] = Cardinality(Tally(n, u, E)) + (IF u = up THEN 1 ELSE 0)
  <2>1. u # t /\ lev[u] > 1
    BY <1>9, <1>15
  <2>2. m.refcount[u] = Cardinality(Tally(m, u, E)) + 0
    BY <1>1, <1>15, <2>1 DEF Counted
  <2>3. Cardinality(Tally(n, u, E)) \in Nat /\ Cardinality(Tally(m, u, E)) \in Nat
    BY TallyCount
  <2>4. n.refcount[u] = m.refcount[u]
    BY <2>1, Facts
  <2>5. CASE u = up
    <3>1. \A j \in Index : j # i => m.entry[u][j] = n.entry[u][j]
      BY <1>7, <2>1
    <3>2. m.entry[u][i] \notin E \cup Uncounted \cup {Absent} /\ n.entry[u][i] = Absent
      BY <1>4, <1>7, <1>23, <2>5
    <3>3. \A j \in Index : j # i => m.entry[up][j] = n.entry[up][j]
      BY <2>5, <3>1
    <3>4. Cardinality(Tally(m, up, E)) = Cardinality(Tally(n, up, E)) + 1
      BY ONLY <2>5, <3>2, <3>3, i \in Index, TallyGain
    <3> QED
      BY <2>2, <2>3, <2>4, <2>5, <3>4
  <2>6. CASE u # up
    <3>1. \A j \in Index : n.entry[u][j] = m.entry[u][j]
      BY <1>7, <2>1, <2>6
    <3>2. Tally(n, u, E) = Tally(m, u, E)
      BY <3>1 DEF Tally
    <3> QED
      BY <2>2, <2>3, <2>4, <2>6, <3>2
  <2> QED
    BY <2>5, <2>6
<1>16. \A g \in n.free \cup Uncounted : n.refcount[g] = 0
  <2> SUFFICES ASSUME NEW g \in m.free \cup Uncounted, g # t PROVE n.refcount[g] = 0
    BY <1>7
  <2>1. g \in Frame
    <3>1. m.free \subseteq BootFrames
      BY <1>1 DEF Memory
    <3> QED
      BY <3>1, Facts DEF Uncounted
  <2> QED
    BY <1>1, <2>1 DEF Counted
<1>17. ASSUME NEW u \in Ram, NEW j \in Index, lev2[u] = 4,
              n.entry[u][j] \notin Uncounted \cup {Absent}
       PROVE  n.refcount[n.entry[u][j]] = 1
  <2>1. PICK g : g = m.entry[u][j]
    OBVIOUS
  <2>2. n.entry[u][j] = g /\ u # t /\ lev[u] = 4 /\ g # Absent
    BY <1>8, <1>9, <1>17, <2>1
  <2>3. g \in Frame /\ g # t
    BY <1>1, <1>10, <2>1, <2>2 DEF Memory
  <2>4. m.refcount[g] = 1
    BY <1>1, <1>17, <2>1, <2>2 DEF Counted
  <2> QED
    BY <2>2, <2>3, <2>4
<1>18. Counted(n, lev2, E, up, 1)
  BY <1>15, <1>16, <1>17 DEF Counted
<1>19. EarlyMade(n, lev2, E) /\ Filled(n, E)
  <2>1. \A u \in E : u \in Ram /\ u # t
    BY <1>1 DEF EarlyMade
  <2>2. \A u \in E, j \in Index : m.entry[u][j] \in E \cup Uncounted
          => n.entry[u][j] = m.entry[u][j]
    BY <1>4, <1>7, <1>23, <2>1
  <2>3. \A u \in E : lev2[u] = lev[u]
    BY <1>9, <2>1
  <2>4. \A u \in Ram, j \in Index : n.entry[u][j] # Absent
          => n.entry[u][j] = m.entry[u][j] /\ lev2[u] = lev[u]
    BY <1>8, <1>9
  <2> QED
    BY <1>1, <2>2, <2>3, <2>4, EarlyKept
<1>20. \A w \in Virtual : /\ Leaf(n, w) = Leaf(m, w)
                          /\ \A p \in 1 .. k : Node(n, w, p) = Node(m, w, p)
  <2> SUFFICES ASSUME NEW w \in Virtual
               PROVE  /\ Leaf(n, w) = Leaf(m, w)
                      /\ \A p \in 1 .. k : Node(n, w, p) = Node(m, w, p)
    OBVIOUS
  <2>1. Agree(m, n, lev, up, i)
    BY <1>6, <1>7 DEF Agree
  <2>2. PICK l \in 1 .. 4 : l = lev[up] /\ l = k /\ l \in 1 .. l
    BY <1>2, <1>4
  <2>3. /\ \A p \in 1 .. l : Node(n, w, p) = Node(m, w, p)
        /\ Node(m, w, l) = up /\ w[l] = i => Node(n, w, l + 1) = n.entry[up][i]
        /\ ~ (Node(m, w, l) = up /\ w[l] = i)
              => \A p \in 1 .. 5 : Node(n, w, p) = Node(m, w, p)
    BY <1>1, <1>4, <2>1, <2>2, NodeChange
  <2>4. CASE ~ (Node(m, w, k) = up /\ w[k] = i)
    <3>1. Node(n, w, 5) = Node(m, w, 5)
      BY <2>2, <2>3, <2>4
    <3> QED
      BY <2>2, <2>3, <3>1, NodeSteps
  <2>5. CASE Node(m, w, k) = up /\ w[k] = i
    <3>1. Node(n, w, k + 1) = Absent
      BY <1>7, <2>2, <2>3, <2>5
    <3>2. Node(m, w, k + 1) = t
      BY <1>1, <1>2, <1>3, <1>4, <2>5, NodeLevels
    <3>3. Node(m, w, k + 1 + 1) = Absent
      <4>1. Node(m, w, k + 1 + 1) = Entry(m, t, w[k + 1]) /\ w[k + 1] \in Index
        BY <1>2, <3>2, NodeSteps, Facts
      <4> QED
        BY <1>6, <4>1 DEF Entry
    <3>4. Leaf(n, w) = Absent
      BY <1>2, <3>1, NodeAbsent
    <3>5. Leaf(m, w) = Absent
      BY <1>2, <3>3, NodeAbsent
    <3> QED
      BY <2>2, <2>3, <3>4, <3>5
  <2> QED
    BY <2>4, <2>5
<1>21. Pages(n, lev2)
  <2>1. ASSUME NEW g \in Frame, g \notin Ram, Idle(m, lev, g) PROVE Idle(n, lev2, g)
    <3>1. g # t /\ g # Absent /\ g \notin n.free
      BY <1>4, <1>7, <2>1, Facts DEF Idle
    <3>2. \A u \in Ram, j \in Index : lev2[u] > 0 => n.entry[u][j] # g
      <4>1. \A u \in Ram : lev2[u] > 0 => lev[u] > 0
        BY <1>9
      <4> QED
        BY <1>8, <2>1, <3>1, <4>1 DEF Idle
    <3>3. n.refcount[g] = 0
      BY <2>1, <3>1 DEF Idle
    <3> QED
      BY <2>1, <3>1, <3>2, <3>3 DEF Idle
  <2>2. \A u \in Device \cup Early : FrameOf[u] \in Frame /\ FrameOf[u] \notin Ram
    BY Facts
  <2> QED
    BY <1>1, <1>20, <2>1, <2>2 DEF Pages, Virtual
<1>22. Tree(n, lev2, E, up, 1)
  BY <1>11, <1>12, <1>13, <1>14, <1>18, <1>19, <1>21 DEF Tree
<1> QED
  BY <1>3, <1>19, <1>20, <1>22

\* The table has entries left: it stays.
LEMMA TableKept ==
  ASSUME NEW m, NEW lev, NEW E, NEW t \in Ram, lev[t] > 1,
         Tree(m, lev, E, t, 1), m.refcount[t] # 1,
         NEW n \in Memory, n.entry = m.entry, n.free = m.free,
         n.refcount[t] = m.refcount[t] - 1,
         \A g \in Frame : g # t => n.refcount[g] = m.refcount[g]
  PROVE  /\ Tree(n, lev, E, Root, 0)
         /\ \A w \in Virtual : Leaf(n, w) = Leaf(m, w)
<1>1. /\ m \in Memory /\ Levels(m, lev) /\ Links(m, lev) /\ OneName(m, lev)
      /\ Used(m, lev, t) /\ Counted(m, lev, E, t, 1) /\ EarlyMade(m, lev, E)
      /\ Pages(m, lev)
  BY DEF Tree
<1>2. \A u : Entries(n, u) = Entries(m, u) /\ Tally(n, u, E) = Tally(m, u, E)
  BY DEF Entries, Tally
<1>3. m.refcount[t] = Cardinality(Tally(m, t, E)) + 1
  BY <1>1 DEF Counted
<1>4. Entries(m, t) # {}
  <2>1. Cardinality(Tally(m, t, E)) # 0
    BY <1>3
  <2>2. Tally(m, t, E) # {}
    BY <2>1, TallyCount
  <2> QED
    BY <2>2 DEF Tally, Entries
<1>5. Levels(n, lev) /\ Links(n, lev) /\ OneName(n, lev) /\ EarlyMade(n, lev, E)
  BY <1>1, <1>2 DEF Levels, Links, OneName, EarlyMade
<1>6. Used(n, lev, Root)
  BY <1>1, <1>2, <1>4 DEF Used
<1>7. ASSUME NEW u \in Ram, lev[u] > 1
      PROVE  n.refcount[u] = Cardinality(Tally(n, u, E)) + (IF u = Root THEN 0 ELSE 0)
  <2>1. Cardinality(Tally(m, u, E)) \in Nat /\ u \in Frame
    BY TallyCount, Facts
  <2>2. CASE u = t
    BY <1>2, <1>3, <2>1, <2>2
  <2>3. CASE u # t
    <3>1. m.refcount[u] = Cardinality(Tally(m, u, E)) + 0
      BY <1>1, <1>7, <2>3 DEF Counted
    <3> QED
      BY <1>2, <2>1, <2>3, <3>1
  <2> QED
    BY <2>2, <2>3
<1>8. \A g \in n.free \cup Uncounted : n.refcount[g] = 0
  <2> SUFFICES ASSUME NEW g \in m.free \cup Uncounted PROVE n.refcount[g] = 0
    OBVIOUS
  <2>1. g \in Frame /\ g # t
    <3>1. m.free \subseteq BootFrames
      BY <1>1 DEF Memory
    <3>2. g \in Frame
      BY <3>1, Facts DEF Uncounted
    <3>3. g \in m.free => lev[g] = 0
      BY <1>1 DEF Levels
    <3>4. g \in Uncounted => g \notin Ram
      BY Facts DEF Uncounted
    <3> QED
      BY <3>2, <3>3, <3>4
  <2> QED
    BY <1>1, <2>1 DEF Counted
<1>9. ASSUME NEW u \in Ram, NEW j \in Index, lev[u] = 4,
             n.entry[u][j] \notin Uncounted \cup {Absent}
      PROVE  n.refcount[n.entry[u][j]] = 1
  <2>1. PICK g : g = m.entry[u][j]
    OBVIOUS
  <2>2. g \in Frame /\ g # Absent
    BY <1>1, <1>9, <2>1 DEF Memory
  <2>3. g # t
    BY <1>1, <1>9, <2>1, <2>2 DEF Links
  <2>4. m.refcount[g] = 1
    BY <1>1, <1>9, <2>1 DEF Counted
  <2> QED
    BY <2>1, <2>2, <2>3, <2>4
<1>10. Counted(n, lev, E, Root, 0)
  BY <1>7, <1>8, <1>9 DEF Counted
<1>11. \A w : Leaf(n, w) = Leaf(m, w)
  BY DEF Leaf, Pt, Pd, Pdpt, Entry
<1>12. Pages(n, lev)
  <2>1. ASSUME NEW g \in Frame, g \notin Ram, Idle(m, lev, g) PROVE Idle(n, lev, g)
    BY <2>1 DEF Idle
  <2>2. \A u \in Device \cup Early : FrameOf[u] \in Frame /\ FrameOf[u] \notin Ram
    BY Facts
  <2> QED
    BY <1>1, <1>11, <2>1, <2>2 DEF Pages
<1>13. Tree(n, lev, E, Root, 0)
  BY <1>5, <1>6, <1>10, <1>12 DEF Tree
<1> QED
  BY <1>11, <1>13


Calls == [m : Memory, on : BOOLEAN, panic : BOOLEAN]

\* What dec_page does while unmap_page goes on and the counter is not 0.
LEMMA DecPageIs ==
  ASSUME NEW s \in Calls, s.on, ~ s.panic, NEW f \in Frame, s.m.refcount[f] > 0
  PROVE  /\ dec_page(s, f) \in Calls /\ ~ dec_page(s, f).panic
         /\ (dec_page(s, f).on <=> s.m.refcount[f] = 1)
         /\ dec_page(s, f).m.entry = s.m.entry /\ dec_page(s, f).m.free = s.m.free
         /\ dec_page(s, f).m.refcount[f] = s.m.refcount[f] - 1
         /\ \A g \in Frame : g # f =>
               dec_page(s, f).m.refcount[g] = s.m.refcount[g]
<1> DEFINE c == s.m.refcount[f]
           m2 == [s.m EXCEPT !.refcount[f] = c - 1]
<1>1. s.m \in Memory /\ c \in Nat /\ c - 1 \in Nat
  BY DEF Calls, Memory
<1>2. /\ m2 \in Memory /\ m2.entry = s.m.entry /\ m2.free = s.m.free
      /\ m2.refcount[f] = c - 1
      /\ \A g \in Frame : g # f => m2.refcount[g] = s.m.refcount[g]
  BY <1>1 DEF Memory
<1>3. dec_page(s, f) = [s EXCEPT !.m = m2, !.on = (c = 1)]
  BY DEF dec_page, IsLast, Calls
<1> HIDE DEF m2
<1>4. PICK z : z = dec_page(s, f)
  OBVIOUS
<1>5. z \in Calls /\ z.m = m2 /\ z.on = (c = 1) /\ ~ z.panic
  BY <1>2, <1>3, <1>4 DEF Calls
<1> QED
  BY <1>2, <1>4, <1>5

\* The ways depend on the tables alone.
LEMMA SameWays ==
  ASSUME NEW m, NEW n, n.entry = m.entry, NEW v
  PROVE  \A l \in 1 .. 4 : Node(n, v, l) = Node(m, v, l)
<1>1. Pdpt(n, v) = Pdpt(m, v)
  BY DEF Pdpt
<1>2. Pd(n, v) = Pd(m, v)
  BY <1>1 DEF Pd, Entry
<1>3. Pt(n, v) = Pt(m, v)
  BY <1>2 DEF Pt, Entry
<1>4. \A l \in 1 .. 4 : l = 1 \/ l = 2 \/ l = 3 \/ l = 4
  OBVIOUS
<1> QED
  BY <1>1, <1>2, <1>3, <1>4 DEF Node, Table

\* The memory after FreeTable has taken out the table t at level k + 1.
Cut(m, v, k, t) ==
  [Unlinked(m, v, k + 1) EXCEPT !.free = @ \cup {t}, !.entry[t] = Empty]

LEMMA UnlinkIs ==
  ASSUME NEW m \in Memory, NEW v \in Virtual, NEW k \in 1 .. 3,
         NEW up \in Ram, up = Node(m, v, k), NEW t \in Ram, t # up, t \in BootFrames
  PROVE  /\ Cut(m, v, k, t) \in Memory /\ Unlink(m, Cut(m, v, k, t), up, v[k], t)
         /\ Cut(m, v, k, t).refcount = m.refcount
<1> DEFINE i == v[k]
           p == [m EXCEPT !.entry[up][i] = Absent]
           n == [p EXCEPT !.free = @ \cup {t}, !.entry[t] = Empty]
<1>1. k + 1 - 1 = k /\ k \in 1 .. 4 /\ i \in Index
  BY Facts
<1>2. Table(m, v, k) = up
  BY <1>1, NodeSteps
<1>3. Unlinked(m, v, k + 1) = p
  BY <1>1, <1>2 DEF Unlinked
<1>4. /\ p \in Memory /\ p.free = m.free /\ p.refcount = m.refcount
      /\ p.entry[up][i] = Absent
      /\ \A u \in Ram, j \in Index : ~ (u = up /\ j = i) => p.entry[u][j] = m.entry[u][j]
  BY <1>1 DEF Memory
<1> HIDE DEF p
<1>5. Empty \in [Index -> Frame \cup {Absent}] /\ \A j \in Index : Empty[j] = Absent
  BY DEF Empty
<1>6. /\ n \in Memory /\ n.free = p.free \cup {t} /\ n.refcount = p.refcount
      /\ n.entry[t] = Empty /\ \A u \in Ram : u # t => n.entry[u] = p.entry[u]
  BY <1>4, <1>5 DEF Memory
<1>7. Cut(m, v, k, t) = n
  BY <1>3 DEF Cut
<1> HIDE DEF n
<1>8. Unlink(m, n, up, i, t)
  BY <1>4, <1>5, <1>6 DEF Unlink
<1> QED
  BY <1>4, <1>6, <1>7, <1>8

\* unmap_page has come up to level l on the way to v: it goes on, and the table
\* there has one entry less than it counts, or it has stopped.  m is the memory in
\* which it began.
Climbs(s, v, l, E, m) ==
  /\ s \in Calls /\ ~ s.panic
  /\ \A w \in Virtual : Leaf(s.m, w) = Leaf(m, w)
  /\ s.on => /\ Node(s.m, v, l) # Absent /\ Filled(s.m, E)
             /\ \E lev : Tree(s.m, lev, E, Node(s.m, v, l), 1)
             /\ \A w \in Virtual, k \in 1 .. l : Node(s.m, w, k) = Node(m, w, k)
             /\ \A k \in 1 .. l : s.m.refcount[Node(m, v, k)] = m.refcount[Node(m, v, k)]
             /\ \A k \in l + 1 .. 4 : m.refcount[Node(m, v, k)] = 1
  /\ ~ s.on => \E lev : Tree(s.m, lev, E, Root, 0)

\* Once it has freed a table of early_map little is known of the tables that it
\* finds above, and of their counters nothing; but it only takes away.
Loose == [entry : [Ram -> [Index -> Frame \cup {Absent}]],
          refcount : [Frame -> Int], free : SUBSET (Ram \cup {Absent})]
LooseCalls == [m : Loose, on : BOOLEAN, panic : BOOLEAN]

Shrinks(m, n) == \A t \in Ram, i \in Index : n.entry[t][i] \in {m.entry[t][i], Absent}
Ways(m) == \A w \in Virtual, k \in 1 .. 4 : Node(m, w, k) \in Ram \cup {Absent}

\* What v has below one of early_map's tables is all that this table counts.
Beside(m, v) == \E u \in Early, l \in 2 .. 4 :
  /\ Node(m, u, l) = Node(m, v, l) /\ Node(m, v, l) # Absent
  /\ \A k \in l .. 4 : m.refcount[Node(m, v, k)] = 1

Breaks(s, v, m) ==
  /\ s \in LooseCalls /\ Ways(s.m) /\ Beside(m, v)
  /\ \E u \in Early : Leaf(s.m, u) = Absent

LEMMA LooseIs == Memory \subseteq Loose /\ Calls \subseteq LooseCalls
<1>1. BootFrames \subseteq Ram
  BY Facts
<1>2. Memory \subseteq Loose
  <2> SUFFICES ASSUME NEW m \in Memory PROVE m \in Loose
    OBVIOUS
  <2>1. /\ m.entry \in [Ram -> [Index -> Frame \cup {Absent}]]
        /\ m.refcount \in [Frame -> Nat] /\ m.free \subseteq BootFrames
        /\ m = [entry |-> m.entry, refcount |-> m.refcount, free |-> m.free]
    BY DEF Memory
  <2>2. m.refcount \in [Frame -> Int] /\ m.free \in SUBSET (Ram \cup {Absent})
    BY <1>1, <2>1
  <2> QED
    BY <2>1, <2>2 DEF Loose
<1> QED
  BY <1>2 DEF Calls, LooseCalls

\* Taking away entries makes no new ways.
LEMMA ShrinkWays ==
  ASSUME NEW m \in Loose, NEW n \in Loose, Shrinks(m, n), Ways(m)
  PROVE  /\ Ways(n)
         /\ \A w \in Virtual, k \in 1 .. 4 : Node(n, w, k) \in {Node(m, w, k), Absent}
         /\ \A w \in Virtual : Leaf(n, w) \in {Leaf(m, w), Absent}
<1> SUFFICES ASSUME NEW w \in Virtual
             PROVE  /\ \A k \in 1 .. 4 : /\ Node(n, w, k) \in Ram \cup {Absent}
                                         /\ Node(n, w, k) \in {Node(m, w, k), Absent}
                    /\ Leaf(n, w) \in {Leaf(m, w), Absent}
  BY DEF Ways
<1> DEFINE P(k) == Node(n, w, k) \in {Node(m, w, k), Absent}
<1>1. P(1)
  BY NodeSteps
<1>2. ASSUME NEW k \in 1 .. 4, P(k) PROVE P(k + 1)
  <2>1. PICK a : a = Node(n, w, k)
    OBVIOUS
  <2>2. Node(n, w, k + 1) = Entry(n, a, w[k])
    BY <2>1, NodeSteps
  <2>3. CASE a = Absent
    BY <2>2, <2>3 DEF Entry
  <2>4. CASE a # Absent
    <3>1. a = Node(m, w, k) /\ a \in Ram /\ w[k] \in Index
      BY <1>2, <2>1, <2>4, Facts DEF Ways
    <3>2. Node(m, w, k + 1) = Entry(m, a, w[k])
      BY <3>1, NodeSteps
    <3>3. n.entry[a][w[k]] \in {m.entry[a][w[k]], Absent}
      BY <3>1 DEF Shrinks
    <3> QED
      BY <2>2, <2>4, <3>2, <3>3 DEF Entry
  <2> QED
    BY <2>3, <2>4
<1> HIDE DEF P
<1>3. P(2)
  BY <1>1, <1>2, 1 \in 1 .. 4, 1 + 1 = 2
<1>4. P(3)
  BY <1>3, <1>2, 2 \in 1 .. 4, 2 + 1 = 3
<1>5. P(4)
  BY <1>4, <1>2, 3 \in 1 .. 4, 3 + 1 = 4
<1>6. P(5)
  BY <1>5, <1>2, 4 \in 1 .. 4, 4 + 1 = 5
<1>7. \A k \in 1 .. 4 : P(k)
  <2>1. \A k \in 1 .. 4 : k = 1 \/ k = 2 \/ k = 3 \/ k = 4
    OBVIOUS
  <2> QED
    BY <1>1, <1>3, <1>4, <1>5, <2>1
<1> QED
  BY <1>6, <1>7, NodeSteps DEF P, Ways

\* dec_page touches counters only.
LEMMA DecPageLoose ==
  ASSUME NEW s \in LooseCalls, NEW f
  PROVE  /\ dec_page(s, f) \in LooseCalls
         /\ dec_page(s, f).m.entry = s.m.entry /\ dec_page(s, f).m.free = s.m.free
<1> DEFINE c == s.m.refcount[f]
           m2 == [s.m EXCEPT !.refcount[f] = c - 1]
<1>1. CASE ~ s.on
  BY <1>1 DEF dec_page
<1>2. CASE s.on /\ c = 0
  <2>1. dec_page(s, f) = [s EXCEPT !.on = FALSE, !.panic = TRUE]
    BY <1>2 DEF dec_page
  <2> QED
    BY <2>1 DEF LooseCalls
<1>3. CASE s.on /\ c # 0
  <2>1. dec_page(s, f) = [s EXCEPT !.m = m2, !.on = (c = 1)]
    BY <1>3 DEF dec_page, IsLast, LooseCalls
  <2>2. s.m \in Loose
    BY DEF LooseCalls
  <2>3. [s.m.refcount EXCEPT ![f] = c - 1] \in [Frame -> Int]
    <3>1. s.m.refcount \in [Frame -> Int]
      BY <2>2 DEF Loose
    <3>2. f \in Frame => c - 1 \in Int
      BY <3>1
    <3> QED
      BY <3>1, <3>2
  <2>4. m2 \in Loose /\ m2.entry = s.m.entry /\ m2.free = s.m.free
    BY <2>2, <2>3 DEF Loose
  <2> HIDE DEF m2
  <2>5. PICK z : z = dec_page(s, f)
    OBVIOUS
  <2>6. z \in LooseCalls /\ z.m = m2
    BY <2>1, <2>4, <2>5 DEF LooseCalls
  <2> QED
    BY <2>4, <2>5, <2>6
<1> QED
  BY <1>1, <1>2, <1>3

\* Cut takes entries away, whatever there is to cut.
LEMMA CutShrinks ==
  ASSUME NEW m \in Loose, NEW v \in Virtual, NEW k \in 1 .. 3,
         NEW t \in Ram \cup {Absent}
  PROVE  Cut(m, v, k, t) \in Loose /\ Shrinks(m, Cut(m, v, k, t))
<1> DEFINE i == v[k]
           up == Table(m, v, k)
           e1 == [m.entry EXCEPT ![up][i] = Absent]
           e2 == [e1 EXCEPT ![t] = Empty]
<1>1. k + 1 - 1 = k /\ i \in Index
  BY Facts
<1>2. Cut(m, v, k, t) = [[m EXCEPT !.entry[up][i] = Absent]
                           EXCEPT !.free = @ \cup {t}, !.entry[t] = Empty]
  <2>1. Unlinked(m, v, k + 1) = [m EXCEPT !.entry[up][i] = Absent]
    BY <1>1 DEF Unlinked
  <2> HIDE DEF up, i
  <2> QED
    BY <2>1 DEF Cut
<1> DEFINE Good == [Ram -> [Index -> Frame \cup {Absent}]]
<1>3. m.entry \in Good /\ m.free \subseteq Ram \cup {Absent}
  BY DEF Loose
<1>4. e1 \in Good /\ \A u \in Ram, j \in Index : e1[u][j] \in {m.entry[u][j], Absent}
  <2>1. e1 = [m.entry EXCEPT ![up] = [m.entry[up] EXCEPT ![i] = Absent]]
    OBVIOUS
  <2>2. up \in Ram => [m.entry[up] EXCEPT ![i] = Absent] \in [Index -> Frame \cup {Absent}]
    BY <1>1, <1>3
  <2>3. up \in Ram => \A j \in Index :
          [m.entry[up] EXCEPT ![i] = Absent][j] \in {m.entry[up][j], Absent}
    BY <1>1, <1>3
  <2> HIDE DEF up, i
  <2> QED
    BY <1>3, <2>1, <2>2, <2>3
<1>5. Empty \in [Index -> Frame \cup {Absent}] /\ \A j \in Index : Empty[j] = Absent
  BY DEF Empty
<1> HIDE DEF e1
<1>6. e2 \in Good /\ \A u \in Ram, j \in Index : e2[u][j] \in {m.entry[u][j], Absent}
  BY <1>4, <1>5
<1>7. PICK n : n = Cut(m, v, k, t)
  OBVIOUS
<1>8. n = [entry |-> e2, refcount |-> m.refcount, free |-> m.free \cup {t}]
  <2>1. m = [entry |-> m.entry, refcount |-> m.refcount, free |-> m.free]
    BY DEF Loose
  <2> HIDE DEF up, i
  <2> QED
    BY <1>2, <1>7, <2>1 DEF e1
<1> HIDE DEF e2
<1>9. n \in Loose /\ n.entry = e2
  BY <1>3, <1>6, <1>8 DEF Loose
<1> QED
  BY <1>6, <1>7, <1>9 DEF Shrinks

\* A page that is lost stays lost as unmap_page goes on.
LEMMA BreaksOn ==
  ASSUME NEW v \in Virtual, NEW k \in 1 .. 3, NEW m, NEW s, Breaks(s, v, m)
  PROVE  Breaks(FreeTable(s, v, k + 1), v, m)
<1>1. PICK t : t = Table(s.m, v, k + 1)
  OBVIOUS
<1>2. PICK d : d = dec_page(s, t)
  OBVIOUS
<1>3. PICK r : r = FreeTable(s, v, k + 1)
  OBVIOUS
<1>4. r = IF d.on THEN [d EXCEPT !.m = Cut(d.m, v, k, t)] ELSE d
  BY <1>1, <1>2, <1>3 DEF FreeTable, Cut
<1>5. s \in LooseCalls /\ Ways(s.m) /\ s.m \in Loose
  BY DEF Breaks, LooseCalls
<1>6. t \in Ram \cup {Absent}
  <2>1. k + 1 \in 1 .. 4
    OBVIOUS
  <2>2. t = Node(s.m, v, k + 1)
    BY <1>1, <2>1, NodeSteps
  <2> QED
    BY <1>5, <2>1, <2>2 DEF Ways
<1>7. d \in LooseCalls /\ d.m \in Loose /\ d.m.entry = s.m.entry
  BY <1>2, <1>5, DecPageLoose DEF LooseCalls
<1>8. r \in LooseCalls /\ r.m \in Loose /\ Shrinks(s.m, r.m)
  <2>1. CASE ~ d.on
    BY <1>4, <1>7, <2>1 DEF Shrinks
  <2>2. CASE d.on
    <3>1. PICK n : n = Cut(d.m, v, k, t)
      OBVIOUS
    <3>2. n \in Loose /\ Shrinks(d.m, n)
      BY <1>6, <1>7, <3>1, CutShrinks
    <3>3. r = [d EXCEPT !.m = n]
      BY <1>4, <2>2, <3>1
    <3>4. r \in LooseCalls /\ r.m = n
      BY <1>7, <3>2, <3>3 DEF LooseCalls
    <3> QED
      BY <1>7, <3>2, <3>4 DEF Shrinks
  <2> QED
    BY <2>1, <2>2
<1>9. Ways(r.m) /\ \A w \in Virtual : Leaf(r.m, w) \in {Leaf(s.m, w), Absent}
  BY <1>5, <1>8, ShrinkWays
<1>10. \E u \in Early : Leaf(r.m, u) = Absent
  BY <1>9 DEF Breaks, Virtual
<1> QED
  BY <1>3, <1>8, <1>9, <1>10 DEF Breaks

\* A table of early_map is freed: a page below it is lost.
LEMMA TableLost ==
  ASSUME NEW m \in Memory, NEW lev, NEW E, NEW x, NEW d, Tree(m, lev, E, x, d),
         Filled(m, E), NEW l \in 2 .. 4, NEW t \in E, lev[t] = l,
         NEW n \in Loose, Shrinks(m, n), \A j \in Index : n.entry[t][j] = Absent
  PROVE  /\ Ways(n)
         /\ \E u \in Early : Node(m, u, l) = t /\ Leaf(n, u) = Absent
<1>1. Levels(m, lev) /\ Links(m, lev)
  BY DEF Tree
<1>2. m \in Loose /\ Ways(m)
  <2>1. Ways(m)
    BY <1>1, NodeLevels DEF Ways
  <2> QED
    BY <2>1, LooseIs
<1>3. Ways(n)
  BY <1>2, ShrinkWays
<1>4. PICK u \in Early : Node(m, u, l) = t
  BY EarlyWay
<1>5. u \in Virtual /\ l \in 1 .. 4 /\ l + 1 \in 1 .. 5 /\ u[l] \in Index
  BY Facts DEF Virtual
<1>6. CASE Node(n, u, l) = t
  <2>1. Node(n, u, l + 1) = Entry(n, t, u[l])
    BY <1>5, <1>6, NodeSteps
  <2>2. Node(n, u, l + 1) = Absent
    BY <1>5, <2>1 DEF Entry
  <2>3. Leaf(n, u) = Absent
    BY <1>5, <2>2, NodeAbsent
  <2> QED
    BY <1>3, <1>4, <2>3
<1>7. CASE Node(n, u, l) # t
  <2>1. Leaf(n, u) = Absent
    <3>1. Node(n, u, l) = Absent
      BY <1>2, <1>4, <1>5, <1>7, ShrinkWays
    <3> QED
      BY <1>5, <3>1, NodeAbsent
  <2> QED
    BY <1>3, <1>4, <2>1
<1> QED
  BY <1>6, <1>7

\* Above a table there are tables.
LEMMA NodesPresent ==
  ASSUME NEW m \in Memory, NEW lev, Levels(m, lev), Links(m, lev), NEW v \in Virtual,
         NEW k \in 1 .. 3, Node(m, v, k + 1) # Absent, NEW p \in 1 .. k
  PROVE  Node(m, v, p) # Absent
<1>1. \A l \in 1 .. 4 : Node(m, v, l) = Absent => Node(m, v, l + 1) = Absent
  BY NodeLevels
<1>2. Node(m, v, 1) = Absent => Node(m, v, 2) = Absent
  BY <1>1, 1 \in 1 .. 4, 1 + 1 = 2
<1>3. Node(m, v, 2) = Absent => Node(m, v, 3) = Absent
  BY <1>1, 2 \in 1 .. 4, 2 + 1 = 3
<1>4. Node(m, v, 3) = Absent => Node(m, v, 4) = Absent
  BY <1>1, 3 \in 1 .. 4, 3 + 1 = 4
<1>5. \/ k = 1 /\ p = 1
      \/ k = 2 /\ p \in {1, 2}
      \/ k = 3 /\ p \in {1, 2, 3}
  OBVIOUS
<1>6. /\ k = 1 => Node(m, v, 2) # Absent
      /\ k = 2 => Node(m, v, 3) # Absent
      /\ k = 3 => Node(m, v, 4) # Absent
  OBVIOUS
<1> QED
  BY <1>2, <1>3, <1>4, <1>5, <1>6

\* unmap_page goes on from one level to the next.
LEMMA FreeTableClimbs ==
  ASSUME NEW v \in Virtual, NEW k \in 1 .. 3, NEW E, NEW m, NEW s,
         Climbs(s, v, k + 1, E, m)
  PROVE  \/ Climbs(FreeTable(s, v, k + 1), v, k, E, m)
         \/ Breaks(FreeTable(s, v, k + 1), v, m)
<1> DEFINE t == Node(s.m, v, k + 1)
           d == dec_page(s, t)
           r == FreeTable(s, v, k + 1)
<1>1. s \in Calls /\ ~ s.panic /\ \A w \in Virtual : Leaf(s.m, w) = Leaf(m, w)
  BY DEF Climbs
<1>2. k + 1 \in 1 .. 4 /\ k \in 1 .. 4
  OBVIOUS
<1>3. r = IF d.on THEN [d EXCEPT !.m = Cut(d.m, v, k, t)] ELSE d
  <2>1. Table(s.m, v, k + 1) = t
    BY <1>2, NodeSteps
  <2> QED
    BY <2>1 DEF FreeTable, Cut
<1>4. CASE ~ s.on
  <2>1. d = s
    BY <1>4 DEF dec_page
  <2>2. r = s
    BY <1>3, <1>4, <2>1
  <2> QED
    BY <1>4, <2>2 DEF Climbs
<1>5. CASE s.on
  <2>1. t # Absent /\ Filled(s.m, E) /\ \E lev : Tree(s.m, lev, E, t, 1)
    BY <1>5 DEF Climbs
  <2>2. PICK lev : Tree(s.m, lev, E, t, 1)
    BY <2>1
  <2>3. /\ s.m \in Memory /\ Levels(s.m, lev) /\ Links(s.m, lev)
        /\ Counted(s.m, lev, E, t, 1) /\ EarlyMade(s.m, lev, E)
    BY <2>2 DEF Tree
  <2>4. t \in Ram /\ lev[t] = k + 1
    BY <1>2, <2>1, <2>3, NodeLevels
  <2>5. PICK q : q = d
    OBVIOUS
  <2>6. PICK t1 \in Ram : t1 = t
    BY <2>4
  <2>7. lev[t1] > 1 /\ t1 \in Frame /\ t1 # Root
    BY <2>3, <2>4, <2>6, Facts DEF Levels
  <2>8. s.m.refcount[t1] = Cardinality(Tally(s.m, t1, E)) + 1
    BY <2>3, <2>4, <2>6, <2>7 DEF Counted
  <2>9. s.m.refcount[t1] > 0
    BY <2>8, TallyCount
  <2>10. q = dec_page(s, t1)
    BY <2>5, <2>6
  <2>11. /\ q \in Calls /\ ~ q.panic /\ (q.on <=> s.m.refcount[t1] = 1)
         /\ q.m.entry = s.m.entry /\ q.m.free = s.m.free
         /\ q.m.refcount[t1] = s.m.refcount[t1] - 1
         /\ \A g \in Frame : g # t1 => q.m.refcount[g] = s.m.refcount[g]
    BY <1>1, <1>5, <2>7, <2>9, <2>10, DecPageIs
  <2>12. q.m \in Memory
    BY <2>11 DEF Calls
  <2>13. /\ \A w \in Virtual, p \in 1 .. k + 1 : Node(s.m, w, p) = Node(m, w, p)
         /\ \A p \in 1 .. k + 1 : s.m.refcount[Node(m, v, p)] = m.refcount[Node(m, v, p)]
         /\ \A p \in k + 1 + 1 .. 4 : m.refcount[Node(m, v, p)] = 1
    BY <1>5 DEF Climbs
  <2>14. CASE s.m.refcount[t1] # 1
    <3>1. r = q
      BY <1>3, <2>5, <2>11, <2>14
    <3>2. Tree(q.m, lev, E, Root, 0) /\ \A w \in Virtual : Leaf(q.m, w) = Leaf(s.m, w)
      <4>1. Tree(s.m, lev, E, t1, 1)
        BY <2>2, <2>6
      <4> QED
        BY <2>7, <2>11, <2>12, <2>14, <4>1, TableKept
    <3>3. Climbs(q, v, k, E, m)
      BY <1>1, <2>11, <2>14, <3>2 DEF Climbs
    <3> QED
      BY <3>1, <3>3
  <2>15. CASE s.m.refcount[t1] = 1
    <3>1. PICK up : up = Node(s.m, v, k)
      OBVIOUS
    <3>2. up \in Ram /\ lev[up] = k /\ t1 # up
      BY <1>2, <2>1, <2>3, <2>4, <2>6, <3>1, NodeLevels
    <3>3. PICK n : n = Cut(q.m, v, k, t1)
      OBVIOUS
    <3>4. r = [q EXCEPT !.m = n]
      BY <1>3, <2>5, <2>6, <2>11, <2>15, <3>3
    <3>5. Node(q.m, v, k) = up
      BY <1>2, <2>11, <3>1, SameWays
    <3>6. n \in Memory /\ Unlink(q.m, n, up, v[k], t1) /\ n.refcount = q.m.refcount
      <4>1. t1 \in BootFrames
        BY <2>6, <2>7 DEF Ram
      <4> QED
        BY ONLY <2>6, <2>12, <3>2, <3>3, <3>5, <4>1, UnlinkIs, v \in Virtual, k \in 1 .. 3
    <3>7. Unlink(s.m, n, up, v[k], t1)
      BY <2>11, <3>6 DEF Unlink
    <3>8. /\ n.refcount[t1] = 0
          /\ \A g \in Frame : g # t1 => n.refcount[g] = s.m.refcount[g]
      BY <2>11, <2>15, <3>6
    <3>9. PICK i \in Index : i = v[k]
      BY <1>2, Facts
    <3>10. PICK z : z = r
      OBVIOUS
    <3>11. z \in Calls /\ z.m = n /\ z.on /\ ~ z.panic
      BY <2>11, <2>15, <3>4, <3>6, <3>10 DEF Calls
    <3>12. \A p \in k + 1 .. 4 : m.refcount[Node(m, v, p)] = 1
      <4>1. m.refcount[Node(m, v, k + 1)] = 1
        <5>1. Node(m, v, k + 1) = t1
          BY <1>2, <2>6, <2>13
        <5> QED
          BY <1>2, <2>13, <2>15, <5>1
      <4>2. \A p \in k + 1 .. 4 : p = k + 1 \/ p \in k + 1 + 1 .. 4
        OBVIOUS
      <4> QED
        BY <2>13, <4>1, <4>2
    <3>13. CASE t1 \notin E
      <4>1. /\ \E lev2 : Tree(n, lev2, E, up, 1)
            /\ Filled(n, E) /\ up # Absent
            /\ \A w \in Virtual, p \in 1 .. k : Node(n, w, p) = Node(s.m, w, p)
            /\ \A w \in Virtual : Leaf(n, w) = Leaf(s.m, w)
        <5>1. /\ Tree(s.m, lev, E, t1, 1) /\ t1 \notin E /\ t1 = Node(s.m, v, k + 1)
              /\ t1 # Absent /\ Filled(s.m, E)
          BY <2>1, <2>2, <2>6, <3>13
        <5>2. Unlink(s.m, n, up, i, t1)
          BY <3>7, <3>9
        <5> QED
          BY ONLY <2>15, <3>1, <3>6, <3>8, <3>9, <5>1, <5>2, TableFreed,
                  v \in Virtual, k \in 1 .. 3
      <4>2. \A w \in Virtual, p \in 1 .. k : Node(n, w, p) = Node(m, w, p)
        BY <2>13, <4>1
      <4>3. Node(n, v, k) = up
        BY <1>2, <3>1, <4>1
      <4>4. \A p \in 1 .. k : n.refcount[Node(m, v, p)] = m.refcount[Node(m, v, p)]
        <5> SUFFICES ASSUME NEW p \in 1 .. k
                     PROVE  n.refcount[Node(m, v, p)] = m.refcount[Node(m, v, p)]
          OBVIOUS
        <5>1. p \in 1 .. 4 /\ p \in 1 .. k + 1 /\ p # k + 1
          OBVIOUS
        <5>2. Node(s.m, v, p) # Absent
          <6>1. Node(s.m, v, k + 1) # Absent
            BY <2>1
          <6> QED
            BY ONLY <6>1, <2>3, NodesPresent, v \in Virtual, k \in 1 .. 3, p \in 1 .. k
        <5>3. Node(s.m, v, p) \in Ram /\ lev[Node(s.m, v, p)] = p
          BY <2>3, <5>1, <5>2, NodeLevels
        <5>4. Node(s.m, v, p) \in Frame /\ Node(s.m, v, p) # t1
          BY <2>4, <2>6, <5>1, <5>3, Facts
        <5>5. Node(s.m, v, p) = Node(m, v, p)
          BY <2>13, <5>1
        <5> QED
          BY <2>13, <3>8, <5>1, <5>4, <5>5
      <4>5. Climbs(z, v, k, E, m)
        BY <1>1, <3>11, <3>12, <4>1, <4>2, <4>3, <4>4 DEF Climbs
      <4> QED
        BY <3>10, <4>5
    <3>14. CASE t1 \in E
      <4>1. n \in Loose /\ z \in LooseCalls
        BY <3>6, <3>11, LooseIs
      <4>2. Shrinks(s.m, n) /\ \A j \in Index : n.entry[t1][j] = Absent
        BY <3>7 DEF Unlink, Shrinks
      <4>3. PICK l \in 2 .. 4 : l = k + 1
        OBVIOUS
      <4>4. /\ Ways(n)
            /\ \E u \in Early : Node(s.m, u, l) = t1 /\ Leaf(n, u) = Absent
        <5>1. Tree(s.m, lev, E, t, 1) /\ Filled(s.m, E) /\ lev[t1] = l
          BY <2>1, <2>2, <2>4, <2>6, <4>3
        <5> QED
          BY ONLY <2>3, <3>14, <4>1, <4>2, <5>1, TableLost, l \in 2 .. 4
      <4>5. PICK u \in Early : Node(s.m, u, l) = t1 /\ Leaf(n, u) = Absent
        BY <4>4
      <4>6. Beside(m, v)
        <5>1. u \in Virtual
          BY DEF Virtual
        <5>2. Node(m, u, l) = t1 /\ Node(m, v, l) = t1 /\ t1 # Absent
          BY <1>2, <2>1, <2>6, <2>13, <4>3, <4>5, <5>1
        <5>3. \A p \in l .. 4 : m.refcount[Node(m, v, p)] = 1
          BY <3>12, <4>3
        <5> QED
          BY <5>2, <5>3 DEF Beside
      <4>7. Breaks(z, v, m)
        BY <3>11, <4>1, <4>4, <4>5, <4>6 DEF Breaks
      <4> QED
        BY <3>10, <4>7
    <3> QED
      BY <3>13, <3>14
  <2> QED
    BY <2>14, <2>15
<1> QED
  BY <1>4, <1>5

\* unmap_page clears the mapping of v alone and does not panic, or v was the last
\* page below a table of early_map and an early page is lost.
LEMMA UnmappedTree ==
  ASSUME NEW lev, NEW E, Tree(Now, lev, E, Root, 0),
         NEW v \in Anonymous \cup Device, Leaf(Now, v) # Absent
  PROVE  \/ /\ \E lev2 : Tree(Unmapped(v).m, lev2, E, Root, 0)
            /\ ~ Unmapped(v).panic /\ Leaf(Unmapped(v).m, v) = Absent
            /\ \A w \in Virtual : w # v => Leaf(Unmapped(v).m, w) = Leaf(Now, w)
         \/ Breaks(Unmapped(v), v, Now)
<1> DEFINE start == [m |-> Now, on |-> TRUE, panic |-> FALSE]
           f     == Leaf(Now, v)
           d     == dec_page(start, f)
           leaf  == ClearLeaf(d, v)
           s4    == FreeTable(leaf, v, 4)
           s3    == FreeTable(s4, v, 3)
           s2    == FreeTable(s3, v, 2)
<1>1. Unmapped(v) = s2
  BY DEF Unmapped
<1>2. /\ Now \in Memory /\ Levels(Now, lev) /\ Links(Now, lev) /\ v \in Virtual
      /\ Counted(Now, lev, E, Root, 0) /\ EarlyMade(Now, lev, E)
  BY DEF Tree, Virtual
<1> HIDE DEF Now
<1>3. f \in Frame /\ Now.refcount[f] = 1
  BY LeafCount
<1>4. start \in Calls /\ start.on /\ ~ start.panic /\ start.m = Now
  BY <1>2 DEF Calls
<1> HIDE DEF start
<1>5. PICK q : q = d
  OBVIOUS
<1>6. /\ q \in Calls /\ ~ q.panic /\ q.on
      /\ q.m.entry = Now.entry /\ q.m.free = Now.free /\ q.m.refcount[f] = 0
      /\ \A g \in Frame : g # f => q.m.refcount[g] = Now.refcount[g]
  <2>1. PICK f1 \in Frame : f1 = f /\ Now.refcount[f1] = 1
    BY <1>3
  <2>2. q = dec_page(start, f1) /\ start.m.refcount[f1] = 1
    BY <1>4, <1>5, <2>1
  <2>3. /\ q \in Calls /\ ~ q.panic /\ (q.on <=> start.m.refcount[f1] = 1)
        /\ q.m.entry = start.m.entry /\ q.m.free = start.m.free
        /\ q.m.refcount[f1] = start.m.refcount[f1] - 1
        /\ \A g \in Frame : g # f1 => q.m.refcount[g] = start.m.refcount[g]
    BY <1>4, <2>2, DecPageIs
  <2> QED
    BY <1>4, <2>1, <2>2, <2>3
<1>7. q.m \in Memory /\ 4 \in 1 .. 4 /\ 4 + 1 = 5
  BY <1>6 DEF Calls
<1>8. PICK t : t = Node(Now, v, 4)
  OBVIOUS
<1>9. t \in Ram /\ v[4] \in Index
  <2>1. t # Absent
    BY <1>2, <1>7, <1>8, NodeLevels, NodeSteps
  <2> QED
    BY <1>2, <1>7, <1>8, <2>1, NodeLevels, Facts
<1>10. Table(q.m, v, 4) = t
  <2>1. Table(Now, v, 4) = t
    BY <1>7, <1>8, NodeSteps
  <2> QED
    BY <1>6, <2>1 DEF Table, Pt, Pd, Pdpt, Entry
<1>11. PICK n : n = [q.m EXCEPT !.entry[t][v[4]] = Absent]
  OBVIOUS
<1>12. leaf = [q EXCEPT !.m.entry[t][v[4]] = Absent]
  BY <1>5, <1>6, <1>10 DEF ClearLeaf
<1>13. n \in Memory /\ SetEntry(q.m, n, t, v[4], Absent) /\ n.refcount = q.m.refcount
  BY <1>7, <1>9, <1>11, SetEntryIs
<1>14. PICK z : z = leaf
  OBVIOUS
<1>15. z \in Calls /\ z.m = n /\ z.on /\ ~ z.panic
  BY <1>6, <1>11, <1>12, <1>13, <1>14 DEF Calls
<1>16. SetEntry(Now, n, t, v[4], Absent)
  BY <1>6, <1>13 DEF SetEntry
<1>17. /\ Tree(n, lev, E, Node(n, v, 4), 1) /\ Filled(n, E)
       /\ Node(n, v, 4) # Absent /\ Leaf(n, v) = Absent
       /\ \A w \in Virtual : w # v => Leaf(n, w) = Leaf(Now, w)
       /\ \A w \in Virtual, k \in 1 .. 4 : Node(n, w, k) = Node(Now, w, k)
  <2>1. SetEntry(Now, n, Node(Now, v, 4), v[4], Absent)
    BY <1>8, <1>16
  <2>2. n.refcount[f] = 0 /\ \A g \in Frame : g # f => n.refcount[g] = Now.refcount[g]
    BY <1>6, <1>13
  <2> QED
    BY <1>13, <2>1, <2>2, LeafClear
<1>18. Climbs(z, v, 4, E, n)
  BY <1>15, <1>17 DEF Climbs
<1> HIDE DEF d, leaf, s4, s3, s2
<1>19. Climbs(s4, v, 3, E, n) \/ Breaks(s4, v, n)
  <2>1. s4 = FreeTable(z, v, 3 + 1)
    BY <1>14 DEF s4
  <2>2. Climbs(z, v, 3 + 1, E, n)
    BY <1>18
  <2> QED
    BY <1>2, <2>1, <2>2, FreeTableClimbs, 3 \in 1 .. 3
<1>20. Climbs(s3, v, 2, E, n) \/ Breaks(s3, v, n)
  <2>1. s3 = FreeTable(s4, v, 2 + 1)
    BY DEF s3
  <2>2. Climbs(s4, v, 2 + 1, E, n) \/ Breaks(s4, v, n)
    BY <1>19
  <2> QED
    BY <1>2, <2>1, <2>2, FreeTableClimbs, BreaksOn, 2 \in 1 .. 3
<1>21. Climbs(s2, v, 1, E, n) \/ Breaks(s2, v, n)
  <2>1. s2 = FreeTable(s3, v, 1 + 1)
    BY DEF s2
  <2>2. Climbs(s3, v, 1 + 1, E, n) \/ Breaks(s3, v, n)
    BY <1>20
  <2> QED
    BY <1>2, <2>1, <2>2, FreeTableClimbs, BreaksOn, 1 \in 1 .. 3
<1>22. CASE Climbs(s2, v, 1, E, n)
  <2>1. ~ s2.panic /\ \A w \in Virtual : Leaf(s2.m, w) = Leaf(n, w)
    BY <1>22 DEF Climbs
  <2>2. \E lev2 : Tree(s2.m, lev2, E, Root, 0)
    <3>1. CASE ~ s2.on
      BY <1>22, <3>1 DEF Climbs
    <3>2. CASE s2.on
      <4>1. PICK lev2 : Tree(s2.m, lev2, E, Node(s2.m, v, 1), 1)
        BY <1>22, <3>2 DEF Climbs
      <4>2. Tree(s2.m, lev2, E, Root, 1)
        BY <4>1, NodeSteps
      <4>3. Counted(s2.m, lev2, E, Root, 0)
        <5>1. \A u \in Ram : lev2[u] > 1 => u # Root
          BY <4>2 DEF Tree, Levels
        <5>2. Counted(s2.m, lev2, E, Root, 1)
          BY <4>2 DEF Tree
        <5> QED
          BY <5>1, <5>2 DEF Counted
      <4> QED
        BY <4>2, <4>3 DEF Tree
    <3> QED
      BY <3>1, <3>2
  <2> QED
    BY <1>1, <1>2, <1>17, <2>1, <2>2
<1>23. CASE Breaks(s2, v, n)
  <2>1. PICK u \in Early, l \in 2 .. 4 :
          /\ Node(n, u, l) = Node(n, v, l) /\ Node(n, v, l) # Absent
          /\ \A k \in l .. 4 : n.refcount[Node(n, v, k)] = 1
    BY <1>23 DEF Breaks, Beside
  <2>2. u \in Virtual /\ l \in 1 .. 4
    BY DEF Virtual
  <2>3. \A k \in 1 .. 4 : Node(Now, v, k) \in Frame
    <3>1. Node(Now, v, 3 + 1) # Absent
      BY <1>2, <1>7, <1>17
    <3>2. \A k \in 1 .. 3 : Node(Now, v, k) # Absent
      BY <1>2, <3>1, NodesPresent, 3 \in 1 .. 3
    <3>3. \A k \in 1 .. 4 : k \in 1 .. 3 \/ k = 3 + 1
      OBVIOUS
    <3>4. \A k \in 1 .. 4 : Node(Now, v, k) # Absent
      BY <3>1, <3>2, <3>3
    <3> QED
      BY <1>2, <3>4, NodeLevels, Facts
  <2>4. \A k \in l .. 4 : Now.refcount[Node(Now, v, k)] = 1
    <3> SUFFICES ASSUME NEW k \in l .. 4 PROVE Now.refcount[Node(Now, v, k)] = 1
      OBVIOUS
    <3>1. k \in 1 .. 4
      OBVIOUS
    <3>2. PICK g : g = Node(Now, v, k)
      OBVIOUS
    <3>3. n.refcount[g] = 1 /\ g \in Frame
      BY <1>2, <1>17, <2>1, <2>3, <3>1, <3>2
    <3>4. g # f
      BY <1>6, <1>13, <3>3
    <3> QED
      BY <1>6, <1>13, <3>2, <3>3, <3>4
  <2>5. Node(Now, u, l) = Node(Now, v, l) /\ Node(Now, v, l) # Absent
    BY <1>2, <1>17, <2>1, <2>2
  <2>6. Beside(Now, v)
    BY <2>4, <2>5 DEF Beside
  <2> QED
    BY <1>1, <1>23, <2>6 DEF Breaks
<1> QED
  BY <1>21, <1>22, <1>23

\* An early page's frame has no count: dec_page panics at once.
LEMMA EarlyUnmapped ==
  ASSUME NEW lev, NEW E, Tree(Now, lev, E, Root, 0),
         NEW v \in Early, Leaf(Now, v) = FrameOf[v]
  PROVE  Unmapped(v).panic /\ Unmapped(v).m = Now
<1>1. PICK start : start = [m |-> Now, on |-> TRUE, panic |-> FALSE]
  OBVIOUS
<1>2. PICK stop : stop = [m |-> Now, on |-> FALSE, panic |-> TRUE]
  OBVIOUS
<1>3. ~ stop.on /\ stop.panic /\ stop.m = Now
  BY <1>2
<1>4. dec_page(start, Leaf(Now, v)) = stop
  <2>1. Now.refcount[Leaf(Now, v)] = 0
    BY DEF Tree, Counted, Uncounted
  <2>2. start.on /\ start.m.refcount[Leaf(Now, v)] = 0
    BY <1>1, <2>1
  <2>3. dec_page(start, Leaf(Now, v)) = [start EXCEPT !.on = FALSE, !.panic = TRUE]
    BY <2>2 DEF dec_page
  <2> QED
    BY <1>1, <1>2, <2>3
<1>5. \A f : dec_page(stop, f) = stop
  BY <1>3 DEF dec_page
<1>6. \A k \in 1 .. 3 : FreeTable(stop, v, k + 1) = stop
  <2> SUFFICES ASSUME NEW k \in 1 .. 3 PROVE FreeTable(stop, v, k + 1) = stop
    OBVIOUS
  <2>1. PICK t : t = Table(stop.m, v, k + 1)
    OBVIOUS
  <2>2. PICK d : d = dec_page(stop, t)
    OBVIOUS
  <2>3. FreeTable(stop, v, k + 1) = IF d.on THEN [d EXCEPT !.m = Cut(d.m, v, k, t)] ELSE d
    BY <2>1, <2>2 DEF FreeTable, Cut
  <2> QED
    BY <1>3, <1>5, <2>2, <2>3
<1>7. ClearLeaf(stop, v) = stop
  BY <1>3 DEF ClearLeaf
<1>8. Unmapped(v) = FreeTable(FreeTable(FreeTable(
                      ClearLeaf(dec_page(start, Leaf(Now, v)), v), v, 4), v, 3), v, 2)
  BY <1>1 DEF Unmapped
<1>9. FreeTable(stop, v, 4) = stop /\ FreeTable(stop, v, 3) = stop /\ FreeTable(stop, v, 2) = stop
  BY <1>6, 1 \in 1 .. 3, 2 \in 1 .. 3, 3 \in 1 .. 3, 1 + 1 = 2, 2 + 1 = 3, 3 + 1 = 4
<1>10. Unmapped(v) = stop
  BY <1>4, <1>7, <1>8, <1>9
<1> QED
  BY <1>3, <1>10


----------------------------------------------------------------------------
(* The steps *)

\* At boot there is the empty PML4 only.
LEMMA InitSound == Init => Invariant
<1> SUFFICES ASSUME Init PROVE Invariant
  OBVIOUS
<1> DEFINE lev == [t \in Ram |-> IF t = Root THEN 1 ELSE 0]
<1>1. PICK m : m = Now
  OBVIOUS
<1>2. /\ m.free = BootFrames /\ m.entry = [t \in Ram |-> Empty]
      /\ m.refcount = [f \in Frame |-> 0]
  BY <1>1 DEF Init, Now
<1>3. m \in Memory
  <2>1. m = [entry |-> m.entry, refcount |-> m.refcount, free |-> m.free]
    BY <1>1 DEF Now
  <2>2. Empty \in [Index -> Frame \cup {Absent}]
    BY DEF Empty
  <2>3. m.entry \in [Ram -> [Index -> Frame \cup {Absent}]]
    BY <1>2, <2>2
  <2> QED
    BY <1>2, <2>1, <2>3 DEF Memory
<1>4. \A t \in Ram, i \in Index : m.entry[t][i] = Absent
  BY <1>2 DEF Empty
<1>5. \A t \in Ram : lev[t] \in {0, 1} /\ (lev[t] > 0 <=> t = Root) /\ (lev[t] = 1 <=> t = Root)
  OBVIOUS
<1>6. lev \in [Ram -> 0 .. 4]
  OBVIOUS
<1> HIDE DEF lev
<1>7. Levels(m, lev)
  <2>1. \A f \in m.free : lev[f] = 0
    BY <1>2, <1>5, FramesAssumption DEF Ram, FramesAssumption
  <2> QED
    BY <1>5, <1>6, <2>1 DEF Levels
<1>8. Links(m, lev) /\ OneName(m, lev)
  BY <1>4 DEF Links, OneName
<1>9. Used(m, lev, Root)
  BY <1>5 DEF Used
<1>10. \A f \in Frame : m.refcount[f] = 0
  BY <1>2
<1>11. Counted(m, lev, {Root}, Root, 0)
  <2>1. \A t \in Ram : ~ (lev[t] > 1)
    BY <1>5
  <2>2. \A f \in m.free \cup Uncounted : m.refcount[f] = 0
    <3>1. m.free \subseteq Frame /\ Uncounted \subseteq Frame
      BY <1>2, Facts DEF Uncounted
    <3> QED
      BY <1>10, <3>1
  <2>3. \A t \in Ram, i \in Index : m.entry[t][i] \in Uncounted \cup {Absent}
    BY <1>4
  <2> QED
    BY <2>1, <2>2, <2>3 DEF Counted
<1>12. EarlyMade(m, lev, {Root}) /\ AllEarly(lev, {Root})
  <2>1. \A t \in Ram, i \in Index : m.entry[t][i] \notin {Root} \cup Uncounted
    BY <1>4, Facts DEF Uncounted
  <2> QED
    BY <1>5, <2>1, Facts DEF EarlyMade, AllEarly
<1>13. \A v \in Virtual : Leaf(m, v) = Absent
  <2> SUFFICES ASSUME NEW v \in Virtual PROVE Leaf(m, v) = Absent
    OBVIOUS
  <2>1. v[1] \in Index /\ Node(m, v, 1) = Root
    BY Facts, NodeSteps
  <2>2. Node(m, v, 2) = Entry(m, Root, v[1])
    BY <2>1, NodeSteps, 1 \in 1 .. 4, 1 + 1 = 2
  <2>3. Node(m, v, 2) = Absent
    BY <1>4, <2>1, <2>2, Facts DEF Entry
  <2> QED
    BY <2>3, NodeAbsent, 2 \in 1 .. 5
<1>14. Pages(m, lev)
  <2>1. ASSUME NEW v \in Device \cup Early PROVE Idle(m, lev, FrameOf[v])
    <3>1. PICK f : f = FrameOf[v]
      OBVIOUS
    <3>2. f \in Frame /\ f \notin Ram /\ f # Absent
      BY <3>1, Facts
    <3>3. f \notin m.free
      BY <1>2, <3>2, Facts
    <3>4. Idle(m, lev, f)
      BY <1>4, <1>10, <3>2, <3>3 DEF Idle
    <3> QED
      BY <3>1, <3>4
  <2>2. \A v \in Device \cup Early : Leaf(m, v) = Absent /\ Idle(m, lev, FrameOf[v])
    BY <1>13, <2>1 DEF Virtual
  <2>3. \A v \in Anonymous : Leaf(m, v) \in Ram \cup {Absent}
    BY <1>13 DEF Virtual
  <2> QED
    BY <2>2, <2>3 DEF Pages
<1>15. Tree(m, lev, {Root}, Root, 0)
  BY <1>3, <1>7, <1>8, <1>9, <1>11, <1>12, <1>14 DEF Tree
<1>16. Sound(m, pending)
  <2>1. pending = Early /\ Early \subseteq Virtual
    BY DEF Init, Virtual
  <2> QED
    BY <1>3, <1>12, <1>13, <1>15, <2>1 DEF Sound
<1> QED
  BY <1>1, <1>16 DEF Invariant

\* What a step has made the memory is what the next one finds.
LEMMA Becomes ==
  ASSUME NEW m \in Loose, Become(m)
  PROVE  Now' = m
BY DEF Become, Loose, Now

\* The guard of a mapping is that alloc_page has the frames it takes.
LEMMA RoomNowFor ==
  ASSUME Now \in Memory, NEW v, Cardinality(free) >= MissingTables(v)
  PROVE  Room(Now, v, 1) /\ IsFiniteSet(free) /\ Cardinality(free) \in Nat
<1>1. PICK m : m = Now
  OBVIOUS
<1>2. m.free = free /\ free \subseteq BootFrames
  BY <1>1 DEF Memory, Now
<1>3. IsFiniteSet(free) /\ Cardinality(free) \in Nat
  BY <1>2, Facts, FS_Subset, FS_CardinalityType
<1>4. Cardinality(m.free) >= Cardinality({l \in 2 .. 4 : Table(m, v, l) = Absent})
  BY <1>1, <1>2 DEF MissingTables
<1>5. Room(m, v, 1)
  BY <1>2, <1>3, <1>4, RoomFor
<1> QED
  BY <1>1, <1>3, <1>5

\* A mapping leaves early_map's pages where they are.
LEMMA StillWorks ==
  ASSUME Working, NEW v \in Virtual, NEW f, NowMaps(Now, Now', v, f),
         v \in Early => f = FrameOf[v],
         pending' = pending \/ pending' = pending \ {v}, panicked' = panicked
  PROVE  Working'
<1>1. PICK m, n : m = Now /\ n = Now'
  OBVIOUS
<1>2. panicked' = "no" /\ \A u \in Early \ pending : Leaf(m, u) = FrameOf[u]
  BY <1>1 DEF Working, Intact
<1>3. \A u \in Early : u # v => Leaf(n, u) = Leaf(m, u)
  BY <1>1 DEF NowMaps, Virtual
<1>4. \A u \in Early \ pending' : Leaf(n, u) = FrameOf[u]
  <2> SUFFICES ASSUME NEW u \in Early \ pending' PROVE Leaf(n, u) = FrameOf[u]
    OBVIOUS
  <2>1. CASE u = v
    BY <1>1, <2>1 DEF NowMaps
  <2>2. CASE u # v
    BY <1>2, <1>3, <2>2
  <2> QED
    BY <2>1, <2>2
<1>5. Intact'
  BY <1>1, <1>4 DEF Intact
<1> QED
  BY <1>2, <1>5 DEF Working

\* early_map maps a page that was not mapped.
LEMMA EarlyStep ==
  ASSUME Invariant, NEW v \in Early, early_map(v)
  PROVE  Working' /\ Sound(Now', pending') /\ NowMaps(Now, Now', v, FrameOf[v])
<1>1. PICK m : m = Now
  OBVIOUS
<1>2. m \in Memory /\ Sound(m, pending) /\ Working
  BY <1>1 DEF Invariant, Sound, early_map
<1>3. v \in pending /\ v \in Virtual /\ Leaf(m, v) = Absent
  BY <1>2 DEF early_map, Sound, Virtual
<1>4. PICK lev, E : Tree(m, lev, E, Root, 0) /\ AllEarly(lev, E)
  BY <1>2, <1>3 DEF Sound
<1>5. Room(m, v, 1)
  BY <1>1, <1>2, RoomNowFor DEF early_map
<1>6. PICK n : n = EarlyMapped(m, v, FrameOf[v])
  OBVIOUS
<1>7. /\ \E lev2, E2 : Tree(n, lev2, E2, Root, 0) /\ AllEarly(lev2, E2)
      /\ NowMaps(m, n, v, FrameOf[v])
  BY <1>3, <1>4, <1>5, <1>6, EarlyMappedTree
<1>8. n \in Memory /\ n \in Loose
  BY <1>7, LooseIs DEF Tree
<1>9. Now' = n
  BY <1>1, <1>6, <1>8, Becomes DEF early_map
<1>10. Sound(n, pending')
  <2>1. pending' = pending \ {v} /\ pending \subseteq Early /\ Early \subseteq Virtual
    BY <1>2 DEF early_map, Sound, Virtual
  <2>2. \A w \in pending' : Leaf(n, w) = Absent
    BY <1>2, <1>7, <2>1 DEF Sound, NowMaps
  <2> QED
    BY <1>7, <1>8, <2>1, <2>2 DEF Sound
<1>11. Working'
  <2>1. pending' = pending \ {v} /\ panicked' = panicked
    BY DEF early_map
  <2> QED
    BY <1>1, <1>2, <1>3, <1>7, <1>9, <2>1, StillWorks
<1> QED
  BY <1>1, <1>7, <1>9, <1>10, <1>11

\* So is the memory of map_page,
LEMMA MapStep ==
  ASSUME Invariant, NEW v \in Device \cup Early, map_page(v)
  PROVE  Working' /\ Sound(Now', pending') /\ NowMaps(Now, Now', v, FrameOf[v])
<1>1. PICK m : m = Now
  OBVIOUS
<1>2. m \in Memory /\ Sound(m, {}) /\ Working /\ pending = {} /\ v \in Virtual
  BY <1>1 DEF Invariant, map_page, Virtual, Sound
<1>3. PICK lev, E : Tree(m, lev, E, Root, 0)
  BY <1>2 DEF Sound
<1>4. Room(m, v, 1)
  BY <1>1, <1>2, RoomNowFor DEF map_page
<1>5. PICK f \in Frame : f = FrameOf[v]
  BY Facts
<1>6. \/ Leaf(m, v) = f
      \/ Leaf(m, v) = Absent /\ Idle(m, lev, f) /\ f \notin Uncounted
  <2>1. CASE v \in Early
    BY <1>1, <1>2, <1>5, <2>1 DEF Working, Intact
  <2>2. CASE v \in Device
    <3>1. Leaf(m, v) = f \/ (Leaf(m, v) = Absent /\ Idle(m, lev, f))
      BY <1>3, <1>5 DEF Tree, Pages
    <3>2. f \notin Uncounted
      BY <1>5, <2>2, PagesAssumption DEF Uncounted, PagesAssumption
    <3> QED
      BY <3>1, <3>2
  <2> QED
    BY <2>1, <2>2
<1>7. Fits(v, f)
  BY <1>5, PagesAssumption DEF Fits, PagesAssumption
<1>8. PICK n : n = Mapped(m, v, f)
  OBVIOUS
<1>9. (\E lev2 : Tree(n, lev2, E, Root, 0)) /\ NowMaps(m, n, v, f)
  BY <1>2, <1>3, <1>4, <1>6, <1>7, <1>8, MappedTree
<1>10. n \in Memory /\ n \in Loose
  BY <1>9, LooseIs DEF Tree
<1>11. Now' = n /\ pending' = {} /\ pending' = pending /\ panicked' = panicked
  BY <1>1, <1>2, <1>5, <1>8, <1>10, Becomes DEF map_page
<1>12. Sound(n, {})
  BY <1>9, <1>10 DEF Sound
<1>13. Working'
  BY <1>1, <1>2, <1>5, <1>9, <1>11, StillWorks
<1> QED
  BY <1>1, <1>5, <1>9, <1>11, <1>12, <1>13

\* of page_fault_handler, which takes the frame of the page first,
LEMMA FaultStep ==
  ASSUME Invariant, NEW v \in Anonymous, page_fault_handler(v)
  PROVE  /\ Working' /\ Sound(Now', pending')
         /\ FreeFrame(Now) \in Frame /\ NowMaps(Now, Now', v, FreeFrame(Now))
<1>1. PICK m : m = Now
  OBVIOUS
<1>2. m \in Memory /\ Sound(m, {}) /\ Working /\ pending = {} /\ v \in Virtual
  BY <1>1 DEF Invariant, page_fault_handler, Virtual, Sound
<1>3. PICK lev, E : Tree(m, lev, E, Root, 0)
  BY <1>2 DEF Sound
<1>4. PICK f : f = FreeFrame(m)
  OBVIOUS
<1>5. PICK k : k = Taken(m)
  OBVIOUS
<1>6. m.free = free /\ Cardinality(free) > MissingTables(v) /\ Leaf(m, v) = Absent
  BY <1>1 DEF page_fault_handler, Now
<1>7. MissingTables(v) \in Nat
  <2>1. IsFiniteSet(2 .. 4)
    <3>1. \A a, b \in Int : IsFiniteSet(a .. b)
      BY FS_Interval
    <3> QED
      BY <3>1, 2 \in Int, 4 \in Int, Zenon
  <2> QED
    BY <2>1, FS_Subset, FS_CardinalityType DEF MissingTables
<1>8. IsFiniteSet(free) /\ Cardinality(free) \in Nat
  <2>1. free \subseteq BootFrames
    BY <1>2, <1>6 DEF Memory
  <2> QED
    BY <2>1, Facts, FS_Subset, FS_CardinalityType
<1>9. m.free # {}
  <2>1. Cardinality({}) = 0
    BY FS_EmptySet
  <2> QED
    BY <1>6, <1>7, <1>8, <2>1
<1>10. f \in m.free /\ f \in Ram /\ f \in Frame /\ f # Absent
  BY <1>2, <1>4, <1>9, FreeFrameIs
<1>11. /\ k \in Memory /\ k.entry = m.entry /\ k.refcount = m.refcount
       /\ k.free = m.free \ {f}
  BY <1>2, <1>4, <1>5 DEF Taken, Memory
<1>12. Tree(k, lev, E, Root, 0) /\ \A w : Leaf(k, w) = Leaf(m, w)
  <2>1. /\ Levels(m, lev) /\ Links(m, lev) /\ OneName(m, lev) /\ Used(m, lev, Root)
        /\ Counted(m, lev, E, Root, 0) /\ EarlyMade(m, lev, E) /\ Pages(m, lev)
    BY <1>3 DEF Tree
  <2>2. \A w : Leaf(k, w) = Leaf(m, w)
    BY <1>11 DEF Leaf, Pt, Pd, Pdpt, Entry
  <2>3. Levels(k, lev) /\ Links(k, lev) /\ OneName(k, lev) /\ EarlyMade(k, lev, E)
    BY <1>11, <2>1 DEF Levels, Links, OneName, EarlyMade, Entries
  <2>4. \A t : Entries(k, t) = Entries(m, t) /\ Tally(k, t, E) = Tally(m, t, E)
    BY <1>11 DEF Entries, Tally
  <2>5. Used(k, lev, Root) /\ Counted(k, lev, E, Root, 0)
    BY <1>11, <2>1, <2>4 DEF Used, Counted
  <2>6. \A g : Idle(m, lev, g) => Idle(k, lev, g)
    BY <1>11 DEF Idle
  <2>7. Pages(k, lev)
    BY <2>1, <2>2, <2>6 DEF Pages
  <2> QED
    BY <1>11, <2>2, <2>3, <2>5, <2>7 DEF Tree
<1>13. Idle(k, lev, f) /\ Fits(v, f)
  <2>1. Fits(v, f)
    BY <1>10, PagesAssumption DEF Fits, PagesAssumption
  <2>2. Levels(m, lev) /\ Links(m, lev) /\ Counted(m, lev, E, Root, 0)
    BY <1>3 DEF Tree
  <2>3. lev[f] = 0 /\ m.refcount[f] = 0
    BY <1>10, <2>2 DEF Levels, Counted
  <2>4. ASSUME NEW t \in Ram, NEW i \in Index, lev[t] > 0, m.entry[t][i] = f
        PROVE  FALSE
    <3>1. lev[t] \in 1 .. 3 \/ lev[t] = 4
      BY <2>2, <2>4 DEF Levels
    <3>2. CASE lev[t] \in 1 .. 3
      BY <1>10, <2>2, <2>3, <2>4, <3>2 DEF Links
    <3>3. CASE lev[t] = 4
      BY <1>10, <2>2, <2>4, <3>3 DEF Links
    <3> QED
      BY <3>1, <3>2, <3>3
  <2>5. Idle(k, lev, f)
    BY <1>11, <2>3, <2>4 DEF Idle
  <2> QED
    BY <2>1, <2>5
<1>14. Room(k, v, 1)
  <2>1. MissingTables(v) = Cardinality({l \in 2 .. 4 : Table(m, v, l) = Absent})
    BY <1>1 DEF MissingTables
  <2>2. \A l \in 2 .. 4 : Table(k, v, l) = Table(m, v, l)
    <3>1. \A l \in 2 .. 4 : l \in 1 .. 4
      OBVIOUS
    <3> QED
      BY <1>11, <3>1, SameWays, NodeSteps
  <2>3. MissingTables(v) = Cardinality({l \in 2 .. 4 : Table(k, v, l) = Absent})
    <3>1. {l \in 2 .. 4 : Table(m, v, l) = Absent} = {l \in 2 .. 4 : Table(k, v, l) = Absent}
      BY <2>2
    <3> QED
      BY <2>1, <3>1
  <2>4. Cardinality(k.free) = Cardinality(free) - 1
    BY <1>6, <1>8, <1>10, <1>11, FS_RemoveElement
  <2>5. Cardinality(k.free) >= MissingTables(v) /\ Cardinality(k.free) \in Nat
    BY <1>6, <1>7, <1>8, <2>4
  <2> QED
    BY <2>3, <2>5, RoomFor
<1>15. PICK n : n = Mapped(k, v, f)
  OBVIOUS
<1>16. (\E lev2 : Tree(n, lev2, E, Root, 0)) /\ NowMaps(k, n, v, f)
  <2>1. f \notin Uncounted
    BY <1>10, Facts DEF Uncounted
  <2> QED
    BY <1>2, <1>6, <1>10, <1>12, <1>13, <1>14, <1>15, <2>1, MappedTree
<1>17. n \in Memory /\ n \in Loose /\ NowMaps(m, n, v, f)
  BY <1>12, <1>16, LooseIs DEF Tree, NowMaps
<1>18. Now' = n /\ pending' = {} /\ pending' = pending /\ panicked' = panicked
  BY <1>1, <1>2, <1>4, <1>5, <1>15, <1>17, Becomes DEF page_fault_handler
<1>19. Sound(n, {})
  BY <1>16, <1>17 DEF Sound
<1>20. Working'
  <2>1. v \notin Early
    BY PagesAssumption DEF PagesAssumption
  <2> QED
    BY <1>1, <1>2, <1>17, <1>18, <2>1, StillWorks
<1> QED
  BY <1>1, <1>4, <1>10, <1>17, <1>18, <1>19, <1>20

\* What unmap_page may not be called for.
LastBeside(v) == v \in Early \/ Beside(Now, v)

\* and of unmap_page, but for those pages.
LEMMA UnmapStep ==
  ASSUME Invariant, NEW v \in Released, unmap_page(v)
  PROVE  \/ /\ Working' /\ Sound(Now', pending') /\ v \notin Early
            /\ Leaf(Now, v) # Absent /\ Leaf(Now', v) = Absent
            /\ \A w \in Virtual : w # v => Leaf(Now', w) = Leaf(Now, w)
         \/ ~ Working' /\ LastBeside(v)
<1>1. /\ v \in Virtual /\ Leaf(Now, v) # Absent /\ Working /\ pending = {}
      /\ pending' = {} /\ panicked' = IF Unmapped(v).panic THEN "dec_page" ELSE "no"
      /\ Become(Unmapped(v).m)
  BY PagesAssumption DEF PagesAssumption, unmap_page
<1>2. PICK lev, E : Tree(Now, lev, E, Root, 0)
  BY <1>1 DEF Invariant, Sound
<1>3. \A u \in Early : Leaf(Now, u) = FrameOf[u]
  BY <1>1 DEF Working, Intact
<1>4. PICK n : n = Unmapped(v).m
  OBVIOUS
<1>5. CASE v \in Early
  <2>1. Unmapped(v).panic
    BY <1>2, <1>3, <1>5, EarlyUnmapped
  <2> QED
    BY <1>1, <1>5, <2>1 DEF Working, LastBeside
<1>6. CASE v \notin Early
  <2>1. v \in Anonymous \cup Device
    BY <1>1, <1>6 DEF Virtual
  <2>2. CASE /\ \E lev2 : Tree(n, lev2, E, Root, 0)
             /\ ~ Unmapped(v).panic /\ Leaf(n, v) = Absent
             /\ \A w \in Virtual : w # v => Leaf(n, w) = Leaf(Now, w)
    <3>1. n \in Memory /\ n \in Loose
      BY <2>2, LooseIs DEF Tree
    <3>2. Now' = n /\ panicked' = "no"
      BY <1>1, <1>4, <2>2, <3>1, Becomes
    <3>3. Sound(n, {})
      BY <2>2, <3>1 DEF Sound
    <3>4. \A u \in Early : Leaf(n, u) = FrameOf[u]
      BY <1>3, <1>6, <2>2 DEF Virtual
    <3>5. Intact'
      BY <3>2, <3>4 DEF Intact
    <3> QED
      BY <1>1, <1>6, <2>2, <3>2, <3>3, <3>5 DEF Working
  <2>3. CASE Breaks(Unmapped(v), v, Now)
    <3>1. n \in Loose
      BY <1>4, <2>3 DEF Breaks, LooseCalls
    <3>2. Now' = n
      BY <1>1, <1>4, <3>1, Becomes
    <3>3. PICK u \in Early : Leaf(n, u) = Absent
      BY <1>4, <2>3 DEF Breaks
    <3>4. Leaf(n, u) # FrameOf[u] /\ u \in Early \ pending'
      BY <1>1, <3>3, Facts
    <3>5. ~ Intact'
      BY <3>2, <3>4 DEF Intact
    <3>6. Beside(Now, v)
      BY <2>3 DEF Breaks
    <3> QED
      BY <3>5, <3>6 DEF Working, LastBeside
  <2> QED
    BY <1>1, <1>2, <1>4, <2>1, <2>2, <2>3, UnmappedTree
<1> QED
  BY <1>5, <1>6

LEMMA Preserved ==
  ASSUME Invariant, [Next]_vars
  PROVE  Invariant'
<1>1. CASE UNCHANGED vars
  BY <1>1 DEF vars, Invariant, Working, Intact, Sound, Now
<1>2. CASE Next
  <2>1. CASE \E v \in Early : early_map(v)
    BY <2>1, EarlyStep DEF Invariant
  <2>2. CASE \E v \in Device \cup Early : map_page(v)
    BY <2>2, MapStep DEF Invariant
  <2>3. CASE \E v \in Anonymous : page_fault_handler(v)
    BY <2>3, FaultStep DEF Invariant
  <2>4. CASE \E v \in Released : unmap_page(v)
    BY <2>4, UnmapStep DEF Invariant
  <2> QED
    BY <1>2, <2>1, <2>2, <2>3, <2>4 DEF Next
<1> QED
  BY <1>1, <1>2

LEMMA IInvariant == Spec => []Invariant
<1>1. Invariant /\ [Next]_vars => Invariant'
  BY Preserved
<1> QED
  BY <1>1, InitSound, PTL DEF Spec

----------------------------------------------------------------------------
(* What follows from the invariant *)

\* What the properties call tables are the nodes of the ways to pages.
LEMMA TablesAre ==
  ASSUME NEW S
  PROVE  \A t : t \in TablesOf(S) <=>
                t # Absent /\ \E v \in S, k \in 1 .. 3 : t = Node(Now, v, k + 1)
<1>1. \A v : /\ Node(Now, v, 2) = Pdpt(Now, v) /\ Node(Now, v, 3) = Pd(Now, v)
             /\ Node(Now, v, 4) = Pt(Now, v)
  BY DEF Node, Table
<1>2. \A t : t \in TablesOf(S) <=>
        t # Absent /\ \E v \in S : t \in {Node(Now, v, 2), Node(Now, v, 3), Node(Now, v, 4)}
  <2> SUFFICES ASSUME NEW t
               PROVE  t \in TablesOf(S) <=> t # Absent /\ \E v \in S :
                        t \in {Node(Now, v, 2), Node(Now, v, 3), Node(Now, v, 4)}
    OBVIOUS
  <2>1. t \in TablesOf(S) <=> /\ t # Absent
          /\ t \in UNION {{Pdpt(Now, v), Pd(Now, v), Pt(Now, v)} : v \in S}
    BY DEF TablesOf
  <2>2. t \in UNION {{Pdpt(Now, v), Pd(Now, v), Pt(Now, v)} : v \in S}
        <=> \E v \in S : t \in {Pdpt(Now, v), Pd(Now, v), Pt(Now, v)}
    OBVIOUS
  <2> QED
    BY <1>1, <2>1, <2>2
<1>3. \A v, t : t \in {Node(Now, v, 2), Node(Now, v, 3), Node(Now, v, 4)}
                <=> \E k \in 1 .. 3 : t = Node(Now, v, k + 1)
  <2> SUFFICES ASSUME NEW v, NEW t
               PROVE  t \in {Node(Now, v, 2), Node(Now, v, 3), Node(Now, v, 4)}
                      <=> \E k \in 1 .. 3 : t = Node(Now, v, k + 1)
    OBVIOUS
  <2>1. \A k \in 1 .. 3 : k = 1 \/ k = 2 \/ k = 3
    OBVIOUS
  <2>2. 1 \in 1 .. 3 /\ 2 \in 1 .. 3 /\ 3 \in 1 .. 3 /\ 1 + 1 = 2 /\ 2 + 1 = 3 /\ 3 + 1 = 4
    OBVIOUS
  <2>3. \A k \in 1 .. 3 : k + 1 = 2 \/ k + 1 = 3 \/ k + 1 = 4
    OBVIOUS
  <2>4. ASSUME NEW k \in 1 .. 3, t = Node(Now, v, k + 1)
        PROVE  t \in {Node(Now, v, 2), Node(Now, v, 3), Node(Now, v, 4)}
    BY <2>3, <2>4
  <2>5. CASE t = Node(Now, v, 2)
    BY <2>2, <2>4, <2>5
  <2>6. CASE t = Node(Now, v, 3)
    BY <2>2, <2>4, <2>6
  <2>7. CASE t = Node(Now, v, 4)
    BY <2>2, <2>4, <2>7
  <2> QED
    BY <2>4, <2>5, <2>6, <2>7
<1> QED
  BY <1>2, <1>3

\* The tables without counts are those on the ways to early_map's pages.
LEMMA EarlyTablesAre ==
  ASSUME Working, NEW lev, NEW E, Tree(Now, lev, E, Root, 0),
         pending # {} => AllEarly(lev, E)
  PROVE  E \ {Root} = TablesOf(Early)
<1>1. PICK m : m = Now
  OBVIOUS
<1>2. /\ m \in Memory /\ Levels(m, lev) /\ Links(m, lev) /\ EarlyMade(m, lev, E)
      /\ Used(m, lev, Root) /\ Tree(m, lev, E, Root, 0)
  BY <1>1 DEF Tree
<1>3. ASSUME NEW t \in E, t # Root PROVE t \in TablesOf(Early)
  <2>1. t \in Ram /\ lev[t] \in 2 .. 4
    BY <1>2, <1>3 DEF EarlyMade, Levels
  <2>2. Filled(m, E)
    <3>1. \A u \in E : u \in Ram /\ (u # Root => lev[u] > 1)
      BY <1>2 DEF EarlyMade, Levels
    <3> QED
      BY <1>2, <3>1 DEF Used, Filled
  <2>3. PICK l \in 2 .. 4 : lev[t] = l
    BY <2>1
  <2>4. PICK u \in Early : Node(m, u, l) = t
    BY <1>2, <1>3, <2>2, <2>3, EarlyWay
  <2>5. PICK k \in 1 .. 3 : l = k + 1
    OBVIOUS
  <2>6. t = Node(Now, u, k + 1) /\ t # Absent
    BY <1>1, <2>1, <2>4, <2>5, Facts
  <2> QED
    BY <2>6, TablesAre
<1>4. ASSUME NEW t \in TablesOf(Early) PROVE t \in E /\ t # Root
  <2>1. PICK u \in Early, k \in 1 .. 3 : t = Node(m, u, k + 1) /\ t # Absent
    BY <1>1, <1>4, TablesAre
  <2>2. u \in Virtual /\ k + 1 \in 1 .. 4
    BY DEF Virtual
  <2>3. t \in Ram /\ lev[t] = k + 1
    BY <1>2, <2>1, <2>2, NodeLevels
  <2>4. t # Root
    BY <1>2, <2>3 DEF Levels
  <2>5. CASE pending # {}
    BY <2>3, <2>4, <2>5 DEF AllEarly
  <2>6. CASE pending = {}
    <3>1. Leaf(m, u) \in Uncounted /\ Leaf(m, u) # Absent
      BY <1>1, <2>6, Facts DEF Working, Intact, Uncounted
    <3>2. \A l \in 1 .. 4 : Node(m, u, l) = Absent => Node(m, u, l + 1) = Absent
      BY <1>2, <2>2, NodeLevels
    <3>3. Leaf(m, u) = Node(m, u, 5)
      BY NodeSteps
    <3>4. Node(m, u, 4) # Absent
      BY <3>1, <3>2, <3>3, 4 \in 1 .. 4, 4 + 1 = 5
    <3>5. Node(m, u, 3) # Absent
      BY <3>2, <3>4, 3 \in 1 .. 4, 3 + 1 = 4
    <3>6. Node(m, u, 2) # Absent
      BY <3>2, <3>5, 2 \in 1 .. 4, 2 + 1 = 3
    <3>7. \A l \in 2 .. 4 : Node(m, u, l) # Absent
      <4>1. \A l \in 2 .. 4 : l = 2 \/ l = 3 \/ l = 4
        OBVIOUS
      <4> QED
        BY <3>4, <3>5, <3>6, <4>1
    <3>8. \A l \in 2 .. 4 : /\ Node(m, u, l) \in Ram /\ lev[Node(m, u, l)] = l
                            /\ Node(m, u, l + 1) = m.entry[Node(m, u, l)][u[l]]
                            /\ u[l] \in Index
      <4>1. \A l \in 2 .. 4 : l \in 1 .. 4
        OBVIOUS
      <4> QED
        BY <1>2, <2>2, <3>7, <4>1, NodeLevels, Facts
    <3>9. Node(m, u, 4) \in E
      <4>1. PICK w : w = Node(m, u, 4)
        OBVIOUS
      <4>2. w \in Ram /\ lev[w] = 4 /\ m.entry[w][u[4]] \in Uncounted /\ u[4] \in Index
        BY <3>1, <3>3, <3>8, <4>1, 4 \in 2 .. 4, 4 + 1 = 5
      <4> QED
        BY <1>2, <4>1, <4>2 DEF EarlyMade
    <3>10. \A l \in 2 .. 3 : Node(m, u, l + 1) \in E => Node(m, u, l) \in E
      <4> SUFFICES ASSUME NEW l \in 2 .. 3, Node(m, u, l + 1) \in E
                   PROVE  Node(m, u, l) \in E
        OBVIOUS
      <4>1. PICK w : w = Node(m, u, l)
        OBVIOUS
      <4>2. l \in 2 .. 4
        OBVIOUS
      <4>3. w \in Ram /\ lev[w] = l /\ m.entry[w][u[l]] \in E /\ u[l] \in Index
        BY <3>8, <4>1, <4>2
      <4>4. lev[w] \in 1 .. 3
        BY <4>3
      <4> QED
        BY <1>2, <4>1, <4>3, <4>4 DEF EarlyMade
    <3>11. Node(m, u, 3) \in E
      BY <3>9, <3>10, 3 \in 2 .. 3, 3 + 1 = 4
    <3>12. Node(m, u, 2) \in E
      BY <3>10, <3>11, 2 \in 2 .. 3, 2 + 1 = 3
    <3>13. k + 1 = 2 \/ k + 1 = 3 \/ k + 1 = 4
      OBVIOUS
    <3> QED
      BY <2>1, <2>4, <3>9, <3>11, <3>12, <3>13
  <2> QED
    BY <2>5, <2>6
<1> QED
  BY <1>3, <1>4

LEMMA CountsAreExact == Invariant => CountsExact
<1> SUFFICES ASSUME Invariant, Working PROVE CountsExact
  BY DEF CountsExact
<1>1. PICK m : m = Now
  OBVIOUS
<1>2. PICK lev, E : Tree(m, lev, E, Root, 0) /\ (pending # {} => AllEarly(lev, E))
  BY <1>1 DEF Invariant, Sound
<1>3. /\ m \in Memory /\ Levels(m, lev) /\ Links(m, lev)
      /\ Counted(m, lev, E, Root, 0) /\ EarlyMade(m, lev, E)
  BY <1>2 DEF Tree
<1>4. m.entry = entry /\ m.refcount = refcount
  BY <1>1 DEF Now
<1>5. E \ {Root} = TablesOf(Early) /\ Root \in E
  BY <1>1, <1>2, <1>3, EarlyTablesAre DEF EarlyMade
<1>6. MadeEarly = TablesOf(Early) \cup Uncounted
  BY DEF MadeEarly, Uncounted
<1>7. ASSUME NEW t \in TablesOf(Virtual)
      PROVE  refcount[t] = Cardinality({i \in Present(t) : entry[t][i] \notin MadeEarly})
  <2>1. PICK v \in Virtual, k \in 1 .. 3 : t = Node(m, v, k + 1) /\ t # Absent
    BY <1>1, <1>7, TablesAre
  <2>2. k + 1 \in 1 .. 4
    OBVIOUS
  <2>3. t \in Ram /\ lev[t] > 1
    BY <1>3, <2>1, <2>2, NodeLevels
  <2>4. \A i \in Index : m.entry[t][i] # Root
    <3> SUFFICES ASSUME NEW i \in Index, m.entry[t][i] = Root PROVE FALSE
      OBVIOUS
    <3>1. Root # Absent /\ Root \in Ram /\ lev[Root] = 1 /\ lev[t] \in 0 .. 4
      BY <1>3, <2>3, Facts DEF Levels
    <3>2. CASE lev[t] \in 1 .. 3
      BY <1>3, <2>3, <3>1, <3>2 DEF Links
    <3>3. CASE lev[t] = 4
      BY <1>3, <2>3, <3>1, <3>3 DEF Links
    <3> QED
      BY <2>3, <3>1, <3>2, <3>3
  <2>5. Tally(m, t, E) = {i \in Present(t) : entry[t][i] \notin MadeEarly}
    <3>1. \A i \in Index : m.entry[t][i] \in E <=> m.entry[t][i] \in TablesOf(Early)
      BY <1>5, <2>4
    <3> QED
      BY <1>4, <1>6, <3>1 DEF Tally, Present
  <2>6. m.refcount[t] = Cardinality(Tally(m, t, E)) + 0
    BY <1>3, <2>3 DEF Counted
  <2>7. Cardinality(Tally(m, t, E)) \in Nat
    BY TallyCount
  <2> QED
    BY <1>4, <2>5, <2>6, <2>7
<1>8. ASSUME NEW v \in MappedPages \ Early
      PROVE  refcount[Leaf(Now, v)] = 1
  <2>1. v \in Anonymous \cup Device /\ Leaf(m, v) # Absent
    BY <1>1, <1>8 DEF MappedPages, Virtual
  <2>2. m.refcount[Leaf(m, v)] = 1
    BY <1>2, <2>1, LeafCount
  <2> QED
    BY <1>1, <1>4, <2>2
<1> QED
  BY <1>7, <1>8 DEF CountsExact

\* The entries that name tables are as many as the tables, since each names
\* another one.
LEMMA TablesAreInUse == Invariant => TablesInUse
<1> SUFFICES ASSUME Invariant, Working PROVE TablesInUse
  BY DEF TablesInUse
<1>1. PICK m : m = Now
  OBVIOUS
<1>2. PICK lev, E : Tree(m, lev, E, Root, 0)
  BY <1>1 DEF Invariant, Sound
<1>3. /\ m \in Memory /\ Levels(m, lev) /\ Links(m, lev) /\ OneName(m, lev)
      /\ Used(m, lev, Root)
  BY <1>2 DEF Tree
<1>4. m.entry = entry /\ m.free = free
  BY <1>1 DEF Now
<1> DEFINE tables == TablesOf(Virtual)
           links  == {l \in (tables \cup {Root}) \X Index : entry[l[1]][l[2]] \in tables}
           names  == [l \in links |-> entry[l[1]][l[2]]]
<1>5. ASSUME NEW t \in tables
      PROVE  \E v \in Virtual, k \in 1 .. 3 :
                t = Node(m, v, k + 1) /\ t # Absent /\ t \in Ram /\ lev[t] = k + 1
  <2>1. PICK v \in Virtual, k \in 1 .. 3 : t = Node(m, v, k + 1) /\ t # Absent
    BY <1>1, <1>5, TablesAre
  <2>2. k + 1 \in 1 .. 4
    OBVIOUS
  <2>3. t \in Ram /\ lev[t] = k + 1
    BY <1>3, <2>1, <2>2, NodeLevels
  <2> QED
    BY <2>1, <2>3
<1>6. \A t \in tables : t \in Ram /\ lev[t] > 1 /\ t # Absent
  BY <1>5
<1>7. \A t \in tables \cup {Root} : t \in Ram /\ lev[t] > 0
  <2>1. Root \in Ram /\ lev[Root] > 0
    BY <1>3, Facts DEF Levels
  <2>2. \A t \in tables : t \in Ram /\ lev[t] > 0
    BY <1>3, <1>6 DEF Levels
  <2> HIDE DEF tables
  <2> QED
    BY <2>1, <2>2
<1>8. \A t \in tables : \E u \in tables \cup {Root}, i \in Index : entry[u][i] = t
  <2> SUFFICES ASSUME NEW t \in tables
               PROVE  \E u \in tables \cup {Root}, i \in Index : entry[u][i] = t
    OBVIOUS
  <2>1. PICK v \in Virtual, k \in 1 .. 3 : t = Node(m, v, k + 1) /\ t # Absent
    BY <1>5
  <2>2. k \in 1 .. 4 /\ v[k] \in Index
    BY Facts
  <2>3. PICK u : u = Node(m, v, k)
    OBVIOUS
  <2>4. u # Absent /\ t = m.entry[u][v[k]]
    BY <1>3, <2>1, <2>2, <2>3, NodeLevels
  <2>5. u \in tables \cup {Root}
    <3>1. CASE k = 1
      BY <2>3, <3>1, NodeSteps
    <3>2. CASE k # 1
      <4>1. PICK j \in 1 .. 3 : j = k - 1 /\ k = j + 1
        BY <3>2
      <4> QED
        BY <1>1, <2>3, <2>4, <4>1, TablesAre
    <3> QED
      BY <3>1, <3>2
  <2> QED
    BY <1>4, <2>2, <2>4, <2>5
<1> HIDE DEF tables
<1>9. IsFiniteSet(tables) /\ IsFiniteSet(links)
  <2>1. IsFiniteSet(tables)
    <3>1. tables \in SUBSET Ram
      BY <1>6
    <3> QED
      BY <3>1, Facts, FS_Subset
  <2>2. IsFiniteSet((tables \cup {Root}) \X Index)
    BY <2>1, Facts, FS_Singleton, FS_Union, FS_Product
  <2>3. links \in SUBSET ((tables \cup {Root}) \X Index)
    OBVIOUS
  <2> HIDE DEF links
  <2> QED
    BY <2>1, <2>2, <2>3, FS_Subset
<1>10. names \in Injection(links, tables)
  <2>1. names \in [links -> tables]
    OBVIOUS
  <2>2. ASSUME NEW a \in links, NEW b \in links, names[a] = names[b] PROVE a = b
    <3>1. PICK t \in tables \cup {Root}, i \in Index : a = <<t, i>> /\ entry[t][i] \in tables
      BY <2>2
    <3>2. PICK u \in tables \cup {Root}, j \in Index : b = <<u, j>> /\ entry[u][j] \in tables
      BY <2>2
    <3>3. entry[t][i] = entry[u][j]
      BY <2>2, <3>1, <3>2
    <3>4. t \in Ram /\ u \in Ram /\ lev[t] > 0 /\ lev[u] > 0 /\ m.entry[t][i] # Absent
      BY <1>4, <1>6, <1>7, <3>1
    <3>5. t = u /\ i = j
      BY <1>3, <1>4, <3>3, <3>4 DEF OneName
    <3> QED
      BY <3>1, <3>2, <3>5
  <2> QED
    BY <2>1, <2>2 DEF Injection, IsInjective
<1>11. names \in Surjection(links, tables)
  <2>1. \A t \in tables : \E l \in links : names[l] = t
    <3> SUFFICES ASSUME NEW t \in tables PROVE \E l \in links : names[l] = t
      OBVIOUS
    <3>1. PICK u \in tables \cup {Root}, i \in Index : entry[u][i] = t
      BY <1>8
    <3>2. <<u, i>> \in links /\ names[<<u, i>>] = t
      BY <3>1
    <3> QED
      BY <3>2
  <2>2. names \in [links -> tables]
    OBVIOUS
  <2> QED
    BY <2>1, <2>2 DEF Surjection
<1> HIDE DEF links, names
<1>12. Cardinality(links) = Cardinality(tables)
  BY <1>9, <1>10, <1>11, FS_Bijection DEF ExistsBijection, Bijection
<1>13. ASSUME NEW t \in tables PROVE t \notin free /\ Present(t) # {}
  <2>1. t \in Ram /\ lev[t] > 1
    BY <1>6
  <2>2. t \notin free
    BY <1>3, <1>4, <2>1 DEF Levels
  <2>3. t # Root
    BY <1>3, <2>1 DEF Levels
  <2>4. Entries(m, t) # {}
    BY <1>3, <2>1, <2>3 DEF Used
  <2> QED
    BY <1>4, <2>2, <2>4 DEF Entries, Present
<1> QED
  BY <1>12, <1>13 DEF TablesInUse, tables, links

\* THEOREM: whatever is mapped, faulted in and unmapped in whatever order, the
\* counter of a table is the number of the entries that map_page made in it and
\* that of a mapped frame is 1, so that unmap_page frees a table of map_page when
\* its last entry goes and not before.
THEOREM ExactCounts == Spec => []CountsExact
BY IInvariant, CountsAreExact, PTL

\* THEOREM: the tables form a tree without empty branches: each is named by one
\* entry, is not free, and has an entry.
THEOREM TreeOfTables == Spec => []TablesInUse
BY IInvariant, TablesAreInUse, PTL

\* THEOREM: dec_page panics at a counter that is 0, and an early page is lost, only
\* in a call of unmap_page for a page of early_map or for the last of map_page's
\* pages below one of early_map's tables, as the calls of acpi.c do.
THEOREM NoUnderflow == Spec =>
  [][~ Working' => \E v \in Released : unmap_page(v) /\ LastBeside(v)]_vars
<1> DEFINE Called == \E v \in Released : unmap_page(v) /\ LastBeside(v)
<1>1. ASSUME Invariant, [Next]_vars PROVE [~ Working' => Called]_vars
  <2> SUFFICES ASSUME Next, ~ Working' PROVE Called
    BY <1>1
  <2>1. \E v \in Released : unmap_page(v)
    BY <1>1, EarlyStep, MapStep, FaultStep DEF Next
  <2>2. PICK v \in Released : unmap_page(v)
    BY <2>1
  <2>3. LastBeside(v)
    BY <1>1, <2>2, UnmapStep
  <2> QED
    BY <2>2, <2>3
<1> QED
  BY <1>1, IInvariant, PTL DEF Spec

----------------------------------------------------------------------------
(* The map of addresses *)

MapOf(m) == [v \in {w \in Virtual : Leaf(m, w) # Absent} \ Early |-> Leaf(m, v)]

LEMMA MapIs == map = MapOf(Now) /\ map' = MapOf(Now')
BY DEF map, MapOf, MappedPages

\* The pages of early_map are not in the abstract map.
LEMMA MapsNone ==
  ASSUME NEW m, NEW n, NEW v \in Early, NEW f, NowMaps(m, n, v, f)
  PROVE  MapOf(n) = MapOf(m)
<1> DEFINE D(k) == {w \in Virtual : Leaf(k, w) # Absent} \ Early
<1>1. D(n) = D(m) /\ \A w \in D(m) : Leaf(n, w) = Leaf(m, w)
  BY DEF NowMaps
<1>2. MapOf(n) = [w \in D(n) |-> Leaf(n, w)] /\ MapOf(m) = [w \in D(m) |-> Leaf(m, w)]
  BY DEF MapOf
<1> HIDE DEF D
<1> QED
  BY <1>1, <1>2

LEMMA MapsOne ==
  ASSUME NEW m, NEW n, NEW v \in Virtual \ Early, NEW f, f # Absent, NowMaps(m, n, v, f)
  PROVE  MapOf(n) = [w \in DOMAIN MapOf(m) \cup {v} |->
                       IF w = v THEN f ELSE MapOf(m)[w]]
<1> DEFINE D(k) == {w \in Virtual : Leaf(k, w) # Absent} \ Early
<1>1. \A k : DOMAIN MapOf(k) = D(k) /\ \A w \in D(k) : MapOf(k)[w] = Leaf(k, w)
  BY DEF MapOf
<1>2. /\ D(n) = D(m) \cup {v} /\ Leaf(n, v) = f
      /\ \A w \in D(n) : w # v => Leaf(n, w) = Leaf(m, w) /\ w \in D(m)
  BY DEF NowMaps
<1>3. MapOf(n) = [w \in D(n) |-> Leaf(n, w)]
  BY DEF MapOf
<1> HIDE DEF D
<1>4. MapOf(n) = [w \in D(m) \cup {v} |-> IF w = v THEN f ELSE MapOf(m)[w]]
  BY <1>1, <1>2, <1>3
<1> QED
  BY <1>1, <1>4

LEMMA UnmapsOne ==
  ASSUME NEW m, NEW n, NEW v \in Virtual \ Early, Leaf(m, v) # Absent, Leaf(n, v) = Absent,
         \A w \in Virtual : w # v => Leaf(n, w) = Leaf(m, w)
  PROVE  /\ v \in DOMAIN MapOf(m)
         /\ MapOf(n) = [w \in DOMAIN MapOf(m) \ {v} |-> MapOf(m)[w]]
<1> DEFINE D(k) == {w \in Virtual : Leaf(k, w) # Absent} \ Early
<1>1. \A k : DOMAIN MapOf(k) = D(k) /\ \A w \in D(k) : MapOf(k)[w] = Leaf(k, w)
  BY DEF MapOf
<1>2. /\ D(n) = D(m) \ {v} /\ v \in D(m)
      /\ \A w \in D(n) : Leaf(n, w) = Leaf(m, w) /\ w \in D(m)
  OBVIOUS
<1>3. MapOf(n) = [w \in D(n) |-> Leaf(n, w)]
  BY DEF MapOf
<1> HIDE DEF D
<1>4. MapOf(n) = [w \in D(m) \ {v} |-> MapOf(m)[w]]
  BY <1>1, <1>2, <1>3
<1> QED
  BY <1>1, <1>2, <1>4

LEMMA AbstractInit == Init => AM!Init
<1> SUFFICES ASSUME Init PROVE AM!Init
  OBVIOUS
<1>1. MappedPages \ Early = {}
  <2> SUFFICES ASSUME NEW v \in Virtual \ Early PROVE Leaf(Now, v) = Absent
    BY DEF MappedPages
  <2>1. Pdpt(Now, v) = Absent
    BY Facts DEF Init, Now, Pdpt, Empty, Virtual
  <2> QED
    BY <2>1 DEF Leaf, Pt, Pd, Entry
<1> QED
  BY <1>1 DEF AM!Init, map

\* A mapping of another page is one of the abstract map.
LEMMA MapsAbstractly ==
  ASSUME NEW v \in Virtual \ Early, NEW f \in Frame, NowMaps(Now, Now', v, f)
  PROVE  AM!Next
<1>1. PICK a, b : a = map /\ b = map'
  OBVIOUS
<1>2. b = [u \in DOMAIN a \cup {v} |-> IF u = v THEN f ELSE a[u]]
  <2>1. PICK m, n : m = Now /\ n = Now'
    OBVIOUS
  <2>2. a = MapOf(m) /\ b = MapOf(n)
    BY <1>1, <2>1, MapIs
  <2>3. MapOf(n) = [w \in DOMAIN MapOf(m) \cup {v} |->
                      IF w = v THEN f ELSE MapOf(m)[w]]
    <3>1. NowMaps(m, n, v, f) /\ f # Absent /\ v \in Virtual \ Early
      BY <2>1, Facts
    <3> QED
      BY ONLY <3>1, MapsOne
  <2> QED
    BY <2>2, <2>3
<1>3. AM!Map(v)
  BY <1>1, <1>2 DEF AM!Map, AM!Same
<1> QED
  BY <1>3 DEF AM!Next

\* early_map, and map_page for its pages, leave the abstract map alone.
LEMMA MapsEarly ==
  ASSUME NEW v \in Early, NEW f, NowMaps(Now, Now', v, f)
  PROVE  map' = map
BY MapIs, MapsNone

LEMMA AbstractStep ==
  ASSUME Invariant, [Next]_vars
  PROVE  [AM!Next \/ ~ Working']_map
<1>1. \A v \in Device \cup Early : FrameOf[v] \in Frame
  BY Facts
<1>2. \A v \in Anonymous \cup Device : v \in Virtual \ Early
  BY PagesAssumption DEF PagesAssumption, Virtual
<1>3. CASE UNCHANGED vars
  <2>1. Now' = Now
    BY <1>3 DEF vars, Now
  <2> QED
    BY <2>1, MapIs
<1>4. ASSUME NEW v \in Early, early_map(v) PROVE map' = map
  BY <1>4, EarlyStep, MapsEarly
<1>5. ASSUME NEW v \in Early, map_page(v) PROVE map' = map
  BY <1>5, MapStep, MapsEarly
<1>6. ASSUME NEW v \in Device, map_page(v) PROVE AM!Next
  BY <1>1, <1>2, <1>6, MapStep, MapsAbstractly
<1>7. ASSUME NEW v \in Anonymous, page_fault_handler(v) PROVE AM!Next
  BY <1>2, <1>7, FaultStep, MapsAbstractly
<1>8. ASSUME NEW v \in Released, unmap_page(v) PROVE AM!Next \/ ~ Working'
  <2>1. CASE ~ Working'
    BY <2>1
  <2>2. CASE Working'
    <3>1. /\ v \in Virtual \ Early /\ Leaf(Now, v) # Absent /\ Leaf(Now', v) = Absent
          /\ \A w \in Virtual : w # v => Leaf(Now', w) = Leaf(Now, w)
      BY <1>8, <2>2, UnmapStep, PagesAssumption DEF PagesAssumption
    <3>2. PICK a, b : a = map /\ b = map'
      OBVIOUS
    <3>3. v \in DOMAIN a /\ b = [w \in DOMAIN a \ {v} |-> a[w]]
      <4>1. PICK m, n : m = Now /\ n = Now'
        OBVIOUS
      <4>2. a = MapOf(m) /\ b = MapOf(n)
        BY <3>2, <4>1, MapIs
      <4>3. /\ Leaf(m, v) # Absent /\ Leaf(n, v) = Absent /\ v \in Virtual \ Early
            /\ \A w \in Virtual : w # v => Leaf(n, w) = Leaf(m, w)
        BY <3>1, <4>1
      <4> QED
        BY <4>2, <4>3, UnmapsOne
    <3>4. AM!Unmap(v)
      BY <3>2, <3>3 DEF AM!Unmap, AM!Same
    <3> QED
      BY <3>1, <3>4 DEF AM!Next
  <2> QED
    BY <2>1, <2>2
<1>9. CASE Next
  BY <1>4, <1>5, <1>6, <1>7, <1>8, <1>9 DEF Next
<1> QED
  BY <1>3, <1>9

\* THEOREM: with their tables made and freed underneath, map_page, the fault
\* handler and unmap_page implement the abstract map: each changes the page it
\* names and no other, and early_map none of theirs, until an early page is lost.
THEOREM Implements == Spec => ImplementsAddressMap
BY IInvariant, AbstractStep, AbstractInit, PTL DEF Spec, ImplementsAddressMap

=============================================================================
