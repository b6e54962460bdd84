--------------------------- MODULE EvidenceProofs ---------------------------
(***************************************************************************)
(* Proofs about the evidence of a bill: the proofs that an operator        *)
(* answers from its spend map (SpendMap), and the segments and bundles     *)
(* that a bill is verified with when its transfers are compacted           *)
(* (BillChain).                                                            *)
(*                                                                         *)
(* A tree of the spend map and a replay of transfers are recursive         *)
(* functions of a depth and of a position, so what is said of them is      *)
(* proved along: a set that has the first of them and with each one the    *)
(* next has them all.                                                      *)
(*                                                                         *)
(* Of BillChain everything only grows - the log, the claims, the tables,   *)
(* the announcements - and what verifies goes on to verify then; so the    *)
(* invariant has to hold of what a step adds alone (Kept).                 *)
(***************************************************************************)
EXTENDS SpendMap, BillChain, FiniteSetTheorems, WellFoundedInduction, SequenceTheorems, TLAPS

-----------------------------------------------------------------------------
(* Numbers *)

\* A set of naturals that is not empty has a least element.
LEMMA LeastNatural ==
    ASSUME NEW T, T \subseteq Nat, T # {}
    PROVE  \E x \in T : \A y \in T : x <= y
<1>1. PICK x \in T : \A y \in T : ~(<<y, x>> \in OpToRel(<, Nat))
  BY WFMin, NatLessThanWellFounded, Zenon
<1>2. \A y \in T : ~(y < x)
  BY <1>1 DEF OpToRel
<1> QED
  BY <1>2

\* What holds at the start and with each position at the next holds at all.
LEMMA Along ==
    ASSUME NEW a \in Int, NEW n \in Int, NEW P, a \in P, \A i \in a..n - 1 : i \in P => i + 1 \in P
    PROVE  a..n \subseteq P
<1> DEFINE T == {d \in Nat : a + d <= n /\ a + d \notin P}
<1> SUFFICES ASSUME NEW i \in a..n, i \notin P
             PROVE  FALSE
  OBVIOUS
<1>1. i - a \in T
  OBVIOUS
<1>2. PICK d \in T : \A e \in T : d <= e
  <2>1. T \subseteq Nat /\ T # {}
    BY <1>1
  <2> HIDE DEF T
  <2> QED
    BY <2>1, LeastNatural, Zenon
<1>3. d # 0 /\ d - 1 \notin T
  BY <1>2
<1>4. a + (d - 1) \in a..n - 1 /\ a + (d - 1) \in P
  BY <1>2, <1>3
<1> QED
  BY <1>2, <1>4

-----------------------------------------------------------------------------
(* Depths *)

\* From the root downwards.
LEMMA Downwards ==
    ASSUME NEW P, 0 \in P, \A d \in 0..Depth - 1 : d \in P => d + 1 \in P
    PROVE  0..Depth \subseteq P
<1> DEFINE T == {d \in 0..Depth : d \notin P}
<1> SUFFICES ASSUME T # {}
             PROVE  FALSE
  OBVIOUS
<1>1. T \subseteq Nat
  BY DepthAssumption
<1>2. PICK d \in T : \A e \in T : d <= e
  <2> HIDE DEF T
  <2> QED
    BY <1>1, LeastNatural, Zenon
<1>3. d - 1 \in 0..Depth - 1 /\ d - 1 \notin T
  BY <1>2, DepthAssumption
<1> QED
  BY <1>2, <1>3, DepthAssumption

\* From the slots upwards.
LEMMA Upwards ==
    ASSUME NEW P, Depth \in P, \A d \in 0..Depth - 1 : d + 1 \in P => d \in P
    PROVE  0..Depth \subseteq P
<1> DEFINE Q == {e \in 0..Depth : Depth - e \in P}
<1>1. 0 \in Q
  BY DepthAssumption
<1>2. ASSUME NEW e \in 0..Depth - 1, e \in Q
      PROVE  e + 1 \in Q
  <2>1. Depth - (e + 1) \in 0..Depth - 1 /\ (Depth - (e + 1)) + 1 = Depth - e
    BY DepthAssumption
  <2> QED
    BY <1>2, <2>1, DepthAssumption
<1>3. 0..Depth \subseteq Q
  <2> HIDE DEF Q
  <2> QED
    BY <1>1, <1>2, Downwards
<1> QED
  BY <1>3, DepthAssumption

-----------------------------------------------------------------------------
(* The recursive functions *)

\* The width of a level is what its definition says.
LEMMA WidthDef ==
    Width = [d \in 0..Depth |-> IF d = 0 THEN 1 ELSE 2 * Width[d - 1]]
<1> DEFINE P == {m \in 0..Depth : \E f : f = [d \in 0..m |-> IF d = 0 THEN 1 ELSE 2 * f[d - 1]]}
<1>1. 0 \in P
  <2> DEFINE f == [d \in 0..0 |-> 1]
  <2>1. f = [d \in 0..0 |-> IF d = 0 THEN 1 ELSE 2 * f[d - 1]]
    OBVIOUS
  <2> HIDE DEF f
  <2> QED
    BY <2>1, DepthAssumption
<1>2. ASSUME NEW m \in 0..Depth - 1, m \in P
      PROVE  m + 1 \in P
  <2>1. PICK f : f = [d \in 0..m |-> IF d = 0 THEN 1 ELSE 2 * f[d - 1]]
    BY <1>2
  <2> DEFINE g == [d \in 0..m + 1 |-> IF d = m + 1 THEN 2 * f[m] ELSE f[d]]
  <2>2. g = [d \in 0..m + 1 |-> IF d = 0 THEN 1 ELSE 2 * g[d - 1]]
    <3>1. ASSUME NEW d \in 0..m + 1
          PROVE  g[d] = IF d = 0 THEN 1 ELSE 2 * g[d - 1]
      BY <2>1, DepthAssumption
    <3> QED
      BY <3>1
  <2> HIDE DEF g
  <2> QED
    BY <2>2, DepthAssumption
<1>3. Depth \in P
  <2> HIDE DEF P
  <2> QED
    BY <1>1, <1>2, Downwards, DepthAssumption
<1> QED
  BY <1>3 DEF Width

\* A level has nodes, and twice those of the level above.
LEMMA WidthFacts ==
    /\ Width[0] = 1
    /\ \A d \in 0..Depth : Width[d] \in Nat /\ Width[d] > 0
    /\ \A d \in 0..Depth - 1 : Width[d + 1] = 2 * Width[d]
<1>1. /\ Width[0] = 1
      /\ \A d \in 0..Depth - 1 : Width[d + 1] = 2 * Width[d]
  BY WidthDef, DepthAssumption
<1>2. 0..Depth \subseteq {d \in 0..Depth : Width[d] \in Nat /\ Width[d] > 0}
  <2> DEFINE P == {d \in 0..Depth : Width[d] \in Nat /\ Width[d] > 0}
  <2>1. 0 \in P /\ \A d \in 0..Depth - 1 : d \in P => d + 1 \in P
    BY <1>1, DepthAssumption
  <2> HIDE DEF P
  <2> QED
    BY <2>1, Downwards DEF P
<1> QED
  BY <1>1, <1>2

\* The nodes over a key.
NodeOver(k, f) == [e \in 0..Depth |-> IF e = Depth THEN k ELSE f[e + 1] \div 2]

LEMMA AboveDef ==
    ASSUME NEW k
    PROVE  /\ Above(k, Depth) = k
           /\ \A d \in 0..Depth - 1 : Above(k, d) = Above(k, d + 1) \div 2
<1> DEFINE P == {m \in 0..Depth : \E f : f = [e \in m..Depth |-> IF e = Depth THEN k ELSE f[e + 1] \div 2]}
<1>1. Depth \in P
  <2> DEFINE f == [e \in Depth..Depth |-> k]
  <2>1. f = [e \in Depth..Depth |-> IF e = Depth THEN k ELSE f[e + 1] \div 2]
    BY DepthAssumption
  <2> HIDE DEF f
  <2> QED
    BY <2>1, DepthAssumption
<1>2. ASSUME NEW m \in 0..Depth - 1, m + 1 \in P
      PROVE  m \in P
  <2>1. PICK f : f = [e \in m + 1..Depth |-> IF e = Depth THEN k ELSE f[e + 1] \div 2]
    BY <1>2
  <2> DEFINE g == [e \in m..Depth |-> IF e = m THEN f[m + 1] \div 2 ELSE f[e]]
  <2>2. g = [e \in m..Depth |-> IF e = Depth THEN k ELSE g[e + 1] \div 2]
    <3>1. ASSUME NEW e \in m..Depth
          PROVE  g[e] = IF e = Depth THEN k ELSE g[e + 1] \div 2
      BY <2>1, DepthAssumption
    <3> QED
      BY <3>1
  <2> HIDE DEF g
  <2> QED
    BY <2>2, DepthAssumption
<1>3. 0 \in P
  <2> HIDE DEF P
  <2> QED
    BY <1>1, <1>2, Upwards, DepthAssumption
<1> DEFINE node == CHOOSE f : f = NodeOver(k, f)
<1>4. node = NodeOver(k, node)
  BY <1>3 DEF NodeOver
<1>5. \A d : Above(k, d) = node[d]
  BY DEF Above, NodeOver
<1>6. node[Depth] = k /\ \A d \in 0..Depth - 1 : node[d] = node[d + 1] \div 2
  <2> HIDE DEF node
  <2> QED
    BY <1>4, DepthAssumption DEF NodeOver
<1> HIDE DEF node
<1>7. Above(k, Depth) = node[Depth]
  BY <1>5
<1>8. ASSUME NEW d \in 0..Depth - 1
      PROVE  Above(k, d) = Above(k, d + 1) \div 2
  <2>1. Above(k, d) = node[d] /\ Above(k, d + 1) = node[d + 1]
    BY <1>5
  <2> QED
    BY <1>6, <2>1
<1> QED
  BY <1>6, <1>7, <1>8

\* The node over a slot is a node of its level.
LEMMA AboveType ==
    ASSUME NEW k \in Keys
    PROVE  \A d \in 0..Depth : Above(k, d) \in Positions(d)
<1> DEFINE P == {d \in 0..Depth : Above(k, d) \in Positions(d)}
<1>1. Depth \in P
  BY AboveDef, DepthAssumption DEF Keys
<1>2. ASSUME NEW d \in 0..Depth - 1, d + 1 \in P
      PROVE  d \in P
  <2>1. PICK w : w = Width[d]
    OBVIOUS
  <2>2. PICK a : a = Above(k, d + 1)
    OBVIOUS
  <2>3. w \in Nat /\ Width[d + 1] = 2 * w
    BY <2>1, WidthFacts, DepthAssumption
  <2>4. a \in 0..2 * w - 1
    BY <1>2, <2>2, <2>3 DEF Positions
  <2>5. a \div 2 \in 0..w - 1
    BY <2>3, <2>4
  <2>6. Above(k, d) = a \div 2
    BY <2>2, AboveDef
  <2> QED
    BY <2>1, <2>5, <2>6, DepthAssumption DEF Positions
<1> HIDE DEF P
<1>3. 0..Depth \subseteq P
  BY <1>1, <1>2, Upwards
<1> QED
  BY <1>3 DEF P

\* The lowest level holds the slots, each other one the branches over the one below.
Bottom(S) == [p \in Positions(Depth) |-> <<SlotOf(S, p)>>]
Over(d, below) == [p \in Positions(d) |-> Branch(below[2 * p], below[2 * p + 1])]

LEMMA LevelsDef ==
    ASSUME NEW S
    PROVE  /\ Levels(S) = [d \in 0..Depth |-> Levels(S)[d]]
           /\ Levels(S)[Depth] = Bottom(S)
           /\ \A d \in 0..Depth - 1 : Levels(S)[d] = Over(d, Levels(S)[d + 1])
<1> DEFINE Step(d, f) == IF d = Depth THEN Bottom(S) ELSE Over(d, f[d + 1])
           P == {m \in 0..Depth : \E f : f = [d \in m..Depth |-> Step(d, f)]}
<1>1. Depth \in P
  <2> DEFINE f == [d \in Depth..Depth |-> Bottom(S)]
  <2>1. f = [d \in Depth..Depth |-> Step(d, f)]
    BY DepthAssumption
  <2> HIDE DEF f
  <2> QED
    BY <2>1, DepthAssumption
<1>2. ASSUME NEW m \in 0..Depth - 1, m + 1 \in P
      PROVE  m \in P
  <2>1. PICK f : f = [d \in m + 1..Depth |-> Step(d, f)]
    BY <1>2
  <2> DEFINE g == [d \in m..Depth |-> IF d = m THEN Over(m, f[m + 1]) ELSE f[d]]
  <2>2. g = [d \in m..Depth |-> Step(d, g)]
    <3>1. ASSUME NEW d \in m..Depth
          PROVE  g[d] = Step(d, g)
      BY <2>1, DepthAssumption
    <3> QED
      BY <3>1
  <2> HIDE DEF g
  <2> QED
    BY <2>2, DepthAssumption
<1>3. 0 \in P
  <2> HIDE DEF P
  <2> QED
    BY <1>1, <1>2, Upwards, DepthAssumption
<1> DEFINE All(f) == [d \in 0..Depth |-> Step(d, f)]
           Code(f) == [d \in 0..Depth |-> [p \in Positions(d) |->
                        IF d = Depth THEN <<SlotOf(S, p)>>
                        ELSE Branch(f[d + 1][2 * p], f[d + 1][2 * p + 1])]]
<1>4. \A f : Code(f) = All(f)
  <2> SUFFICES ASSUME NEW f, NEW d \in 0..Depth
               PROVE  Code(f)[d] = Step(d, f)
    OBVIOUS
  <2>1. CASE d = Depth
    BY <2>1 DEF Bottom
  <2>2. CASE d # Depth
    BY <2>2 DEF Over
  <2> QED
    BY <2>1, <2>2
<1>5. Levels(S) = CHOOSE f : f = Code(f)
  BY DEF Levels
<1> HIDE DEF Code
<1>6. Levels(S) = All(Levels(S))
  BY <1>3, <1>4, <1>5
<1> QED
  BY <1>6, DepthAssumption

\* The hashes over a slot, each made of the one below and its sibling.
LEMMA ClimbDef ==
    ASSUME NEW k, NEW slot, NEW siblings
    PROVE  LET up == Climb(k, slot, siblings) IN
           /\ up[Depth] = <<slot>>
           /\ \A d \in 0..Depth - 1 :
                 up[d] = IF Above(k, d + 1) % 2 = 0 THEN Branch(up[d + 1], siblings[d + 1])
                         ELSE Branch(siblings[d + 1], up[d + 1])
<1> DEFINE Step(d, f) == IF d = Depth THEN <<slot>>
                         ELSE IF Above(k, d + 1) % 2 = 0 THEN Branch(f[d + 1], siblings[d + 1])
                         ELSE Branch(siblings[d + 1], f[d + 1])
           P == {m \in 0..Depth : \E f : f = [d \in m..Depth |-> Step(d, f)]}
           All(f) == [d \in 0..Depth |-> Step(d, f)]
<1>1. Depth \in P
  <2> DEFINE f == [d \in Depth..Depth |-> <<slot>>]
  <2>1. f = [d \in Depth..Depth |-> Step(d, f)]
    BY DepthAssumption
  <2> HIDE DEF f
  <2> QED
    BY <2>1, DepthAssumption
<1>2. ASSUME NEW m \in 0..Depth - 1, m + 1 \in P
      PROVE  m \in P
  <2>1. PICK f : f = [d \in m + 1..Depth |-> Step(d, f)]
    BY <1>2
  <2> DEFINE g == [d \in m..Depth |-> IF d = m THEN Step(m, f) ELSE f[d]]
  <2>2. g = [d \in m..Depth |-> Step(d, g)]
    <3>1. ASSUME NEW d \in m..Depth
          PROVE  g[d] = Step(d, g)
      <4>1. CASE d = m
        BY <4>1, <2>1, DepthAssumption
      <4>2. CASE d # m
        BY <4>2, <2>1, DepthAssumption
      <4> QED
        BY <4>1, <4>2
    <3> QED
      BY <3>1
  <2> HIDE DEF g
  <2> QED
    BY <2>2, DepthAssumption
<1>3. 0 \in P
  <2> HIDE DEF P
  <2> QED
    BY <1>1, <1>2, Upwards, DepthAssumption
<1>4. Climb(k, slot, siblings) = All(Climb(k, slot, siblings))
  <2>1. Climb(k, slot, siblings) = CHOOSE f : f = All(f)
    BY DEF Climb
  <2> QED
    BY <1>3, <2>1
<1> QED
  BY <1>4, DepthAssumption

-----------------------------------------------------------------------------
(* One path *)

\* What is at a position of a level.
LEMMA NodeIs ==
    ASSUME NEW S
    PROVE  /\ \A p \in Keys : Levels(S)[Depth][p] = <<SlotOf(S, p)>>
           /\ \A d \in 0..Depth - 1 : \A p \in Positions(d) :
                 Levels(S)[d][p] = Branch(Levels(S)[d + 1][2 * p], Levels(S)[d + 1][2 * p + 1])
<1>1. \A p \in Keys : Levels(S)[Depth][p] = <<SlotOf(S, p)>>
  <2>1. Levels(S)[Depth] = Bottom(S)
    BY LevelsDef
  <2> QED
    BY <2>1 DEF Bottom, Keys
<1>2. ASSUME NEW d \in 0..Depth - 1, NEW p \in Positions(d)
      PROVE  Levels(S)[d][p] = Branch(Levels(S)[d + 1][2 * p], Levels(S)[d + 1][2 * p + 1])
  <2>1. Levels(S)[d] = Over(d, Levels(S)[d + 1])
    BY LevelsDef
  <2> QED
    BY <2>1 DEF Over
<1> QED
  BY <1>1, <1>2

\* A level is a function on its positions.
LEMMA LevelType ==
    ASSUME NEW S, NEW d \in 0..Depth
    PROVE  Levels(S)[d] = [p \in Positions(d) |-> Levels(S)[d][p]]
<1>1. CASE d = Depth
  <2>1. Levels(S)[Depth] = Bottom(S)
    BY LevelsDef
  <2> QED
    BY <1>1, <2>1 DEF Bottom
<1>2. CASE d # Depth
  <2>1. Levels(S)[d] = Over(d, Levels(S)[d + 1])
    BY <1>2, LevelsDef, DepthAssumption
  <2> QED
    BY <2>1 DEF Over
<1> QED
  BY <1>1, <1>2

\* A key whose slot changes changes the nodes over it and no other, and those are where
\* the climb passes that starts at the new slot and takes the old siblings
\* (_update_current_spend_map_path).
LEMMA OnePath ==
    ASSUME NEW S, NEW T, NEW k \in Keys,
           \A j \in Keys : j # k => SlotOf(T, j) = SlotOf(S, j)
    PROVE  LET up == Climb(k, SlotOf(T, k), SiblingsOf(Levels(S), k)) IN
           \A d \in 0..Depth : \A p \in Positions(d) :
              Levels(T)[d][p] = IF p = Above(k, d) THEN up[d] ELSE Levels(S)[d][p]
<1>1. PICK old : old = Levels(S)
  OBVIOUS
<1>2. PICK new : new = Levels(T)
  OBVIOUS
<1>3. PICK up : up = Climb(k, SlotOf(T, k), SiblingsOf(old, k))
  OBVIOUS
<1> DEFINE Good(d) == \A p \in Positions(d) : new[d][p] = IF p = Above(k, d) THEN up[d] ELSE old[d][p]
           P == {d \in 0..Depth : Good(d)}
<1>4. Good(Depth)
  <2>1. up[Depth] = <<SlotOf(T, k)>> /\ Above(k, Depth) = k
    BY <1>3, ClimbDef, AboveDef
  <2>2. \A p \in Keys : new[Depth][p] = <<SlotOf(T, p)>> /\ old[Depth][p] = <<SlotOf(S, p)>>
    BY <1>1, <1>2, NodeIs
  <2> QED
    BY <2>1, <2>2 DEF Keys
<1>5. ASSUME NEW d \in 0..Depth - 1, Good(d + 1)
      PROVE  Good(d)
  <2>1. PICK a : a = Above(k, d + 1)
    OBVIOUS
  <2>2. PICK w : w = Width[d]
    OBVIOUS
  <2>3. w \in Nat /\ Width[d + 1] = 2 * w /\ d + 1 \in 1..Depth
    BY <2>2, WidthFacts, DepthAssumption
  <2>4. a \in 0..2 * w - 1
    BY <2>1, <2>3, AboveType, DepthAssumption DEF Positions
  <2>5. Above(k, d) = a \div 2
    BY <2>1, AboveDef
  <2>6. up[d] = IF a % 2 = 0 THEN Branch(up[d + 1], old[d + 1][Sibling(a)])
                ELSE Branch(old[d + 1][Sibling(a)], up[d + 1])
    <3>1. SiblingsOf(old, k)[d + 1] = old[d + 1][Sibling(a)]
      BY <2>1, <2>3 DEF SiblingsOf
    <3>2. up[d] = IF a % 2 = 0 THEN Branch(up[d + 1], SiblingsOf(old, k)[d + 1])
                  ELSE Branch(SiblingsOf(old, k)[d + 1], up[d + 1])
      BY <1>3, <2>1, ClimbDef
    <3> QED
      BY <3>1, <3>2
  <2>7. ASSUME NEW p \in Positions(d)
        PROVE  new[d][p] = IF p = a \div 2 THEN up[d] ELSE old[d][p]
    <3>1. /\ p \in Nat /\ 2 * p \in Positions(d + 1) /\ 2 * p + 1 \in Positions(d + 1)
          /\ p = a \div 2 <=> a = 2 * p \/ a = 2 * p + 1
      BY <2>2, <2>3, <2>4, <2>7 DEF Positions
    <3>2. /\ new[d][p] = Branch(new[d + 1][2 * p], new[d + 1][2 * p + 1])
          /\ old[d][p] = Branch(old[d + 1][2 * p], old[d + 1][2 * p + 1])
      BY <1>1, <1>2, NodeIs
    <3>3. \A q \in Positions(d + 1) : new[d + 1][q] = IF q = a THEN up[d + 1] ELSE old[d + 1][q]
      BY <1>5, <2>1
    <3>4. CASE a = 2 * p
      <4>1. a % 2 = 0 /\ Sibling(a) = 2 * p + 1 /\ a # 2 * p + 1
        BY <3>1, <3>4 DEF Sibling
      <4> QED
        BY <2>6, <3>1, <3>2, <3>3, <3>4, <4>1
    <3>5. CASE a = 2 * p + 1
      <4>1. a % 2 # 0 /\ Sibling(a) = 2 * p /\ a # 2 * p
        BY <3>1, <3>5 DEF Sibling
      <4> QED
        BY <2>6, <3>1, <3>2, <3>3, <3>5, <4>1
    <3>6. CASE a # 2 * p /\ a # 2 * p + 1
      BY <3>1, <3>2, <3>3, <3>6
    <3> QED
      BY <3>4, <3>5, <3>6
  <2> QED
    BY <2>5, <2>7
<1>6. 0..Depth \subseteq P
  <2>1. Depth \in P /\ \A d \in 0..Depth - 1 : d + 1 \in P => d \in P
    BY <1>4, <1>5, DepthAssumption
  <2> HIDE DEF P
  <2> QED
    BY <2>1, Upwards
<1> QED
  BY <1>1, <1>2, <1>3, <1>6

\* The climb from a slot with the siblings of a tree passes through the nodes of the tree.
LEMMA ClimbThrough ==
    ASSUME NEW S, NEW k \in Keys
    PROVE  Climb(k, SlotOf(S, k), SiblingsOf(Levels(S), k))[0] = Root(Levels(S))
<1>1. Above(k, 0) = 0
  BY AboveType, WidthFacts, DepthAssumption DEF Positions
<1>2. 0 \in Positions(0) /\ 0 \in 0..Depth
  BY WidthFacts, DepthAssumption DEF Positions
<1> QED
  BY <1>1, <1>2, OnePath DEF Root

\* The path of a new claim makes the tree over the claims with it.
LEMMA PathUpdates ==
    ASSUME NEW S, NEW c \in Claims, NEW now, now = Rebuilt(S)
    PROVE  WithPath([now EXCEPT !.claims = S \cup {c}], KeyOf[c]) = Rebuilt(S \cup {c})
<1>1. PICK k : k = KeyOf[c]
  OBVIOUS
<1>2. PICK T : T = S \cup {c}
  OBVIOUS
<1>3. k \in Keys
  BY <1>1, KeyAssumption
<1>4. \A j \in Keys : j # k => SlotOf(T, j) = SlotOf(S, j)
  BY <1>1, <1>2 DEF SlotOf
<1>5. PICK old : old = Levels(S)
  OBVIOUS
<1>6. PICK up : up = Climb(k, SlotOf(T, k), SiblingsOf(old, k))
  OBVIOUS
<1> DEFINE nodes == [d \in 0..Depth |-> [old[d] EXCEPT ![Above(k, d)] = up[d]]]
<1>7. nodes = Levels(T)
  <2>1. ASSUME NEW d \in 0..Depth
        PROVE  Levels(T)[d] = [old[d] EXCEPT ![Above(k, d)] = up[d]]
    <3>1. /\ Levels(T)[d] = [p \in Positions(d) |-> Levels(T)[d][p]]
          /\ old[d] = [p \in Positions(d) |-> old[d][p]]
      BY <1>5, LevelType
    <3>2. \A p \in Positions(d) : Levels(T)[d][p] = IF p = Above(k, d) THEN up[d] ELSE old[d][p]
      BY <1>3, <1>4, <1>5, <1>6, OnePath
    <3> HIDE DEF nodes
    <3> QED
      BY <3>1, <3>2
  <2>2. Levels(T) = [d \in 0..Depth |-> Levels(T)[d]]
    BY LevelsDef
  <2> QED
    BY <2>1, <2>2
<1>8. WithPath([now EXCEPT !.claims = T], k)
        = [claims |-> T, nodes |-> nodes, root |-> Root(nodes), count |-> Cardinality(T)]
  <2>1. PICK root, count : now = [claims |-> S, nodes |-> old, root |-> root, count |-> count]
    BY <1>5 DEF Rebuilt
  <2>2. [now EXCEPT !.claims = T] = [claims |-> T, nodes |-> old, root |-> root, count |-> count]
    BY <2>1
  <2> HIDE DEF nodes
  <2>3. WithPath([now EXCEPT !.claims = T], k)
          = [[now EXCEPT !.claims = T] EXCEPT !.nodes = nodes, !.root = Root(nodes), !.count = Cardinality(T)]
    BY <1>6, <2>2 DEF WithPath, nodes
  <2> QED
    BY <2>2, <2>3
<1> HIDE DEF nodes
<1> QED
  BY <1>1, <1>2, <1>7, <1>8 DEF Rebuilt

-----------------------------------------------------------------------------
(* The compressed form *)

\* What a proof looks like; its path has a hash for each depth.
Formed(proof) ==
    /\ proof = [key |-> proof.key, size |-> proof.size, count |-> proof.count,
                slot |-> proof.slot, path |-> proof.path]
    /\ proof.path = [d \in 1..Depth |-> proof.path[d]]

\* Counted from the deepest, each depth of a set has a place of its own and every place is
\* taken.
Rank(K, d) == Cardinality({e \in K : e >= d})

LEMMA RankFacts ==
    ASSUME NEW K \in SUBSET (1..Depth)
    PROVE  /\ Cardinality(K) \in Nat
           /\ \A d \in K : Rank(K, d) \in 1..Cardinality(K)
           /\ \A d \in K : \A e \in K : d < e => Rank(K, e) < Rank(K, d)
           /\ \A i \in 1..Cardinality(K) : \E d \in K : Rank(K, d) = i
<1> DEFINE From(d) == {e \in K : e >= d}
<1>1. IsFiniteSet(K) /\ Cardinality(K) \in Nat
  <2>1. IsFiniteSet(1..Depth)
    BY FS_Interval, DepthAssumption
  <2> QED
    BY <2>1, FS_Subset, FS_CardinalityType
<1>2. ASSUME NEW d \in K
      PROVE  IsFiniteSet(From(d)) /\ Cardinality(From(d)) \in 1..Cardinality(K)
  <2>1. From(d) \in SUBSET K /\ From(d) # {}
    BY <1>2, DepthAssumption
  <2> HIDE DEF From
  <2>2. IsFiniteSet(From(d)) /\ Cardinality(From(d)) <= Cardinality(K)
    BY <1>1, <2>1, FS_Subset
  <2>3. Cardinality(From(d)) \in Nat /\ Cardinality(From(d)) # 0
    BY <2>1, <2>2, FS_CardinalityType, FS_EmptySet
  <2> QED
    BY <1>1, <2>2, <2>3
<1>3. ASSUME NEW d \in K, NEW e \in K, d < e
      PROVE  Cardinality(From(e)) < Cardinality(From(d))
  <2>1. From(e) \in SUBSET From(d) /\ From(e) # From(d)
    <3>1. d \in From(d) /\ d \notin From(e) /\ \A x \in K : x >= e => x >= d
      BY <1>3, DepthAssumption
    <3> QED
      BY <3>1
  <2>2. /\ Cardinality(From(d)) \in Nat /\ Cardinality(From(e)) \in Nat
        /\ IsFiniteSet(From(d))
    BY <1>1, <1>2
  <2> HIDE DEF From
  <2> QED
    BY <2>1, <2>2, FS_Subset
<1> DEFINE f == [d \in K |-> Cardinality(From(d))]
<1>4. f \in Injection(K, 1..Cardinality(K))
  <2>1. f \in [K -> 1..Cardinality(K)]
    BY <1>2
  <2>2. ASSUME NEW d \in K, NEW e \in K, f[d] = f[e]
        PROVE  d = e
    <3>1. d \in Int /\ e \in Int /\ Cardinality(From(d)) = Cardinality(From(e))
      BY <2>2, DepthAssumption
    <3>2. Cardinality(From(d)) \in Nat /\ Cardinality(From(e)) \in Nat
      BY <1>1, <1>2
    <3> HIDE DEF From
    <3> QED
      BY <1>3, <3>1, <3>2
  <2> QED
    BY <2>1, <2>2 DEF Injection, IsInjective
<1>5. f \in Surjection(K, 1..Cardinality(K))
  <2>1. IsFiniteSet(1..Cardinality(K)) /\ Cardinality(1..Cardinality(K)) = Cardinality(K)
    BY <1>1, FS_Interval
  <2> HIDE DEF f
  <2> QED
    BY <1>4, <2>1, FS_Injection
<1>6. \A i \in 1..Cardinality(K) : \E d \in K : Cardinality(From(d)) = i
  BY <1>5 DEF Surjection
<1> QED
  BY <1>1, <1>2, <1>3, <1>6 DEF Rank

\* The depth at a place.
Nth(K, i) == CHOOSE d \in K : Rank(K, d) = i

LEMMA NthFacts ==
    ASSUME NEW K \in SUBSET (1..Depth)
    PROVE  /\ \A i \in 1..Cardinality(K) : Nth(K, i) \in K /\ Rank(K, Nth(K, i)) = i
           /\ \A d \in K : Nth(K, Rank(K, d)) = d
           /\ \A i, j \in 1..Cardinality(K) : i < j => Nth(K, j) < Nth(K, i)
<1>1. ASSUME NEW i \in 1..Cardinality(K)
      PROVE  Nth(K, i) \in K /\ Rank(K, Nth(K, i)) = i
  BY RankFacts DEF Nth
<1>2. ASSUME NEW d \in K, NEW e \in K, Rank(K, d) <= Rank(K, e)
      PROVE  e <= d
  <2>1. Rank(K, d) \in Nat /\ Rank(K, e) \in Nat /\ d \in Int /\ e \in Int
    BY RankFacts, DepthAssumption
  <2>2. d < e => Rank(K, e) < Rank(K, d)
    BY RankFacts
  <2> QED
    BY <1>2, <2>1, <2>2
<1>3. ASSUME NEW d \in K
      PROVE  Nth(K, Rank(K, d)) = d
  <2>1. PICK e : e = Nth(K, Rank(K, d))
    OBVIOUS
  <2>2. Rank(K, d) \in 1..Cardinality(K)
    BY RankFacts
  <2>3. e \in K /\ Rank(K, e) = Rank(K, d)
    BY <1>1, <2>1, <2>2
  <2>4. e <= d /\ d <= e /\ d \in Int /\ e \in Int
    BY <1>2, <2>2, <2>3, DepthAssumption
  <2> QED
    BY <2>1, <2>4
<1>4. ASSUME NEW i \in 1..Cardinality(K), NEW j \in 1..Cardinality(K), i < j
      PROVE  Nth(K, j) < Nth(K, i)
  <2>1. PICK d \in K, e \in K : d = Nth(K, i) /\ e = Nth(K, j) /\ Rank(K, d) = i /\ Rank(K, e) = j
    BY <1>1
  <2>2. e <= d /\ d \in Int /\ e \in Int /\ d # e
    BY <1>2, <1>4, <2>1, DepthAssumption, RankFacts
  <2> QED
    BY <2>1, <2>2
<1> QED
  BY <1>1, <1>3, <1>4

\* The depths whose siblings travel, and what is made of them.
Travels(proof) == {d \in 1..Depth : proof.path[d] # Empty(d)}

LEMMA CompressedIs ==
    ASSUME NEW proof
    PROVE  LET K == Travels(proof) IN
           Compressed(proof) = [proof EXCEPT !.path = [i \in 1..Cardinality(K) |->
                [depth |-> Nth(K, i), hash |-> proof.path[Nth(K, i)],
                 right |-> Above(proof.key, Nth(K, i)) % 2 = 0]]]
  BY DEF Compressed, Travels, Nth, Rank

\* A proof that was compressed is accepted and expands to itself
\* (compress_spend_map_proof, expand_compressed_spend_map_proof).
LEMMA RoundTrip ==
    ASSUME NEW proof, Formed(proof)
    PROVE  Expandable(Compressed(proof)) /\ Expanded(Compressed(proof)) = proof
<1>1. PICK K \in SUBSET (1..Depth) : K = Travels(proof)
  BY DEF Travels
<1>2. Cardinality(K) \in Nat
  BY RankFacts
<1> DEFINE step(i) == [depth |-> Nth(K, i), hash |-> proof.path[Nth(K, i)],
                       right |-> Above(proof.key, Nth(K, i)) % 2 = 0]
           short == [i \in 1..Cardinality(K) |-> step(i)]
<1>3. PICK c : c = Compressed(proof)
  OBVIOUS
<1>4. c = [proof EXCEPT !.path = short]
  BY <1>1, <1>3, CompressedIs
<1>5. c = [key |-> proof.key, size |-> proof.size, count |-> proof.count,
           slot |-> proof.slot, path |-> short]
  <2> HIDE DEF short
  <2> QED
    BY <1>4 DEF Formed
<1>6. c.path = short /\ c.key = proof.key
  <2> HIDE DEF short
  <2> QED
    BY <1>5
<1>7. DOMAIN c.path = 1..Cardinality(K)
  BY <1>6
<1>8. \A i \in 1..Cardinality(K) : c.path[i] = step(i)
  BY <1>6
<1> HIDE DEF short
<1>9. ASSUME NEW i \in 1..Cardinality(K)
      PROVE  /\ c.path[i].depth = Nth(K, i) /\ c.path[i].hash = proof.path[Nth(K, i)]
             /\ c.path[i].right <=> Above(c.key, c.path[i].depth) % 2 = 0
  <2>1. PICK n : n = Nth(K, i)
    OBVIOUS
  <2>2. PICK right \in BOOLEAN : right <=> Above(proof.key, n) % 2 = 0
    OBVIOUS
  <2>3. right = (Above(proof.key, n) % 2 = 0)
    BY <2>2, Zenon
  <2>4. c.path[i] = [depth |-> n, hash |-> proof.path[n], right |-> right]
    BY <1>8, <2>1, <2>3, Zenon
  <2> QED
    BY <1>6, <2>1, <2>2, <2>4
<1>10. Expandable(c)
  <2>1. ASSUME NEW i \in 1..Cardinality(K)
        PROVE  /\ c.path[i].depth \in 1..Depth
               /\ c.path[i].hash # Empty(c.path[i].depth)
               /\ i > 1 => c.path[i].depth < c.path[i - 1].depth
    <3>1. Nth(K, i) \in K
      BY NthFacts
    <3>2. CASE i > 1
      <4>1. i - 1 \in 1..Cardinality(K) /\ i - 1 < i
        BY <1>2, <3>2
      <4>2. Nth(K, i) < Nth(K, i - 1)
        BY <4>1, NthFacts
      <4> QED
        BY <1>1, <1>9, <3>1, <4>1, <4>2 DEF Travels
    <3> QED
      BY <1>1, <1>9, <3>1, <3>2 DEF Travels
  <2> QED
    BY <1>7, <1>9, <2>1 DEF Expandable
<1> DEFINE long == [d \in 1..Depth |->
        IF \E i \in DOMAIN c.path : c.path[i].depth = d
        THEN c.path[CHOOSE i \in DOMAIN c.path : c.path[i].depth = d].hash
        ELSE Empty(d)]
<1>11. ASSUME NEW d \in 1..Depth
       PROVE  long[d] = proof.path[d]
  <2>1. CASE d \in K
    <3>1. Rank(K, d) \in DOMAIN c.path /\ c.path[Rank(K, d)].depth = d
      <4>1. Rank(K, d) \in 1..Cardinality(K) /\ Nth(K, Rank(K, d)) = d
        BY <2>1, RankFacts, NthFacts
      <4> QED
        BY <1>7, <1>9, <4>1
    <3>2. PICK i \in DOMAIN c.path : /\ i = CHOOSE j \in DOMAIN c.path : c.path[j].depth = d
                                     /\ c.path[i].depth = d
      BY <3>1
    <3>3. c.path[i].hash = proof.path[d]
      BY <1>7, <1>9, <3>2
    <3> QED
      BY <3>1, <3>2, <3>3
  <2>2. CASE d \notin K
    <3>1. ~ \E i \in DOMAIN c.path : c.path[i].depth = d
      BY <1>7, <1>9, <2>2, NthFacts
    <3> QED
      BY <1>1, <2>2, <3>1 DEF Travels
  <2> QED
    BY <2>1, <2>2
<1>12. long = proof.path
  BY <1>11 DEF Formed
<1>13. Expanded(c) = [c EXCEPT !.path = long]
  BY DEF Expanded
<1> HIDE DEF long
<1>14. Expanded(c) = proof
  <2>1. Expanded(c) = [key |-> proof.key, size |-> proof.size, count |-> proof.count,
                       slot |-> proof.slot, path |-> proof.path]
    BY <1>5, <1>12, <1>13
  <2> QED
    BY <2>1 DEF Formed
<1> QED
  BY <1>3, <1>10, <1>14

-----------------------------------------------------------------------------
(* The invariant *)

Threads == Handlers \cup {Publisher}

\* A transfer has one leaf.
Distinct == \A i, j \in DOMAIN log : log[i] = log[j] => i = j

CacheHeld ==
    /\ cache.claims \in SUBSET Claims /\ IsFiniteSet(cache.claims) /\ cache.count \in Nat
    /\ CacheIsATree

\* What a thread holds: a key, a size of the log and claims it read.
Held(t) ==
    /\ t = [stage |-> t.stage, key |-> t.key, size |-> t.size, meta |-> t.meta, rows |-> t.rows,
            proof |-> t.proof, again |-> t.again, against |-> t.against]
    /\ t.key \in Keys /\ t.size \in 0..Len(log)
    /\ t.rows \in SUBSET Claims /\ IsFiniteSet(t.rows)

\* A root is kept under its size.
Sized == \A n \in DOMAIN newest : newest[n] # Nothing => newest[n].size = n

\* A request is about a size of the log, with a root of that size and a whole proof.
Asked(t) ==
    /\ t.stage # "idle" => t.size \in DOMAIN newest
    /\ t.against # Nothing => t.against.size = t.size
    /\ t.stage \in {"siblings", "check", "reply"} => Formed(t.proof)

Upheld(t) ==
    t.stage = "reply" /\ t.against # Nothing /\ Complete(t.against) => Verifies(t.proof, t.against)

SpendMapInv ==
    /\ log \in Seq(Claims) /\ Distinct /\ appends \in 0..MaxAppends
    /\ CacheHeld
    /\ thread = [x \in Threads |-> thread[x]] /\ \A x \in Threads : Held(thread[x])
    /\ Sized
    /\ \A h \in Handlers : Asked(thread[h]) /\ Upheld(thread[h])

\* The claims of a part of the log are finitely many, as many as its leaves.
LEMMA PartOfLog ==
    ASSUME log \in Seq(Claims), NEW n \in 0..Len(log)
    PROVE  LET S == {log[i] : i \in 1..n} IN
           S \in SUBSET Claims /\ IsFiniteSet(S) /\ (Distinct => Cardinality(S) = n)
<1> DEFINE S == {log[i] : i \in 1..n}
           f == [i \in 1..n |-> log[i]]
<1>1. f \in Surjection(1..n, S)
  BY DEF Surjection
<1>2. IsFiniteSet(1..n) /\ Cardinality(1..n) = n
  BY FS_Interval
<1>3. IsFiniteSet(S)
  <2> HIDE DEF S, f
  <2> QED
    BY <1>1, <1>2, FS_Surjection
<1>4. Distinct => f \in Injection(1..n, S)
  BY DEF Distinct, Injection, IsInjective
<1>5. Distinct => Cardinality(S) = n
  <2> HIDE DEF S, f
  <2> QED
    BY <1>1, <1>2, <1>4, FS_Surjection
<1> QED
  BY <1>3, <1>5

LEMMA LoggedPart ==
    ASSUME log \in Seq(Claims)
    PROVE  Logged \in SUBSET Claims /\ IsFiniteSet(Logged)
<1>1. Logged = {log[i] : i \in 1..Len(log)}
  BY DEF Logged
<1>2. Len(log) \in 0..Len(log)
  OBVIOUS
<1> QED
  BY <1>1, <1>2, PartOfLog

\* An answer from the history of a size is right for a root that commits to the claims of
\* that size (spend_map_proof of an older size).
LEMMA HistoryVerifies ==
    ASSUME log \in Seq(Claims), Distinct, NEW n \in 0..Len(log), NEW k \in Keys, NEW S,
           S = {log[i] : i \in 1..n}, SlotOf(S, k) # {}, NEW r, r.size = n, Complete(r)
    PROVE  Verifies(ProofFrom(Levels(S), k, SlotOf(S, k), n, Cardinality(S)), r)
<1>1. Cardinality(S) = n
  BY PartOfLog
<1>2. r.count = n /\ r.map = Root(Levels(S))
  <2>1. PICK map : map = Root(Levels(S))
    OBVIOUS
  <2>2. r = [size |-> n, map |-> map, count |-> n]
    BY <2>1 DEF Complete
  <2> QED
    BY <2>1, <2>2
<1>3. Climb(k, SlotOf(S, k), SiblingsOf(Levels(S), k))[0] = r.map
  BY <1>2, ClimbThrough
<1>4. \A c \in SlotOf(S, k) : KeyOf[c] = k /\ \E i \in DOMAIN log : i <= n /\ log[i] = c
  BY DEF SlotOf
<1> QED
  BY <1>1, <1>2, <1>3, <1>4 DEF Verifies, ProofFrom

\* A proof is whole when it is made.
LEMMA ProofIsFormed ==
    ASSUME NEW nodes, NEW k, NEW slot, NEW size, NEW count
    PROVE  Formed(ProofFrom(nodes, k, slot, size, count))
  BY DEF Formed, ProofFrom, SiblingsOf

\* A tree made from claims is one.
LEMMA RebuiltHolds ==
    ASSUME NEW S \in SUBSET Claims, IsFiniteSet(S), cache' = Rebuilt(S)
    PROVE  CacheHeld'
<1>1. cache'.claims = S /\ cache'.count = Cardinality(S)
  BY DEF Rebuilt
<1>2. Cardinality(S) \in Nat
  BY FS_CardinalityType
<1>3. CacheIsATree'
  BY <1>1 DEF CacheIsATree
<1> QED
  BY <1>1, <1>2, <1>3 DEF CacheHeld

-----------------------------------------------------------------------------
(* Steps *)

\* One thread moves on and the log stays.
LEMMA Move ==
    ASSUME SpendMapInv, NEW x \in Threads, NEW new, Goes(x, new), UNCHANGED <<log, newest, appends>>,
           CacheHeld', Held(new), x \in Handlers => Asked(new) /\ Upheld(new)
    PROVE  SpendMapInv'
<1>1. thread' = [thread EXCEPT ![x] = new]
  BY DEF Goes
<1>2. thread = [y \in Threads |-> thread[y]]
  BY DEF SpendMapInv
<1>3. \A y \in Threads : thread'[y] = IF y = x THEN new ELSE thread[y]
  BY <1>1, <1>2
<1>4. thread' = [y \in Threads |-> thread'[y]]
  BY <1>1, <1>2
<1>5. ASSUME NEW y \in Threads
      PROVE  Held(thread[y])'
  BY <1>3, <1>5 DEF SpendMapInv, Held
<1>6. ASSUME NEW h \in Handlers
      PROVE  Asked(thread[h])' /\ Upheld(thread[h])'
  <2>1. h \in Threads
    BY DEF Threads
  <2>2. Asked(thread'[h]) /\ Upheld(thread'[h])
    BY <1>3, <2>1 DEF SpendMapInv
  <2> QED
    BY <2>2 DEF Asked, Upheld, Complete, Verifies
<1>7. Distinct' /\ Sized'
  BY DEF SpendMapInv, Distinct, Sized
<1> QED
  BY <1>4, <1>5, <1>6, <1>7 DEF SpendMapInv

LEMMA CacheStays == SpendMapInv /\ cache' = cache => CacheHeld'
  BY DEF SpendMapInv, CacheHeld, CacheIsATree

\* The steps that requests and the publisher share.
LEMMA EnsureStep ==
    ASSUME SpendMapInv, NEW x \in Threads, Ensure(x)
    PROVE  SpendMapInv'
<1>1. PICK t : t = thread[x]
  OBVIOUS
<1>2. Held(t) /\ (x \in Handlers => Asked(t))
  BY <1>1 DEF SpendMapInv
<1>3. CASE LookAtMeta(x)
  <2>1. PICK new : new = [t EXCEPT !.stage = "compare", !.meta = [root |-> cache.root, count |-> cache.count]]
    OBVIOUS
  <2>2. t.stage = "look" /\ Goes(x, new) /\ UNCHANGED <<log, newest, appends>> /\ cache' = cache
    BY <1>1, <1>3, <2>1 DEF LookAtMeta
  <2>3. Held(new) /\ new.stage = "compare" /\ new.size = t.size /\ new.against = t.against
    BY <1>2, <2>1 DEF Held
  <2> QED
    BY <1>2, <2>2, <2>3, CacheStays, Move DEF Asked, Upheld
<1>4. CASE CompareMeta(x)
  <2>1. PICK stage \in {"collect", "use"} : stage = IF Stale(t.meta, cache) THEN "collect" ELSE "use"
    OBVIOUS
  <2>2. PICK new : new = [t EXCEPT !.stage = stage, !.meta = Nothing]
    OBVIOUS
  <2>3. t.stage = "compare" /\ Goes(x, new) /\ UNCHANGED <<log, newest, appends>> /\ cache' = cache
    BY <1>1, <1>4, <2>1, <2>2 DEF CompareMeta
  <2>4. Held(new) /\ new.stage = stage /\ new.size = t.size /\ new.against = t.against
    BY <1>2, <2>2 DEF Held
  <2> QED
    BY <1>2, <2>1, <2>3, <2>4, CacheStays, Move DEF Asked, Upheld
<1>5. CASE CollectClaims(x)
  <2>1. PICK new : new = [t EXCEPT !.stage = "rewrite", !.rows = Logged]
    OBVIOUS
  <2>2. t.stage = "collect" /\ Goes(x, new) /\ UNCHANGED <<log, newest, appends>> /\ cache' = cache
    BY <1>1, <1>5, <2>1 DEF CollectClaims
  <2>3. Logged \in SUBSET Claims /\ IsFiniteSet(Logged)
    BY LoggedPart DEF SpendMapInv
  <2>4. Held(new) /\ new.stage = "rewrite" /\ new.size = t.size /\ new.against = t.against
    BY <1>2, <2>1, <2>3 DEF Held
  <2> QED
    BY <1>2, <2>2, <2>4, CacheStays, Move DEF Asked, Upheld
<1> QED
  BY <1>3, <1>4, <1>5 DEF Ensure

\* A thread without work.
LEMMA IdleFacts ==
    ASSUME log \in Seq(Claims)
    PROVE  Held(Idle) /\ Asked(Idle) /\ Upheld(Idle)
<1>1. 0 \in Keys
  BY WidthFacts, DepthAssumption DEF Keys, Positions
<1>2. IsFiniteSet({})
  BY FS_EmptySet
<1> QED
  BY <1>1, <1>2 DEF Idle, Held, Asked, Upheld

\* The steps of a request.
LEMMA AnswerStep ==
    ASSUME SpendMapInv, NEW h \in Handlers, Answer(h)
    PROVE  SpendMapInv'
<1>1. PICK t : t = thread[h]
  OBVIOUS
<1>2. h \in Threads
  BY DEF Threads
<1>3. Held(t) /\ Asked(t) /\ Upheld(t) /\ log \in Seq(Claims) /\ Distinct
  BY <1>1, <1>2 DEF SpendMapInv
<1>4. Held(Idle) /\ Asked(Idle) /\ Upheld(Idle)
  BY <1>3, IdleFacts
<1>5. ASSUME Goes(h, Idle), UNCHANGED <<log, newest, appends>>, cache' = cache
      PROVE  SpendMapInv'
  BY <1>2, <1>4, <1>5, CacheStays, Move
<1>6. CASE Ensure(h)
  BY <1>2, <1>6, EnsureStep
<1>7. CASE RewriteForRequest(h)
  <2>1. PICK now : now = Rebuilt(t.rows)
    OBVIOUS
  <2>2. PICK slot : slot = ClaimsFor(now, t.key)
    OBVIOUS
  <2>3. PICK proof : proof = ProofFrom(now.nodes, t.key, slot, t.size, now.count)
    OBVIOUS
  <2>4. PICK new : new = [t EXCEPT !.stage = "check", !.rows = {}, !.proof = proof]
    OBVIOUS
  <2>5. /\ t.stage = "rewrite" /\ UNCHANGED <<log, newest, appends>>
        /\ \/ Goes(h, Idle) /\ cache' = cache
           \/ cache' = now /\ Goes(h, new)
    BY <1>1, <1>7, <2>1, <2>2, <2>3, <2>4 DEF RewriteForRequest
  <2>6. CASE cache' = now /\ Goes(h, new)
    <3>1. CacheHeld'
      BY <1>3, <2>1, <2>6, RebuiltHolds DEF Held
    <3>2. Formed(proof) /\ IsFiniteSet({})
      BY <2>3, ProofIsFormed, FS_EmptySet
    <3>3. /\ Held(new) /\ new.stage = "check" /\ new.size = t.size /\ new.against = t.against
          /\ new.proof = proof
      BY <1>3, <2>4, <3>2 DEF Held
    <3>4. Asked(new) /\ Upheld(new)
      BY <1>3, <2>5, <3>2, <3>3 DEF Asked, Upheld
    <3> QED
      BY <1>2, <2>5, <2>6, <3>1, <3>3, <3>4, Move
  <2> QED
    BY <1>5, <2>5, <2>6
<1>8. CASE ReadSlot(h)
  <2>1. PICK slot : slot = ClaimsFor(cache, t.key)
    OBVIOUS
  <2>2. PICK proof : proof = ProofFrom(cache.nodes, t.key, slot, t.size, cache.count)
    OBVIOUS
  <2>3. PICK new : new = [t EXCEPT !.stage = "siblings", !.proof = proof]
    OBVIOUS
  <2>4. /\ t.stage = "use" /\ UNCHANGED <<log, newest, appends>> /\ cache' = cache
        /\ Goes(h, Idle) \/ Goes(h, new)
    BY <1>1, <1>8, <2>1, <2>2, <2>3 DEF ReadSlot
  <2>5. Formed(proof)
    BY <2>2, ProofIsFormed
  <2>6. /\ Held(new) /\ new.stage = "siblings" /\ new.size = t.size /\ new.against = t.against
        /\ new.proof = proof
    BY <1>3, <2>3 DEF Held
  <2>7. Asked(new) /\ Upheld(new)
    BY <1>3, <2>4, <2>5, <2>6 DEF Asked, Upheld
  <2> QED
    BY <1>2, <1>5, <2>4, <2>6, <2>7, CacheStays, Move
<1>9. CASE ReadSiblings(h)
  <2>1. PICK path : path = SiblingsOf(cache.nodes, t.key)
    OBVIOUS
  <2>2. PICK proof : proof = [t.proof EXCEPT !.path = path]
    OBVIOUS
  <2>3. PICK new : new = [t EXCEPT !.stage = "check", !.proof = proof]
    OBVIOUS
  <2>4. t.stage = "siblings" /\ UNCHANGED <<log, newest, appends>> /\ cache' = cache
    BY <1>1, <1>9 DEF ReadSiblings
  <2>5. Goes(h, new)
    BY <1>1, <1>9, <2>1, <2>2, <2>3 DEF ReadSiblings
  <2>6. Formed(proof)
    <3>1. Formed(t.proof)
      BY <1>3, <2>4 DEF Asked
    <3>2. path = [d \in 1..Depth |-> path[d]]
      BY <2>1 DEF SiblingsOf
    <3> QED
      BY <2>2, <3>1, <3>2 DEF Formed
  <2>7. /\ Held(new) /\ new.stage = "check" /\ new.size = t.size /\ new.against = t.against
        /\ new.proof = proof
    BY <1>3, <2>3 DEF Held
  <2>8. Asked(new) /\ Upheld(new)
    BY <1>3, <2>4, <2>6, <2>7 DEF Asked, Upheld
  <2> QED
    BY <1>2, <2>4, <2>5, <2>7, <2>8, CacheStays, Move
<1>10. CASE AnswerFromHistory(h)
  <2>1. PICK S : S = {log[i] : i \in 1..t.size}
    OBVIOUS
  <2>2. PICK r : r = newest[t.size]
    OBVIOUS
  <2>3. PICK proof : proof = ProofFrom(Levels(S), t.key, SlotOf(S, t.key), t.size, Cardinality(S))
    OBVIOUS
  <2>4. PICK new : new = [t EXCEPT !.stage = "reply", !.against = r, !.proof = proof]
    OBVIOUS
  <2>5. /\ t.stage = "history" /\ UNCHANGED <<log, newest, appends>> /\ cache' = cache
        /\ Goes(h, Idle) \/ (SlotOf(S, t.key) # {} /\ Goes(h, new))
    BY <1>1, <1>10, <2>1, <2>2, <2>3, <2>4 DEF AnswerFromHistory
  <2>6. ASSUME SlotOf(S, t.key) # {}
        PROVE  Held(new) /\ Asked(new) /\ Upheld(new)
    <3>1. /\ Held(new) /\ new.stage = "reply" /\ new.size = t.size /\ new.against = r
          /\ new.proof = proof
      BY <1>3, <2>4 DEF Held
    <3>2. r # Nothing => r.size = t.size
      BY <1>3, <2>2, <2>5 DEF Asked, SpendMapInv, Sized
    <3>3. Formed(proof)
      BY <2>3, ProofIsFormed
    <3>4. r # Nothing /\ Complete(r) => Verifies(proof, r)
      BY <1>3, <2>1, <2>3, <2>6, <3>2, HistoryVerifies DEF Held
    <3> QED
      BY <1>3, <2>5, <3>1, <3>2, <3>3, <3>4 DEF Asked, Upheld
  <2> QED
    BY <1>2, <1>5, <2>5, <2>6, CacheStays, Move
<1>11. CASE CheckProof(h)
  <2>1. PICK r : r = IF t.again THEN t.against ELSE newest[t.size]
    OBVIOUS
  <2>2. PICK said : said = [t EXCEPT !.stage = "reply", !.against = r]
    OBVIOUS
  <2>3. PICK retry : retry = [t EXCEPT !.stage = "collect", !.again = TRUE, !.against = r, !.proof = Nothing]
    OBVIOUS
  <2>4. /\ t.stage = "check" /\ UNCHANGED <<log, newest, appends>> /\ cache' = cache
        /\ \/ (r = Nothing \/ Verifies(t.proof, r)) /\ Goes(h, said)
           \/ Goes(h, Idle)
           \/ Goes(h, retry)
    BY <1>1, <1>11, <2>1, <2>2, <2>3 DEF CheckProof
  <2>5. r # Nothing => r.size = t.size
    BY <1>3, <2>1, <2>4 DEF Asked, SpendMapInv, Sized
  <2>6. ASSUME r = Nothing \/ Verifies(t.proof, r)
        PROVE  Held(said) /\ Asked(said) /\ Upheld(said)
    <3>1. /\ Held(said) /\ said.stage = "reply" /\ said.size = t.size /\ said.against = r
          /\ said.proof = t.proof
      BY <1>3, <2>2 DEF Held
    <3> QED
      BY <1>3, <2>4, <2>5, <2>6, <3>1 DEF Asked, Upheld
  <2>7. Held(retry) /\ Asked(retry) /\ Upheld(retry)
    <3>1. Held(retry) /\ retry.stage = "collect" /\ retry.size = t.size /\ retry.against = r
      BY <1>3, <2>3 DEF Held
    <3> QED
      BY <1>3, <2>4, <2>5, <3>1 DEF Asked, Upheld
  <2> QED
    BY <1>2, <1>5, <2>4, <2>6, <2>7, CacheStays, Move
<1>12. CASE Reply(h)
  BY <1>5, <1>12 DEF Reply
<1> QED
  BY <1>6, <1>7, <1>8, <1>9, <1>10, <1>11, <1>12 DEF Answer

\* A thread without work is one more record of the kind.
LEMMA IdleShape ==
    ASSUME NEW idle, idle = Idle
    PROVE  /\ idle = [stage |-> idle.stage, key |-> idle.key, size |-> idle.size,
                      meta |-> idle.meta, rows |-> idle.rows, proof |-> idle.proof,
                      again |-> idle.again, against |-> idle.against]
           /\ idle.key = 0 /\ idle.rows = {} /\ idle.against = Nothing
  BY DEF Idle

LEMMA AskStep ==
    ASSUME SpendMapInv, NEW h \in Handlers, NEW k \in Keys, NEW n \in DOMAIN newest, Ask(h, k, n)
    PROVE  SpendMapInv'
<1>1. PICK stage \in {"look", "history"} : stage = IF n = Len(log) THEN "look" ELSE "history"
  OBVIOUS
<1>2. PICK idle : idle = Idle
  OBVIOUS
<1>3. PICK new : new = [idle EXCEPT !.stage = stage, !.key = k, !.size = n]
  OBVIOUS
<1>4. n \in 1..Len(log) /\ Goes(h, new) /\ UNCHANGED <<log, newest, appends>> /\ cache' = cache
  BY <1>1, <1>2, <1>3 DEF Ask
<1>5. Held(idle) /\ idle.against = Nothing
  BY <1>2, IdleFacts, IdleShape DEF SpendMapInv
<1>6. n \in 0..Len(log)
  BY <1>4 DEF SpendMapInv
<1>7. Held(new) /\ new.stage = stage /\ new.size = n /\ new.against = Nothing
  BY <1>3, <1>5, <1>6 DEF Held
<1> QED
  BY <1>1, <1>4, <1>7, CacheStays, Move DEF Asked, Upheld, Threads

\* The steps of publish_root.
LEMMA PublishStep ==
    ASSUME SpendMapInv, Publish
    PROVE  SpendMapInv'
<1>1. Publisher \in Threads /\ Publisher \notin Handlers
  BY PublisherAssumption DEF Threads
<1>2. PICK t : t = thread[Publisher]
  OBVIOUS
<1>3. Held(t) /\ log \in Seq(Claims)
  BY <1>1, <1>2 DEF SpendMapInv
<1>4. Held(Idle)
  BY <1>3, IdleFacts
<1>5. ASSUME NEW new, Held(new), Goes(Publisher, new), UNCHANGED <<log, newest, appends>>, CacheHeld'
      PROVE  SpendMapInv'
  BY <1>1, <1>5, Move
<1>6. CASE Ensure(Publisher)
  BY <1>1, <1>6, EnsureStep
<1>7. CASE BeginPublish
  <2>1. PICK idle : idle = Idle
    OBVIOUS
  <2>2. PICK new : new = [idle EXCEPT !.stage = "look", !.size = Len(log)]
    OBVIOUS
  <2>3. Goes(Publisher, new) /\ UNCHANGED <<log, newest, appends>> /\ cache' = cache
    BY <1>7, <2>1, <2>2 DEF BeginPublish
  <2>4. Len(log) \in 0..Len(log)
    BY <1>3
  <2>5. Held(idle)
    BY <1>4, <2>1
  <2>6. Held(new)
    BY <2>2, <2>4, <2>5 DEF Held
  <2> QED
    BY <1>5, <2>3, <2>6, CacheStays
<1>8. CASE ReadMap
  <2>1. PICK new : new = [t EXCEPT !.stage = "sign", !.meta = [root |-> cache.root, count |-> cache.count]]
    OBVIOUS
  <2>2. Held(new)
    BY <1>3, <2>1 DEF Held
  <2> QED
    BY <1>2, <1>5, <1>8, <2>1, <2>2, CacheStays DEF ReadMap
<1>9. CASE RewriteForRoot
  <2>1. PICK now : now = Rebuilt(t.rows)
    OBVIOUS
  <2>2. PICK new : new = [t EXCEPT !.stage = "sign", !.rows = {}, !.meta = [root |-> now.root, count |-> now.count]]
    OBVIOUS
  <2>3. Goes(Publisher, new) /\ UNCHANGED <<log, newest, appends>> /\ cache' = now
    BY <1>2, <1>9, <2>1, <2>2 DEF RewriteForRoot
  <2>4. CacheHeld'
    BY <1>3, <2>1, <2>3, RebuiltHolds DEF Held
  <2>5. Held(new)
    BY <1>3, <2>2, FS_EmptySet DEF Held
  <2> QED
    BY <1>5, <2>3, <2>4, <2>5
<1>10. CASE SignRoot
  <2>1. PICK root : root = [size |-> t.size, map |-> t.meta.root, count |-> t.meta.count]
    OBVIOUS
  <2>2. /\ newest' = [newest EXCEPT ![t.size] = root] /\ thread' = [thread EXCEPT ![Publisher] = Idle]
        /\ UNCHANGED <<log, cache, appends>>
    BY <1>2, <1>10, <2>1 DEF SignRoot, Goes
  <2>3. DOMAIN newest' = DOMAIN newest /\ Sized'
    BY <2>1, <2>2 DEF SpendMapInv, Sized
  <2>4. thread = [y \in Threads |-> thread[y]]
    BY DEF SpendMapInv
  <2>5. \A y \in Threads : thread'[y] = IF y = Publisher THEN Idle ELSE thread[y]
    BY <2>2, <2>4
  <2>6. thread' = [y \in Threads |-> thread'[y]]
    BY <2>2, <2>4
  <2>7. \A y \in Threads : Held(thread[y])'
    BY <1>4, <2>2, <2>5 DEF SpendMapInv, Held
  <2>8. ASSUME NEW h \in Handlers
        PROVE  Asked(thread[h])' /\ Upheld(thread[h])'
    <3>1. thread'[h] = thread[h] /\ Asked(thread[h]) /\ Upheld(thread[h])
      BY <1>1, <2>5 DEF SpendMapInv, Threads
    <3> QED
      BY <2>2, <2>3, <3>1 DEF Asked, Upheld, Complete, Verifies
  <2>9. Distinct' /\ CacheHeld'
    BY <2>2, CacheStays DEF SpendMapInv, Distinct
  <2> QED
    BY <2>2, <2>3, <2>6, <2>7, <2>8, <2>9 DEF SpendMapInv
<1> QED
  BY <1>6, <1>7, <1>8, <1>9, <1>10 DEF Publish

\* What was right for a root stays so when the log grows.
LEMMA GrowthKeeps ==
    ASSUME log \in Seq(Claims), NEW c \in Claims, log' = log \o <<c>>,
           NEW t, Held(t), Asked(t), Upheld(t), newest' = newest
    PROVE  Held(t)' /\ Asked(t)' /\ Upheld(t)'
<1>1. Len(log') = Len(log) + 1 /\ \A i \in 1..Len(log) : log'[i] = log[i]
  OBVIOUS
<1>2. DOMAIN log = 1..Len(log) /\ DOMAIN log' = 1..Len(log')
  OBVIOUS
<1>3. Len(log) \in Nat /\ t.size \in 0..Len(log)
  BY DEF Held
<1>4. Held(t)'
  BY <1>1, <1>3 DEF Held
<1>5. Asked(t)'
  BY DEF Asked
<1>6. ASSUME NEW r, r.size = t.size
      PROVE  Complete(r)' => Complete(r)
  <2>1. {log'[i] : i \in 1..r.size} = {log[i] : i \in 1..r.size}
    BY <1>1, <1>3, <1>6
  <2> QED
    BY <2>1 DEF Complete
<1>7. ASSUME NEW proof, NEW r, Verifies(proof, r)
      PROVE  Verifies(proof, r)'
  BY <1>1, <1>2, <1>3, <1>7 DEF Verifies
<1>8. Upheld(t)'
  BY <1>6, <1>7 DEF Upheld, Asked
<1> QED
  BY <1>4, <1>5, <1>8

\* The tables after an append are the tree over the claims they had and the new one, or
\* over all claims (_record_current_spend_map_claim).
LEMMA AppendStep ==
    ASSUME SpendMapInv, NEW c \in Claims, AppendTransfer(c)
    PROVE  SpendMapInv'
<1>1. /\ log \in Seq(Claims) /\ Distinct /\ appends \in 0..MaxAppends /\ CacheHeld
      /\ thread = [x \in Threads |-> thread[x]] /\ \A x \in Threads : Held(thread[x])
      /\ Sized /\ \A h \in Handlers : Asked(thread[h]) /\ Upheld(thread[h])
  BY DEF SpendMapInv
<1>2. /\ appends' = appends + 1 /\ appends < MaxAppends /\ UNCHANGED <<thread, newest, signed>>
      /\ log' = IF c \in Logged THEN log ELSE log \o <<c>>
  BY DEF AppendTransfer
<1>3. CacheHeld'
  <2>1. CASE Stale(cache, cache)
    <3>1. PICK S : S = Logged \cup {c}
      OBVIOUS
    <3>2. cache' = Rebuilt(S)
      BY <2>1, <3>1 DEF AppendTransfer
    <3>3. S \in SUBSET Claims /\ IsFiniteSet(S)
      BY <1>1, <3>1, LoggedPart, FS_AddElement
    <3> QED
      BY <3>2, <3>3, RebuiltHolds
  <2>2. CASE ~Stale(cache, cache)
    <3>1. PICK S : S = cache.claims
      OBVIOUS
    <3>2. cache = Rebuilt(S) /\ S \in SUBSET Claims /\ IsFiniteSet(S)
      BY <1>1, <2>2, <3>1 DEF Stale, CacheHeld, CacheIsATree
    <3>3. cache' = WithPath([cache EXCEPT !.claims = S \cup {c}], KeyOf[c])
      BY <2>2, <3>1 DEF AppendTransfer
    <3>4. cache' = Rebuilt(S \cup {c})
      BY <3>2, <3>3, PathUpdates
    <3>5. S \cup {c} \in SUBSET Claims /\ IsFiniteSet(S \cup {c})
      BY <3>2, FS_AddElement
    <3> QED
      BY <3>4, <3>5, RebuiltHolds
  <2> QED
    BY <2>1, <2>2
<1>4. appends' \in 0..MaxAppends
  BY <1>1, <1>2, DepthAssumption
<1>5. CASE c \in Logged
  <2>1. log' = log
    BY <1>2, <1>5
  <2>2. \A x \in Threads : Held(thread[x])'
    BY <1>1, <1>2, <2>1 DEF Held
  <2>3. \A h \in Handlers : Asked(thread[h])' /\ Upheld(thread[h])'
    <3>0. UNCHANGED <<log, newest>>
      BY <1>2, <2>1
    <3>1. \A t : (Asked(t) <=> Asked(t)') /\ (Upheld(t) <=> Upheld(t)')
      BY <3>0 DEF Asked, Upheld, Complete, Verifies
    <3>2. \A h \in Handlers : Asked(thread[h]) /\ Upheld(thread[h])
      BY <1>1
    <3>3. thread' = thread
      BY <1>2
    <3> QED
      BY <3>1, <3>2, <3>3
  <2> QED
    BY <1>1, <1>2, <1>3, <1>4, <2>1, <2>2, <2>3 DEF SpendMapInv, Distinct, Sized
<1>6. CASE c \notin Logged
  <2>1. log' = log \o <<c>> /\ log' \in Seq(Claims)
    BY <1>1, <1>2, <1>6
  <2>2. Distinct'
    <3>1. /\ DOMAIN log' = 1..Len(log) + 1 /\ DOMAIN log = 1..Len(log)
          /\ \A i \in 1..Len(log) : log'[i] = log[i] /\ log[i] # c
          /\ log'[Len(log) + 1] = c
      BY <1>1, <1>6, <2>1 DEF Logged
    <3> QED
      BY <1>1, <3>1 DEF Distinct
  <2>3. \A x \in Threads : Held(thread[x])'
    <3>1. Len(log') = Len(log) + 1 /\ Len(log) \in Nat
      BY <1>1, <2>1
    <3> QED
      BY <1>1, <1>2, <3>1 DEF Held
  <2>4. ASSUME NEW h \in Handlers
        PROVE  Asked(thread[h])' /\ Upheld(thread[h])'
    <3>1. PICK t : t = thread[h]
      OBVIOUS
    <3>2. Held(t) /\ Asked(t) /\ Upheld(t)
      BY <1>1, <3>1 DEF Threads
    <3>3. Asked(t)' /\ Upheld(t)'
      BY <1>1, <1>2, <2>1, <3>2, GrowthKeeps
    <3> QED
      BY <1>2, <3>1, <3>3
  <2> QED
    BY <1>1, <1>2, <1>3, <1>4, <2>1, <2>2, <2>3, <2>4 DEF SpendMapInv, Sized
<1> QED
  BY <1>5, <1>6

-----------------------------------------------------------------------------
(* Theorems *)

\* The invariant holds in every reachable state.
THEOREM SpendMapInvariance == Spec => []SpendMapInv
<1>1. Init => SpendMapInv
  <2> SUFFICES ASSUME Init
               PROVE  SpendMapInv
    OBVIOUS
  <2>1. log \in Seq(Claims) /\ Len(log) = 0 /\ Distinct /\ appends \in 0..MaxAppends
    BY DepthAssumption DEF Init, Distinct
  <2>2. CacheHeld
    BY FS_EmptySet DEF Init, NoCache, CacheHeld, CacheIsATree
  <2>3. Held(Idle) /\ Asked(Idle) /\ Upheld(Idle)
    BY <2>1, IdleFacts
  <2>4. thread = [x \in Threads |-> Idle]
    BY DEF Init, Threads
  <2>5. Sized
    BY DEF Init, Sized
  <2> QED
    BY <2>1, <2>2, <2>3, <2>4, <2>5 DEF SpendMapInv, Threads
<1>2. SpendMapInv /\ [Next]_vars => SpendMapInv'
  <2> SUFFICES ASSUME SpendMapInv, [Next]_vars
               PROVE  SpendMapInv'
    OBVIOUS
  <2>1. CASE \E c \in Claims : AppendTransfer(c)
    BY <2>1, AppendStep
  <2>2. CASE \E h \in Handlers : Answer(h)
    BY <2>2, AnswerStep
  <2>3. CASE \E h \in Handlers : \E k \in Keys : \E n \in DOMAIN newest : Ask(h, k, n)
    BY <2>3, AskStep
  <2>4. CASE Publish
    BY <2>4, PublishStep
  <2>5. CASE UNCHANGED vars
    <3>1. UNCHANGED <<log, cache, thread, newest, appends>>
      BY <2>5 DEF vars
    <3>2. \A t : (Held(t) <=> Held(t)') /\ (Asked(t) <=> Asked(t)') /\ (Upheld(t) <=> Upheld(t)')
      BY <3>1 DEF Held, Asked, Upheld, Complete, Verifies
    <3> QED
      BY <3>1, <3>2, CacheStays DEF SpendMapInv, Distinct, Sized
  <2> QED
    BY <2>1, <2>2, <2>3, <2>4, <2>5 DEF Next
<1> QED
  BY <1>1, <1>2, PTL DEF Spec

\* Type correctness of log, cache and threads.
THEOREM SpendMapTypeCorrect == Spec => []TypeOK
<1>1. SpendMapInv => TypeOK
  BY DEF SpendMapInv, TypeOK, CacheHeld, Held
<1> QED
  BY <1>1, SpendMapInvariance, PTL

\* The tables of the spend map are one tree over the claims in them, for a tree of any depth
\* and however appends, the publisher and rebuilding requests interleave: a path update
\* gives what a rebuild from the same claims would
\* (_update_current_spend_map_path, _rebuild_current_spend_map).
THEOREM CacheStaysATree == Spec => []CacheIsATree
<1>1. SpendMapInv => CacheIsATree
  BY DEF SpendMapInv, CacheHeld
<1> QED
  BY <1>1, SpendMapInvariance, PTL

\* Every answer to a proof request verifies against the root it is for, if that root commits
\* to the claims of its size, and survives the compressed form, whatever is appended and
\* rebuilt between the reads of the request (spend_map_proof, compress_spend_map_proof).
THEOREM AnswersAreRight == Spec => []AnswersVerify
<1>1. SpendMapInv => AnswersVerify
  <2> SUFFICES ASSUME SpendMapInv, NEW h \in Handlers, thread[h].stage = "reply", thread[h].against # Nothing,
                      Complete(thread[h].against)
               PROVE  /\ Expandable(Compressed(thread[h].proof))
                      /\ Expanded(Compressed(thread[h].proof)) = thread[h].proof
                      /\ Verifies(thread[h].proof, thread[h].against)
    BY DEF AnswersVerify
  <2>1. Formed(thread[h].proof) /\ Verifies(thread[h].proof, thread[h].against)
    BY DEF SpendMapInv, Asked, Upheld
  <2> QED
    BY <2>1, RoundTrip
<1> QED
  BY <1>1, SpendMapInvariance, PTL

-----------------------------------------------------------------------------
(* Sequences *)

LEMMA UpToFacts ==
    ASSUME NEW S, NEW s \in Seq(S), NEW i \in 0..Len(s)
    PROVE  /\ UpTo(s, i) \in Seq(S) /\ Len(UpTo(s, i)) = i
           /\ \A j \in 1..i : UpTo(s, i)[j] = s[j]
           /\ \A j \in 0..i : UpTo(UpTo(s, i), j) = UpTo(s, j)
           /\ UpTo(s, Len(s)) = s
<1>1. ASSUME NEW k \in 0..Len(s)
      PROVE  /\ UpTo(s, k) \in Seq(S) /\ Len(UpTo(s, k)) = k
             /\ \A j \in 1..k : UpTo(s, k)[j] = s[j]
  <2>1. \A j \in 1..k : s[j] \in S
    BY ElementOfSeq
  <2>2. 1 \in Int /\ k \in Int
    OBVIOUS
  <2>3. /\ SubSeq(s, 1, k) \in Seq(S)
        /\ Len(SubSeq(s, 1, k)) = IF 1 <= k THEN k - 1 + 1 ELSE 0
        /\ \A j \in 1..k - 1 + 1 : SubSeq(s, 1, k)[j] = s[1 + j - 1]
    BY <2>1, <2>2, SubSeqProperties
  <2> QED
    BY <2>3 DEF UpTo
<1>2. ASSUME NEW j \in 0..i
      PROVE  UpTo(UpTo(s, i), j) = UpTo(s, j)
  <2> DEFINE u == UpTo(s, i)
  <2>1. u \in Seq(S) /\ Len(u) = i /\ \A k \in 1..i : u[k] = s[k]
    BY <1>1
  <2> HIDE DEF u
  <2>2. \A k \in 1..j : u[k] \in S
    BY <2>1, ElementOfSeq
  <2>3. /\ SubSeq(u, 1, j) \in Seq(S)
        /\ Len(SubSeq(u, 1, j)) = IF 1 <= j THEN j - 1 + 1 ELSE 0
        /\ \A k \in 1..j - 1 + 1 : SubSeq(u, 1, j)[k] = u[1 + k - 1]
    BY <2>2, SubSeqProperties
  <2>4. j \in 0..Len(s)
    OBVIOUS
  <2>5. UpTo(s, j) \in Seq(S) /\ Len(UpTo(s, j)) = j /\ \A k \in 1..j : UpTo(s, j)[k] = s[k]
    BY <1>1, <2>4
  <2>6. UpTo(u, j) = UpTo(s, j)
    <3>1. UpTo(u, j) \in Seq(S) /\ Len(UpTo(u, j)) = j /\ \A k \in 1..j : UpTo(u, j)[k] = UpTo(s, j)[k]
      BY <2>1, <2>3, <2>5 DEF UpTo
    <3> QED
      BY <3>1, <2>5, SeqEqual
  <2> QED
    BY <2>6 DEF u
<1>3. UpTo(s, Len(s)) = s
  BY SubSeqFull DEF UpTo
<1> QED
  BY <1>1, <1>2, <1>3

LEMMA AppendFacts ==
    ASSUME NEW S, NEW s \in Seq(S), NEW x \in S
    PROVE  /\ Append(s, x) \in Seq(S) \ {<<>>} /\ Len(Append(s, x)) = Len(s) + 1
           /\ Last(Append(s, x)) = x /\ Append(s, x)[Len(s) + 1] = x
           /\ \A i \in 1..Len(s) : Append(s, x)[i] = s[i]
           /\ \A i \in 0..Len(s) : UpTo(Append(s, x), i) = UpTo(s, i)
           /\ Front(Append(s, x)) = s /\ UpTo(Append(s, x), Len(s)) = s
<1> DEFINE a == Append(s, x)
<1>1. /\ a \in Seq(S) /\ a # <<>> /\ Len(a) = Len(s) + 1 /\ a[Len(s) + 1] = x
      /\ \A i \in 1..Len(s) : a[i] = s[i]
      /\ Len(s) \in Nat
  BY AppendProperties, LenProperties
<1> HIDE DEF a
<1>2. ASSUME NEW i \in 0..Len(s)
      PROVE  UpTo(a, i) = UpTo(s, i)
  <2>1. i \in 0..Len(a)
    BY <1>1
  <2>2. UpTo(a, i) \in Seq(S) /\ Len(UpTo(a, i)) = i /\ \A j \in 1..i : UpTo(a, i)[j] = a[j]
    BY <1>1, <2>1, UpToFacts
  <2>3. UpTo(s, i) \in Seq(S) /\ Len(UpTo(s, i)) = i /\ \A j \in 1..i : UpTo(s, i)[j] = s[j]
    BY UpToFacts
  <2>4. \A j \in 1..i : UpTo(a, i)[j] = UpTo(s, i)[j]
    BY <1>1, <2>2, <2>3
  <2> QED
    BY <2>2, <2>3, <2>4, SeqEqual
<1>3. UpTo(s, Len(s)) = s
  BY SubSeqFull DEF UpTo
<1>4. UpTo(a, Len(s)) = s
  BY <1>1, <1>2, <1>3
<1>5. Front(a) = s
  BY <1>1, <1>4 DEF Front, UpTo
<1>6. Last(a) = x
  BY <1>1 DEF Last
<1> QED
  BY <1>1, <1>2, <1>4, <1>5, <1>6 DEF a

\* A sequence that is not empty has a last element.
LEMMA LastFacts ==
    ASSUME NEW S, NEW s \in Seq(S) \ {<<>>}
    PROVE  Len(s) \in Nat \ {0} /\ Last(s) \in S /\ Last(s) = s[Len(s)]
<1>1. Len(s) \in Nat \ {0}
  BY EmptySeq
<1> QED
  BY <1>1, ElementOfSeq DEF Last

\* The elements up to a position.
LEMMA RangeFacts ==
    ASSUME NEW S, NEW s \in Seq(S)
    PROVE  /\ Range(s) = {s[i] : i \in 1..Len(s)} /\ Range(s) \subseteq S
           /\ \A k \in 0..Len(s) : Range(UpTo(s, k)) = {s[i] : i \in 1..k}
<1>1. ASSUME NEW q \in Seq(S)
      PROVE  Range(q) = {q[i] : i \in 1..Len(q)}
  BY LenProperties DEF Range
<1>2. ASSUME NEW k \in 0..Len(s)
      PROVE  Range(UpTo(s, k)) = {s[i] : i \in 1..k}
  BY <1>1, UpToFacts
<1> QED
  BY <1>1, <1>2, ElementOfSeq

-----------------------------------------------------------------------------
(* Replaying transfers *)

\* One transfer of a replay.
Replayed(state, t) == IF state # Invalid /\ Extends(state, t) THEN After(state, t) ELSE Invalid

\* A replay goes from state to state.
LEMMA ReplayDef ==
    ASSUME NEW s, NEW ts, Len(ts) \in Nat
    PROVE  \E f : /\ f[0] = s /\ \A i \in 1..Len(ts) : f[i] = Replayed(f[i - 1], ts[i])
                  /\ Replay(s, ts) = f[Len(ts)]
<1> DEFINE n == Len(ts)
           G(m, g) == [i \in 0..m |-> IF i = 0 THEN s ELSE IF g[i - 1] # Invalid /\ Extends(g[i - 1], ts[i])
                                       THEN After(g[i - 1], ts[i]) ELSE Invalid]
           P == {m \in 0..n : \E g : g = G(m, g)}
<1>1. 0 \in P
  <2> DEFINE g == [i \in 0..0 |-> s]
  <2>1. g = G(0, g)
    OBVIOUS
  <2> HIDE DEF g
  <2> QED
    BY <2>1
<1>2. ASSUME NEW m \in 0..n - 1, m \in P
      PROVE  m + 1 \in P
  <2>1. PICK g : g = G(m, g)
    BY <1>2
  <2> DEFINE h == [i \in 0..m + 1 |-> IF i = m + 1 THEN Replayed(g[m], ts[m + 1]) ELSE g[i]]
  <2>2. h = G(m + 1, h)
    <3>1. ASSUME NEW i \in 0..m + 1
          PROVE  h[i] = IF i = 0 THEN s ELSE IF h[i - 1] # Invalid /\ Extends(h[i - 1], ts[i])
                                       THEN After(h[i - 1], ts[i]) ELSE Invalid
      <4>1. CASE i = m + 1
        BY <4>1 DEF Replayed
      <4>2. CASE i # m + 1
        <5>1. i \in 0..m
          BY <4>2
        <5>2. h[i] = g[i] /\ (i # 0 => h[i - 1] = g[i - 1])
          BY <5>1
        <5>3. g[i] = G(m, g)[i]
          BY <2>1
        <5>4. G(m, g)[i] = IF i = 0 THEN s ELSE IF g[i - 1] # Invalid /\ Extends(g[i - 1], ts[i])
                                       THEN After(g[i - 1], ts[i]) ELSE Invalid
          BY <5>1
        <5> QED
          BY <5>2, <5>3, <5>4
      <4> QED
        BY <4>1, <4>2
    <3> HIDE DEF h
    <3>2. DOMAIN h = 0..m + 1 /\ h = [i \in 0..m + 1 |-> h[i]]
      BY DEF h
    <3> QED
      BY <3>1, <3>2
  <2> HIDE DEF h
  <2> QED
    BY <2>2
<1>3. n \in P
  <2> HIDE DEF P, G
  <2>1. n \in Nat /\ \A i \in 0..n - 1 : i \in P => i + 1 \in P
    BY <1>2
  <2> HIDE DEF n
  <2>2. 0..n \subseteq P
    BY <1>1, <2>1, Along
  <2> QED
    BY <2>1, <2>2
<1> DEFINE f == CHOOSE g : g = G(n, g)
<1>4. f = G(n, f)
  BY <1>3
<1>5. Replay(s, ts) = f[n]
  BY DEF Replay
<1> HIDE DEF f
<1>6. ASSUME NEW i \in 0..n
      PROVE  f[i] = IF i = 0 THEN s ELSE Replayed(f[i - 1], ts[i])
  <2>1. f[i] = G(n, f)[i]
    BY <1>4
  <2> QED
    BY <2>1 DEF Replayed
<1>7. f[0] = s /\ \A i \in 1..Len(ts) : f[i] = Replayed(f[i - 1], ts[i])
  BY <1>6
<1> QED
  BY <1>5, <1>7

LEMMA AfterType ==
    ASSUME NEW s \in States, NEW t \in Transfers
    PROVE  After(s, t) \in States
BY TreeAssumption DEF States, After

LEMMA ReplayType ==
    ASSUME NEW s \in States, NEW ts \in Seq(Transfers)
    PROVE  Replay(s, ts) \in States \cup {Invalid} /\ (ts = <<>> => Replay(s, ts) = s)
<1>1. Len(ts) \in Nat /\ \A i \in 1..Len(ts) : ts[i] \in Transfers
  BY LenProperties, ElementOfSeq
<1>2. PICK f : /\ f[0] = s /\ \A i \in 1..Len(ts) : f[i] = Replayed(f[i - 1], ts[i])
               /\ Replay(s, ts) = f[Len(ts)]
  BY <1>1, ReplayDef
<1> DEFINE P == {i \in 0..Len(ts) : f[i] \in States \cup {Invalid}}
<1>3. 0 \in P /\ \A i \in 0..Len(ts) - 1 : i \in P => i + 1 \in P
  <2>1. ASSUME NEW i \in 0..Len(ts) - 1, i \in P
        PROVE  i + 1 \in P
    <3>1. f[i + 1] = Replayed(f[i], ts[i + 1])
      BY <1>1, <1>2
    <3>2. f[i] \in States => After(f[i], ts[i + 1]) \in States
      BY <1>1, AfterType
    <3> QED
      BY <1>1, <2>1, <3>1, <3>2 DEF Replayed
  <2> QED
    BY <1>1, <1>2, <2>1
<1>4. 0..Len(ts) \subseteq P
  <2> HIDE DEF P
  <2>1. PICK n \in Nat : n = Len(ts)
    BY <1>1
  <2>2. \A i \in 0..n - 1 : i \in P => i + 1 \in P
    BY <1>3, <2>1
  <2>3. 0..n \subseteq P
    BY <1>3, <2>2, Along
  <2> QED
    BY <2>1, <2>3
<1>5. ts = <<>> => Len(ts) = 0
  OBVIOUS
<1> QED
  BY <1>1, <1>2, <1>4, <1>5

-----------------------------------------------------------------------------
(* The transfers before a transfer *)

Closed(C) == \A c \in C : Parent[c] \in C \cup {Genesis}

LEMMA HistoryDef ==
    ASSUME NEW t \in Transfers
    PROVE  History[t] = {s \in Transfers : \A C \in SUBSET Transfers : t \in C /\ Closed(C) => s \in C}
BY DEF History, Closed

LEMMA HistoryFacts ==
    ASSUME NEW t \in Transfers
    PROVE  /\ t \in History[t] /\ History[t] \subseteq Transfers
           /\ \A s \in History[t] : History[s] \subseteq History[t]
<1>1. t \in History[t] /\ History[t] \subseteq Transfers
  BY HistoryDef
<1>2. ASSUME NEW s \in History[t], NEW u \in History[s]
      PROVE  u \in History[t]
  <2>1. s \in Transfers /\ u \in Transfers
    BY <1>1, HistoryDef
  <2>2. ASSUME NEW C \in SUBSET Transfers, t \in C, Closed(C)
        PROVE  u \in C
    BY <2>1, <2>2, HistoryDef
  <2> QED
    BY <2>1, <2>2, HistoryDef
<1> QED
  BY <1>1, <1>2

\* The first transfer has nothing before it, another one its parent and what is before that.
LEMMA HistoryStep ==
    ASSUME NEW t \in Transfers
    PROVE  /\ Parent[t] = Genesis => History[t] = {t}
           /\ Parent[t] \in Transfers => History[t] = {t} \cup History[Parent[t]]
<1>1. ASSUME Parent[t] = Genesis
      PROVE  History[t] = {t}
  <2>1. {t} \in SUBSET Transfers /\ Closed({t})
    BY <1>1 DEF Closed
  <2> QED
    BY <2>1, HistoryDef
<1>2. ASSUME Parent[t] \in Transfers
      PROVE  History[t] = {t} \cup History[Parent[t]]
  <2> DEFINE p == Parent[t]
  <2>1. ASSUME NEW s \in History[t], s # t
        PROVE  s \in History[p]
    <3>1. ASSUME NEW C \in SUBSET Transfers, p \in C, Closed(C)
          PROVE  s \in C
      <4>1. C \cup {t} \in SUBSET Transfers /\ Closed(C \cup {t})
        BY <3>1 DEF Closed
      <4> QED
        BY <2>1, <4>1, HistoryDef
    <3>2. s \in Transfers
      BY HistoryDef
    <3> QED
      BY <1>2, <3>1, <3>2, HistoryDef
  <2>2. ASSUME NEW s \in History[p]
        PROVE  s \in History[t]
    <3>1. s \in Transfers
      BY <1>2, HistoryDef
    <3>2. ASSUME NEW C \in SUBSET Transfers, t \in C, Closed(C)
          PROVE  s \in C
      <4>1. p \in C
        BY <1>2, <3>2, TreeAssumption DEF Closed
      <4> QED
        BY <1>2, <3>2, <4>1, HistoryDef
    <3> QED
      BY <3>1, <3>2, HistoryDef
  <2> QED
    BY <2>1, <2>2, HistoryFacts
<1> QED
  BY <1>1, <1>2

-----------------------------------------------------------------------------
(* The counter of the day *)

LEMMA DayFacts ==
    ASSUME NEW a \in Nat, NEW b \in Nat, a <= b
    PROVE  Day(a) \in Nat /\ Day(b) \in Nat /\ Day(a) <= Day(b)
<1>1. DayLength \in Nat /\ DayLength > 0
  BY LimitAssumption
<1>2. PICK x : x = a \div DayLength
  OBVIOUS
<1>3. PICK y : y = b \div DayLength
  OBVIOUS
<1>4. x \in Int /\ DayLength * x <= a /\ a < DayLength * x + DayLength
  BY <1>1, <1>2
<1>5. y \in Int /\ DayLength * y <= b /\ b < DayLength * y + DayLength
  BY <1>1, <1>3
<1>6. x >= 0 /\ y >= 0
  BY <1>1, <1>4, <1>5
<1>7. ASSUME y < x
      PROVE  FALSE
  <2>1. DayLength * (y + 1) <= DayLength * x
    BY <1>1, <1>4, <1>5, <1>7
  <2>2. DayLength * (y + 1) = DayLength * y + DayLength
    BY <1>1, <1>5
  <2> QED
    BY <1>1, <1>4, <1>5, <2>1, <2>2
<1> QED
  BY <1>2, <1>3, <1>4, <1>5, <1>6, <1>7 DEF Day

\* The transfers of the day of t, up to a transfer.
SameDay(tip, t) == {s \in History[tip] : Day(Time[s]) = Day(Time[t])}

\* A state says of its day what the history of its tip says, and no day of that history
\* is over the limit.
Sound(state) ==
    \/ state = Start
    \/ /\ state.tip \in Transfers /\ state.time = Time[state.tip] /\ IsFiniteSet(History[state.tip])
       /\ \A t \in History[state.tip] :
             Time[t] <= state.time /\ Cardinality(SameDay(state.tip, t)) <= MaxPerDay
       /\ state.count = Cardinality(SameDay(state.tip, state.tip))

\* A state comes after another one of the same bill.
Follows(state, earlier) ==
    /\ state.tip \in Transfers /\ earlier.time <= state.time
    /\ earlier.tip \in Transfers => earlier.tip \in History[state.tip]

LEMMA StartFacts == Start \in States /\ Sound(Start) /\ Start # Invalid
<1>1. Start \in States
  BY DEF Start, States
<1> QED
  BY <1>1, TreeAssumption DEF Sound

\* The first transfer.
LEMMA SoundFirst ==
    ASSUME NEW t \in Transfers, Extends(Start, t)
    PROVE  Sound(After(Start, t))
<1>1. Parent[t] = Genesis /\ Time[t] \in Nat /\ Time[t] > 0
  BY TreeAssumption DEF Extends, Start
<1>2. History[t] = {t}
  BY <1>1, HistoryStep
<1>3. PICK s : s = After(Start, t)
  OBVIOUS
<1>4. s.tip = t /\ s.time = Time[t] /\ s.count = IF Day(Time[t]) = Day(0) THEN 0 + 1 ELSE 1
  BY <1>3 DEF After, Start
<1>5. s.count = 1
  BY <1>4
<1>6. SameDay(t, t) = {t}
  BY <1>2 DEF SameDay
<1>7. Cardinality(SameDay(t, t)) = 1 /\ IsFiniteSet(History[t])
  BY <1>2, <1>6, FS_Singleton
<1>8. MaxPerDay \in Nat /\ 1 <= MaxPerDay
  BY LimitAssumption
<1>9. \A u \in History[s.tip] : Time[u] <= s.time /\ Cardinality(SameDay(s.tip, u)) <= MaxPerDay
  BY <1>1, <1>2, <1>4, <1>7, <1>8
<1>10. Sound(s)
  BY <1>4, <1>5, <1>7, <1>9 DEF Sound
<1> QED
  BY <1>3, <1>10

\* A transfer after others: the counter goes on within the day and starts again after it.
LEMMA SoundNext ==
    ASSUME NEW s \in States, Sound(s), s # Start, NEW t \in Transfers, Extends(s, t)
    PROVE  Sound(After(s, t))
<1>1. PICK p : p = s.tip
  OBVIOUS
<1>2. /\ p \in Transfers /\ s.time = Time[p] /\ IsFiniteSet(History[p])
      /\ \A u \in History[p] : Time[u] <= Time[p] /\ Cardinality(SameDay(p, u)) <= MaxPerDay
      /\ s.count = Cardinality(SameDay(p, p))
  BY <1>1 DEF Sound
<1>3. Parent[t] = p /\ Time[t] > Time[p] /\ Time[t] \in Nat /\ Time[p] \in Nat
  BY <1>1, <1>2, TreeAssumption DEF Extends
<1>4. History[t] = {t} \cup History[p] /\ History[p] \subseteq Transfers /\ p \in History[p]
  BY <1>2, <1>3, HistoryStep, HistoryFacts
<1>5. t \notin History[p]
  BY <1>2, <1>3
<1>6. PICK r : r = After(s, t)
  OBVIOUS
<1>7. /\ r.tip = t /\ r.time = Time[t] /\ r.count <= MaxPerDay
      /\ r.count = IF Day(Time[t]) = Day(Time[p]) THEN s.count + 1 ELSE 1
  BY <1>2, <1>6, TreeAssumption DEF After, Extends
<1>8. \A u \in History[p] : /\ Time[u] \in Nat /\ Day(Time[u]) \in Nat /\ Day(Time[u]) <= Day(Time[p])
                            /\ Day(Time[p]) \in Nat
  BY <1>2, <1>3, <1>4, DayFacts, TreeAssumption
<1>9. Day(Time[t]) \in Nat /\ Day(Time[p]) \in Nat /\ Day(Time[p]) <= Day(Time[t])
  BY <1>3, DayFacts
<1>10. IsFiniteSet(History[t])
  <2>1. IsFiniteSet(History[p] \cup {t})
    BY <1>2, FS_AddElement
  <2>2. History[p] \cup {t} = History[t]
    BY <1>4
  <2> QED
    BY <2>1, <2>2
<1>11. \A u : SameDay(p, u) \subseteq History[p] /\ IsFiniteSet(SameDay(p, u))
  BY <1>2, FS_Subset DEF SameDay
<1>12. Cardinality(SameDay(t, t)) = r.count
  <2>1. CASE Day(Time[t]) = Day(Time[p])
    <3>1. SameDay(t, t) = SameDay(p, p) \cup {t}
      BY <1>4, <2>1 DEF SameDay
    <3>2. t \notin SameDay(p, p)
      BY <1>5, <1>11
    <3>3. Cardinality(SameDay(p, p) \cup {t}) = Cardinality(SameDay(p, p)) + 1
      BY <1>11, <3>2, FS_AddElement
    <3> QED
      BY <1>2, <1>7, <2>1, <3>1, <3>3
  <2>2. CASE Day(Time[t]) # Day(Time[p])
    <3>1. \A u \in History[p] : Day(Time[u]) # Day(Time[t])
      BY <1>8, <1>9, <2>2
    <3>2. SameDay(t, t) = {t}
      BY <1>4, <3>1 DEF SameDay
    <3> QED
      BY <1>7, <2>2, <3>2, FS_Singleton
  <2> QED
    BY <2>1, <2>2
<1>13. ASSUME NEW u \in History[t]
       PROVE  Time[u] <= Time[t] /\ Cardinality(SameDay(t, u)) <= MaxPerDay
  <2>1. Time[u] <= Time[t]
    BY <1>2, <1>3, <1>4, <1>8
  <2>2. CASE Day(Time[u]) = Day(Time[t])
    <3>1. SameDay(t, u) = SameDay(t, t)
      BY <2>2 DEF SameDay
    <3> QED
      BY <1>7, <1>12, <2>1, <3>1
  <2>3. CASE Day(Time[u]) # Day(Time[t])
    <3>1. u \in History[p] /\ SameDay(t, u) = SameDay(p, u)
      BY <1>4, <2>3 DEF SameDay
    <3> QED
      BY <1>2, <2>1, <3>1
  <2> QED
    BY <2>2, <2>3
<1>14. Sound(r)
  BY <1>7, <1>10, <1>12, <1>13 DEF Sound
<1> QED
  BY <1>6, <1>14

LEMMA SoundAfter ==
    ASSUME NEW s \in States, Sound(s), NEW t \in Transfers, Extends(s, t)
    PROVE  /\ After(s, t) \in States /\ Sound(After(s, t)) /\ After(s, t).tip = t
           /\ Follows(After(s, t), s) /\ After(s, t).time > s.time
<1>1. After(s, t) \in States
  BY AfterType
<1>2. Sound(After(s, t))
  BY SoundFirst, SoundNext
<1>3. PICK r : r = After(s, t)
  OBVIOUS
<1>4. r.tip = t /\ r.time = Time[t] /\ r.time > s.time /\ Parent[t] = s.tip
  BY <1>3 DEF After, Extends
<1>5. s.time \in Nat /\ r.time \in Nat
  BY <1>4, TreeAssumption DEF States
<1>6. s.tip \in Transfers => s.tip \in History[t]
  BY <1>4, HistoryStep, HistoryFacts
<1>7. Follows(r, s)
  BY <1>4, <1>5, <1>6 DEF Follows
<1> QED
  BY <1>1, <1>2, <1>3, <1>4, <1>7

LEMMA FollowsTransitive ==
    ASSUME NEW r \in States, NEW s \in States, NEW q \in States, Follows(r, s), Follows(s, q)
    PROVE  Follows(r, q)
<1>1. r.time \in Nat /\ s.time \in Nat /\ q.time \in Nat
  BY DEF States
<1>2. q.tip \in Transfers => q.tip \in History[r.tip]
  BY HistoryFacts DEF Follows
<1> QED
  BY <1>1, <1>2 DEF Follows

\* A replay that succeeds keeps the counter of the day true.
LEMMA SoundReplay ==
    ASSUME NEW s \in States, Sound(s), NEW ts \in Seq(Transfers), ts # <<>>, Replay(s, ts) # Invalid
    PROVE  /\ Replay(s, ts) \in States /\ Sound(Replay(s, ts)) /\ Replay(s, ts).tip = Last(ts)
           /\ Follows(Replay(s, ts), s) /\ Replay(s, ts).time > s.time
<1>1. PICK n \in Nat \ {0} : n = Len(ts)
  BY LastFacts
<1>2. \A i \in 1..n : ts[i] \in Transfers
  BY <1>1, ElementOfSeq
<1>3. PICK f : f[0] = s /\ (\A i \in 1..n : f[i] = Replayed(f[i - 1], ts[i])) /\ Replay(s, ts) = f[n]
  BY <1>1, ReplayDef
<1> DEFINE Good(i) == /\ f[i] \in States /\ Sound(f[i]) /\ f[i].tip = ts[i]
                      /\ Follows(f[i], s) /\ f[i].time > s.time
           P == {i \in 1..n : f[i] # Invalid => Good(i)}
<1>4. ASSUME NEW i \in 1..n, f[i] # Invalid
      PROVE  f[i - 1] # Invalid /\ Extends(f[i - 1], ts[i]) /\ f[i] = After(f[i - 1], ts[i])
  BY <1>3, <1>4 DEF Replayed
<1>5. 1 \in P
  <2>1. ASSUME f[1] # Invalid
        PROVE  Good(1)
    <3>1. Extends(s, ts[1]) /\ f[1] = After(s, ts[1]) /\ ts[1] \in Transfers
      BY <1>1, <1>2, <1>3, <1>4, <2>1
    <3> QED
      BY <3>1, SoundAfter
  <2> QED
    BY <1>1, <2>1
<1>6. ASSUME NEW i \in 1..n - 1, i \in P
      PROVE  i + 1 \in P
  <2>1. ASSUME f[i + 1] # Invalid
        PROVE  Good(i + 1)
    <3>1. /\ f[i] # Invalid /\ Extends(f[i], ts[i + 1]) /\ f[i + 1] = After(f[i], ts[i + 1])
          /\ ts[i + 1] \in Transfers
      BY <1>1, <1>2, <1>4, <2>1
    <3>2. f[i] \in States /\ Sound(f[i]) /\ Follows(f[i], s) /\ f[i].time > s.time
      BY <1>6, <3>1
    <3>3. /\ f[i + 1] \in States /\ Sound(f[i + 1]) /\ f[i + 1].tip = ts[i + 1]
          /\ Follows(f[i + 1], f[i]) /\ f[i + 1].time > f[i].time
      BY <3>1, <3>2, SoundAfter
    <3>4. Follows(f[i + 1], s)
      BY <3>2, <3>3, FollowsTransitive
    <3>5. f[i + 1].time > s.time
      BY <3>2, <3>3 DEF States
    <3> QED
      BY <3>3, <3>4, <3>5
  <2> QED
    BY <1>1, <2>1
<1> HIDE DEF P
<1>7. 1..n \subseteq P
  BY <1>5, <1>6, Along
<1>8. Good(n)
  BY <1>1, <1>3, <1>7 DEF P
<1> QED
  BY <1>1, <1>3, <1>8 DEF Last

-----------------------------------------------------------------------------
(* Verification *)

\* The definitions of the model with the log and the claims as parameters.
AttestsWith(bundle, i, S, B, L, C) ==
    LET item == bundle[i] IN
    /\ item.segment \in S /\ Verified(item.segment, S)
    /\ item.core = CoreOf(Last(item.segment))
    /\ item.core \in L /\ Last(item.core).tip \in C
    /\ IF i = 1 THEN Front(item.core) = <<>>
       ELSE UpTo(bundle, i - 1) \in B /\ Front(item.core) = bundle[i - 1].core

ProvesWith(bundle, S, B, L, C) == \A i \in 1..Len(bundle) : AttestsWith(bundle, i, S, B, L, C)

Stands(bill, S, B, L, C) ==
    /\ ProvesWith(bill.bundle, S, B, L, C) /\ Last(bill.bundle).core = bill.core
    /\ Replay(BaseOf(bill.core), bill.recent) # Invalid

LEMMA ProvesDef ==
    ASSUME NEW bundle, NEW S, NEW B
    PROVE  Proves(bundle, S, B) <=> ProvesWith(bundle, S, B, logged, claimed)
BY DEF Proves, Attests, ProvesWith, AttestsWith

LEMMA StandsDef ==
    ASSUME NEW bill, NEW S, NEW B
    PROVE  /\ StateOf(bill, S, B) # Invalid <=> Stands(bill, S, B, logged, claimed)
           /\ StateOf(bill, S, B) # Invalid => StateOf(bill, S, B) = Replay(BaseOf(bill.core), bill.recent)
BY ProvesDef DEF StateOf, Stands

\* What is verified stays so when the tables and the log grow.
LEMMA VerifiedGrows ==
    ASSUME NEW segment, NEW S, NEW T, S \subseteq T, Verified(segment, S)
    PROVE  Verified(segment, T)
BY DEF Verified, Connects

LEMMA ProvesGrows ==
    ASSUME NEW bundle, NEW S, NEW B, NEW L, NEW C, NEW S2, NEW B2, NEW L2, NEW C2,
           S \subseteq S2, B \subseteq B2, L \subseteq L2, C \subseteq C2, ProvesWith(bundle, S, B, L, C)
    PROVE  ProvesWith(bundle, S2, B2, L2, C2)
<1>1. ASSUME NEW i \in 1..Len(bundle)
      PROVE  AttestsWith(bundle, i, S2, B2, L2, C2)
  <2>1. AttestsWith(bundle, i, S, B, L, C)
    BY DEF ProvesWith
  <2> QED
    BY <2>1, VerifiedGrows DEF AttestsWith
<1> QED
  BY <1>1 DEF ProvesWith

LEMMA StandsGrows ==
    ASSUME NEW bill, NEW S, NEW B, NEW L, NEW C, NEW S2, NEW B2, NEW L2, NEW C2,
           S \subseteq S2, B \subseteq B2, L \subseteq L2, C \subseteq C2, Stands(bill, S, B, L, C)
    PROVE  Stands(bill, S2, B2, L2, C2)
BY ProvesGrows DEF Stands

\* A checkpoint replays from the one before it, the first from the genesis.
LEMMA ItemFacts ==
    ASSUME NEW b \in Bundles, NEW S, NEW B, NEW L, NEW C, ProvesWith(b, S, B, L, C),
           NEW i \in 1..Len(b)
    PROVE  \E ts \in Seq(Transfers) :
               /\ ts # <<>>
               /\ Last(b[i].core) = Replay(IF i = 1 THEN Start ELSE Last(b[i - 1].core), ts)
               /\ Last(b[i].core) # Invalid
<1>1. PICK item : item = b[i]
  OBVIOUS
<1>2. item \in Items
  BY <1>1, ElementOfSeq DEF Bundles
<1>3. PICK seg : seg = item.segment
  OBVIOUS
<1>4. seg \in Segments
  BY <1>2, <1>3 DEF Items
<1>5. PICK k \in Nat \ {0} : k = Len(seg) /\ Last(seg) = seg[k]
  BY <1>4, LastFacts DEF Segments
<1>6. PICK piece : piece = seg[k]
  OBVIOUS
<1>7. \A j \in 1..k : seg[j] \in Pieces
  BY <1>4, <1>5, ElementOfSeq DEF Segments
<1>8. /\ Verified(seg, S) /\ item.core = CoreOf(piece)
      /\ IF i = 1 THEN Front(item.core) = <<>> ELSE Front(item.core) = b[i - 1].core
  <2>1. AttestsWith(b, i, S, B, L, C)
    BY DEF ProvesWith
  <2> QED
    BY <1>1, <1>3, <1>5, <1>6, <2>1 DEF AttestsWith
<1>9. ASSUME NEW j \in 1..k
      PROVE  /\ seg[j].previousCore \in Cores /\ seg[j].transfers \in Seq(Transfers)
             /\ seg[j].transfers # <<>> /\ Replay(seg[j].base, seg[j].transfers) \in States
             /\ CoreOf(seg[j]) # <<>> /\ Front(CoreOf(seg[j])) = seg[j].previousCore
             /\ Last(CoreOf(seg[j])) = Replay(seg[j].base, seg[j].transfers)
  <2>1. seg[j].base \in States /\ seg[j].previousCore \in Cores /\ seg[j].transfers \in Seq(Transfers)
    BY <1>7 DEF Pieces
  <2>2. seg[j].transfers # <<>> /\ Replay(seg[j].base, seg[j].transfers) # Invalid
    BY <1>5, <1>8 DEF Verified, Connects
  <2>3. Replay(seg[j].base, seg[j].transfers) \in States
    BY <2>1, <2>2, ReplayType
  <2>4. seg[j].previousCore \in Seq(States)
    BY <2>1 DEF Cores
  <2> QED
    BY <2>1, <2>2, <2>3, <2>4, AppendFacts DEF CoreOf
<1>10. Connects(seg, k, S)
  BY <1>5, <1>8 DEF Verified
<1>11. k # 1 => k - 1 \in 1..k /\ piece.previousCore = CoreOf(seg[k - 1]) /\ piece.base = Last(piece.previousCore)
  BY <1>6, <1>10 DEF Connects, BaseOf
<1>12. k = 1 => piece.previousCore = <<>> /\ piece.base = Start
  BY <1>6, <1>10 DEF Connects
<1>13. piece.base = IF i = 1 THEN Start ELSE Last(b[i - 1].core)
  <2>1. Front(item.core) = piece.previousCore
    BY <1>6, <1>8, <1>9
  <2>2. CASE i = 1
    <3>1. piece.previousCore = <<>>
      BY <1>8, <2>1, <2>2
    <3>2. k = 1
      BY <1>9, <1>11, <3>1
    <3> QED
      BY <1>12, <2>2, <3>2
  <2>3. CASE i # 1
    <3>1. piece.previousCore = b[i - 1].core
      BY <1>8, <2>1, <2>3
    <3>2. i - 1 \in 1..Len(b)
      BY <2>3
    <3>3. b[i - 1] \in Items
      BY <3>2, ElementOfSeq DEF Bundles
    <3>4. piece.previousCore # <<>>
      BY <3>1, <3>3 DEF Items
    <3> QED
      BY <1>11, <1>12, <2>3, <3>1, <3>4
  <2> QED
    BY <2>2, <2>3
<1>14. Last(item.core) = Replay(piece.base, piece.transfers) /\ Last(item.core) # Invalid
  BY <1>6, <1>8, <1>9, TreeAssumption
<1> QED
  BY <1>1, <1>6, <1>9, <1>13, <1>14

\* The checkpoints of a bundle keep the counter, and each follows those before.
LEMMA BundleFacts ==
    ASSUME NEW b \in Bundles, NEW S, NEW B, NEW L, NEW C, ProvesWith(b, S, B, L, C),
           NEW i \in 1..Len(b)
    PROVE  /\ Last(b[i].core) \in States /\ Sound(Last(b[i].core)) /\ Last(b[i].core).tip \in Transfers
           /\ \A j \in 1..i : Follows(Last(b[i].core), Last(b[j].core))
<1>1. PICK n \in Nat \ {0} : n = Len(b)
  BY LastFacts DEF Bundles
<1> DEFINE st(j) == Last(b[j].core)
           Good(j) == /\ st(j) \in States /\ Sound(st(j)) /\ st(j).tip \in Transfers
                      /\ \A h \in 1..j : Follows(st(j), st(h))
           P == {j \in 1..n : Good(j)}
<1>2. ASSUME NEW j \in 1..n, NEW s \in States, s = IF j = 1 THEN Start ELSE st(j - 1), Sound(s)
      PROVE  /\ st(j) \in States /\ Sound(st(j)) /\ st(j).tip \in Transfers
             /\ Follows(st(j), s) /\ Follows(st(j), st(j))
  <2>1. PICK ts \in Seq(Transfers) : ts # <<>> /\ st(j) = Replay(s, ts) /\ st(j) # Invalid
    BY <1>1, <1>2, ItemFacts
  <2>2. /\ st(j) \in States /\ Sound(st(j)) /\ st(j).tip = Last(ts) /\ Follows(st(j), s)
    BY <1>2, <2>1, SoundReplay
  <2>3. st(j).tip \in Transfers
    BY <2>2 DEF Follows
  <2>4. Follows(st(j), st(j))
    BY <2>2, <2>3, HistoryFacts DEF Follows, States
  <2> QED
    BY <2>2, <2>3, <2>4
<1>3. 1 \in P
  <2>1. Good(1)
    BY <1>1, <1>2, StartFacts
  <2> QED
    BY <1>1, <2>1
<1>4. ASSUME NEW j \in 1..n - 1, j \in P
      PROVE  j + 1 \in P
  <2>1. j + 1 \in 1..n /\ (j + 1) - 1 = j /\ j + 1 # 1
    BY <1>1
  <2>2. Good(j)
    BY <1>4
  <2>3. st(j) = IF j + 1 = 1 THEN Start ELSE st((j + 1) - 1)
    BY <2>1
  <2>4. /\ st(j + 1) \in States /\ Sound(st(j + 1)) /\ st(j + 1).tip \in Transfers
        /\ Follows(st(j + 1), st(j)) /\ Follows(st(j + 1), st(j + 1))
    <3> HIDE DEF st
    <3> QED
      BY <1>2, <2>1, <2>2, <2>3
  <2>5. ASSUME NEW h \in 1..j + 1
        PROVE  Follows(st(j + 1), st(h))
    <3>1. CASE h = j + 1
      BY <2>4, <3>1
    <3>2. CASE h \in 1..j
      <4>1. h \in 1..n /\ Follows(st(j), st(h))
        BY <1>1, <2>2, <3>2
      <4>2. st(h) \in States
        <5>1. b[h] \in Items
          BY <1>1, <4>1, ElementOfSeq DEF Bundles
        <5>2. b[h].core \in Seq(States) \ {<<>>}
          BY <5>1 DEF Items, Cores
        <5> QED
          BY <5>2, LastFacts
      <4> HIDE DEF st
      <4> QED
        BY <2>2, <2>4, <4>1, <4>2, FollowsTransitive
    <3> QED
      BY <1>1, <3>1, <3>2
  <2>6. Good(j + 1)
    BY <2>4, <2>5
  <2> QED
    BY <2>1, <2>6
<1> HIDE DEF P
<1>5. 1..n \subseteq P
  BY <1>3, <1>4, Along
<1> QED
  BY <1>1, <1>5 DEF P

\* A bill that verifies is in the state of its last transfer, which follows its checkpoints.
LEMMA BillFacts ==
    ASSUME NEW bill \in Bills, NEW S, NEW B, NEW L, NEW C, Stands(bill, S, B, L, C)
    PROVE  LET s == Replay(BaseOf(bill.core), bill.recent) IN
           /\ s \in States /\ Sound(s) /\ s.tip = Tip(bill) /\ Tip(bill) \in Transfers
           /\ \A i \in 1..Len(bill.bundle) :
                 /\ Last(bill.bundle[i].core) \in States /\ Sound(Last(bill.bundle[i].core))
                 /\ Last(bill.bundle[i].core).tip \in Transfers
                 /\ Follows(s, Last(bill.bundle[i].core))
                 /\ bill.recent # <<>> => s.time > Last(bill.bundle[i].core).time
<1>1. PICK b : b = bill.bundle
  OBVIOUS
<1>2. b \in Bundles /\ bill.recent \in Seq(Transfers) /\ ProvesWith(b, S, B, L, C) /\ Last(b).core = bill.core
  BY <1>1 DEF Stands, Bills
<1>3. PICK n \in Nat \ {0} : n = Len(b) /\ Last(b) = b[n]
  BY <1>2, LastFacts DEF Bundles
<1>4. \A i \in 1..n : /\ Last(b[i].core) \in States /\ Sound(Last(b[i].core)) /\ Last(b[i].core).tip \in Transfers
                      /\ \A j \in 1..i : Follows(Last(b[i].core), Last(b[j].core))
  BY <1>2, <1>3, BundleFacts
<1>5. PICK base : base = Last(b[n].core)
  OBVIOUS
<1>6. PICK s : s = Replay(base, bill.recent)
  OBVIOUS
<1>7. BaseOf(bill.core) = base
  BY <1>2, <1>3, <1>5 DEF BaseOf
<1>8. s # Invalid /\ base \in States /\ Sound(base) /\ base.tip \in Transfers /\ Follows(base, base)
  BY <1>3, <1>4, <1>5, <1>6, <1>7 DEF Stands
<1>9. /\ s \in States /\ Sound(s) /\ s.tip = Tip(bill) /\ s.tip \in Transfers /\ Follows(s, base)
      /\ bill.recent # <<>> => s.time > base.time
  <2>1. CASE bill.recent = <<>>
    <3>1. s = base
      BY <1>2, <1>6, <1>8, <2>1, ReplayType
    <3> QED
      BY <1>7, <1>8, <2>1, <3>1 DEF Tip, BaseOf
  <2>2. CASE bill.recent # <<>>
    <3>1. /\ s \in States /\ Sound(s) /\ s.tip = Last(bill.recent) /\ Follows(s, base) /\ s.time > base.time
      BY <1>2, <1>6, <1>8, <2>2, SoundReplay
    <3> QED
      BY <2>2, <3>1 DEF Tip, Follows
  <2> QED
    BY <2>1, <2>2
<1>10. ASSUME NEW i \in 1..n
       PROVE  Follows(s, Last(b[i].core)) /\ (bill.recent # <<>> => s.time > Last(b[i].core).time)
  <2>1. Follows(base, Last(b[i].core)) /\ Last(b[i].core) \in States
    BY <1>3, <1>4, <1>5
  <2>2. Follows(s, Last(b[i].core))
    BY <1>8, <1>9, <2>1, FollowsTransitive
  <2>3. bill.recent # <<>> => s.time > Last(b[i].core).time
    BY <1>8, <1>9, <2>1 DEF Follows, States
  <2> QED
    BY <2>2, <2>3
<1> QED
  BY <1>1, <1>3, <1>4, <1>6, <1>7, <1>9, <1>10

-----------------------------------------------------------------------------
(* Tables *)

BillRows == [bill : Bills, status : {"pending", "verified", "settled"}]

LEMMA RemoveAtFacts ==
    ASSUME NEW S, NEW s \in Seq(S), NEW i \in 1..Len(s)
    PROVE  RemoveAt(s, i) \in Seq(S) /\ Range(RemoveAt(s, i)) = {s[j] : j \in 1..Len(s) \ {i}}
<1>1. PICK n \in Nat : n = Len(s)
  BY LenProperties
<1>2. i \in 1..n /\ \A j \in 1..n : s[j] \in S
  BY <1>1, ElementOfSeq
<1>3. PICK a : a = SubSeq(s, 1, i - 1)
  OBVIOUS
<1>4. PICK z : z = SubSeq(s, i + 1, n)
  OBVIOUS
<1>5. a \in Seq(S) /\ Len(a) = i - 1 /\ \A j \in 1..i - 1 : a[j] = s[j]
  <2>1. PICK m \in Int : m = i - 1
    BY <1>2
  <2>2. 1 \in Int /\ \A j \in 1..m : s[j] \in S
    BY <1>2, <2>1
  <2>3. /\ SubSeq(s, 1, m) \in Seq(S)
        /\ Len(SubSeq(s, 1, m)) = IF 1 <= m THEN m - 1 + 1 ELSE 0
        /\ \A j \in 1..m - 1 + 1 : SubSeq(s, 1, m)[j] = s[1 + j - 1]
    BY <2>2, SubSeqProperties
  <2> QED
    BY <1>2, <1>3, <2>1, <2>3
<1>6. z \in Seq(S) /\ Len(z) = n - i /\ \A j \in 1..n - i : z[j] = s[i + j]
  <2>1. PICK m \in Int : m = i + 1
    BY <1>2
  <2>2. n \in Int /\ \A j \in m..n : s[j] \in S
    BY <1>2, <2>1
  <2>3. /\ SubSeq(s, m, n) \in Seq(S)
        /\ Len(SubSeq(s, m, n)) = IF m <= n THEN n - m + 1 ELSE 0
        /\ \A j \in 1..n - m + 1 : SubSeq(s, m, n)[j] = s[m + j - 1]
    BY <2>2, SubSeqProperties
  <2>4. z \in Seq(S) /\ Len(z) = IF m <= n THEN n - m + 1 ELSE 0
    BY <1>4, <2>1, <2>3
  <2>5. \A j \in 1..n - m + 1 : z[j] = s[m + j - 1]
    BY <1>4, <2>1, <2>3
  <2>6. n - m + 1 = n - i /\ \A j \in 1..n - i : m + j - 1 = i + j
    BY <1>2, <2>1
  <2>7. Len(z) = n - i
    BY <1>2, <2>1, <2>4
  <2> QED
    BY <2>4, <2>5, <2>6, <2>7
<1>7. PICK q : q = a \o z
  OBVIOUS
<1>8. q \in Seq(S) /\ Len(q) = n - 1 /\ \A j \in 1..n - 1 : q[j] = IF j <= i - 1 THEN s[j] ELSE s[j + 1]
  <2>1. /\ a \o z \in Seq(S) /\ Len(a \o z) = Len(a) + Len(z)
        /\ \A j \in 1..Len(a) + Len(z) : (a \o z)[j] = IF j <= Len(a) THEN a[j] ELSE z[j - Len(a)]
    BY <1>5, <1>6, ConcatProperties
  <2>2. Len(a) + Len(z) = n - 1
    BY <1>2, <1>5, <1>6
  <2>3. ASSUME NEW j \in 1..n - 1
        PROVE  q[j] = IF j <= i - 1 THEN s[j] ELSE s[j + 1]
    <3>1. q[j] = IF j <= i - 1 THEN a[j] ELSE z[j - (i - 1)]
      BY <1>5, <1>7, <2>1, <2>2, <2>3
    <3>2. j > i - 1 => j - (i - 1) \in 1..n - i /\ i + (j - (i - 1)) = j + 1
      BY <1>2, <2>3
    <3> QED
      BY <1>2, <1>5, <1>6, <3>1, <3>2
  <2> QED
    BY <1>7, <2>1, <2>2, <2>3
<1>9. Range(q) = {q[j] : j \in 1..n - 1}
  BY <1>8, RangeFacts
<1>10. ASSUME NEW j \in 1..n, j # i
       PROVE  \E h \in 1..n - 1 : q[h] = s[j]
  <2>1. CASE j < i
    BY <1>2, <1>8, <2>1
  <2>2. CASE j > i
    <3>1. j - 1 \in 1..n - 1 /\ q[j - 1] = s[j]
      BY <1>2, <1>8, <2>2
    <3> QED
      BY <3>1
  <2> QED
    BY <1>2, <1>10, <2>1, <2>2
<1>11. ASSUME NEW j \in 1..n - 1
       PROVE  \E h \in 1..n \ {i} : q[j] = s[h]
  <2>1. CASE j <= i - 1
    BY <1>2, <1>8, <2>1
  <2>2. CASE ~(j <= i - 1)
    <3>1. j + 1 \in 1..n \ {i} /\ q[j] = s[j + 1]
      BY <1>2, <1>8, <2>2
    <3> QED
      BY <3>1
  <2> QED
    BY <2>1, <2>2
<1>12. RemoveAt(s, i) = q
  BY <1>1, <1>3, <1>4, <1>7 DEF RemoveAt
<1>13. Range(q) = {s[j] : j \in 1..n \ {i}}
  <2>1. ASSUME NEW x \in Range(q)
        PROVE  x \in {s[j] : j \in 1..n \ {i}}
    <3>1. PICK j \in 1..n - 1 : x = q[j]
      BY <1>9
    <3> QED
      BY <1>11, <3>1
  <2>2. ASSUME NEW x \in {s[j] : j \in 1..n \ {i}}
        PROVE  x \in Range(q)
    <3>1. PICK j \in 1..n \ {i} : x = s[j]
      OBVIOUS
    <3> QED
      BY <1>9, <1>10, <3>1
  <2> QED
    BY <2>1, <2>2
<1> QED
  BY <1>1, <1>8, <1>12, <1>13

\* A put leaves every bill in the table and adds none but its own.
LEMMA PutFacts ==
    ASSUME NEW table \in Seq(BillRows), NEW bill \in Bills,
           NEW status \in {"pending", "verified", "settled"}
    PROVE  /\ Put(table, bill, status) \in Seq(BillRows)
           /\ \A r \in Range(Put(table, bill, status)) : r.bill = bill \/ r \in Range(table)
           /\ \A r \in Range(table) : \E q \in Range(Put(table, bill, status)) : q.bill = r.bill
<1>1. PICK n \in Nat : n = Len(table)
  BY LenProperties
<1>2. (\A j \in 1..n : table[j] \in BillRows) /\ Range(table) = {table[j] : j \in 1..n}
  BY <1>1, ElementOfSeq, RangeFacts
<1>3. ASSUME NEW t \in Seq(BillRows), NEW row \in BillRows
      PROVE  Append(t, row) \in Seq(BillRows) /\ Range(Append(t, row)) = Range(t) \cup {row}
  <2>1. PICK a : a = Append(t, row)
    OBVIOUS
  <2>2. /\ a \in Seq(BillRows) /\ Len(a) = Len(t) + 1 /\ a[Len(t) + 1] = row
        /\ \A i \in 1..Len(t) : a[i] = t[i]
    BY <2>1, AppendProperties
  <2>3. Len(t) \in Nat /\ Range(t) = {t[i] : i \in 1..Len(t)} /\ Range(a) = {a[i] : i \in 1..Len(a)}
    BY <2>2, LenProperties, RangeFacts
  <2>4. Range(a) = Range(t) \cup {row}
    BY <2>2, <2>3
  <2> QED
    BY <2>1, <2>2, <2>4
<1>4. CASE \E i \in 1..n : table[i].bill = bill
  <2>1. PICK i : i = CHOOSE j \in 1..n : table[j].bill = bill
    OBVIOUS
  <2>2. i \in 1..n /\ table[i].bill = bill
    BY <1>4, <2>1
  <2>3. PICK row : row = [bill |-> bill, status |-> Stronger(table[i].status, status)]
    OBVIOUS
  <2>4. row \in BillRows /\ row.bill = bill
    BY <1>2, <2>2, <2>3 DEF BillRows, Stronger
  <2>5. PICK rest : rest = RemoveAt(table, i)
    OBVIOUS
  <2>6. rest \in Seq(BillRows) /\ Range(rest) = {table[j] : j \in 1..n \ {i}}
    BY <1>1, <2>2, <2>5, RemoveAtFacts
  <2>7. Put(table, bill, status) = Append(rest, row)
    BY <1>1, <1>4, <2>1, <2>3, <2>5 DEF Put
  <2>8. Append(rest, row) \in Seq(BillRows) /\ Range(Append(rest, row)) = Range(rest) \cup {row}
    BY <1>3, <2>4, <2>6
  <2> QED
    BY <1>2, <2>2, <2>4, <2>6, <2>7, <2>8
<1>5. CASE ~\E i \in 1..n : table[i].bill = bill
  <2>1. PICK row : row = [bill |-> bill, status |-> status]
    OBVIOUS
  <2>2. row \in BillRows /\ row.bill = bill
    BY <2>1 DEF BillRows
  <2>3. Put(table, bill, status) = Append(table, row)
    BY <1>1, <1>5, <2>1 DEF Put
  <2> QED
    BY <1>3, <2>2, <2>3
<1> QED
  BY <1>4, <1>5

\* An order of a finite set lists its members.
LEMMA OrderFacts ==
    ASSUME NEW S, IsFiniteSet(S), NEW list \in SetToSeqs(S)
    PROVE  list \in Seq(S) /\ Range(list) = S
<1>1. PICK n : n = Cardinality(S)
  OBVIOUS
<1>2. n \in Nat
  BY <1>1, FS_CardinalityType
<1>3. list \in [1..n -> S] /\ \A i, j \in 1..n : i # j => list[i] # list[j]
  BY <1>1 DEF SetToSeqs
<1>4. list \in Injection(1..n, S)
  BY <1>3 DEF Injection, IsInjective
<1>5. IsFiniteSet(1..n) /\ Cardinality(1..n) = Cardinality(S)
  BY <1>1, <1>2, FS_Interval
<1>6. list \in Surjection(1..n, S)
  BY <1>4, <1>5, FS_Injection
<1>7. Range(list) = S
  BY <1>3, <1>6 DEF Surjection, Range
<1>8. list \in Seq(S)
  BY <1>2, <1>3
<1> QED
  BY <1>7, <1>8

\* The segments behind a bundle.
LEMMA BehindFacts ==
    ASSUME NEW b \in Bundles, NEW B
    PROVE  SegmentsBehind(b, B) \subseteq Segments /\ IsFiniteSet(SegmentsBehind(b, B))
<1>1. PICK n \in Nat : n = Len(b)
  BY LastFacts DEF Bundles
<1>2. \A i \in 1..n : b[i] \in Items /\ b[i].segment \in Segments
  <2>1. \A i \in 1..n : b[i] \in Items
    BY <1>1, ElementOfSeq DEF Bundles
  <2> QED
    BY <2>1 DEF Items
<1> DEFINE f == [i \in 1..n |-> b[i].segment]
           T == {b[i].segment : i \in 1..n}
<1>3. f \in Surjection(1..n, T)
  BY DEF Surjection
<1>4. IsFiniteSet(1..n)
  BY FS_Interval
<1>5. IsFiniteSet(T)
  <2> HIDE DEF f, T
  <2> QED
    BY <1>3, <1>4, FS_Surjection
<1>6. SegmentsBehind(b, B) \subseteq T
  BY <1>1 DEF SegmentsBehind
<1>7. T \subseteq Segments
  BY <1>2
<1> HIDE DEF T
<1> QED
  BY <1>5, <1>6, <1>7, FS_Subset

\* Segments that are stored one after the other are verified with what is stored then.
LEMMA StoredFacts ==
    ASSUME NEW S \in SUBSET Segments, NEW list \in Seq(Segments), NEW k \in 0..Len(list),
           StoresFirst(k, list, S), \A s \in S : Verified(s, S)
    PROVE  LET T == S \cup Range(UpTo(list, k)) IN
           /\ S \subseteq T /\ T \subseteq Segments /\ \A s \in T : Verified(s, T)
           /\ k = Len(list) => T = S \cup Range(list)
<1>1. PICK n \in Nat : n = Len(list)
  BY LenProperties
<1>2. \A h \in 0..n : Range(UpTo(list, h)) = {list[i] : i \in 1..h}
  BY <1>1, RangeFacts
<1>3. PICK T : T = S \cup Range(UpTo(list, k))
  OBVIOUS
<1>4. T = S \cup {list[i] : i \in 1..k} /\ k \in 0..n
  BY <1>1, <1>2, <1>3
<1>5. ASSUME NEW i \in 1..k
      PROVE  Verified(list[i], T)
  <2>1. PICK U : U = S \cup Range(UpTo(list, i - 1))
    OBVIOUS
  <2>2. Verified(list[i], U)
    BY <1>1, <2>1 DEF StoresFirst
  <2>3. U = S \cup {list[j] : j \in 1..i - 1}
    BY <1>2, <1>4, <2>1
  <2>4. U \subseteq T
    BY <1>4, <2>3
  <2> QED
    BY <2>2, <2>4, VerifiedGrows
<1>6. ASSUME NEW s \in T
      PROVE  Verified(s, T)
  <2>1. CASE s \in S
    BY <1>4, <2>1, VerifiedGrows
  <2>2. CASE s \notin S
    <3>1. PICK i \in 1..k : s = list[i]
      BY <1>4, <2>2
    <3> QED
      BY <1>5, <3>1
  <2> QED
    BY <2>1, <2>2
<1>7. T \subseteq Segments
  BY <1>1, <1>4, ElementOfSeq
<1>8. k = Len(list) => Range(UpTo(list, k)) = Range(list)
  BY UpToFacts
<1> QED
  BY <1>3, <1>4, <1>6, <1>7, <1>8

\* What an announcement carries and its bundle refers to is enough to verify it again.
LEMMA DeliveredFacts ==
    ASSUME NEW bill \in Bills, NEW S, NEW M, NEW T, NEW B, NEW L, NEW C,
           Stands(bill, S \cup M, B, L, C),
           S \subseteq T, M \cap SegmentsBehind(bill.bundle, B) \subseteq T, \A s \in T : Verified(s, T)
    PROVE  Stands(bill, T, B, L, C)
<1>1. PICK b : b = bill.bundle
  OBVIOUS
<1>2. PICK n \in Nat : n = Len(b)
  BY <1>1, LastFacts DEF Bills, Bundles
<1>3. \A i \in 1..n : AttestsWith(b, i, S \cup M, B, L, C)
  BY <1>1, <1>2 DEF Stands, ProvesWith
<1>4. ASSUME NEW i \in 1..n
      PROVE  AttestsWith(b, i, T, B, L, C)
  <2>1. ASSUME NEW j \in i..n - 1
        PROVE  UpTo(b, j) \in B
    <3>1. AttestsWith(b, j + 1, S \cup M, B, L, C) /\ j + 1 # 1 /\ (j + 1) - 1 = j
      BY <1>3
    <3> QED
      BY <3>1 DEF AttestsWith
  <2>2. b[i].segment \in SegmentsBehind(b, B)
    BY <1>2, <2>1 DEF SegmentsBehind
  <2>3. b[i].segment \in T
    BY <1>1, <1>3, <2>2 DEF AttestsWith
  <2> QED
    BY <1>3, <2>3 DEF AttestsWith
<1> QED
  BY <1>1, <1>2, <1>4 DEF Stands, ProvesWith

-----------------------------------------------------------------------------
(* The inductive invariant *)

\* The segments of a bundle are the segment of its last item, piece by piece.
Shaped(bundle) ==
    \A i \in 1..Len(bundle) :
        /\ Len(bundle[i].segment) = i
        /\ \A j \in 1..i : UpTo(bundle[i].segment, j) = bundle[j].segment

IsAnnounced(bill, known) == \E e \in known : e.bill = bill

\* What was compacted into an item of a bundle had been announced on the bundle before.
Grown(bundle, known) ==
    \A i \in 2..Len(bundle) : \E e \in known :
        e.bill.bundle = UpTo(bundle, i - 1) /\ Tip(e.bill) = Last(bundle[i].core).tip

Earlier(bundle) == {UpTo(bundle, i) : i \in 1..Len(bundle) - 1}

\* A bill of a table with these segments and bundles can be verified again, and the
\* transfers since its checkpoint were announced on it.
BillGood(bill, S, B, L, C, A) ==
    /\ bill.bundle \in B /\ Stands(bill, S, B, L, C)
    /\ bill.recent # <<>> => IsAnnounced(bill, A)

BundleGood(bundle, A) == Shaped(bundle) /\ Grown(bundle, A)

\* An announcement carries all the segments: with them and the bundles before its own
\* it is verified.
MessageGood(m, L, C, A) ==
    /\ m.bill.recent # <<>> /\ BundleGood(m.bill.bundle, A)
    /\ Stands(m.bill, m.segments, Earlier(m.bill.bundle), L, C)

\* A compaction makes a good bundle of an announced bill and stores it before the bill.
JobGood(j, S, B, L, C, A) ==
    /\ j.stage # "idle" => j.bill \in Bills /\ j.bill.recent # <<>> /\ IsAnnounced(j.bill, A)
    /\ j.stage \in {"submitted", "proved", "archived", "bundled"} =>
          /\ j.segment \in Segments /\ Verified(j.segment, S)
          /\ j.bundle \in Bundles /\ BundleGood(j.bundle, A)
    /\ j.stage = "bundled" => j.bundle \in B /\ ProvesWith(j.bundle, S, B, L, C)

RowsInv ==
    \A n \in Nodes : \A r \in Rows(n) :
        BillGood(r.bill, segments[n], bundles[n], logged, claimed, announced)

SegmentsInv == \A n \in Nodes : \A s \in segments[n] : Verified(s, segments[n])

BundlesInv == \A n \in Nodes : \A x \in bundles[n] : BundleGood(x, announced)

AnnouncedInv == \A m \in announced : MessageGood(m, logged, claimed, announced)

JobsInv == \A n \in Nodes : JobGood(job[n], segments[n], bundles[n], logged, claimed, announced)

ChainInv == BillTypeOK /\ RowsInv /\ SegmentsInv /\ BundlesInv /\ AnnouncedInv /\ JobsInv

-----------------------------------------------------------------------------
(* The shape of bundles *)

\* The segments behind a bundle and the bundles before it carry all its evidence.
LEMMA Portable ==
    ASSUME NEW b \in Bundles, NEW S, NEW B, NEW L, NEW C, Shaped(b), ProvesWith(b, S, B, L, C)
    PROVE  ProvesWith(b, SegmentsBehind(b, B) \cap S, Earlier(b), L, C)
<1>1. PICK n \in Nat : n = Len(b)
  BY LastFacts DEF Bundles
<1>2. \A i \in 1..n : AttestsWith(b, i, S, B, L, C)
  BY <1>1 DEF ProvesWith
<1>3. PICK T : T = SegmentsBehind(b, B) \cap S
  OBVIOUS
<1>4. ASSUME NEW i \in 1..n
      PROVE  b[i].segment \in T
  <2>1. ASSUME NEW j \in i..n - 1
        PROVE  UpTo(b, j) \in B
    <3>1. AttestsWith(b, j + 1, S, B, L, C) /\ j + 1 # 1 /\ (j + 1) - 1 = j
      BY <1>2
    <3> QED
      BY <3>1 DEF AttestsWith
  <2>2. b[i].segment \in SegmentsBehind(b, B)
    BY <1>1, <2>1 DEF SegmentsBehind
  <2> QED
    BY <1>2, <1>3, <2>2 DEF AttestsWith
<1>5. ASSUME NEW i \in 1..n
      PROVE  AttestsWith(b, i, T, Earlier(b), L, C)
  <2>1. AttestsWith(b, i, S, B, L, C)
    BY <1>2
  <2>2. PICK seg : seg = b[i].segment
    OBVIOUS
  <2>3. Len(seg) = i /\ \A j \in 1..i : UpTo(seg, j) = b[j].segment
    BY <1>1, <2>2 DEF Shaped
  <2>4. \A j \in 2..i : UpTo(seg, j - 1) \in T
    BY <1>4, <2>3
  <2>5. Verified(seg, S)
    BY <2>1, <2>2 DEF AttestsWith
  <2>6. Verified(seg, T)
    BY <2>3, <2>4, <2>5 DEF Verified, Connects
  <2>7. i # 1 => UpTo(b, i - 1) \in Earlier(b)
    BY <1>1 DEF Earlier
  <2> QED
    BY <1>4, <2>1, <2>2, <2>6, <2>7 DEF AttestsWith
<1> QED
  BY <1>1, <1>3, <1>5 DEF ProvesWith

\* A compaction keeps the shape.
LEMMA ShapedAppend ==
    ASSUME NEW b \in Bundles, Shaped(b), NEW piece \in Pieces, NEW item \in Items,
           item.segment = Append(Last(b).segment, piece)
    PROVE  Shaped(Append(b, item))
<1>1. PICK n \in Nat \ {0} : n = Len(b) /\ Last(b) = b[n] /\ Last(b) \in Items
  BY LastFacts DEF Bundles
<1>2. PICK old : old = b[n].segment
  OBVIOUS
<1>3. old \in Seq(Pieces)
  BY <1>1, <1>2 DEF Items, Segments
<1>4. Len(old) = n /\ \A j \in 1..n : UpTo(old, j) = b[j].segment
  BY <1>1, <1>2 DEF Shaped
<1>5. PICK seg : seg = item.segment
  OBVIOUS
<1>6. seg = Append(old, piece)
  BY <1>1, <1>2, <1>5
<1>7. /\ seg \in Seq(Pieces) /\ Len(seg) = n + 1
      /\ \A j \in 0..n : UpTo(seg, j) = UpTo(old, j)
  BY <1>3, <1>4, <1>6, AppendFacts
<1>8. UpTo(seg, n + 1) = seg
  BY <1>7, UpToFacts
<1>9. PICK a : a = Append(b, item)
  OBVIOUS
<1>10. Len(a) = n + 1 /\ a[n + 1] = item /\ \A i \in 1..n : a[i] = b[i]
  BY <1>1, <1>9, AppendFacts DEF Bundles
<1>11. ASSUME NEW i \in 1..n + 1
       PROVE  /\ Len(a[i].segment) = i
              /\ \A j \in 1..i : UpTo(a[i].segment, j) = a[j].segment
  <2>1. CASE i \in 1..n
    <3>1. Len(b[i].segment) = i /\ \A j \in 1..i : UpTo(b[i].segment, j) = b[j].segment
      BY <1>1, <2>1 DEF Shaped
    <3> QED
      BY <1>10, <2>1, <3>1
  <2>2. CASE i = n + 1
    <3>1. a[i].segment = seg
      BY <1>5, <1>10, <2>2
    <3>2. \A j \in 1..n : UpTo(seg, j) = a[j].segment
      BY <1>4, <1>7, <1>10
    <3> QED
      BY <1>7, <1>8, <2>2, <3>1, <3>2
  <2> QED
    BY <2>1, <2>2
<1> QED
  BY <1>9, <1>10, <1>11 DEF Shaped

LEMMA GrownAppend ==
    ASSUME NEW b \in Bundles, NEW A, Grown(b, A), NEW item \in Items,
           NEW e \in A, e.bill.bundle = b, Tip(e.bill) = Last(item.core).tip
    PROVE  Grown(Append(b, item), A)
<1>1. PICK n \in Nat \ {0} : n = Len(b)
  BY LastFacts DEF Bundles
<1>2. PICK a : a = Append(b, item)
  OBVIOUS
<1>3. /\ Len(a) = n + 1 /\ a[n + 1] = item /\ UpTo(a, n) = b
      /\ \A i \in 1..n : a[i] = b[i]
      /\ \A i \in 0..n : UpTo(a, i) = UpTo(b, i)
  BY <1>1, <1>2, AppendFacts DEF Bundles
<1>4. ASSUME NEW i \in 2..n + 1
      PROVE  \E x \in A : x.bill.bundle = UpTo(a, i - 1) /\ Tip(x.bill) = Last(a[i].core).tip
  <2>1. CASE i \in 2..n
    <3>1. PICK x \in A : x.bill.bundle = UpTo(b, i - 1) /\ Tip(x.bill) = Last(b[i].core).tip
      BY <1>1, <2>1 DEF Grown
    <3> QED
      BY <1>3, <2>1, <3>1
  <2>2. CASE i = n + 1
    BY <1>3, <2>2
  <2> QED
    BY <2>1, <2>2
<1> QED
  BY <1>2, <1>3, <1>4 DEF Grown

\* What is good stays so when everything grows.
LEMMA GrownGrows ==
    ASSUME NEW b, NEW A, NEW A2, A \subseteq A2, Grown(b, A)
    PROVE  Grown(b, A2)
BY DEF Grown

LEMMA BillGrows ==
    ASSUME NEW bill, NEW S, NEW B, NEW L, NEW C, NEW A, NEW S2, NEW B2, NEW L2, NEW C2, NEW A2,
           S \subseteq S2, B \subseteq B2, L \subseteq L2, C \subseteq C2, A \subseteq A2,
           BillGood(bill, S, B, L, C, A)
    PROVE  BillGood(bill, S2, B2, L2, C2, A2)
<1>1. Stands(bill, S2, B2, L2, C2)
  BY StandsGrows DEF BillGood
<1> QED
  BY <1>1 DEF BillGood, IsAnnounced

LEMMA BundleGrows ==
    ASSUME NEW b, NEW A, NEW A2, A \subseteq A2, BundleGood(b, A)
    PROVE  BundleGood(b, A2)
BY GrownGrows DEF BundleGood

LEMMA MessageGrows ==
    ASSUME NEW m, NEW L, NEW C, NEW A, NEW L2, NEW C2, NEW A2,
           L \subseteq L2, C \subseteq C2, A \subseteq A2, MessageGood(m, L, C, A)
    PROVE  MessageGood(m, L2, C2, A2)
<1>1. Stands(m.bill, m.segments, Earlier(m.bill.bundle), L, C)
  BY DEF MessageGood
<1>2. Stands(m.bill, m.segments, Earlier(m.bill.bundle), L2, C2)
  BY <1>1, StandsGrows
<1> QED
  BY <1>2, BundleGrows DEF MessageGood

LEMMA JobGrows ==
    ASSUME NEW j, NEW S, NEW B, NEW L, NEW C, NEW A, NEW S2, NEW B2, NEW L2, NEW C2, NEW A2,
           S \subseteq S2, B \subseteq B2, L \subseteq L2, C \subseteq C2, A \subseteq A2,
           JobGood(j, S, B, L, C, A)
    PROVE  JobGood(j, S2, B2, L2, C2, A2)
<1>1. IsAnnounced(j.bill, A) => IsAnnounced(j.bill, A2)
  BY DEF IsAnnounced
<1>2. Verified(j.segment, S) => Verified(j.segment, S2)
  BY VerifiedGrows
<1>3. BundleGood(j.bundle, A) => BundleGood(j.bundle, A2)
  BY BundleGrows
<1>4. ProvesWith(j.bundle, S, B, L, C) => ProvesWith(j.bundle, S2, B2, L2, C2)
  BY ProvesGrows
<1> QED
  BY <1>1, <1>2, <1>3, <1>4 DEF JobGood

-----------------------------------------------------------------------------
(* The properties follow from the invariant *)

LEMMA RowFacts ==
    ASSUME BillTypeOK, NEW n \in Nodes, NEW r \in Rows(n)
    PROVE  r \in BillRows /\ r.bill \in Bills /\ r.bill.bundle \in Bundles
<1>1. rows[n] \in Seq(BillRows)
  BY DEF BillTypeOK, BillRows
<1>2. r \in BillRows
  BY <1>1, RangeFacts DEF Rows
<1> QED
  BY <1>2 DEF BillRows, Bills

LEMMA StandAlone ==
    ASSUME ChainInv
    PROVE  StoresStandAlone
BY StandsDef DEF ChainInv, RowsInv, BillGood, StoresStandAlone

LEMMA LimitHolds ==
    ASSUME ChainInv
    PROVE  DailyLimitHolds
<1> SUFFICES ASSUME NEW n \in Nodes, NEW r \in Rows(n), NEW t \in History[Tip(r.bill)]
             PROVE  Cardinality({s \in History[Tip(r.bill)] : Day(Time[s]) = Day(Time[t])}) <= MaxPerDay
  BY DEF DailyLimitHolds
<1>1. r.bill \in Bills
  BY RowFacts DEF ChainInv
<1>2. Stands(r.bill, segments[n], bundles[n], logged, claimed)
  BY DEF ChainInv, RowsInv, BillGood
<1>3. PICK s : s = Replay(BaseOf(r.bill.core), r.bill.recent)
  OBVIOUS
<1>4. Sound(s) /\ s.tip = Tip(r.bill) /\ Tip(r.bill) \in Transfers
  BY <1>1, <1>2, <1>3, BillFacts
<1>5. s # Start
  BY <1>4, TreeAssumption DEF Start
<1>6. Cardinality(SameDay(s.tip, t)) <= MaxPerDay
  BY <1>4, <1>5 DEF Sound
<1> QED
  BY <1>4, <1>6 DEF SameDay

LEMMA HeardGoesOn ==
    ASSUME ChainInv
    PROVE  WhoHeardAllGoesOn
<1> SUFFICES ASSUME NEW n \in Nodes, NEW m \in announced,
                    \A e \in announced : Tip(e.bill) \in History[Tip(m.bill)] \ {Tip(m.bill)} => Holds(n, e.bill)
             PROVE  VerifiesAnnouncement(n, m)
  BY DEF WhoHeardAllGoesOn
<1>1. PICK b : b = m.bill.bundle
  OBVIOUS
<1>2. m.bill \in Bills
  BY DEF ChainInv, BillTypeOK
<1>3. /\ m.bill.recent # <<>> /\ Grown(b, announced)
      /\ Stands(m.bill, m.segments, Earlier(b), logged, claimed)
  BY <1>1 DEF ChainInv, AnnouncedInv, MessageGood, BundleGood
<1>4. PICK len \in Nat \ {0} : len = Len(b)
  BY <1>1, <1>2, LastFacts DEF Bills, Bundles
<1>5. PICK s : s = Replay(BaseOf(m.bill.core), m.bill.recent)
  OBVIOUS
<1>6. Sound(s) /\ s \in States /\ s.tip = Tip(m.bill) /\ Tip(m.bill) \in Transfers
  BY <1>2, <1>3, <1>5, BillFacts
<1>7. ASSUME NEW i \in 1..len
      PROVE  /\ Last(b[i].core).tip \in History[Tip(m.bill)] /\ Last(b[i].core).tip # Tip(m.bill)
  <2>1. PICK q : q = Last(b[i].core)
    OBVIOUS
  <2>2. q \in States /\ Sound(q) /\ q.tip \in Transfers /\ Follows(s, q) /\ s.time > q.time
    BY <1>1, <1>2, <1>3, <1>4, <1>5, <2>1, BillFacts
  <2>3. s.time = Time[s.tip] /\ q.time = Time[q.tip]
    BY <1>6, <2>2, TreeAssumption DEF Sound, Start
  <2>4. q.tip # s.tip
    BY <1>6, <2>2, <2>3 DEF States
  <2> QED
    BY <1>6, <2>1, <2>2, <2>4 DEF Follows
<1>8. ASSUME NEW i \in 1..len - 1
      PROVE  UpTo(b, i) \in bundles[n]
  <2>1. i + 1 \in 2..len /\ i + 1 \in 1..len /\ (i + 1) - 1 = i
    OBVIOUS
  <2>2. PICK e \in announced : e.bill.bundle = UpTo(b, i) /\ Tip(e.bill) = Last(b[i + 1].core).tip
    BY <1>3, <1>4, <2>1 DEF Grown
  <2>3. Holds(n, e.bill)
    BY <1>7, <2>1, <2>2
  <2>4. PICK r \in Rows(n) : r.bill = e.bill
    BY <2>3 DEF Holds
  <2>5. r.bill.bundle \in bundles[n]
    BY DEF ChainInv, RowsInv, BillGood
  <2> QED
    BY <2>2, <2>4, <2>5
<1>9. Earlier(b) \subseteq bundles[n]
  BY <1>4, <1>8 DEF Earlier
<1>10. Stands(m.bill, segments[n] \cup m.segments, bundles[n], logged, claimed)
  BY <1>3, <1>9, StandsGrows
<1> QED
  BY <1>10, StandsDef DEF VerifiesAnnouncement

-----------------------------------------------------------------------------
(* Steps *)

Jobs == [stage : {"idle", "start", "submitted", "proved", "archived", "bundled"},
         bill : Bills \cup {None}, status : {"pending", "verified", "settled"},
         segment : Segments \cup {None}, bundle : Bundles \cup {None}]

LEMMA TypeDef ==
    BillTypeOK <=>
        /\ logged \subseteq Cores \ {<<>>} /\ claimed \subseteq Transfers /\ failures \in 0..MaxFailures
        /\ announced \subseteq [bill : Bills, segments : SUBSET Segments]
        /\ rows \in [Nodes -> Seq(BillRows)]
        /\ segments \in [Nodes -> SUBSET Segments] /\ bundles \in [Nodes -> SUBSET Bundles]
        /\ job \in [Nodes -> Jobs]
BY DEF BillTypeOK, BillRows, Jobs

\* A step that only adds keeps the invariant if what it adds is good.
LEMMA Kept ==
    ASSUME ChainInv, BillTypeOK',
           logged \subseteq logged', claimed \subseteq claimed', announced \subseteq announced',
           \A n \in Nodes : segments[n] \subseteq segments'[n] /\ bundles[n] \subseteq bundles'[n],
           \A n \in Nodes : \A r \in Range(rows'[n]) :
               \/ \E q \in Rows(n) : q.bill = r.bill
               \/ BillGood(r.bill, segments'[n], bundles'[n], logged', claimed', announced'),
           \A n \in Nodes : \A s \in segments'[n] : s \in segments[n] \/ Verified(s, segments'[n]),
           \A n \in Nodes : \A x \in bundles'[n] : x \in bundles[n] \/ BundleGood(x, announced'),
           \A m \in announced' : m \in announced \/ MessageGood(m, logged', claimed', announced'),
           \A n \in Nodes :
               \/ job'[n] = job[n] \/ job'[n].stage = "idle"
               \/ JobGood(job'[n], segments'[n], bundles'[n], logged', claimed', announced')
    PROVE  ChainInv'
<1>1. RowsInv'
  <2>1. ASSUME NEW n \in Nodes, NEW r \in Range(rows'[n])
        PROVE  BillGood(r.bill, segments'[n], bundles'[n], logged', claimed', announced')
    <3>1. CASE \E q \in Rows(n) : q.bill = r.bill
      <4>1. BillGood(r.bill, segments[n], bundles[n], logged, claimed, announced)
        BY <3>1 DEF ChainInv, RowsInv
      <4> QED
        BY <4>1, BillGrows
    <3>2. CASE ~\E q \in Rows(n) : q.bill = r.bill
      BY <3>2
    <3> QED
      BY <3>1, <3>2
  <2> QED
    BY <2>1 DEF RowsInv, Rows
<1>2. SegmentsInv'
  <2>1. ASSUME NEW n \in Nodes, NEW s \in segments'[n]
        PROVE  Verified(s, segments'[n])
    BY VerifiedGrows DEF ChainInv, SegmentsInv
  <2> QED
    BY <2>1 DEF SegmentsInv
<1>3. BundlesInv'
  <2>1. ASSUME NEW n \in Nodes, NEW x \in bundles'[n]
        PROVE  BundleGood(x, announced')
    <3>1. x \in bundles[n] => BundleGood(x, announced)
      BY DEF ChainInv, BundlesInv
    <3> QED
      BY <3>1, BundleGrows
  <2> QED
    BY <2>1 DEF BundlesInv
<1>4. AnnouncedInv'
  <2>1. ASSUME NEW m \in announced'
        PROVE  MessageGood(m, logged', claimed', announced')
    <3>1. m \in announced => MessageGood(m, logged, claimed, announced)
      BY DEF ChainInv, AnnouncedInv
    <3> QED
      BY <3>1, MessageGrows
  <2> QED
    BY <2>1 DEF AnnouncedInv
<1>5. JobsInv'
  <2>1. ASSUME NEW n \in Nodes
        PROVE  JobGood(job'[n], segments'[n], bundles'[n], logged', claimed', announced')
    <3>1. JobGood(job[n], segments[n], bundles[n], logged, claimed, announced)
      BY DEF ChainInv, JobsInv
    <3>2. JobGood(job[n], segments'[n], bundles'[n], logged', claimed', announced')
      BY <3>1, JobGrows
    <3>3. job'[n].stage = "idle" => JobGood(job'[n], segments'[n], bundles'[n], logged', claimed', announced')
      BY DEF JobGood
    <3> QED
      BY <3>2, <3>3
  <2> QED
    BY <2>1 DEF JobsInv
<1> QED
  BY <1>1, <1>2, <1>3, <1>4, <1>5 DEF ChainInv

LEMMA NoJobFacts == NoJob \in Jobs /\ NoJob.stage = "idle"
BY DEF NoJob, Jobs

LEMMA StartJobFacts ==
    ASSUME NEW bill \in Bills, NEW status \in {"pending", "verified", "settled"}
    PROVE  /\ StartJob(bill, status) \in Jobs /\ StartJob(bill, status).stage = "start"
           /\ StartJob(bill, status).bill = bill
BY DEF StartJob, NoJob, Jobs

\* A compaction that starts from a row with transfers since its checkpoint.
LEMMA StartJobGood ==
    ASSUME NEW bill \in Bills, NEW status \in {"pending", "verified", "settled"},
           NEW S, NEW B, NEW L, NEW C, NEW A, bill.recent # <<>>, IsAnnounced(bill, A)
    PROVE  JobGood(StartJob(bill, status), S, B, L, C, A)
BY StartJobFacts DEF JobGood

LEMMA DueFacts ==
    ASSUME NEW bill \in Bills, Due(bill)
    PROVE  bill.recent # <<>>
<1>1. Interval \in Nat \ {0}
  BY LimitAssumption
<1>2. bill.recent = <<>> => Len(bill.recent) = 0
  OBVIOUS
<1> QED
  BY <1>1, <1>2 DEF Due

\* A row of the table is good, and so is its bundle.
LEMMA RowGood ==
    ASSUME ChainInv, NEW n \in Nodes, NEW r \in Rows(n)
    PROVE  /\ r \in BillRows /\ r.bill \in Bills /\ r.bill.bundle \in Bundles
           /\ BillGood(r.bill, segments[n], bundles[n], logged, claimed, announced)
           /\ BundleGood(r.bill.bundle, announced)
<1>1. BillGood(r.bill, segments[n], bundles[n], logged, claimed, announced)
  BY DEF ChainInv, RowsInv
<1> QED
  BY <1>1, RowFacts DEF ChainInv, BundlesInv, BillGood

LEMMA ClaimInv ==
    ASSUME ChainInv, NEW t \in Transfers, Claim(t)
    PROVE  ChainInv'
<1>1. /\ claimed' = claimed \cup {t}
      /\ UNCHANGED <<logged, announced, rows, segments, bundles, job, failures>>
  BY DEF Claim, stores
<1>2. BillTypeOK'
  BY <1>1, TypeDef DEF ChainInv, BillTypeOK
<1>3. \A n \in Nodes : \A r \in Range(rows'[n]) : \E q \in Rows(n) : q.bill = r.bill
  BY <1>1 DEF Rows
<1> QED
  BY <1>1, <1>2, <1>3, Kept

LEMMA StutterInv ==
    ASSUME ChainInv, UNCHANGED billVars
    PROVE  ChainInv'
<1>1. UNCHANGED <<logged, claimed, announced, rows, segments, bundles, job, failures>>
  BY DEF billVars
<1>2. BillTypeOK'
  BY <1>1 DEF ChainInv, BillTypeOK
<1>3. \A n \in Nodes : \A r \in Range(rows'[n]) : \E q \in Rows(n) : q.bill = r.bill
  BY <1>1 DEF Rows
<1> QED
  BY <1>1, <1>2, <1>3, Kept

\* The thread of a node leaves the compaction.
LEMMA LeaveInv ==
    ASSUME ChainInv, NEW n \in Nodes, GiveUp(n) \/ Crash(n)
    PROVE  ChainInv'
<1>1. /\ job' = [job EXCEPT ![n] = NoJob] /\ failures < MaxFailures /\ failures' = failures + 1
      /\ UNCHANGED <<logged, claimed, announced, rows, segments, bundles>>
  BY DEF GiveUp, Crash, stores
<1>2. job \in [Nodes -> Jobs] /\ failures \in 0..MaxFailures
  BY TypeDef DEF ChainInv
<1>3. failures' \in 0..MaxFailures
  BY <1>1, <1>2, LimitAssumption
<1>4. job' \in [Nodes -> Jobs] /\ \A x \in Nodes : job'[x] = job[x] \/ job'[x].stage = "idle"
  BY <1>1, <1>2, NoJobFacts
<1>5. BillTypeOK'
  BY <1>1, <1>3, <1>4, TypeDef DEF ChainInv, BillTypeOK, Jobs
<1>6. \A x \in Nodes : \A r \in Range(rows'[x]) : \E q \in Rows(x) : q.bill = r.bill
  BY <1>1 DEF Rows
<1> QED
  BY <1>1, <1>4, <1>5, <1>6, Kept

LEMMA CompactNowInv ==
    ASSUME ChainInv, NEW n \in Nodes, CompactNow(n)
    PROVE  ChainInv'
<1>1. PICK r \in Rows(n) : /\ r.bill.recent # <<>>
                           /\ job' = [job EXCEPT ![n] = StartJob(r.bill, r.status)]
  BY DEF CompactNow, Shortest, Longest
<1>2. UNCHANGED <<logged, claimed, announced, rows, segments, bundles, failures>>
  BY DEF CompactNow, stores
<1>3. r \in BillRows /\ r.bill \in Bills /\ BillGood(r.bill, segments[n], bundles[n], logged, claimed, announced)
  BY RowGood
<1>4. PICK j : j = StartJob(r.bill, r.status)
  OBVIOUS
<1>5. j \in Jobs /\ JobGood(j, segments[n], bundles[n], logged, claimed, announced)
  BY <1>1, <1>3, <1>4, StartJobFacts, StartJobGood DEF BillGood, BillRows
<1>6. job \in [Nodes -> Jobs]
  BY TypeDef DEF ChainInv
<1>7. job' \in [Nodes -> Jobs] /\ \A x \in Nodes : job'[x] = IF x = n THEN j ELSE job[x]
  BY <1>1, <1>4, <1>5, <1>6
<1>8. BillTypeOK'
  BY <1>2, <1>7, TypeDef DEF ChainInv, BillTypeOK, Jobs
<1>9. \A x \in Nodes : \A q \in Range(rows'[x]) : \E o \in Rows(x) : o.bill = q.bill
  BY <1>2 DEF Rows
<1>10. \A x \in Nodes : \/ job'[x] = job[x]
                        \/ JobGood(job'[x], segments'[x], bundles'[x], logged', claimed', announced')
  BY <1>2, <1>5, <1>7
<1> QED
  BY <1>2, <1>8, <1>9, <1>10, Kept

LEMMA SettleInv ==
    ASSUME ChainInv, NEW n \in Nodes, Settle(n)
    PROVE  ChainInv'
<1>1. PICK r \in Rows(n) :
          /\ r.bill.recent # <<>> /\ rows' = [rows EXCEPT ![n] = Put(rows[n], r.bill, "settled")]
          /\ job' = IF Due(r.bill) THEN [job EXCEPT ![n] = StartJob(r.bill, "settled")] ELSE job
  BY DEF Settle
<1>2. UNCHANGED <<logged, claimed, announced, segments, bundles, failures>>
  BY DEF Settle
<1>3. r.bill \in Bills /\ BillGood(r.bill, segments[n], bundles[n], logged, claimed, announced)
  BY RowGood
<1>4. PICK j : j = StartJob(r.bill, "settled")
  OBVIOUS
<1>5. j \in Jobs /\ JobGood(j, segments[n], bundles[n], logged, claimed, announced)
  BY <1>1, <1>3, <1>4, StartJobFacts, StartJobGood DEF BillGood
<1>6. job \in [Nodes -> Jobs] /\ rows \in [Nodes -> Seq(BillRows)]
  BY TypeDef DEF ChainInv
<1>7. job' \in [Nodes -> Jobs] /\ \A x \in Nodes : job'[x] = job[x] \/ (x = n /\ job'[x] = j)
  BY <1>1, <1>4, <1>5, <1>6
<1>8. PICK table : table = Put(rows[n], r.bill, "settled")
  OBVIOUS
<1>9. /\ table \in Seq(BillRows)
      /\ \A q \in Range(table) : q.bill = r.bill \/ q \in Range(rows[n])
  BY <1>3, <1>6, <1>8, PutFacts
<1>10. rows' \in [Nodes -> Seq(BillRows)] /\ \A x \in Nodes : rows'[x] = IF x = n THEN table ELSE rows[x]
  BY <1>1, <1>6, <1>8, <1>9
<1>11. BillTypeOK'
  BY <1>2, <1>7, <1>10, TypeDef DEF ChainInv, BillTypeOK, Jobs, BillRows
<1>12. \A x \in Nodes : \A q \in Range(rows'[x]) : \E o \in Rows(x) : o.bill = q.bill
  BY <1>9, <1>10 DEF Rows
<1>13. \A x \in Nodes : \/ job'[x] = job[x]
                        \/ JobGood(job'[x], segments'[x], bundles'[x], logged', claimed', announced')
  BY <1>2, <1>5, <1>7
<1> QED
  BY <1>2, <1>11, <1>12, <1>13, Kept

\* A wallet signs on a bill it can verify, so what it sends along can be verified.
LEMMA SpendInv ==
    ASSUME ChainInv, NEW n \in Nodes, NEW t \in Transfers, Spend(n, t)
    PROVE  ChainInv'
<1>1. PICK r \in Spendable(n) :
          LET bill == [r.bill EXCEPT !.recent = Append(r.bill.recent, t)] IN
          /\ Replay(BaseOf(r.bill.core), bill.recent) # Invalid
          /\ rows' = [rows EXCEPT ![n] = Put(rows[n], bill, "verified")]
          /\ announced' = announced \cup
                {[bill |-> bill, segments |-> SegmentsBehind(bill.bundle, bundles[n]) \cap segments[n]]}
          /\ UNCHANGED <<logged, claimed, segments, bundles, job, failures>>
  BY DEF Spend
<1>2. PICK bill : bill = [r.bill EXCEPT !.recent = Append(r.bill.recent, t)]
  OBVIOUS
<1>3. PICK m : m = [bill |-> bill, segments |-> SegmentsBehind(bill.bundle, bundles[n]) \cap segments[n]]
  OBVIOUS
<1>4. /\ Replay(BaseOf(r.bill.core), bill.recent) # Invalid
      /\ rows' = [rows EXCEPT ![n] = Put(rows[n], bill, "verified")] /\ announced' = announced \cup {m}
      /\ UNCHANGED <<logged, claimed, segments, bundles, job, failures>>
  BY <1>1, <1>2, <1>3
<1>5. r \in Rows(n)
  BY DEF Spendable, Shortest, Longest
<1>6. /\ r.bill \in Bills /\ r.bill.bundle \in Bundles
      /\ BillGood(r.bill, segments[n], bundles[n], logged, claimed, announced)
      /\ BundleGood(r.bill.bundle, announced)
  BY <1>5, RowGood
<1>7. /\ bill.core = r.bill.core /\ bill.bundle = r.bill.bundle
      /\ bill.recent = Append(r.bill.recent, t) /\ bill \in Bills /\ bill.recent # <<>>
  <2>1. r.bill.recent \in Seq(Transfers)
    BY <1>6 DEF Bills
  <2>2. Append(r.bill.recent, t) \in Seq(Transfers) /\ Append(r.bill.recent, t) # <<>>
    BY <2>1, AppendProperties
  <2> QED
    BY <1>2, <1>6, <2>2 DEF Bills
<1>8. m.bill = bill /\ m.segments = SegmentsBehind(bill.bundle, bundles[n]) \cap segments[n]
  BY <1>3
<1>9. /\ rows \in [Nodes -> Seq(BillRows)] /\ segments \in [Nodes -> SUBSET Segments]
      /\ announced \subseteq [bill : Bills, segments : SUBSET Segments]
  BY TypeDef DEF ChainInv
<1>10. announced' \subseteq [bill : Bills, segments : SUBSET Segments]
  BY <1>3, <1>4, <1>7, <1>9
<1>11. PICK table : table = Put(rows[n], bill, "verified")
  OBVIOUS
<1>12. /\ table \in Seq(BillRows)
       /\ \A q \in Range(table) : q.bill = bill \/ q \in Range(rows[n])
  BY <1>7, <1>9, <1>11, PutFacts
<1>13. rows' \in [Nodes -> Seq(BillRows)] /\ \A x \in Nodes : rows'[x] = IF x = n THEN table ELSE rows[x]
  BY <1>4, <1>9, <1>11, <1>12
<1>14. BillTypeOK'
  BY <1>4, <1>10, <1>13, TypeDef DEF ChainInv, BillTypeOK, Jobs, BillRows
<1>15. Stands(bill, segments[n], bundles[n], logged, claimed)
  <2>1. Stands(r.bill, segments[n], bundles[n], logged, claimed)
    BY <1>6 DEF BillGood
  <2> QED
    BY <1>4, <1>7, <2>1 DEF Stands
<1>16. IsAnnounced(bill, announced')
  BY <1>4, <1>8 DEF IsAnnounced
<1>17. BillGood(bill, segments'[n], bundles'[n], logged', claimed', announced')
  BY <1>4, <1>6, <1>7, <1>15, <1>16 DEF BillGood
<1>18. BundleGood(bill.bundle, announced')
  BY <1>4, <1>6, <1>7, BundleGrows
<1>19. Stands(bill, SegmentsBehind(bill.bundle, bundles[n]) \cap segments[n], Earlier(bill.bundle), logged, claimed)
  BY <1>6, <1>7, <1>15, Portable DEF Stands, BundleGood
<1>20. MessageGood(m, logged', claimed', announced')
  BY <1>4, <1>7, <1>8, <1>18, <1>19 DEF MessageGood
<1>21. \A x \in Nodes : \A q \in Range(rows'[x]) :
           \/ \E o \in Rows(x) : o.bill = q.bill
           \/ BillGood(q.bill, segments'[x], bundles'[x], logged', claimed', announced')
  BY <1>12, <1>13, <1>17 DEF Rows
<1> QED
  BY <1>4, <1>14, <1>20, <1>21, Kept

\* What is stored of an announcement is verified with what is stored.
LEMMA DeliverInv ==
    ASSUME ChainInv, NEW n \in Nodes, Deliver(n)
    PROVE  ChainInv'
<1>1. PICK m \in announced : \E list \in SetToSeqs(m.segments \cap SegmentsBehind(m.bill.bundle, bundles[n])) :
          TakeAnnouncement(n, m, list)
  BY DEF Deliver
<1>2. PICK carried : carried = m.segments \cap SegmentsBehind(m.bill.bundle, bundles[n])
  OBVIOUS
<1>3. PICK list \in SetToSeqs(carried) : TakeAnnouncement(n, m, list)
  BY <1>1, <1>2
<1>4. PICK k \in 0..Len(list) :
          /\ VerifiesAnnouncement(n, m) /\ StoresFirst(k, list, segments[n])
          /\ segments' = [segments EXCEPT ![n] = segments[n] \cup Range(UpTo(list, k))]
          /\ IF k = Len(list)
             THEN /\ bundles' = [bundles EXCEPT ![n] = bundles[n] \cup {m.bill.bundle}]
                  /\ rows' = [rows EXCEPT ![n] = Put(rows[n], m.bill, "pending")]
             ELSE UNCHANGED <<bundles, rows>>
          /\ UNCHANGED <<logged, claimed, announced, job, failures>>
  BY <1>3 DEF TakeAnnouncement
<1>5. m.bill \in Bills /\ m.bill.bundle \in Bundles /\ MessageGood(m, logged, claimed, announced)
  BY DEF ChainInv, AnnouncedInv, BillTypeOK, Bills
<1>6. /\ rows \in [Nodes -> Seq(BillRows)] /\ segments \in [Nodes -> SUBSET Segments]
      /\ bundles \in [Nodes -> SUBSET Bundles]
  BY TypeDef DEF ChainInv
<1>7. carried \subseteq Segments /\ IsFiniteSet(carried)
  BY <1>2, <1>5, BehindFacts, FS_Subset
<1>8. list \in Seq(Segments) /\ Range(list) = carried
  <2>1. list \in Seq(carried) /\ Range(list) = carried
    BY <1>7, OrderFacts
  <2> QED
    BY <1>7, <2>1, SeqMonotonic
<1>9. PICK T : T = segments[n] \cup Range(UpTo(list, k))
  OBVIOUS
<1>10. \A s \in segments[n] : Verified(s, segments[n])
  BY DEF ChainInv, SegmentsInv
<1>11. /\ segments[n] \subseteq T /\ T \subseteq Segments /\ \A s \in T : Verified(s, T)
       /\ k = Len(list) => T = segments[n] \cup carried
  BY <1>4, <1>6, <1>8, <1>9, <1>10, StoredFacts
<1>12. segments' \in [Nodes -> SUBSET Segments] /\ \A x \in Nodes : segments'[x] = IF x = n THEN T ELSE segments[x]
  BY <1>4, <1>6, <1>9, <1>11
<1>13. \A x \in Nodes : \A s \in segments'[x] : s \in segments[x] \/ Verified(s, segments'[x])
  BY <1>11, <1>12
<1>14. CASE k # Len(list)
  <2>1. UNCHANGED <<logged, claimed, announced, job, failures, bundles, rows>>
    BY <1>4, <1>14
  <2>2. BillTypeOK'
    BY <1>12, <2>1, TypeDef DEF ChainInv, BillTypeOK, Jobs, BillRows
  <2>3. \A x \in Nodes : \A q \in Range(rows'[x]) : \E o \in Rows(x) : o.bill = q.bill
    BY <2>1 DEF Rows
  <2>4. \A x \in Nodes : segments[x] \subseteq segments'[x]
    BY <1>11, <1>12
  <2> QED
    BY <1>13, <2>1, <2>2, <2>3, <2>4, Kept
<1>15. CASE k = Len(list)
  <2>1. /\ bundles' = [bundles EXCEPT ![n] = bundles[n] \cup {m.bill.bundle}]
        /\ rows' = [rows EXCEPT ![n] = Put(rows[n], m.bill, "pending")]
        /\ UNCHANGED <<logged, claimed, announced, job, failures>>
    BY <1>4, <1>15
  <2>2. PICK table : table = Put(rows[n], m.bill, "pending")
    OBVIOUS
  <2>3. /\ table \in Seq(BillRows)
        /\ \A q \in Range(table) : q.bill = m.bill \/ q \in Range(rows[n])
    BY <1>5, <1>6, <2>2, PutFacts
  <2>4. rows' \in [Nodes -> Seq(BillRows)] /\ \A x \in Nodes : rows'[x] = IF x = n THEN table ELSE rows[x]
    BY <1>6, <2>1, <2>2, <2>3
  <2>5. /\ bundles' \in [Nodes -> SUBSET Bundles]
        /\ \A x \in Nodes : bundles'[x] = IF x = n THEN bundles[n] \cup {m.bill.bundle} ELSE bundles[x]
    BY <1>5, <1>6, <2>1
  <2>6. BillTypeOK'
    BY <1>12, <2>1, <2>4, <2>5, TypeDef DEF ChainInv, BillTypeOK, Jobs, BillRows
  <2>7. Stands(m.bill, segments[n] \cup m.segments, bundles[n], logged, claimed)
    BY <1>4, StandsDef DEF VerifiesAnnouncement
  <2>8. Stands(m.bill, T, bundles[n], logged, claimed)
    BY <1>2, <1>5, <1>11, <1>15, <2>7, DeliveredFacts
  <2>9. Stands(m.bill, segments'[n], bundles'[n], logged', claimed')
    <3>1. segments'[n] = T /\ bundles[n] \subseteq bundles'[n] /\ logged' = logged /\ claimed' = claimed
      BY <1>12, <2>1, <2>5
    <3> QED
      BY <2>8, <3>1, StandsGrows
  <2>10. IsAnnounced(m.bill, announced')
    BY <2>1 DEF IsAnnounced
  <2>11. BillGood(m.bill, segments'[n], bundles'[n], logged', claimed', announced')
    BY <2>5, <2>9, <2>10 DEF BillGood
  <2>12. BundleGood(m.bill.bundle, announced')
    BY <1>5, <2>1 DEF MessageGood
  <2>13. \A x \in Nodes : \A q \in Range(rows'[x]) :
             \/ \E o \in Rows(x) : o.bill = q.bill
             \/ BillGood(q.bill, segments'[x], bundles'[x], logged', claimed', announced')
    BY <2>3, <2>4, <2>11 DEF Rows
  <2>14. \A x \in Nodes : \A b \in bundles'[x] : b \in bundles[x] \/ BundleGood(b, announced')
    BY <2>5, <2>12
  <2>15. \A x \in Nodes : segments[x] \subseteq segments'[x] /\ bundles[x] \subseteq bundles'[x]
    BY <1>11, <1>12, <2>5
  <2> QED
    BY <1>13, <2>1, <2>6, <2>13, <2>14, <2>15, Kept
<1> QED
  BY <1>14, <1>15

LEMMA SyncInv ==
    ASSUME ChainInv, NEW n \in Nodes, NEW m \in Nodes, Sync(n, m)
    PROVE  ChainInv'
<1>1. PICK r \in Rows(m) : \E list \in SetToSeqs(SegmentsBehind(r.bill.bundle, bundles[m]) \cap segments[m]) :
          TakeRecord(n, r, list)
  BY DEF Sync
<1>2. PICK carried : carried = SegmentsBehind(r.bill.bundle, bundles[m]) \cap segments[m]
  OBVIOUS
<1>3. PICK list \in SetToSeqs(carried) : TakeRecord(n, r, list)
  BY <1>1, <1>2
<1>4. PICK k \in 0..Len(list) :
          LET known == segments[n] \cup Range(UpTo(list, k)) IN
          /\ StoresFirst(k, list, segments[n])
          /\ segments' = [segments EXCEPT ![n] = known]
          /\ IF k = Len(list) /\ StateOf(r.bill, known, bundles[n]) # Invalid
             THEN /\ bundles' = [bundles EXCEPT ![n] = bundles[n] \cup {r.bill.bundle}]
                  /\ rows' = [rows EXCEPT ![n] = Put(rows[n], r.bill, r.status)]
                  /\ job' = IF r.status # "pending" /\ Due(r.bill)
                            THEN [job EXCEPT ![n] = StartJob(r.bill, r.status)] ELSE job
             ELSE UNCHANGED <<bundles, rows, job>>
          /\ UNCHANGED <<logged, claimed, announced, failures>>
  BY <1>3 DEF TakeRecord
<1>5. /\ r \in BillRows /\ r.bill \in Bills /\ r.bill.bundle \in Bundles
      /\ BillGood(r.bill, segments[m], bundles[m], logged, claimed, announced)
      /\ BundleGood(r.bill.bundle, announced)
  BY RowGood
<1>6. /\ rows \in [Nodes -> Seq(BillRows)] /\ segments \in [Nodes -> SUBSET Segments]
      /\ bundles \in [Nodes -> SUBSET Bundles] /\ job \in [Nodes -> Jobs]
  BY TypeDef DEF ChainInv
<1>7. carried \subseteq Segments /\ IsFiniteSet(carried)
  BY <1>2, <1>5, BehindFacts, FS_Subset
<1>8. list \in Seq(Segments)
  <2>1. list \in Seq(carried)
    BY <1>7, OrderFacts
  <2> QED
    BY <1>7, <2>1, SeqMonotonic
<1>9. PICK T : T = segments[n] \cup Range(UpTo(list, k))
  OBVIOUS
<1>10. \A s \in segments[n] : Verified(s, segments[n])
  BY DEF ChainInv, SegmentsInv
<1>11. segments[n] \subseteq T /\ T \subseteq Segments /\ \A s \in T : Verified(s, T)
  BY <1>4, <1>6, <1>8, <1>9, <1>10, StoredFacts
<1>12. segments' \in [Nodes -> SUBSET Segments] /\ \A x \in Nodes : segments'[x] = IF x = n THEN T ELSE segments[x]
  BY <1>4, <1>6, <1>9, <1>11
<1>13. \A x \in Nodes : \A s \in segments'[x] : s \in segments[x] \/ Verified(s, segments'[x])
  BY <1>11, <1>12
<1>14. UNCHANGED <<logged, claimed, announced, failures>>
  BY <1>4
<1>15. CASE UNCHANGED <<bundles, rows, job>>
  <2>1. BillTypeOK'
    BY <1>12, <1>14, <1>15, TypeDef DEF ChainInv, BillTypeOK, Jobs, BillRows
  <2>2. \A x \in Nodes : \A q \in Range(rows'[x]) : \E o \in Rows(x) : o.bill = q.bill
    BY <1>15 DEF Rows
  <2>3. \A x \in Nodes : segments[x] \subseteq segments'[x]
    BY <1>11, <1>12
  <2> QED
    BY <1>13, <1>14, <1>15, <2>1, <2>2, <2>3, Kept
<1>16. CASE ~UNCHANGED <<bundles, rows, job>>
  <2>1. /\ StateOf(r.bill, T, bundles[n]) # Invalid
        /\ bundles' = [bundles EXCEPT ![n] = bundles[n] \cup {r.bill.bundle}]
        /\ rows' = [rows EXCEPT ![n] = Put(rows[n], r.bill, r.status)]
        /\ job' = IF r.status # "pending" /\ Due(r.bill)
                  THEN [job EXCEPT ![n] = StartJob(r.bill, r.status)] ELSE job
    BY <1>4, <1>9, <1>16
  <2>2. PICK table : table = Put(rows[n], r.bill, r.status)
    OBVIOUS
  <2>3. /\ table \in Seq(BillRows)
        /\ \A q \in Range(table) : q.bill = r.bill \/ q \in Range(rows[n])
    BY <1>5, <1>6, <2>2, PutFacts DEF BillRows
  <2>4. rows' \in [Nodes -> Seq(BillRows)] /\ \A x \in Nodes : rows'[x] = IF x = n THEN table ELSE rows[x]
    BY <1>6, <2>1, <2>2, <2>3
  <2>5. /\ bundles' \in [Nodes -> SUBSET Bundles]
        /\ \A x \in Nodes : bundles'[x] = IF x = n THEN bundles[n] \cup {r.bill.bundle} ELSE bundles[x]
    BY <1>5, <1>6, <2>1
  <2>6. PICK j : j = StartJob(r.bill, r.status)
    OBVIOUS
  <2>7. /\ j \in Jobs
        /\ Due(r.bill) => JobGood(j, segments'[n], bundles'[n], logged', claimed', announced')
    <3>1. j \in Jobs
      BY <1>5, <2>6, StartJobFacts DEF BillRows
    <3>2. ASSUME Due(r.bill)
          PROVE  JobGood(j, segments'[n], bundles'[n], logged', claimed', announced')
      <4>1. r.bill.recent # <<>> /\ IsAnnounced(r.bill, announced')
        BY <1>5, <1>14, <3>2, DueFacts DEF BillGood
      <4> QED
        BY <1>5, <2>6, <4>1, StartJobGood DEF BillRows
    <3> QED
      BY <3>1, <3>2
  <2>8. job' \in [Nodes -> Jobs] /\ \A x \in Nodes : job'[x] = job[x] \/ (x = n /\ job'[x] = j /\ Due(r.bill))
    BY <1>6, <2>1, <2>6, <2>7
  <2>9. BillTypeOK'
    BY <1>12, <1>14, <2>4, <2>5, <2>8, TypeDef DEF ChainInv, BillTypeOK, Jobs, BillRows
  <2>10. Stands(r.bill, T, bundles[n], logged, claimed)
    BY <2>1, StandsDef
  <2>11. Stands(r.bill, segments'[n], bundles'[n], logged', claimed')
    <3>1. segments'[n] = T /\ bundles[n] \subseteq bundles'[n] /\ logged' = logged /\ claimed' = claimed
      BY <1>12, <1>14, <2>5
    <3> QED
      BY <2>10, <3>1, StandsGrows
  <2>12. BillGood(r.bill, segments'[n], bundles'[n], logged', claimed', announced')
    BY <1>5, <1>14, <2>5, <2>11 DEF BillGood
  <2>13. \A x \in Nodes : \A q \in Range(rows'[x]) :
             \/ \E o \in Rows(x) : o.bill = q.bill
             \/ BillGood(q.bill, segments'[x], bundles'[x], logged', claimed', announced')
    BY <2>3, <2>4, <2>12 DEF Rows
  <2>14. \A x \in Nodes : \A b \in bundles'[x] : b \in bundles[x] \/ BundleGood(b, announced')
    BY <1>5, <1>14, <2>5
  <2>15. \A x \in Nodes : segments[x] \subseteq segments'[x] /\ bundles[x] \subseteq bundles'[x]
    BY <1>11, <1>12, <2>5
  <2>16. \A x \in Nodes : \/ job'[x] = job[x]
                          \/ JobGood(job'[x], segments'[x], bundles'[x], logged', claimed', announced')
    BY <2>7, <2>8
  <2> QED
    BY <1>13, <1>14, <2>9, <2>13, <2>14, <2>15, <2>16, Kept
<1> QED
  BY <1>15, <1>16

\* What a compaction makes of a bill: a piece that goes on from its checkpoint, the
\* checkpoint the piece leads to, and the evidence for it.
LEMMA CompactedFacts ==
    ASSUME NEW bill \in Bills, NEW n \in Nodes, bill.recent # <<>>,
           NEW piece, piece = [base |-> BaseOf(bill.core), transfers |-> bill.recent, previousCore |-> bill.core],
           Replay(piece.base, piece.transfers) # Invalid,
           NEW item, item = [core |-> CoreOf(piece), segment |-> SegmentFor(bill), by |-> n]
    PROVE  /\ piece \in Pieces /\ SegmentFor(bill) \in Segments /\ Last(SegmentFor(bill)) = piece
           /\ SegmentFor(bill) = Append(Last(bill.bundle).segment, piece)
           /\ CoreOf(piece) \in Cores \ {<<>>} /\ item \in Items /\ Append(bill.bundle, item) \in Bundles
<1>1. bill.core \in Seq(States) \ {<<>>} /\ bill.recent \in Seq(Transfers) /\ bill.bundle \in Seq(Items) \ {<<>>}
  BY DEF Bills, Cores, Bundles
<1>2. BaseOf(bill.core) \in States
  BY <1>1, LastFacts DEF BaseOf
<1>3. piece \in Pieces /\ piece.base \in States /\ piece.transfers \in Seq(Transfers) /\ piece.previousCore = bill.core
  BY <1>1, <1>2 DEF Pieces, Cores
<1>4. Last(bill.bundle) \in Items
  BY <1>1, LastFacts
<1>5. Last(bill.bundle).segment \in Seq(Pieces)
  BY <1>4 DEF Items, Segments
<1>6. SegmentFor(bill) = Append(Last(bill.bundle).segment, piece)
  BY DEF SegmentFor
<1>7. SegmentFor(bill) \in Segments /\ Last(SegmentFor(bill)) = piece
  BY <1>3, <1>5, <1>6, AppendFacts DEF Segments
<1>8. Replay(piece.base, piece.transfers) \in States
  BY <1>3, ReplayType
<1>9. CoreOf(piece) \in Cores \ {<<>>}
  BY <1>1, <1>3, <1>8, AppendFacts DEF CoreOf, Cores
<1>10. item \in Items
  BY <1>7, <1>9 DEF Items
<1>11. Append(bill.bundle, item) \in Bundles
  BY <1>1, <1>10, AppendFacts DEF Bundles
<1> QED
  BY <1>3, <1>6, <1>7, <1>9, <1>10, <1>11

LEMMA SubmitInv ==
    ASSUME ChainInv, NEW n \in Nodes, SubmitCheckpoint(n)
    PROVE  ChainInv'
<1>1. PICK bill : bill = job[n].bill
  OBVIOUS
<1>2. PICK segment : segment = SegmentFor(bill)
  OBVIOUS
<1>3. PICK core : core = CoreOf(Last(segment))
  OBVIOUS
<1>4. PICK item : item = [core |-> core, segment |-> segment, by |-> n]
  OBVIOUS
<1>5. /\ job[n].stage = "start" /\ bill.bundle \in bundles[n]
      /\ Verified(segment, segments[n]) /\ Last(core).tip = Tip(bill) /\ OperatorTakes(Last(segment))
      /\ logged' = logged \cup {core}
      /\ job' = [job EXCEPT ![n] = [job[n] EXCEPT !.stage = "submitted",
            !.segment = segment, !.bundle = Append(bill.bundle, item)]]
      /\ UNCHANGED <<claimed, announced, rows, segments, bundles, failures>>
  BY <1>1, <1>2, <1>3, <1>4 DEF SubmitCheckpoint, stores
<1>6. job \in [Nodes -> Jobs] /\ logged \subseteq Cores \ {<<>>}
  BY TypeDef DEF ChainInv
<1>7. bill \in Bills /\ bill.recent # <<>> /\ IsAnnounced(bill, announced)
  BY <1>1, <1>5 DEF ChainInv, JobsInv, JobGood
<1>8. PICK piece : piece = [base |-> BaseOf(bill.core), transfers |-> bill.recent, previousCore |-> bill.core]
  OBVIOUS
<1>9. Last(segment) = piece
  <2>1. Last(bill.bundle) \in Items
    BY <1>7, LastFacts DEF Bills, Bundles
  <2>2. Last(bill.bundle).segment \in Seq(Pieces)
    BY <2>1 DEF Items, Segments
  <2>3. bill.core \in Seq(States) \ {<<>>} /\ bill.recent \in Seq(Transfers)
    BY <1>7 DEF Bills, Cores
  <2>4. piece \in Pieces
    BY <1>8, <2>3, LastFacts DEF Pieces, Cores, BaseOf
  <2> QED
    BY <1>2, <1>8, <2>2, <2>4, AppendFacts DEF SegmentFor
<1>10. Replay(piece.base, piece.transfers) # Invalid
  BY <1>5, <1>9 DEF OperatorTakes
<1>11. item = [core |-> CoreOf(piece), segment |-> SegmentFor(bill), by |-> n]
  BY <1>2, <1>3, <1>4, <1>9
<1>12. /\ piece \in Pieces /\ segment \in Segments /\ segment = Append(Last(bill.bundle).segment, piece)
       /\ core \in Cores \ {<<>>} /\ item \in Items /\ Append(bill.bundle, item) \in Bundles
  BY <1>2, <1>3, <1>7, <1>8, <1>9, <1>10, <1>11, CompactedFacts
<1>13. PICK bundle : bundle = Append(bill.bundle, item)
  OBVIOUS
<1>14. bill.bundle \in Bundles /\ BundleGood(bill.bundle, announced)
  BY <1>5, <1>7 DEF Bills, ChainInv, BundlesInv
<1>15. Shaped(bundle)
  BY <1>4, <1>12, <1>13, <1>14, ShapedAppend DEF BundleGood
<1>16. Grown(bundle, announced)
  <2>1. PICK e \in announced : e.bill = bill
    BY <1>7 DEF IsAnnounced
  <2>2. item.core = core
    BY <1>4
  <2>3. e.bill.bundle = bill.bundle /\ Tip(e.bill) = Last(item.core).tip
    BY <1>5, <2>1, <2>2
  <2> QED
    BY <1>12, <1>13, <1>14, <2>1, <2>3, GrownAppend DEF BundleGood
<1>17. PICK j : j = [job[n] EXCEPT !.stage = "submitted", !.segment = segment, !.bundle = bundle]
  OBVIOUS
<1>18. /\ j \in Jobs /\ j.stage = "submitted" /\ j.bill = bill /\ j.segment = segment /\ j.bundle = bundle
  BY <1>1, <1>6, <1>12, <1>13, <1>17 DEF Jobs
<1>19. JobGood(j, segments'[n], bundles'[n], logged', claimed', announced')
  BY <1>5, <1>7, <1>12, <1>13, <1>15, <1>16, <1>18 DEF JobGood, BundleGood
<1>20. job' \in [Nodes -> Jobs] /\ \A x \in Nodes : job'[x] = IF x = n THEN j ELSE job[x]
  BY <1>5, <1>6, <1>13, <1>17, <1>18
<1>21. logged' \subseteq Cores \ {<<>>}
  BY <1>5, <1>6, <1>12
<1>22. BillTypeOK'
  BY <1>5, <1>20, <1>21, TypeDef DEF ChainInv, BillTypeOK, Jobs
<1>23. \A x \in Nodes : \A q \in Range(rows'[x]) : \E o \in Rows(x) : o.bill = q.bill
  BY <1>5 DEF Rows
<1>24. \A x \in Nodes : \/ job'[x] = job[x]
                        \/ JobGood(job'[x], segments'[x], bundles'[x], logged', claimed', announced')
  BY <1>19, <1>20
<1> QED
  BY <1>5, <1>22, <1>23, <1>24, Kept

\* A compaction goes on: its segment and its bundle stay what they were.
LEMMA AdvanceFacts ==
    ASSUME ChainInv, NEW n \in Nodes, NEW from \in {"submitted", "proved", "archived"},
           NEW to \in {"proved", "archived", "bundled"}, Advance(n, from, to)
    PROVE  /\ job[n].stage = from /\ job' \in [Nodes -> Jobs]
           /\ \A x \in Nodes \ {n} : job'[x] = job[x]
           /\ job'[n].stage = to /\ job'[n].bill = job[n].bill /\ job'[n].segment = job[n].segment
           /\ job'[n].bundle = job[n].bundle
           /\ job[n].bill \in Bills /\ job[n].bill.recent # <<>> /\ IsAnnounced(job[n].bill, announced)
           /\ job[n].segment \in Segments /\ Verified(job[n].segment, segments[n])
           /\ job[n].bundle \in Bundles /\ BundleGood(job[n].bundle, announced)
<1>1. job \in [Nodes -> Jobs]
  BY TypeDef DEF ChainInv
<1>2. job[n].stage = from /\ job' = [job EXCEPT ![n].stage = to]
  BY DEF Advance
<1>3. JobGood(job[n], segments[n], bundles[n], logged, claimed, announced)
  BY DEF ChainInv, JobsInv
<1>4. PICK j : j = [job[n] EXCEPT !.stage = to]
  OBVIOUS
<1>5. /\ j \in Jobs /\ j.stage = to /\ j.bill = job[n].bill /\ j.segment = job[n].segment
      /\ j.bundle = job[n].bundle
  BY <1>1, <1>4 DEF Jobs
<1>6. job' \in [Nodes -> Jobs] /\ \A x \in Nodes : job'[x] = IF x = n THEN j ELSE job[x]
  BY <1>1, <1>2, <1>4, <1>5
<1> QED
  BY <1>2, <1>3, <1>5, <1>6 DEF JobGood

LEMMA FetchInv ==
    ASSUME ChainInv, NEW n \in Nodes, FetchProofs(n)
    PROVE  ChainInv'
<1>1. Advance(n, "submitted", "proved") /\ UNCHANGED <<logged, claimed, announced, rows, segments, bundles, failures>>
  BY DEF FetchProofs, stores
<1>2. /\ job' \in [Nodes -> Jobs]
      /\ \A x \in Nodes \ {n} : job'[x] = job[x]
      /\ JobGood(job'[n], segments'[n], bundles'[n], logged', claimed', announced')
  BY <1>1, AdvanceFacts DEF JobGood
<1>3. BillTypeOK'
  BY <1>1, <1>2, TypeDef DEF ChainInv, BillTypeOK, Jobs
<1>4. \A x \in Nodes : \A q \in Range(rows'[x]) : \E o \in Rows(x) : o.bill = q.bill
  BY <1>1 DEF Rows
<1> QED
  BY <1>1, <1>2, <1>3, <1>4, Kept

LEMMA StoreSegmentInv ==
    ASSUME ChainInv, NEW n \in Nodes, StoreSegment(n)
    PROVE  ChainInv'
<1>1. /\ Advance(n, "proved", "archived")
      /\ segments' = [segments EXCEPT ![n] = segments[n] \cup {job[n].segment}]
      /\ UNCHANGED <<logged, claimed, announced, rows, bundles, failures>>
  BY DEF StoreSegment
<1>2. /\ job' \in [Nodes -> Jobs] /\ \A x \in Nodes \ {n} : job'[x] = job[x]
      /\ job'[n].stage = "archived" /\ job'[n].bill = job[n].bill /\ job'[n].segment = job[n].segment
      /\ job'[n].bundle = job[n].bundle
      /\ job[n].bill \in Bills /\ job[n].bill.recent # <<>> /\ IsAnnounced(job[n].bill, announced)
      /\ job[n].segment \in Segments /\ Verified(job[n].segment, segments[n])
      /\ job[n].bundle \in Bundles /\ BundleGood(job[n].bundle, announced)
  BY <1>1, AdvanceFacts
<1>3. segments \in [Nodes -> SUBSET Segments]
  BY TypeDef DEF ChainInv
<1>4. /\ segments' \in [Nodes -> SUBSET Segments]
      /\ \A x \in Nodes : segments'[x] = IF x = n THEN segments[n] \cup {job[n].segment} ELSE segments[x]
  BY <1>1, <1>2, <1>3
<1>5. Verified(job[n].segment, segments'[n])
  BY <1>2, <1>4, VerifiedGrows
<1>6. JobGood(job'[n], segments'[n], bundles'[n], logged', claimed', announced')
  BY <1>1, <1>2, <1>5 DEF JobGood
<1>7. BillTypeOK'
  BY <1>1, <1>2, <1>4, TypeDef DEF ChainInv, BillTypeOK, Jobs
<1>8. \A x \in Nodes : \A q \in Range(rows'[x]) : \E o \in Rows(x) : o.bill = q.bill
  BY <1>1 DEF Rows
<1>9. \A x \in Nodes : \A s \in segments'[x] : s \in segments[x] \/ Verified(s, segments'[x])
  BY <1>4, <1>5
<1> QED
  BY <1>1, <1>2, <1>4, <1>6, <1>7, <1>8, <1>9, Kept

LEMMA StoreBundleInv ==
    ASSUME ChainInv, NEW n \in Nodes, StoreBundle(n)
    PROVE  ChainInv'
<1>1. /\ Advance(n, "archived", "bundled") /\ Proves(job[n].bundle, segments[n], bundles[n])
      /\ bundles' = [bundles EXCEPT ![n] = bundles[n] \cup {job[n].bundle}]
      /\ UNCHANGED <<logged, claimed, announced, rows, segments, failures>>
  BY DEF StoreBundle
<1>2. /\ job' \in [Nodes -> Jobs] /\ \A x \in Nodes \ {n} : job'[x] = job[x]
      /\ job'[n].stage = "bundled" /\ job'[n].bill = job[n].bill /\ job'[n].segment = job[n].segment
      /\ job'[n].bundle = job[n].bundle
      /\ job[n].bill \in Bills /\ job[n].bill.recent # <<>> /\ IsAnnounced(job[n].bill, announced)
      /\ job[n].segment \in Segments /\ Verified(job[n].segment, segments[n])
      /\ job[n].bundle \in Bundles /\ BundleGood(job[n].bundle, announced)
  BY <1>1, AdvanceFacts
<1>3. bundles \in [Nodes -> SUBSET Bundles]
  BY TypeDef DEF ChainInv
<1>4. /\ bundles' \in [Nodes -> SUBSET Bundles]
      /\ \A x \in Nodes : bundles'[x] = IF x = n THEN bundles[n] \cup {job[n].bundle} ELSE bundles[x]
  BY <1>1, <1>2, <1>3
<1>5. ProvesWith(job[n].bundle, segments'[n], bundles'[n], logged', claimed')
  <2>1. ProvesWith(job[n].bundle, segments[n], bundles[n], logged, claimed)
    BY <1>1, ProvesDef
  <2>2. bundles[n] \subseteq bundles'[n]
    BY <1>4
  <2> QED
    BY <1>1, <2>1, <2>2, ProvesGrows
<1>6. JobGood(job'[n], segments'[n], bundles'[n], logged', claimed', announced')
  BY <1>1, <1>2, <1>4, <1>5 DEF JobGood
<1>7. BillTypeOK'
  BY <1>1, <1>2, <1>4, TypeDef DEF ChainInv, BillTypeOK, Jobs
<1>8. \A x \in Nodes : \A q \in Range(rows'[x]) : \E o \in Rows(x) : o.bill = q.bill
  BY <1>1 DEF Rows
<1>9. \A x \in Nodes : \A b \in bundles'[x] : b \in bundles[x] \/ BundleGood(b, announced')
  BY <1>1, <1>2, <1>4
<1> QED
  BY <1>1, <1>2, <1>4, <1>6, <1>7, <1>8, <1>9, Kept

LEMMA StoreCompactInv ==
    ASSUME ChainInv, NEW n \in Nodes, StoreCompact(n)
    PROVE  ChainInv'
<1>1. PICK new : new = job[n].bundle
  OBVIOUS
<1>2. PICK bill : bill = [core |-> Last(new).core, bundle |-> new, recent |-> <<>>]
  OBVIOUS
<1>3. /\ job[n].stage = "bundled"
      /\ rows' = [rows EXCEPT ![n] = Put(rows[n], bill, job[n].status)]
      /\ job' = [job EXCEPT ![n] = NoJob]
      /\ UNCHANGED <<logged, claimed, announced, segments, bundles, failures>>
  BY <1>1, <1>2 DEF StoreCompact
<1>4. /\ rows \in [Nodes -> Seq(BillRows)] /\ job \in [Nodes -> Jobs]
      /\ job[n].status \in {"pending", "verified", "settled"}
  <2>1. rows \in [Nodes -> Seq(BillRows)] /\ job \in [Nodes -> Jobs]
    BY TypeDef DEF ChainInv
  <2> QED
    BY <2>1 DEF Jobs
<1>5. new \in Bundles /\ new \in bundles[n] /\ ProvesWith(new, segments[n], bundles[n], logged, claimed)
  BY <1>1, <1>3 DEF ChainInv, JobsInv, JobGood
<1>6. /\ bill.core = Last(new).core /\ bill.bundle = new /\ bill.recent = <<>>
  BY <1>2
<1>7. Last(new) \in Items /\ Last(new).core \in Seq(States) \ {<<>>}
  <2>1. Last(new) \in Items
    BY <1>5, LastFacts DEF Bundles
  <2> QED
    BY <2>1 DEF Items, Cores
<1>8. bill \in Bills
  BY <1>2, <1>5, <1>7 DEF Bills, Cores
<1>9. Replay(BaseOf(bill.core), bill.recent) # Invalid
  <2>1. BaseOf(bill.core) \in States
    BY <1>6, <1>7, LastFacts DEF BaseOf
  <2>2. bill.recent \in Seq(Transfers)
    BY <1>6
  <2> QED
    BY <1>6, <2>1, <2>2, ReplayType, TreeAssumption
<1>10. BillGood(bill, segments'[n], bundles'[n], logged', claimed', announced')
  BY <1>3, <1>5, <1>6, <1>9 DEF BillGood, Stands
<1>11. PICK table : table = Put(rows[n], bill, job[n].status)
  OBVIOUS
<1>12. /\ table \in Seq(BillRows)
       /\ \A q \in Range(table) : q.bill = bill \/ q \in Range(rows[n])
  BY <1>4, <1>8, <1>11, PutFacts
<1>13. rows' \in [Nodes -> Seq(BillRows)] /\ \A x \in Nodes : rows'[x] = IF x = n THEN table ELSE rows[x]
  BY <1>3, <1>4, <1>11, <1>12
<1>14. job' \in [Nodes -> Jobs] /\ \A x \in Nodes : job'[x] = job[x] \/ job'[x].stage = "idle"
  BY <1>3, <1>4, NoJobFacts
<1>15. BillTypeOK'
  BY <1>3, <1>13, <1>14, TypeDef DEF ChainInv, BillTypeOK, Jobs, BillRows
<1>16. \A x \in Nodes : \A q \in Range(rows'[x]) :
           \/ \E o \in Rows(x) : o.bill = q.bill
           \/ BillGood(q.bill, segments'[x], bundles'[x], logged', claimed', announced')
  BY <1>10, <1>12, <1>13 DEF Rows
<1> QED
  BY <1>3, <1>14, <1>15, <1>16, Kept

-----------------------------------------------------------------------------
(* The bill as it was issued *)

IssuePiece == [base |-> Start, transfers |-> <<Issued>>, previousCore |-> <<>>]
IssueItem == [core |-> IssueCore, segment |-> IssueSegment, by |-> None]

LEMMA OneFacts ==
    ASSUME NEW S, NEW x \in S
    PROVE  /\ <<x>> \in Seq(S) \ {<<>>} /\ Len(<<x>>) = 1 /\ <<x>>[1] = x /\ Last(<<x>>) = x
           /\ Front(<<x>>) = <<>> /\ UpTo(<<x>>, 1) = <<x>> /\ Append(<<>>, x) = <<x>>
<1>0. PICK e : e = <<>>
  OBVIOUS
<1>1. e = <<>> /\ e \in Seq(S)
  BY <1>0
<1>2. PICK s : s = <<x>>
  OBVIOUS
<1>3. Append(e, x) = s
  BY <1>1, <1>2
<1>4. s \in Seq(S) \ {<<>>} /\ Len(s) = 1 /\ s[1] = x
  BY <1>2
<1>5. Front(s) = e /\ Last(s) = x
  <2>1. e \in Seq(S)
    BY <1>1
  <2>2. Front(Append(e, x)) = e /\ Last(Append(e, x)) = x
    BY <2>1, AppendFacts
  <2> QED
    BY <1>3, <2>2
<1>6. UpTo(s, Len(s)) = s
  BY <1>4, UpToFacts
<1> QED
  BY <1>1, <1>2, <1>3, <1>4, <1>5, <1>6

LEMMA IssueReplay ==
    /\ Replay(Start, <<Issued>>) = After(Start, Issued) /\ After(Start, Issued) \in States
    /\ After(Start, Issued) # Invalid /\ After(Start, Issued).tip = Issued
<1>1. Issued \in Transfers /\ Start \in States /\ Start # Invalid
  BY TreeAssumption, StartFacts
<1>2. PICK ts : ts = <<Issued>>
  OBVIOUS
<1>3. Len(ts) = 1 /\ ts[1] = Issued
  BY <1>2
<1>4. PICK f : /\ f[0] = Start /\ \A i \in 1..1 : f[i] = Replayed(f[i - 1], ts[i])
               /\ Replay(Start, ts) = f[1]
  <2>1. \E f : /\ f[0] = Start /\ \A i \in 1..Len(ts) : f[i] = Replayed(f[i - 1], ts[i])
               /\ Replay(Start, ts) = f[Len(ts)]
    BY <1>3, ReplayDef
  <2> QED
    BY <1>3, <2>1
<1>5. f[1] = Replayed(Start, Issued)
  BY <1>3, <1>4
<1>6. Extends(Start, Issued)
  <2>1. Start.tip = Genesis /\ Start.time = 0 /\ Start.count = 0
    BY DEF Start
  <2>2. After(Start, Issued).count = 1
    BY <2>1 DEF After
  <2> QED
    BY <2>1, <2>2, TreeAssumption, LimitAssumption DEF Extends
<1>7. After(Start, Issued) \in States
  BY <1>1, AfterType
<1>8. After(Start, Issued).tip = Issued
  BY DEF After
<1> QED
  BY <1>1, <1>2, <1>4, <1>5, <1>6, <1>7, <1>8, TreeAssumption DEF Replayed

LEMMA IssueFacts ==
    /\ IssueCore \in Cores \ {<<>>} /\ IssueSegment \in Segments /\ IssueBundle \in Bundles /\ IssueBill \in Bills
    /\ Verified(IssueSegment, {IssueSegment}) /\ BundleGood(IssueBundle, {})
    /\ BillGood(IssueBill, {IssueSegment}, {IssueBundle}, {IssueCore}, {Issued}, {})
<1>1. PICK s : s = After(Start, Issued)
  OBVIOUS
<1>2. Replay(Start, <<Issued>>) = s /\ s \in States /\ s # Invalid /\ s.tip = Issued
  BY <1>1, IssueReplay
<1>3. /\ IssueCore \in Seq(States) \ {<<>>} /\ Last(IssueCore) = s /\ Front(IssueCore) = <<>>
      /\ Append(<<>>, s) = IssueCore
  BY <1>1, <1>2, OneFacts DEF IssueCore
<1>4. IssuePiece \in Pieces /\ CoreOf(IssuePiece) = IssueCore
  <2>1. <<Issued>> \in Seq(Transfers) /\ <<>> \in Seq(States)
    BY TreeAssumption, OneFacts
  <2>2. IssuePiece \in Pieces
    BY <2>1, StartFacts DEF IssuePiece, Pieces, Cores
  <2>3. CoreOf(IssuePiece) = Append(<<>>, Replay(Start, <<Issued>>))
    BY DEF CoreOf, IssuePiece
  <2> QED
    BY <1>2, <1>3, <2>2, <2>3
<1>5. PICK seg : seg = <<IssuePiece>>
  OBVIOUS
<1>6. /\ seg \in Seq(Pieces) \ {<<>>} /\ Len(seg) = 1 /\ seg[1] = IssuePiece /\ Last(seg) = IssuePiece
      /\ UpTo(seg, 1) = seg
  BY <1>4, <1>5, OneFacts
<1>7. IssueSegment = seg
  BY <1>5 DEF IssueSegment, IssuePiece
<1>8. Verified(seg, {seg})
  <2>1. IssuePiece.transfers # <<>> /\ Replay(IssuePiece.base, IssuePiece.transfers) # Invalid
        /\ IssuePiece.previousCore = <<>> /\ IssuePiece.base = Start
    BY <1>2 DEF IssuePiece
  <2>2. Connects(seg, 1, {seg})
    BY <1>6, <2>1 DEF Connects
  <2> QED
    BY <1>6, <2>2 DEF Verified
<1>9. IssueItem \in Items /\ IssueItem.core = IssueCore /\ IssueItem.segment = seg
  BY <1>3, <1>6, <1>7 DEF IssueItem, Items, Cores, Segments
<1>10. PICK b : b = <<IssueItem>>
  OBVIOUS
<1>11. b \in Seq(Items) \ {<<>>} /\ Len(b) = 1 /\ b[1] = IssueItem /\ Last(b) = IssueItem
  BY <1>9, <1>10, OneFacts
<1>12. IssueBundle = b
  BY <1>10 DEF IssueBundle, IssueItem
<1>13. AttestsWith(b, 1, {seg}, {b}, {IssueCore}, {Issued})
  BY <1>2, <1>3, <1>4, <1>6, <1>8, <1>9, <1>11 DEF AttestsWith
<1>14. ProvesWith(b, {seg}, {b}, {IssueCore}, {Issued})
  BY <1>11, <1>13 DEF ProvesWith
<1>15. /\ IssueBill.core = IssueCore /\ IssueBill.bundle = b /\ IssueBill.recent = <<>>
       /\ IssueBill \in Bills
  BY <1>3, <1>11, <1>12 DEF IssueBill, Bills, Cores, Bundles
<1>16. Replay(BaseOf(IssueCore), <<>>) # Invalid
  <2>1. <<>> \in Seq(Transfers)
    OBVIOUS
  <2> QED
    BY <1>2, <1>3, <2>1, ReplayType DEF BaseOf
<1>17. Stands(IssueBill, {seg}, {b}, {IssueCore}, {Issued})
  BY <1>9, <1>11, <1>14, <1>15, <1>16 DEF Stands
<1>18. BillGood(IssueBill, {seg}, {b}, {IssueCore}, {Issued}, {})
  BY <1>15, <1>17 DEF BillGood
<1>19. Shaped(b) /\ Grown(b, {})
  BY <1>6, <1>9, <1>11 DEF Shaped, Grown
<1> QED
  BY <1>3, <1>6, <1>7, <1>8, <1>11, <1>12, <1>15, <1>18, <1>19 DEF Cores, Segments, Bundles, BundleGood

LEMMA InitInv ==
    ASSUME BillInit
    PROVE  ChainInv
<1>1. PICK owner : owner = Recipient[Issued]
  OBVIOUS
<1>2. PICK row : row = [bill |-> IssueBill, status |-> "settled"]
  OBVIOUS
<1>3. /\ logged = {IssueCore} /\ claimed = {Issued} /\ announced = {} /\ failures = 0
      /\ rows = [n \in Nodes |-> IF n = owner THEN <<row>> ELSE <<>>]
      /\ segments = [n \in Nodes |-> IF n = owner THEN {IssueSegment} ELSE {}]
      /\ bundles = [n \in Nodes |-> IF n = owner THEN {IssueBundle} ELSE {}]
      /\ job = [n \in Nodes |-> NoJob]
  BY <1>1, <1>2 DEF BillInit
<1>4. row \in BillRows /\ row.bill = IssueBill
  BY <1>2, IssueFacts DEF BillRows
<1>5. <<row>> \in Seq(BillRows) /\ Range(<<row>>) = {row} /\ <<>> \in Seq(BillRows) /\ Range(<<>>) = {}
  <2>1. <<row>> \in Seq(BillRows) /\ Len(<<row>>) = 1 /\ <<row>>[1] = row
    BY <1>4, OneFacts
  <2>2. Range(<<row>>) = {<<row>>[i] : i \in 1..Len(<<row>>)}
    BY <2>1, RangeFacts
  <2>3. PICK e : e = <<>>
    OBVIOUS
  <2>4. e \in Seq(BillRows)
    BY <2>3
  <2>5. Range(e) = {e[i] : i \in 1..Len(e)}
    BY <2>4, RangeFacts
  <2>6. Range(<<row>>) = {row}
    BY <2>1, <2>2
  <2>7. Len(e) = 0
    BY <2>3
  <2>8. Range(e) = {}
    BY <2>5, <2>7
  <2> QED
    BY <2>1, <2>3, <2>4, <2>6, <2>8
<1>6. BillTypeOK
  <2>1. rows \in [Nodes -> Seq(BillRows)] /\ segments \in [Nodes -> SUBSET Segments]
        /\ bundles \in [Nodes -> SUBSET Bundles] /\ job \in [Nodes -> Jobs]
    BY <1>3, <1>5, IssueFacts, NoJobFacts
  <2>2. logged \subseteq Cores \ {<<>>} /\ claimed \subseteq Transfers /\ failures \in 0..MaxFailures
        /\ announced = {}
    BY <1>3, IssueFacts, TreeAssumption, LimitAssumption
  <2> QED
    BY <2>1, <2>2, TypeDef
<1>7. RowsInv
  <2>1. ASSUME NEW n \in Nodes, NEW r \in Range(rows[n])
        PROVE  BillGood(r.bill, segments[n], bundles[n], logged, claimed, announced)
    <3>1. n = owner /\ r = row
      BY <1>3, <1>5
    <3>2. segments[n] = {IssueSegment} /\ bundles[n] = {IssueBundle}
      BY <1>3, <3>1
    <3> QED
      BY <1>3, <1>4, <3>1, <3>2, IssueFacts
  <2> QED
    BY <2>1 DEF RowsInv, Rows
<1>8. SegmentsInv
  BY <1>3, IssueFacts DEF SegmentsInv
<1>9. BundlesInv
  BY <1>3, IssueFacts DEF BundlesInv
<1>10. AnnouncedInv
  BY <1>3 DEF AnnouncedInv
<1>11. JobsInv
  BY <1>3, NoJobFacts DEF JobsInv, JobGood
<1> QED
  BY <1>6, <1>7, <1>8, <1>9, <1>10, <1>11 DEF ChainInv

LEMMA NextInv ==
    ASSUME ChainInv, [BillNext]_billVars
    PROVE  ChainInv'
<1>1. CASE UNCHANGED billVars
  BY <1>1, StutterInv
<1>2. CASE BillNext
  <2>1. ASSUME NEW t \in Transfers, Claim(t)
        PROVE  ChainInv'
    BY <2>1, ClaimInv
  <2>2. ASSUME NEW t \in Transfers, NEW n \in Nodes, Spend(n, t)
        PROVE  ChainInv'
    BY <2>2, SpendInv
  <2>3. ASSUME NEW n \in Nodes, Deliver(n)
        PROVE  ChainInv'
    BY <2>3, DeliverInv
  <2>4. ASSUME NEW n \in Nodes, Settle(n)
        PROVE  ChainInv'
    BY <2>4, SettleInv
  <2>5. ASSUME NEW n \in Nodes, CompactNow(n)
        PROVE  ChainInv'
    BY <2>5, CompactNowInv
  <2>6. ASSUME NEW n \in Nodes, Compact(n)
        PROVE  ChainInv'
    BY <2>6, SubmitInv, FetchInv, StoreSegmentInv, StoreBundleInv, StoreCompactInv DEF Compact
  <2>7. ASSUME NEW n \in Nodes, GiveUp(n) \/ Crash(n)
        PROVE  ChainInv'
    BY <2>7, LeaveInv
  <2>8. ASSUME NEW n \in Nodes, NEW m \in Nodes \ {n}, Sync(n, m)
        PROVE  ChainInv'
    BY <2>8, SyncInv
  <2> QED
    BY <1>2, <2>1, <2>2, <2>3, <2>4, <2>5, <2>6, <2>7, <2>8 DEF BillNext
<1> QED
  BY <1>1, <1>2

-----------------------------------------------------------------------------
(* Theorems *)

\* In every state the tables, the announcements and the compactions under way are what
\* the invariant of the chain says.
THEOREM ChainInvariance == BillSpec => []ChainInv
<1>1. BillInit => ChainInv
  BY InitInv
<1>2. ChainInv /\ [BillNext]_billVars => ChainInv'
  BY NextInv
<1> QED
  BY <1>1, <1>2, PTL DEF BillSpec

\* BillTypeOK: the tables of every node hold bills, segments and bundles of the shapes
\* that store.py reads them back with, whatever was announced, synced or compacted.
THEOREM BillTypeCorrect == BillSpec => []BillTypeOK
<1>1. ChainInv => BillTypeOK
  BY DEF ChainInv
<1> QED
  BY <1>1, ChainInvariance, PTL

\* StoresStandAlone: _ingest_transfer_announcement_v3, store_bill_v3 and _compact_bill_v3 leave no
\* bill in a store that the store's own segments and bundles do not verify.
THEOREM StoresAlwaysStandAlone == BillSpec => []StoresStandAlone
<1>1. ChainInv => StoresStandAlone
  BY StandAlone
<1> QED
  BY <1>1, ChainInvariance, PTL

\* DailyLimitHolds: the counter that a checkpoint carries over is the number of transfers
\* of the day in the whole history, so _replay_transfer_sequence_from_state enforces the daily
\* limit across compactions, whoever made them.
THEOREM DailyLimitAlwaysHolds == BillSpec => []DailyLimitHolds
<1>1. ChainInv => DailyLimitHolds
  BY LimitHolds
<1> QED
  BY <1>1, ChainInvariance, PTL

\* WhoHeardAllGoesOn: verify_transfer_announcement accepts an announcement from every node
\* that holds the bills announced before it.
THEOREM WhoHeardAllAlwaysGoesOn == BillSpec => []WhoHeardAllGoesOn
<1>1. ChainInv => WhoHeardAllGoesOn
  BY HeardGoesOn
<1> QED
  BY <1>1, ChainInvariance, PTL

=============================================================================
