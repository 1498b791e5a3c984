---------------------------- MODULE Overlay_proofs ----------------------------
(***************************************************************************)
(* Theorems about the colours of the graph, for any fabric, models,        *)
(* answers, addresses and order of them.  What every element was last      *)
(* styled with is the colour of what is written beside the model, and that *)
(* is what the answers on hand say of the model on screen; an answer says *)
(* of the ports what the API makes of their readings.                      *)
(***************************************************************************)
EXTENDS Overlay, WellFoundedInduction, FiniteSetTheorems, TLAPS

-----------------------------------------------------------------------------
(* Sums. *)

\* A set of naturals with 0 and the successor of each of its members is Nat.
LEMMA Reached ==
  ASSUME NEW n \in Nat, NEW P, 0 \in P, \A k \in 0 .. n : k \in P => k + 1 \in P
  PROVE  n \in P
<1> SUFFICES ASSUME n \notin P
             PROVE  FALSE
  OBVIOUS
<1> DEFINE R == OpToRel(<, Nat)
           S == {k \in 0 .. n : k \notin P}
<1>1. IsWellFoundedOn(R, Nat)
  BY NatLessThanWellFounded
<1>2. \A x, y \in Nat : <<y, x>> \in R <=> y < x
  BY DEF OpToRel
<1> HIDE DEF R
<1>3. S \subseteq Nat /\ S # {}
  OBVIOUS
<1>4. PICK m \in S : \A k \in S : ~ (<<k, m>> \in R)
  BY <1>1, <1>3, WFMin
<1>5. m # 0 /\ m - 1 \in 0 .. n /\ m - 1 < m /\ m = (m - 1) + 1 /\ m - 1 \in Nat /\ m \in Nat
  BY <1>4
<1>6. m - 1 \in S
  BY <1>5, <1>4
<1> QED
  BY <1>2, <1>4, <1>5, <1>6

\* The element a sum takes first.
First(T) == CHOOSE x \in T : TRUE

LEMMA FirstIs ==
  \A T : T # {} => First(T) \in T
BY DEF First

\* The values of the recursion over the subsets of S.
SummedBy(g, S, f) ==
  /\ g[{}] = 0
  /\ \A T \in SUBSET S : T # {} => g[T] = f[First(T)] + g[T \ {First(T)}]
  /\ SumOver(S, f) = g[S]

\* It has them: if it has those of the sets up to n elements, it has those of the
\* sets with one more.
LEMMA SumSteps ==
  ASSUME NEW S, IsFiniteSet(S), NEW f
  PROVE  \E g : SummedBy(g, S, f)
<1> DEFINE E(g, T) == IF T = {} THEN 0
                      ELSE LET x == CHOOSE x \in T : TRUE IN f[x] + g[T \ {x}]
           Level(n) == {T \in SUBSET S : Cardinality(T) <= n}
           Rec(g, n) == g = [T \in Level(n) |-> E(g, T)]
           P == {n \in Nat : \E g : Rec(g, n)}
           All(g) == g = [T \in SUBSET S |-> E(g, T)]
           G == CHOOSE g : All(g)
<1>0. \A T \in SUBSET S : IsFiniteSet(T) /\ Cardinality(T) \in Nat
  BY FS_Subset, FS_CardinalityType
<1>1. \A T \in SUBSET S : T # {} => /\ First(T) \in T /\ T \ {First(T)} \in SUBSET S
                                    /\ Cardinality(T \ {First(T)}) = Cardinality(T) - 1
  BY <1>0, FirstIs, FS_RemoveElement
<1>2. \A g, T : T # {} => E(g, T) = f[First(T)] + g[T \ {First(T)}]
  BY DEF First
<1>3. \A g : E(g, {}) = 0
  OBVIOUS
<1>4. ASSUME NEW g, NEW n \in Nat, Rec(g, n), NEW T \in Level(n) PROVE g[T] = E(g, T)
  <2> HIDE DEF E, Level
  <2> QED
    BY <1>4
<1>5. 0 \in P
  <2>1. \A T \in Level(0) : T = {}
    BY <1>0, FS_EmptySet
  <2>2. Rec([T \in Level(0) |-> 0], 0)
    <3> HIDE DEF E, Level
    <3> QED
      BY <1>3, <2>1
  <2> QED
    BY <2>2
<1>6. ASSUME NEW n \in Nat, n \in P PROVE n + 1 \in P
  <2>1. PICK g : Rec(g, n)
    BY <1>6
  <2> DEFINE h == [T \in Level(n + 1) |-> IF T \in Level(n) THEN g[T] ELSE E(g, T)]
  <2>2. ASSUME NEW T \in Level(n + 1) PROVE h[T] = E(h, T)
    <3>1. T # {} => T \ {First(T)} \in Level(n) /\ T \ {First(T)} \in Level(n + 1)
      BY <1>0, <1>1
    <3> HIDE DEF E, Rec, Level
    <3>2. T # {} => h[T \ {First(T)}] = g[T \ {First(T)}]
      BY <3>1
    <3>3. T \in Level(n) => g[T] = E(g, T)
      BY <1>4, <2>1
    <3>4. h[T] = IF T \in Level(n) THEN g[T] ELSE E(g, T)
      OBVIOUS
    <3> HIDE DEF h
    <3>5. E(h, T) = E(g, T)
      <4>1. CASE T = {}
        BY <4>1, <1>3
      <4>2. CASE T # {}
        <5>1. E(h, T) = f[First(T)] + h[T \ {First(T)}] /\ E(g, T) = f[First(T)] + g[T \ {First(T)}]
          BY <4>2, <1>2, Zenon
        <5> QED
          BY <4>2, <5>1, <3>2
      <4> QED
        BY <4>1, <4>2
    <3> QED
      BY <3>3, <3>4, <3>5
  <2>3. Rec(h, n + 1)
    <3> HIDE DEF E, Level
    <3> QED
      BY <2>2
  <2> HIDE DEF Rec
  <2> QED
    BY <2>3
<1>7. Cardinality(S) \in P
  <2>1. Cardinality(S) \in Nat
    BY <1>0
  <2> HIDE DEF P
  <2> QED
    BY <1>5, <1>6, <2>1, Reached
<1>8. Level(Cardinality(S)) = SUBSET S
  BY <1>0, FS_Subset
<1>9. All(G)
  <2>1. PICK g : Rec(g, Cardinality(S))
    BY <1>7
  <2>2. All(g)
    <3> HIDE DEF E, Level
    <3> QED
      BY <2>1, <1>8
  <2> HIDE DEF All
  <2> QED
    BY <2>2
<1>10. SumOver(S, f) = G[S]
  BY DEF SumOver
<1>11. ASSUME NEW T \in SUBSET S PROVE G[T] = E(G, T)
  <2> HIDE DEF G, E
  <2> QED
    BY <1>9
<1> HIDE DEF G, E
<1>12. SummedBy(G, S, f)
  BY <1>2, <1>3, <1>10, <1>11 DEF SummedBy
<1> QED
  BY <1>12

LEMMA SumOfNone ==
  ASSUME NEW f
  PROVE  SumOver({}, f) = 0
<1>1. PICK g : SummedBy(g, {}, f)
  BY SumSteps, FS_EmptySet
<1> QED
  BY <1>1 DEF SummedBy

\* The recursion of a set is that of its subsets.
LEMMA SumOfPart ==
  ASSUME NEW S, IsFiniteSet(S), NEW f, NEW g, SummedBy(g, S, f)
  PROVE  \A T \in SUBSET S : SumOver(T, f) = g[T]
<1> SUFFICES ASSUME NEW U \in SUBSET S PROVE SumOver(U, f) = g[U]
  OBVIOUS
<1>0. \A T \in SUBSET U : IsFiniteSet(T) /\ Cardinality(T) \in Nat
  BY FS_Subset, FS_CardinalityType
<1>1. PICK h : SummedBy(h, U, f)
  BY <1>0, SumSteps
<1> DEFINE P == {n \in Nat : \A T \in SUBSET U : Cardinality(T) = n => h[T] = g[T]}
<1>2. 0 \in P
  <2>1. \A T \in SUBSET U : Cardinality(T) = 0 => T = {}
    BY <1>0, FS_EmptySet
  <2> QED
    BY <1>1, <2>1 DEF SummedBy
<1>3. ASSUME NEW n \in Nat, n \in P PROVE n + 1 \in P
  <2> SUFFICES ASSUME NEW T \in SUBSET U, Cardinality(T) = n + 1 PROVE h[T] = g[T]
    OBVIOUS
  <2>1. T # {}
    BY FS_EmptySet
  <2>2. First(T) \in T /\ T \ {First(T)} \in SUBSET U /\ Cardinality(T \ {First(T)}) = n
    BY <1>0, <2>1, FirstIs, FS_RemoveElement
  <2>3. h[T \ {First(T)}] = g[T \ {First(T)}]
    BY <1>3, <2>2
  <2>4. h[T] = f[First(T)] + h[T \ {First(T)}]
    BY <1>1, <2>1 DEF SummedBy
  <2>5. g[T] = f[First(T)] + g[T \ {First(T)}]
    BY <2>1 DEF SummedBy
  <2> QED
    BY <2>3, <2>4, <2>5
<1>4. Cardinality(U) \in P
  <2>1. Cardinality(U) \in Nat
    BY <1>0
  <2> HIDE DEF P
  <2> QED
    BY <1>2, <1>3, <2>1, Reached
<1> QED
  BY <1>1, <1>4 DEF SummedBy

LEMMA SumFirst ==
  ASSUME NEW S, IsFiniteSet(S), S # {}, NEW f
  PROVE  SumOver(S, f) = f[First(S)] + SumOver(S \ {First(S)}, f)
<1>1. PICK g : SummedBy(g, S, f)
  BY SumSteps
<1>2. S \in SUBSET S /\ S \ {First(S)} \in SUBSET S
  OBVIOUS
<1>3. SumOver(S, f) = g[S] /\ SumOver(S \ {First(S)}, f) = g[S \ {First(S)}]
  BY <1>1, <1>2, SumOfPart
<1> QED
  BY <1>1, <1>2, <1>3 DEF SummedBy

\* A sum is an integer, and the same whichever element is taken first.
LEMMA SumTakes ==
  ASSUME NEW S, IsFiniteSet(S), NEW f, \A x \in S : f[x] \in Int
  PROVE  /\ SumOver(S, f) \in Int
         /\ \A y \in S : SumOver(S, f) = f[y] + SumOver(S \ {y}, f)
<1> DEFINE Good(T) == /\ SumOver(T, f) \in Int
                      /\ \A y \in T : SumOver(T, f) = f[y] + SumOver(T \ {y}, f)
           P == {n \in Nat : \A T \in SUBSET S : Cardinality(T) <= n => Good(T)}
<1>0. \A T \in SUBSET S : IsFiniteSet(T) /\ Cardinality(T) \in Nat
  BY FS_Subset, FS_CardinalityType
<1>1. \A T \in SUBSET S : \A y \in T : T \ {y} \in SUBSET S /\ Cardinality(T \ {y}) = Cardinality(T) - 1
  BY <1>0, FS_RemoveElement
<1>2. 0 \in P
  <2>1. \A T \in SUBSET S : Cardinality(T) <= 0 => T = {}
    BY <1>0, FS_EmptySet
  <2>2. Good({})
    BY SumOfNone
  <2> HIDE DEF Good
  <2> QED
    BY <2>1, <2>2
<1>3. ASSUME NEW n \in Nat, n \in P PROVE n + 1 \in P
  <2> HIDE DEF Good
  <2> SUFFICES ASSUME NEW T \in SUBSET S, Cardinality(T) = n + 1 PROVE Good(T)
    BY <1>0, <1>3
  <2>1. T # {} /\ IsFiniteSet(T)
    BY <1>0, FS_EmptySet
  <2> DEFINE c == First(T)
  <2>2. c \in T
    BY <2>1, FirstIs
  <2> HIDE DEF c
  <2>3. \A y \in T : Good(T \ {y}) /\ \A z \in T \ {y} : Good((T \ {y}) \ {z})
    <3>1. ASSUME NEW y \in T PROVE T \ {y} \in SUBSET S /\ Cardinality(T \ {y}) = n
      BY <1>1
    <3>2. ASSUME NEW y \in T, NEW z \in T \ {y}
          PROVE  (T \ {y}) \ {z} \in SUBSET S /\ Cardinality((T \ {y}) \ {z}) <= n
      <4>1. Cardinality((T \ {y}) \ {z}) = Cardinality(T \ {y}) - 1
        BY <1>1, <3>1
      <4> QED
        BY <3>1, <4>1
    <3>3. ASSUME NEW U \in SUBSET S, Cardinality(U) <= n PROVE Good(U)
      BY <1>3, <3>3
    <3> QED
      BY <3>1, <3>2, <3>3
  <2>4. SumOver(T, f) = f[c] + SumOver(T \ {c}, f)
    BY <2>1, SumFirst DEF c
  <2>5. SumOver(T \ {c}, f) \in Int /\ f[c] \in Int
    BY <2>2, <2>3 DEF Good
  <2>6. ASSUME NEW y \in T, y # c PROVE SumOver(T, f) = f[y] + SumOver(T \ {y}, f)
    <3>1. y \in T \ {c} /\ c \in T \ {y} /\ (T \ {c}) \ {y} = (T \ {y}) \ {c}
      BY <2>2, <2>6
    <3>2. Good(T \ {c}) /\ Good(T \ {y})
      BY <2>2, <2>3
    <3>3. SumOver(T \ {c}, f) = f[y] + SumOver((T \ {c}) \ {y}, f)
      BY <3>1, <3>2 DEF Good
    <3>4. SumOver(T \ {y}, f) = f[c] + SumOver((T \ {y}) \ {c}, f)
      BY <3>1, <3>2 DEF Good
    <3> DEFINE rest == SumOver((T \ {c}) \ {y}, f)
    <3>5. f[y] \in Int /\ rest \in Int
      BY <2>2, <2>3, <3>1 DEF Good
    <3>6. SumOver(T \ {c}, f) = f[y] + rest /\ SumOver(T \ {y}, f) = f[c] + rest
      BY <3>1, <3>3, <3>4
    <3> HIDE DEF rest
    <3> QED
      BY <2>4, <2>5, <3>5, <3>6
  <2>7. \A y \in T : SumOver(T, f) = f[y] + SumOver(T \ {y}, f)
    BY <2>4, <2>6
  <2>8. SumOver(T, f) \in Int
    BY <2>4, <2>5
  <2> QED
    BY <2>7, <2>8 DEF Good
<1>4. Cardinality(S) \in P
  <2>1. Cardinality(S) \in Nat
    BY <1>0
  <2> HIDE DEF P
  <2> QED
    BY <1>2, <1>3, <2>1, Reached
<1> QED
  BY <1>4

LEMMA SumAdds ==
  ASSUME NEW S, IsFiniteSet(S), NEW y, y \notin S, NEW f, \A x \in S \cup {y} : f[x] \in Int
  PROVE  SumOver(S \cup {y}, f) = SumOver(S, f) + f[y]
<1>1. IsFiniteSet(S \cup {y}) /\ (S \cup {y}) \ {y} = S
  BY FS_AddElement
<1>2. SumOver(S, f) \in Int
  BY SumTakes
<1>3. SumOver(S \cup {y}, f) = f[y] + SumOver((S \cup {y}) \ {y}, f)
  BY <1>1, SumTakes
<1>4. f[y] \in Int /\ SumOver(S \cup {y}, f) = f[y] + SumOver(S, f)
  BY <1>1, <1>3
<1> QED
  BY <1>2, <1>4

\* A sum looks at nothing else.
LEMMA SumSame ==
  ASSUME NEW S, IsFiniteSet(S), NEW f, NEW g, \A x \in S : f[x] = g[x]
  PROVE  SumOver(S, f) = SumOver(S, g)
<1> DEFINE P == {n \in Nat : \A T \in SUBSET S : Cardinality(T) = n => SumOver(T, f) = SumOver(T, g)}
<1>0. \A T \in SUBSET S : IsFiniteSet(T) /\ Cardinality(T) \in Nat
  BY FS_Subset, FS_CardinalityType
<1>1. \A T \in SUBSET S : T # {} => /\ First(T) \in T /\ T \ {First(T)} \in SUBSET S
                                    /\ Cardinality(T \ {First(T)}) = Cardinality(T) - 1
  BY <1>0, FirstIs, FS_RemoveElement
<1>2. 0 \in P
  <2>1. \A T \in SUBSET S : Cardinality(T) = 0 => T = {}
    BY <1>0, FS_EmptySet
  <2> QED
    BY <2>1, SumOfNone
<1>3. ASSUME NEW n \in Nat, n \in P PROVE n + 1 \in P
  <2> SUFFICES ASSUME NEW T \in SUBSET S, Cardinality(T) = n + 1 PROVE SumOver(T, f) = SumOver(T, g)
    OBVIOUS
  <2>1. T # {} /\ IsFiniteSet(T)
    BY <1>0, FS_EmptySet
  <2>2. First(T) \in T /\ T \ {First(T)} \in SUBSET S /\ Cardinality(T \ {First(T)}) = n
    BY <1>1, <2>1
  <2>3. SumOver(T \ {First(T)}, f) = SumOver(T \ {First(T)}, g)
    BY <1>3, <2>2
  <2>4. /\ SumOver(T, f) = f[First(T)] + SumOver(T \ {First(T)}, f)
        /\ SumOver(T, g) = g[First(T)] + SumOver(T \ {First(T)}, g)
    BY <2>1, SumFirst
  <2> QED
    BY <2>2, <2>3, <2>4
<1>4. Cardinality(S) \in P
  <2>1. Cardinality(S) \in Nat
    BY <1>0
  <2> HIDE DEF P
  <2> QED
    BY <1>2, <1>3, <2>1, Reached
<1> QED
  BY <1>4

-----------------------------------------------------------------------------
(* Rollups. *)

LEMMA MaxIs ==
  ASSUME NEW S, NEW v \in S, S \subseteq Int, \A y \in S : v >= y
  PROVE  Max(S) = v
<1> DEFINE w == Max(S)
<1>1. w \in S /\ \A y \in S : w >= y
  BY DEF Max
<1> HIDE DEF w
<1>2. w \in Int /\ v \in Int /\ w >= v /\ v >= w
  BY <1>1
<1>3. w = v
  BY <1>2
<1> QED
  BY <1>3 DEF w

LEMMA MaxOfTwo ==
  \A a, b \in Int : Max({a, b}) = IF a >= b THEN a ELSE b
<1> SUFFICES ASSUME NEW a \in Int, NEW b \in Int
             PROVE  Max({a, b}) = IF a >= b THEN a ELSE b
  OBVIOUS
<1>1. CASE a >= b
  <2>1. a \in {a, b} /\ {a, b} \subseteq Int /\ \A y \in {a, b} : a >= y
    BY <1>1
  <2> QED
    BY <1>1, <2>1, MaxIs
<1>2. CASE ~ (a >= b)
  <2>1. b \in {a, b} /\ {a, b} \subseteq Int /\ \A y \in {a, b} : b >= y
    BY <1>2
  <2> QED
    BY <1>2, <2>1, MaxIs
<1> QED
  BY <1>1, <1>2

\* The accumulators of the rows, one after the other.
RolledBy(acc, m, mode_, rows, says) ==
  /\ acc[0] = Seed(m)
  /\ \A k \in 1 .. Len(rows) : acc[k] = Take(acc[k - 1], rows[k], says[k], m, mode_)
  /\ RolledUp(m, mode_, rows, says) = acc[Len(rows)]

LEMMA RollSteps ==
  ASSUME NEW m, NEW how, NEW rows, Len(rows) \in Nat, NEW says
  PROVE  \E acc : RolledBy(acc, m, how, rows, says)
<1> DEFINE E(f, k) == IF k = 0 THEN Seed(m) ELSE Take(f[k - 1], rows[k], says[k], m, how)
           Rec(f, n) == f = [k \in 0 .. n |-> E(f, k)]
           P == {n \in Nat : \E f : Rec(f, n)}
           F == CHOOSE f : Rec(f, Len(rows))
<1>1. ASSUME NEW f, NEW n \in Nat, Rec(f, n), NEW k \in 0 .. n PROVE f[k] = E(f, k)
  <2> HIDE DEF E
  <2> QED
    BY <1>1
<1>2. 0 \in P
  <2>1. \A f : E(f, 0) = Seed(m)
    OBVIOUS
  <2>2. Rec([k \in 0 .. 0 |-> Seed(m)], 0)
    <3> HIDE DEF E
    <3> QED
      BY <2>1
  <2> QED
    BY <2>2
<1>3. ASSUME NEW n \in Nat, n \in P PROVE n + 1 \in P
  <2>1. PICK f : Rec(f, n)
    BY <1>3
  <2> DEFINE g == [k \in 0 .. n + 1 |-> IF k = n + 1 THEN E(f, n + 1) ELSE f[k]]
  <2>2. ASSUME NEW k \in 0 .. n + 1 PROVE g[k] = E(g, k)
    <3>1. k # 0 => k - 1 \in 0 .. n /\ g[k - 1] = f[k - 1]
      OBVIOUS
    <3>2. E(g, k) = E(f, k)
      BY <3>1
    <3>3. k # n + 1 => k \in 0 .. n
      OBVIOUS
    <3> HIDE DEF E, Rec
    <3>4. k # n + 1 => f[k] = E(f, k)
      BY <1>1, <2>1, <3>3
    <3> QED
      BY <3>2, <3>4
  <2>3. Rec(g, n + 1)
    <3> HIDE DEF E
    <3> QED
      BY <2>2
  <2> HIDE DEF Rec
  <2> QED
    BY <2>3
<1>4. Len(rows) \in P
  <2> HIDE DEF P
  <2> QED
    BY <1>2, <1>3, Reached
<1>5. Rec(F, Len(rows))
  <2> HIDE DEF Rec
  <2> QED
    BY <1>4
<1>6. RolledUp(m, how, rows, says) = F[Len(rows)]
  BY DEF RolledUp
<1>7. ASSUME NEW k \in 0 .. Len(rows) PROVE F[k] = E(F, k)
  <2> HIDE DEF F, E, Rec
  <2> QED
    BY <1>1, <1>5
<1> HIDE DEF F
<1>8. F[0] = Seed(m)
  <2>1. 0 \in 0 .. Len(rows)
    OBVIOUS
  <2> QED
    BY <1>7, <2>1
<1>9. ASSUME NEW k \in 1 .. Len(rows) PROVE F[k] = Take(F[k - 1], rows[k], says[k], m, how)
  <2>1. k \in 0 .. Len(rows) /\ k # 0
    OBVIOUS
  <2> QED
    BY <1>7, <2>1
<1> QED
  BY <1>6, <1>8, <1>9 DEF RolledBy

\* What a rollup makes: values of some nodes and links.
IsValues(acc, m) ==
  /\ acc = [nodes |-> acc.nodes, links |-> acc.links,
            untrusted |-> acc.untrusted, unmeasured |-> acc.unmeasured]
  /\ acc.nodes \in [DOMAIN m.nodes -> Int] /\ acc.links \in [DOMAIN m.links -> Int]
  /\ acc.unmeasured = FALSE

LEMMA SeedIs ==
  ASSUME NEW m
  PROVE  /\ IsValues(Seed(m), m) /\ Seed(m).untrusted = {}
         /\ \A n \in DOMAIN m.nodes : Seed(m).nodes[n] = 0
         /\ \A l \in DOMAIN m.links : Seed(m).links[l] = 0
BY DEF IsValues, Seed

\* r is acc with v for a node, or for a link.
NodeHas(r, acc, m, n, v, how) ==
  /\ IsValues(r, m) /\ r.links = acc.links /\ r.untrusted = acc.untrusted
  /\ \A o \in DOMAIN m.nodes : o # n => r.nodes[o] = acc.nodes[o]
  /\ r.nodes[n] = IF how = "sum" THEN acc.nodes[n] + v ELSE Max({acc.nodes[n], v})

LinkHas(r, acc, m, l, v) ==
  /\ IsValues(r, m) /\ r.nodes = acc.nodes /\ r.untrusted = acc.untrusted
  /\ \A o \in DOMAIN m.links : o # l => r.links[o] = acc.links[o]
  /\ l # None => r.links[l] = Max({acc.links[l], v})

LEMMA AddToNodeIs ==
  ASSUME NEW m, NEW acc, IsValues(acc, m), NEW n \in DOMAIN m.nodes, NEW v \in Int, NEW how,
         NEW r, r = AddToNode(acc, n, v, how)
  PROVE  NodeHas(r, acc, m, n, v, how)
<1> DEFINE new == IF how = "sum" THEN acc.nodes[n] + v ELSE Max({acc.nodes[n], v})
<1>1. new \in Int
  <2>1. acc.nodes[n] \in Int
    BY DEF IsValues
  <2>2. Max({acc.nodes[n], v}) \in Int
    BY <2>1, MaxOfTwo
  <2> QED
    BY <2>1, <2>2
<1>2. r = [nodes |-> [acc.nodes EXCEPT ![n] = new], links |-> acc.links,
           untrusted |-> acc.untrusted, unmeasured |-> acc.unmeasured]
  BY DEF IsValues, AddToNode
<1> HIDE DEF new
<1>3. IsValues(r, m)
  BY <1>1, <1>2 DEF IsValues
<1>4. r.nodes = [acc.nodes EXCEPT ![n] = new] /\ r.links = acc.links /\ r.untrusted = acc.untrusted
  BY <1>2
<1>5. r.nodes[n] = new /\ \A o \in DOMAIN m.nodes : o # n => r.nodes[o] = acc.nodes[o]
  BY <1>4 DEF IsValues
<1> QED
  BY <1>3, <1>4, <1>5 DEF new, NodeHas

LEMMA AddToLinkIs ==
  ASSUME NEW m, None \notin DOMAIN m.links, NEW acc, IsValues(acc, m),
         NEW l \in DOMAIN m.links \cup {None}, NEW v \in Int,
         NEW r, r = AddToLink(acc, l, v)
  PROVE  LinkHas(r, acc, m, l, v)
<1>1. CASE l = None
  BY <1>1 DEF AddToLink, LinkHas
<1>2. CASE l # None
  <2> DEFINE new == Max({acc.links[l], v})
  <2>0. l \in DOMAIN m.links
    BY <1>2
  <2>1. new \in Int
    BY <2>0, MaxOfTwo DEF IsValues
  <2>2. r = [nodes |-> acc.nodes, links |-> [acc.links EXCEPT ![l] = new],
             untrusted |-> acc.untrusted, unmeasured |-> acc.unmeasured]
    BY <1>2 DEF IsValues, AddToLink
  <2> HIDE DEF new
  <2>3. IsValues(r, m)
    BY <2>0, <2>1, <2>2 DEF IsValues
  <2>4. r.links = [acc.links EXCEPT ![l] = new] /\ r.nodes = acc.nodes /\ r.untrusted = acc.untrusted
    BY <2>2
  <2>5. r.links[l] = new /\ \A o \in DOMAIN m.links : o # l => r.links[o] = acc.links[o]
    BY <2>0, <2>4 DEF IsValues
  <2> QED
    BY <2>3, <2>4, <2>5 DEF new, LinkHas
<1> QED
  BY <1>1, <1>2

LEMMA DistrustIs ==
  ASSUME NEW m, NEW acc, IsValues(acc, m), NEW is, NEW r, r = Distrust(acc, is)
  PROVE  /\ IsValues(r, m) /\ r.nodes = acc.nodes /\ r.links = acc.links
         /\ r.untrusted = acc.untrusted \cup (is \ {None})
BY DEF IsValues, Distrust

\* The rows up to k with a value for a node, and those with one for a link.
ForNode(rows, says, n, k) == {j \in 1 .. k : rows[j].node = n /\ says[j].value # None}

ForLink(m, rows, says, l, k) ==
  {j \in 1 .. k : /\ rows[j].node \in DOMAIN m.nodes /\ LinkAt(m, rows[j]) = l
                  /\ says[j].value # None}

\* The largest of some values, or 0.
IsMost(v, S, f) ==
  /\ v = 0 \/ \E j \in S : v = f[j]
  /\ v >= 0 /\ \A j \in S : v >= f[j]

\* What the first k rows add up to.
Totals(acc, m, how, rows, says, f, k) ==
  /\ IsValues(acc, m)
  /\ \A n \in DOMAIN m.nodes :
       IF how = "sum" THEN acc.nodes[n] = SumOver(ForNode(rows, says, n, k), f)
       ELSE IsMost(acc.nodes[n], ForNode(rows, says, n, k), f)
  /\ \A l \in DOMAIN m.links : IsMost(acc.links[l], ForLink(m, rows, says, l, k), f)
  /\ \A i : i \in acc.untrusted <=>
       i # None /\ \E j \in 1 .. k : rows[j].node \in DOMAIN m.nodes /\ i \in says[j].doubt

\* Rows that say something a rollup can take; f are their values.
Readable(m, rows, says, f) ==
  /\ Len(rows) \in Nat /\ None \notin DOMAIN m.links /\ None \notin Int
  /\ \A j \in 1 .. Len(rows) : says[j].value \in Int \cup {None} /\ f[j] = says[j].value

LEMMA MostGrows ==
  ASSUME NEW v \in Int, NEW S, NEW f, IsMost(v, S, f), \A j \in S : f[j] \in Int,
         NEW x, f[x] \in Int
  PROVE  IsMost(Max({v, f[x]}), S \cup {x}, f)
<1>1. Max({v, f[x]}) = IF v >= f[x] THEN v ELSE f[x]
  BY MaxOfTwo
<1> QED
  BY <1>1 DEF IsMost

LEMMA LinkAtIs ==
  \A m, p : LinkAt(m, p) \in DOMAIN m.links \cup {None}
BY DEF LinkAt

LEMMA ForNodeGrows ==
  ASSUME NEW rows, NEW says, NEW k \in Nat, k # 0, NEW n
  PROVE  ForNode(rows, says, n, k) =
           IF rows[k].node = n /\ says[k].value # None
             THEN ForNode(rows, says, n, k - 1) \cup {k} ELSE ForNode(rows, says, n, k - 1)
<1>1. 1 .. k = (1 .. k - 1) \cup {k} /\ k \notin 1 .. k - 1
  OBVIOUS
<1> QED
  BY <1>1 DEF ForNode

LEMMA ForNodeIsNew ==
  ASSUME NEW rows, NEW says, NEW k \in Nat, k # 0, NEW n
  PROVE  IsFiniteSet(ForNode(rows, says, n, k - 1)) /\ k \notin ForNode(rows, says, n, k - 1)
<1>1. k \notin 1 .. k - 1 /\ IsFiniteSet(1 .. k - 1)
  BY FS_Interval
<1>2. ForNode(rows, says, n, k - 1) \subseteq 1 .. k - 1
  BY DEF ForNode
<1> QED
  BY <1>1, <1>2, FS_Subset

LEMMA ForLinkGrows ==
  ASSUME NEW m, NEW rows, NEW says, NEW k \in Nat, k # 0, NEW l
  PROVE  ForLink(m, rows, says, l, k) =
           IF rows[k].node \in DOMAIN m.nodes /\ LinkAt(m, rows[k]) = l /\ says[k].value # None
             THEN ForLink(m, rows, says, l, k - 1) \cup {k} ELSE ForLink(m, rows, says, l, k - 1)
<1>1. 1 .. k = (1 .. k - 1) \cup {k} /\ k \notin 1 .. k - 1
  OBVIOUS
<1> QED
  BY <1>1 DEF ForLink

\* One more row: its node, its link and the doubtful have their share of it.
LEMMA TakeAdds ==
  ASSUME NEW m, NEW how, NEW rows, NEW says, NEW f, Readable(m, rows, says, f),
         NEW k \in 1 .. Len(rows), NEW acc, Totals(acc, m, how, rows, says, f, k - 1),
         NEW r, r = Take(acc, rows[k], says[k], m, how)
  PROVE  Totals(r, m, how, rows, says, f, k)
<1> DEFINE p == rows[k]
           v == says[k].value
           l == LinkAt(m, p)
<1>0. k \in Nat /\ k # 0 /\ Len(rows) \in Nat /\ None \notin DOMAIN m.links /\ None \notin Int
  BY DEF Readable
<1>1. \A j \in 1 .. k : says[j].value \in Int \cup {None} /\ f[j] = says[j].value
  BY <1>0 DEF Readable
<1>2. v \in Int \cup {None} /\ f[k] = v /\ l \in DOMAIN m.links \cup {None}
  BY <1>0, <1>1, LinkAtIs
<1>3. /\ \A n : \A j \in ForNode(rows, says, n, k) : f[j] \in Int
      /\ \A o : \A j \in ForLink(m, rows, says, o, k) : f[j] \in Int
  BY <1>0, <1>1 DEF ForNode, ForLink
<1>4. \A n : \A j \in ForNode(rows, says, n, k - 1) : j \in ForNode(rows, says, n, k)
  BY <1>0 DEF ForNode
<1>5. \A o : \A j \in ForLink(m, rows, says, o, k - 1) : j \in ForLink(m, rows, says, o, k)
  BY <1>0 DEF ForLink
<1>6. \A i : (\E j \in 1 .. k : rows[j].node \in DOMAIN m.nodes /\ i \in says[j].doubt) <=>
               \/ \E j \in 1 .. k - 1 : rows[j].node \in DOMAIN m.nodes /\ i \in says[j].doubt
               \/ p.node \in DOMAIN m.nodes /\ i \in says[k].doubt
  BY <1>0
<1>7. CASE p.node \notin DOMAIN m.nodes
  <2>1. r = acc
    BY <1>7 DEF Take
  <2>2. \A n \in DOMAIN m.nodes : ForNode(rows, says, n, k) = ForNode(rows, says, n, k - 1)
    BY <1>0, <1>7, ForNodeGrows
  <2>3. ASSUME NEW o PROVE ForLink(m, rows, says, o, k) = ForLink(m, rows, says, o, k - 1)
    BY <1>0, <1>7, ForLinkGrows
  <2> QED
    BY <1>6, <1>7, <2>1, <2>2, <2>3 DEF Totals
<1>8. CASE p.node \in DOMAIN m.nodes
  <2> DEFINE a == AddToNode(acc, p.node, v, how)
             b == AddToLink(a, l, v)
             c == IF v = None THEN acc ELSE b
  <2>1. r = Distrust(c, says[k].doubt)
    BY <1>8 DEF Take
  <2>2. IsValues(acc, m)
    BY DEF Totals
  <2> HIDE DEF p, v, l, a, b
  <2>3. ASSUME v # None
        PROVE  /\ IsValues(b, m) /\ b.untrusted = acc.untrusted
               /\ \A n \in DOMAIN m.nodes : n # p.node => b.nodes[n] = acc.nodes[n]
               /\ b.nodes[p.node] = IF how = "sum" THEN acc.nodes[p.node] + v
                                    ELSE Max({acc.nodes[p.node], v})
               /\ \A o \in DOMAIN m.links : o # l => b.links[o] = acc.links[o]
               /\ l # None => b.links[l] = Max({acc.links[l], v})
    <3>1. v \in Int
      BY <1>2, <2>3
    <3>2. NodeHas(a, acc, m, p.node, v, how)
      <4>1. a = AddToNode(acc, p.node, v, how)
        BY DEF a
      <4> QED
        BY <1>8, <2>2, <3>1, <4>1, AddToNodeIs
    <3>3. LinkHas(b, a, m, l, v)
      <4>1. b = AddToLink(a, l, v)
        BY DEF b
      <4>2. l \in DOMAIN m.links \cup {None} /\ IsValues(a, m)
        BY <1>2, <3>2 DEF l, NodeHas
      <4> QED
        BY <1>0, <3>1, <4>1, <4>2, AddToLinkIs
    <3> QED
      BY <3>2, <3>3 DEF NodeHas, LinkHas
  <2>4. IsValues(c, m) /\ c.untrusted = acc.untrusted
    BY <2>2, <2>3
  <2>5. /\ IsValues(r, m) /\ r.nodes = c.nodes /\ r.links = c.links
        /\ r.untrusted = acc.untrusted \cup (says[k].doubt \ {None})
    BY <2>1, <2>4, DistrustIs
  <2>6. ASSUME NEW n \in DOMAIN m.nodes
        PROVE  IF how = "sum" THEN r.nodes[n] = SumOver(ForNode(rows, says, n, k), f)
               ELSE IsMost(r.nodes[n], ForNode(rows, says, n, k), f)
    <3>1. IF how = "sum" THEN acc.nodes[n] = SumOver(ForNode(rows, says, n, k - 1), f)
          ELSE IsMost(acc.nodes[n], ForNode(rows, says, n, k - 1), f)
      BY DEF Totals
    <3>2. CASE v = None \/ p.node # n
      <4>1. r.nodes[n] = acc.nodes[n]
        BY <2>3, <2>5, <3>2
      <4>2. ForNode(rows, says, n, k) = ForNode(rows, says, n, k - 1)
        BY <1>0, <3>2, ForNodeGrows DEF p, v
      <4> QED
        BY <3>1, <4>1, <4>2
    <3>3. CASE v # None /\ p.node = n
      <4>1. ForNode(rows, says, n, k) = ForNode(rows, says, n, k - 1) \cup {k}
        <5>1. rows[k].node = n /\ says[k].value # None
          BY <3>3 DEF p, v
        <5> QED
          <6>1. ForNode(rows, says, n, k) =
                  IF rows[k].node = n /\ says[k].value # None
                    THEN ForNode(rows, says, n, k - 1) \cup {k} ELSE ForNode(rows, says, n, k - 1)
            BY <1>0, ForNodeGrows, Zenon
          <6> QED
            BY <5>1, <6>1
      <4>2. r.nodes[n] = IF how = "sum" THEN acc.nodes[n] + v ELSE Max({acc.nodes[n], v})
        BY <2>3, <2>5, <3>3
      <4>3. v \in Int /\ acc.nodes[n] \in Int
        BY <1>2, <2>2, <3>3 DEF IsValues
      <4>4. \A j \in ForNode(rows, says, n, k - 1) : f[j] \in Int
        BY <1>3, <1>4
      <4>5. CASE how = "sum"
        <5>1. SumOver(ForNode(rows, says, n, k - 1) \cup {k}, f) =
                SumOver(ForNode(rows, says, n, k - 1), f) + f[k]
          <6>1. IsFiniteSet(ForNode(rows, says, n, k - 1)) /\ k \notin ForNode(rows, says, n, k - 1)
            BY <1>0, ForNodeIsNew
          <6>2. \A x \in ForNode(rows, says, n, k - 1) \cup {k} : f[x] \in Int
            BY <1>2, <4>3, <4>4
          <6> QED
            BY <6>1, <6>2, SumAdds
        <5> QED
          BY <1>2, <3>1, <4>1, <4>2, <4>5, <5>1
      <4>6. CASE how # "sum"
        <5>1. IsMost(Max({acc.nodes[n], f[k]}), ForNode(rows, says, n, k - 1) \cup {k}, f)
          BY <1>2, <3>1, <4>3, <4>4, <4>6, MostGrows
        <5> QED
          BY <1>2, <4>1, <4>2, <4>6, <5>1
      <4> QED
        BY <4>5, <4>6
    <3> QED
      BY <3>2, <3>3
  <2>7. ASSUME NEW o \in DOMAIN m.links
        PROVE  IsMost(r.links[o], ForLink(m, rows, says, o, k), f)
    <3>1. IsMost(acc.links[o], ForLink(m, rows, says, o, k - 1), f)
      BY DEF Totals
    <3>2. CASE v = None \/ l # o
      <4>1. r.links[o] = acc.links[o]
        BY <2>3, <2>5, <3>2
      <4>2. ForLink(m, rows, says, o, k) = ForLink(m, rows, says, o, k - 1)
        BY <1>0, <3>2, ForLinkGrows DEF p, v, l
      <4> QED
        BY <3>1, <4>1, <4>2
    <3>3. CASE v # None /\ l = o
      <4>1. ForLink(m, rows, says, o, k) = ForLink(m, rows, says, o, k - 1) \cup {k}
        BY <1>0, <1>8, <3>3, ForLinkGrows DEF p, v, l
      <4>2. l # None
        BY <1>0, <3>3
      <4>3. r.links[o] = Max({acc.links[o], v})
        BY <2>3, <2>5, <3>3, <4>2
      <4>4. v \in Int /\ acc.links[o] \in Int
        BY <1>2, <2>2, <3>3 DEF IsValues
      <4>5. \A j \in ForLink(m, rows, says, o, k - 1) : f[j] \in Int
        BY <1>3, <1>5
      <4>6. IsMost(Max({acc.links[o], f[k]}), ForLink(m, rows, says, o, k - 1) \cup {k}, f)
        BY <1>2, <3>1, <4>4, <4>5, MostGrows
      <4> QED
        BY <1>2, <4>1, <4>3, <4>6
    <3> QED
      BY <3>2, <3>3
  <2>8. ASSUME NEW i
        PROVE  i \in r.untrusted <=>
                 i # None /\ \E j \in 1 .. k : rows[j].node \in DOMAIN m.nodes /\ i \in says[j].doubt
    <3>1. i \in acc.untrusted <=>
            i # None /\ \E j \in 1 .. k - 1 : rows[j].node \in DOMAIN m.nodes /\ i \in says[j].doubt
      BY DEF Totals
    <3> QED
      BY <1>6, <1>8, <2>5, <3>1 DEF p
  <2> QED
    BY <2>5, <2>6, <2>7, <2>8 DEF Totals
<1> QED
  BY <1>7, <1>8

LEMMA RolledUpIs ==
  ASSUME NEW m, NEW how, NEW rows, NEW says, NEW f, Readable(m, rows, says, f)
  PROVE  Totals(RolledUp(m, how, rows, says), m, how, rows, says, f, Len(rows))
<1>0. Len(rows) \in Nat
  BY DEF Readable
<1>1. PICK acc : RolledBy(acc, m, how, rows, says)
  BY <1>0, RollSteps
<1> DEFINE P == {k \in 0 .. Len(rows) : Totals(acc[k], m, how, rows, says, f, k)}
<1>2. 0 \in P
  <2>1. acc[0] = Seed(m)
    BY <1>1 DEF RolledBy
  <2>2. /\ \A n : ForNode(rows, says, n, 0) = {}
        /\ \A l : ForLink(m, rows, says, l, 0) = {}
    BY DEF ForNode, ForLink
  <2>3. Totals(Seed(m), m, how, rows, says, f, 0)
    BY <2>2, SeedIs, SumOfNone DEF Totals, IsMost
  <2> QED
    BY <1>0, <2>1, <2>3
<1>3. \A k \in 0 .. Len(rows) : k \in P /\ k < Len(rows) => k + 1 \in P
  <2> SUFFICES ASSUME NEW k \in 0 .. Len(rows), k \in P, k < Len(rows) PROVE k + 1 \in P
    OBVIOUS
  <2>1. k + 1 \in 1 .. Len(rows) /\ (k + 1) - 1 = k
    BY <1>0
  <2>2. acc[k + 1] = Take(acc[k], rows[k + 1], says[k + 1], m, how)
    BY <1>1, <2>1 DEF RolledBy
  <2>3. Totals(acc[k + 1], m, how, rows, says, f, k + 1)
    BY <2>1, <2>2, TakeAdds
  <2> QED
    BY <2>1, <2>3
<1>4. Len(rows) \in P
  <2> DEFINE Q == {k \in Nat : k \in P \/ k > Len(rows)}
  <2>1. 0 \in Q
    BY <1>2
  <2>2. \A k \in 0 .. Len(rows) : k \in Q => k + 1 \in Q
    BY <1>0, <1>3
  <2> HIDE DEF Q
  <2>3. Len(rows) \in Q
    BY <1>0, <2>1, <2>2, Reached
  <2> QED
    BY <1>0, <2>3 DEF Q
<1> QED
  BY <1>1, <1>4 DEF RolledBy

-----------------------------------------------------------------------------
(* Answers. *)

\* The lists of the ports, one port after the other.
ListedBy(acc, facts, K, e) ==
  /\ acc[0] = <<>>
  /\ \A k \in 1 .. Len(facts) :
       acc[k] = IF k \in K THEN Append(acc[k - 1], RowOf(facts[k], e)) ELSE acc[k - 1]
  /\ RowList(facts, K, e) = acc[Len(facts)]

LEMMA ListSteps ==
  ASSUME NEW facts, Len(facts) \in Nat, NEW K, NEW e
  PROVE  \E acc : ListedBy(acc, facts, K, e)
<1> DEFINE E(f, k) == IF k = 0 THEN <<>>
                      ELSE IF k \in K THEN Append(f[k - 1], RowOf(facts[k], e)) ELSE f[k - 1]
           Rec(f, n) == f = [k \in 0 .. n |-> E(f, k)]
           P == {n \in Nat : \E f : Rec(f, n)}
           F == CHOOSE f : Rec(f, Len(facts))
<1>1. ASSUME NEW f, NEW n \in Nat, Rec(f, n), NEW k \in 0 .. n PROVE f[k] = E(f, k)
  <2> HIDE DEF E
  <2> QED
    BY <1>1
<1>2. 0 \in P
  <2>1. \A f : E(f, 0) = <<>>
    OBVIOUS
  <2>2. Rec([k \in 0 .. 0 |-> <<>>], 0)
    <3> HIDE DEF E
    <3> QED
      BY <2>1
  <2> QED
    BY <2>2
<1>3. ASSUME NEW n \in Nat, n \in P PROVE n + 1 \in P
  <2>1. PICK f : Rec(f, n)
    BY <1>3
  <2> DEFINE g == [k \in 0 .. n + 1 |-> IF k = n + 1 THEN E(f, n + 1) ELSE f[k]]
  <2>2. ASSUME NEW k \in 0 .. n + 1 PROVE g[k] = E(g, k)
    <3>1. k # 0 => k - 1 \in 0 .. n /\ g[k - 1] = f[k - 1]
      OBVIOUS
    <3>2. E(g, k) = E(f, k)
      BY <3>1
    <3>3. k # n + 1 => k \in 0 .. n
      OBVIOUS
    <3> HIDE DEF E, Rec
    <3>4. k # n + 1 => f[k] = E(f, k)
      BY <1>1, <2>1, <3>3
    <3> QED
      BY <3>2, <3>4
  <2>3. Rec(g, n + 1)
    <3> HIDE DEF E
    <3> QED
      BY <2>2
  <2> HIDE DEF Rec
  <2> QED
    BY <2>3
<1>4. Len(facts) \in P
  <2> HIDE DEF P
  <2> QED
    BY <1>2, <1>3, Reached
<1>5. Rec(F, Len(facts))
  <2> HIDE DEF Rec
  <2> QED
    BY <1>4
<1>6. RowList(facts, K, e) = F[Len(facts)]
  BY DEF RowList
<1>7. ASSUME NEW k \in 0 .. Len(facts) PROVE F[k] = E(F, k)
  <2> HIDE DEF F, E, Rec
  <2> QED
    BY <1>1, <1>5
<1> HIDE DEF F
<1>8. F[0] = <<>>
  <2>1. 0 \in 0 .. Len(facts)
    OBVIOUS
  <2> QED
    BY <1>7, <2>1
<1>9. ASSUME NEW k \in 1 .. Len(facts)
      PROVE  F[k] = IF k \in K THEN Append(F[k - 1], RowOf(facts[k], e)) ELSE F[k - 1]
  <2>1. k \in 0 .. Len(facts) /\ k # 0
    OBVIOUS
  <2> QED
    BY <1>7, <2>1
<1> QED
  BY <1>6, <1>8, <1>9 DEF ListedBy

\* A list with a row for every port asked for, and of no others.
Lists(s, facts, K, e, Rows) ==
  /\ s \in Seq(Rows)
  /\ \A j \in K \cap DOMAIN facts : \E k \in DOMAIN s : s[k] = RowOf(facts[j], e)

LEMMA RowListIs ==
  ASSUME NEW facts, Len(facts) \in Nat, DOMAIN facts = 1 .. Len(facts), NEW K, NEW e,
         NEW Rows, \A j \in DOMAIN facts : RowOf(facts[j], e) \in Rows
  PROVE  Lists(RowList(facts, K, e), facts, K, e, Rows)
<1>1. PICK acc : ListedBy(acc, facts, K, e)
  BY ListSteps
<1> DEFINE Has(s, n) == \A j \in K : j \in 1 .. n => \E k \in DOMAIN s : s[k] = RowOf(facts[j], e)
           P == {n \in Nat : n <= Len(facts) => acc[n] \in Seq(Rows) /\ Has(acc[n], n)}
<1>2. 0 \in P
  <2>1. acc[0] = <<>> /\ <<>> \in Seq(Rows)
    BY <1>1 DEF ListedBy
  <2>2. Has(acc[0], 0)
    OBVIOUS
  <2> HIDE DEF Has
  <2> QED
    BY <2>1, <2>2
<1>3. ASSUME NEW n \in Nat, n \in P PROVE n + 1 \in P
  <2> SUFFICES ASSUME n + 1 <= Len(facts) PROVE acc[n + 1] \in Seq(Rows) /\ Has(acc[n + 1], n + 1)
    OBVIOUS
  <2>1. acc[n] \in Seq(Rows) /\ Has(acc[n], n)
    BY <1>3
  <2>2. n + 1 \in 1 .. Len(facts) /\ (n + 1) - 1 = n
    OBVIOUS
  <2>3. acc[n + 1] = IF n + 1 \in K THEN Append(acc[n], RowOf(facts[n + 1], e)) ELSE acc[n]
    BY <1>1, <2>2 DEF ListedBy
  <2>4. RowOf(facts[n + 1], e) \in Rows
    BY <2>2
  <2> DEFINE old == acc[n]
             new == acc[n + 1]
             row == RowOf(facts[n + 1], e)
  <2>5. old \in Seq(Rows) /\ Has(old, n) /\ row \in Rows
    BY <2>1, <2>4
  <2>6. new = IF n + 1 \in K THEN Append(old, row) ELSE old
    BY <2>3
  <2> HIDE DEF old, new
  <2>7. new \in Seq(Rows)
    <3> HIDE DEF row, Has
    <3> QED
      BY <2>5, <2>6
  <2>8. ASSUME NEW j \in K, j \in 1 .. n + 1 PROVE \E k \in DOMAIN new : new[k] = RowOf(facts[j], e)
    <3>1. CASE j = n + 1
      <4>1. new = Append(old, row) /\ row = RowOf(facts[j], e)
        BY <2>6, <2>8, <3>1
      <4> HIDE DEF row
      <4>2. Len(old) + 1 \in DOMAIN new /\ new[Len(old) + 1] = row
        BY <2>5, <4>1
      <4> QED
        BY <4>1, <4>2
    <3>2. CASE j # n + 1
      <4>1. j \in 1 .. n
        BY <2>8, <3>2
      <4>2. PICK k \in DOMAIN old : old[k] = RowOf(facts[j], e)
        BY <2>5, <2>8, <4>1
      <4> HIDE DEF row, Has
      <4>3. k \in DOMAIN new /\ new[k] = old[k]
        BY <2>5, <2>6, <4>2
      <4> QED
        BY <4>2, <4>3
    <3> QED
      BY <3>1, <3>2
  <2> QED
    BY <2>7, <2>8 DEF new
<1>4. Len(facts) \in P
  <2> HIDE DEF P
  <2> QED
    BY <1>2, <1>3, Reached
<1>5. /\ RowList(facts, K, e) \in Seq(Rows)
      /\ Has(RowList(facts, K, e), Len(facts))
  BY <1>1, <1>4 DEF ListedBy
<1> QED
  BY <1>5 DEF Lists

\* Rows are of ports, and sparse.
IsRow(p) ==
  p.node \in Nodes /\ p.port \in Nat /\ p.no_data \in BOOLEAN /\ p.reset \in BOOLEAN

IsAnswer(d) ==
  /\ d # None /\ d.measured \in Nat
  /\ d.measured > 0 => d.span \in Nat \ {0}
  /\ Len(d.ports) \in Nat /\ DOMAIN d.ports = 1 .. Len(d.ports)
  /\ \A k \in DOMAIN d.ports :
       /\ IsRow(d.ports[k])
       /\ \A c \in DOMAIN d.ports[k].d : d.ports[k].d[c] \in Nat

\* Of a port that cannot report a counter the answer says so: in its row, or of
\* all ports at once; or there was nothing else to say of it.
TellsOf(d, f, c) ==
  \/ Still(f)
  \/ c \in DOMAIN d.unsupported /\ d.unsupported[c] = d.expected /\ d.expected \in Nat \ {0}
  \/ \E k \in DOMAIN d.ports :
       LET p == d.ports[k]
       IN  p.node = f.node /\ p.port = f.port /\ (p.no_data \/ c \in p.unsupported)

\* Every answer does, of every port.
LEMMA AssembledIs ==
  ASSUME NEW d \in Deltas
  PROVE  /\ IsAnswer(d)
         /\ d.measured > 0 =>
              \A j \in DOMAIN d.facts : \A c \in d.facts[j].gated : TellsOf(d, d.facts[j], c)
<1> DEFINE facts == d.facts
           e     == Everywhere(facts)
           Read  == PolledOf(facts)
           told  == RowList(facts, {k \in Read : ~Still(facts[k])}, e)
           mute  == RowList(facts, DOMAIN facts \ Read, e)
           Rows  == {RowOf(facts[j], e) : j \in DOMAIN facts}
<1>1. /\ d # None /\ Len(facts) \in Nat /\ DOMAIN facts = 1 .. Len(facts)
      /\ \A j \in DOMAIN facts : IsFact(facts[j])
      /\ d.measured > 0 => d.span \in Nat \ {0}
  BY AnswersAssumption
<1>2. d = Assembled(facts, d.span)
  BY AnswersAssumption
<1> HIDE DEF facts
<1>3. /\ d.measured = Cardinality(Read) /\ d.expected = Len(facts)
      /\ d.unsupported = [c \in Gated(facts) |-> GatedBy(facts, c)]
      /\ d.ports = told \o (IF d.measured > 0 THEN mute ELSE <<>>)
  <2> DEFINE span == d.span
  <2> HIDE DEF span
  <2>1. Assembled(facts, span) =
          [measured |-> Cardinality(Read), expected |-> Len(facts),
           unsupported |-> [c \in Gated(facts) |-> GatedBy(facts, c)],
           span |-> IF Cardinality(Read) > 0 THEN span ELSE None,
           ports |-> told \o (IF Cardinality(Read) > 0 THEN mute ELSE <<>>),
           facts |-> facts]
    BY DEF Assembled
  <2>2. d = Assembled(facts, span)
    BY <1>2 DEF span
  <2> HIDE DEF told, mute, Read
  <2> QED
    BY <2>1, <2>2
<1>4. d.measured \in Nat
  <2>1. IsFiniteSet(DOMAIN facts)
    BY <1>1, FS_Interval
  <2>2. IsFiniteSet(Read)
    BY <2>1, FS_Subset DEF PolledOf
  <2> QED
    BY <1>3, <2>2, FS_CardinalityType
<1>5. /\ told \in Seq(Rows) /\ mute \in Seq(Rows)
      /\ \A j \in Read : ~Still(facts[j]) => \E k \in DOMAIN told : told[k] = RowOf(facts[j], e)
      /\ \A j \in DOMAIN facts \ Read : \E k \in DOMAIN mute : mute[k] = RowOf(facts[j], e)
  <2>1. Read \subseteq DOMAIN facts
    BY DEF PolledOf
  <2> HIDE DEF e, Read
  <2>2. ASSUME NEW K PROVE Lists(RowList(facts, K, e), facts, K, e, Rows)
    <3>1. \A j \in DOMAIN facts : RowOf(facts[j], e) \in Rows
      OBVIOUS
    <3> HIDE DEF Rows
    <3> QED
      BY <1>1, <3>1, RowListIs
  <2> HIDE DEF Rows
  <2>3. told \in Seq(Rows) /\ mute \in Seq(Rows)
    BY <2>2 DEF Lists
  <2>4. ASSUME NEW j \in Read, ~Still(facts[j])
        PROVE  \E k \in DOMAIN told : told[k] = RowOf(facts[j], e)
    <3>1. j \in {k \in Read : ~Still(facts[k])} \cap DOMAIN facts
      BY <2>1, <2>4
    <3> QED
      BY <2>2, <3>1 DEF Lists
  <2>5. ASSUME NEW j \in DOMAIN facts \ Read
        PROVE  \E k \in DOMAIN mute : mute[k] = RowOf(facts[j], e)
    BY <2>2 DEF Lists
  <2> QED
    BY <2>3, <2>4, <2>5
<1>6. ASSUME NEW row \in Rows
      PROVE  IsRow(row) /\ \A c \in DOMAIN row.d : row.d[c] \in Nat
  <2>1. PICK j \in DOMAIN facts : row = RowOf(facts[j], e)
    BY <1>6
  <2>2. IsFact(facts[j])
    BY <1>1
  <2> HIDE DEF facts, e
  <2>3. IsRow(row)
    BY <2>1, <2>2 DEF RowOf, IsRow, IsFact
  <2>4. row.d = Growth(facts[j])
    BY <2>1 DEF RowOf
  <2>5. \A c \in DOMAIN Growth(facts[j]) : Growth(facts[j])[c] \in Nat
    BY <2>2 DEF Growth, IsFact
  <2> QED
    BY <2>3, <2>4, <2>5
<1> HIDE DEF facts, e, Read, told, mute, Rows
<1>7. d.ports \in Seq(Rows)
  BY <1>3, <1>5
<1>8. IsAnswer(d)
  <2>1. Len(d.ports) \in Nat /\ DOMAIN d.ports = 1 .. Len(d.ports)
    BY <1>7
  <2>2. \A k \in DOMAIN d.ports : d.ports[k] \in Rows
    BY <1>7
  <2> QED
    BY <1>1, <1>4, <1>6, <2>1, <2>2 DEF IsAnswer
<1>9. ASSUME d.measured > 0, NEW j \in DOMAIN facts, NEW c \in facts[j].gated, ~Still(facts[j])
      PROVE  TellsOf(d, facts[j], c)
  <2>1. c \in CapGated /\ facts[j].polled \in BOOLEAN
    BY <1>1 DEF IsFact
  <2>2. CASE c \in e
    <3>1. c \in Gated(facts) /\ GatedBy(facts, c) = Len(facts) /\ GatedBy(facts, c) > 0
      BY <2>2 DEF e, Everywhere, Gated
    <3>2. c \in DOMAIN d.unsupported /\ d.unsupported[c] = d.expected /\ d.expected \in Nat \ {0}
      BY <1>1, <1>3, <3>1
    <3> QED
      BY <3>2 DEF TellsOf
  <2>3. CASE c \notin e
    <3> DEFINE row == RowOf(facts[j], e)
    <3>1. /\ row.node = facts[j].node /\ row.port = facts[j].port
          /\ c \in row.unsupported
      BY <2>3 DEF RowOf
    <3>2. \E k \in DOMAIN d.ports : d.ports[k] = row
      <4>1. d.ports = told \o mute
        BY <1>3, <1>9
      <4>2. CASE j \in Read
        <5>1. PICK k \in DOMAIN told : told[k] = row
          BY <1>5, <1>9, <4>2
        <5> HIDE DEF row
        <5>2. k \in DOMAIN d.ports /\ d.ports[k] = told[k]
          BY <1>5, <4>1
        <5> QED
          BY <5>1, <5>2
      <4>3. CASE j \notin Read
        <5>1. PICK k \in DOMAIN mute : mute[k] = row
          BY <1>5, <4>3
        <5> HIDE DEF row
        <5>2. Len(told) + k \in DOMAIN d.ports /\ d.ports[Len(told) + k] = mute[k]
          BY <1>5, <4>1
        <5> QED
          BY <5>1, <5>2
      <4> QED
        BY <4>2, <4>3
    <3> HIDE DEF row
    <3> QED
      BY <3>1, <3>2 DEF TellsOf
  <2> QED
    BY <2>2, <2>3
<1> QED
  BY <1>8, <1>9 DEF facts, TellsOf

-----------------------------------------------------------------------------
(* What the answers say of a model. *)

IsState(v) ==
  /\ v = [mask |-> v.mask, window |-> v.window, counters |-> v.counters, rollup |-> v.rollup]
  /\ v.mask \in Masks \cup Inherited /\ v.window \in DOMAIN Windows \cup Inherited
  /\ DOMAIN v.counters \subseteq Selectable /\ v.rollup \in {"max", "sum"}
  /\ v.counters \in [DOMAIN v.counters -> Nat \ {0}]

\* The state of a page that renders.
IsView(v) == IsState(v) /\ Renders(v)

LEMMA Kinds ==
  /\ Nodes \cap Links = {} /\ Groups \cap (Nodes \cup Links) = {}
  /\ None \notin Nodes \cup Links \cup Groups /\ None \notin Int
  /\ None \notin Overlays /\ None \notin Masks
BY GraphAssumption, NullAssumption DEF Masks

LEMMA ModelIs ==
  ASSUME NEW m \in Models
  PROVE  /\ DOMAIN m.nodes \subseteq Nodes /\ IsFiniteSet(DOMAIN m.nodes)
         /\ DOMAIN m.links \subseteq Links /\ IsFiniteSet(DOMAIN m.links)
         /\ m.groups \subseteq Groups /\ m.mode \in {"single", "compare"}
         /\ None \notin DOMAIN m.links
BY ModelsAssumption, Kinds

LEMMA SelectableIsFinite ==
  IsFiniteSet(Selectable)
<1>1. IsFiniteSet({Groupings[g] : g \in DOMAIN Groupings})
  <2>1. {Groupings[g] : g \in DOMAIN Groupings} =
          {Groupings["cable"], Groupings["congestion"], Groupings["config"]}
    BY RollupAssumption
  <2>2. IsFiniteSet({Groupings["cable"], Groupings["congestion"], Groupings["config"]})
    <3>1. IsFiniteSet({Groupings["cable"]})
      BY FS_Singleton
    <3>2. IsFiniteSet({Groupings["cable"]} \cup {Groupings["congestion"]})
      BY <3>1, FS_AddElement
    <3>3. IsFiniteSet(({Groupings["cable"]} \cup {Groupings["congestion"]}) \cup {Groupings["config"]})
      BY <3>2, FS_AddElement
    <3>4. ({Groupings["cable"]} \cup {Groupings["congestion"]}) \cup {Groupings["config"]} =
            {Groupings["cable"], Groupings["congestion"], Groupings["config"]}
      OBVIOUS
    <3> QED
      BY <3>3, <3>4
  <2> QED
    BY <2>1, <2>2
<1>2. Selectable = Groupings["cable"] \cup Groupings["congestion"] \cup Groupings["config"]
  BY RollupAssumption DEF Selectable
<1>3. /\ IsFiniteSet(Groupings["cable"]) /\ IsFiniteSet(Groupings["congestion"])
      /\ IsFiniteSet(Groupings["config"])
  BY RollupAssumption
<1> QED
  BY <1>2, <1>3, FS_Union

\* Something was measured and is asked for, in d or in r.
Told(md, v, d, r) ==
  IF Shown(md, v) \in {"utilisation", "throughput"} THEN r # None /\ r.measured > 0
  ELSE d # None /\ d.measured > 0 /\ Selected(md, v) # {}

RowsTold(md, v, d, r) ==
  IF Shown(md, v) \in {"utilisation", "throughput"} THEN r.ports ELSE d.ports

\* What a row says under the mask.
SaysOf(md, v, m, p) ==
  CASE Shown(md, v) = "utilisation" -> ShareOf(p, m)
    [] Shown(md, v) = "throughput"  -> FlowOf(p, m)
    [] OTHER                        -> ErrorsOf(p, m, Selected(md, v))

Says(md, v, m, d, r) ==
  [k \in DOMAIN RowsTold(md, v, d, r) |-> SaysOf(md, v, m, RowsTold(md, v, d, r)[k])]

Amounts(md, v, m, d, r) ==
  [k \in DOMAIN RowsTold(md, v, d, r) |-> SaysOf(md, v, m, RowsTold(md, v, d, r)[k]).value]

\* The overlay of a view is that of its mask, and so are the counters summed.
LEMMA ShownIs ==
  ASSUME NEW md, NEW v, IsView(v)
  PROVE  /\ Mask(md, v) \in Masks
         /\ Shown(md, v) \in Overlays \cup {None}
         /\ Shown(md, v) # None => Shown(md, v) = Mask(md, v)
         /\ Shown(md, v) = None => Mask(md, v) \in {"health", "change"}
         /\ Selected(md, v) \in (SUBSET Selectable) \cup {{CongestionCounter}}
         /\ Shown(md, v) = "errors" => Selected(md, v) = DOMAIN v.counters
         /\ Shown(md, v) = "congestion" => Selected(md, v) = {CongestionCounter}
<1>1. Mask(md, v) \in Masks
  BY DEF Mask, MaskFor, MasksFor, DefaultMask, Masks
<1>2. /\ [v EXCEPT !.mask = Mask(md, v)].mask = Mask(md, v)
      /\ [v EXCEPT !.mask = Mask(md, v)].counters = v.counters
  BY DEF IsView, IsState
<1>3. Selected(md, v) = CASE Mask(md, v) = "congestion" -> {CongestionCounter}
                          [] Mask(md, v) = "errors"     -> DOMAIN v.counters
                          [] OTHER                      -> {}
  BY <1>2 DEF Selected, CountersFor
<1>4. DOMAIN v.counters \in SUBSET Selectable
  BY DEF IsView, IsState
<1>5. Shown(md, v) = IF Mask(md, v) \in Overlays THEN Mask(md, v) ELSE None
  BY DEF Shown, OverlayOf
<1>6. Mask(md, v) \in Overlays \/ Mask(md, v) \in {"health", "change"}
  BY <1>1 DEF Masks
<1>7. None \notin Overlays
  BY Kinds
<1>8. Selected(md, v) \in (SUBSET Selectable) \cup {{CongestionCounter}}
  BY <1>3, <1>4
<1>9. Shown(md, v) = "errors" => Selected(md, v) = DOMAIN v.counters
  BY <1>3, <1>5, <1>7 DEF Overlays
<1>10. Shown(md, v) = "congestion" => Selected(md, v) = {CongestionCounter}
  BY <1>3, <1>5, <1>7 DEF Overlays
<1> QED
  BY <1>1, <1>5, <1>6, <1>7, <1>8, <1>9, <1>10

LEMMA PortValueIs ==
  ASSUME NEW p, \A c \in DOMAIN p.d : p.d[c] \in Nat,
         NEW sel \in (SUBSET Selectable) \cup {{CongestionCounter}}
  PROVE  PortValue(p, sel) \in Int
<1>1. IsFiniteSet(sel)
  BY SelectableIsFinite, FS_Subset, FS_Singleton
<1>2. IsFiniteSet(sel \cap DOMAIN p.d)
  BY <1>1, FS_Subset
<1>3. \A c \in sel \cap DOMAIN p.d : p.d[c] \in Int
  OBVIOUS
<1>4. SumOver(sel \cap DOMAIN p.d, p.d) \in Int
  BY <1>2, <1>3, SumTakes
<1> QED
  BY <1>4 DEF PortValue

LEMMA FlowIs ==
  ASSUME NEW p, p.tx \in Nat, p.rx \in Nat
  PROVE  /\ Busier(p) \in Nat
         /\ \A l \in Links \cup {None} : UtilisationOf(p, l) \in Int \cup {None}
<1>1. Busier(p) \in Nat
  BY MaxOfTwo DEF Busier
<1>2. ASSUME NEW l \in Links PROVE UtilisationOf(p, l) \in Int \cup {None}
  <2>1. LineRate[l] = None \/ LineRate[l] \in Nat \ {0}
    BY RollupAssumption
  <2>2. ASSUME NEW rate \in Nat \ {0} PROVE (Busier(p) * 1000) \div rate \in Int
    BY <1>1
  <2>3. UtilisationOf(p, l) = None \/ UtilisationOf(p, l) = (Busier(p) * 1000) \div LineRate[l]
    BY DEF UtilisationOf
  <2>4. LineRate[l] = None => UtilisationOf(p, l) = None
    BY DEF UtilisationOf
  <2> QED
    BY <2>1, <2>2, <2>3, <2>4
<1> QED
  BY <1>1, <1>2 DEF UtilisationOf

\* A row of an answer says an amount or nothing.
LEMMA SaysAmounts ==
  ASSUME NEW md, NEW v, IsView(v), NEW m \in Models, NEW d \in Deltas \cup {None},
         NEW r \in Rates \cup {None}, Shown(md, v) # None, Told(md, v, d, r)
  PROVE  /\ Len(RowsTold(md, v, d, r)) \in Nat
         /\ DOMAIN RowsTold(md, v, d, r) = 1 .. Len(RowsTold(md, v, d, r))
         /\ \A k \in DOMAIN RowsTold(md, v, d, r) :
              /\ IsRow(RowsTold(md, v, d, r)[k])
              /\ SaysOf(md, v, m, RowsTold(md, v, d, r)[k]).value \in Int \cup {None}
<1> DEFINE rows == RowsTold(md, v, d, r)
<1>1. CASE Shown(md, v) \in {"utilisation", "throughput"}
  <2>1. r \in Rates /\ rows = r.ports
    BY <1>1 DEF Told, RowsTold
  <2>2. /\ Len(rows) \in Nat /\ DOMAIN rows = 1 .. Len(rows)
        /\ \A k \in DOMAIN rows : IsRow(rows[k]) /\ rows[k].tx \in Nat /\ rows[k].rx \in Nat
    BY <2>1, AnswersAssumption DEF IsRow
  <2> HIDE DEF rows
  <2>3. ASSUME NEW k \in DOMAIN rows PROVE SaysOf(md, v, m, rows[k]).value \in Int \cup {None}
    <3>1. LinkAt(m, rows[k]) \in Links \cup {None}
      BY LinkAtIs, ModelIs
    <3>2. Busier(rows[k]) \in Nat /\ UtilisationOf(rows[k], LinkAt(m, rows[k])) \in Int \cup {None}
      BY <2>2, <3>1, FlowIs
    <3>3. ShareOf(rows[k], m).value \in Int \cup {None}
      BY <3>2 DEF ShareOf, Saying
    <3>4. FlowOf(rows[k], m).value \in Int \cup {None}
      BY <3>2 DEF FlowOf, Saying
    <3> QED
      BY <1>1, <3>3, <3>4 DEF SaysOf
  <2> QED
    BY <2>2, <2>3 DEF rows
<1>2. CASE Shown(md, v) \notin {"utilisation", "throughput"}
  <2>1. d \in Deltas /\ rows = d.ports
    BY <1>2 DEF Told, RowsTold
  <2>2. /\ Len(rows) \in Nat /\ DOMAIN rows = 1 .. Len(rows)
        /\ \A k \in DOMAIN rows : IsRow(rows[k]) /\ \A c \in DOMAIN rows[k].d : rows[k].d[c] \in Nat
    BY <2>1, AssembledIs DEF IsAnswer
  <2> HIDE DEF rows
  <2>3. ASSUME NEW k \in DOMAIN rows PROVE SaysOf(md, v, m, rows[k]).value \in Int \cup {None}
    <3>1. Selected(md, v) \in (SUBSET Selectable) \cup {{CongestionCounter}}
      BY ShownIs
    <3>2. PortValue(rows[k], Selected(md, v)) \in Int
      BY <2>2, <3>1, PortValueIs
    <3>3. SaysOf(md, v, m, rows[k]) = ErrorsOf(rows[k], m, Selected(md, v))
      BY <1>2 DEF SaysOf
    <3> QED
      BY <3>2, <3>3 DEF ErrorsOf, Saying
  <2> QED
    BY <2>2, <2>3 DEF rows
<1> QED
  BY <1>1, <1>2

\* What is computed for the elements: the totals of the rows, or nothing.
LEMMA ValuesAre ==
  ASSUME NEW md, NEW v, IsView(v), NEW m \in Models, NEW d \in Deltas \cup {None},
         NEW r \in Rates \cup {None}, Shown(md, v) # None
  PROVE  /\ ~Told(md, v, d, r) => Values(md, v, m, d, r) = Unmeasured(m)
         /\ Told(md, v, d, r) =>
              Totals(Values(md, v, m, d, r), m, v.rollup, RowsTold(md, v, d, r),
                     Says(md, v, m, d, r), Amounts(md, v, m, d, r), Len(RowsTold(md, v, d, r)))
<1> DEFINE rows == RowsTold(md, v, d, r)
<1>1. /\ d # None => d.measured \in Nat
      /\ r # None => r.measured \in Nat
  BY AnswersAssumption, AssembledIs DEF IsAnswer
<1>2. ASSUME ~Told(md, v, d, r) PROVE Values(md, v, m, d, r) = Unmeasured(m)
  <2>1. CASE Shown(md, v) \in {"utilisation", "throughput"}
    <3>1. r = None \/ r.measured = 0
      BY <1>1, <1>2, <2>1 DEF Told
    <3> QED
      BY <2>1, <3>1 DEF Values, RollupTraffic, RollupThroughput
  <2>2. CASE Shown(md, v) \notin {"utilisation", "throughput"}
    <3>1. d = None \/ d.measured = 0 \/ Selected(md, v) = {}
      BY <1>1, <1>2, <2>2 DEF Told
    <3> QED
      BY <2>2, <3>1 DEF Values, Rollup
  <2> QED
    BY <2>1, <2>2
<1>3. ASSUME Told(md, v, d, r)
      PROVE  Totals(Values(md, v, m, d, r), m, v.rollup, rows,
                    Says(md, v, m, d, r), Amounts(md, v, m, d, r), Len(rows))
  <2>1. /\ Len(rows) \in Nat /\ DOMAIN rows = 1 .. Len(rows)
        /\ \A k \in DOMAIN rows : SaysOf(md, v, m, rows[k]).value \in Int \cup {None}
    BY <1>3, SaysAmounts
  <2>2. Values(md, v, m, d, r) = RolledUp(m, v.rollup, rows, Says(md, v, m, d, r))
    <3>1. CASE Shown(md, v) = "utilisation"
      <4>1. rows = r.ports /\ r # None /\ r.measured # 0
        BY <1>3, <3>1 DEF Told, RowsTold
      <4>2. Says(md, v, m, d, r) = [k \in DOMAIN r.ports |-> ShareOf(r.ports[k], m)]
        BY <3>1, <4>1 DEF Says, SaysOf
      <4> HIDE DEF rows
      <4> QED
        BY <3>1, <4>1, <4>2 DEF Values, RollupTraffic
    <3>2. CASE Shown(md, v) = "throughput"
      <4>1. rows = r.ports /\ r # None /\ r.measured # 0
        BY <1>3, <3>2 DEF Told, RowsTold
      <4>2. Says(md, v, m, d, r) = [k \in DOMAIN r.ports |-> FlowOf(r.ports[k], m)]
        BY <3>2, <4>1 DEF Says, SaysOf
      <4> HIDE DEF rows
      <4> QED
        BY <3>2, <4>1, <4>2 DEF Values, RollupThroughput
    <3>3. CASE Shown(md, v) \notin {"utilisation", "throughput"}
      <4>1. rows = d.ports /\ d # None /\ d.measured # 0 /\ Selected(md, v) # {}
        BY <1>3, <3>3 DEF Told, RowsTold
      <4>2. Says(md, v, m, d, r) = [k \in DOMAIN d.ports |-> ErrorsOf(d.ports[k], m, Selected(md, v))]
        BY <3>3, <4>1 DEF Says, SaysOf
      <4> HIDE DEF rows
      <4> QED
        BY <3>3, <4>1, <4>2 DEF Values, Rollup
    <3> QED
      BY <3>1, <3>2, <3>3
  <2>3. Readable(m, rows, Says(md, v, m, d, r), Amounts(md, v, m, d, r))
    <3>1. None \notin DOMAIN m.links /\ None \notin Int
      BY ModelIs, Kinds
    <3>2. \A k \in 1 .. Len(rows) :
            /\ Says(md, v, m, d, r)[k] = SaysOf(md, v, m, rows[k])
            /\ Amounts(md, v, m, d, r)[k] = SaysOf(md, v, m, rows[k]).value
      BY <2>1 DEF Says, Amounts
    <3> HIDE DEF rows
    <3> QED
      BY <2>1, <3>1, <3>2 DEF Readable
  <2> HIDE DEF rows
  <2> QED
    BY <2>2, <2>3, RolledUpIs
<1> QED
  BY <1>2, <1>3

-----------------------------------------------------------------------------
(* The scales and what is written on an element. *)

LEMMA MinIs ==
  ASSUME NEW S, S # {}, S \subseteq Nat
  PROVE  Min(S) \in S
<1> DEFINE R == OpToRel(<, Nat)
<1>1. IsWellFoundedOn(R, Nat)
  BY NatLessThanWellFounded
<1>2. \A x, y \in Nat : <<y, x>> \in R <=> y < x
  BY DEF OpToRel
<1> HIDE DEF R
<1>3. PICK x \in S : \A y \in S : ~(<<y, x>> \in R)
  BY <1>1, WFMin
<1>4. ASSUME NEW y \in S PROVE x =< y
  <2>1. x \in Nat /\ y \in Nat
    OBVIOUS
  <2>2. ~(y < x)
    BY <1>2, <1>3, <2>1
  <2> QED
    BY <2>1, <2>2
<1> QED
  BY <1>4 DEF Min

LEMMA BinOnIs ==
  ASSUME NEW bins, Len(bins) = 5, NEW below \in SUBSET (1 .. 5)
  PROVE  BinOn(bins, below) \in 0 .. 5
<1>1. CASE below = {}
  BY <1>1 DEF BinOn
<1>2. CASE below # {}
  <2>1. Min(below) \in 1 .. 5
    <3>1. below \subseteq Nat
      OBVIOUS
    <3>2. Min(below) \in below
      BY <1>2, <3>1, MinIs
    <3> QED
      BY <3>2
  <2> QED
    BY <1>2, <2>1 DEF BinOn
<1> QED
  BY <1>1, <1>2

\* Every value has a bin, but a stall without a span.
LEMMA BinIs ==
  ASSUME NEW overlay \in Overlays, NEW v, NEW span
  PROVE  /\ Bin(overlay, v, span) \in 0 .. BinCount - 1 \cup {None}
         /\ overlay # "congestion" \/ (span # None /\ span # 0) =>
              Bin(overlay, v, span) \in 0 .. BinCount - 1
<1>1. /\ Len(ErrorBins) = 5 /\ DOMAIN ErrorBins = 1 .. 5
      /\ Len(CongestionBins) = 5 /\ DOMAIN CongestionBins = 1 .. 5
      /\ Len(UtilisationBins) = 5 /\ DOMAIN UtilisationBins = 1 .. 5
      /\ Len(ThroughputBins) = 5 /\ DOMAIN ThroughputBins = 1 .. 5
  BY DEF ErrorBins, CongestionBins, UtilisationBins, ThroughputBins
<1>2. BinCount - 1 = 5
  BY DEF BinCount
<1>3. BinErrors(v) \in 0 .. 5
  <2>1. Above(ErrorBins, v) \in SUBSET (1 .. 5)
    BY <1>1 DEF Above
  <2>2. BinOn(ErrorBins, Above(ErrorBins, v)) \in 0 .. 5
    BY <1>1, <2>1, BinOnIs
  <2> QED
    BY <2>2 DEF BinErrors
<1>4. BinUtilisation(v) \in 0 .. 5
  <2>1. Above(UtilisationBins, v) \in SUBSET (1 .. 5)
    BY <1>1 DEF Above
  <2>2. BinOn(UtilisationBins, Above(UtilisationBins, v)) \in 0 .. 5
    BY <1>1, <2>1, BinOnIs
  <2> QED
    BY <2>2 DEF BinUtilisation
<1>5. BinThroughput(v) \in 0 .. 5
  <2>1. Above(ThroughputBins, v) \in SUBSET (1 .. 5)
    BY <1>1 DEF Above
  <2>2. BinOn(ThroughputBins, Above(ThroughputBins, v)) \in 0 .. 5
    BY <1>1, <2>1, BinOnIs
  <2> QED
    BY <2>2 DEF BinThroughput
<1>6. \/ BinCongestion(v, span) = None /\ (span = None \/ span = 0)
      \/ BinCongestion(v, span) \in 0 .. 5
  <2> DEFINE below == {i \in DOMAIN CongestionBins : v < CongestionBins[i] * span}
  <2>1. below \in SUBSET (1 .. 5)
    BY <1>1
  <2> HIDE DEF below
  <2>2. BinOn(CongestionBins, below) \in 0 .. 5
    BY <1>1, <2>1, BinOnIs
  <2>3. BinCongestion(v, span) = CASE span = None \/ span = 0 -> None
                                   [] v = 0 -> 0
                                   [] OTHER -> BinOn(CongestionBins, below)
    BY DEF BinCongestion, below
  <2> QED
    BY <2>2, <2>3
<1> HIDE DEF BinCount
<1> QED
  BY <1>2, <1>3, <1>4, <1>5, <1>6 DEF Bin, Overlays

LEMMA BinForIs ==
  ASSUME NEW overlay \in Overlays, NEW values, NEW span, NEW i
  PROVE  /\ BinFor(overlay, values, span, i) \in Written
         /\ BinFor(overlay, values, span, i) # None
<1>1. Bin(overlay, ValueOf(values, i), span) \in 0 .. BinCount - 1 \cup {None}
  BY BinIs
<1>2. 0 \in 0 .. BinCount - 1
  BY DEF BinCount
<1>3. BinFor(overlay, values, span, i) \in Written
  BY <1>1, <1>2 DEF BinFor, Written
<1> QED
  BY <1>3, NullAssumption

LEMMA ElementsAre ==
  ASSUME NEW m \in Models
  PROVE  /\ DOMAIN ToElements(m) = Drawn(m) \cup Boxes(m)
         /\ Boxes(m) \subseteq Groups /\ Drawn(m) \subseteq Nodes \cup Links
         /\ Drawn(m) \cap Groups = {} /\ Drawn(m) \cap Boxes(m) = {} /\ None \notin Drawn(m)
         /\ DOMAIN m.nodes \cap Links = {} /\ DOMAIN m.links \cap Nodes = {}
<1>1. Boxes(m) \subseteq Groups
  BY ModelIs DEF Boxes, GroupOf
<1>2. Drawn(m) \subseteq Nodes \cup Links
  BY ModelIs DEF Drawn
<1>3. DOMAIN ToElements(m) = Drawn(m) \cup Boxes(m)
  BY DEF ToElements, Drawn
<1> QED
  BY <1>1, <1>2, <1>3, ModelIs, Kinds

LEMMA DoubtIs ==
  ASSUME NEW md, NEW v, NEW m, NEW p
  PROVE  SaysOf(md, v, m, p).doubt \subseteq {p.node, LinkAt(m, p)}
<1>1. ShareOf(p, m).doubt \subseteq {p.node, LinkAt(m, p)}
  BY DEF ShareOf, Saying
<1>2. FlowOf(p, m).doubt \subseteq {p.node, LinkAt(m, p)}
  BY DEF FlowOf, Saying
<1>3. ErrorsOf(p, m, Selected(md, v)).doubt \subseteq {p.node, LinkAt(m, p)}
  BY DEF ErrorsOf, Saying
<1> QED
  BY <1>1, <1>2, <1>3 DEF SaysOf

\* With an overlay every element but a box has a value.
LEMMA KnownIs ==
  ASSUME NEW md, NEW v, IsView(v), NEW m \in Models, NEW d \in Deltas \cup {None},
         NEW r \in Rates \cup {None}, Shown(md, v) # None
  PROVE  /\ Values(md, v, m, d, r).untrusted \subseteq Drawn(m)
         /\ \A i : Known(Values(md, v, m, d, r), i) <=> i \in Drawn(m)
<1> DEFINE values == Values(md, v, m, d, r)
           rows == RowsTold(md, v, d, r)
           says == Says(md, v, m, d, r)
<1>1. CASE ~Told(md, v, d, r)
  <2>1. values = Unmeasured(m)
    BY <1>1, ValuesAre
  <2>2. Unmeasured(m).untrusted = Drawn(m) /\ DOMAIN Unmeasured(m).nodes = {} /\ DOMAIN Unmeasured(m).links = {}
    BY DEF Unmeasured, NoValues
  <2> HIDE DEF values
  <2>3. values.untrusted = Drawn(m) /\ DOMAIN values.nodes = {} /\ DOMAIN values.links = {}
    BY <2>1, <2>2
  <2> QED
    BY <2>3 DEF Known, values
<1>2. CASE Told(md, v, d, r)
  <2>1. /\ IsValues(values, m)
        /\ \A i : i \in values.untrusted <=>
             i # None /\ \E j \in 1 .. Len(rows) : rows[j].node \in DOMAIN m.nodes /\ i \in says[j].doubt
    BY <1>2, ValuesAre DEF Totals
  <2>2. /\ DOMAIN rows = 1 .. Len(rows)
        /\ \A j \in DOMAIN rows : says[j] = SaysOf(md, v, m, rows[j])
    BY <1>2, SaysAmounts DEF Says
  <2> HIDE DEF values, rows, says
  <2>3. ASSUME NEW i \in values.untrusted PROVE i \in Drawn(m)
    <3>1. PICK j \in 1 .. Len(rows) : rows[j].node \in DOMAIN m.nodes /\ i \in says[j].doubt
      BY <2>1
    <3>2. i \in {rows[j].node, LinkAt(m, rows[j])}
      BY <2>2, <3>1, DoubtIs
    <3>3. i # None
      BY <2>1
    <3> QED
      BY <3>1, <3>2, <3>3, LinkAtIs DEF Drawn
  <2>4. DOMAIN values.nodes = DOMAIN m.nodes /\ DOMAIN values.links = DOMAIN m.links
    BY <2>1 DEF IsValues
  <2> QED
    BY <2>3, <2>4 DEF Known, Drawn, values
<1> QED
  BY <1>1, <1>2

\* w shows the overlay on every element but the boxes, or none.
Shows(w, md, v, m, d, r) ==
  /\ w \in [DOMAIN ToElements(m) -> Written \cup {None}]
  /\ \A i \in Boxes(m) : w[i] = None
  /\ Shown(md, v) = None => \A i \in Drawn(m) : w[i] = None
  /\ Shown(md, v) # None =>
       \A i \in Drawn(m) :
         /\ w[i] = BinFor(Shown(md, v), Values(md, v, m, d, r), SpanOf(d), i)
         /\ w[i] # None

LEMMA WantedIs ==
  ASSUME NEW md, NEW v, IsView(v), NEW m \in Models, NEW d \in Deltas \cup {None},
         NEW r \in Rates \cup {None}
  PROVE  Shows(Wanted(md, v, m, d, r), md, v, m, d, r)
<1> DEFINE w == Wanted(md, v, m, d, r)
           values == Values(md, v, m, d, r)
<1>0. Shown(md, v) \in Overlays \cup {None}
  BY ShownIs
<1>1. w = [i \in Drawn(m) \cup Boxes(m) |->
            IF Shown(md, v) = None \/ ~Known(values, i) THEN None
            ELSE BinFor(Shown(md, v), values, SpanOf(d), i)]
  BY DEF Wanted
<1>2. DOMAIN ToElements(m) = Drawn(m) \cup Boxes(m) /\ Drawn(m) \cap Boxes(m) = {}
  BY ElementsAre
<1> HIDE DEF w, values
<1>3. ASSUME Shown(md, v) = None PROVE \A i \in Drawn(m) \cup Boxes(m) : w[i] = None
  BY <1>1, <1>3
<1>4. ASSUME Shown(md, v) # None
      PROVE  /\ \A i \in Boxes(m) : w[i] = None
             /\ \A i \in Drawn(m) : w[i] = BinFor(Shown(md, v), values, SpanOf(d), i)
  <2>1. \A i : Known(values, i) <=> i \in Drawn(m)
    BY <1>4, KnownIs DEF values
  <2> QED
    BY <1>1, <1>2, <1>4, <2>1
<1>5. ASSUME Shown(md, v) # None, NEW i \in Drawn(m) PROVE w[i] \in Written /\ w[i] # None
  BY <1>0, <1>4, <1>5, BinForIs
<1>6. w \in [DOMAIN ToElements(m) -> Written \cup {None}]
  BY <1>1, <1>2, <1>3, <1>4, <1>5
<1> QED
  BY <1>3, <1>4, <1>5, <1>6 DEF Shows, w, values

-----------------------------------------------------------------------------
(* The inductive invariant: what is written on the elements is what the    *)
(* mode, the view, the model and the answers of this moment ask for, and    *)
(* every element has the colour of what is written on it.                   *)

Painted(m, ov) == [i \in DOMAIN ToElements(m) |-> Colour(m, ov[i], i)]

\* How far the counter window reaches back.
Trails == IF At(mode) # None THEN since = At(mode) - Windows[view.window]
          ELSE since <= now - Windows[view.window]

\* Of a page that renders.
OverlayInv ==
  /\ mode \in {"live", "point", "compare"} /\ IsView(view)
  /\ now \in 0 .. MaxNow /\ since \in Int /\ model \in Models
  /\ errors \in Deltas \cup {None} /\ traffic \in Rates \cup {None}
  /\ url = ViewSearch(view)
  /\ Trails
  /\ overlaid = Wanted(mode, view, model, errors, traffic)
  /\ painted = Painted(model, overlaid)

\* Of one that does not: its address stays, and nothing is drawn.
BlankInv ==
  /\ mode \in {"live", "point", "compare"} /\ IsState(view) /\ ~Renders(view)
  /\ now \in 0 .. MaxNow /\ since \in Int /\ model \in Models
  /\ errors = None /\ traffic = None
  /\ url.win \in Inherited /\ view = ParseView(url) /\ IsQuery(url)
  /\ overlaid = Bare /\ painted = Bare

PageInv == OverlayInv \/ BlankInv

\* A pass leaves every element in the colour of what is written on it: what it
\* does not style was written the same before, and has its colour.
LEMMA ApplyIs ==
  ASSUME NEW md, NEW v, IsView(v), NEW m \in Models, NEW d \in Deltas \cup {None},
         NEW r \in Rates \cup {None}, NEW ov, NEW fresh,
         ApplyOverlay(md, v, m, d, r, ov, fresh),
         \A i \in DOMAIN ToElements(m) \ fresh : painted[i] = Colour(m, ov[i], i)
  PROVE  overlaid' = Wanted(md, v, m, d, r) /\ painted' = Painted(m, overlaid')
<1> DEFINE w == Wanted(md, v, m, d, r)
           cleared == {i \in DOMAIN w : w[i] = None /\ ov[i] # None}
           written == {i \in DOMAIN w : w[i] # None /\ w[i] # ov[i]}
           styled  == fresh \cup Restyled(cleared, written, DOMAIN w)
<1>1. overlaid' = w
  BY DEF ApplyOverlay
<1>2. painted' = [i \in DOMAIN w |-> IF i \in styled THEN Colour(m, w[i], i) ELSE painted[i]]
  BY DEF ApplyOverlay, Painting
<1>3. DOMAIN w = DOMAIN ToElements(m)
  <2>1. Shows(w, md, v, m, d, r)
    BY WantedIs
  <2> HIDE DEF w
  <2> QED
    BY <2>1 DEF Shows
<1>4. styled = fresh \cup (IF cleared # {} THEN DOMAIN w ELSE written)
  BY DEF Restyled
<1>5. ASSUME NEW i \in DOMAIN w, i \notin styled PROVE w[i] = ov[i] /\ i \notin fresh
  <2>1. cleared = {} /\ i \notin written /\ i \notin fresh
    BY <1>4, <1>5
  <2> QED
    BY <2>1
<1> HIDE DEF w, styled
<1>6. \A i \in DOMAIN w : painted'[i] = Colour(m, w[i], i)
  BY <1>2, <1>3, <1>5
<1>7. painted' = [i \in DOMAIN w |-> Colour(m, w[i], i)]
  BY <1>2, <1>6
<1> QED
  BY <1>1, <1>3, <1>7 DEF Painted, w

\* Over the model that is drawn.
LEMMA RedrawIs ==
  ASSUME NEW md, NEW v, IsView(v), NEW d \in Deltas \cup {None}, NEW r \in Rates \cup {None},
         OverlayInv, Redraw(md, v, d, r)
  PROVE  overlaid' = Wanted(md, v, model, d, r) /\ painted' = Painted(model, overlaid')
<1>1. ApplyOverlay(md, v, model, d, r, overlaid, {}) /\ model \in Models
  BY DEF Redraw, OverlayInv
<1>2. \A i \in DOMAIN ToElements(model) \ {} : painted[i] = Colour(model, overlaid[i], i)
  BY DEF OverlayInv, Painted
<1> QED
  BY <1>1, <1>2, ApplyIs

LEMMA ParsedIs ==
  ASSUME NEW q, IsQuery(q)
  PROVE  IsState(ParseView(q))
<1>1. Groupings.cable \subseteq Selectable
  BY RollupAssumption DEF Selectable
<1>2. "1h" \in DOMAIN Windows /\ "health" \in Masks
  BY RollupAssumption DEF Masks
<1>3. DOMAIN DefaultView.counters \subseteq Selectable /\ DefaultView.rollup = "max"
      /\ DefaultView.mask = "health" /\ DefaultView.window = "1h"
  BY <1>1 DEF DefaultView, DefaultSelection, Once
<1>4. ParseView(q).counters \in [DOMAIN ParseView(q).counters -> Nat \ {0}]
  BY DEF ParseView, IsQuery, DefaultView, DefaultSelection, Once
<1> QED
  BY <1>2, <1>3, <1>4 DEF ParseView, IsState, isMask, isWindowKey

LEMMA SinceIs ==
  ASSUME NEW md, NEW v, IsView(v), now \in Nat
  PROVE  /\ SinceOf(md, v) \in Int /\ PinnedAt # None
         /\ At(md) # None => SinceOf(md, v) = At(md) - Windows[v.window] /\ At(md) = PinnedAt
         /\ At(md) = None => SinceOf(md, v) = now - Windows[v.window]
<1>1. PinnedAt \in Nat /\ PinnedAt # None
  BY OverlayAssumption, NullAssumption
<1>2. Windows[v.window] \in Nat
  BY RollupAssumption DEF IsView, Renders
<1> QED
  BY <1>1, <1>2 DEF SinceOf, EndOf, At

LEMMA InitInv ==
  Init => OverlayInv
<1> SUFFICES ASSUME Init PROVE OverlayInv
  OBVIOUS
<1>1. IsView(view) /\ url = ViewSearch(view) /\ model \in Models /\ mode = "live"
  BY ParsedIs, PastedAssumption DEF Init, IsView
<1>2. now = 0 /\ now \in 0 .. MaxNow /\ errors = None /\ traffic = None
  BY OverlayAssumption DEF Init
<1>3. since \in Int /\ Trails
  <2>1. since = SinceOf("live", view)
    BY DEF Init
  <2>2. Windows[view.window] \in Nat
    BY <1>1, RollupAssumption DEF IsView, Renders
  <2>3. At("live") = None
    BY DEF At
  <2>4. since = now - Windows[view.window] /\ since \in Int
    BY <1>1, <1>2, <2>1, <2>3, SinceIs
  <2> QED
    BY <1>1, <1>2, <2>2, <2>3, <2>4 DEF Trails
<1>4. overlaid = Wanted(mode, view, model, errors, traffic)
  <2> DEFINE w == Wanted("live", view, model, None, None)
             overlay == Shown("live", view)
  <2>1. overlaid = [i \in DOMAIN ToElements(model) |->
                      IF overlay = None \/ i \in Groups THEN None
                      ELSE [overlay |-> overlay, bin |-> 0, untrusted |-> TRUE]]
    BY DEF Init
  <2>2. /\ w \in [DOMAIN ToElements(model) -> Written \cup {None}]
        /\ \A i \in Boxes(model) : w[i] = None
        /\ overlay = None => \A i \in Drawn(model) : w[i] = None
        /\ overlay # None => \A i \in Drawn(model) :
             w[i] = BinFor(overlay, Values("live", view, model, None, None), SpanOf(None), i)
    <3>1. Shows(w, "live", view, model, None, None)
      BY <1>1, WantedIs
    <3> HIDE DEF w
    <3> QED
      BY <3>1 DEF Shows
  <2>3. overlay # None => Values("live", view, model, None, None) = Unmeasured(model)
    BY <1>1, ValuesAre DEF Told
  <2>4. Unmeasured(model).untrusted = Drawn(model)
    BY DEF Unmeasured, NoValues
  <2>5. /\ DOMAIN ToElements(model) = Drawn(model) \cup Boxes(model)
        /\ Boxes(model) \subseteq Groups /\ Drawn(model) \cap Groups = {}
    BY <1>1, ElementsAre
  <2>6. \A values, i, span : i \in values.untrusted =>
          BinFor(overlay, values, span, i) = [overlay |-> overlay, bin |-> 0, untrusted |-> TRUE]
    BY DEF BinFor
  <2> HIDE DEF w, overlay
  <2>7. ASSUME NEW i \in DOMAIN ToElements(model) PROVE overlaid[i] = w[i]
    <3>1. CASE overlay = None \/ i \in Boxes(model)
      BY <2>1, <2>2, <2>5, <3>1
    <3>2. CASE overlay # None /\ i \in Drawn(model)
      <4>1. w[i] = BinFor(overlay, Unmeasured(model), SpanOf(None), i)
        BY <2>2, <2>3, <3>2
      <4>2. w[i] = [overlay |-> overlay, bin |-> 0, untrusted |-> TRUE]
        BY <2>4, <2>6, <3>2, <4>1
      <4> QED
        BY <2>1, <2>5, <3>2, <4>2
    <3> QED
      BY <2>5, <3>1, <3>2
  <2>8. overlaid = w
    BY <2>1, <2>2, <2>7
  <2> QED
    BY <1>1, <1>2, <2>8 DEF w
<1>5. painted = Painted(model, overlaid)
  BY DEF Init, Painted
<1> QED
  BY <1>1, <1>2, <1>3, <1>4, <1>5 DEF OverlayInv

\* What an answer, a model or a redraw leaves is what the invariant says of it.
LEMMA ShownKeeps ==
  ASSUME mode' \in {"live", "point", "compare"}, IsView(view'), url' = ViewSearch(view'),
         now' \in 0 .. MaxNow, since' \in Int, Trails', model' \in Models,
         errors' \in Deltas \cup {None}, traffic' \in Rates \cup {None},
         NEW md, md = mode', NEW v, v = view', NEW m, m = model', NEW d, d = errors',
         NEW r, r = traffic',
         overlaid' = Wanted(md, v, m, d, r), painted' = Painted(m, overlaid')
  PROVE  OverlayInv'
<1>1. (overlaid = Wanted(mode, view, model, errors, traffic))'
  OBVIOUS
<1>2. (painted = Painted(model, overlaid))'
  OBVIOUS
<1> QED
  BY <1>1, <1>2 DEF OverlayInv

LEMMA ModelKeeps ==
  ASSUME OverlayInv, NEW m \in Models, ModelArrives(m)
  PROVE  OverlayInv'
<1>1. /\ model' = m /\ mode' = mode /\ view' = view /\ url' = url /\ now' = now
      /\ since' = since /\ errors' = errors /\ traffic' = traffic
      /\ ApplyOverlay(mode, view, m, errors, traffic, Kept(m, overlaid), DOMAIN ToElements(m))
  BY DEF ModelArrives
<1>2. overlaid' = Wanted(mode, view, m, errors, traffic) /\ painted' = Painted(m, overlaid')
  BY <1>1, ApplyIs DEF OverlayInv
<1>3. Trails'
  BY <1>1 DEF OverlayInv, Trails, At
<1> QED
  BY <1>1, <1>2, <1>3, ShownKeeps DEF OverlayInv

LEMMA ErrorsKeep ==
  ASSUME OverlayInv, NEW d \in Deltas, AnswerErrors(d)
  PROVE  OverlayInv'
<1>1. /\ errors' = d /\ mode' = mode /\ view' = view /\ url' = url /\ now' = now
      /\ since' = since /\ model' = model /\ traffic' = traffic
      /\ Redraw(mode, view, d, traffic)
  BY DEF AnswerErrors
<1>2. overlaid' = Wanted(mode, view, model, d, traffic) /\ painted' = Painted(model, overlaid')
  BY <1>1, RedrawIs DEF OverlayInv
<1>3. Trails'
  BY <1>1 DEF OverlayInv, Trails, At
<1> QED
  BY <1>1, <1>2, <1>3, ShownKeeps DEF OverlayInv

LEMMA TrafficKeeps ==
  ASSUME OverlayInv, NEW r \in Rates, AnswerTraffic(r)
  PROVE  OverlayInv'
<1>1. /\ traffic' = r /\ mode' = mode /\ view' = view /\ url' = url /\ now' = now
      /\ since' = since /\ model' = model /\ errors' = errors
      /\ Redraw(mode, view, errors, r)
  BY DEF AnswerTraffic
<1>2. overlaid' = Wanted(mode, view, model, errors, r) /\ painted' = Painted(model, overlaid')
  BY <1>1, RedrawIs DEF OverlayInv
<1>3. Trails'
  BY <1>1 DEF OverlayInv, Trails, At
<1> QED
  BY <1>1, <1>2, <1>3, ShownKeeps DEF OverlayInv

LEMMA TickKeeps ==
  ASSUME OverlayInv, Tick
  PROVE  OverlayInv'
<1>1. /\ now < MaxNow /\ now' = now + 1 /\ mode' = mode /\ view' = view /\ url' = url
      /\ since' = since /\ model' = model /\ errors' = errors /\ traffic' = traffic
      /\ overlaid' = overlaid /\ painted' = painted
  BY DEF Tick
<1>2. now \in Nat /\ since \in Int /\ MaxNow \in Nat /\ Windows[view.window] \in Nat
  BY OverlayAssumption, RollupAssumption DEF OverlayInv, IsView, Renders
<1>3. now' \in 0 .. MaxNow
  BY <1>1, <1>2
<1>4. Trails'
  <2>1. At(mode') = At(mode)
    BY <1>1 DEF At
  <2>2. IF At(mode) # None THEN since = At(mode) - Windows[view.window]
                           ELSE since <= now - Windows[view.window]
    BY DEF OverlayInv, Trails
  <2>3. IF At(mode) # None THEN since = At(mode) - Windows[view.window]
                           ELSE since <= (now + 1) - Windows[view.window]
    BY <1>2, <2>2
  <2> QED
    BY <1>1, <2>1, <2>3 DEF Trails
<1> QED
  BY <1>1, <1>3, <1>4, ShownKeeps DEF OverlayInv

LEMMA ModeKeeps ==
  ASSUME OverlayInv, NEW md \in {"live", "point", "compare"}, SetMode(md)
  PROVE  OverlayInv'
<1>1. PICK d \in Deltas \cup {None}, r \in Rates \cup {None} :
        /\ IF At(md) = At(mode) THEN since' = since /\ d = errors ELSE Reask(md, view, d)
        /\ errors' = d /\ traffic' = r
        /\ Redraw(md, view, d, r)
  BY DEF SetMode
<1>2. mode' = md /\ view' = view /\ url' = url /\ now' = now /\ model' = model
  BY DEF SetMode
<1>3. IsView(view) /\ now \in Nat
  BY OverlayAssumption DEF OverlayInv
<1>4. overlaid' = Wanted(md, view, model, d, r) /\ painted' = Painted(model, overlaid')
  BY <1>1, <1>3, RedrawIs
<1>5. since' \in Int /\ Trails'
  <2>1. CASE At(md) = At(mode)
    <3>1. since' = since
      BY <1>1, <2>1
    <3>2. At(mode') = At(mode)
      BY <1>2, <2>1
    <3> QED
      BY <1>2, <3>1, <3>2 DEF OverlayInv, Trails
  <2>2. CASE At(md) # At(mode)
    <3>1. since' = SinceOf(md, view)
      BY <1>1, <2>2 DEF Reask
    <3>2. Windows[view.window] \in Nat
      BY <1>3, RollupAssumption DEF IsView, Renders
    <3>3. /\ SinceOf(md, view) \in Int
          /\ At(md) # None => SinceOf(md, view) = At(md) - Windows[view.window]
          /\ At(md) = None => SinceOf(md, view) = now - Windows[view.window]
      BY <1>3, SinceIs
    <3>4. At(mode') = At(md)
      BY <1>2
    <3>5. IF At(md) # None THEN since' = At(md) - Windows[view.window]
                           ELSE since' <= now - Windows[view.window]
      BY <1>3, <3>1, <3>2, <3>3
    <3> QED
      BY <1>2, <3>1, <3>3, <3>4, <3>5 DEF Trails
  <2> QED
    BY <2>1, <2>2
<1> QED
  BY <1>1, <1>2, <1>4, <1>5, ShownKeeps DEF OverlayInv

LEMMA ViewKeeps ==
  ASSUME OverlayInv, NEW v, IsView(v), SetView(v)
  PROVE  OverlayInv'
<1>1. PICK d \in Deltas \cup {None} :
        Reask(mode, v, d) /\ errors' = d /\ Redraw(mode, v, d, traffic)
  BY DEF SetView
<1>2. /\ view' = v /\ url' = ViewSearch(v) /\ mode' = mode /\ now' = now /\ model' = model
      /\ traffic' = traffic
  BY DEF SetView
<1>3. now \in Nat /\ traffic \in Rates \cup {None}
  BY OverlayAssumption DEF OverlayInv
<1>4. overlaid' = Wanted(mode, v, model, d, traffic) /\ painted' = Painted(model, overlaid')
  BY <1>1, <1>3, RedrawIs
<1>5. since' \in Int /\ Trails'
  <2>1. since' = SinceOf(mode, v)
    BY <1>1 DEF Reask
  <2>2. Windows[v.window] \in Nat
    BY RollupAssumption DEF IsView, Renders
  <2>3. /\ SinceOf(mode, v) \in Int
        /\ At(mode) # None => SinceOf(mode, v) = At(mode) - Windows[v.window]
        /\ At(mode) = None => SinceOf(mode, v) = now - Windows[v.window]
    BY <1>3, SinceIs
  <2>4. At(mode') = At(mode)
    BY <1>2
  <2>5. IF At(mode) # None THEN since' = At(mode) - Windows[v.window]
                           ELSE since' <= now - Windows[v.window]
    BY <1>3, <2>1, <2>2, <2>3
  <2> QED
    BY <1>2, <2>1, <2>3, <2>4, <2>5 DEF Trails
<1> QED
  BY <1>1, <1>2, <1>4, <1>5, ShownKeeps DEF OverlayInv

\* The address of a page lists names as a pasted one does.
LEMMA UrlIs ==
  ASSUME PageInv
  PROVE  IsQuery(url)
<1>1. CASE OverlayInv
  <2>1. url.counters = None \/ url.counters = view.counters
    BY <1>1 DEF OverlayInv, ViewSearch
  <2>2. view.counters \in [DOMAIN view.counters -> Nat \ {0}]
    BY <1>1 DEF OverlayInv, IsView, IsState
  <2> QED
    BY <2>1, <2>2 DEF IsQuery
<1>2. CASE BlankInv
  BY <1>2 DEF BlankInv
<1> QED
  BY <1>1, <1>2 DEF PageInv

LEMMA OpenKeeps ==
  ASSUME PageInv, NEW q, IsQuery(q), Open(q), Renders(ParseView(q))
  PROVE  OverlayInv'
<1> DEFINE v == ParseView(q)
<1>1. /\ view' = v /\ url' = ViewSearch(v) /\ since' = SinceOf(mode, v)
      /\ errors' = None /\ traffic' = None
      /\ mode' = mode /\ now' = now /\ model' = model
      /\ ApplyOverlay(mode, v, model, None, None, Kept(model, Bare), DOMAIN ToElements(model))
  BY DEF Open
<1>2. IsView(v)
  BY ParsedIs DEF IsView
<1> HIDE DEF v
<1>3. /\ now \in Nat /\ now \in 0 .. MaxNow /\ model \in Models
      /\ mode \in {"live", "point", "compare"}
  BY OverlayAssumption DEF PageInv, OverlayInv, BlankInv
<1>4. overlaid' = Wanted(mode, v, model, None, None) /\ painted' = Painted(model, overlaid')
  BY <1>1, <1>2, <1>3, ApplyIs
<1>5. since' \in Int /\ Trails'
  <2>2. Windows[v.window] \in Nat
    BY <1>2, RollupAssumption DEF IsView, Renders
  <2>3. /\ SinceOf(mode, v) \in Int
        /\ At(mode) # None => SinceOf(mode, v) = At(mode) - Windows[v.window]
        /\ At(mode) = None => SinceOf(mode, v) = now - Windows[v.window]
    BY <1>2, <1>3, SinceIs
  <2>4. At(mode') = At(mode)
    BY <1>1
  <2>5. IF At(mode) # None THEN since' = At(mode) - Windows[v.window]
                           ELSE since' <= now - Windows[v.window]
    BY <1>1, <1>3, <2>2, <2>3
  <2> QED
    BY <1>1, <2>3, <2>4, <2>5 DEF Trails
<1> QED
  BY <1>1, <1>2, <1>3, <1>4, <1>5, ShownKeeps

\* An address whose window is that of no panel opens a blank page.
LEMMA OpenBlanks ==
  ASSUME PageInv, NEW q, IsQuery(q), Open(q), ~Renders(ParseView(q))
  PROVE  BlankInv'
<1>1. /\ view' = ParseView(q) /\ url' = q /\ since' = since
      /\ errors' = None /\ traffic' = None /\ overlaid' = Bare /\ painted' = Bare
      /\ mode' = mode /\ now' = now /\ model' = model
  BY DEF Open
<1>2. IsState(ParseView(q))
  BY ParsedIs
<1>3. q.win \in Inherited
  <2>1. ParseView(q).window = IF q.win \in DOMAIN Windows \cup Inherited THEN q.win ELSE "1h"
    BY DEF ParseView, isWindowKey, DefaultView
  <2>2. "1h" \in DOMAIN Windows
    BY RollupAssumption
  <2> QED
    BY <2>1, <2>2 DEF Renders
<1>4. /\ now \in 0 .. MaxNow /\ since \in Int /\ model \in Models
      /\ mode \in {"live", "point", "compare"}
  BY DEF PageInv, OverlayInv, BlankInv
<1> QED
  BY <1>1, <1>2, <1>3, <1>4 DEF BlankInv

LEMMA BlankStays ==
  ASSUME BlankInv, Tick \/ UNCHANGED vars
  PROVE  BlankInv'
<1>1. now' \in 0 .. MaxNow
  BY OverlayAssumption DEF BlankInv, Tick, vars
<1> QED
  BY <1>1 DEF BlankInv, Tick, vars

LEMMA LegendIs ==
  ASSUME OverlayInv
  PROVE  Legend \in Masks
BY DEF Legend, MasksFor, Masks

LEMMA MountedKeeps ==
  ASSUME OverlayInv, Mounted \/ Tick \/ UNCHANGED vars
  PROVE  OverlayInv'
<1>0. IsView(view)
  BY DEF OverlayInv
<1>1. CASE \E m \in Models : ModelArrives(m)
  BY <1>1, ModelKeeps
<1>2. CASE \E d \in Deltas : AnswerErrors(d)
  BY <1>2, ErrorsKeep
<1>3. CASE \E r \in Rates : AnswerTraffic(r)
  BY <1>3, TrafficKeeps
<1>4. CASE Tick
  BY <1>4, TickKeeps
<1>5. CASE \E md \in {"live", "point", "compare"} : SetMode(md)
  BY <1>5, ModeKeeps
<1>6. ASSUME NEW mask \in Masks, PickMask(mask) PROVE OverlayInv'
  <2>1. IsView([view EXCEPT !.mask = mask])
    BY <1>0 DEF IsView, IsState, Renders
  <2> QED
    BY <1>6, <2>1, ViewKeeps DEF PickMask
<1>7. ASSUME NEW w \in DOMAIN Windows, PickWindow(w) PROVE OverlayInv'
  <2>1. IsView([view EXCEPT !.window = w, !.mask = Legend])
    <3>1. Legend \in Masks
      BY LegendIs
    <3>2. ASSUME NEW mask \in Masks PROVE IsView([view EXCEPT !.window = w, !.mask = mask])
      <4>1. [view EXCEPT !.window = w, !.mask = mask] =
              [mask |-> mask, window |-> w, counters |-> view.counters, rollup |-> view.rollup]
        <5> DEFINE other == [view EXCEPT !.window = w]
        <5>1. other = [mask |-> view.mask, window |-> w,
                       counters |-> view.counters, rollup |-> view.rollup]
          BY <1>0 DEF IsView, IsState
        <5>2. [other EXCEPT !.mask = mask] = [view EXCEPT !.window = w, !.mask = mask]
          OBVIOUS
        <5> HIDE DEF other
        <5> QED
          BY <5>1, <5>2
      <4>2. /\ view.rollup \in {"max", "sum"} /\ DOMAIN view.counters \subseteq Selectable
            /\ view.counters \in [DOMAIN view.counters -> Nat \ {0}]
        BY <1>0 DEF IsView, IsState
      <4> QED
        BY <4>1, <4>2 DEF IsView, IsState, Renders
    <3> QED
      BY <3>1, <3>2
  <2> QED
    BY <1>7, <2>1, ViewKeeps DEF PickWindow
<1>8. ASSUME NEW cs \in SUBSET Selectable, Ticked(cs) PROVE OverlayInv'
  <2>1. IsView([view EXCEPT !.counters = Once(cs)])
    BY <1>0 DEF IsView, IsState, Renders, Once
  <2> QED
    BY <1>8, <2>1, ViewKeeps DEF Ticked
<1>9. Chosen \in SUBSET Selectable
  BY <1>0 DEF IsView, IsState, Chosen
<1>10. ASSUME NEW c \in Selectable, ToggleCounter(c) PROVE OverlayInv'
  BY <1>8, <1>9, <1>10 DEF ToggleCounter
<1>11. ASSUME NEW g \in DOMAIN Groupings, NEW on \in BOOLEAN, SetGroup(g, on) PROVE OverlayInv'
  <2>1. Groupings[g] \in SUBSET Selectable
    BY DEF Selectable
  <2> QED
    BY <1>8, <1>9, <1>11, <2>1 DEF SetGroup
<1>13. CASE UNCHANGED vars
  BY <1>13 DEF vars, OverlayInv, Trails, At
<1> QED
  BY <1>1, <1>2, <1>3, <1>4, <1>5, <1>6, <1>7, <1>10, <1>11, <1>13 DEF Mounted

LEMMA NextInv ==
  PageInv /\ [Next]_vars => PageInv'
<1> SUFFICES ASSUME PageInv, [Next]_vars PROVE PageInv'
  OBVIOUS
<1>1. CASE \E q \in Pasted \cup {url} : Open(q)
  <2>1. PICK q \in Pasted \cup {url} : Open(q)
    BY <1>1
  <2>2. IsQuery(q)
    BY UrlIs, PastedAssumption
  <2> QED
    BY <2>1, <2>2, OpenKeeps, OpenBlanks DEF PageInv
<1>2. CASE OverlayInv /\ (Mounted \/ Tick \/ UNCHANGED vars)
  BY <1>2, MountedKeeps DEF PageInv
<1>3. CASE BlankInv /\ (Tick \/ UNCHANGED vars)
  BY <1>3, BlankStays DEF PageInv
<1>4. BlankInv => ~Renders(view)
  BY DEF BlankInv
<1> QED
  BY <1>1, <1>2, <1>3, <1>4 DEF Next, PageInv

LEMMA OverlayTypes ==
  PageInv => TypeOK
<1>1. ASSUME OverlayInv PROVE TypeOK
  <2>1. /\ isMask(view.mask) /\ isWindowKey(view.window) /\ Renders(view)
        /\ DOMAIN view.counters \subseteq Selectable /\ view.rollup \in {"max", "sum"}
    BY <1>1 DEF OverlayInv, IsView, IsState, isMask, isWindowKey
  <2>2. overlaid \in [DOMAIN ToElements(model) -> Written \cup {None}]
    <3>1. Shows(overlaid, mode, view, model, errors, traffic)
      BY <1>1, WantedIs DEF OverlayInv
    <3> QED
      BY <3>1 DEF Shows
  <2>3. DOMAIN painted = DOMAIN ToElements(model)
    BY <1>1 DEF OverlayInv, Painted
  <2> QED
    BY <1>1, <2>1, <2>2, <2>3 DEF OverlayInv, TypeOK, Els
<1>2. ASSUME BlankInv PROVE TypeOK
  <2>1. /\ isMask(view.mask) /\ isWindowKey(view.window) /\ ~Renders(view)
        /\ DOMAIN view.counters \subseteq Selectable /\ view.rollup \in {"max", "sum"}
    BY <1>2 DEF BlankInv, IsState, isMask, isWindowKey
  <2>2. Els = {}
    BY <2>1 DEF Els
  <2>3. overlaid \in [{} -> Written \cup {None}] /\ DOMAIN painted = {}
    BY <1>2 DEF BlankInv, Bare
  <2> QED
    BY <1>2, <2>1, <2>2, <2>3 DEF BlankInv, TypeOK
<1> QED
  BY <1>1, <1>2 DEF PageInv

-----------------------------------------------------------------------------
(* What an element shows is its figure.                                    *)

\* The answer on screen is the one the values are computed from.
LEMMA AnswerIs ==
  ASSUME OverlayInv
  PROVE  /\ Told(mode, view, errors, traffic) <=> Measured
         /\ RowsTold(mode, view, errors, traffic) = Answer.ports
         /\ Measured => \/ SpanOf(errors) # None /\ SpanOf(errors) # 0
                     \/ Drawing # "congestion"
<1>1. Told(mode, view, errors, traffic) <=> Measured
  <2>1. /\ errors # None => errors.measured \in Nat
        /\ traffic # None => traffic.measured \in Nat
    BY AnswersAssumption, AssembledIs DEF OverlayInv, IsAnswer
  <2> QED
    BY <2>1 DEF Told, Measured, Answer, ReadsTraffic, Drawing
<1>2. RowsTold(mode, view, errors, traffic) = Answer.ports
  BY DEF RowsTold, Answer, ReadsTraffic, Drawing
<1>3. ASSUME Measured, Drawing = "congestion" PROVE SpanOf(errors) # None /\ SpanOf(errors) # 0
  <2>1. errors \in Deltas /\ errors.measured > 0 /\ errors # None
    BY <1>3 DEF Measured, Answer, ReadsTraffic, OverlayInv
  <2>2. errors.span \in Nat \ {0} /\ None \notin Int
    BY <2>1, AssembledIs, NullAssumption DEF IsAnswer
  <2> QED
    BY <2>1, <2>2 DEF SpanOf
<1> QED
  BY <1>1, <1>2, <1>3

\* Under utilisation a row without a share of a line rate.
Shareless(p) == Drawing = "utilisation" /\ FigureOf(p) = None

\* A row that is not dubious says its figure, and puts the link of its port in
\* doubt when that is no share; a dubious one also its node.
LEMMA RowSays ==
  ASSUME NEW p, Drawing # None
  PROVE  /\ Dubious(p) => SaysOf(mode, view, model, p).doubt = {p.node, LinkAt(model, p)}
         /\ ~Dubious(p) =>
              /\ SaysOf(mode, view, model, p).value = FigureOf(p)
              /\ SaysOf(mode, view, model, p).doubt =
                   IF Shareless(p) THEN {LinkAt(model, p)} ELSE {}
<1>1. CASE Drawing = "utilisation"
  <2>1. Dubious(p) <=> Unread(p)
    BY <1>1 DEF Dubious, Unread, ReadsTraffic
  <2>2. SaysOf(mode, view, model, p) = ShareOf(p, model)
    BY <1>1 DEF SaysOf, Drawing
  <2>3. FigureOf(p) = UtilisationOf(p, LinkAt(model, p))
    BY <1>1 DEF FigureOf
  <2>4. Unread(p) => ShareOf(p, model).doubt = {p.node, LinkAt(model, p)}
    BY DEF ShareOf, Saying
  <2>5. ~Unread(p) =>
          /\ ShareOf(p, model).value = UtilisationOf(p, LinkAt(model, p))
          /\ ShareOf(p, model).doubt =
               IF UtilisationOf(p, LinkAt(model, p)) = None THEN {LinkAt(model, p)} ELSE {}
    BY DEF ShareOf, Saying
  <2> QED
    BY <1>1, <2>1, <2>2, <2>3, <2>4, <2>5 DEF Shareless
<1>2. CASE Drawing = "throughput"
  <2>1. Dubious(p) <=> Unread(p)
    BY <1>2 DEF Dubious, Unread, ReadsTraffic
  <2>2. SaysOf(mode, view, model, p) = FlowOf(p, model)
    BY <1>2 DEF SaysOf, Drawing
  <2>3. FigureOf(p) = Busier(p)
    BY <1>2 DEF FigureOf
  <2> QED
    BY <1>2, <2>1, <2>2, <2>3 DEF FlowOf, Saying, Shareless
<1>3. CASE Drawing \notin {"utilisation", "throughput"}
  <2> DEFINE sel == Selected(mode, view)
  <2>1. Dubious(p) <=> ~Honest(p, sel)
    BY <1>3 DEF Dubious, Honest, ReadsTraffic
  <2>2. SaysOf(mode, view, model, p) = ErrorsOf(p, model, sel)
    BY <1>3 DEF SaysOf, Drawing
  <2>3. FigureOf(p) = SumOver(sel \cap DOMAIN p.d, p.d)
    BY <1>3 DEF FigureOf
  <2>4. Honest(p, sel) => PortValue(p, sel) = SumOver(sel \cap DOMAIN p.d, p.d)
    BY DEF Honest, PortValue
  <2> HIDE DEF sel
  <2>5. /\ ErrorsOf(p, model, sel).value = PortValue(p, sel)
        /\ ErrorsOf(p, model, sel).doubt =
             IF Honest(p, sel) THEN {} ELSE {p.node, LinkAt(model, p)}
    BY DEF ErrorsOf, Saying
  <2>6. ~Shareless(p)
    BY <1>3 DEF Shareless
  <2> QED
    BY <2>1, <2>2, <2>3, <2>4, <2>5, <2>6 DEF sel
<1> QED
  BY <1>1, <1>2, <1>3

\* Ports and links: a row is a link's when its port is one of the two ends, and
\* then its node is drawn and the link is the one found at that port.
LEMMA RowsOfLink ==
  ASSUME NEW m \in Models, NEW l \in DOMAIN m.links,
         \A o \in DOMAIN m.links \ {l} : Cable[o] \cap Cable[l] = {},
         NEW p
  PROVE  <<p.node, p.port>> \in Cable[l] <=> p.node \in DOMAIN m.nodes /\ LinkAt(m, p) = l
<1>1. l \in Links /\ l # None /\ Ends[l] \subseteq DOMAIN m.nodes
  BY ModelIs, ModelsAssumption
<1>2. {q[1] : q \in Cable[l]} = Ends[l]
  BY <1>1, RollupAssumption
<1>3. ASSUME <<p.node, p.port>> \in Cable[l] PROVE p.node \in DOMAIN m.nodes /\ LinkAt(m, p) = l
  <2>1. p.node \in Ends[l]
    <3>1. <<p.node, p.port>>[1] = p.node
      OBVIOUS
    <3> QED
      BY <1>2, <1>3, <3>1
  <2> DEFINE o == CHOOSE o \in DOMAIN m.links : <<p.node, p.port>> \in Cable[o]
  <2>2. o \in DOMAIN m.links /\ <<p.node, p.port>> \in Cable[o]
    BY <1>3
  <2>3. LinkAt(m, p) = o
    BY <1>3 DEF LinkAt
  <2> HIDE DEF o
  <2>4. o = l
    BY <1>3, <2>2
  <2> QED
    BY <1>1, <2>1, <2>3, <2>4
<1>4. ASSUME LinkAt(m, p) = l PROVE <<p.node, p.port>> \in Cable[l]
  <2>1. \E o \in DOMAIN m.links : <<p.node, p.port>> \in Cable[o]
    BY <1>1, <1>4 DEF LinkAt
  <2>2. LinkAt(m, p) = CHOOSE o \in DOMAIN m.links : <<p.node, p.port>> \in Cable[o]
    BY <2>1 DEF LinkAt
  <2> QED
    BY <1>4, <2>1, <2>2
<1> QED
  BY <1>3, <1>4

\* The rows of an element are those that touch it: of its node, or of a drawn
\* node under its link.
LEMMA RowsTouch ==
  ASSUME OverlayInv, NEW i \in Drawn(model), ~Contested(i)
  PROVE  /\ RowsOf(i) \subseteq DOMAIN Answer.ports
         /\ i \in DOMAIN model.nodes => \A k \in DOMAIN Answer.ports :
              k \in RowsOf(i) <=> Answer.ports[k].node = i
         /\ i \in DOMAIN model.links => \A k \in DOMAIN Answer.ports :
              k \in RowsOf(i) <=>
                Answer.ports[k].node \in DOMAIN model.nodes /\ LinkAt(model, Answer.ports[k]) = i
<1>0. model \in Models
  BY DEF OverlayInv
<1>1. ASSUME i \in DOMAIN model.nodes, NEW k \in DOMAIN Answer.ports
      PROVE  k \in RowsOf(i) <=> Answer.ports[k].node = i
  <2>1. i \notin Links
    BY <1>0, <1>1, ElementsAre
  <2> QED
    BY <1>1, <2>1 DEF RowsOf
<1>2. ASSUME i \in DOMAIN model.links, NEW k \in DOMAIN Answer.ports
      PROVE  k \in RowsOf(i) <=>
               Answer.ports[k].node \in DOMAIN model.nodes /\ LinkAt(model, Answer.ports[k]) = i
  <2> DEFINE p == Answer.ports[k]
  <2>1. i \in Links
    BY <1>0, <1>2, ModelIs
  <2>2. \A o \in DOMAIN model.links \ {i} : Cable[o] \cap Cable[i] = {}
    BY <2>1 DEF Contested
  <2>3. k \in RowsOf(i) <=> <<p.node, p.port>> \in Cable[i]
    BY <1>2, <2>1 DEF RowsOf
  <2> HIDE DEF p
  <2>4. <<p.node, p.port>> \in Cable[i] <=> p.node \in DOMAIN model.nodes /\ LinkAt(model, p) = i
    BY <1>0, <1>2, <2>2, RowsOfLink
  <2> QED
    BY <2>3, <2>4 DEF p
<1>3. RowsOf(i) \subseteq DOMAIN Answer.ports
  BY DEF RowsOf
<1> QED
  BY <1>1, <1>2, <1>3

\* An element with a dubious row is untrusted; the rows of any other all say
\* their figures, and what was computed for it is what they come to.
LEMMA FigureIs ==
  ASSUME OverlayInv, Drawing # None, Measured, NEW i \in Drawn(model), ~Contested(i),
         i \notin Current.untrusted
  PROVE  /\ \A k \in RowsOf(i) : ~Dubious(Answer.ports[k])
         /\ ValueOf(Current, i) = Figure(i)
<1> DEFINE rows == Answer.ports
           says == Says(mode, view, model, errors, traffic)
           f == Amounts(mode, view, model, errors, traffic)
           n == Len(rows)
           figures == [k \in RowsOf(i) |-> FigureOf(rows[k])]
           told == {k \in RowsOf(i) : figures[k] # None}
<1>0. /\ IsView(view) /\ model \in Models /\ errors \in Deltas \cup {None}
      /\ traffic \in Rates \cup {None} /\ Shown(mode, view) # None
  BY DEF OverlayInv, Drawing
<1>1. Told(mode, view, errors, traffic) /\ RowsTold(mode, view, errors, traffic) = rows
  BY AnswerIs
<1>2. /\ n \in Nat /\ DOMAIN rows = 1 .. n
      /\ \A k \in DOMAIN rows : SaysOf(mode, view, model, rows[k]).value \in Int \cup {None}
  BY <1>0, <1>1, SaysAmounts
<1>3. \A k \in 1 .. n : says[k] = SaysOf(mode, view, model, rows[k]) /\ f[k] = says[k].value
  BY <1>1, <1>2 DEF Says, Amounts
<1>4. Totals(Current, model, view.rollup, rows, says, f, n)
  BY <1>0, <1>1, ValuesAre DEF Current
<1>5. /\ RowsOf(i) \subseteq 1 .. n
      /\ i \in DOMAIN model.nodes => \A k \in 1 .. n : k \in RowsOf(i) <=> rows[k].node = i
      /\ i \in DOMAIN model.links => \A k \in 1 .. n :
           k \in RowsOf(i) <=> rows[k].node \in DOMAIN model.nodes /\ LinkAt(model, rows[k]) = i
  BY <1>2, RowsTouch
<1>6. i # None /\ (i \in DOMAIN model.nodes \/ i \in DOMAIN model.links)
  BY <1>0, ElementsAre DEF Drawn
<1> HIDE DEF rows, says, f, n
<1>7. ASSUME NEW k \in RowsOf(i) PROVE ~Dubious(rows[k])
  <2> SUFFICES ASSUME Dubious(rows[k]) PROVE FALSE
    OBVIOUS
  <2>1. k \in 1 .. n
    BY <1>5
  <2>2. says[k].doubt = {rows[k].node, LinkAt(model, rows[k])}
    BY <1>3, <2>1, RowSays
  <2>3. rows[k].node \in DOMAIN model.nodes /\ i \in {rows[k].node, LinkAt(model, rows[k])}
    BY <1>5, <1>6, <2>1
  <2>4. i \in Current.untrusted
    BY <1>4, <1>6, <2>1, <2>2, <2>3 DEF Totals
  <2> QED
    BY <2>4
<1>8. \A k \in RowsOf(i) : figures[k] = f[k] /\ f[k] \in Int \cup {None}
  <2> SUFFICES ASSUME NEW k \in RowsOf(i) PROVE figures[k] = f[k] /\ f[k] \in Int \cup {None}
    OBVIOUS
  <2>1. k \in 1 .. n
    BY <1>5
  <2>2. SaysOf(mode, view, model, rows[k]).value = FigureOf(rows[k])
    BY <1>7, RowSays
  <2> QED
    BY <1>2, <1>3, <2>1, <2>2
<1>9. told = {k \in RowsOf(i) : says[k].value # None} /\ IsFiniteSet(told)
  <2>1. told = {k \in RowsOf(i) : says[k].value # None}
    BY <1>3, <1>5, <1>8
  <2>2. IsFiniteSet(1 .. n) /\ told \subseteq 1 .. n
    BY <1>2, <1>5, FS_Interval
  <2> QED
    BY <2>1, <2>2, FS_Subset
<1>10. Figure(i) = IF i \in Nodes /\ view.rollup = "sum" THEN SumOver(told, figures)
                   ELSE Max({0} \cup {figures[k] : k \in told})
  BY DEF Figure, rows
<1>11. \A k \in told : figures[k] = f[k] /\ f[k] \in Int
  BY <1>8
<1> HIDE DEF figures, told
<1>12. ASSUME NEW v, IsMost(v, told, f), v \in Int
       PROVE  v = Max({0} \cup {figures[k] : k \in told})
  <2>1. {0} \cup {figures[k] : k \in told} \subseteq Int
    BY <1>11
  <2>2. v \in {0} \cup {figures[k] : k \in told}
    BY <1>11, <1>12 DEF IsMost
  <2>3. \A y \in {0} \cup {figures[k] : k \in told} : v >= y
    BY <1>11, <1>12 DEF IsMost
  <2> QED
    BY <2>1, <2>2, <2>3, MaxIs
<1>13. CASE i \in DOMAIN model.nodes
  <2>1. told = ForNode(rows, says, i, n)
    BY <1>5, <1>9, <1>13 DEF ForNode
  <2>2. /\ IF view.rollup = "sum" THEN Current.nodes[i] = SumOver(told, f)
           ELSE IsMost(Current.nodes[i], told, f)
        /\ Current.nodes[i] \in Int /\ DOMAIN Current.nodes = DOMAIN model.nodes
        /\ DOMAIN Current.links = DOMAIN model.links
    BY <1>4, <1>13, <2>1 DEF Totals, IsValues
  <2>3. i \in Nodes /\ i \notin DOMAIN model.links
    BY <1>0, <1>13, ElementsAre, ModelIs
  <2>4. SumOver(told, figures) = SumOver(told, f)
    BY <1>9, <1>11, SumSame
  <2>5. ValueOf(Current, i) = Current.nodes[i]
    BY <1>13, <2>2, <2>3 DEF ValueOf
  <2> QED
    BY <1>7, <1>10, <1>12, <2>2, <2>3, <2>4, <2>5 DEF rows
<1>14. CASE i \in DOMAIN model.links
  <2>1. told = ForLink(model, rows, says, i, n)
    BY <1>5, <1>9, <1>14 DEF ForLink
  <2>2. /\ IsMost(Current.links[i], told, f)
        /\ Current.links[i] \in Int
        /\ DOMAIN Current.nodes = DOMAIN model.nodes /\ DOMAIN Current.links = DOMAIN model.links
    BY <1>4, <1>14, <2>1 DEF Totals, IsValues
  <2>3. i \notin Nodes /\ i \notin DOMAIN model.nodes
    BY <1>0, <1>14, ElementsAre, ModelIs
  <2>4. ValueOf(Current, i) = Current.links[i]
    BY <1>14, <2>2, <2>3 DEF ValueOf
  <2> QED
    BY <1>7, <1>10, <1>12, <2>2, <2>3, <2>4 DEF rows
<1> QED
  BY <1>6, <1>13, <1>14

\* In doubt is exactly what a dubious row is of, and a link with a row that has
\* no share.
LEMMA UntrustedIs ==
  ASSUME OverlayInv, Drawing # None, Measured, NEW i \in Drawn(model), ~Contested(i)
  PROVE  i \in Current.untrusted <=>
           \E k \in RowsOf(i) : Dubious(Answer.ports[k])
                              \/ (i \in Links /\ Shareless(Answer.ports[k]))
<1> DEFINE rows == Answer.ports
           says == Says(mode, view, model, errors, traffic)
           f == Amounts(mode, view, model, errors, traffic)
           n == Len(rows)
<1>0. /\ IsView(view) /\ model \in Models /\ errors \in Deltas \cup {None}
      /\ traffic \in Rates \cup {None} /\ Shown(mode, view) # None
  BY DEF OverlayInv, Drawing
<1>1. Told(mode, view, errors, traffic) /\ RowsTold(mode, view, errors, traffic) = rows
  BY AnswerIs
<1>2. n \in Nat /\ DOMAIN rows = 1 .. n /\ \A k \in DOMAIN rows : IsRow(rows[k])
  BY <1>0, <1>1, SaysAmounts
<1>3. \A k \in 1 .. n : says[k] = SaysOf(mode, view, model, rows[k])
  BY <1>1, <1>2 DEF Says
<1>4. Totals(Current, model, view.rollup, rows, says, f, n)
  BY <1>0, <1>1, ValuesAre DEF Current
<1>5. /\ RowsOf(i) \subseteq 1 .. n
      /\ i \in DOMAIN model.nodes => \A k \in 1 .. n : k \in RowsOf(i) <=> rows[k].node = i
      /\ i \in DOMAIN model.links => \A k \in 1 .. n :
           k \in RowsOf(i) <=> rows[k].node \in DOMAIN model.nodes /\ LinkAt(model, rows[k]) = i
  BY <1>2, RowsTouch
<1>6. /\ i # None /\ (i \in DOMAIN model.nodes \/ i \in DOMAIN model.links)
      /\ i \in DOMAIN model.links => i \in Links /\ i \notin Nodes
      /\ i \in DOMAIN model.nodes => i \notin Links
  BY <1>0, ElementsAre, ModelIs, Kinds DEF Drawn
<1> HIDE DEF rows, says, f, n
<1>7. i \in Current.untrusted <=>
        \E j \in 1 .. n : rows[j].node \in DOMAIN model.nodes /\ i \in says[j].doubt
  BY <1>4, <1>6 DEF Totals
<1>8. ASSUME NEW k \in RowsOf(i), Dubious(rows[k]) \/ (i \in Links /\ Shareless(rows[k]))
      PROVE  i \in Current.untrusted
  <2>1. k \in 1 .. n /\ rows[k].node \in DOMAIN model.nodes
    BY <1>5, <1>6
  <2>2. i \in says[k].doubt
    <3>1. CASE Dubious(rows[k])
      <4>1. says[k].doubt = {rows[k].node, LinkAt(model, rows[k])}
        BY <1>3, <2>1, <3>1, RowSays
      <4> QED
        BY <1>5, <1>6, <2>1, <4>1
    <3>2. CASE ~Dubious(rows[k])
      <4>1. says[k].doubt = {LinkAt(model, rows[k])} /\ i \in DOMAIN model.links
        BY <1>3, <1>6, <1>8, <2>1, <3>2, RowSays
      <4> QED
        BY <1>5, <2>1, <4>1
    <3> QED
      BY <3>1, <3>2
  <2> QED
    BY <1>7, <2>1, <2>2
<1>9. ASSUME i \in Current.untrusted
      PROVE  \E k \in RowsOf(i) : Dubious(rows[k]) \/ (i \in Links /\ Shareless(rows[k]))
  <2>1. PICK j \in 1 .. n : rows[j].node \in DOMAIN model.nodes /\ i \in says[j].doubt
    BY <1>7, <1>9
  <2>2. LinkAt(model, rows[j]) \in DOMAIN model.links \cup {None}
    BY LinkAtIs
  <2>3. DOMAIN model.nodes \subseteq Nodes
    BY <1>0, ModelIs
  <2>4. CASE Dubious(rows[j])
    <3>1. says[j].doubt = {rows[j].node, LinkAt(model, rows[j])}
      BY <1>3, <2>4, RowSays
    <3>2. j \in RowsOf(i)
      <4>1. CASE i \in DOMAIN model.nodes
        <5>1. LinkAt(model, rows[j]) # i
          BY <1>0, <1>6, <2>2, <4>1, ModelIs
        <5> QED
          BY <1>5, <2>1, <3>1, <4>1, <5>1
      <4>2. CASE i \in DOMAIN model.links
        BY <1>5, <1>6, <2>1, <2>3, <3>1, <4>2
      <4> QED
        BY <1>6, <4>1, <4>2
    <3> QED
      BY <2>4, <3>2
  <2>5. CASE ~Dubious(rows[j])
    <3>1. says[j].doubt = IF Shareless(rows[j]) THEN {LinkAt(model, rows[j])} ELSE {}
      BY <1>3, <2>5, RowSays
    <3>2. Shareless(rows[j]) /\ i = LinkAt(model, rows[j])
      BY <2>1, <3>1
    <3>3. i \in DOMAIN model.links /\ i \in Links
      BY <1>6, <2>2, <3>2
    <3>4. j \in RowsOf(i)
      BY <1>5, <2>1, <3>2, <3>3
    <3> QED
      BY <3>2, <3>3, <3>4
  <2> QED
    BY <2>4, <2>5
<1> QED
  BY <1>8, <1>9 DEF rows

-----------------------------------------------------------------------------
(* The colours. *)

\* The bin of what was computed for an element, and whether it is grey instead.
BinOf(i) == Bin(Drawing, ValueOf(Current, i), SpanOf(errors))
IsGrey(i)  == i \in Current.untrusted \/ BinOf(i) = None

LEMMA InvIs ==
  ASSUME OverlayInv
  PROVE  /\ IsView(view) /\ model \in Models /\ errors \in Deltas \cup {None}
         /\ traffic \in Rates \cup {None} /\ Drawing \in Overlays \cup {None}
         /\ DOMAIN overlaid = DOMAIN ToElements(model)
         /\ DOMAIN painted = DOMAIN ToElements(model)
         /\ \A i \in DOMAIN painted : painted[i] = Colour(model, overlaid[i], i)
         /\ Shows(overlaid, mode, view, model, errors, traffic)
<1>1. IsView(view) /\ model \in Models /\ errors \in Deltas \cup {None} /\ traffic \in Rates \cup {None}
  BY DEF OverlayInv
<1>2. Shows(overlaid, mode, view, model, errors, traffic)
  BY WantedIs DEF OverlayInv
<1>3. DOMAIN overlaid = DOMAIN ToElements(model)
  BY <1>2 DEF Shows
<1>4. DOMAIN painted = DOMAIN ToElements(model) /\ \A i \in DOMAIN painted : painted[i] = Colour(model, overlaid[i], i)
  BY DEF OverlayInv, Painted
<1>5. Drawing \in Overlays \cup {None}
  BY <1>1, ShownIs DEF Drawing
<1> QED
  BY <1>1, <1>2, <1>3, <1>4, <1>5

\* Without an overlay, and on boxes, there is nothing but the base.
LEMMA PlainIs ==
  ASSUME OverlayInv, NEW i \in DOMAIN painted, Drawing = None \/ i \in Boxes(model)
  PROVE  overlaid[i] = None /\ painted[i] = Base(model, i)
<1>1. DOMAIN painted = Drawn(model) \cup Boxes(model)
  BY InvIs, ElementsAre
<1>2. overlaid[i] = None
  BY <1>1, InvIs DEF Shows, Drawing
<1> QED
  BY <1>2, InvIs DEF Colour

\* With one, an element that is drawn has its bin or is grey.
LEMMA RampIs ==
  ASSUME OverlayInv, Drawing # None, NEW i \in Drawn(model)
  PROVE  /\ i \in DOMAIN painted /\ overlaid[i] # None
         /\ overlaid[i].untrusted <=> IsGrey(i)
         /\ overlaid[i].bin = IF IsGrey(i) THEN 0 ELSE BinOf(i)
         /\ painted[i] = IF IsGrey(i) THEN Untrusted ELSE <<Drawing, BinOf(i)>>
         /\ BinOf(i) \in 0 .. BinCount - 1 \cup {None}
         /\ Measured => BinOf(i) # None
         /\ ~Measured => IsGrey(i)
<1>1. /\ overlaid[i] = BinFor(Drawing, Current, SpanOf(errors), i) /\ overlaid[i] # None
  BY InvIs DEF Shows, Drawing, Current
<1>2. i \in DOMAIN painted /\ painted[i] = Colour(model, overlaid[i], i)
  BY InvIs, ElementsAre
<1>3. overlaid[i] = IF IsGrey(i) THEN [overlay |-> Drawing, bin |-> 0, untrusted |-> TRUE]
                    ELSE [overlay |-> Drawing, bin |-> BinOf(i), untrusted |-> FALSE]
  BY <1>1 DEF BinFor, IsGrey, BinOf
<1>4. /\ overlaid[i].untrusted <=> IsGrey(i)
      /\ overlaid[i].bin = IF IsGrey(i) THEN 0 ELSE BinOf(i)
      /\ overlaid[i].overlay = Drawing
  <2>1. CASE IsGrey(i)
    BY <1>3, <2>1
  <2>2. CASE ~IsGrey(i)
    BY <1>3, <2>2
  <2> QED
    BY <2>1, <2>2
<1>5. painted[i] = IF IsGrey(i) THEN Untrusted ELSE <<Drawing, BinOf(i)>>
  BY <1>1, <1>2, <1>4 DEF Colour
<1>6. Drawing \in Overlays
  BY InvIs
<1>7. /\ BinOf(i) \in 0 .. BinCount - 1 \cup {None}
      /\ Drawing # "congestion" \/ (SpanOf(errors) # None /\ SpanOf(errors) # 0) =>
           BinOf(i) \in 0 .. BinCount - 1
  BY <1>6, BinIs DEF BinOf
<1>8. ASSUME Measured PROVE BinOf(i) # None
  <2>1. BinOf(i) \in 0 .. BinCount - 1
    BY <1>7, <1>8, AnswerIs
  <2>2. 0 .. BinCount - 1 \subseteq Int
    BY DEF BinCount
  <2> QED
    BY <2>1, <2>2, Kinds
<1>9. ASSUME ~Measured PROVE IsGrey(i)
  <2>1. ~Told(mode, view, errors, traffic)
    BY <1>9, AnswerIs
  <2>2. Current = Unmeasured(model)
    BY <2>1, InvIs, ValuesAre DEF Current, Drawing
  <2>3. Unmeasured(model).untrusted = Drawn(model)
    BY DEF Unmeasured, NoValues
  <2> QED
    BY <2>2, <2>3 DEF IsGrey
<1> QED
  BY <1>1, <1>2, <1>4, <1>5, <1>7, <1>8, <1>9

LEMMA GreyIs ==
  ASSUME OverlayInv
  PROVE  UntrustedIsGrey
<1> SUFFICES ASSUME Drawing # None, NEW i \in Drawn(model)
             PROVE  /\ ~Measured => painted[i] = Untrusted
                    /\ ~Contested(i) =>
                         (painted[i] = Untrusted <=>
                            ~Measured \/ \E k \in RowsOf(i) :
                              Dubious(Answer.ports[k]) \/ (i \in Links /\ Shareless(Answer.ports[k])))
  BY DEF UntrustedIsGrey, Shareless
<1>1. painted[i] = Untrusted <=> IsGrey(i)
  <2>1. \A x : <<Drawing, x>> # Untrusted
    BY DEF Untrusted
  <2> QED
    BY <2>1, RampIs
<1>2. ~Measured => IsGrey(i)
  BY RampIs
<1>3. Measured => (IsGrey(i) <=> i \in Current.untrusted)
  BY RampIs DEF IsGrey
<1> QED
  BY <1>1, <1>2, <1>3, UntrustedIs

LEMMA CannotCountIs ==
  ASSUME OverlayInv
  PROVE  CannotCountIsTold
<1> SUFFICES ASSUME Drawing # None, ~ReadsTraffic, Measured,
                    NEW i \in Drawn(model), NEW j \in DOMAIN errors.facts,
                    IF i \in Links THEN <<errors.facts[j].node, errors.facts[j].port>> \in Cable[i]
                    ELSE errors.facts[j].node = i,
                    ~Still(errors.facts[j]), ~Contested(i),
                    NEW c \in errors.facts[j].gated \cap Selected(mode, view)
             PROVE  painted[i] = Untrusted \/ c \in OmittedOf(errors, Selected(mode, view))
  BY DEF CannotCountIsTold
<1> DEFINE f == errors.facts[j]
<1>1. /\ errors \in Deltas /\ errors # None /\ errors.measured > 0
      /\ Answer = errors
  BY DEF Measured, Answer, OverlayInv
<1>2. TellsOf(errors, f, c)
  BY <1>1, AssembledIs
<1> HIDE DEF f
<1>3. \/ c \in DOMAIN errors.unsupported /\ errors.unsupported[c] = errors.expected
         /\ errors.expected \in Nat \ {0}
      \/ \E k \in DOMAIN errors.ports :
           /\ errors.ports[k].node = f.node /\ errors.ports[k].port = f.port
           /\ errors.ports[k].no_data \/ c \in errors.ports[k].unsupported
  BY <1>2 DEF TellsOf, f
<1>4. CASE /\ c \in DOMAIN errors.unsupported /\ errors.unsupported[c] = errors.expected
           /\ errors.expected \in Nat \ {0}
  BY <1>1, <1>4 DEF OmittedOf
<1>5. ASSUME NEW k \in DOMAIN errors.ports,
             errors.ports[k].node = f.node, errors.ports[k].port = f.port,
             errors.ports[k].no_data \/ c \in errors.ports[k].unsupported
      PROVE  painted[i] = Untrusted
  <2>1. k \in RowsOf(i)
    BY <1>1, <1>5 DEF RowsOf, f
  <2>2. Dubious(Answer.ports[k])
    BY <1>1, <1>5 DEF Dubious
  <2> QED
    BY <2>1, <2>2, GreyIs DEF UntrustedIsGrey
<1> QED
  BY <1>3, <1>4, <1>5

LEMMA ColoursAre ==
  PageInv => ColoursAreTrue
<1>1. ASSUME OverlayInv PROVE RampIsTheFigure
  <2> SUFFICES ASSUME Drawing # None, NEW i \in Drawn(model), painted[i] # Untrusted, ~Contested(i)
               PROVE  painted[i] = <<Drawing, Bin(Drawing, Figure(i), SpanOf(errors))>>
    BY DEF RampIsTheFigure
  <2>1. ~IsGrey(i) /\ Measured /\ painted[i] = <<Drawing, BinOf(i)>>
    BY <1>1, RampIs
  <2>2. i \notin Current.untrusted
    BY <2>1 DEF IsGrey
  <2>3. ValueOf(Current, i) = Figure(i)
    BY <1>1, <2>1, <2>2, FigureIs
  <2> QED
    BY <2>1, <2>3 DEF BinOf
<1>2. OverlayInv => OverlayLeavesNoTrace
  BY PlainIs DEF OverlayLeavesNoTrace
<1>3. BlankInv => OverlayLeavesNoTrace /\ ~Renders(view)
  BY DEF BlankInv, Bare, OverlayLeavesNoTrace
<1> QED
  BY <1>1, <1>2, <1>3, GreyIs, CannotCountIs, OverlayTypes DEF ColoursAreTrue, PageInv

-----------------------------------------------------------------------------
(* The legends. *)

LEMMA TallyIs ==
  ASSUME NEW m
  PROVE  /\ \A h \in Healths : Tally(m, Healths, Changes).health[h] =
              Cardinality({l \in DOMAIN m.links : m.links[l].el.health = h})
         /\ \A c \in Changes : Tally(m, Healths, Changes).change[c] =
              Cardinality({n \in DOMAIN m.nodes : m.nodes[n].change = c})
                + Cardinality({l \in DOMAIN m.links : m.links[l].change = c})
BY DEF Tally, CountOf

\* The legend of the mask that applies is that of the model drawn.
LEMMA LegendMatches ==
  ASSUME OverlayInv, Legend = Mask(mode, view)
  PROVE  \/ Legend = "health" /\ model.mode = "single" /\ Drawing = None
         \/ Legend = "change" /\ model.mode = "compare" /\ Drawing = None
         \/ Legend \in Overlays /\ model.mode = "single" /\ Drawing = Legend
<1>1. model.mode \in {"single", "compare"} /\ None \notin Overlays
  BY InvIs, ModelIs, Kinds
<1>2. Drawing = IF Legend \in Overlays THEN Legend ELSE None
  BY DEF Drawing, Shown, OverlayOf
<1>3. CASE model.mode = "compare"
  <2>1. Legend = "change"
    BY <1>3 DEF Legend, MasksFor
  <2> QED
    BY <1>2, <1>3, <2>1 DEF Overlays
<1>4. CASE model.mode = "single"
  <2>1. Legend \in {"health"} \cup Overlays
    BY <1>4 DEF Legend, MasksFor, Masks, Overlays
  <2> QED
    BY <1>1, <1>2, <1>4, <2>1 DEF Overlays
<1> QED
  BY <1>1, <1>3, <1>4

\* An element of the graph as the stylesheet and the filters read it.
Subject(i) == IF i \in Nodes THEN model.nodes[i] ELSE model.links[i]

LEMMA SubjectIs ==
  ASSUME OverlayInv, NEW i \in Drawn(model)
  PROVE  /\ i \in DOMAIN painted /\ i \notin Groups
         /\ ToElements(model)[i].data.health = Subject(i).el.health
         /\ ToElements(model)[i].data.change = Subject(i).change
         /\ Base(model, i) = IF model.mode = "compare" THEN <<"change", Subject(i).change>>
                             ELSE <<"health", Subject(i).el.health>>
         /\ Subject(i).change \in Changes
         /\ i \in DOMAIN model.links => Subject(i) = model.links[i]
         /\ i \in DOMAIN model.nodes => Subject(i) = model.nodes[i]
<1>1. model \in Models
  BY InvIs
<1>2. i \in DOMAIN painted /\ i \notin Groups /\ i \in DOMAIN ToElements(model)
  BY <1>1, InvIs, ElementsAre
<1>3. /\ i \in DOMAIN model.links => i \notin Nodes /\ i \in Links
      /\ i \in DOMAIN model.nodes => i \in Nodes
      /\ i \in DOMAIN model.links \/ i \in DOMAIN model.nodes
  BY <1>1, ElementsAre, ModelIs DEF Drawn
<1>4. ToElements(model)[i].data = Data(model, Subject(i))
  <2>1. i \in DOMAIN model.nodes \cup DOMAIN model.links \cup Boxes(model)
    BY <1>3
  <2>2. CASE i \in DOMAIN model.nodes
    <3>1. i \in Nodes /\ i \notin Links
      BY <1>3, <2>2, Kinds
    <3>2. ToElements(model)[i] = [parent |-> GroupOf(model, i), data |-> Data(model, model.nodes[i])]
      BY <1>2, <2>1, <3>1 DEF ToElements
    <3> QED
      BY <3>1, <3>2 DEF Subject
  <2>3. CASE i \in DOMAIN model.links
    <3>1. i \notin Nodes /\ i \in Links
      BY <1>3, <2>3
    <3>2. ToElements(model)[i] = [parent |-> None, data |-> Data(model, model.links[i])]
      BY <1>2, <2>1, <3>1 DEF ToElements
    <3> QED
      BY <3>1, <3>2 DEF Subject
  <2> QED
    BY <1>3, <2>2, <2>3
<1>5. Base(model, i) = IF model.mode = "compare" THEN <<"change", Subject(i).change>>
                       ELSE <<"health", Subject(i).el.health>>
  BY <1>2 DEF Base, Subject
<1>6. /\ i \in DOMAIN model.links => Subject(i) = model.links[i]
      /\ i \in DOMAIN model.nodes => Subject(i) = model.nodes[i]
  BY <1>3 DEF Subject
<1>7. Subject(i).change \in Changes
  BY <1>1, <1>3, <1>6, ModelsAssumption
<1>8. /\ ToElements(model)[i].data.health = Subject(i).el.health
      /\ ToElements(model)[i].data.change = Subject(i).change
  BY <1>4 DEF Data
<1> QED
  BY <1>2, <1>5, <1>6, <1>7, <1>8

\* A list that names each of a set once is as long as the set is large.
LEMMA OnesSum ==
  ASSUME NEW S, IsFiniteSet(S)
  PROVE  SumOver(S, Once(S)) = Cardinality(S)
<1> DEFINE f == Once(S)
           P == {n \in Nat : \A T \in SUBSET S : Cardinality(T) = n => SumOver(T, f) = n}
<1>0. \A T \in SUBSET S : IsFiniteSet(T) /\ Cardinality(T) \in Nat
  BY FS_Subset, FS_CardinalityType
<1>1. \A T \in SUBSET S : T # {} => /\ First(T) \in T /\ T \ {First(T)} \in SUBSET S
                                    /\ Cardinality(T \ {First(T)}) = Cardinality(T) - 1
  BY <1>0, FirstIs, FS_RemoveElement
<1>2. \A x \in S : f[x] = 1
  BY DEF Once
<1> HIDE DEF f
<1>3. 0 \in P
  <2>1. \A T \in SUBSET S : Cardinality(T) = 0 => T = {}
    BY <1>0, FS_EmptySet
  <2> QED
    BY <2>1, SumOfNone
<1>4. ASSUME NEW n \in Nat, n \in P PROVE n + 1 \in P
  <2> SUFFICES ASSUME NEW T \in SUBSET S, Cardinality(T) = n + 1 PROVE SumOver(T, f) = n + 1
    OBVIOUS
  <2>1. T # {} /\ IsFiniteSet(T)
    BY <1>0, FS_EmptySet
  <2>2. First(T) \in T /\ T \ {First(T)} \in SUBSET S /\ Cardinality(T \ {First(T)}) = n
    BY <1>1, <2>1
  <2>3. SumOver(T \ {First(T)}, f) = n
    BY <1>4, <2>2
  <2>4. SumOver(T, f) = f[First(T)] + SumOver(T \ {First(T)}, f)
    BY <2>1, SumFirst
  <2> QED
    BY <1>2, <2>2, <2>3, <2>4
<1>5. Cardinality(S) \in P
  <2>1. Cardinality(S) \in Nat
    BY <1>0
  <2> HIDE DEF P
  <2> QED
    BY <1>3, <1>4, <2>1, Reached
<1> QED
  BY <1>5 DEF f

LEMMA SameIs ==
  ASSUME NEW S \in SUBSET Selectable, NEW T \in SUBSET Selectable, SameSet(Once(S), Once(T))
  PROVE  S = T
<1>1. IsFiniteSet(S) /\ IsFiniteSet(T)
  BY SelectableIsFinite, FS_Subset
<1>2. S \subseteq T /\ SumOver(S, Once(S)) = SumOver(T, Once(T))
  BY DEF SameSet, Once
<1>3. Cardinality(S) = Cardinality(T)
  BY <1>1, <1>2, OnesSum
<1> QED
  BY <1>1, <1>2, <1>3, FS_Subset

\* The address read back, of a page that renders.
LEMMA AddressIs ==
  ASSUME OverlayInv
  PROVE  UrlCarriesTheView
<1>1. /\ view.mask \in Masks \cup Inherited /\ view.window \in DOMAIN Windows
      /\ DOMAIN view.counters \subseteq Selectable /\ view.rollup \in {"max", "sum"}
      /\ view.counters \in [DOMAIN view.counters -> Nat \ {0}]
  BY InvIs DEF IsView, IsState, Renders
<1>2. None \notin Masks \cup Inherited \cup DOMAIN Windows /\ None # "sum"
  BY NullAssumption
<1>3. url = ViewSearch(view)
  BY DEF OverlayInv
<1> DEFINE opened == ParseView(url)
<1>4. opened.mask = view.mask
  BY <1>1, <1>2, <1>3 DEF ParseView, ViewSearch, Unless, DefaultView, isMask
<1>5. opened.window = view.window
  BY <1>1, <1>2, <1>3 DEF ParseView, ViewSearch, Unless, DefaultView, isWindowKey
<1>6. opened.rollup = view.rollup
  BY <1>1, <1>2, <1>3 DEF ParseView, ViewSearch, Unless, DefaultView
<1>7. ASSUME view.mask = "errors"
      PROVE  \/ DOMAIN opened.counters = DOMAIN view.counters
             \/ /\ opened.counters = DefaultSelection /\ Chosen \subseteq Groupings.cable
                /\ \E c \in Chosen : view.counters[c] > 1
  <2>1. OverlayOf(view.mask) = "errors"
    BY <1>7 DEF OverlayOf, Overlays
  <2>2. DefaultView.counters = Once(Groupings.cable) /\ Groupings.cable \in SUBSET Selectable
    BY RollupAssumption DEF DefaultView, DefaultSelection, Selectable
  <2>3. url.counters = IF SameSet(view.counters, DefaultView.counters) THEN None ELSE view.counters
    BY <1>3, <2>1 DEF ViewSearch
  <2>4. opened.counters = IF url.counters = None THEN DefaultView.counters
                          ELSE [c \in DOMAIN url.counters \cap Selectable |-> url.counters[c]]
    BY DEF ParseView
  <2>5. view.counters \in [Chosen -> Nat \ {0}] /\ Chosen \in SUBSET Selectable
    BY <1>1 DEF Chosen
  <2> HIDE DEF opened
  <2>6. CASE SameSet(view.counters, DefaultView.counters)
    <3>1. opened.counters = DefaultSelection /\ DOMAIN DefaultSelection = Groupings.cable
      BY <2>2, <2>3, <2>4, <2>6 DEF DefaultView, DefaultSelection, Once
    <3>2. Chosen \subseteq Groupings.cable
      BY <2>2, <2>6 DEF SameSet, Chosen, Once
    <3>3. ASSUME \A c \in Chosen : ~(view.counters[c] > 1) PROVE Chosen = Groupings.cable
      <4>1. \A c \in Chosen : view.counters[c] = 1
        BY <2>5, <3>3
      <4>2. view.counters = Once(Chosen)
        BY <2>5, <4>1 DEF Once
      <4> QED
        BY <2>2, <2>5, <2>6, <4>2, SameIs
    <3> QED
      BY <3>1, <3>2, <3>3 DEF Chosen
  <2>7. CASE ~SameSet(view.counters, DefaultView.counters)
    <3>1. view.counters # None
      BY <2>5, NullAssumption
    <3>2. DOMAIN opened.counters = DOMAIN view.counters \cap Selectable
      BY <2>3, <2>4, <2>7, <3>1
    <3> QED
      BY <1>1, <3>2
  <2> QED
    BY <2>6, <2>7
<1>8. \/ CountersFor(opened) = CountersFor(view)
      \/ /\ opened.counters = DefaultSelection /\ Chosen \subseteq Groupings.cable
         /\ \E c \in Chosen : view.counters[c] > 1
  <2> HIDE DEF opened
  <2> QED
    BY <1>4, <1>7 DEF CountersFor
<1> QED
  BY <1>4, <1>5, <1>6, <1>8 DEF UrlCarriesTheView

LEMMA ViewIs ==
  PageInv => ViewHolds
<1>1. ASSUME OverlayInv PROVE WindowTrails
  BY <1>1, InvIs DEF IsView, WindowTrails, OverlayInv, Trails
<1>2. ASSUME BlankInv PROVE WindowTrails /\ UrlCarriesTheView
  BY <1>2 DEF BlankInv, WindowTrails, UrlCarriesTheView
<1> QED
  BY <1>1, <1>2, AddressIs DEF PageInv, ViewHolds

\* A swatch selects the elements of its colour; the first of a ramp also those
\* that are grey.
ColourOf(sw) == CASE sw[1] = "bin"       -> {<<Drawing, sw[2]>>}
                  [] sw[1] = "untrusted" -> {Untrusted}
                  [] OTHER               -> {sw}
AlsoGrey(sw) == IF sw = <<"bin", 0>> THEN {Untrusted} ELSE {}

Selects(sw) ==
  Swatch(sw[1], sw[2]) = {i \in DOMAIN painted : painted[i] \in ColourOf(sw) \cup AlsoGrey(sw)}

LEMMA DrawnOrBox ==
  ASSUME OverlayInv, NEW i \in DOMAIN painted
  PROVE  /\ i \in DOMAIN ToElements(model)
         /\ i \in Drawn(model) \/ (i \in Boxes(model) /\ i \in Groups /\ overlaid[i] = None /\ painted[i] = <<"box">>)
<1>1. DOMAIN painted = Drawn(model) \cup Boxes(model) /\ DOMAIN painted = DOMAIN ToElements(model)
      /\ Boxes(model) \subseteq Groups
  BY InvIs, ElementsAre
<1>2. ASSUME i \in Boxes(model) PROVE i \in Groups /\ overlaid[i] = None /\ painted[i] = <<"box">>
  <2>1. overlaid[i] = None /\ painted[i] = Base(model, i) /\ i \in Groups
    BY <1>1, <1>2, PlainIs
  <2> QED
    BY <2>1 DEF Base
<1> QED
  BY <1>1, <1>2

\* Under health and under changes.
LEMMA PlainSelects ==
  ASSUME OverlayInv, Drawing = None, NEW key, NEW value,
         \/ key = "health" /\ model.mode = "single"
         \/ key = "change" /\ model.mode = "compare"
  PROVE  Selects(<<key, value>>)
<1>1. ColourOf(<<key, value>>) \cup AlsoGrey(<<key, value>>) = {<<key, value>>}
  BY DEF ColourOf, AlsoGrey
<1>2. DOMAIN ToElements(model) = DOMAIN painted
  BY InvIs
<1>3. Swatch(key, value) =
        {i \in DOMAIN painted : i \notin Groups /\ ToElements(model)[i].data[key] = value}
  BY <1>2 DEF Swatch
<1>4. ASSUME NEW i \in DOMAIN painted
      PROVE  i \notin Groups /\ ToElements(model)[i].data[key] = value <=> painted[i] = <<key, value>>
  <2>1. CASE i \in Drawn(model)
    <3>1. painted[i] = Base(model, i)
      BY <1>4, PlainIs
    <3>2. /\ i \notin Groups
          /\ ToElements(model)[i].data.health = Subject(i).el.health
          /\ ToElements(model)[i].data.change = Subject(i).change
          /\ Base(model, i) = IF model.mode = "compare" THEN <<"change", Subject(i).change>>
                              ELSE <<"health", Subject(i).el.health>>
      BY <2>1, SubjectIs
    <3> QED
      BY <3>1, <3>2
  <2>2. CASE i \notin Drawn(model)
    <3>1. i \in Groups /\ painted[i] = <<"box">>
      BY <1>4, <2>2, DrawnOrBox
    <3> QED
      BY <3>1
  <2> QED
    BY <2>1, <2>2
<1>5. <<key, value>>[1] = key /\ <<key, value>>[2] = value
  OBVIOUS
<1> QED
  BY <1>1, <1>3, <1>4, <1>5 DEF Selects

\* Under a ramp, with something measured.
LEMMA RampSelects ==
  ASSUME OverlayInv, Drawing # None, NEW sw, sw \in {<<"bin", k>> : k \in 0 .. BinCount - 1} \cup {<<"untrusted", TRUE>>}
  PROVE  Selects(sw)
<1>1. DOMAIN ToElements(model) = DOMAIN painted
  BY InvIs
<1>2. \A x : <<Drawing, x>> # Untrusted /\ <<Drawing, x>> # <<"box">> /\ Untrusted # <<"box">>
  BY DEF Untrusted
<1>3. CASE sw = <<"untrusted", TRUE>>
  <2>1. Swatch(sw[1], sw[2]) = {i \in DOMAIN painted : overlaid[i] # None /\ overlaid[i].untrusted = TRUE}
    BY <1>1, <1>3 DEF Swatch
  <2>2. ColourOf(sw) \cup AlsoGrey(sw) = {Untrusted}
    BY <1>3 DEF ColourOf, AlsoGrey
  <2>3. ASSUME NEW i \in DOMAIN painted
        PROVE  overlaid[i] # None /\ overlaid[i].untrusted = TRUE <=> painted[i] = Untrusted
    <3>1. CASE i \in Drawn(model)
      <4>1. overlaid \in [DOMAIN ToElements(model) -> Written \cup {None}]
        BY InvIs DEF Shows
      <4>2. overlaid[i] # None /\ overlaid[i].untrusted \in BOOLEAN
        BY <1>1, <2>3, <3>1, <4>1, RampIs DEF Written
      <4>3. /\ overlaid[i].untrusted <=> IsGrey(i)
            /\ painted[i] = IF IsGrey(i) THEN Untrusted ELSE <<Drawing, BinOf(i)>>
        BY <3>1, RampIs
      <4> QED
        BY <1>2, <4>2, <4>3
    <3>2. CASE i \notin Drawn(model)
      BY <1>2, <2>3, <3>2, DrawnOrBox
    <3> QED
      BY <3>1, <3>2
  <2> QED
    BY <2>1, <2>2, <2>3 DEF Selects
<1>4. ASSUME NEW k \in 0 .. BinCount - 1, sw = <<"bin", k>> PROVE Selects(sw)
  <2>1. Swatch(sw[1], sw[2]) = {i \in DOMAIN painted : overlaid[i] # None /\ overlaid[i].bin = k}
    BY <1>1, <1>4 DEF Swatch
  <2>2. ColourOf(sw) \cup AlsoGrey(sw) = {<<Drawing, k>>} \cup (IF k = 0 THEN {Untrusted} ELSE {})
    BY <1>4 DEF ColourOf, AlsoGrey
  <2>3. ASSUME NEW i \in DOMAIN painted
        PROVE  overlaid[i] # None /\ overlaid[i].bin = k <=>
                 painted[i] = <<Drawing, k>> \/ (k = 0 /\ painted[i] = Untrusted)
    <3>1. CASE i \in Drawn(model)
      <4>1. /\ overlaid[i] # None
            /\ overlaid[i].bin = IF IsGrey(i) THEN 0 ELSE BinOf(i)
            /\ painted[i] = IF IsGrey(i) THEN Untrusted ELSE <<Drawing, BinOf(i)>>
        BY <3>1, RampIs
      <4>2. <<Drawing, BinOf(i)>> = <<Drawing, k>> <=> BinOf(i) = k
        OBVIOUS
      <4> QED
        BY <1>2, <4>1, <4>2
    <3>2. CASE i \notin Drawn(model)
      BY <1>2, <2>3, <3>2, DrawnOrBox
    <3> QED
      BY <3>1, <3>2
  <2> QED
    BY <2>1, <2>2, <2>3 DEF Selects
<1> QED
  BY <1>3, <1>4

\* With an answer of something measured, and only then, a ramp has swatches.
LEMMA MeasuredIs ==
  ASSUME OverlayInv, Drawing # None
  PROVE  Current.unmeasured <=> ~Measured
<1>1. CASE Measured
  <2>1. Told(mode, view, errors, traffic)
    BY <1>1, AnswerIs
  <2>2. IsValues(Current, model)
    BY <2>1, InvIs, ValuesAre DEF Totals, Current, Drawing
  <2> QED
    BY <1>1, <2>2 DEF IsValues
<1>2. CASE ~Measured
  <2>1. ~Told(mode, view, errors, traffic)
    BY <1>2, AnswerIs
  <2>2. Current = Unmeasured(model)
    BY <2>1, InvIs, ValuesAre DEF Current, Drawing
  <2> QED
    BY <1>2, <2>2 DEF Unmeasured, NoValues
<1> QED
  BY <1>1, <1>2

LEMMA SomeCount ==
  ASSUME NEW S, IsFiniteSet(S), NEW x \in S
  PROVE  Cardinality(S) > 0
<1>1. Cardinality(S) \in Nat
  BY FS_CardinalityType
<1>2. Cardinality(S) # 0
  BY FS_EmptySet
<1> QED
  BY <1>1, <1>2

\* The elements and the links of one change.
ChangedTo(c) == {n \in DOMAIN model.nodes : model.nodes[n].change = c}
LinksTo(c)   == {l \in DOMAIN model.links : model.links[l].change = c}

LEMMA ChangesCount ==
  ASSUME OverlayInv, NEW c \in Changes
  PROVE  /\ Tally(model, Healths, Changes).change[c] = Cardinality(ChangedTo(c) \cup LinksTo(c))
         /\ IsFiniteSet(ChangedTo(c) \cup LinksTo(c))
<1>1. IsFiniteSet(DOMAIN model.nodes) /\ IsFiniteSet(DOMAIN model.links) /\ model \in Models
  BY InvIs, ModelIs
<1>2. IsFiniteSet(ChangedTo(c)) /\ IsFiniteSet(LinksTo(c))
  BY <1>1, FS_Subset DEF ChangedTo, LinksTo
<1>3. ChangedTo(c) \cap LinksTo(c) = {}
  BY <1>1, ElementsAre, ModelIs DEF ChangedTo, LinksTo
<1>4. Tally(model, Healths, Changes).change[c] = Cardinality(ChangedTo(c)) + Cardinality(LinksTo(c))
  BY TallyIs DEF ChangedTo, LinksTo
<1>5. /\ IsFiniteSet(ChangedTo(c) \cup LinksTo(c))
      /\ Cardinality(ChangedTo(c) \cup LinksTo(c)) =
           Cardinality(ChangedTo(c)) + Cardinality(LinksTo(c)) - Cardinality(ChangedTo(c) \cap LinksTo(c))
  BY <1>2, FS_Union
<1>6. Cardinality(ChangedTo(c)) \in Nat /\ Cardinality(LinksTo(c)) \in Nat
  BY <1>2, FS_CardinalityType
<1>7. Cardinality(ChangedTo(c) \cap LinksTo(c)) = 0
  <2>1. Cardinality({}) = 0
    BY FS_EmptySet
  <2> QED
    BY <1>3, <2>1
<1>8. \A a, b \in Nat : a + b - 0 = a + b
  OBVIOUS
<1>9. Cardinality(ChangedTo(c) \cup LinksTo(c)) = Cardinality(ChangedTo(c)) + Cardinality(LinksTo(c))
  BY <1>5, <1>6, <1>7, <1>8
<1> QED
  BY <1>4, <1>5, <1>9

LEMMA SwatchesAre ==
  ASSUME OverlayInv
  PROVE  SwatchSelectsColour
<1> SUFFICES ASSUME Legend = Mask(mode, view)
             PROVE  /\ \A sw \in Swatches : Selects(sw)
                    /\ Proved => \A i \in Drawn(model) : painted[i] = <<"change", "unchanged">>
                    /\ Legend # "health" /\ (Drawing # None => ~Current.unmeasured) /\ ~Proved =>
                         \A i \in Drawn(model) : \E sw \in Swatches : painted[i] \in ColourOf(sw)
  BY DEF SwatchSelectsColour, Selects, ColourOf, AlsoGrey
<1>1. CASE Legend = "health" /\ model.mode = "single" /\ Drawing = None
  <2>1. Swatches = HealthSection
    BY <1>1 DEF Swatches
  <2>2. ASSUME NEW sw \in HealthSection PROVE Selects(sw)
    <3>1. PICK h : sw = <<"health", h>>
      BY DEF HealthSection
    <3>2. Selects(<<"health", h>>)
      BY <1>1, PlainSelects
    <3> QED
      BY <3>1, <3>2
  <2> QED
    BY <1>1, <2>1, <2>2 DEF Proved
<1>2. CASE Legend = "change" /\ model.mode = "compare" /\ Drawing = None
  <2>1. Swatches = CompareSection
    BY <1>2 DEF Swatches
  <2>2. ASSUME NEW sw \in CompareSection PROVE Selects(sw)
    <3>1. PICK c : sw = <<"change", c>>
      BY DEF CompareSection
    <3>2. Selects(<<"change", c>>)
      BY <1>2, PlainSelects
    <3> QED
      BY <3>1, <3>2
  <2>3. ASSUME NEW i \in Drawn(model)
        PROVE  /\ Proved => painted[i] = <<"change", "unchanged">>
               /\ ~Proved => \E sw \in CompareSection : painted[i] \in ColourOf(sw)
    <3> DEFINE c == Subject(i).change
    <3>1. c \in Changes /\ painted[i] = <<"change", c>>
      <4>1. i \in DOMAIN painted /\ Base(model, i) = <<"change", c>> /\ c \in Changes
        BY <1>2, SubjectIs
      <4> QED
        BY <1>2, <4>1, PlainIs
    <3>2. i \in ChangedTo(c) \cup LinksTo(c)
      BY SubjectIs DEF ChangedTo, LinksTo, Drawn
    <3>3. Tally(model, Healths, Changes).change[c] > 0
      BY <3>1, <3>2, ChangesCount, SomeCount
    <3>4. ~Proved => <<"change", c>> \in CompareSection
      BY <1>2, <3>1, <3>3 DEF CompareSection, Proved
    <3>6. Proved => c = "unchanged"
      <4>1. model \in Models
        BY InvIs
      <4> QED
        BY <4>1, SubjectIs, ModelsAssumption DEF Proved, Drawn
    <3>5. ColourOf(<<"change", c>>) = {<<"change", c>>}
      BY DEF ColourOf
    <3> QED
      BY <3>1, <3>4, <3>5, <3>6
  <2> QED
    BY <2>1, <2>2, <2>3
<1>3. CASE Legend \in Overlays /\ model.mode = "single" /\ Drawing = Legend
  <2>1. Swatches = RampSection
    BY <1>3 DEF Swatches, Overlays
  <2>2. Drawing # None
    BY <1>3, Kinds
  <2>3. ASSUME NEW sw \in RampSection PROVE Selects(sw)
    <3>1. sw \in {<<"bin", k>> : k \in 0 .. BinCount - 1} \cup {<<"untrusted", TRUE>>}
      BY DEF RampSection
    <3> QED
      BY <2>2, <3>1, RampSelects
  <2>4. ASSUME ~Current.unmeasured, NEW i \in Drawn(model)
        PROVE  \E sw \in RampSection : painted[i] \in ColourOf(sw)
    <3>1. Measured
      BY <2>2, <2>4, MeasuredIs
    <3>2. /\ painted[i] = IF IsGrey(i) THEN Untrusted ELSE <<Drawing, BinOf(i)>>
          /\ BinOf(i) \in 0 .. BinCount - 1 \cup {None} /\ BinOf(i) # None
      BY <2>2, <3>1, RampIs
    <3>3. CASE IsGrey(i)
      <4>1. Current.untrusted # {}
        BY <3>2, <3>3 DEF IsGrey
      <4>2. <<"untrusted", TRUE>> \in RampSection
        BY <2>4, <4>1 DEF RampSection
      <4>3. ColourOf(<<"untrusted", TRUE>>) = {Untrusted}
        BY DEF ColourOf
      <4> QED
        BY <3>2, <3>3, <4>2, <4>3
    <3>4. CASE ~IsGrey(i)
      <4>1. <<"bin", BinOf(i)>> \in RampSection
        BY <2>4, <3>2 DEF RampSection
      <4>2. ColourOf(<<"bin", BinOf(i)>>) = {<<Drawing, BinOf(i)>>}
        BY DEF ColourOf
      <4> QED
        BY <3>2, <3>4, <4>1, <4>2
    <3> QED
      BY <3>3, <3>4
  <2> QED
    BY <1>3, <2>1, <2>2, <2>3, <2>4 DEF Proved, Overlays
<1> QED
  BY <1>1, <1>2, <1>3, LegendMatches

LEMMA CountsAre ==
  ASSUME OverlayInv
  PROVE  LegendCounts
<1> DEFINE tally == Tally(model, Healths, Changes)
           HealthCounts == \A h \in Healths :
             tally.health[h] = Cardinality({l \in DOMAIN model.links : painted[l] = <<"health", h>>})
           ChangeCounts == \A c \in Changes :
             tally.change[c] = Cardinality({i \in DOMAIN painted : painted[i] = <<"change", c>>})
           RampCounts == \A k \in 0 .. BinCount - 1 :
             /\ Hist(k) >= Cardinality({l \in DOMAIN model.links : painted[l] = <<Drawing, k>>})
             /\ Cardinality({l \in DOMAIN model.links : painted[l] = Untrusted}) = 0 =>
                  Hist(k) = Cardinality({l \in DOMAIN model.links : painted[l] = <<Drawing, k>>})
<1> SUFFICES ASSUME Legend = Mask(mode, view)
             PROVE  CASE Legend = "health" -> HealthCounts
                      [] Legend = "change" -> ~Proved => ChangeCounts
                      [] OTHER             -> ~Current.unmeasured => RampCounts
  BY DEF LegendCounts
<1>0. DOMAIN model.links \subseteq Drawn(model)
  BY DEF Drawn
<1>1. ASSUME Legend = "health", model.mode = "single", Drawing = None PROVE HealthCounts
  <2>1. ASSUME NEW h, NEW l \in DOMAIN model.links
        PROVE  painted[l] = <<"health", h>> <=> model.links[l].el.health = h
    <3>1. /\ l \in DOMAIN painted /\ Subject(l) = model.links[l]
          /\ Base(model, l) = <<"health", Subject(l).el.health>>
      BY <1>0, <1>1, SubjectIs
    <3>2. painted[l] = <<"health", model.links[l].el.health>>
      BY <1>1, <3>1, PlainIs
    <3> QED
      BY <3>2
  <2>2. \A h : {l \in DOMAIN model.links : painted[l] = <<"health", h>>} =
               {l \in DOMAIN model.links : model.links[l].el.health = h}
    BY <2>1
  <2> SUFFICES ASSUME NEW h \in Healths
               PROVE  tally.health[h] =
                        Cardinality({l \in DOMAIN model.links : painted[l] = <<"health", h>>})
    OBVIOUS
  <2>3. tally.health[h] = Cardinality({l \in DOMAIN model.links : model.links[l].el.health = h})
    BY TallyIs
  <2> QED
    BY <2>2, <2>3
<1>2. ASSUME Legend = "change", model.mode = "compare", Drawing = None PROVE ChangeCounts
  <2> SUFFICES ASSUME NEW c \in Changes
               PROVE  tally.change[c] = Cardinality({i \in DOMAIN painted : painted[i] = <<"change", c>>})
    OBVIOUS
  <2>1. ASSUME NEW i \in Drawn(model)
        PROVE  i \in DOMAIN painted /\ (painted[i] = <<"change", c>> <=> i \in ChangedTo(c) \cup LinksTo(c))
    <3>1. i \in DOMAIN painted /\ Base(model, i) = <<"change", Subject(i).change>>
      BY <1>2, SubjectIs
    <3>2. painted[i] = <<"change", Subject(i).change>>
      BY <1>2, <3>1, PlainIs
    <3>3. /\ i \in DOMAIN model.links => Subject(i) = model.links[i]
          /\ i \in DOMAIN model.nodes => Subject(i) = model.nodes[i]
      BY SubjectIs
    <3>4. i \in ChangedTo(c) \cup LinksTo(c) <=> Subject(i).change = c
      BY <3>3 DEF ChangedTo, LinksTo, Drawn
    <3> QED
      BY <3>1, <3>2, <3>4
  <2>2. ASSUME NEW i \in DOMAIN painted, i \notin Drawn(model) PROVE painted[i] # <<"change", c>>
    <3>1. painted[i] = <<"box">>
      BY <2>2, DrawnOrBox
    <3> QED
      BY <3>1
  <2>3. ChangedTo(c) \cup LinksTo(c) \subseteq Drawn(model)
    BY DEF ChangedTo, LinksTo, Drawn
  <2>4. {i \in DOMAIN painted : painted[i] = <<"change", c>>} = ChangedTo(c) \cup LinksTo(c)
    BY <2>1, <2>2, <2>3
  <2> QED
    BY <2>4, ChangesCount
<1>3. ASSUME Legend \in Overlays, Drawing = Legend, ~Current.unmeasured PROVE RampCounts
  <2> SUFFICES ASSUME NEW k \in 0 .. BinCount - 1
               PROVE  /\ Hist(k) >= Cardinality({l \in DOMAIN model.links : painted[l] = <<Drawing, k>>})
                      /\ Cardinality({l \in DOMAIN model.links : painted[l] = Untrusted}) = 0 =>
                           Hist(k) = Cardinality({l \in DOMAIN model.links : painted[l] = <<Drawing, k>>})
    OBVIOUS
  <2> DEFINE counted == {l \in DOMAIN Current.links : Bin(Drawing, Current.links[l], SpanOf(errors)) = k}
             coloured == {l \in DOMAIN model.links : painted[l] = <<Drawing, k>>}
             grey == {l \in DOMAIN model.links : painted[l] = Untrusted}
  <2>1. Drawing # None /\ Measured
    <3>1. Drawing # None
      BY <1>3, Kinds
    <3> QED
      BY <1>3, <3>1, MeasuredIs
  <2>2. DOMAIN Current.links = DOMAIN model.links /\ DOMAIN Current.nodes = DOMAIN model.nodes
    <3>1. IsValues(Current, model)
      BY <2>1, AnswerIs, InvIs, ValuesAre DEF Totals, Current, Drawing
    <3> QED
      BY <3>1 DEF IsValues
  <2>3. ASSUME NEW l \in DOMAIN model.links
        PROVE  /\ l \in counted <=> BinOf(l) = k
               /\ painted[l] = IF IsGrey(l) THEN Untrusted ELSE <<Drawing, BinOf(l)>>
    <3>1. l \notin DOMAIN model.nodes
      BY InvIs, ElementsAre, ModelIs
    <3>2. ValueOf(Current, l) = Current.links[l]
      BY <2>2, <3>1 DEF ValueOf
    <3>3. painted[l] = IF IsGrey(l) THEN Untrusted ELSE <<Drawing, BinOf(l)>>
      BY <1>0, <2>1, RampIs
    <3> QED
      BY <2>2, <3>2, <3>3 DEF BinOf
  <2>4. IsFiniteSet(DOMAIN model.links)
    BY InvIs, ModelIs
  <2>5. counted \subseteq DOMAIN model.links /\ coloured \subseteq DOMAIN model.links /\ grey \subseteq DOMAIN model.links
    BY <2>2
  <2> HIDE DEF counted
  <2>6. \A x : <<Drawing, x>> # Untrusted
    BY DEF Untrusted
  <2>7. ASSUME NEW l \in DOMAIN model.links PROVE l \in coloured <=> l \in counted /\ l \notin grey
    <3>1. l \in coloured <=> painted[l] = <<Drawing, k>>
      OBVIOUS
    <3>2. l \in grey <=> painted[l] = Untrusted
      OBVIOUS
    <3>3. <<Drawing, BinOf(l)>> = <<Drawing, k>> <=> BinOf(l) = k
      OBVIOUS
    <3> HIDE DEF coloured, grey
    <3>4. CASE IsGrey(l)
      BY <2>3, <2>6, <3>1, <3>2, <3>4
    <3>5. CASE ~IsGrey(l)
      BY <2>3, <2>6, <3>1, <3>2, <3>3, <3>5
    <3> QED
      BY <3>4, <3>5
  <2> HIDE DEF coloured, grey
  <2>8. coloured \subseteq counted /\ (grey = {} => coloured = counted)
    BY <2>5, <2>7
  <2>9. /\ IsFiniteSet(counted) /\ IsFiniteSet(grey)
        /\ Cardinality(coloured) <= Cardinality(counted)
        /\ Cardinality(counted) \in Nat /\ Cardinality(coloured) \in Nat
    <3>1. IsFiniteSet(counted) /\ IsFiniteSet(grey) /\ IsFiniteSet(coloured)
      BY <2>4, <2>5, FS_Subset
    <3>2. coloured \in SUBSET counted
      BY <2>8
    <3> QED
      BY <3>1, <3>2, FS_Subset, FS_CardinalityType
  <2>10. Cardinality(grey) = 0 => grey = {}
    BY <2>9, FS_EmptySet
  <2>11. Hist(k) = Cardinality(counted)
    BY DEF Hist, counted
  <2> QED
    BY <2>8, <2>9, <2>10, <2>11 DEF coloured, grey
<1> HIDE DEF HealthCounts, ChangeCounts, RampCounts
<1> QED
  BY <1>1, <1>2, <1>3, LegendMatches DEF Overlays

-----------------------------------------------------------------------------
(* The theorems. *)

\* Whatever order the models, the answers, the masks, the modes and the clock
\* come in, what is written on the elements is what they now ask for, and no
\* element keeps a colour of what was written before (App.tsx effect of
\* graphGen, applyOverlay); or the page is blank, and its address names a
\* window that every object has (view/mask.ts isWindowKey, App.tsx since).
THEOREM OverlayInvariant == Spec => []PageInv
<1>1. Init => PageInv
  BY InitInv DEF PageInv
<1>2. PageInv /\ [Next]_vars => PageInv'
  BY NextInv
<1> QED
  BY <1>1, <1>2, PTL DEF Spec

\* A colour of a ramp is the bin of the figure of the rows on screen, rolled up
\* as the view asks; an element is grey if nothing was measured or a row of it
\* is dubious, and in no other case; a selected counter that a port of it
\* cannot report leaves it grey or is named by the legend, unless the port was
\* read and has nothing else to say; with the overlay off every element is in
\* the colour of its health or change again (cy/overlay.ts, model/counters.ts,
\* queries/counters.py assemble).
THEOREM ColoursTell == Spec => []ColoursAreTrue
<1>1. PageInv => ColoursAreTrue
  BY ColoursAre
<1> QED
  BY <1>1, OverlayInvariant, PTL

\* A swatch of the legend selects the elements of its colour, and bin 0 the grey
\* too; every change and every reading drawn has its swatch, except that a
\* comparison proved empty has none, and is drawn in one colour; and the numbers
\* of a legend are those of the elements drawn in the colour (selection.ts
\* addMaskToSelection, CountersPanel and TrafficPanel hist, Toolbar
\* CompareSection and counts).
THEOREM LegendsCount == Spec => []LegendsAgree
<1>1. PageInv => LegendsAgree
  BY SwatchesAre, CountsAre DEF LegendsAgree, PageInv, BlankInv
<1> QED
  BY <1>1, OverlayInvariant, PTL

\* The address carries the view on screen, for any address the page was opened
\* with, names of every object included, unless its list names a counter twice:
\* then the counters may be lost.  The counter window of a pinned instant is as
\* long as the view says, a live one at least that long; without a window the
\* page is blank (view/url.ts, view/mask.ts isWindowKey, App.tsx since).
THEOREM ViewIsKept == Spec => []ViewHolds
<1>1. PageInv => ViewHolds
  BY ViewIs
<1> QED
  BY <1>1, OverlayInvariant, PTL
=============================================================================
