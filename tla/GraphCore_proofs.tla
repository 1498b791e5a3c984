--------------------------- MODULE GraphCore_proofs ---------------------------
(***************************************************************************)
(* Theorems about the live graph, for any fabric, models, layouts, filters *)
(* and order of sweeps, folds, slides, drags and taps.                     *)
(*                                                                         *)
(* The invariant is one of the core and the slides in flight.  What makes  *)
(* it inductive is where the scratch of a leaf leads: to a switch that has *)
(* the leaf on its list, or to one that it is sliding out of.              *)
(***************************************************************************)
EXTENDS GraphCore, WellFoundedInduction, FiniteSetTheorems, SequenceTheorems, TLAPS

Items  == Nodes \cup Links \cup Groups
Heads  == {s \in Nodes : Kind[s] = "switch"}
Leaves == Nodes \ Heads

-----------------------------------------------------------------------------
(* Lists of ids. *)

\* A set of naturals with 0 and the successor of each of its members is Nat.
LEMMA Reached ==
  ASSUME NEW n \in Nat, NEW P, 0 \in P, \A k \in 0 .. n : k \in P => k + 1 \in P
  PROVE  n \in P
<1> SUFFICES ASSUME n \notin P
             PROVE  FALSE
  OBVIOUS
<1> DEFINE R == OpToRel(<, Nat)
           S == {k \in 0 .. n : k \notin P}
<1>1. IsWellFoundedOn(R, Nat)
  BY NatLessThanWellFounded
<1>2. \A x, y \in Nat : <<y, x>> \in R <=> y < x
  BY DEF OpToRel
<1> HIDE DEF R
<1>3. S \subseteq Nat /\ S # {}
  OBVIOUS
<1>4. PICK m \in S : \A k \in S : ~ (<<k, m>> \in R)
  BY <1>1, <1>3, WFMin
<1>5. m # 0 /\ m - 1 \in 0 .. n /\ m - 1 < m /\ m = (m - 1) + 1 /\ m - 1 \in Nat /\ m \in Nat
  BY <1>4
<1>6. m - 1 \in S
  BY <1>5, <1>4
<1> QED
  BY <1>2, <1>4, <1>5, <1>6

\* The values of the recursion.
FilteredBy(f, list, S) ==
  /\ f[0] = <<>>
  /\ \A k \in 1 .. Len(list) :
       /\ list[k] \in S => f[k] = Append(f[k - 1], list[k])
       /\ list[k] \notin S => f[k] = f[k - 1]
  /\ Filtered(list, S) = f[Len(list)]

\* The recursion has them: were n the least length without, n - 1 would have.
LEMMA FilterSteps ==
  ASSUME NEW T, NEW list \in Seq(T), NEW S
  PROVE  \E f : FilteredBy(f, list, S)
<1> DEFINE E(f, k) == IF k = 0 THEN <<>>
                      ELSE IF list[k] \in S THEN Append(f[k - 1], list[k]) ELSE f[k - 1]
           Rec(f, n) == f = [k \in 0 .. n |-> E(f, k)]
           P == {n \in Nat : \E f : Rec(f, n)}
           F == CHOOSE f : Rec(f, Len(list))
<1>1. ASSUME NEW f, NEW n \in Nat, Rec(f, n), NEW k \in 0 .. n PROVE f[k] = E(f, k)
  <2> HIDE DEF E
  <2> QED
    BY <1>1
<1>2. 0 \in P
  <2>1. E([k \in 0 .. 0 |-> <<>>], 0) = <<>>
    OBVIOUS
  <2>2. Rec([k \in 0 .. 0 |-> <<>>], 0)
    <3> HIDE DEF E
    <3> QED
      BY <2>1
  <2> QED
    BY <2>2
<1>3. ASSUME NEW n \in Nat, n \in P PROVE n + 1 \in P
  <2>1. PICK f : Rec(f, n)
    BY <1>3
  <2> DEFINE g == [k \in 0 .. n + 1 |-> IF k = n + 1 THEN E(f, n + 1) ELSE f[k]]
  <2>2. ASSUME NEW k \in 0 .. n + 1 PROVE g[k] = E(g, k)
    <3>1. k # 0 => k - 1 \in 0 .. n /\ g[k - 1] = f[k - 1]
      OBVIOUS
    <3>2. E(g, k) = E(f, k)
      BY <3>1
    <3>3. k # n + 1 => k \in 0 .. n
      OBVIOUS
    <3> HIDE DEF E, Rec
    <3>4. k # n + 1 => f[k] = E(f, k)
      BY <1>1, <2>1, <3>3
    <3> QED
      BY <3>2, <3>4
  <2>3. Rec(g, n + 1)
    <3> HIDE DEF E
    <3> QED
      BY <2>2
  <2> HIDE DEF Rec
  <2> QED
    BY <2>3
<1>4. Len(list) \in P
  <2> HIDE DEF P
  <2> QED
    BY <1>2, <1>3, Reached
<1>5. Rec(F, Len(list))
  <2> HIDE DEF Rec
  <2> QED
    BY <1>4
<1>6. Filtered(list, S) = F[Len(list)]
  BY DEF Filtered
<1>7. ASSUME NEW k \in 0 .. Len(list) PROVE F[k] = E(F, k)
  <2> HIDE DEF F, E, Rec
  <2> QED
    BY <1>1, <1>5
<1> HIDE DEF F
<1>8. F[0] = <<>>
  <2>1. 0 \in 0 .. Len(list)
    OBVIOUS
  <2> QED
    BY <1>7, <2>1
<1>9. ASSUME NEW k \in 1 .. Len(list)
      PROVE  F[k] = IF list[k] \in S THEN Append(F[k - 1], list[k]) ELSE F[k - 1]
  <2>1. k \in 0 .. Len(list) /\ k # 0
    OBVIOUS
  <2> QED
    BY <1>7, <2>1
<1>10. FilteredBy(F, list, S)
  BY <1>6, <1>8, <1>9, Zenon DEF FilteredBy
<1> QED
  BY <1>10

Once(s) == \A i, j \in 1 .. Len(s) : s[i] = s[j] => i = j

\* What is listed in t is what s lists of a set.
IsCut(t, s, S) ==
  /\ \A i \in 1 .. Len(t) : \E j \in 1 .. Len(s) : s[j] \in S /\ t[i] = s[j]
  /\ \A j \in 1 .. Len(s) : s[j] \in S => \E i \in 1 .. Len(t) : t[i] = s[j]

\* The elements kept are those of the set, in number and, if they were, once.
LEMMA FilterIs ==
  ASSUME NEW T, NEW list \in Seq(T), NEW S
  PROVE  /\ Filtered(list, S) \in Seq(T)
         /\ IsCut(Filtered(list, S), list, S)
         /\ Len(Filtered(list, S)) = Cardinality({i \in 1 .. Len(list) : list[i] \in S})
         /\ Once(list) => Once(Filtered(list, S))
<1>1. PICK f : FilteredBy(f, list, S)
  BY FilterSteps
<1> DEFINE Of(k)  == {i \in 1 .. k : list[i] \in S}
           Good(k) == /\ f[k] \in Seq(T)
                      /\ \A i \in 1 .. Len(f[k]) : \E j \in Of(k) : f[k][i] = list[j]
                      /\ \A j \in Of(k) : \E i \in 1 .. Len(f[k]) : f[k][i] = list[j]
                      /\ IsFiniteSet(Of(k)) /\ Len(f[k]) = Cardinality(Of(k))
                      /\ Once(list) => Once(f[k])
           P == {k \in 0 .. Len(list) : Good(k)}
<1>2. 0 \in P
  <2>1. Of(0) = {}
    OBVIOUS
  <2>2. f[0] = <<>>
    BY <1>1 DEF FilteredBy
  <2>3. f[0] \in Seq(T) /\ Len(f[0]) = 0 /\ Once(f[0])
    BY <2>2 DEF Once
  <2>4. IsFiniteSet(Of(0)) /\ Cardinality(Of(0)) = 0
    BY <2>1, FS_EmptySet
  <2> HIDE DEF Of
  <2>5. Good(0)
    BY <2>1, <2>3, <2>4
  <2> QED
    BY <2>5
<1>3. ASSUME NEW k \in 0 .. Len(list), k \in P PROVE k + 1 \in P \/ k = Len(list)
  <2> SUFFICES ASSUME k # Len(list) PROVE Good(k + 1)
    OBVIOUS
  <2>g. Good(k)
    BY <1>3
  <2>1. k \in Nat /\ k + 1 \in 1 .. Len(list) /\ (k + 1) - 1 = k /\ list[k + 1] \in T
    OBVIOUS
  <2>2. CASE list[k + 1] \in S
    <3>1. f[k + 1] = Append(f[k], list[k + 1])
      BY <1>1, <2>1, <2>2 DEF FilteredBy
    <3>2. Of(k + 1) = Of(k) \cup {k + 1} /\ k + 1 \notin Of(k)
      BY <2>1, <2>2
    <3>3. IsFiniteSet(Of(k + 1)) /\ Cardinality(Of(k + 1)) = Cardinality(Of(k)) + 1
      <4> HIDE DEF Of
      <4> QED
        BY <2>g, <3>2, FS_AddElement
    <3>4. /\ f[k + 1] \in Seq(T) /\ Len(f[k + 1]) = Len(f[k]) + 1 /\ Len(f[k]) \in Nat
          /\ \A i \in 1 .. Len(f[k]) : f[k + 1][i] = f[k][i]
          /\ f[k + 1][Len(f[k]) + 1] = list[k + 1]
      BY <1>3, <2>1, <3>1
    <3> HIDE DEF Of
    <3>5. \A i \in 1 .. Len(f[k]) : \E j \in Of(k) : f[k][i] = list[j]
      BY <1>3
    <3>6. \A j \in Of(k) : \E i \in 1 .. Len(f[k]) : f[k][i] = list[j]
      BY <1>3
    <3>7. \A i \in 1 .. Len(f[k + 1]) : i \in 1 .. Len(f[k]) \/ i = Len(f[k]) + 1
      BY <3>4
    <3>8. \A i \in 1 .. Len(f[k + 1]) : \E j \in Of(k + 1) : f[k + 1][i] = list[j]
      BY <3>2, <3>4, <3>5, <3>7
    <3>9. \A j \in Of(k + 1) : \E i \in 1 .. Len(f[k + 1]) : f[k + 1][i] = list[j]
      BY <3>2, <3>4, <3>6
    <3>10. Once(list) => Once(f[k + 1])
      <4> SUFFICES ASSUME Once(list) PROVE Once(f[k + 1])
        OBVIOUS
      <4>1. \A i \in 1 .. Len(f[k]) : f[k][i] # list[k + 1]
        <5> SUFFICES ASSUME NEW i \in 1 .. Len(f[k]), f[k][i] = list[k + 1] PROVE FALSE
          OBVIOUS
        <5>1. PICK j \in Of(k) : f[k][i] = list[j]
          BY <3>5
        <5>2. j \in 1 .. k
          BY DEF Of
        <5>3. j # k + 1 /\ j \in 1 .. Len(list) /\ list[j] = list[k + 1]
          BY <2>1, <5>1, <5>2
        <5> QED
          BY <2>1, <5>3 DEF Once
      <4> QED
        BY <2>g, <3>4, <3>7, <4>1 DEF Once
    <3> QED
      BY <2>g, <3>3, <3>4, <3>8, <3>9, <3>10
  <2>3. CASE list[k + 1] \notin S
    <3>1. f[k + 1] = f[k]
      BY <1>1, <2>1, <2>3 DEF FilteredBy
    <3>2. Of(k + 1) = Of(k)
      BY <2>1, <2>3
    <3> HIDE DEF Of
    <3> QED
      BY <2>g, <3>1, <3>2
  <2> QED
    BY <2>2, <2>3
<1>4. Len(list) \in P
  <2> DEFINE Q == P \cup {k \in Nat : k > Len(list)}
  <2>1. \A k \in 0 .. Len(list) : k \in Q => k + 1 \in Q
    <3> HIDE DEF P
    <3>1. ASSUME NEW k \in 0 .. Len(list), k \in Q PROVE k + 1 \in Q
      <4>1. k \in P
        BY <3>1
      <4>2. k = Len(list) => k + 1 \in Q
        OBVIOUS
      <4> QED
        BY <1>3, <4>1, <4>2
    <3> QED
      BY <3>1
  <2>2. Len(list) \in Q
    <3> HIDE DEF P
    <3>1. 0 \in Q /\ Len(list) \in Nat
      BY <1>2
    <3> HIDE DEF Q
    <3> QED
      BY <2>1, <3>1, Reached
  <2> HIDE DEF P
  <2> QED
    BY <2>2
<1>5. Good(Len(list)) /\ f[Len(list)] = Filtered(list, S)
  <2> HIDE DEF Good
  <2> QED
    BY <1>1, <1>4 DEF FilteredBy
<1>c. IsCut(Filtered(list, S), list, S)
  BY <1>5 DEF IsCut
<1>6. Filtered(list, S) \in Seq(T) /\ DOMAIN Filtered(list, S) = 1 .. Len(Filtered(list, S))
  BY <1>5
<1> QED
  BY <1>5, <1>6, <1>c

\* A list of items, each once.
IsList(s) == s \in Seq(Items) /\ Once(s)

LEMMA CountUpTo ==
  ASSUME NEW n \in Nat
  PROVE  IsFiniteSet(1 .. n) /\ Cardinality(1 .. n) = n
<1>1. CASE n = 0
  <2>1. 1 .. n = {}
    BY <1>1
  <2> QED
    BY <1>1, <2>1, FS_EmptySet
<1>2. CASE n # 0
  <2>1. 1 \in Int /\ n \in Int /\ ~(1 > n) /\ n - 1 + 1 = n
    BY <1>2
  <2> QED
    BY <2>1, FS_Interval
<1> QED
  BY <1>1, <1>2

LEMMA ToSetOf ==
  ASSUME NEW T, NEW s \in Seq(T)
  PROVE  /\ Len(s) \in Nat /\ DOMAIN s = 1 .. Len(s)
         /\ \A i : i \in ToSet(s) <=> \E k \in 1 .. Len(s) : s[k] = i
         /\ ToSet(s) \subseteq T
BY DEF ToSet

\* Cut down, a list lists what it did of the set, each item once.
LEMMA FilteredCount ==
  ASSUME NEW s, IsList(s), NEW S
  PROVE  /\ IsList(Filtered(s, S))
         /\ ToSet(Filtered(s, S)) = ToSet(s) \cap S
         /\ Len(Filtered(s, S)) = Cardinality({k \in 1 .. Len(s) : s[k] \in S})
         /\ Len(Filtered(s, S)) <= Len(s)
<1> DEFINE t == Filtered(s, S)
           K == {k \in 1 .. Len(s) : s[k] \in S}
<1>1. /\ t \in Seq(Items)
      /\ \A i \in 1 .. Len(t) : \E j \in 1 .. Len(s) : s[j] \in S /\ t[i] = s[j]
      /\ \A j \in 1 .. Len(s) : s[j] \in S => \E i \in 1 .. Len(t) : t[i] = s[j]
      /\ Len(t) = Cardinality(K)
      /\ Once(t)
  <2> HIDE DEF K
  <2>1. s \in Seq(Items) /\ Once(s)
    BY DEF IsList
  <2>2. /\ t \in Seq(Items) /\ (Once(s) => Once(t))
        /\ Len(t) = Cardinality({i \in 1 .. Len(s) : s[i] \in S})
    BY <2>1, FilterIs
  <2>3. IsCut(t, s, S)
    BY <2>1, FilterIs
  <2> QED
    BY <2>1, <2>2, <2>3 DEF K, IsCut
<1>2. Len(s) \in Nat
  BY ToSetOf DEF IsList
<1>3. IsFiniteSet(1 .. Len(s)) /\ Cardinality(1 .. Len(s)) = Len(s)
  <2> HIDE DEF t, K
  <2> QED
    BY <1>2, CountUpTo
<1>4. Cardinality(K) <= Len(s)
  BY <1>3, FS_Subset
<1> HIDE DEF t, K
<1>5. ASSUME NEW i PROVE i \in ToSet(t) <=> i \in ToSet(s) \cap S
  <2>1. i \in ToSet(t) <=> \E k \in 1 .. Len(t) : t[k] = i
    BY <1>1, ToSetOf
  <2>2. i \in ToSet(s) <=> \E k \in 1 .. Len(s) : s[k] = i
    BY ToSetOf DEF IsList
  <2> QED
    BY <1>1, <2>1, <2>2
<1> QED
  BY <1>1, <1>4, <1>5 DEF IsList, t, K

LEMMA FilteredList ==
  ASSUME NEW s, IsList(s), NEW S
  PROVE  /\ IsList(Filtered(s, S))
         /\ ToSet(Filtered(s, S)) = ToSet(s) \cap S
         /\ Len(Filtered(s, S)) <= Len(s)
BY FilteredCount

\* A list has as many places as items.
LEMMA AsManyItems ==
  ASSUME NEW s, IsList(s)
  PROVE  IsFiniteSet(ToSet(s)) /\ Cardinality(ToSet(s)) = Len(s)
<1> DEFINE f == [k \in 1 .. Len(s) |-> s[k]]
<1>1. Len(s) \in Nat /\ \A i : i \in ToSet(s) <=> \E k \in 1 .. Len(s) : s[k] = i
  BY ToSetOf DEF IsList
<1>2. f \in Bijection(1 .. Len(s), ToSet(s))
  <2>1. f \in [1 .. Len(s) -> ToSet(s)]
    BY <1>1
  <2>2. \A j, k \in 1 .. Len(s) : f[j] = f[k] => j = k
    BY DEF IsList, Once
  <2>3. \A i \in ToSet(s) : \E k \in 1 .. Len(s) : f[k] = i
    BY <1>1
  <2> HIDE DEF f
  <2> QED
    BY <2>1, <2>2, <2>3 DEF Bijection, Injection, Surjection, IsInjective
<1> HIDE DEF f
<1>3. IsFiniteSet(1 .. Len(s)) /\ Cardinality(1 .. Len(s)) = Len(s)
  BY <1>1, CountUpTo
<1> QED
  BY <1>2, <1>3, FS_Bijection, FS_SameCardinalityBij DEF ExistsBijection

\* Two lists with nothing in common follow each other.
LEMMA JoinedLists ==
  ASSUME NEW s, IsList(s), NEW t, IsList(t), ToSet(s) \cap ToSet(t) = {}
  PROVE  /\ IsList(s \o t)
         /\ ToSet(s \o t) = ToSet(s) \cup ToSet(t)
         /\ Len(s \o t) = Len(s) + Len(t)
<1>1. /\ s \o t \in Seq(Items) /\ Len(s \o t) = Len(s) + Len(t)
      /\ \A k \in 1 .. Len(s) : (s \o t)[k] = s[k]
      /\ \A k \in 1 .. Len(t) : (s \o t)[Len(s) + k] = t[k]
      /\ Len(s) \in Nat /\ Len(t) \in Nat
  BY DEF IsList
<1> DEFINE u == s \o t
<1>2. /\ \A i : i \in ToSet(s) <=> \E k \in 1 .. Len(s) : s[k] = i
      /\ \A i : i \in ToSet(t) <=> \E k \in 1 .. Len(t) : t[k] = i
      /\ \A i : i \in ToSet(u) <=> \E k \in 1 .. Len(u) : u[k] = i
  BY <1>1, ToSetOf DEF IsList
<1> HIDE DEF u
<1>3. \A k \in 1 .. Len(u) : \/ k \in 1 .. Len(s) /\ u[k] = s[k]
                             \/ \E j \in 1 .. Len(t) : k = Len(s) + j /\ u[k] = t[j]
  <2> SUFFICES ASSUME NEW k \in 1 .. Len(u), k \notin 1 .. Len(s)
               PROVE  \E j \in 1 .. Len(t) : k = Len(s) + j /\ u[k] = t[j]
    BY <1>1 DEF u
  <2>1. k - Len(s) \in 1 .. Len(t) /\ k = Len(s) + (k - Len(s))
    BY <1>1 DEF u
  <2> QED
    BY <1>1, <2>1 DEF u
<1>4. \A i : i \in ToSet(u) <=> i \in ToSet(s) \cup ToSet(t)
  <2>1. \A k \in 1 .. Len(s) : k \in 1 .. Len(u) /\ u[k] = s[k]
    BY <1>1 DEF u
  <2>2. \A k \in 1 .. Len(t) : Len(s) + k \in 1 .. Len(u) /\ u[Len(s) + k] = t[k]
    BY <1>1 DEF u
  <2>3. ASSUME NEW i, i \in ToSet(u) PROVE i \in ToSet(s) \cup ToSet(t)
    <3>1. PICK k \in 1 .. Len(u) : u[k] = i
      BY <1>2, <2>3
    <3> QED
      BY <1>2, <1>3, <3>1
  <2>4. ASSUME NEW i, i \in ToSet(s) PROVE i \in ToSet(u)
    BY <1>2, <2>1, <2>4
  <2>5. ASSUME NEW i, i \in ToSet(t) PROVE i \in ToSet(u)
    BY <1>2, <2>2, <2>5
  <2> QED
    BY <2>3, <2>4, <2>5
<1>5. Once(u)
  <2> SUFFICES ASSUME NEW j \in 1 .. Len(u), NEW k \in 1 .. Len(u), u[j] = u[k]
               PROVE  j = k
    BY DEF Once
  <2>1. CASE j \in 1 .. Len(s) /\ k \in 1 .. Len(s) /\ u[j] = s[j] /\ u[k] = s[k]
    BY <2>1 DEF IsList, Once
  <2>2. ASSUME NEW p \in 1 .. Len(t), NEW q \in 1 .. Len(t),
               j = Len(s) + p, k = Len(s) + q, u[j] = t[p], u[k] = t[q]
        PROVE  j = k
    BY <2>2 DEF IsList, Once
  <2>3. \A x \in 1 .. Len(s), y \in 1 .. Len(t) : s[x] # t[y]
    BY <1>2
  <2> QED
    BY <1>3, <2>1, <2>2, <2>3
<1> QED
  BY <1>1, <1>4, <1>5 DEF IsList, u

-----------------------------------------------------------------------------
(* The invariant. *)

\* The core is a record of its parts, and has classes on what is in it only.
Typed(g) ==
  g \in [els : {g.els}, pos : [Nodes -> Pos],
         leaf : [Nodes -> [under : Heads, off : Pos] \cup {None}],
         fold : [Nodes -> (SUBSET Leaves) \cup {None}],
         collapsed : SUBSET In(g), hidden : SUBSET In(g),
         faded : SUBSET In(g), receded : SUBSET In(g), selected : SUBSET In(g)]

\* Scratch is of leaves and of switches that are in.
Scratched(g) ==
  \A n \in Nodes : /\ g.leaf[n] # None => n \in Drawn(g) \cap Leaves
                   /\ g.fold[n] # None => n \in Switches(g)

\* A box that is in has a member, and what is in a box is in a group's.
Framed(g) ==
  /\ In(g) \subseteq Items
  /\ \A n \in Drawn(g) : g.els[n].parent \in Groups \cup {None}
  /\ \A b \in In(g) \cap Groups : IsParent(g, b)

\* BoxFrames and HiddenHasOwner of any core.
Boxed(g) ==
  \A b \in In(g) \cap Groups : b \in g.collapsed <=> Children(g, b) \subseteq OffScreen(g)

Owned(g) ==
  \A l \in g.collapsed \cap Nodes : \E s \in Switches(g) : l \in Followers(g, s)

\* Animations, and those that are of a core.
Slide == [into : BOOLEAN, sw : Nodes, alive : BOOLEAN,
          land : UNION {[S -> Pos] : S \in SUBSET Nodes}, edges : SUBSET Links]

SlideFits(g, s) ==
  /\ DOMAIN s.land \subseteq Drawn(g) /\ s.edges \subseteq In(g)
  /\ s.alive => s.sw \in Switches(g)
  /\ s.into /\ s.alive /\ g.fold[s.sw] # None => DOMAIN s.land \subseteq g.fold[s.sw]

AllFit(g, sl) == \A k \in 1 .. Len(sl) : SlideFits(g, sl[k])

\* Scratch of a leaf is of the switch that lists it, or of one it slides from.
Tracked(g, sl) ==
  \A n \in Nodes : g.leaf[n] # None =>
    \/ n \in Followers(g, g.leaf[n].under)
    \/ \E k \in 1 .. Len(sl) : ~sl[k].into /\ n \in DOMAIN sl[k].land

Sound(g) == Typed(g) /\ Scratched(g) /\ Framed(g)

\* A core with its slides, within a step and between two.
Loose(g, sl) ==
  /\ Sound(g) /\ Owned(g)
  /\ sl \in Seq(Slide) /\ AllFit(g, sl) /\ Tracked(g, sl)

Whole(g, sl) ==
  /\ Sound(g) /\ Boxed(g) /\ Owned(g)
  /\ sl \in Seq(Slide) /\ AllFit(g, sl) /\ Tracked(g, sl)

-----------------------------------------------------------------------------
(* The parts of a core. *)

\* What folds, slides and drags leave as it is.
Kept(g, h) ==
  /\ h.els = g.els /\ h.hidden = g.hidden /\ h.faded = g.faded
  /\ h.receded = g.receded /\ h.selected = g.selected

LEMMA Kinds ==
  /\ Nodes \cap Links = {} /\ Groups \cap (Nodes \cup Links) = {} /\ None \notin Items
  /\ \A n \in Nodes : n \in Heads <=> Kind[n] = "switch"
  /\ \A n \in Nodes : n \in Leaves <=> Kind[n] = "ca"
  /\ Heads \subseteq Nodes /\ Leaves \subseteq Nodes /\ Heads \cap Leaves = {}
BY GraphAssumption, CoreAssumption DEF Items, Heads, Leaves

LEMMA Positions ==
  /\ 0 \in Pos
  /\ \A p, q \in Pos : Plus(p, q) \in Pos /\ Minus(p, q) \in Pos
BY CoreAssumption DEF Pos, Plus, Minus

LEMMA SetsAreNotNull ==
  ASSUME NEW S, S \subseteq Nodes
  PROVE  S # None
BY NullAssumption

LEMMA ScratchIsNotNull ==
  ASSUME NEW n \in Nodes, NEW d \in Pos
  PROVE  [under |-> n, off |-> d] # None
BY NullAssumption DEF Pos

\* The parts, one by one.
LEMMA TypedIs ==
  ASSUME NEW g
  PROVE  Typed(g) <=>
    /\ g = [els |-> g.els, pos |-> g.pos, leaf |-> g.leaf, fold |-> g.fold,
            collapsed |-> g.collapsed, hidden |-> g.hidden, faded |-> g.faded,
            receded |-> g.receded, selected |-> g.selected]
    /\ g.pos \in [Nodes -> Pos]
    /\ g.leaf \in [Nodes -> [under : Heads, off : Pos] \cup {None}]
    /\ g.fold \in [Nodes -> (SUBSET Leaves) \cup {None}]
    /\ g.collapsed \subseteq In(g) /\ g.hidden \subseteq In(g) /\ g.faded \subseteq In(g)
    /\ g.receded \subseteq In(g) /\ g.selected \subseteq In(g)
BY DEF Typed

\* What is drawn, who is in a box and what a switch has depend on the elements
\* and the lists.
LEMMA SameElements ==
  ASSUME NEW g, NEW h, h.els = g.els
  PROVE  /\ In(h) = In(g) /\ Drawn(h) = Drawn(g) /\ Switches(h) = Switches(g)
         /\ \A b : Children(h, b) = Children(g, b) /\ IsParent(h, b) = IsParent(g, b)
         /\ \A ns : ConnectedEdges(h, ns) = ConnectedEdges(g, ns)
         /\ \A s : h.fold[s] = g.fold[s] => Followers(h, s) = Followers(g, s)
         /\ Framed(h) = Framed(g)
<1>1. In(h) = In(g)
  BY DEF In
<1>2. Drawn(h) = Drawn(g)
  BY <1>1 DEF Drawn
<1>3. \A b : Children(h, b) = Children(g, b)
  BY <1>2 DEF Children
<1>4. \A b : IsParent(h, b) = IsParent(g, b)
  BY <1>3 DEF IsParent
<1>5. Switches(h) = Switches(g)
  BY <1>2 DEF Switches
<1>6. \A ns : ConnectedEdges(h, ns) = ConnectedEdges(g, ns)
  BY <1>1 DEF ConnectedEdges
<1>7. \A s : h.fold[s] = g.fold[s] => Followers(h, s) = Followers(g, s)
  BY <1>1 DEF Followers
<1>8. Framed(h) = Framed(g)
  BY <1>1, <1>2, <1>4 DEF Framed
<1> QED
  BY <1>1, <1>2, <1>3, <1>4, <1>5, <1>6, <1>7, <1>8

\* h is g with the boxes synced: they frame, and nothing else has changed.
Synced(g, h) ==
  /\ Typed(h) /\ Kept(g, h) /\ h.pos = g.pos /\ h.leaf = g.leaf /\ h.fold = g.fold
  /\ \A i \in Nodes : i \in h.collapsed <=> i \in g.collapsed
  /\ Boxed(h)

LEMMA SyncIs ==
  ASSUME NEW g, Typed(g), Framed(g)
  PROVE  Synced(g, SyncGroupBoxes(g))
<1> DEFINE h == SyncGroupBoxes(g)
           boxes == {b \in In(g) : IsParent(g, b)}
           emptied == {b \in boxes : Children(g, b) \subseteq OffScreen(g)}
<1>1. /\ h.collapsed = (g.collapsed \ boxes) \cup emptied
      /\ h.pos = g.pos /\ h.leaf = g.leaf /\ h.fold = g.fold /\ Kept(g, h)
      /\ h = [els |-> h.els, pos |-> h.pos, leaf |-> h.leaf, fold |-> h.fold,
              collapsed |-> h.collapsed, hidden |-> h.hidden, faded |-> h.faded,
              receded |-> h.receded, selected |-> h.selected]
  <2>1. h = [g EXCEPT !.collapsed = (@ \ boxes) \cup emptied]
    BY DEF SyncGroupBoxes
  <2>2. g = [els |-> g.els, pos |-> g.pos, leaf |-> g.leaf, fold |-> g.fold,
             collapsed |-> g.collapsed, hidden |-> g.hidden, faded |-> g.faded,
             receded |-> g.receded, selected |-> g.selected]
    BY TypedIs
  <2> HIDE DEF h, boxes, emptied
  <2> QED
    BY <2>1, <2>2 DEF Kept
<1>2. boxes \subseteq Groups
  <2> SUFFICES ASSUME NEW b \in In(g), IsParent(g, b) PROVE b \in Groups
    OBVIOUS
  <2>1. PICK n \in Drawn(g) : g.els[n].parent = b
    BY DEF IsParent, Children
  <2> QED
    BY <2>1, Kinds DEF Framed
<1>3. /\ In(h) = In(g) /\ \A b : Children(h, b) = Children(g, b)
  BY <1>1, SameElements DEF Kept
<1>4. Typed(h)
  <2>1. h.collapsed \subseteq In(g)
    BY <1>1, TypedIs
  <2> HIDE DEF h
  <2> QED
    BY <1>1, <1>3, <2>1, TypedIs DEF Kept
<1>5. \A i \in Nodes : i \in h.collapsed <=> i \in g.collapsed
  BY <1>1, <1>2, Kinds
<1>6. Boxed(h)
  <2> SUFFICES ASSUME NEW b \in In(g) \cap Groups
               PROVE  b \in h.collapsed <=> Children(g, b) \subseteq OffScreen(h)
    BY <1>3 DEF Boxed
  <2>1. b \in boxes
    BY DEF Framed
  <2>2. Children(g, b) \subseteq OffScreen(h) <=> Children(g, b) \subseteq OffScreen(g)
    <3>1. \A i \in Nodes : i \in OffScreen(h) <=> i \in OffScreen(g)
      BY <1>1, <1>5 DEF OffScreen, Kept
    <3> QED
      BY <3>1 DEF Children, Drawn
  <2> QED
    BY <1>1, <2>1, <2>2
<1> QED
  BY <1>1, <1>4, <1>5, <1>6 DEF Synced

\* The record of a core that is typed.
LEMMA CoreRecord ==
  ASSUME NEW g, Typed(g)
  PROVE  g = [els |-> g.els, pos |-> g.pos, leaf |-> g.leaf, fold |-> g.fold,
              collapsed |-> g.collapsed, hidden |-> g.hidden, faded |-> g.faded,
              receded |-> g.receded, selected |-> g.selected]
BY TypedIs

\* h is g but for positions, scratch and what is collapsed.
Reshaped(g, h) ==
  h = [els |-> g.els, pos |-> h.pos, leaf |-> h.leaf, fold |-> h.fold,
       collapsed |-> h.collapsed, hidden |-> g.hidden, faded |-> g.faded,
       receded |-> g.receded, selected |-> g.selected]

\* Such a core is typed if these are.
LEMMA ReshapedTyped ==
  ASSUME NEW g, Typed(g), NEW h, Reshaped(g, h),
         h.pos \in [Nodes -> Pos],
         h.leaf \in [Nodes -> [under : Heads, off : Pos] \cup {None}],
         h.fold \in [Nodes -> (SUBSET Leaves) \cup {None}],
         h.collapsed \subseteq In(g)
  PROVE  Typed(h) /\ Kept(g, h) /\ In(h) = In(g)
<1>1. Kept(g, h)
  BY DEF Kept, Reshaped
<1>2. In(h) = In(g)
  BY <1>1, SameElements DEF Kept
<1>3. h = [els |-> h.els, pos |-> h.pos, leaf |-> h.leaf, fold |-> h.fold,
           collapsed |-> h.collapsed, hidden |-> h.hidden, faded |-> h.faded,
           receded |-> h.receded, selected |-> h.selected]
  BY <1>1 DEF Kept, Reshaped
<1> QED
  BY <1>1, <1>2, <1>3, TypedIs DEF Kept

\* h is g with the leaves of s brought out.
ReleasedOne(g, s, h) ==
  /\ Typed(h) /\ Kept(g, h)
  /\ \A n \in Nodes :
       /\ h.fold[n] = IF n = s THEN None ELSE g.fold[n]
       /\ n \in Followers(g, s) =>
            h.leaf[n] = None /\ n \notin h.collapsed /\ h.pos[n] = Plus(g.pos[s], Offset(g, n))
       /\ n \notin Followers(g, s) =>
            h.leaf[n] = g.leaf[n] /\ h.pos[n] = g.pos[n] /\ (n \in h.collapsed <=> n \in g.collapsed)
  /\ Boxed(g) => Boxed(h)

LEMMA FollowersAreLeaves ==
  ASSUME NEW g, Typed(g), NEW s \in Nodes
  PROVE  /\ Followers(g, s) \subseteq Leaves /\ Followers(g, s) \subseteq Drawn(g)
         /\ \A n \in Nodes : n \in Followers(g, s) <=> g.fold[s] # None /\ n \in g.fold[s] \cap In(g)
<1>1. g.fold[s] # None => g.fold[s] \subseteq Leaves
  BY TypedIs
<1> QED
  BY <1>1, Kinds DEF Followers, Drawn

LEMMA OffsetIsPos ==
  ASSUME NEW g, Typed(g), NEW l \in Nodes
  PROVE  Offset(g, l) \in Pos
<1>1. g.leaf[l] = None \/ g.leaf[l].off \in Pos
  BY TypedIs
<1> QED
  BY <1>1, Positions DEF Offset

LEMMA ReleaseIs ==
  ASSUME NEW g, Typed(g), Framed(g), NEW s \in Heads
  PROVE  ReleasedOne(g, s, ReleaseCollapsed(g, s))
<1> DEFINE ls == Followers(g, s)
<1>0. s \in Nodes
  BY DEF Heads
<1>t. ls \subseteq Leaves /\ ls \subseteq Nodes /\ s \notin ls
  BY <1>0, FollowersAreLeaves, Kinds
<1>1. CASE g.fold[s] = None
  <2>1. ReleaseCollapsed(g, s) = g
    BY <1>1, Zenon DEF ReleaseCollapsed
  <2>2. ls = {}
    BY <1>1 DEF Followers
  <2>3. Kept(g, g)
    BY DEF Kept
  <2> HIDE DEF ls
  <2>4. \A n \in Nodes : g.fold[n] = IF n = s THEN None ELSE g.fold[n]
    BY <1>1
  <2> QED
    BY <2>1, <2>2, <2>3, <2>4 DEF ReleasedOne, ls
<1>2. CASE g.fold[s] # None
  <2> DEFINE p  == [n \in Nodes |-> IF n \in ls THEN Plus(g.pos[s], Offset(g, n)) ELSE g.pos[n]]
             lf == [n \in Nodes |-> IF n \in ls THEN None ELSE g.leaf[n]]
             fd == [g.fold EXCEPT ![s] = None]
             c  == g.collapsed \ (ls \cup ConnectedEdges(g, ls))
             k  == [Unfold(g, s, ls) EXCEPT
                      !.pos  = [n \in Nodes |-> IF n \in ls THEN Plus(g.pos[s], Offset(g, n)) ELSE @[n]],
                      !.leaf = [n \in Nodes |-> IF n \in ls THEN None ELSE @[n]]]
  <2>1. ReleaseCollapsed(g, s) = SyncGroupBoxes(k)
    BY <1>2, Zenon DEF ReleaseCollapsed
  <2>2. Reshaped(g, k) /\ k.pos = p /\ k.leaf = lf /\ k.fold = fd /\ k.collapsed = c
    <3> DEFINE u == Unfold(g, s, ls)
    <3>1. u = [els |-> g.els, pos |-> g.pos, leaf |-> g.leaf, fold |-> fd,
               collapsed |-> c, hidden |-> g.hidden, faded |-> g.faded,
               receded |-> g.receded, selected |-> g.selected]
      <4> HIDE DEF ls
      <4>1. g = [els |-> g.els, pos |-> g.pos, leaf |-> g.leaf, fold |-> g.fold,
                 collapsed |-> g.collapsed, hidden |-> g.hidden, faded |-> g.faded,
                 receded |-> g.receded, selected |-> g.selected]
        BY CoreRecord
      <4>2. u = [g EXCEPT !.collapsed = c, !.fold = fd]
        BY DEF Unfold
      <4> HIDE DEF c, fd, u
      <4> QED
        BY <4>1, <4>2
    <3> HIDE DEF ls, fd, c, u
    <3>2. k = [els |-> g.els, pos |-> p, leaf |-> lf, fold |-> fd,
               collapsed |-> c, hidden |-> g.hidden, faded |-> g.faded,
               receded |-> g.receded, selected |-> g.selected]
      <4>1. /\ u.pos = g.pos /\ u.leaf = g.leaf
            /\ k = [u EXCEPT !.pos = p, !.leaf = lf]
        BY <3>1 DEF u
      <4> HIDE DEF p, lf, k
      <4> QED
        BY <3>1, <4>1
    <3> HIDE DEF p, lf, k
    <3> QED
      BY <3>2 DEF Reshaped
  <2>3. p \in [Nodes -> Pos]
    <3>1. \A n \in Nodes : Plus(g.pos[s], Offset(g, n)) \in Pos /\ g.pos[n] \in Pos
      BY <1>0, OffsetIsPos, Positions, TypedIs
    <3> HIDE DEF ls
    <3> QED
      BY <3>1
  <2>4. lf \in [Nodes -> [under : Heads, off : Pos] \cup {None}]
    <3> HIDE DEF ls
    <3> QED
      BY TypedIs
  <2>5. fd \in [Nodes -> (SUBSET Leaves) \cup {None}]
    BY TypedIs
  <2>6. c \subseteq In(g)
    BY TypedIs
  <2>v. /\ \A n \in Nodes : p[n] = IF n \in ls THEN Plus(g.pos[s], Offset(g, n)) ELSE g.pos[n]
        /\ \A n \in Nodes : lf[n] = IF n \in ls THEN None ELSE g.leaf[n]
        /\ \A n \in Nodes : fd[n] = IF n = s THEN None ELSE g.fold[n]
        /\ \A n \in Nodes : n \in c <=> n \in g.collapsed /\ n \notin ls
    <3>1. \A n \in Nodes : n \notin ConnectedEdges(g, ls)
      BY Kinds DEF ConnectedEdges
    <3>2. g.fold \in [Nodes -> (SUBSET Leaves) \cup {None}]
      BY TypedIs
    <3> HIDE DEF ls
    <3> QED
      BY <3>1, <3>2
  <2> HIDE DEF p, lf, fd, c, k
  <2>7. /\ Typed(k) /\ Kept(g, k)
        /\ k.pos = p /\ k.leaf = lf /\ k.fold = fd /\ k.collapsed = c
    BY <2>2, <2>3, <2>4, <2>5, <2>6, ReshapedTyped
  <2>8. Framed(k)
    BY <2>7, SameElements DEF Kept
  <2> DEFINE h == SyncGroupBoxes(k)
  <2>9. Synced(k, h)
    BY <2>7, <2>8, SyncIs
  <2> HIDE DEF h, ls
  <2>10. Kept(g, h)
    BY <2>7, <2>9 DEF Synced, Kept
  <2>11. \A n \in Nodes :
       /\ h.fold[n] = IF n = s THEN None ELSE g.fold[n]
       /\ n \in ls => h.leaf[n] = None /\ n \notin h.collapsed /\ h.pos[n] = Plus(g.pos[s], Offset(g, n))
       /\ n \notin ls =>
            h.leaf[n] = g.leaf[n] /\ h.pos[n] = g.pos[n] /\ (n \in h.collapsed <=> n \in g.collapsed)
    BY <2>7, <2>9, <2>v DEF Synced
  <2>12. Typed(h) /\ Boxed(h)
    BY <2>9 DEF Synced
  <2> QED
    BY <2>1, <2>10, <2>11, <2>12 DEF ReleasedOne, h, ls
<1> QED
  BY <1>1, <1>2

-----------------------------------------------------------------------------
(* Bringing out the leaves of several switches. *)

FollowersOf(g, S) == UNION {Followers(g, s) : s \in S}

\* h is g with the leaves of the switches in S brought out.  One that a single
\* switch lists stands around it as its scratch says.
Released(g, S, h) ==
  /\ Typed(h) /\ Kept(g, h)
  /\ \A n \in Nodes :
       /\ h.fold[n] = IF n \in S THEN None ELSE g.fold[n]
       /\ n \in FollowersOf(g, S) => h.leaf[n] = None /\ n \notin h.collapsed
       /\ n \notin FollowersOf(g, S) =>
            h.leaf[n] = g.leaf[n] /\ h.pos[n] = g.pos[n] /\ (n \in h.collapsed <=> n \in g.collapsed)
  /\ \A n \in Nodes, s \in S :
       n \in Followers(g, s) /\ (\A t \in S : n \in Followers(g, t) => t = s)
         => h.pos[n] = Plus(g.pos[s], Offset(g, n))
  /\ Boxed(g) => Boxed(h)

LEMMA ReleaseNone ==
  ASSUME NEW g, Typed(g)
  PROVE  Released(g, {}, g)
<1>1. FollowersOf(g, {}) = {}
  BY DEF FollowersOf
<1>2. Kept(g, g)
  BY DEF Kept
<1> QED
  BY <1>1, <1>2 DEF Released

LEMMA ReleaseMore ==
  ASSUME NEW g, Typed(g), Framed(g), NEW S \in SUBSET Heads, NEW h, Released(g, S, h),
         NEW s \in Heads, NEW k, ReleasedOne(h, s, k)
  PROVE  Released(g, S \cup {s}, k)
<1>0. /\ Typed(h) /\ Kept(g, h) /\ Typed(k) /\ Kept(h, k) /\ In(h) = In(g)
      /\ Heads \subseteq Nodes /\ s \in Nodes
  BY SameElements, Kinds DEF Released, ReleasedOne, Kept
<1>1. Kept(g, k)
  BY <1>0 DEF Kept
<1>2. ASSUME NEW n \in Nodes
      PROVE  n \in FollowersOf(g, S \cup {s}) <=> n \in FollowersOf(g, S) \/ n \in Followers(g, s)
  BY DEF FollowersOf
<1>3. h.fold[s] = IF s \in S THEN None ELSE g.fold[s]
  BY <1>0 DEF Released
<1>4. s \in S => Followers(h, s) = {}
  BY <1>3 DEF Followers
<1>5. s \notin S => Followers(h, s) = Followers(g, s)
  BY <1>0, <1>3, SameElements DEF Kept
<1>6. s \in S => Followers(g, s) \subseteq FollowersOf(g, S)
  BY DEF FollowersOf
<1>7. h.pos[s] = g.pos[s]
  <2>1. s \notin FollowersOf(g, S)
    BY <1>0, FollowersAreLeaves, Kinds DEF FollowersOf
  <2> QED
    BY <1>0, <2>1 DEF Released
<1>8. ASSUME NEW n \in Nodes
      PROVE  /\ k.fold[n] = IF n \in S \cup {s} THEN None ELSE g.fold[n]
             /\ n \in FollowersOf(g, S \cup {s}) => k.leaf[n] = None /\ n \notin k.collapsed
             /\ n \notin FollowersOf(g, S \cup {s}) =>
                  /\ k.leaf[n] = g.leaf[n] /\ k.pos[n] = g.pos[n]
                  /\ n \in k.collapsed <=> n \in g.collapsed
  <2>1. k.fold[n] = IF n = s THEN None ELSE h.fold[n]
    BY DEF ReleasedOne
  <2>2. h.fold[n] = IF n \in S THEN None ELSE g.fold[n]
    BY DEF Released
  <2>3. CASE n \in Followers(h, s)
    <3>1. k.leaf[n] = None /\ n \notin k.collapsed /\ n \in FollowersOf(g, S \cup {s})
      BY <1>2, <1>4, <1>5, <2>3 DEF ReleasedOne
    <3> QED
      BY <2>1, <2>2, <3>1
  <2>4. CASE n \notin Followers(h, s)
    <3>1. k.leaf[n] = h.leaf[n] /\ k.pos[n] = h.pos[n] /\ (n \in k.collapsed <=> n \in h.collapsed)
      BY <2>4 DEF ReleasedOne
    <3>2. n \in FollowersOf(g, S \cup {s}) <=> n \in FollowersOf(g, S)
      BY <1>2, <1>5, <1>6, <2>4
    <3>3. n \in FollowersOf(g, S) => h.leaf[n] = None /\ n \notin h.collapsed
      BY DEF Released
    <3>4. n \notin FollowersOf(g, S) =>
            h.leaf[n] = g.leaf[n] /\ h.pos[n] = g.pos[n] /\ (n \in h.collapsed <=> n \in g.collapsed)
      BY DEF Released
    <3> QED
      BY <2>1, <2>2, <3>1, <3>2, <3>3, <3>4
  <2> QED
    BY <2>3, <2>4
<1>9. ASSUME NEW n \in Nodes, NEW t \in S \cup {s}, n \in Followers(g, t),
             \A u \in S \cup {s} : n \in Followers(g, u) => u = t
      PROVE  k.pos[n] = Plus(g.pos[t], Offset(g, n))
  <2>1. CASE t \in S
    <3>1. h.pos[n] = Plus(g.pos[t], Offset(g, n))
      BY <1>9, <2>1 DEF Released
    <3>2. n \notin Followers(h, s)
      BY <1>4, <1>5, <1>9, <2>1
    <3>3. k.pos[n] = h.pos[n]
      BY <3>2 DEF ReleasedOne
    <3> QED
      BY <3>1, <3>3
  <2>2. CASE t \notin S
    <3>1. t = s /\ n \in Followers(h, s)
      BY <1>5, <1>9, <2>2
    <3>2. n \notin FollowersOf(g, S)
      BY <1>9, <2>2, <3>1 DEF FollowersOf
    <3>3. h.leaf[n] = g.leaf[n]
      BY <3>2 DEF Released
    <3>4. Offset(h, n) = Offset(g, n)
      BY <3>3 DEF Offset
    <3>5. k.pos[n] = Plus(h.pos[s], Offset(h, n))
      BY <3>1 DEF ReleasedOne
    <3> QED
      BY <1>7, <3>1, <3>4, <3>5
  <2> QED
    BY <2>1, <2>2
<1>10. Boxed(g) => Boxed(k)
  BY DEF Released, ReleasedOne
<1> HIDE DEF FollowersOf
<1> QED
  BY <1>0, <1>1, <1>8, <1>9, <1>10 DEF Released

\* The elements of a set of items, in order.
LEMMA ListedIs ==
  ASSUME NEW S
  PROVE  /\ IsList(Listed(S)) /\ ToSet(Listed(S)) = Items \cap S
         /\ Len(Listed(S)) \in Nat
         /\ \A k \in 1 .. Len(Listed(S)) : Listed(S)[k] \in Items \cap S
         /\ \A i \in Items \cap S : \E k \in 1 .. Len(Listed(S)) : Listed(S)[k] = i
<1>1. IsList(Order)
  BY CoreAssumption DEF IsList, Once, Items
<1>2. ToSet(Order) = Items
  <2>1. Order \in Seq(Items) /\ \A i \in Items : \E k \in 1 .. Len(Order) : Order[k] = i
    BY CoreAssumption DEF Items
  <2>2. \A i : i \in ToSet(Order) <=> \E k \in 1 .. Len(Order) : Order[k] = i
    BY <2>1, ToSetOf
  <2>3. \A k \in 1 .. Len(Order) : Order[k] \in Items
    BY <2>1
  <2> QED
    BY <2>1, <2>2, <2>3
<1> DEFINE t == Listed(S)
<1>3. IsList(t) /\ ToSet(t) = Items \cap S
  BY <1>1, <1>2, FilteredList DEF Listed
<1> HIDE DEF t
<1>4. Len(t) \in Nat /\ \A i : i \in ToSet(t) <=> \E k \in 1 .. Len(t) : t[k] = i
  BY <1>3, ToSetOf DEF IsList
<1> QED
  BY <1>3, <1>4 DEF t

\* The cores on the way.
ReleasedBy(f, g, ss) ==
  LET folded == Listed({s \in ss : IsCollapsed(g, s)})
  IN  /\ f[0] = g
      /\ \A k \in 1 .. Len(folded) : f[k] = ReleaseCollapsed(f[k - 1], folded[k])
      /\ ReleaseEach(g, ss) = f[Len(folded)]

LEMMA ReleaseSteps ==
  ASSUME NEW g, NEW ss
  PROVE  \E f : ReleasedBy(f, g, ss)
<1> DEFINE folded == Listed({s \in ss : IsCollapsed(g, s)})
           E(f, k) == IF k = 0 THEN g ELSE ReleaseCollapsed(f[k - 1], folded[k])
           Rec(f, n) == f = [k \in 0 .. n |-> E(f, k)]
           P == {n \in Nat : \E f : Rec(f, n)}
           F == CHOOSE f : Rec(f, Len(folded))
<1>n. Len(folded) \in Nat
  BY ListedIs
<1>6. ReleaseEach(g, ss) = F[Len(folded)]
  BY DEF ReleaseEach
<1> HIDE DEF folded
<1>1. ASSUME NEW f, NEW n \in Nat, Rec(f, n), NEW k \in 0 .. n PROVE f[k] = E(f, k)
  <2> HIDE DEF E
  <2> QED
    BY <1>1
<1>2. 0 \in P
  <2>1. E([k \in 0 .. 0 |-> g], 0) = g
    OBVIOUS
  <2>2. Rec([k \in 0 .. 0 |-> g], 0)
    <3> HIDE DEF E
    <3> QED
      BY <2>1
  <2> QED
    BY <2>2
<1>3. ASSUME NEW n \in Nat, n \in P PROVE n + 1 \in P
  <2>1. PICK f : Rec(f, n)
    BY <1>3
  <2> DEFINE h == [k \in 0 .. n + 1 |-> IF k = n + 1 THEN E(f, n + 1) ELSE f[k]]
  <2>2. ASSUME NEW k \in 0 .. n + 1 PROVE h[k] = E(h, k)
    <3>1. k # 0 => k - 1 \in 0 .. n /\ h[k - 1] = f[k - 1]
      OBVIOUS
    <3>2. E(h, k) = E(f, k)
      BY <3>1
    <3>3. k # n + 1 => k \in 0 .. n
      OBVIOUS
    <3> HIDE DEF E, Rec
    <3>4. k # n + 1 => f[k] = E(f, k)
      BY <1>1, <2>1, <3>3
    <3> QED
      BY <3>2, <3>4
  <2>3. Rec(h, n + 1)
    <3> HIDE DEF E
    <3> QED
      BY <2>2
  <2> HIDE DEF Rec
  <2> QED
    BY <2>3
<1>4. Len(folded) \in P
  <2> HIDE DEF P
  <2> QED
    BY <1>2, <1>3, <1>n, Reached
<1>5. Rec(F, Len(folded))
  <2> HIDE DEF Rec
  <2> QED
    BY <1>4
<1>7. ASSUME NEW k \in 0 .. Len(folded) PROVE F[k] = E(F, k)
  <2> HIDE DEF F, E, Rec
  <2> QED
    BY <1>1, <1>5, <1>n
<1> HIDE DEF F
<1>8. F[0] = g
  <2>1. 0 \in 0 .. Len(folded)
    BY <1>n
  <2> QED
    BY <1>7, <2>1
<1>9. ASSUME NEW k \in 1 .. Len(folded)
      PROVE  F[k] = ReleaseCollapsed(F[k - 1], folded[k])
  <2>1. k \in 0 .. Len(folded) /\ k # 0
    BY <1>n
  <2> QED
    BY <1>7, <2>1
<1>10. ReleasedBy(F, g, ss)
  BY <1>6, <1>8, <1>9, Zenon DEF ReleasedBy, folded
<1> QED
  BY <1>10

LEMMA ReleaseEachIs ==
  ASSUME NEW g, Typed(g), Framed(g), NEW ss \in SUBSET Nodes,
         \A s \in ss : IsCollapsed(g, s) => s \in Heads
  PROVE  Released(g, {s \in ss : IsCollapsed(g, s)}, ReleaseEach(g, ss))
<1> DEFINE S == {s \in ss : IsCollapsed(g, s)}
           folded == Listed(S)
           Done(k) == {folded[j] : j \in 1 .. k}
<1>1. PICK f : ReleasedBy(f, g, ss)
  BY ReleaseSteps
<1>2. /\ f[0] = g
      /\ \A k \in 1 .. Len(folded) : f[k] = ReleaseCollapsed(f[k - 1], folded[k])
      /\ ReleaseEach(g, ss) = f[Len(folded)]
  BY <1>1, Zenon DEF ReleasedBy
<1>3. /\ Len(folded) \in Nat
      /\ \A k \in 1 .. Len(folded) : folded[k] \in Items \cap S
      /\ \A i \in Items \cap S : \E k \in 1 .. Len(folded) : folded[k] = i
  BY ListedIs
<1>s. S \subseteq Heads /\ S \subseteq Items
  BY Kinds DEF Items
<1> HIDE DEF S, folded
<1> DEFINE P == {k \in 0 .. Len(folded) : Released(g, Done(k), f[k])}
           Q == P \cup {k \in Nat : k > Len(folded)}
<1>4. 0 \in Q
  <2>1. Done(0) = {}
    OBVIOUS
  <2> HIDE DEF Done
  <2>2. Released(g, Done(0), f[0])
    BY <1>2, <2>1, ReleaseNone
  <2> QED
    BY <1>3, <2>2
<1>5. ASSUME NEW k \in 0 .. Len(folded), k \in P, k # Len(folded) PROVE k + 1 \in P
  <2>1. k + 1 \in 1 .. Len(folded) /\ (k + 1) - 1 = k /\ k \in Nat
    BY <1>3, <1>5
  <2>2. Done(k + 1) = Done(k) \cup {folded[k + 1]}
    BY <2>1
  <2>3. Done(k) \in SUBSET Heads /\ folded[k + 1] \in Heads
    <3>1. \A j \in 1 .. k : j \in 1 .. Len(folded)
      BY <2>1
    <3> QED
      BY <1>3, <1>s, <2>1, <3>1
  <2> HIDE DEF Done
  <2>4. Released(g, Done(k), f[k]) /\ f[k + 1] = ReleaseCollapsed(f[k], folded[k + 1])
    BY <1>2, <1>5, <2>1
  <2>5. Typed(f[k]) /\ Framed(f[k])
    BY <2>4, SameElements DEF Released, Kept
  <2>6. ReleasedOne(f[k], folded[k + 1], f[k + 1])
    BY <2>3, <2>4, <2>5, ReleaseIs
  <2>7. Released(g, Done(k) \cup {folded[k + 1]}, f[k + 1])
    BY <2>3, <2>4, <2>6, ReleaseMore
  <2>8. k + 1 \in 0 .. Len(folded)
    BY <1>3, <2>1
  <2>9. Released(g, Done(k + 1), f[k + 1])
    BY <2>2, <2>7, Zenon
  <2> QED
    BY <2>8, <2>9
<1>6. \A k \in 0 .. Len(folded) : k \in Q => k + 1 \in Q
  <2> SUFFICES ASSUME NEW k \in 0 .. Len(folded), k \in Q PROVE k + 1 \in Q
    OBVIOUS
  <2>1. k = Len(folded) => k + 1 \in Q
    BY <1>3
  <2> HIDE DEF P
  <2>2. k \in P
    BY <1>3
  <2> QED
    BY <1>5, <2>1, <2>2
<1>7. Len(folded) \in Q
  <2> HIDE DEF Q
  <2> QED
    BY <1>3, <1>4, <1>6, Reached
<1>8. Released(g, Done(Len(folded)), f[Len(folded)])
  <2> HIDE DEF Done
  <2> QED
    BY <1>3, <1>7
<1>9. Done(Len(folded)) = S
  BY <1>3, <1>s
<1> QED
  BY <1>2, <1>8, <1>9 DEF S

\* The switches with leaves folded under them.
Folded(g) == {s \in Drawn(g) : IsCollapsed(g, s)}

LEMMA FoldedAreSwitches ==
  ASSUME NEW g, Scratched(g)
  PROVE  /\ Folded(g) \subseteq Switches(g) /\ Folded(g) \subseteq Heads
         /\ \A s \in Nodes : g.fold[s] # None => s \in Folded(g)
         /\ Switches(g) \subseteq Drawn(g) /\ Switches(g) \subseteq Heads
         /\ Drawn(g) \subseteq Nodes /\ \A n \in Drawn(g) : n \in Heads => n \in Switches(g)
<1>1. \A s \in Nodes : g.fold[s] # None => s \in Switches(g)
  BY DEF Scratched
<1> QED
  BY <1>1 DEF Folded, Switches, Drawn, IsCollapsed, Heads

\* Nobody is folded any more, and leaves are where they were folded from.
ResetOf(g, h) ==
  /\ Typed(h) /\ Kept(g, h)
  /\ \A n \in Nodes : h.leaf[n] = None /\ h.fold[n] = None /\ n \notin h.collapsed
  /\ \A n \in Nodes : n \notin FollowersOf(g, Folded(g)) => h.pos[n] = g.pos[n]
  /\ \A n \in Nodes, s \in Folded(g) :
       n \in Followers(g, s) /\ (\A t \in Folded(g) : n \in Followers(g, t) => t = s)
         => h.pos[n] = Plus(g.pos[s], Offset(g, n))
  /\ Boxed(h)

LEMMA ResetIs ==
  ASSUME NEW g, Sound(g)
  PROVE  ResetOf(g, ResetAllCollapsed(g))
<1> DEFINE r  == ReleaseEach(g, Drawn(g))
           lf == [n \in Nodes |-> None]
           k  == [r EXCEPT !.leaf = lf, !.fold = lf, !.collapsed = {}]
           h  == SyncGroupBoxes(k)
<1>g. Typed(g) /\ Framed(g) /\ Scratched(g)
  BY DEF Sound
<1>1. Released(g, Folded(g), r)
  <2>1. Drawn(g) \in SUBSET Nodes /\ \A s \in Drawn(g) : IsCollapsed(g, s) => s \in Heads
    BY <1>g, FoldedAreSwitches DEF IsCollapsed
  <2>2. Released(g, {s \in Drawn(g) : IsCollapsed(g, s)}, r)
    BY <1>g, <2>1, ReleaseEachIs
  <2> QED
    BY <2>2, Zenon DEF Folded
<1>2. ResetAllCollapsed(g) = h
  BY DEF ResetAllCollapsed
<1> HIDE DEF r
<1>3. Typed(r) /\ Kept(g, r)
  BY <1>1 DEF Released
<1>4. Reshaped(r, k) /\ k.pos = r.pos /\ k.leaf = lf /\ k.fold = lf /\ k.collapsed = {}
  <2>1. r = [els |-> r.els, pos |-> r.pos, leaf |-> r.leaf, fold |-> r.fold,
              collapsed |-> r.collapsed, hidden |-> r.hidden, faded |-> r.faded,
              receded |-> r.receded, selected |-> r.selected]
    BY <1>3, CoreRecord
  <2> HIDE DEF lf
  <2> DEFINE k1 == [r EXCEPT !.leaf = lf]
             k2 == [k1 EXCEPT !.fold = lf]
             k3 == [k2 EXCEPT !.collapsed = {}]
  <2>2. k = k3
    OBVIOUS
  <2>3. k1 = [els |-> r.els, pos |-> r.pos, leaf |-> lf, fold |-> r.fold,
              collapsed |-> r.collapsed, hidden |-> r.hidden, faded |-> r.faded,
              receded |-> r.receded, selected |-> r.selected]
    BY <2>1
  <2> HIDE DEF k, k1
  <2>4. k2 = [els |-> r.els, pos |-> r.pos, leaf |-> lf, fold |-> lf,
              collapsed |-> r.collapsed, hidden |-> r.hidden, faded |-> r.faded,
              receded |-> r.receded, selected |-> r.selected]
    BY <2>3
  <2> HIDE DEF k2
  <2>5. k3 = [els |-> r.els, pos |-> r.pos, leaf |-> lf, fold |-> lf,
              collapsed |-> {}, hidden |-> r.hidden, faded |-> r.faded,
              receded |-> r.receded, selected |-> r.selected]
    BY <2>4
  <2> QED
    BY <2>2, <2>5 DEF Reshaped
<1>5. \A n \in Nodes : lf[n] = None
  OBVIOUS
<1>6. lf \in [Nodes -> [under : Heads, off : Pos] \cup {None}] /\ lf \in [Nodes -> (SUBSET Leaves) \cup {None}]
  OBVIOUS
<1> HIDE DEF lf, k
<1>7. Typed(k) /\ Kept(r, k)
  BY <1>3, <1>4, <1>6, ReshapedTyped, TypedIs
<1>8. Framed(k)
  BY <1>g, <1>3, <1>7, SameElements DEF Kept
<1>9. Synced(k, h)
  BY <1>7, <1>8, SyncIs
<1> HIDE DEF h
<1>10. Typed(h) /\ Kept(g, h) /\ Boxed(h) /\ h.pos = r.pos
  BY <1>3, <1>4, <1>7, <1>9 DEF Synced, Kept
<1>11. \A n \in Nodes : h.leaf[n] = None /\ h.fold[n] = None /\ n \notin h.collapsed
  BY <1>4, <1>5, <1>9 DEF Synced
<1>12. \A n \in Nodes : n \notin FollowersOf(g, Folded(g)) => r.pos[n] = g.pos[n]
  BY <1>1 DEF Released
<1>13. \A n \in Nodes, s \in Folded(g) :
       n \in Followers(g, s) /\ (\A t \in Folded(g) : n \in Followers(g, t) => t = s)
         => r.pos[n] = Plus(g.pos[s], Offset(g, n))
  BY <1>1 DEF Released
<1> QED
  BY <1>2, <1>10, <1>11, <1>12, <1>13 DEF ResetOf

-----------------------------------------------------------------------------
(* Filters. *)

\* h is g with the classes that the filters ask for.
Shown(g, f, h) ==
  /\ Typed(h) /\ h.els = g.els /\ h.selected = g.selected
  /\ h.pos = g.pos /\ h.leaf = g.leaf /\ h.fold = g.fold
  /\ \A n \in Nodes : n \in h.collapsed <=> n \in g.collapsed
  /\ \A n \in Nodes : n \in h.hidden <=> f.hideCAs /\ n \in Drawn(g) /\ Kind[n] = "ca"
  /\ \A i : i \in h.faded <=>
       f.dimHealthy /\ i \in In(g) \ Groups /\ g.els[i].data.mode = "single" /\ g.els[i].data.health = "ok"
  /\ \A i : i \in h.receded <=>
       /\ f.highlightChanges /\ i \in In(g) \ Groups /\ g.els[i].data.mode = "compare"
       /\ g.els[i].data.change = "unchanged" /\ g.els[i].data.churn = 0
  /\ Boxed(h)

LEMMA FiltersAre ==
  ASSUME NEW g, Typed(g), Framed(g), NEW f
  PROVE  Shown(g, f, ApplyFilters(g, f))
<1> DEFINE els == In(g) \ Groups
           cas == IF f.hideCAs THEN {n \in Drawn(g) : Kind[n] = "ca"} ELSE {}
           hid == cas \cup ConnectedEdges(g, cas)
           fad == IF f.dimHealthy THEN {i \in els : Fades(g.els[i].data)} ELSE {}
           rec == IF f.highlightChanges THEN {i \in els : Recedes(g.els[i].data)} ELSE {}
           k == [g EXCEPT !.hidden = hid, !.faded = fad, !.receded = rec]
           h == SyncGroupBoxes(k)
<1>1. ApplyFilters(g, f) = h
  BY DEF ApplyFilters
<1>2. hid \subseteq In(g) /\ fad \subseteq In(g) /\ rec \subseteq In(g)
  BY DEF Drawn, ConnectedEdges
<1>3. \A n \in Nodes : n \in hid <=> f.hideCAs /\ n \in Drawn(g) /\ Kind[n] = "ca"
  BY Kinds DEF ConnectedEdges
<1>4. \A i : i \in fad <=>
       f.dimHealthy /\ i \in In(g) \ Groups /\ g.els[i].data.mode = "single" /\ g.els[i].data.health = "ok"
  BY DEF Fades
<1>5. \A i : i \in rec <=>
       /\ f.highlightChanges /\ i \in In(g) \ Groups /\ g.els[i].data.mode = "compare"
       /\ g.els[i].data.change = "unchanged" /\ g.els[i].data.churn = 0
  BY DEF Recedes
<1> HIDE DEF hid, fad, rec, els, cas
<1>6. /\ k.hidden = hid /\ k.faded = fad /\ k.receded = rec
      /\ k.els = g.els /\ k.selected = g.selected /\ k.pos = g.pos /\ k.leaf = g.leaf
      /\ k.fold = g.fold /\ k.collapsed = g.collapsed
      /\ k = [els |-> k.els, pos |-> k.pos, leaf |-> k.leaf, fold |-> k.fold,
              collapsed |-> k.collapsed, hidden |-> k.hidden, faded |-> k.faded,
              receded |-> k.receded, selected |-> k.selected]
  <2>1. g = [els |-> g.els, pos |-> g.pos, leaf |-> g.leaf, fold |-> g.fold,
              collapsed |-> g.collapsed, hidden |-> g.hidden, faded |-> g.faded,
              receded |-> g.receded, selected |-> g.selected]
    BY CoreRecord
  <2> DEFINE k1 == [g EXCEPT !.hidden = hid]
             k2 == [k1 EXCEPT !.faded = fad]
             k3 == [k2 EXCEPT !.receded = rec]
  <2>2. k = k3
    OBVIOUS
  <2>3. k1 = [els |-> g.els, pos |-> g.pos, leaf |-> g.leaf, fold |-> g.fold,
              collapsed |-> g.collapsed, hidden |-> hid, faded |-> g.faded,
              receded |-> g.receded, selected |-> g.selected]
    BY <2>1
  <2> HIDE DEF k, k1
  <2>4. k2 = [els |-> g.els, pos |-> g.pos, leaf |-> g.leaf, fold |-> g.fold,
              collapsed |-> g.collapsed, hidden |-> hid, faded |-> fad,
              receded |-> g.receded, selected |-> g.selected]
    BY <2>3
  <2> HIDE DEF k2
  <2>5. k3 = [els |-> g.els, pos |-> g.pos, leaf |-> g.leaf, fold |-> g.fold,
              collapsed |-> g.collapsed, hidden |-> hid, faded |-> fad,
              receded |-> rec, selected |-> g.selected]
    BY <2>4
  <2> QED
    BY <2>2, <2>5
<1> HIDE DEF k
<1>7. In(k) = In(g) /\ Framed(k)
  BY <1>6, SameElements
<1>8. Typed(k)
  BY <1>2, <1>6, <1>7, TypedIs
<1>9. Synced(k, h)
  BY <1>7, <1>8, SyncIs
<1> HIDE DEF h
<1>10. /\ Typed(h) /\ h.els = g.els /\ h.selected = g.selected
       /\ h.pos = g.pos /\ h.leaf = g.leaf /\ h.fold = g.fold /\ Boxed(h)
       /\ h.hidden = hid /\ h.faded = fad /\ h.receded = rec
       /\ \A n \in Nodes : n \in h.collapsed <=> n \in g.collapsed
  BY <1>6, <1>9 DEF Synced, Kept
<1> QED
  BY <1>1, <1>3, <1>4, <1>5, <1>10 DEF Shown

-----------------------------------------------------------------------------
(* Reconciling. *)

\* The elements of a model: every box has a member, and is a group's.
LEMMA WantIs ==
  ASSUME NEW m \in Models, NEW want, want = ToElements(m)
  PROVE  /\ DOMAIN want \subseteq Items
         /\ DOMAIN want \cap Nodes = DOMAIN m.nodes
         /\ DOMAIN want \cap Links = DOMAIN m.links
         /\ \A n \in DOMAIN m.nodes :
              /\ want[n].parent = None \/ want[n].parent \in DOMAIN want \cap Groups
              /\ want[n].data = Data(m, m.nodes[n])
         /\ \A l \in DOMAIN m.links : want[l].data = Data(m, m.links[l]) /\ Ends[l] \subseteq DOMAIN want
         /\ \A b \in DOMAIN want \cap Groups : \E n \in DOMAIN m.nodes : want[n].parent = b
<1>1. /\ DOMAIN m.nodes \subseteq Nodes /\ DOMAIN m.links \subseteq Links /\ m.groups \subseteq Groups
      /\ \A l \in DOMAIN m.links : Ends[l] \subseteq DOMAIN m.nodes
  BY ModelsAssumption
<1>2. \A n : GroupOf(m, n) \in m.groups \/ GroupOf(m, n) = None
  BY DEF GroupOf
<1>3. /\ Boxes(m) \subseteq Groups
      /\ \A n \in DOMAIN m.nodes : GroupOf(m, n) = None \/ GroupOf(m, n) \in Boxes(m)
      /\ \A b \in Boxes(m) : \E n \in DOMAIN m.nodes : GroupOf(m, n) = b
  BY <1>1, <1>2 DEF Boxes
<1>4. DOMAIN want = DOMAIN m.nodes \cup DOMAIN m.links \cup Boxes(m)
  BY DEF ToElements
<1>5. ASSUME NEW n \in DOMAIN m.nodes
      PROVE  want[n].parent = GroupOf(m, n) /\ want[n].data = Data(m, m.nodes[n])
  <2>1. /\ n \in Nodes /\ n \notin Links /\ n \notin Groups
        /\ n \in DOMAIN m.nodes \cup DOMAIN m.links \cup Boxes(m)
    BY <1>1, Kinds
  <2>2. want[n] = [parent |-> GroupOf(m, n), data |-> Data(m, m.nodes[n])]
    BY <2>1 DEF ToElements
  <2> QED
    BY <2>2
<1>6. ASSUME NEW l \in DOMAIN m.links
      PROVE  want[l].data = Data(m, m.links[l])
  <2>1. /\ l \notin Nodes /\ l \in Links /\ l \notin Groups
        /\ l \in DOMAIN m.nodes \cup DOMAIN m.links \cup Boxes(m)
    BY <1>1, Kinds
  <2>2. want[l] = [parent |-> None, data |-> Data(m, m.links[l])]
    BY <2>1 DEF ToElements
  <2> QED
    BY <2>2
<1>7. DOMAIN want \cap Nodes = DOMAIN m.nodes /\ DOMAIN want \cap Links = DOMAIN m.links
      /\ DOMAIN want \cap Groups = Boxes(m) /\ DOMAIN want \subseteq Items
  BY <1>1, <1>3, <1>4, Kinds DEF Items
<1>8. \A n \in DOMAIN m.nodes : want[n].parent = None \/ want[n].parent \in DOMAIN want \cap Groups
  BY <1>3, <1>5, <1>7
<1>9. \A b \in DOMAIN want \cap Groups : \E n \in DOMAIN m.nodes : want[n].parent = b
  BY <1>3, <1>5, <1>7
<1>10. \A l \in DOMAIN m.links : Ends[l] \subseteq DOMAIN want
  BY <1>1, <1>4
<1> QED
  BY <1>5, <1>6, <1>7, <1>8, <1>9, <1>10

LEMMA WithoutIs ==
  ASSUME NEW g, Typed(g), NEW ids, NEW h, h = Without(g, ids)
  PROVE  /\ Typed(h) /\ In(h) = In(g) \ ids /\ h.selected = g.selected \ ids
         /\ \A i \in In(g) \ ids : h.els[i] = g.els[i]
         /\ \A n \in Nodes :
              /\ n \in ids => h.leaf[n] = None /\ h.fold[n] = None
              /\ n \notin ids => /\ h.leaf[n] = g.leaf[n] /\ h.fold[n] = g.fold[n]
                                 /\ h.pos[n] = g.pos[n] /\ (n \in h.collapsed <=> n \in g.collapsed)
<1> DEFINE els == [i \in In(g) \ ids |-> g.els[i]]
           p  == [n \in Nodes |-> IF n \in ids THEN 0 ELSE g.pos[n]]
           lf == [n \in Nodes |-> IF n \in ids THEN None ELSE g.leaf[n]]
           fd == [n \in Nodes |-> IF n \in ids THEN None ELSE g.fold[n]]
<1>1. h = [els |-> els, pos |-> p, leaf |-> lf, fold |-> fd,
           collapsed |-> g.collapsed \ ids, hidden |-> g.hidden \ ids,
           faded |-> g.faded \ ids, receded |-> g.receded \ ids,
           selected |-> g.selected \ ids]
  BY DEF Without
<1>2. /\ p \in [Nodes -> Pos]
      /\ lf \in [Nodes -> [under : Heads, off : Pos] \cup {None}]
      /\ fd \in [Nodes -> (SUBSET Leaves) \cup {None}]
      /\ g.collapsed \subseteq In(g) /\ g.hidden \subseteq In(g) /\ g.faded \subseteq In(g)
      /\ g.receded \subseteq In(g) /\ g.selected \subseteq In(g)
  BY TypedIs, Positions
<1>3. /\ \A i \in In(g) \ ids : els[i] = g.els[i]
      /\ \A n \in Nodes : /\ n \in ids => lf[n] = None /\ fd[n] = None
                          /\ n \notin ids => lf[n] = g.leaf[n] /\ fd[n] = g.fold[n] /\ p[n] = g.pos[n]
      /\ DOMAIN els = In(g) \ ids
  OBVIOUS
<1> HIDE DEF els, p, lf, fd
<1>4. /\ h.els = els /\ h.pos = p /\ h.leaf = lf /\ h.fold = fd
      /\ h.collapsed = g.collapsed \ ids /\ h.hidden = g.hidden \ ids
      /\ h.faded = g.faded \ ids /\ h.receded = g.receded \ ids
      /\ h.selected = g.selected \ ids
      /\ h = [els |-> h.els, pos |-> h.pos, leaf |-> h.leaf, fold |-> h.fold,
              collapsed |-> h.collapsed, hidden |-> h.hidden, faded |-> h.faded,
              receded |-> h.receded, selected |-> h.selected]
  BY <1>1
<1>5. In(h) = In(g) \ ids
  BY <1>3, <1>4 DEF In
<1>6. /\ h.collapsed \subseteq In(h) /\ h.hidden \subseteq In(h) /\ h.faded \subseteq In(h)
      /\ h.receded \subseteq In(h) /\ h.selected \subseteq In(h)
  BY <1>2, <1>4, <1>5
<1>7. Typed(h)
  BY <1>2, <1>4, <1>6, TypedIs
<1> QED
  BY <1>3, <1>4, <1>5, <1>7

\* What a model has not, and which of it are switches with folded leaves.
Lost(g, m)    == In(g) \ DOMAIN ToElements(m)
LetOut(g, m)  == Folded(g) \cap Lost(g, m)

\* r is g after the reconciling of m.
Reconciled(g, m, r) ==
  /\ Sound(r) /\ r.els = ToElements(m) /\ r.selected = g.selected \ Lost(g, m)
  /\ \A n \in Nodes \ Lost(g, m) :
       /\ r.fold[n] = g.fold[n]
       /\ n \in FollowersOf(g, LetOut(g, m)) => r.leaf[n] = None /\ n \notin r.collapsed
       /\ n \notin FollowersOf(g, LetOut(g, m)) =>
            r.leaf[n] = g.leaf[n] /\ r.pos[n] = g.pos[n] /\ (n \in r.collapsed <=> n \in g.collapsed)
  /\ \A n \in Nodes \ Lost(g, m), s \in LetOut(g, m) :
       n \in Followers(g, s) /\ (\A t \in LetOut(g, m) : n \in Followers(g, t) => t = s)
         => r.pos[n] = Plus(g.pos[s], Offset(g, n))

\* Departing: the nodes and links of the model stay, and the boxes that the
\* others leave empty are all that is left of them.
LEMMA DepartIs ==
  ASSUME NEW g, Sound(g), NEW m \in Models, NEW want, want = ToElements(m)
  PROVE  /\ Typed(Depart(g, want))
         /\ In(Depart(g, want)) = In(g) \ (Lost(g, m) \ Groups)
         /\ Depart(g, want).selected = g.selected \ (Lost(g, m) \ Groups)
         /\ \A n \in Nodes : n \in Lost(g, m) =>
              Depart(g, want).leaf[n] = None /\ Depart(g, want).fold[n] = None
         /\ \E r : /\ Released(g, LetOut(g, m), r)
                   /\ \A n \in Nodes \ Lost(g, m) :
                        /\ Depart(g, want).leaf[n] = r.leaf[n] /\ Depart(g, want).fold[n] = r.fold[n]
                        /\ Depart(g, want).pos[n] = r.pos[n]
                        /\ n \in Depart(g, want).collapsed <=> n \in r.collapsed
<1> DEFINE gone == {i \in In(g) \ DOMAIN want : ~IsParent(g, i)}
           r   == ReleaseEach(g, gone \cap Switches(g))
           ids == gone \cup ConnectedEdges(g, gone)
           d   == Without(r, ids)
<1>g. Typed(g) /\ Framed(g) /\ Scratched(g)
  BY DEF Sound
<1>1. Depart(g, want) = d
  BY DEF Depart
<1>2. /\ DOMAIN want \subseteq Items /\ DOMAIN want \cap Nodes = DOMAIN m.nodes
      /\ DOMAIN want \cap Links = DOMAIN m.links
      /\ \A l \in DOMAIN m.links : Ends[l] \subseteq DOMAIN want
  BY WantIs
<1>3. \A i \in In(g) : IsParent(g, i) => i \in Groups
  <2> SUFFICES ASSUME NEW b \in In(g), IsParent(g, b) PROVE b \in Groups
    OBVIOUS
  <2>1. PICK n \in Drawn(g) : g.els[n].parent = b
    BY DEF IsParent, Children
  <2> QED
    BY <1>g, <2>1, Kinds DEF Framed
<1>4. gone = Lost(g, m) \ Groups
  BY <1>g, <1>3 DEF Framed, Lost
<1>5. ids = Lost(g, m) \ Groups
  <2>1. \A e \in ConnectedEdges(g, gone) : e \in Lost(g, m) /\ e \notin Groups
    <3> SUFFICES ASSUME NEW e \in In(g) \cap Links, Ends[e] \cap gone # {}
                 PROVE  e \in Lost(g, m) /\ e \notin Groups
      BY DEF ConnectedEdges
    <3>1. e \notin DOMAIN want
      BY <1>2
    <3> QED
      BY <3>1, Kinds DEF Lost
  <2> QED
    BY <1>4, <2>1
<1>6. Released(g, LetOut(g, m), r)
  <2> DEFINE ss == gone \cap Switches(g)
  <2>1. ss \in SUBSET Nodes /\ \A s \in ss : IsCollapsed(g, s) => s \in Heads
    BY <1>g, FoldedAreSwitches
  <2>2. {s \in ss : IsCollapsed(g, s)} = LetOut(g, m)
    <3> HIDE DEF gone
    <3>1. \A s \in LetOut(g, m) : s \in Switches(g) /\ s \in gone /\ IsCollapsed(g, s)
      BY <1>g, <1>4, FoldedAreSwitches, Kinds DEF LetOut, Folded
    <3>2. \A s \in ss : IsCollapsed(g, s) => s \in LetOut(g, m)
      BY <1>4, <1>g, FoldedAreSwitches DEF LetOut, Folded
    <3> QED
      BY <3>1, <3>2
  <2> HIDE DEF ss
  <2>3. Released(g, {s \in ss : IsCollapsed(g, s)}, ReleaseEach(g, ss))
    BY <1>g, <2>1, ReleaseEachIs
  <2> QED
    BY <2>2, <2>3 DEF ss
<1> HIDE DEF gone, r, ids, d
<1>7. Typed(r) /\ In(r) = In(g) /\ r.selected = g.selected
  BY <1>6, SameElements DEF Released, Kept
<1>8. /\ Typed(d) /\ In(d) = In(r) \ ids /\ d.selected = r.selected \ ids
      /\ \A n \in Nodes :
           /\ n \in ids => d.leaf[n] = None /\ d.fold[n] = None
           /\ n \notin ids => /\ d.leaf[n] = r.leaf[n] /\ d.fold[n] = r.fold[n]
                              /\ d.pos[n] = r.pos[n] /\ (n \in d.collapsed <=> n \in r.collapsed)
  BY <1>7, WithoutIs DEF d
<1>9. \A n \in Nodes : n \in ids <=> n \in Lost(g, m)
  BY <1>5, Kinds
<1>10. \A n \in Nodes : n \in Lost(g, m) => d.leaf[n] = None /\ d.fold[n] = None
  BY <1>8, <1>9
<1>11. \A n \in Nodes \ Lost(g, m) :
         /\ d.leaf[n] = r.leaf[n] /\ d.fold[n] = r.fold[n] /\ d.pos[n] = r.pos[n]
         /\ n \in d.collapsed <=> n \in r.collapsed
  BY <1>8, <1>9
<1> QED
  BY <1>1, <1>5, <1>6, <1>7, <1>8, <1>10, <1>11

LEMMA ReconcileIs ==
  ASSUME NEW g, Sound(g), NEW m \in Models
  PROVE  Reconciled(g, m, Reconcile(g, m)) /\ Added(g, m) = DOMAIN ToElements(m) \ In(g)
<1> DEFINE want == ToElements(m)
           d     == Depart(g, want)
           es    == [i \in In(d) \cup DOMAIN want |-> IF i \in DOMAIN want THEN want[i] ELSE d.els[i]]
           a     == [d EXCEPT !.els = es]
           ids   == {i \in In(a) \ (DOMAIN want \cup Links) : ~IsParent(a, i)}
           r     == Without(a, ids)
<1>g. Typed(g) /\ Framed(g) /\ Scratched(g)
  BY DEF Sound
<1>w. want = [i \in DOMAIN want |-> want[i]]
  <2> DEFINE D == DOMAIN m.nodes \cup DOMAIN m.links \cup Boxes(m)
             V(i) == CASE i \in Nodes  -> [parent |-> GroupOf(m, i), data |-> Data(m, m.nodes[i])]
                       [] i \in Links  -> [parent |-> None, data |-> Data(m, m.links[i])]
                       [] i \in Groups -> [parent |-> None, data |-> None]
  <2>1. want = [i \in D |-> V(i)]
    BY Zenon DEF ToElements
  <2> HIDE DEF want, D, V
  <2> QED
    BY <2>1
<1>a. Added(g, m) = DOMAIN want \ In(d)
  BY DEF Added
<1>l. Lost(g, m) = In(g) \ DOMAIN want
  BY DEF Lost
<1>1. /\ DOMAIN want \subseteq Items
      /\ DOMAIN want \cap Nodes = DOMAIN m.nodes
      /\ DOMAIN want \cap Links = DOMAIN m.links
      /\ \A n \in DOMAIN m.nodes : want[n].parent = None \/ want[n].parent \in DOMAIN want \cap Groups
      /\ \A l \in DOMAIN m.links : Ends[l] \subseteq DOMAIN want
      /\ \A b \in DOMAIN want \cap Groups : \E n \in DOMAIN m.nodes : want[n].parent = b
  <2> HIDE DEF want
  <2>1. want = ToElements(m)
    BY DEF want
  <2> QED
    BY <2>1, WantIs
<1>2. Reconcile(g, m) = SweepChildless(AddAndPatch(d, want), want)
  BY DEF Reconcile
<1>3. AddAndPatch(d, want) = a
  <2> HIDE DEF d, want
  <2>1. {i \in DOMAIN want : i \in Links => Ends[i] \subseteq In(d) \cup DOMAIN want} = DOMAIN want
    BY <1>1
  <2> QED
    BY <2>1 DEF AddAndPatch
<1>4. SweepChildless(a, want) = r
  BY DEF SweepChildless
<1>5. /\ Typed(d) /\ In(d) = In(g) \ (Lost(g, m) \ Groups)
      /\ d.selected = g.selected \ (Lost(g, m) \ Groups)
      /\ \A n \in Nodes : n \in Lost(g, m) => d.leaf[n] = None /\ d.fold[n] = None
  <2> HIDE DEF want, d
  <2>1. want = ToElements(m)
    BY DEF want
  <2> QED
    BY <2>1, DepartIs DEF d
<1>6. PICK q : /\ Released(g, LetOut(g, m), q)
               /\ \A n \in Nodes \ Lost(g, m) :
                    /\ d.leaf[n] = q.leaf[n] /\ d.fold[n] = q.fold[n] /\ d.pos[n] = q.pos[n]
                    /\ n \in d.collapsed <=> n \in q.collapsed
  <2> HIDE DEF want, d
  <2>1. want = ToElements(m)
    BY DEF want
  <2> QED
    BY <2>1, DepartIs DEF d
<1> HIDE DEF want, d
<1>7. /\ DOMAIN es = In(d) \cup DOMAIN want
      /\ \A i \in DOMAIN want : es[i] = want[i]
  OBVIOUS
<1> HIDE DEF es
<1>8. /\ a.els = es /\ a.pos = d.pos /\ a.leaf = d.leaf /\ a.fold = d.fold
      /\ a.collapsed = d.collapsed /\ a.hidden = d.hidden /\ a.faded = d.faded
      /\ a.receded = d.receded /\ a.selected = d.selected
      /\ a = [els |-> a.els, pos |-> a.pos, leaf |-> a.leaf, fold |-> a.fold,
              collapsed |-> a.collapsed, hidden |-> a.hidden, faded |-> a.faded,
              receded |-> a.receded, selected |-> a.selected]
  <2>1. d = [els |-> d.els, pos |-> d.pos, leaf |-> d.leaf, fold |-> d.fold,
              collapsed |-> d.collapsed, hidden |-> d.hidden, faded |-> d.faded,
              receded |-> d.receded, selected |-> d.selected]
    BY <1>5, CoreRecord
  <2> QED
    BY <2>1
<1> HIDE DEF a
<1>9. In(a) = In(d) \cup DOMAIN want
  BY <1>7, <1>8 DEF In
<1>10. Typed(a)
  <2>1. In(d) \subseteq In(a)
    BY <1>9
  <2> QED
    BY <1>5, <1>8, <2>1, TypedIs
<1>11. ids = Lost(g, m) \cap Groups
  <2>1. ASSUME NEW i \in Lost(g, m) \cap Groups PROVE i \in ids
    <3>1. i \in In(a) \ (DOMAIN want \cup Links)
      BY <1>5, <1>9, <1>l, Kinds
    <3>2. ASSUME NEW n \in Drawn(a), a.els[n].parent = i PROVE FALSE
      <4>1. n \in DOMAIN m.nodes
        BY <1>1, <1>5, <1>9, <1>l, Kinds DEF Drawn
      <4>2. a.els[n] = want[n]
        BY <1>1, <1>7, <1>8, <4>1
      <4> QED
        BY <1>1, <1>l, <3>2, <4>1, <4>2, Kinds DEF Items
    <3>3. ~IsParent(a, i)
      BY <3>2 DEF IsParent, Children
    <3> QED
      BY <3>1, <3>3
  <2>2. ASSUME NEW i \in ids PROVE i \in Lost(g, m) \cap Groups
    <3>1. i \in In(a) /\ i \notin DOMAIN want
      OBVIOUS
    <3> QED
      BY <1>5, <1>9, <1>l, <3>1
  <2> QED
    BY <2>1, <2>2
<1> HIDE DEF ids
<1>12. /\ Typed(r) /\ In(r) = In(a) \ ids /\ r.selected = a.selected \ ids
       /\ \A i \in In(a) \ ids : r.els[i] = a.els[i]
       /\ \A n \in Nodes :
              /\ n \in ids => r.leaf[n] = None /\ r.fold[n] = None
              /\ n \notin ids => /\ r.leaf[n] = a.leaf[n] /\ r.fold[n] = a.fold[n]
                                 /\ r.pos[n] = a.pos[n] /\ (n \in r.collapsed <=> n \in a.collapsed)
  BY <1>10, WithoutIs
<1>13. In(r) = DOMAIN want
  BY <1>5, <1>9, <1>11, <1>12, <1>l
<1>14. r.els = want
  <2>1. In(a) \ ids = DOMAIN want
    BY <1>12, <1>13
  <2>2. r.els = [i \in In(a) \ ids |-> a.els[i]]
    BY DEF Without
  <2>3. r.els = [i \in DOMAIN want |-> want[i]]
    <3> HIDE DEF r
    <3> QED
      BY <1>7, <1>8, <2>1, <2>2
  <2> QED
    BY <1>w, <2>3
<1> HIDE DEF r
<1>15. \A n \in Nodes : n \notin ids
  BY <1>11, Kinds
<1>16. r.selected = g.selected \ Lost(g, m)
  BY <1>5, <1>8, <1>11, <1>12
<1>17. \A n \in Nodes :
         /\ n \in Lost(g, m) => r.leaf[n] = None /\ r.fold[n] = None
         /\ n \notin Lost(g, m) =>
              /\ r.leaf[n] = q.leaf[n] /\ r.fold[n] = q.fold[n] /\ r.pos[n] = q.pos[n]
              /\ n \in r.collapsed <=> n \in q.collapsed
  BY <1>5, <1>6, <1>8, <1>12, <1>15
<1>18. ASSUME NEW n \in Nodes \ Lost(g, m)
       PROVE  /\ r.fold[n] = g.fold[n]
              /\ n \in FollowersOf(g, LetOut(g, m)) => r.leaf[n] = None /\ n \notin r.collapsed
              /\ n \notin FollowersOf(g, LetOut(g, m)) =>
                   r.leaf[n] = g.leaf[n] /\ r.pos[n] = g.pos[n] /\ (n \in r.collapsed <=> n \in g.collapsed)
  <2>1. n \notin LetOut(g, m)
    BY DEF LetOut
  <2> QED
    BY <1>6, <1>17, <2>1 DEF Released
<1>19. \A n \in Nodes \ Lost(g, m), s \in LetOut(g, m) :
         n \in Followers(g, s) /\ (\A t \in LetOut(g, m) : n \in Followers(g, t) => t = s)
           => r.pos[n] = Plus(g.pos[s], Offset(g, n))
  BY <1>6, <1>17 DEF Released
<1>20. Framed(r)
  <2>1. In(r) \subseteq Items /\ Drawn(r) = DOMAIN m.nodes
    BY <1>1, <1>13 DEF Drawn
  <2>2. \A n \in Drawn(r) : r.els[n].parent \in Groups \cup {None}
    BY <1>1, <1>14, <2>1
  <2>3. ASSUME NEW b \in In(r) \cap Groups PROVE IsParent(r, b)
    <3>1. PICK n \in DOMAIN m.nodes : want[n].parent = b
      BY <1>1, <1>13
    <3> QED
      BY <1>14, <2>1, <3>1 DEF IsParent, Children
  <2> QED
    BY <2>1, <2>2, <2>3 DEF Framed
<1>21. Scratched(r)
  <2> SUFFICES ASSUME NEW n \in Nodes
               PROVE  /\ r.leaf[n] # None => n \in Drawn(r) \cap Leaves
                      /\ r.fold[n] # None => n \in Switches(r)
    BY DEF Scratched
  <2>1. /\ g.leaf[n] # None => n \in Drawn(g) \cap Leaves
        /\ g.fold[n] # None => n \in Switches(g)
    BY <1>g DEF Scratched
  <2>2. n \in Drawn(g) /\ n \notin Lost(g, m) => n \in Drawn(r)
    BY <1>13, <1>l DEF Drawn
  <2>3. r.leaf[n] # None => n \notin Lost(g, m) /\ g.leaf[n] # None
    BY <1>17, <1>18
  <2>4. r.fold[n] # None => n \notin Lost(g, m) /\ g.fold[n] # None
    BY <1>17, <1>18
  <2> QED
    BY <2>1, <2>2, <2>3, <2>4 DEF Switches
<1>22. Sound(r)
  BY <1>12, <1>20, <1>21 DEF Sound
<1>23. Reconciled(g, m, r)
  BY <1>14, <1>16, <1>18, <1>19, <1>22 DEF Reconciled, want
<1>24. Added(g, m) = DOMAIN want \ In(g)
  BY <1>5, <1>a, <1>l
<1> QED
  BY <1>2, <1>3, <1>4, <1>23, <1>24 DEF want

-----------------------------------------------------------------------------
(* Slides. *)

\* What two cores with the same elements have in common.
LEMMA KeptIs ==
  ASSUME NEW g, NEW h, Kept(g, h)
  PROVE  /\ In(h) = In(g) /\ Drawn(h) = Drawn(g) /\ Switches(h) = Switches(g)
         /\ Framed(h) = Framed(g)
         /\ \A s : h.fold[s] = g.fold[s] => Followers(h, s) = Followers(g, s)
         /\ \A b : Children(h, b) = Children(g, b)
BY SameElements DEF Kept

\* Scratch is of a leaf that is in, and a list is of a switch.
LEMMA ScratchIs ==
  ASSUME NEW g, Sound(g), NEW n \in Nodes
  PROVE  /\ g.leaf[n] # None =>
              /\ g.leaf[n].under \in Heads /\ g.leaf[n].under \in Nodes /\ g.leaf[n].off \in Pos
              /\ n \in Leaves /\ n \in Drawn(g)
         /\ g.fold[n] # None => n \in Switches(g) /\ n \in Heads /\ g.fold[n] \subseteq Leaves
         /\ g.pos[n] \in Pos
<1>1. Typed(g) /\ Scratched(g)
  BY DEF Sound
<1>2. g.leaf[n] \in [under : Heads, off : Pos] \cup {None} /\ g.fold[n] \in (SUBSET Leaves) \cup {None}
  BY <1>1, TypedIs
<1>3. /\ g.leaf[n] # None => n \in Drawn(g) \cap Leaves
      /\ g.fold[n] # None => n \in Switches(g)
  BY <1>1 DEF Scratched
<1>4. g.pos[n] \in Pos
  BY <1>1, TypedIs
<1> QED
  BY <1>1, <1>2, <1>3, <1>4, FoldedAreSwitches, Kinds

\* A slide fits a core with the elements of one it fits, unless the switch that
\* it folds into has got another list.
LEMMA StillFits ==
  ASSUME NEW g, NEW h, In(h) = In(g), Drawn(h) = Drawn(g), Switches(h) = Switches(g),
         NEW s, SlideFits(g, s),
         s.into /\ s.alive => h.fold[s.sw] = None \/ h.fold[s.sw] = g.fold[s.sw]
  PROVE  SlideFits(h, s)
BY DEF SlideFits

\* A core that only moved.
LEMMA MovedLoose ==
  ASSUME NEW g, NEW sl, Loose(g, sl), NEW h, Reshaped(g, h),
         h.pos \in [Nodes -> Pos], h.leaf = g.leaf, h.fold = g.fold, h.collapsed = g.collapsed
  PROVE  Loose(h, sl) /\ Kept(g, h) /\ (Boxed(g) => Boxed(h))
<1>1. /\ Typed(g) /\ Scratched(g) /\ Framed(g) /\ Owned(g)
      /\ sl \in Seq(Slide) /\ AllFit(g, sl) /\ Tracked(g, sl)
  BY DEF Loose, Sound
<1>2. /\ h.leaf \in [Nodes -> [under : Heads, off : Pos] \cup {None}]
      /\ h.fold \in [Nodes -> (SUBSET Leaves) \cup {None}]
      /\ h.collapsed \subseteq In(g)
  BY <1>1, TypedIs
<1>3. Typed(h) /\ Kept(g, h) /\ In(h) = In(g)
  BY <1>1, <1>2, ReshapedTyped
<1>4. /\ Drawn(h) = Drawn(g) /\ Switches(h) = Switches(g) /\ Framed(h)
      /\ \A s : Followers(h, s) = Followers(g, s)
      /\ \A b : Children(h, b) = Children(g, b)
  BY <1>1, <1>3, KeptIs
<1>5. Scratched(h)
  BY <1>1, <1>4 DEF Scratched
<1>6. OffScreen(h) = OffScreen(g)
  BY <1>3 DEF OffScreen, Kept
<1>7. Boxed(g) => Boxed(h)
  BY <1>3, <1>4, <1>6 DEF Boxed
<1>8. Owned(h)
  BY <1>1, <1>4 DEF Owned
<1>9. AllFit(h, sl)
  <2> SUFFICES ASSUME NEW k \in 1 .. Len(sl) PROVE SlideFits(h, sl[k])
    BY DEF AllFit
  <2>1. SlideFits(g, sl[k])
    BY <1>1 DEF AllFit
  <2> QED
    BY <1>3, <1>4, <2>1, StillFits
<1>10. Tracked(h, sl)
  BY <1>1, <1>4 DEF Tracked
<1> QED
  BY <1>1, <1>3, <1>4, <1>5, <1>7, <1>8, <1>9, <1>10 DEF Loose, Sound

LEMMA MovedWhole ==
  ASSUME NEW g, NEW sl, Whole(g, sl), NEW h, Reshaped(g, h),
         h.pos \in [Nodes -> Pos], h.leaf = g.leaf, h.fold = g.fold, h.collapsed = g.collapsed
  PROVE  Whole(h, sl) /\ Kept(g, h)
BY MovedLoose DEF Whole, Loose

\* A slide ends at a position, and folding starts from one.
LEMMA SlideIs ==
  ASSUME NEW s, s \in Slide
  PROVE  /\ s.into \in BOOLEAN /\ s.sw \in Nodes /\ s.alive \in BOOLEAN
         /\ DOMAIN s.land \subseteq Nodes /\ \A l \in DOMAIN s.land : s.land[l] \in Pos
         /\ s.edges \subseteq Links
<1>1. PICK S \in SUBSET Nodes : s.land \in [S -> Pos]
  BY DEF Slide
<1>2. s.into \in BOOLEAN /\ s.sw \in Nodes /\ s.alive \in BOOLEAN /\ s.edges \subseteq Links
  BY DEF Slide
<1> QED
  BY <1>1, <1>2

LEMMA IsSlide ==
  ASSUME NEW i \in BOOLEAN, NEW n \in Nodes, NEW S \in SUBSET Nodes, NEW f \in [S -> Pos],
         NEW es \in SUBSET Links, NEW a \in BOOLEAN
  PROVE  [into |-> i, sw |-> n, alive |-> a, land |-> f, edges |-> es] \in Slide
<1>1. f \in UNION {[T -> Pos] : T \in SUBSET Nodes}
  OBVIOUS
<1> HIDE DEF Slide
<1> QED
  BY <1>1 DEF Slide

LEMMA LeafNeighborsAre ==
  ASSUME NEW g, NEW s
  PROVE  /\ LeafNeighbors(g, s) \subseteq Leaves /\ LeafNeighbors(g, s) \subseteq Drawn(g)
         /\ LeafNeighbors(g, s) \subseteq Nodes
         /\ \A n \in LeafNeighbors(g, s) : g.leaf[n] = None
BY DEF LeafNeighbors, Leaves, Heads, Drawn

\* Every fold that is on its way has its list.
Standing(g, sl) ==
  \A k \in 1 .. Len(sl) : sl[k].into /\ sl[k].alive => g.fold[sl[k].sw] # None

LEMMA FoldWhole ==
  ASSUME NEW g, NEW sl, Whole(g, sl), Standing(g, sl), NEW s \in Switches(g), CanFold(g, s)
  PROVE  /\ Whole(BeginFold(g, s), Append(sl, FoldSlide(g, s)))
         /\ Standing(BeginFold(g, s), Append(sl, FoldSlide(g, s)))
         /\ Kept(g, BeginFold(g, s))
<1> DEFINE ls == LeafNeighbors(g, s)
           at(n) == [under |-> s, off |-> Minus(g.pos[n], g.pos[s])]
           lf == [n \in Nodes |-> IF n \in ls THEN at(n) ELSE g.leaf[n]]
           fd == [g.fold EXCEPT ![s] = ls]
           h  == BeginFold(g, s)
           a  == FoldSlide(g, s)
           tl == Append(sl, a)
<1>0. /\ Sound(g) /\ Typed(g) /\ Scratched(g) /\ Framed(g) /\ Boxed(g) /\ Owned(g)
      /\ sl \in Seq(Slide) /\ AllFit(g, sl) /\ Tracked(g, sl)
  BY DEF Whole, Sound
<1>s. s \in Heads /\ s \in Nodes /\ s \in Drawn(g) /\ g.fold[s] = None
  BY <1>0, FoldedAreSwitches DEF CanFold, IsCollapsed
<1>l. /\ ls \subseteq Leaves /\ ls \subseteq Drawn(g) /\ ls \subseteq Nodes
      /\ \A n \in ls : g.leaf[n] = None
  BY LeafNeighborsAre
<1>p. \A n \in Nodes : g.pos[n] \in Pos
  BY <1>0, TypedIs
<1>1. h = [els |-> g.els, pos |-> g.pos, leaf |-> lf, fold |-> fd,
           collapsed |-> g.collapsed, hidden |-> g.hidden, faded |-> g.faded,
           receded |-> g.receded, selected |-> g.selected]
  <2>1. g = [els |-> g.els, pos |-> g.pos, leaf |-> g.leaf, fold |-> g.fold,
              collapsed |-> g.collapsed, hidden |-> g.hidden, faded |-> g.faded,
              receded |-> g.receded, selected |-> g.selected]
    BY <1>0, CoreRecord
  <2> DEFINE k1 == [g EXCEPT !.leaf = lf]
             k2 == [k1 EXCEPT !.fold = fd]
  <2>2. h = k2
    BY DEF BeginFold
  <2> HIDE DEF lf, fd, h
  <2>3. k1 = [els |-> g.els, pos |-> g.pos, leaf |-> lf, fold |-> g.fold,
              collapsed |-> g.collapsed, hidden |-> g.hidden, faded |-> g.faded,
              receded |-> g.receded, selected |-> g.selected]
    BY <2>1
  <2> HIDE DEF k1
  <2> QED
    BY <2>2, <2>3
<1>2. a = [into |-> TRUE, sw |-> s, alive |-> TRUE,
           land |-> [l \in ls |-> g.pos[s]], edges |-> ConnectedEdges(g, ls)]
  BY DEF FoldSlide
<1>3. /\ fd[s] = ls
      /\ \A n \in Nodes : n # s => fd[n] = g.fold[n]
      /\ fd \in [Nodes -> (SUBSET Leaves) \cup {None}]
  <2>1. g.fold \in [Nodes -> (SUBSET Leaves) \cup {None}]
    BY <1>0, TypedIs
  <2> HIDE DEF ls
  <2> QED
    BY <1>s, <1>l, <2>1
<1>4. lf \in [Nodes -> [under : Heads, off : Pos] \cup {None}]
  <2>1. g.leaf \in [Nodes -> [under : Heads, off : Pos] \cup {None}]
    BY <1>0, TypedIs
  <2>2. \A n \in Nodes : at(n) \in [under : Heads, off : Pos]
    BY <1>s, <1>p, Positions
  <2> HIDE DEF at, ls
  <2> QED
    BY <2>1, <2>2
<1>5. \A n \in Nodes : /\ n \in ls => lf[n].under = s /\ lf[n] # None
                       /\ n \notin ls => lf[n] = g.leaf[n]
  <2>1. \A n \in Nodes : at(n).under = s /\ at(n) # None
    <3>1. \A n \in Nodes : Minus(g.pos[n], g.pos[s]) \in Pos
      BY <1>s, <1>p, Positions
    <3> QED
      BY <1>s, <3>1, ScratchIsNotNull
  <2> HIDE DEF at, ls
  <2> QED
    BY <2>1
<1>6. ls # None
  BY <1>l, SetsAreNotNull
<1>7. a \in Slide /\ a.sw = s /\ a.into /\ a.alive /\ DOMAIN a.land = ls
      /\ a.edges = ConnectedEdges(g, ls)
  <2> DEFINE land == [l \in ls |-> g.pos[s]]
  <2>1. land \in [ls -> Pos] /\ DOMAIN land = ls
    BY <1>p, <1>s
  <2>2. ConnectedEdges(g, ls) \in SUBSET Links
    BY DEF ConnectedEdges
  <2>3. ls \in SUBSET Nodes
    BY <1>l
  <2>4. a = [into |-> TRUE, sw |-> s, alive |-> TRUE, land |-> land, edges |-> ConnectedEdges(g, ls)]
    BY <1>2
  <2> HIDE DEF land, ls, a
  <2>5. a \in Slide
    BY <1>s, <2>1, <2>2, <2>3, <2>4, IsSlide
  <2> QED
    BY <2>1, <2>4, <2>5
<1>8. ConnectedEdges(g, ls) \subseteq In(g)
  BY DEF ConnectedEdges
<1> HIDE DEF ls, at, lf, fd, h, a
<1>9. /\ h.pos = g.pos /\ h.leaf = lf /\ h.fold = fd /\ h.collapsed = g.collapsed /\ Reshaped(g, h)
  BY <1>1 DEF Reshaped
<1>10. Typed(h) /\ Kept(g, h)
  <2>1. g.pos \in [Nodes -> Pos] /\ g.collapsed \subseteq In(g)
    BY <1>0, TypedIs
  <2> QED
    BY <1>0, <1>3, <1>4, <1>9, <2>1, ReshapedTyped
<1>11. /\ In(h) = In(g) /\ Drawn(h) = Drawn(g) /\ Switches(h) = Switches(g) /\ Framed(h)
       /\ \A n \in Nodes : n # s => Followers(h, n) = Followers(g, n)
       /\ \A b : Children(h, b) = Children(g, b)
  BY <1>0, <1>3, <1>9, <1>10, KeptIs
<1>12. Scratched(h)
  <2> SUFFICES ASSUME NEW n \in Nodes
               PROVE  /\ h.leaf[n] # None => n \in Drawn(g) \cap Leaves
                      /\ h.fold[n] # None => n \in Switches(g)
    BY <1>11 DEF Scratched
  <2>1. /\ g.leaf[n] # None => n \in Drawn(g) \cap Leaves
        /\ g.fold[n] # None => n \in Switches(g)
    BY <1>0 DEF Scratched
  <2> QED
    BY <1>3, <1>5, <1>9, <1>l, <2>1
<1>13. Boxed(h)
  <2>1. OffScreen(h) = OffScreen(g)
    BY <1>9, <1>10 DEF OffScreen, Kept
  <2> QED
    BY <1>0, <1>9, <1>11, <2>1 DEF Boxed
<1>14. Owned(h)
  <2> SUFFICES ASSUME NEW l \in g.collapsed \cap Nodes
               PROVE  \E t \in Switches(g) : l \in Followers(h, t)
    BY <1>9, <1>11 DEF Owned
  <2>1. PICK t \in Switches(g) : l \in Followers(g, t)
    BY <1>0 DEF Owned
  <2>2. t # s /\ t \in Nodes
    BY <1>0, <1>s, <2>1, FoldedAreSwitches DEF Followers
  <2> QED
    BY <1>11, <2>1, <2>2
<1>t. /\ tl \in Seq(Slide) /\ Len(tl) = Len(sl) + 1 /\ Len(sl) \in Nat
      /\ \A k \in 1 .. Len(sl) : tl[k] = sl[k] /\ sl[k] \in Slide
      /\ tl[Len(sl) + 1] = a
  BY <1>0, <1>7
<1>u. \A k \in 1 .. Len(tl) : k \in 1 .. Len(sl) \/ k = Len(sl) + 1
  BY <1>t
<1>v. \A k \in 1 .. Len(sl) : k \in 1 .. Len(tl)
  BY <1>t
<1> HIDE DEF tl
<1>15. Standing(h, tl)
  <2> SUFFICES ASSUME NEW k \in 1 .. Len(tl), tl[k].into, tl[k].alive
               PROVE  h.fold[tl[k].sw] # None
    BY DEF Standing
  <2>1. CASE k \in 1 .. Len(sl)
    <3>1. g.fold[sl[k].sw] # None /\ sl[k].sw \in Nodes
      BY <1>t, <2>1, SlideIs DEF Standing
    <3> QED
      BY <1>3, <1>6, <1>9, <1>t, <2>1, <3>1
  <2>2. CASE k = Len(sl) + 1
    BY <1>3, <1>6, <1>7, <1>9, <1>t, <2>2
  <2> QED
    BY <1>u, <2>1, <2>2
<1>16. AllFit(h, tl)
  <2> SUFFICES ASSUME NEW k \in 1 .. Len(tl) PROVE SlideFits(h, tl[k])
    BY DEF AllFit
  <2>1. CASE k \in 1 .. Len(sl)
    <3>1. SlideFits(g, sl[k]) /\ sl[k].sw \in Nodes
      BY <1>0, <1>t, <2>1, SlideIs DEF AllFit
    <3>2. sl[k].into /\ sl[k].alive => sl[k].sw # s
      BY <1>s, <2>1 DEF Standing
    <3>3. sl[k].into /\ sl[k].alive => h.fold[sl[k].sw] = g.fold[sl[k].sw]
      BY <1>3, <1>9, <3>1, <3>2
    <3> QED
      BY <1>11, <1>t, <2>1, <3>1, <3>3, StillFits
  <2>2. CASE k = Len(sl) + 1
    BY <1>3, <1>7, <1>8, <1>9, <1>11, <1>l, <1>t, <2>2 DEF SlideFits
  <2> QED
    BY <1>u, <2>1, <2>2
<1>17. Tracked(h, tl)
  <2> SUFFICES ASSUME NEW n \in Nodes, h.leaf[n] # None
               PROVE  \/ n \in Followers(h, h.leaf[n].under)
                      \/ \E k \in 1 .. Len(tl) : ~tl[k].into /\ n \in DOMAIN tl[k].land
    BY DEF Tracked
  <2>1. CASE n \in ls
    BY <1>3, <1>5, <1>6, <1>9, <1>11, <1>l, <2>1 DEF Followers, Drawn
  <2>2. CASE n \notin ls
    <3>1. h.leaf[n] = g.leaf[n]
      BY <1>5, <1>9, <2>2
    <3>2. CASE n \in Followers(g, g.leaf[n].under)
      <4>1. g.leaf[n].under # s /\ g.leaf[n].under \in Nodes
        BY <1>0, <1>s, <3>1, <3>2, ScratchIs DEF Followers
      <4> QED
        BY <1>11, <3>1, <3>2, <4>1
    <3>3. CASE \E k \in 1 .. Len(sl) : ~sl[k].into /\ n \in DOMAIN sl[k].land
      BY <1>t, <1>v, <3>3
    <3> QED
      BY <1>0, <3>1, <3>2, <3>3 DEF Tracked
  <2> QED
    BY <2>1, <2>2
<1>18. Whole(h, tl)
  BY <1>10, <1>11, <1>12, <1>13, <1>14, <1>16, <1>17, <1>t DEF Whole, Sound
<1> QED
  BY <1>10, <1>15, <1>18 DEF h, tl, a

LEMMA UnfoldWhole ==
  ASSUME NEW g, NEW sl, Whole(g, sl), NEW s \in Switches(g), IsCollapsed(g, s)
  PROVE  /\ Whole(BeginUnfold(g, s), Append(sl, UnfoldSlide(g, s)))
         /\ Kept(g, BeginUnfold(g, s))
<1> DEFINE ls == Followers(g, s)
           p  == [n \in Nodes |-> IF n \in ls THEN g.pos[s] ELSE g.pos[n]]
           fd == [g.fold EXCEPT ![s] = None]
           c  == g.collapsed \ (ls \cup ConnectedEdges(g, ls))
           u  == Unfold(g, s, ls)
           y  == SyncGroupBoxes(u)
           h  == BeginUnfold(g, s)
           a  == UnfoldSlide(g, s)
           tl == Append(sl, a)
<1>0. /\ Sound(g) /\ Typed(g) /\ Scratched(g) /\ Framed(g) /\ Boxed(g) /\ Owned(g)
      /\ sl \in Seq(Slide) /\ AllFit(g, sl) /\ Tracked(g, sl)
  BY DEF Whole, Sound
<1>s. s \in Heads /\ s \in Nodes /\ s \in Drawn(g) /\ g.fold[s] # None
  BY <1>0, FoldedAreSwitches DEF IsCollapsed
<1>l. /\ ls \subseteq Leaves /\ ls \subseteq Drawn(g) /\ ls \subseteq Nodes
  BY <1>0, <1>s, FollowersAreLeaves, Kinds
<1>p. \A n \in Nodes : g.pos[n] \in Pos
  BY <1>0, TypedIs
<1>1. u = [els |-> g.els, pos |-> g.pos, leaf |-> g.leaf, fold |-> fd,
           collapsed |-> c, hidden |-> g.hidden, faded |-> g.faded,
           receded |-> g.receded, selected |-> g.selected]
  <2>1. g = [els |-> g.els, pos |-> g.pos, leaf |-> g.leaf, fold |-> g.fold,
              collapsed |-> g.collapsed, hidden |-> g.hidden, faded |-> g.faded,
              receded |-> g.receded, selected |-> g.selected]
    BY <1>0, CoreRecord
  <2> HIDE DEF ls
  <2>2. u = [g EXCEPT !.collapsed = c, !.fold = fd]
    BY DEF Unfold
  <2> HIDE DEF c, fd, u
  <2> QED
    BY <2>1, <2>2
<1>2. h = [y EXCEPT !.pos = [n \in Nodes |-> IF n \in ls THEN g.pos[s] ELSE @[n]]]
  BY DEF BeginUnfold
<1>3. /\ fd[s] = None
      /\ \A n \in Nodes : n # s => fd[n] = g.fold[n]
      /\ fd \in [Nodes -> (SUBSET Leaves) \cup {None}]
  <2>1. g.fold \in [Nodes -> (SUBSET Leaves) \cup {None}]
    BY <1>0, TypedIs
  <2> HIDE DEF ls
  <2> QED
    BY <1>s, <1>l, <2>1
<1>4. p \in [Nodes -> Pos]
  <2> HIDE DEF ls
  <2> QED
    BY <1>s, <1>p
<1>5. c \subseteq In(g) /\ \A n \in Nodes : n \in c <=> n \in g.collapsed /\ n \notin ls
  <2>1. \A n \in Nodes : n \notin ConnectedEdges(g, ls)
    BY Kinds DEF ConnectedEdges
  <2>2. g.collapsed \subseteq In(g)
    BY <1>0, TypedIs
  <2> HIDE DEF ls
  <2> QED
    BY <2>1, <2>2
<1>7. a \in Slide /\ ~a.into /\ a.sw = s /\ DOMAIN a.land = ls /\ a.edges = {}
  <2> DEFINE land == [l \in ls |-> Plus(g.pos[s], Offset(g, l))]
  <2>1. a = [into |-> FALSE, sw |-> s, alive |-> TRUE, land |-> land, edges |-> {}]
    BY DEF UnfoldSlide
  <2>2. land \in [ls -> Pos] /\ DOMAIN land = ls
    <3>1. \A l \in ls : Plus(g.pos[s], Offset(g, l)) \in Pos
      BY <1>0, <1>l, <1>p, <1>s, OffsetIsPos, Positions
    <3> HIDE DEF ls
    <3> QED
      BY <3>1
  <2>3. ls \in SUBSET Nodes
    BY <1>l
  <2> HIDE DEF land, ls, a
  <2>4. a \in Slide
    BY <1>s, <2>1, <2>2, <2>3, IsSlide
  <2> QED
    BY <2>1, <2>2, <2>4
<1> HIDE DEF ls, fd, c, u, a
<1>8. /\ u.pos = g.pos /\ u.leaf = g.leaf /\ u.fold = fd /\ u.collapsed = c /\ Reshaped(g, u)
  BY <1>1 DEF Reshaped
<1>9. Typed(u) /\ Kept(g, u)
  <2>1. g.pos \in [Nodes -> Pos] /\ g.leaf \in [Nodes -> [under : Heads, off : Pos] \cup {None}]
    BY <1>0, TypedIs
  <2> QED
    BY <1>0, <1>3, <1>5, <1>8, <2>1, ReshapedTyped
<1>10. Framed(u)
  BY <1>0, <1>9, KeptIs
<1>11. Synced(u, y)
  BY <1>9, <1>10, SyncIs
<1> HIDE DEF y
<1>12. /\ Typed(y) /\ Kept(g, y) /\ y.pos = g.pos /\ y.leaf = g.leaf /\ y.fold = fd /\ Boxed(y)
       /\ \A i \in Nodes : i \in y.collapsed <=> i \in c
  BY <1>8, <1>9, <1>11 DEF Synced, Kept
<1>13. h.pos = p /\ h.leaf = y.leaf /\ h.fold = y.fold /\ h.collapsed = y.collapsed /\ Reshaped(y, h)
  <2>1. y = [els |-> y.els, pos |-> y.pos, leaf |-> y.leaf, fold |-> y.fold,
              collapsed |-> y.collapsed, hidden |-> y.hidden, faded |-> y.faded,
              receded |-> y.receded, selected |-> y.selected]
    BY <1>12, CoreRecord
  <2>2. h = [y EXCEPT !.pos = p]
    <3>1. [n \in Nodes |-> IF n \in ls THEN g.pos[s] ELSE y.pos[n]] = p
      BY <1>12
    <3> HIDE DEF h, p
    <3> QED
      BY <1>2, <3>1
  <2> HIDE DEF h, p
  <2> QED
    BY <2>1, <2>2 DEF Reshaped
<1> HIDE DEF h, p
<1>14. Typed(h) /\ Kept(y, h)
  <2>1. /\ y.leaf \in [Nodes -> [under : Heads, off : Pos] \cup {None}]
        /\ y.fold \in [Nodes -> (SUBSET Leaves) \cup {None}] /\ y.collapsed \subseteq In(y)
    BY <1>12, TypedIs
  <2> QED
    BY <1>4, <1>12, <1>13, <2>1, ReshapedTyped
<1>15. Kept(g, h)
  BY <1>12, <1>14 DEF Kept
<1>16. /\ In(h) = In(g) /\ Drawn(h) = Drawn(g) /\ Switches(h) = Switches(g) /\ Framed(h)
       /\ \A n \in Nodes : n # s => Followers(h, n) = Followers(g, n)
       /\ \A b : Children(h, b) = Children(y, b)
       /\ In(h) = In(y)
  BY <1>0, <1>3, <1>12, <1>13, <1>14, <1>15, KeptIs
<1>17. Scratched(h)
  <2> SUFFICES ASSUME NEW n \in Nodes
               PROVE  /\ h.leaf[n] # None => n \in Drawn(g) \cap Leaves
                      /\ h.fold[n] # None => n \in Switches(g)
    BY <1>16 DEF Scratched
  <2>1. /\ g.leaf[n] # None => n \in Drawn(g) \cap Leaves
        /\ g.fold[n] # None => n \in Switches(g)
    BY <1>0 DEF Scratched
  <2> QED
    BY <1>3, <1>12, <1>13, <2>1
<1>18. Boxed(h)
  <2>1. OffScreen(h) = OffScreen(y)
    BY <1>13, <1>14 DEF OffScreen, Kept
  <2> QED
    BY <1>12, <1>13, <1>16, <2>1 DEF Boxed
<1>19. Owned(h)
  <2> SUFFICES ASSUME NEW l \in h.collapsed \cap Nodes
               PROVE  \E t \in Switches(g) : l \in Followers(h, t)
    BY <1>16 DEF Owned
  <2>1. l \in g.collapsed /\ l \notin ls
    BY <1>5, <1>12, <1>13
  <2>2. PICK t \in Switches(g) : l \in Followers(g, t)
    BY <1>0, <2>1 DEF Owned
  <2>3. t # s /\ t \in Nodes
    BY <1>0, <2>1, <2>2, FoldedAreSwitches DEF ls
  <2> QED
    BY <1>16, <2>2, <2>3
<1>t. /\ tl \in Seq(Slide) /\ Len(tl) = Len(sl) + 1 /\ Len(sl) \in Nat
      /\ \A k \in 1 .. Len(sl) : tl[k] = sl[k] /\ sl[k] \in Slide
      /\ tl[Len(sl) + 1] = a
  BY <1>0, <1>7
<1>u. \A k \in 1 .. Len(tl) : k \in 1 .. Len(sl) \/ k = Len(sl) + 1
  BY <1>t
<1>v. (\A k \in 1 .. Len(sl) : k \in 1 .. Len(tl)) /\ Len(sl) + 1 \in 1 .. Len(tl)
  BY <1>t
<1> HIDE DEF tl
<1>20. AllFit(h, tl)
  <2> SUFFICES ASSUME NEW k \in 1 .. Len(tl) PROVE SlideFits(h, tl[k])
    BY DEF AllFit
  <2>1. CASE k \in 1 .. Len(sl)
    <3>1. SlideFits(g, sl[k]) /\ sl[k].sw \in Nodes
      BY <1>0, <1>t, <2>1, SlideIs DEF AllFit
    <3>2. h.fold[sl[k].sw] = None \/ h.fold[sl[k].sw] = g.fold[sl[k].sw]
      BY <1>3, <1>12, <1>13, <3>1
    <3> QED
      BY <1>16, <1>t, <2>1, <3>1, <3>2, StillFits
  <2>2. CASE k = Len(sl) + 1
    BY <1>7, <1>16, <1>l, <1>t, <2>2 DEF SlideFits
  <2> QED
    BY <1>u, <2>1, <2>2
<1>21. Tracked(h, tl)
  <2> SUFFICES ASSUME NEW n \in Nodes, g.leaf[n] # None
               PROVE  \/ n \in Followers(h, g.leaf[n].under)
                      \/ \E k \in 1 .. Len(tl) : ~tl[k].into /\ n \in DOMAIN tl[k].land
    BY <1>12, <1>13 DEF Tracked
  <2>1. CASE n \in Followers(g, g.leaf[n].under)
    <3>1. g.leaf[n].under \in Nodes
      BY <1>0, ScratchIs
    <3>2. CASE g.leaf[n].under = s
      <4>1. n \in ls
        BY <2>1, <3>2 DEF ls
      <4>2. ~tl[Len(sl) + 1].into /\ n \in DOMAIN tl[Len(sl) + 1].land
        BY <1>7, <1>t, <4>1
      <4> QED
        BY <1>v, <4>2
    <3>3. CASE g.leaf[n].under # s
      BY <1>16, <2>1, <3>1, <3>3
    <3> QED
      BY <3>2, <3>3
  <2>2. CASE \E k \in 1 .. Len(sl) : ~sl[k].into /\ n \in DOMAIN sl[k].land
    BY <1>t, <1>v, <2>2
  <2> QED
    BY <1>0, <2>1, <2>2 DEF Tracked
<1>22. Whole(h, tl)
  BY <1>14, <1>16, <1>17, <1>18, <1>19, <1>20, <1>21, <1>t DEF Whole, Sound
<1> QED
  BY <1>15, <1>22 DEF h, tl, a

\* Without the first of the slides, which left no leaf without a way back.
LEMMA TailWhole ==
  ASSUME NEW g, NEW sl, Whole(g, sl), sl # <<>>,
         \A n \in DOMAIN sl[1].land : ~sl[1].into => g.leaf[n] = None
  PROVE  Whole(g, Tail(sl))
<1> DEFINE tl == Tail(sl)
<1>0. /\ Sound(g) /\ Boxed(g) /\ Owned(g)
      /\ sl \in Seq(Slide) /\ AllFit(g, sl) /\ Tracked(g, sl)
  BY DEF Whole
<1>1. /\ tl \in Seq(Slide) /\ Len(sl) \in Nat /\ Len(sl) # 0 /\ Len(tl) = Len(sl) - 1
      /\ \A k \in 1 .. Len(tl) : tl[k] = sl[k + 1]
  BY <1>0
<1>2. /\ \A k \in 1 .. Len(tl) : k + 1 \in 1 .. Len(sl)
      /\ \A k \in 1 .. Len(sl) : k # 1 => k - 1 \in 1 .. Len(tl) /\ (k - 1) + 1 = k
  BY <1>1
<1> HIDE DEF tl
<1>3. AllFit(g, tl)
  BY <1>0, <1>1, <1>2 DEF AllFit
<1>4. Tracked(g, tl)
  <2> SUFFICES ASSUME NEW n \in Nodes, g.leaf[n] # None,
                      NEW k \in 1 .. Len(sl), ~sl[k].into, n \in DOMAIN sl[k].land
               PROVE  \E j \in 1 .. Len(tl) : ~tl[j].into /\ n \in DOMAIN tl[j].land
    BY <1>0 DEF Tracked
  <2>1. k # 1
    OBVIOUS
  <2>2. tl[k - 1] = sl[k]
    BY <1>1, <1>2, <2>1
  <2> QED
    BY <1>2, <2>1, <2>2
<1> QED
  BY <1>0, <1>1, <1>3, <1>4 DEF Whole, tl

\* h is g with classes for what is collapsed set anew, and boxes synced.
LEMMA HiddenWhole ==
  ASSUME NEW g, NEW sl, Whole(g, sl), NEW S, S \subseteq In(g), NEW s \in Switches(g),
         S \cap Nodes \subseteq Followers(g, s)
  PROVE  /\ Whole(SyncGroupBoxes([g EXCEPT !.collapsed = @ \cup S]), sl)
         /\ Kept(g, SyncGroupBoxes([g EXCEPT !.collapsed = @ \cup S]))
<1> DEFINE c == g.collapsed \cup S
           k == [g EXCEPT !.collapsed = @ \cup S]
           h == SyncGroupBoxes(k)
<1>0. /\ Sound(g) /\ Typed(g) /\ Scratched(g) /\ Framed(g) /\ Boxed(g) /\ Owned(g)
      /\ sl \in Seq(Slide) /\ AllFit(g, sl) /\ Tracked(g, sl)
  BY DEF Whole, Sound
<1>1. Reshaped(g, k) /\ k.pos = g.pos /\ k.leaf = g.leaf /\ k.fold = g.fold /\ k.collapsed = c
  <2>1. g = [els |-> g.els, pos |-> g.pos, leaf |-> g.leaf, fold |-> g.fold,
              collapsed |-> g.collapsed, hidden |-> g.hidden, faded |-> g.faded,
              receded |-> g.receded, selected |-> g.selected]
    BY <1>0, CoreRecord
  <2>2. k = [g EXCEPT !.collapsed = c]
    OBVIOUS
  <2> HIDE DEF c, k
  <2> QED
    BY <2>1, <2>2 DEF Reshaped
<1>2. c \subseteq In(g)
  BY <1>0, TypedIs
<1>c. \A i : i \in c <=> i \in g.collapsed \/ i \in S
  OBVIOUS
<1> HIDE DEF c, k
<1>3. Typed(k) /\ Kept(g, k)
  <2>1. /\ g.pos \in [Nodes -> Pos] /\ g.leaf \in [Nodes -> [under : Heads, off : Pos] \cup {None}]
        /\ g.fold \in [Nodes -> (SUBSET Leaves) \cup {None}]
    BY <1>0, TypedIs
  <2> QED
    BY <1>0, <1>1, <1>2, <2>1, ReshapedTyped
<1>4. Framed(k)
  BY <1>0, <1>3, KeptIs
<1>5. Synced(k, h)
  BY <1>3, <1>4, SyncIs
<1> HIDE DEF h
<1>6. /\ Typed(h) /\ Kept(g, h) /\ h.pos = g.pos /\ h.leaf = g.leaf /\ h.fold = g.fold /\ Boxed(h)
      /\ \A i \in Nodes : i \in h.collapsed <=> i \in g.collapsed \/ i \in S
  BY <1>1, <1>3, <1>5, <1>c DEF Synced, Kept
<1>7. /\ In(h) = In(g) /\ Drawn(h) = Drawn(g) /\ Switches(h) = Switches(g) /\ Framed(h)
      /\ \A n : Followers(h, n) = Followers(g, n)
  BY <1>0, <1>6, KeptIs
<1>8. Scratched(h)
  BY <1>0, <1>6, <1>7 DEF Scratched
<1>9. Owned(h)
  <2> SUFFICES ASSUME NEW l \in h.collapsed \cap Nodes
               PROVE  \E t \in Switches(g) : l \in Followers(g, t)
    BY <1>7 DEF Owned
  <2>1. l \in g.collapsed \/ l \in S
    BY <1>6
  <2> QED
    BY <1>0, <2>1 DEF Owned
<1>10. AllFit(h, sl)
  <2> SUFFICES ASSUME NEW j \in 1 .. Len(sl) PROVE SlideFits(h, sl[j])
    BY DEF AllFit
  <2>1. SlideFits(g, sl[j])
    BY <1>0 DEF AllFit
  <2> QED
    BY <1>6, <1>7, <2>1, StillFits
<1>11. Tracked(h, sl)
  BY <1>0, <1>6, <1>7 DEF Tracked
<1> QED
  BY <1>0, <1>6, <1>7, <1>8, <1>9, <1>10, <1>11 DEF Whole, Sound, h, k

\* Leaves that are sliding out are let go.
LEMMA LetGoWhole ==
  ASSUME NEW g, NEW sl, Whole(g, sl), NEW S
  PROVE  LET h == [g EXCEPT !.leaf = [n \in Nodes |-> IF n \in S THEN None ELSE @[n]]]
         IN  /\ Whole(h, sl) /\ Kept(g, h)
             /\ \A n \in S \cap Nodes : h.leaf[n] = None
<1> DEFINE lf == [n \in Nodes |-> IF n \in S THEN None ELSE g.leaf[n]]
           h  == [g EXCEPT !.leaf = [n \in Nodes |-> IF n \in S THEN None ELSE @[n]]]
<1>0. /\ Sound(g) /\ Typed(g) /\ Scratched(g) /\ Framed(g) /\ Boxed(g) /\ Owned(g)
      /\ sl \in Seq(Slide) /\ AllFit(g, sl) /\ Tracked(g, sl)
  BY DEF Whole, Sound
<1>1. Reshaped(g, h) /\ h.pos = g.pos /\ h.leaf = lf /\ h.fold = g.fold /\ h.collapsed = g.collapsed
  <2>1. g = [els |-> g.els, pos |-> g.pos, leaf |-> g.leaf, fold |-> g.fold,
              collapsed |-> g.collapsed, hidden |-> g.hidden, faded |-> g.faded,
              receded |-> g.receded, selected |-> g.selected]
    BY <1>0, CoreRecord
  <2>2. h = [g EXCEPT !.leaf = lf]
    OBVIOUS
  <2> HIDE DEF lf, h
  <2> QED
    BY <2>1, <2>2 DEF Reshaped
<1>2. lf \in [Nodes -> [under : Heads, off : Pos] \cup {None}]
  BY <1>0, TypedIs
<1>3. \A n \in Nodes : (n \in S => lf[n] = None) /\ (n \notin S => lf[n] = g.leaf[n])
  OBVIOUS
<1> HIDE DEF lf, h
<1>4. Typed(h) /\ Kept(g, h)
  <2>1. /\ g.pos \in [Nodes -> Pos] /\ g.collapsed \subseteq In(g)
        /\ g.fold \in [Nodes -> (SUBSET Leaves) \cup {None}]
    BY <1>0, TypedIs
  <2> QED
    BY <1>0, <1>1, <1>2, <2>1, ReshapedTyped
<1>5. /\ In(h) = In(g) /\ Drawn(h) = Drawn(g) /\ Switches(h) = Switches(g) /\ Framed(h)
      /\ \A n : Followers(h, n) = Followers(g, n)
      /\ \A b : Children(h, b) = Children(g, b)
  BY <1>0, <1>1, <1>4, KeptIs
<1>6. \A n \in Nodes : h.leaf[n] = None \/ h.leaf[n] = g.leaf[n]
  BY <1>1, <1>3
<1>7. Scratched(h)
  BY <1>0, <1>1, <1>5, <1>6 DEF Scratched
<1>8. Boxed(h)
  <2>1. OffScreen(h) = OffScreen(g)
    BY <1>1, <1>4 DEF OffScreen, Kept
  <2> QED
    BY <1>0, <1>1, <1>5, <2>1 DEF Boxed
<1>9. Owned(h)
  BY <1>0, <1>1, <1>5 DEF Owned
<1>10. AllFit(h, sl)
  <2> SUFFICES ASSUME NEW j \in 1 .. Len(sl) PROVE SlideFits(h, sl[j])
    BY DEF AllFit
  <2>1. SlideFits(g, sl[j])
    BY <1>0 DEF AllFit
  <2> QED
    BY <1>1, <1>5, <2>1, StillFits
<1>11. Tracked(h, sl)
  <2> SUFFICES ASSUME NEW n \in Nodes, h.leaf[n] # None
               PROVE  \/ n \in Followers(g, h.leaf[n].under)
                      \/ \E k \in 1 .. Len(sl) : ~sl[k].into /\ n \in DOMAIN sl[k].land
    BY <1>5 DEF Tracked
  <2>1. h.leaf[n] = g.leaf[n]
    BY <1>6
  <2> QED
    BY <1>0, <2>1 DEF Tracked
<1> QED
  BY <1>0, <1>1, <1>3, <1>4, <1>5, <1>7, <1>8, <1>9, <1>10, <1>11 DEF Whole, Sound, h

LEMMA LandWhole ==
  ASSUME NEW g, NEW sl, Whole(g, sl), sl # <<>>
  PROVE  Whole(Landed(g, Head(sl)), Tail(sl)) /\ Kept(g, Landed(g, Head(sl)))
<1> DEFINE s == sl[1]
           p == [n \in Nodes |-> IF n \in DOMAIN s.land THEN s.land[n] ELSE g.pos[n]]
           placed == [g EXCEPT !.pos = [n \in Nodes |-> IF n \in DOMAIN s.land THEN s.land[n] ELSE @[n]]]
           hiding == SyncGroupBoxes([placed EXCEPT !.collapsed = @ \cup (DOMAIN s.land \cup s.edges)])
           letgo  == [placed EXCEPT !.leaf = [n \in Nodes |-> IF n \in DOMAIN s.land THEN None ELSE @[n]]]
           h == Landed(g, s)
<1>0. /\ Sound(g) /\ Typed(g) /\ sl \in Seq(Slide) /\ AllFit(g, sl)
  BY DEF Whole, Sound
<1>1. Head(sl) = s /\ s \in Slide /\ SlideFits(g, s)
  BY <1>0 DEF AllFit
<1>2. s.into \in BOOLEAN /\ DOMAIN s.land \subseteq Nodes /\ \A l \in DOMAIN s.land : s.land[l] \in Pos
  BY <1>1, SlideIs
<1>3. h = IF s.into
          THEN IF s.alive /\ g.fold[s.sw] # None
                 THEN SyncGroupBoxes([placed EXCEPT !.collapsed = @ \cup DOMAIN s.land \cup s.edges])
                 ELSE placed
          ELSE letgo
  BY Zenon DEF Landed
<1>4. p \in [Nodes -> Pos]
  <2>1. \A n \in Nodes : g.pos[n] \in Pos
    BY <1>0, TypedIs
  <2> HIDE DEF s
  <2> QED
    BY <1>2, <2>1
<1>5. Reshaped(g, placed) /\ placed.pos = p /\ placed.leaf = g.leaf /\ placed.fold = g.fold
      /\ placed.collapsed = g.collapsed
  <2>1. g = [els |-> g.els, pos |-> g.pos, leaf |-> g.leaf, fold |-> g.fold,
              collapsed |-> g.collapsed, hidden |-> g.hidden, faded |-> g.faded,
              receded |-> g.receded, selected |-> g.selected]
    BY <1>0, CoreRecord
  <2> HIDE DEF s
  <2>2. placed = [g EXCEPT !.pos = p]
    OBVIOUS
  <2> HIDE DEF p, placed
  <2> QED
    BY <2>1, <2>2 DEF Reshaped
<1> HIDE DEF s, p, placed, h
<1>6. Whole(placed, sl) /\ Kept(g, placed)
  BY <1>4, <1>5, MovedWhole
<1>7. /\ In(placed) = In(g) /\ Drawn(placed) = Drawn(g) /\ Switches(placed) = Switches(g)
      /\ \A n : Followers(placed, n) = Followers(g, n)
  BY <1>5, <1>6, KeptIs
<1>8. CASE s.into /\ s.alive /\ g.fold[s.sw] # None
  <2> DEFINE S == DOMAIN s.land \cup s.edges
  <2>1. h = hiding
    <3>1. h = SyncGroupBoxes([placed EXCEPT !.collapsed = @ \cup DOMAIN s.land \cup s.edges])
      BY <1>3, <1>8
    <3>2. (placed.collapsed \cup DOMAIN s.land) \cup s.edges = placed.collapsed \cup (DOMAIN s.land \cup s.edges)
      OBVIOUS
    <3> QED
      BY <3>1, <3>2
  <2>2. S \subseteq In(placed) /\ s.sw \in Switches(placed)
    BY <1>1, <1>7, <1>8 DEF SlideFits, Drawn
  <2>3. S \cap Nodes \subseteq Followers(placed, s.sw)
    <3>1. DOMAIN s.land \subseteq Followers(g, s.sw)
      BY <1>1, <1>8 DEF SlideFits, Followers, Drawn
    <3>2. s.edges \cap Nodes = {}
      BY <1>1, SlideIs, Kinds
    <3> QED
      BY <1>7, <3>1, <3>2
  <2> HIDE DEF S
  <2>4. Whole(hiding, sl) /\ Kept(placed, hiding)
    BY <1>6, <2>2, <2>3, HiddenWhole DEF S
  <2> HIDE DEF hiding
  <2>5. Whole(hiding, Tail(sl))
    <3>1. \A n \in DOMAIN sl[1].land : ~sl[1].into => hiding.leaf[n] = None
      BY <1>8 DEF s
    <3> QED
      BY <2>4, <3>1, TailWhole
  <2>6. Kept(g, hiding)
    BY <1>6, <2>4 DEF Kept
  <2> QED
    BY <1>1, <2>1, <2>5, <2>6 DEF h
<1>9. CASE s.into /\ ~(s.alive /\ g.fold[s.sw] # None)
  <2>1. h = placed
    BY <1>3, <1>9
  <2>2. \A n \in DOMAIN sl[1].land : ~sl[1].into => placed.leaf[n] = None
    BY <1>9 DEF s
  <2>3. Whole(placed, Tail(sl))
    BY <1>6, <2>2, TailWhole
  <2> QED
    BY <1>1, <1>6, <2>1, <2>3 DEF h
<1>10. CASE ~s.into
  <2>1. h = letgo
    BY <1>3, <1>10
  <2> DEFINE S == DOMAIN s.land
  <2>2. Whole(letgo, sl) /\ Kept(placed, letgo) /\ \A n \in S \cap Nodes : letgo.leaf[n] = None
    <3> HIDE DEF S
    <3>1. letgo = [placed EXCEPT !.leaf = [n \in Nodes |-> IF n \in S THEN None ELSE @[n]]]
      BY DEF S
    <3> HIDE DEF letgo
    <3> QED
      BY <1>6, <3>1, LetGoWhole
  <2> HIDE DEF letgo
  <2>3. \A n \in DOMAIN sl[1].land : ~sl[1].into => letgo.leaf[n] = None
    BY <1>2, <2>2 DEF s
  <2>4. Whole(letgo, Tail(sl))
    BY <2>2, <2>3, TailWhole
  <2>5. Kept(g, letgo)
    BY <1>6, <2>2 DEF Kept
  <2> QED
    BY <1>1, <2>1, <2>4, <2>5 DEF h
<1> QED
  BY <1>2, <1>8, <1>9, <1>10

-----------------------------------------------------------------------------
(* Models that arrive, and positions. *)

LEMMA OutliveIs ==
  ASSUME NEW s \in Slide, NEW ids
  PROVE  /\ Outlive(s, ids) \in Slide
         /\ Outlive(s, ids).into = s.into /\ Outlive(s, ids).sw = s.sw
         /\ Outlive(s, ids).alive <=> s.alive /\ s.sw \notin ids
         /\ DOMAIN Outlive(s, ids).land = DOMAIN s.land \ ids
         /\ Outlive(s, ids).edges = s.edges \ ids
<1> DEFINE al == s.alive /\ s.sw \notin ids
           S  == DOMAIN s.land \ ids
           ld == [l \in S |-> s.land[l]]
           es == s.edges \ ids
           h  == Outlive(s, ids)
<1>1. /\ s.into \in BOOLEAN /\ s.sw \in Nodes /\ s.alive \in BOOLEAN
      /\ DOMAIN s.land \subseteq Nodes /\ \A l \in DOMAIN s.land : s.land[l] \in Pos
      /\ s.edges \subseteq Links
  BY SlideIs
<1>2. s = [into |-> s.into, sw |-> s.sw, alive |-> s.alive, land |-> s.land, edges |-> s.edges]
  BY DEF Slide
<1>3. h = [into |-> s.into, sw |-> s.sw, alive |-> al, land |-> ld, edges |-> es]
  <2> DEFINE k1 == [s EXCEPT !.alive = al]
             k2 == [k1 EXCEPT !.land = ld]
             k3 == [k2 EXCEPT !.edges = es]
  <2>1. h = k3
    BY DEF Outlive
  <2> HIDE DEF al, ld, es, h
  <2>2. k1 = [into |-> s.into, sw |-> s.sw, alive |-> al, land |-> s.land, edges |-> s.edges]
    BY <1>2
  <2> HIDE DEF k1
  <2>3. k2 = [into |-> s.into, sw |-> s.sw, alive |-> al, land |-> ld, edges |-> s.edges]
    BY <2>2
  <2> HIDE DEF k2
  <2> QED
    BY <2>1, <2>3
<1>4. ld \in [S -> Pos] /\ DOMAIN ld = S /\ S \in SUBSET Nodes /\ es \in SUBSET Links /\ al \in BOOLEAN
  BY <1>1
<1>a. al <=> s.alive /\ s.sw \notin ids
  OBVIOUS
<1>b. S = DOMAIN s.land \ ids /\ es = s.edges \ ids
  OBVIOUS
<1> HIDE DEF al, ld, es, h, S
<1>5. h \in Slide
  BY <1>1, <1>3, <1>4, IsSlide
<1>6. h.into = s.into /\ h.sw = s.sw /\ h.alive = al /\ h.land = ld /\ h.edges = es
  BY <1>3
<1> QED
  BY <1>4, <1>5, <1>6, <1>a, <1>b DEF h

\* A model is reconciled: leaves that were collapsed have owners still, and
\* scratch leads where it did.
LEMMA ArriveLoose ==
  ASSUME NEW g, NEW sl, Whole(g, sl), NEW m \in Models, NEW r, Reconciled(g, m, r),
         NEW tl, tl = [k \in DOMAIN sl |-> Outlive(sl[k], Lost(g, m))]
  PROVE  Loose(r, tl) /\ Len(tl) = Len(sl)
<1> DEFINE lost == Lost(g, m)
           out  == LetOut(g, m)
<1>0. /\ Sound(g) /\ Typed(g) /\ Scratched(g) /\ Framed(g) /\ Owned(g)
      /\ sl \in Seq(Slide) /\ AllFit(g, sl) /\ Tracked(g, sl)
  BY DEF Whole, Sound
<1>1. /\ Sound(r) /\ Typed(r) /\ Scratched(r) /\ In(r) = DOMAIN ToElements(m)
      /\ \A n \in Nodes \ lost :
           /\ r.fold[n] = g.fold[n]
           /\ n \in FollowersOf(g, out) => r.leaf[n] = None /\ n \notin r.collapsed
           /\ n \notin FollowersOf(g, out) =>
                r.leaf[n] = g.leaf[n] /\ (n \in r.collapsed <=> n \in g.collapsed)
  BY DEF Reconciled, Sound, In
<1>2. /\ lost = In(g) \ In(r) /\ out = Folded(g) \cap lost
  BY <1>1 DEF Lost, LetOut
<1>3. /\ Drawn(g) \ lost \subseteq Drawn(r) /\ Switches(g) \ lost \subseteq Switches(r)
      /\ Drawn(r) \cap lost = {} /\ Drawn(r) \subseteq Nodes
  BY <1>2 DEF Drawn, Switches
<1> HIDE DEF lost, out
<1>4. ASSUME NEW n \in Drawn(r), NEW t \in Nodes, n \in Followers(g, t), n \notin FollowersOf(g, out)
      PROVE  t \in Switches(g) \ lost /\ n \in Followers(r, t)
  <2>1. g.fold[t] # None /\ n \in g.fold[t]
    BY <1>4 DEF Followers
  <2>2. t \in Folded(g) /\ t \in Switches(g)
    BY <1>0, <2>1, FoldedAreSwitches
  <2>3. t \notin lost
    BY <1>2, <1>4, <2>2 DEF FollowersOf
  <2>4. r.fold[t] = g.fold[t]
    BY <1>1, <2>3
  <2> QED
    BY <2>1, <2>2, <2>3, <2>4 DEF Followers, Drawn
<1>5. Owned(r)
  <2> SUFFICES ASSUME NEW l \in r.collapsed \cap Nodes
               PROVE  \E s \in Switches(r) : l \in Followers(r, s)
    BY DEF Owned
  <2>1. l \in Drawn(r)
    BY <1>1, TypedIs DEF Drawn
  <2>2. l \notin lost /\ l \notin FollowersOf(g, out) /\ l \in g.collapsed
    BY <1>1, <1>3, <2>1
  <2>3. PICK t \in Switches(g) : l \in Followers(g, t)
    BY <1>0, <2>2 DEF Owned
  <2>4. t \in Nodes
    BY <1>0, FoldedAreSwitches
  <2> QED
    BY <1>3, <1>4, <2>1, <2>2, <2>3, <2>4
<1>6. /\ tl \in Seq(Slide) /\ Len(tl) = Len(sl)
      /\ \A k \in 1 .. Len(sl) : tl[k] = Outlive(sl[k], lost) /\ sl[k] \in Slide
  <2>1. DOMAIN sl = 1 .. Len(sl) /\ Len(sl) \in Nat /\ \A k \in 1 .. Len(sl) : sl[k] \in Slide
    BY <1>0
  <2>2. \A k \in 1 .. Len(sl) : Outlive(sl[k], lost) \in Slide
    BY <2>1, OutliveIs
  <2>3. tl = [k \in 1 .. Len(sl) |-> Outlive(sl[k], lost)]
    BY <2>1 DEF lost
  <2>4. tl \in [1 .. Len(sl) -> Slide]
    BY <2>2, <2>3
  <2>5. tl \in Seq(Slide) /\ Len(tl) = Len(sl)
    BY <2>1, <2>4, SeqDef
  <2> QED
    BY <2>1, <2>3, <2>5
<1>7. AllFit(r, tl)
  <2> SUFFICES ASSUME NEW k \in 1 .. Len(sl) PROVE SlideFits(r, tl[k])
    BY <1>6 DEF AllFit
  <2> DEFINE s == sl[k]
             o == tl[k]
  <2>1. SlideFits(g, s) /\ s \in Slide /\ o = Outlive(s, lost)
    BY <1>0, <1>6 DEF AllFit
  <2>2. /\ o.into = s.into /\ o.sw = s.sw /\ (o.alive <=> s.alive /\ s.sw \notin lost)
        /\ DOMAIN o.land = DOMAIN s.land \ lost /\ o.edges = s.edges \ lost
    BY <2>1, OutliveIs
  <2>3. s.sw \in Nodes
    BY <2>1, SlideIs
  <2> HIDE DEF s, o
  <2>4. DOMAIN o.land \subseteq Drawn(r) /\ o.edges \subseteq In(r)
    BY <1>2, <1>3, <2>1, <2>2 DEF SlideFits
  <2>5. o.alive => o.sw \in Switches(r)
    BY <1>3, <2>1, <2>2 DEF SlideFits
  <2>6. o.into /\ o.alive /\ r.fold[o.sw] # None => DOMAIN o.land \subseteq r.fold[o.sw]
    BY <1>1, <2>1, <2>2, <2>3 DEF SlideFits
  <2> QED
    BY <2>4, <2>5, <2>6 DEF SlideFits, o
<1>8. Tracked(r, tl)
  <2> SUFFICES ASSUME NEW n \in Nodes, r.leaf[n] # None
               PROVE  \/ n \in Followers(r, r.leaf[n].under)
                      \/ \E k \in 1 .. Len(tl) : ~tl[k].into /\ n \in DOMAIN tl[k].land
    BY DEF Tracked
  <2>1. n \in Drawn(r)
    BY <1>1 DEF Scratched
  <2>2. n \notin lost /\ n \notin FollowersOf(g, out) /\ r.leaf[n] = g.leaf[n]
    BY <1>1, <1>3, <2>1
  <2>3. CASE n \in Followers(g, g.leaf[n].under)
    <3>1. g.leaf[n].under \in Nodes
      BY <1>0, <2>2, ScratchIs
    <3> QED
      BY <1>4, <2>1, <2>2, <2>3, <3>1
  <2>4. ASSUME NEW k \in 1 .. Len(sl), ~sl[k].into, n \in DOMAIN sl[k].land
        PROVE  ~tl[k].into /\ n \in DOMAIN tl[k].land /\ k \in 1 .. Len(tl)
    <3>1. tl[k] = Outlive(sl[k], lost) /\ sl[k] \in Slide
      BY <1>6
    <3> QED
      BY <1>6, <2>2, <2>4, <3>1, OutliveIs
  <2> QED
    BY <1>0, <2>2, <2>3, <2>4 DEF Tracked
<1> QED
  BY <1>1, <1>5, <1>6, <1>7, <1>8 DEF Loose

\* Filters make a core whole.
LEMMA ShownWhole ==
  ASSUME NEW g, NEW sl, Loose(g, sl), NEW f
  PROVE  Whole(ApplyFilters(g, f), sl) /\ Shown(g, f, ApplyFilters(g, f))
<1> DEFINE h == ApplyFilters(g, f)
<1>1. /\ Typed(g) /\ Scratched(g) /\ Framed(g) /\ Owned(g)
      /\ sl \in Seq(Slide) /\ AllFit(g, sl) /\ Tracked(g, sl)
  BY DEF Loose, Sound
<1>2. Shown(g, f, h)
  BY <1>1, FiltersAre
<1> HIDE DEF h
<1>3. /\ Typed(h) /\ h.els = g.els /\ h.leaf = g.leaf /\ h.fold = g.fold /\ Boxed(h)
      /\ \A n \in Nodes : n \in h.collapsed <=> n \in g.collapsed
  BY <1>2 DEF Shown
<1>4. /\ In(h) = In(g) /\ Drawn(h) = Drawn(g) /\ Switches(h) = Switches(g) /\ Framed(h)
      /\ \A s : Followers(h, s) = Followers(g, s)
  BY <1>1, <1>3, SameElements
<1>5. Scratched(h)
  BY <1>1, <1>3, <1>4 DEF Scratched
<1>6. Owned(h)
  BY <1>1, <1>3, <1>4 DEF Owned
<1>7. AllFit(h, sl)
  <2> SUFFICES ASSUME NEW k \in 1 .. Len(sl) PROVE SlideFits(h, sl[k])
    BY DEF AllFit
  <2>1. SlideFits(g, sl[k])
    BY <1>1 DEF AllFit
  <2> QED
    BY <1>3, <1>4, <2>1, StillFits
<1>8. Tracked(h, sl)
  BY <1>1, <1>3, <1>4 DEF Tracked
<1> QED
  BY <1>1, <1>2, <1>3, <1>4, <1>5, <1>6, <1>7, <1>8 DEF Whole, Sound, h

\* A layout: none, or positions of some of the nodes.
IsLayout(l) == l = None \/ \E S \in SUBSET Nodes : l \in [S -> Pos]

\* Nodes settle where the layout or physics has them.
SettledIn(g, ns, l, h) ==
  /\ Reshaped(g, h) /\ h.pos \in [Nodes -> Pos]
  /\ h.leaf = g.leaf /\ h.fold = g.fold /\ h.collapsed = g.collapsed
  /\ \A n \in Nodes : n \notin ns \cap In(g) => h.pos[n] = g.pos[n]
  /\ \A n \in Nodes : n \in ns \cap In(g) /\ n \in Known(l) => h.pos[n] = l[n]

LEMMA SettleIs ==
  ASSUME NEW g, Typed(g), NEW ns, NEW l, IsLayout(l), NEW to \in [Nodes -> Pos]
  PROVE  SettledIn(g, ns, l, Settle(g, ns, l, to))
<1> DEFINE p == [n \in Nodes |-> IF n \notin ns \cap In(g) THEN g.pos[n]
                                 ELSE IF n \in Known(l) THEN l[n] ELSE to[n]]
           h == Settle(g, ns, l, to)
<1>1. g = [els |-> g.els, pos |-> g.pos, leaf |-> g.leaf, fold |-> g.fold,
           collapsed |-> g.collapsed, hidden |-> g.hidden, faded |-> g.faded,
           receded |-> g.receded, selected |-> g.selected]
  BY CoreRecord
<1>2. h = [g EXCEPT !.pos = p]
  BY DEF Settle
<1>3. p \in [Nodes -> Pos]
  <2>1. \A n \in Nodes : n \in Known(l) => l[n] \in Pos
    BY DEF IsLayout, Known
  <2>2. \A n \in Nodes : g.pos[n] \in Pos
    BY TypedIs
  <2> QED
    BY <2>1, <2>2
<1>4. /\ \A n \in Nodes : n \notin ns \cap In(g) => p[n] = g.pos[n]
      /\ \A n \in Nodes : n \in ns \cap In(g) /\ n \in Known(l) => p[n] = l[n]
  OBVIOUS
<1> HIDE DEF p, h
<1>5. /\ Reshaped(g, h) /\ h.pos = p /\ h.leaf = g.leaf /\ h.fold = g.fold /\ h.collapsed = g.collapsed
  BY <1>1, <1>2 DEF Reshaped
<1> QED
  BY <1>3, <1>4, <1>5 DEF SettledIn, h

LEMMA SettledLoose ==
  ASSUME NEW g, NEW sl, Loose(g, sl), NEW ns, NEW l, IsLayout(l), NEW to \in [Nodes -> Pos]
  PROVE  /\ Loose(Settle(g, ns, l, to), sl) /\ Kept(g, Settle(g, ns, l, to))
         /\ SettledIn(g, ns, l, Settle(g, ns, l, to))
         /\ Boxed(g) => Boxed(Settle(g, ns, l, to))
<1> DEFINE h == Settle(g, ns, l, to)
<1>1. SettledIn(g, ns, l, h)
  BY SettleIs DEF Loose, Sound
<1> HIDE DEF h
<1>2. Loose(h, sl) /\ Kept(g, h) /\ (Boxed(g) => Boxed(h))
  BY <1>1, MovedLoose DEF SettledIn
<1> QED
  BY <1>1, <1>2 DEF h

\* With nobody folded, a core is whole by itself.
LEMMA ResetWhole ==
  ASSUME NEW g, Sound(g)
  PROVE  /\ Loose(ResetAllCollapsed(g), <<>>) /\ Boxed(ResetAllCollapsed(g))
         /\ ResetOf(g, ResetAllCollapsed(g))
<1> DEFINE h == ResetAllCollapsed(g)
<1>1. ResetOf(g, h)
  BY ResetIs
<1> HIDE DEF h
<1>2. /\ Typed(h) /\ Kept(g, h) /\ Boxed(h)
      /\ \A n \in Nodes : h.leaf[n] = None /\ h.fold[n] = None /\ n \notin h.collapsed
  BY <1>1 DEF ResetOf
<1>3. Framed(h)
  BY <1>2, KeptIs DEF Sound
<1>4. Scratched(h) /\ Owned(h) /\ Tracked(h, <<>>)
  BY <1>2 DEF Scratched, Owned, Tracked
<1>5. <<>> \in Seq(Slide) /\ AllFit(h, <<>>)
  BY DEF AllFit
<1> QED
  BY <1>1, <1>2, <1>3, <1>4, <1>5 DEF Loose, Sound, h

-----------------------------------------------------------------------------
(* All switches, and all nodes, one after the other. *)

\* The cores on the way.
FoldedBy(f) ==
  LET order == Listed({s \in Switches(cy) : CanFold(cy, s)})
  IN  /\ f[0] = Resting
      /\ \A k \in 1 .. Len(order) : f[k] = Step(f[k - 1], order[k])
      /\ FoldAll = f[Len(order)]

LEMMA FoldSteps ==
  \E f : FoldedBy(f)
<1> DEFINE order == Listed({s \in Switches(cy) : CanFold(cy, s)})
           E(f, k) == IF k = 0 THEN Resting ELSE Step(f[k - 1], order[k])
           Rec(f, n) == f = [k \in 0 .. n |-> E(f, k)]
           P == {n \in Nat : \E f : Rec(f, n)}
           F == CHOOSE f : Rec(f, Len(order))
<1>n. Len(order) \in Nat
  BY ListedIs
<1>6. FoldAll = F[Len(order)]
  BY DEF FoldAll
<1> HIDE DEF order
<1>1. ASSUME NEW f, NEW n \in Nat, Rec(f, n), NEW k \in 0 .. n PROVE f[k] = E(f, k)
  <2> HIDE DEF E
  <2> QED
    BY <1>1
<1>2. 0 \in P
  <2>1. E([k \in 0 .. 0 |-> Resting], 0) = Resting
    OBVIOUS
  <2>2. Rec([k \in 0 .. 0 |-> Resting], 0)
    <3> HIDE DEF E
    <3> QED
      BY <2>1
  <2> QED
    BY <2>2
<1>3. ASSUME NEW n \in Nat, n \in P PROVE n + 1 \in P
  <2>1. PICK f : Rec(f, n)
    BY <1>3
  <2> DEFINE h == [k \in 0 .. n + 1 |-> IF k = n + 1 THEN E(f, n + 1) ELSE f[k]]
  <2>2. ASSUME NEW k \in 0 .. n + 1 PROVE h[k] = E(h, k)
    <3>1. k # 0 => k - 1 \in 0 .. n /\ h[k - 1] = f[k - 1]
      OBVIOUS
    <3>2. E(h, k) = E(f, k)
      BY <3>1
    <3>3. k # n + 1 => k \in 0 .. n
      OBVIOUS
    <3> HIDE DEF E, Rec
    <3>4. k # n + 1 => f[k] = E(f, k)
      BY <1>1, <2>1, <3>3
    <3> QED
      BY <3>2, <3>4
  <2>3. Rec(h, n + 1)
    <3> HIDE DEF E
    <3> QED
      BY <2>2
  <2> HIDE DEF Rec
  <2> QED
    BY <2>3
<1>4. Len(order) \in P
  <2> HIDE DEF P
  <2> QED
    BY <1>2, <1>3, <1>n, Reached
<1>5. Rec(F, Len(order))
  <2> HIDE DEF Rec
  <2> QED
    BY <1>4
<1>7. ASSUME NEW k \in 0 .. Len(order) PROVE F[k] = E(F, k)
  <2> HIDE DEF F, E, Rec
  <2> QED
    BY <1>1, <1>5, <1>n
<1> HIDE DEF F
<1>8. F[0] = Resting
  <2>1. 0 \in 0 .. Len(order)
    BY <1>n
  <2> QED
    BY <1>7, <2>1
<1>9. ASSUME NEW k \in 1 .. Len(order)
      PROVE  F[k] = Step(F[k - 1], order[k])
  <2>1. k \in 0 .. Len(order) /\ k # 0
    BY <1>n
  <2> QED
    BY <1>7, <2>1
<1>10. FoldedBy(F)
  BY <1>6, <1>8, <1>9, Zenon DEF FoldedBy, order
<1> QED
  BY <1>10

\* The cores on the way.
UnfoldedBy(f) ==
  LET order == Listed({s \in Switches(cy) : IsCollapsed(cy, s)})
  IN  /\ f[0] = Resting
      /\ \A k \in 1 .. Len(order) : f[k] = Back(f[k - 1], order[k])
      /\ UnfoldAll = f[Len(order)]

LEMMA UnfoldSteps ==
  \E f : UnfoldedBy(f)
<1> DEFINE order == Listed({s \in Switches(cy) : IsCollapsed(cy, s)})
           E(f, k) == IF k = 0 THEN Resting ELSE Back(f[k - 1], order[k])
           Rec(f, n) == f = [k \in 0 .. n |-> E(f, k)]
           P == {n \in Nat : \E f : Rec(f, n)}
           F == CHOOSE f : Rec(f, Len(order))
<1>n. Len(order) \in Nat
  BY ListedIs
<1>6. UnfoldAll = F[Len(order)]
  BY DEF UnfoldAll
<1> HIDE DEF order
<1>1. ASSUME NEW f, NEW n \in Nat, Rec(f, n), NEW k \in 0 .. n PROVE f[k] = E(f, k)
  <2> HIDE DEF E
  <2> QED
    BY <1>1
<1>2. 0 \in P
  <2>1. E([k \in 0 .. 0 |-> Resting], 0) = Resting
    OBVIOUS
  <2>2. Rec([k \in 0 .. 0 |-> Resting], 0)
    <3> HIDE DEF E
    <3> QED
      BY <2>1
  <2> QED
    BY <2>2
<1>3. ASSUME NEW n \in Nat, n \in P PROVE n + 1 \in P
  <2>1. PICK f : Rec(f, n)
    BY <1>3
  <2> DEFINE h == [k \in 0 .. n + 1 |-> IF k = n + 1 THEN E(f, n + 1) ELSE f[k]]
  <2>2. ASSUME NEW k \in 0 .. n + 1 PROVE h[k] = E(h, k)
    <3>1. k # 0 => k - 1 \in 0 .. n /\ h[k - 1] = f[k - 1]
      OBVIOUS
    <3>2. E(h, k) = E(f, k)
      BY <3>1
    <3>3. k # n + 1 => k \in 0 .. n
      OBVIOUS
    <3> HIDE DEF E, Rec
    <3>4. k # n + 1 => f[k] = E(f, k)
      BY <1>1, <2>1, <3>3
    <3> QED
      BY <3>2, <3>4
  <2>3. Rec(h, n + 1)
    <3> HIDE DEF E
    <3> QED
      BY <2>2
  <2> HIDE DEF Rec
  <2> QED
    BY <2>3
<1>4. Len(order) \in P
  <2> HIDE DEF P
  <2> QED
    BY <1>2, <1>3, <1>n, Reached
<1>5. Rec(F, Len(order))
  <2> HIDE DEF Rec
  <2> QED
    BY <1>4
<1>7. ASSUME NEW k \in 0 .. Len(order) PROVE F[k] = E(F, k)
  <2> HIDE DEF F, E, Rec
  <2> QED
    BY <1>1, <1>5, <1>n
<1> HIDE DEF F
<1>8. F[0] = Resting
  <2>1. 0 \in 0 .. Len(order)
    BY <1>n
  <2> QED
    BY <1>7, <2>1
<1>9. ASSUME NEW k \in 1 .. Len(order)
      PROVE  F[k] = Back(F[k - 1], order[k])
  <2>1. k \in 0 .. Len(order) /\ k # 0
    BY <1>n
  <2> QED
    BY <1>7, <2>1
<1>10. UnfoldedBy(F)
  BY <1>6, <1>8, <1>9, Zenon DEF UnfoldedBy, order
<1> QED
  BY <1>10

\* The cores on the way.
LaidOutBy(f, ns, to) ==
  LET order == Listed(ns)
  IN  /\ f[0] = cy
      /\ \A k \in 1 .. Len(order) : f[k] = MoveTo(f[k - 1], order[k], to[order[k]])
      /\ RunLayout(ns, to) = f[Len(order)]

LEMMA LayoutSteps ==
  ASSUME NEW ns, NEW to
  PROVE  \E f : LaidOutBy(f, ns, to)
<1> DEFINE order == Listed(ns)
           E(f, k) == IF k = 0 THEN cy ELSE MoveTo(f[k - 1], order[k], to[order[k]])
           Rec(f, n) == f = [k \in 0 .. n |-> E(f, k)]
           P == {n \in Nat : \E f : Rec(f, n)}
           F == CHOOSE f : Rec(f, Len(order))
<1>n. Len(order) \in Nat
  BY ListedIs
<1>6. RunLayout(ns, to) = F[Len(order)]
  BY DEF RunLayout
<1> HIDE DEF order
<1>1. ASSUME NEW f, NEW n \in Nat, Rec(f, n), NEW k \in 0 .. n PROVE f[k] = E(f, k)
  <2> HIDE DEF E
  <2> QED
    BY <1>1
<1>2. 0 \in P
  <2>1. E([k \in 0 .. 0 |-> cy], 0) = cy
    OBVIOUS
  <2>2. Rec([k \in 0 .. 0 |-> cy], 0)
    <3> HIDE DEF E
    <3> QED
      BY <2>1
  <2> QED
    BY <2>2
<1>3. ASSUME NEW n \in Nat, n \in P PROVE n + 1 \in P
  <2>1. PICK f : Rec(f, n)
    BY <1>3
  <2> DEFINE h == [k \in 0 .. n + 1 |-> IF k = n + 1 THEN E(f, n + 1) ELSE f[k]]
  <2>2. ASSUME NEW k \in 0 .. n + 1 PROVE h[k] = E(h, k)
    <3>1. k # 0 => k - 1 \in 0 .. n /\ h[k - 1] = f[k - 1]
      OBVIOUS
    <3>2. E(h, k) = E(f, k)
      BY <3>1
    <3>3. k # n + 1 => k \in 0 .. n
      OBVIOUS
    <3> HIDE DEF E, Rec
    <3>4. k # n + 1 => f[k] = E(f, k)
      BY <1>1, <2>1, <3>3
    <3> QED
      BY <3>2, <3>4
  <2>3. Rec(h, n + 1)
    <3> HIDE DEF E
    <3> QED
      BY <2>2
  <2> HIDE DEF Rec
  <2> QED
    BY <2>3
<1>4. Len(order) \in P
  <2> HIDE DEF P
  <2> QED
    BY <1>2, <1>3, <1>n, Reached
<1>5. Rec(F, Len(order))
  <2> HIDE DEF Rec
  <2> QED
    BY <1>4
<1>7. ASSUME NEW k \in 0 .. Len(order) PROVE F[k] = E(F, k)
  <2> HIDE DEF F, E, Rec
  <2> QED
    BY <1>1, <1>5, <1>n
<1> HIDE DEF F
<1>8. F[0] = cy
  <2>1. 0 \in 0 .. Len(order)
    BY <1>n
  <2> QED
    BY <1>7, <2>1
<1>9. ASSUME NEW k \in 1 .. Len(order)
      PROVE  F[k] = MoveTo(F[k - 1], order[k], to[order[k]])
  <2>1. k \in 0 .. Len(order) /\ k # 0
    BY <1>n
  <2> QED
    BY <1>7, <2>1
<1>10. LaidOutBy(F, ns, to)
  BY <1>6, <1>8, <1>9, Zenon DEF LaidOutBy, order
<1> QED
  BY <1>10

\* What is said of the first and kept by each of the next is true of the last.
LEMMA UpTo ==
  ASSUME NEW n \in Nat, NEW P, 0 \in P,
         \A k \in 0 .. n : k \in P /\ k # n => k + 1 \in P
  PROVE  n \in P
<1> DEFINE Q == P \cup {k \in Nat : k > n}
<1>1. \A k \in 0 .. n : k \in Q => k + 1 \in Q
  OBVIOUS
<1>2. 0 \in Q
  OBVIOUS
<1> HIDE DEF Q
<1>3. n \in Q
  BY <1>1, <1>2, Reached
<1> QED
  BY <1>3 DEF Q

LEMMA FoldAllIs ==
  ASSUME Whole(cy, <<>>)
  PROVE  Whole(FoldAll.g, FoldAll.begun) /\ Kept(cy, FoldAll.g)
<1> DEFINE S == {s \in Switches(cy) : CanFold(cy, s)}
           order == Listed(S)
           Good(a) == Whole(a.g, a.begun) /\ Standing(a.g, a.begun) /\ Kept(cy, a.g)
<1>1. PICK f : FoldedBy(f)
  BY FoldSteps
<1>2. /\ f[0] = Resting
      /\ \A k \in 1 .. Len(order) : f[k] = Step(f[k - 1], order[k])
      /\ FoldAll = f[Len(order)]
  BY <1>1, Zenon DEF FoldedBy
<1>3. Len(order) \in Nat /\ \A k \in 1 .. Len(order) : order[k] \in Items \cap S
  BY ListedIs
<1>s. S \subseteq Switches(cy)
  OBVIOUS
<1> HIDE DEF S, order
<1> DEFINE P == {k \in 0 .. Len(order) : Good(f[k])}
<1>4. 0 \in P
  <2>1. Resting.g = cy /\ Resting.begun = <<>>
    BY DEF Resting
  <2>2. Kept(cy, cy) /\ Standing(cy, <<>>)
    BY DEF Kept, Standing
  <2>3. Good(f[0])
    BY <1>2, <2>1, <2>2
  <2> HIDE DEF Good
  <2> QED
    BY <1>3, <2>3
<1>5. ASSUME NEW k \in 0 .. Len(order), k \in P, k # Len(order) PROVE k + 1 \in P
  <2>1. k + 1 \in 1 .. Len(order) /\ (k + 1) - 1 = k /\ k + 1 \in 0 .. Len(order)
    BY <1>3, <1>5
  <2> DEFINE a == f[k]
             s == order[k + 1]
  <2>2. f[k + 1] = Step(a, s)
    BY <1>2, <2>1
  <2>3. Good(a)
    BY <1>5
  <2>4. s \in Switches(cy)
    BY <1>3, <1>s, <2>1
  <2> HIDE DEF a, s
  <2>5. s \in Switches(a.g)
    BY <2>3, <2>4, KeptIs
  <2>6. CASE CanFold(a.g, s)
    <3> DEFINE h == BeginFold(a.g, s)
               b == Append(a.begun, FoldSlide(a.g, s))
    <3>1. Step(a, s) = [g |-> h, begun |-> b]
      BY <2>6 DEF Step
    <3>2. Whole(h, b) /\ Standing(h, b) /\ Kept(a.g, h)
      BY <2>3, <2>5, <2>6, FoldWhole
    <3> HIDE DEF h, b
    <3>3. Kept(cy, h)
      BY <2>3, <3>2 DEF Kept
    <3>4. Good(f[k + 1])
      BY <2>2, <3>1, <3>2, <3>3
    <3> HIDE DEF Good
    <3> QED
      BY <2>1, <3>4
  <2>7. CASE ~CanFold(a.g, s)
    <3>1. Step(a, s) = a
      BY <2>7 DEF Step
    <3> HIDE DEF Good
    <3> QED
      BY <2>1, <2>2, <2>3, <3>1
  <2> QED
    BY <2>6, <2>7
<1>6. Len(order) \in P
  <2> HIDE DEF P
  <2> QED
    BY <1>3, <1>4, <1>5, UpTo
<1>7. Good(FoldAll)
  <2> HIDE DEF Good
  <2> QED
    BY <1>2, <1>6
<1> QED
  BY <1>7

LEMMA UnfoldAllIs ==
  ASSUME Whole(cy, slides)
  PROVE  /\ Whole(UnfoldAll.g, slides \o UnfoldAll.begun) /\ Kept(cy, UnfoldAll.g)
         /\ UnfoldAll.begun \in Seq(Slide)
<1> DEFINE S == {s \in Switches(cy) : IsCollapsed(cy, s)}
           order == Listed(S)
           Good(a) == /\ Whole(a.g, slides \o a.begun) /\ Kept(cy, a.g)
                      /\ a.begun \in Seq(Slide)
<1>1. PICK f : UnfoldedBy(f)
  BY UnfoldSteps
<1>2. /\ f[0] = Resting
      /\ \A k \in 1 .. Len(order) : f[k] = Back(f[k - 1], order[k])
      /\ UnfoldAll = f[Len(order)]
  BY <1>1, Zenon DEF UnfoldedBy
<1>3. Len(order) \in Nat /\ \A k \in 1 .. Len(order) : order[k] \in Items \cap S
  BY ListedIs
<1>s. S \subseteq Switches(cy)
  OBVIOUS
<1>w. slides \in Seq(Slide)
  BY DEF Whole
<1> HIDE DEF S, order
<1> DEFINE P == {k \in 0 .. Len(order) : Good(f[k])}
<1>4. 0 \in P
  <2>1. Resting.g = cy /\ Resting.begun = <<>>
    BY DEF Resting
  <2>2. Kept(cy, cy) /\ slides \o <<>> = slides /\ <<>> \in Seq(Slide)
    BY <1>w DEF Kept
  <2>3. Good(f[0])
    BY <1>2, <2>1, <2>2
  <2> HIDE DEF Good
  <2> QED
    BY <1>3, <2>3
<1>5. ASSUME NEW k \in 0 .. Len(order), k \in P, k # Len(order) PROVE k + 1 \in P
  <2>1. k + 1 \in 1 .. Len(order) /\ (k + 1) - 1 = k /\ k + 1 \in 0 .. Len(order)
    BY <1>3, <1>5
  <2> DEFINE a == f[k]
             s == order[k + 1]
  <2>2. f[k + 1] = Back(a, s)
    BY <1>2, <2>1
  <2>3. Good(a)
    BY <1>5
  <2>4. s \in Switches(cy)
    BY <1>3, <1>s, <2>1
  <2> HIDE DEF a, s
  <2>5. s \in Switches(a.g)
    BY <2>3, <2>4, KeptIs
  <2>6. CASE IsCollapsed(a.g, s)
    <3> DEFINE h == BeginUnfold(a.g, s)
               u == UnfoldSlide(a.g, s)
               b == Append(a.begun, u)
    <3>1. Back(a, s) = [g |-> h, begun |-> b]
      BY <2>6 DEF Back
    <3>2. Whole(h, Append(slides \o a.begun, u)) /\ Kept(a.g, h)
      BY <2>3, <2>5, <2>6, UnfoldWhole
    <3> HIDE DEF h, u
    <3>3. Kept(cy, h)
      BY <2>3, <3>2 DEF Kept
    <3> DEFINE c == slides \o a.begun
    <3>4. c \in Seq(Slide) /\ Append(c, u) \in Seq(Slide)
      BY <1>w, <2>3, <3>2 DEF Whole
    <3>5. u \in Slide
      <4> HIDE DEF c
      <4>1. Append(c, u)[Len(c) + 1] = u /\ Len(c) + 1 \in 1 .. Len(Append(c, u))
        BY <3>4
      <4> QED
        BY <3>4, <4>1
    <3>6. b \in Seq(Slide) /\ Append(c, u) = slides \o b
      <4> DEFINE old == a.begun
      <4>1. old \in Seq(Slide)
        BY <2>3
      <4> HIDE DEF old
      <4>2. Append(old, u) \in Seq(Slide)
        BY <3>5, <4>1
      <4>3. Append(slides \o old, u) = slides \o Append(old, u)
        BY <1>w, <3>5, <4>1
      <4> QED
        BY <4>2, <4>3 DEF old
    <3>7. Good(f[k + 1])
      <4> HIDE DEF b, c
      <4>1. Whole(h, slides \o b)
        BY <3>2, <3>6 DEF c
      <4> QED
        BY <2>2, <3>1, <3>3, <3>6, <4>1
    <3> HIDE DEF Good
    <3> QED
      BY <2>1, <3>7
  <2>7. CASE ~IsCollapsed(a.g, s)
    <3>1. Back(a, s) = a
      BY <2>7 DEF Back
    <3> HIDE DEF Good
    <3> QED
      BY <2>1, <2>2, <2>3, <3>1
  <2> QED
    BY <2>6, <2>7
<1>6. Len(order) \in P
  <2> HIDE DEF P
  <2> QED
    BY <1>3, <1>4, <1>5, UpTo
<1>7. Good(UnfoldAll)
  <2> HIDE DEF Good
  <2> QED
    BY <1>2, <1>6
<1> QED
  BY <1>7

\* A node that moves takes its followers along.
LEMMA MoveWhole ==
  ASSUME NEW g, NEW sl, Whole(g, sl), NEW n, NEW p \in Pos
  PROVE  Whole(MoveTo(g, n, p), sl) /\ Kept(g, MoveTo(g, n, p))
<1> DEFINE q == [m \in Nodes |-> IF m = n \/ m \in Followers(g, n) THEN p ELSE g.pos[m]]
           h == MoveTo(g, n, p)
<1>0. Typed(g)
  BY DEF Whole, Sound
<1>1. g = [els |-> g.els, pos |-> g.pos, leaf |-> g.leaf, fold |-> g.fold,
           collapsed |-> g.collapsed, hidden |-> g.hidden, faded |-> g.faded,
           receded |-> g.receded, selected |-> g.selected]
  BY <1>0, CoreRecord
<1>2. h = [g EXCEPT !.pos = q]
  BY DEF MoveTo
<1>3. q \in [Nodes -> Pos]
  BY <1>0, TypedIs
<1> HIDE DEF q, h
<1>4. /\ Reshaped(g, h) /\ h.pos = q /\ h.leaf = g.leaf /\ h.fold = g.fold /\ h.collapsed = g.collapsed
  BY <1>1, <1>2 DEF Reshaped
<1>5. Whole(h, sl) /\ Kept(g, h)
  BY <1>3, <1>4, MovedWhole
<1> QED
  BY <1>5 DEF h

LEMMA LayoutIs ==
  ASSUME Whole(cy, slides), NEW ns, ns \subseteq Nodes, NEW to \in [Nodes -> Pos]
  PROVE  Whole(RunLayout(ns, to), slides) /\ Kept(cy, RunLayout(ns, to))
<1> DEFINE order == Listed(ns)
           Good(g) == Whole(g, slides) /\ Kept(cy, g)
<1>1. PICK f : LaidOutBy(f, ns, to)
  BY LayoutSteps
<1>2. /\ f[0] = cy
      /\ \A k \in 1 .. Len(order) : f[k] = MoveTo(f[k - 1], order[k], to[order[k]])
      /\ RunLayout(ns, to) = f[Len(order)]
  BY <1>1, Zenon DEF LaidOutBy
<1>3. Len(order) \in Nat /\ \A k \in 1 .. Len(order) : order[k] \in Items \cap ns
  BY ListedIs
<1> HIDE DEF order
<1> DEFINE P == {k \in 0 .. Len(order) : Good(f[k])}
<1>4. 0 \in P
  <2>1. Kept(cy, cy)
    BY DEF Kept
  <2> QED
    BY <1>2, <1>3, <2>1
<1>5. ASSUME NEW k \in 0 .. Len(order), k \in P, k # Len(order) PROVE k + 1 \in P
  <2>1. k + 1 \in 1 .. Len(order) /\ (k + 1) - 1 = k /\ k + 1 \in 0 .. Len(order)
    BY <1>3, <1>5
  <2> DEFINE n == order[k + 1]
             g == f[k]
             h == MoveTo(g, n, to[n])
  <2>2. f[k + 1] = h
    BY <1>2, <2>1
  <2>3. n \in Nodes /\ to[n] \in Pos
    BY <1>3, <2>1
  <2>4. Good(g)
    BY <1>5
  <2> HIDE DEF g, n
  <2>5. Whole(h, slides) /\ Kept(g, h)
    BY <2>3, <2>4, MoveWhole
  <2> HIDE DEF h
  <2>6. Good(f[k + 1])
    BY <2>2, <2>4, <2>5 DEF Kept
  <2> HIDE DEF Good
  <2> QED
    BY <2>1, <2>6
<1>6. Len(order) \in P
  <2> HIDE DEF P
  <2> QED
    BY <1>3, <1>4, <1>5, UpTo
<1> QED
  BY <1>2, <1>6

-----------------------------------------------------------------------------
(* The selection and its list. *)

Mirrors(list, g) == IsList(list) /\ ToSet(list) = g.selected

LEMMA OnSelectIs ==
  ASSUME NEW list, IsList(list), NEW ids, ids \subseteq Items
  PROVE  IsList(OnSelect(list, ids)) /\ ToSet(OnSelect(list, ids)) = ToSet(list) \cup ids
<1> DEFINE more == ids \ ToSet(list)
           t == Listed(more)
<1>1. IsList(t) /\ ToSet(t) = Items \cap more
  BY ListedIs
<1>2. ToSet(list) \cap ToSet(t) = {} /\ ToSet(list) \cup ToSet(t) = ToSet(list) \cup ids
  BY <1>1
<1>3. OnSelect(list, ids) = list \o t
  BY DEF OnSelect
<1> HIDE DEF t
<1> QED
  BY <1>1, <1>2, <1>3, JoinedLists

LEMMA OnUnselectIs ==
  ASSUME NEW list, IsList(list), NEW ids
  PROVE  /\ IsList(OnUnselect(list, ids)) /\ ToSet(OnUnselect(list, ids)) = ToSet(list) \ ids
         /\ IsList(OnRemove(list, ids)) /\ ToSet(OnRemove(list, ids)) = ToSet(list) \ ids
<1> DEFINE sel == ToSet(list) \ ids
           t == Filtered(list, sel)
<1>1. OnUnselect(list, ids) = t /\ OnRemove(list, ids) = t
  BY DEF OnUnselect, OnRemove
<1>2. ToSet(list) \cap sel = sel
  OBVIOUS
<1> HIDE DEF sel
<1>3. IsList(t) /\ ToSet(t) = ToSet(list) \cap sel
  BY FilteredList
<1> HIDE DEF t
<1> QED
  BY <1>1, <1>2, <1>3 DEF sel

\* Another selection leaves a core whole.
LEMMA SelectedWhole ==
  ASSUME NEW g, NEW sl, Whole(g, sl), NEW ids, ids \subseteq In(g),
         NEW h, h = [g EXCEPT !.selected = ids]
  PROVE  /\ Whole(h, sl) /\ h.selected = ids
         /\ h.els = g.els /\ h.hidden = g.hidden /\ h.faded = g.faded /\ h.receded = g.receded
<1>0. /\ Typed(g) /\ Scratched(g) /\ Framed(g) /\ Boxed(g) /\ Owned(g)
      /\ sl \in Seq(Slide) /\ AllFit(g, sl) /\ Tracked(g, sl)
  BY DEF Whole, Sound
<1>1. /\ h.els = g.els /\ h.pos = g.pos /\ h.leaf = g.leaf /\ h.fold = g.fold
      /\ h.collapsed = g.collapsed /\ h.hidden = g.hidden /\ h.faded = g.faded
      /\ h.receded = g.receded /\ h.selected = ids
      /\ h = [els |-> h.els, pos |-> h.pos, leaf |-> h.leaf, fold |-> h.fold,
              collapsed |-> h.collapsed, hidden |-> h.hidden, faded |-> h.faded,
              receded |-> h.receded, selected |-> h.selected]
  <2>1. g = [els |-> g.els, pos |-> g.pos, leaf |-> g.leaf, fold |-> g.fold,
              collapsed |-> g.collapsed, hidden |-> g.hidden, faded |-> g.faded,
              receded |-> g.receded, selected |-> g.selected]
    BY <1>0, CoreRecord
  <2> QED
    BY <2>1
<1>2. /\ In(h) = In(g) /\ Drawn(h) = Drawn(g) /\ Switches(h) = Switches(g) /\ Framed(h)
      /\ \A s : Followers(h, s) = Followers(g, s)
      /\ \A b : Children(h, b) = Children(g, b)
  <2>1. h.els = g.els /\ h.fold = g.fold
    BY <1>1
  <2>2. \A s : h.fold[s] = g.fold[s] => Followers(h, s) = Followers(g, s)
    BY <2>1, SameElements
  <2> QED
    BY <1>0, <2>1, <2>2, SameElements
<1>3. Typed(h)
  BY <1>0, <1>1, <1>2, TypedIs
<1>4. Scratched(h)
  BY <1>0, <1>1, <1>2 DEF Scratched
<1>5. Boxed(h)
  <2>1. OffScreen(h) = OffScreen(g)
    BY <1>1 DEF OffScreen
  <2> QED
    BY <1>0, <1>1, <1>2, <2>1 DEF Boxed
<1>6. Owned(h)
  BY <1>0, <1>1, <1>2 DEF Owned
<1>7. AllFit(h, sl)
  <2> SUFFICES ASSUME NEW k \in 1 .. Len(sl) PROVE SlideFits(h, sl[k])
    BY DEF AllFit
  <2>1. SlideFits(g, sl[k])
    BY <1>0 DEF AllFit
  <2> QED
    BY <1>1, <1>2, <2>1, StillFits
<1>8. Tracked(h, sl)
  BY <1>0, <1>1, <1>2 DEF Tracked
<1> QED
  BY <1>0, <1>1, <1>2, <1>3, <1>4, <1>5, <1>6, <1>7, <1>8 DEF Whole, Sound

-----------------------------------------------------------------------------
(* What the core shows. *)

\* ReconcileExact and FiltersHold of any core, model and filters.
Shows(g, m, f) ==
  /\ g.els = IF In(g) # {} THEN ToElements(m) ELSE Empty.els
  /\ \A i : i \in g.faded <=>
       f.dimHealthy /\ i \in In(g) \ Groups /\ m.mode = "single" /\ g.els[i].data.health = "ok"
  /\ \A i : i \in g.receded <=>
       /\ f.highlightChanges /\ i \in In(g) \ Groups /\ m.mode = "compare"
       /\ g.els[i].data.change = "unchanged" /\ g.els[i].data.churn = 0
  /\ \A n \in Nodes : n \in g.hidden <=> f.hideCAs /\ n \in Drawn(g) /\ Kind[n] = "ca"

LEMMA StillShows ==
  ASSUME NEW g, NEW m, NEW f, Shows(g, m, f), NEW h,
         h.els = g.els, h.hidden = g.hidden, h.faded = g.faded, h.receded = g.receded
  PROVE  Shows(h, m, f)
<1>1. In(h) = In(g) /\ Drawn(h) = Drawn(g)
  BY SameElements
<1> QED
  BY <1>1 DEF Shows

LEMMA ElementsOf ==
  ASSUME NEW m \in Models, NEW i \in DOMAIN ToElements(m) \ Groups
  PROVE  /\ i \in DOMAIN m.nodes \/ i \in DOMAIN m.links
         /\ i \in DOMAIN m.nodes => ToElements(m)[i].data = Data(m, m.nodes[i])
         /\ i \in DOMAIN m.links => ToElements(m)[i].data = Data(m, m.links[i])
         /\ ToElements(m)[i].data.mode = m.mode
<1> DEFINE want == ToElements(m)
<1>1. want = ToElements(m) /\ i \in DOMAIN want \ Groups
  OBVIOUS
<1> HIDE DEF want
<1>2. /\ DOMAIN want \subseteq Items
      /\ DOMAIN want \cap Nodes = DOMAIN m.nodes
      /\ DOMAIN want \cap Links = DOMAIN m.links
      /\ \A n \in DOMAIN m.nodes : want[n].data = Data(m, m.nodes[n])
      /\ \A l \in DOMAIN m.links : want[l].data = Data(m, m.links[l])
  BY <1>1, WantIs
<1>3. i \in DOMAIN m.nodes \/ i \in DOMAIN m.links
  BY <1>1, <1>2 DEF Items
<1>4. want[i].data.mode = m.mode
  <2>1. \A x : Data(m, x).mode = m.mode
    BY DEF Data
  <2> QED
    BY <1>2, <1>3, <2>1
<1> QED
  BY <1>1, <1>2, <1>3, <1>4

LEMMA NobodyIn ==
  ASSUME NEW f, DOMAIN f = {}, f = [i \in DOMAIN f |-> f[i]]
  PROVE  f = Empty.els
<1>1. Empty.els = [i \in {} |-> None]
  BY DEF Empty
<1> QED
  BY <1>1

LEMMA ElementsFunction ==
  ASSUME NEW m
  PROVE  ToElements(m) = [i \in DOMAIN ToElements(m) |-> ToElements(m)[i]]
<1> DEFINE want == ToElements(m)
           D == DOMAIN m.nodes \cup DOMAIN m.links \cup Boxes(m)
           V(i) == CASE i \in Nodes  -> [parent |-> GroupOf(m, i), data |-> Data(m, m.nodes[i])]
                     [] i \in Links  -> [parent |-> None, data |-> Data(m, m.links[i])]
                     [] i \in Groups -> [parent |-> None, data |-> None]
<1>1. want = [i \in D |-> V(i)]
  BY Zenon DEF ToElements
<1> HIDE DEF want, D, V
<1>2. want = [i \in DOMAIN want |-> want[i]]
  BY <1>1
<1> QED
  BY <1>2 DEF want

LEMMA ShownShows ==
  ASSUME NEW m \in Models, NEW g, g.els = ToElements(m), NEW f, NEW h, Shown(g, f, h)
  PROVE  Shows(h, m, f) /\ h.els = ToElements(m)
<1>1. In(h) = In(g) /\ Drawn(h) = Drawn(g) /\ h.els = g.els /\ In(g) = DOMAIN ToElements(m)
  BY SameElements DEF Shown, In
<1>2. \A i \in In(g) \ Groups : g.els[i].data.mode = m.mode
  BY <1>1, ElementsOf
<1>3. h.els = IF In(h) # {} THEN ToElements(m) ELSE Empty.els
  BY <1>1, NobodyIn, ElementsFunction
<1>4. \A i : i \in h.faded <=>
       f.dimHealthy /\ i \in In(g) \ Groups /\ m.mode = "single" /\ g.els[i].data.health = "ok"
  BY <1>2 DEF Shown
<1>5. \A i : i \in h.receded <=>
       /\ f.highlightChanges /\ i \in In(g) \ Groups /\ m.mode = "compare"
       /\ g.els[i].data.change = "unchanged" /\ g.els[i].data.churn = 0
  BY <1>2 DEF Shown
<1>6. \A n \in Nodes : n \in h.hidden <=> f.hideCAs /\ n \in Drawn(g) /\ Kind[n] = "ca"
  BY DEF Shown
<1> QED
  BY <1>1, <1>3, <1>4, <1>5, <1>6 DEF Shows

\* The state of a core that has nothing in it.
LEMMA EmptyIs ==
  /\ Whole(Empty, <<>>) /\ In(Empty) = {} /\ Empty.selected = {}
  /\ \A m, f : Shows(Empty, m, f)
<1>1. In(Empty) = {} /\ DOMAIN Empty.els = {}
  BY DEF Empty, In
<1>2. /\ Empty.pos = [n \in Nodes |-> 0] /\ Empty.leaf = [n \in Nodes |-> None]
      /\ Empty.fold = [n \in Nodes |-> None] /\ Empty.collapsed = {} /\ Empty.hidden = {}
      /\ Empty.faded = {} /\ Empty.receded = {} /\ Empty.selected = {}
      /\ Empty = [els |-> Empty.els, pos |-> Empty.pos, leaf |-> Empty.leaf, fold |-> Empty.fold,
                  collapsed |-> Empty.collapsed, hidden |-> Empty.hidden, faded |-> Empty.faded,
                  receded |-> Empty.receded, selected |-> Empty.selected]
  BY DEF Empty
<1> DEFINE g == Empty
<1>d. g = Empty
  OBVIOUS
<1> HIDE DEF g
<1>3. Typed(g)
  <2>1. g.pos \in [Nodes -> Pos]
    BY <1>2, <1>d, Positions
  <2>2. g.leaf \in [Nodes -> [under : Heads, off : Pos] \cup {None}]
    BY <1>2, <1>d
  <2>3. g.fold \in [Nodes -> (SUBSET Leaves) \cup {None}]
    BY <1>2, <1>d
  <2> QED
    BY <1>2, <1>d, <2>1, <2>2, <2>3, TypedIs
<1>4. Drawn(g) = {} /\ Switches(g) = {} /\ In(g) = {}
  BY <1>1, <1>d DEF Drawn, Switches
<1>5. \A n \in Nodes : g.leaf[n] = None /\ g.fold[n] = None
  BY <1>2, <1>d
<1>6. Scratched(g) /\ Framed(g) /\ Boxed(g) /\ Owned(g) /\ Tracked(g, <<>>)
  BY <1>2, <1>4, <1>5, <1>d DEF Scratched, Framed, Boxed, Owned, Tracked
<1>7. <<>> \in Seq(Slide) /\ AllFit(g, <<>>)
  BY DEF AllFit
<1>8. \A m, f : Shows(g, m, f)
  BY <1>2, <1>4, <1>d DEF Shows
<1> QED
  BY <1>2, <1>3, <1>4, <1>6, <1>7, <1>8, <1>d DEF Whole, Sound

LEMMA PhysicsIs ==
  /\ \A to \in Physics : to \in [Nodes -> Pos]
  /\ \A ns : \A to \in Answers(ns) : to \in [Nodes -> Pos]
<1>1. ASSUME NEW to \in Physics PROVE to \in [Nodes -> Pos]
  BY DEF Physics
<1>2. ASSUME NEW ns, NEW to \in Answers(ns) PROVE to \in [Nodes -> Pos]
  <2>1. PICK p \in Physics : to = [n \in Nodes |-> IF n \in ns THEN p[n] ELSE 0]
    BY DEF Answers
  <2>2. p \in [Nodes -> Pos]
    BY <1>1
  <2> QED
    BY <2>1, <2>2, Positions
<1> QED
  BY <1>1, <1>2

\* A layout is applied to a core.
LEMMA AppliedIs ==
  ASSUME NEW g, Sound(g), NEW l, IsLayout(l), NEW to \in [Nodes -> Pos]
  PROVE  /\ Loose(ApplyPositions(g, l, to), <<>>) /\ Boxed(ApplyPositions(g, l, to))
         /\ Kept(g, ApplyPositions(g, l, to))
         /\ \A n \in Nodes : ApplyPositions(g, l, to).leaf[n] = None
         /\ \A n \in Drawn(g) \cap Known(l) : ApplyPositions(g, l, to).pos[n] = l[n]
<1> DEFINE k == ResetAllCollapsed(g)
           h == Settle(k, Drawn(g), l, to)
<1>1. Loose(k, <<>>) /\ Boxed(k) /\ ResetOf(g, k)
  BY ResetWhole
<1>2. ApplyPositions(g, l, to) = h
  BY DEF ApplyPositions
<1> HIDE DEF k
<1>3. Kept(g, k) /\ \A n \in Nodes : k.leaf[n] = None
  BY <1>1 DEF ResetOf
<1>4. Loose(h, <<>>) /\ Kept(k, h) /\ SettledIn(k, Drawn(g), l, h) /\ Boxed(h)
  BY <1>1, SettledLoose
<1> HIDE DEF h
<1>5. Kept(g, h)
  BY <1>3, <1>4 DEF Kept
<1>6. \A n \in Nodes : h.leaf[n] = None
  BY <1>3, <1>4 DEF SettledIn
<1>7. \A n \in Drawn(g) \cap Known(l) : h.pos[n] = l[n]
  <2>1. In(k) = In(g)
    BY <1>3, KeptIs
  <2> QED
    BY <1>4, <2>1 DEF SettledIn, Drawn
<1> QED
  BY <1>2, <1>4, <1>5, <1>6, <1>7

LEMMA FirstDrawIs ==
  ASSUME NEW m \in Models, NEW l, IsLayout(l), NEW f, NEW to \in [Nodes -> Pos]
  PROVE  /\ Whole(FirstDraw(m, l, f, to), <<>>) /\ Shows(FirstDraw(m, l, f, to), m, f)
         /\ FirstDraw(m, l, f, to).selected = {}
<1> DEFINE g == Reconcile(Empty, m)
           q == IF Known(l) # {} THEN ApplyPositions(g, l, to)
                ELSE PlaceNewcomers(g, Added(Empty, m), None, to)
           h == ApplyFilters(q, f)
<1>1. FirstDraw(m, l, f, to) = h
  BY DEF FirstDraw
<1>2. Sound(Empty) /\ Whole(Empty, <<>>) /\ Empty.selected = {}
  BY EmptyIs DEF Whole
<1>3. Reconciled(Empty, m, g)
  BY <1>2, ReconcileIs
<1> HIDE DEF g
<1>4. Loose(g, <<>>)
  <2> DEFINE sl == <<>>
             tl == [k \in DOMAIN sl |-> Outlive(sl[k], Lost(Empty, m))]
  <2>1. Whole(Empty, sl)
    BY <1>2
  <2> HIDE DEF sl
  <2>2. Loose(g, tl) /\ Len(tl) = Len(sl)
    BY <1>3, <2>1, ArriveLoose
  <2> HIDE DEF tl
  <2>3. tl = <<>>
    <3>1. tl \in Seq(Slide) /\ Len(tl) = 0
      BY <2>2 DEF sl, Loose
    <3> QED
      BY <3>1
  <2> QED
    BY <2>2, <2>3
<1>5. Sound(g) /\ g.els = ToElements(m) /\ g.selected = {}
  BY <1>2, <1>3 DEF Reconciled
<1>6. Loose(q, <<>>) /\ Kept(g, q)
  <2>1. CASE Known(l) # {}
    BY <1>5, <2>1, AppliedIs
  <2>2. CASE Known(l) = {}
    <3> DEFINE ns == Added(Empty, m) \cap Nodes
    <3>1. q = Settle(g, ns, None, to)
      BY <2>2 DEF PlaceNewcomers
    <3>2. IsLayout(None)
      BY DEF IsLayout
    <3> HIDE DEF ns, q
    <3> QED
      BY <1>4, <3>1, <3>2, SettledLoose
  <2> QED
    BY <2>1, <2>2
<1> HIDE DEF q
<1>7. Whole(h, <<>>) /\ Shown(q, f, h)
  BY <1>6, ShownWhole
<1> HIDE DEF h
<1>8. q.els = ToElements(m) /\ h.selected = {}
  BY <1>5, <1>6, <1>7 DEF Kept, Shown
<1>9. Shows(h, m, f)
  BY <1>7, <1>8, ShownShows
<1> QED
  BY <1>1, <1>7, <1>8, <1>9

\* h is g with the model m in it: what stays in is as it was, but for leaves
\* that are let out of switches that leave.
Arrived(g, m, h) ==
  /\ h.els = ToElements(m) /\ h.selected = g.selected \ Lost(g, m)
  /\ \A n \in Drawn(g) \ Lost(g, m) :
       /\ h.fold[n] = g.fold[n]
       /\ n \in FollowersOf(g, LetOut(g, m)) => h.leaf[n] = None /\ n \notin h.collapsed
       /\ n \notin FollowersOf(g, LetOut(g, m)) =>
            h.leaf[n] = g.leaf[n] /\ h.pos[n] = g.pos[n] /\ (n \in h.collapsed <=> n \in g.collapsed)
  /\ \A n \in Drawn(g) \ Lost(g, m), s \in LetOut(g, m) :
       n \in Followers(g, s) /\ (\A t \in LetOut(g, m) : n \in Followers(g, t) => t = s)
         => h.pos[n] = Plus(g.pos[s], Offset(g, n))

LEMMA ArriveIs ==
  ASSUME NEW g, NEW sl, Whole(g, sl), NEW m \in Models, NEW l, IsLayout(l),
         NEW to \in [Nodes -> Pos], NEW f,
         NEW h, h = ApplyFilters(PlaceNewcomers(Reconcile(g, m), Added(g, m), l, to), f),
         NEW tl, tl = [k \in DOMAIN sl |-> Outlive(sl[k], Lost(g, m))]
  PROVE  /\ Whole(h, tl) /\ Len(tl) = Len(sl) /\ Shows(h, m, f) /\ Arrived(g, m, h)
         /\ (In(g) \ In(Reconcile(g, m))) \cup (In(g) \cap Added(g, m)) = Lost(g, m)
<1> DEFINE r  == Reconcile(g, m)
           ns == Added(g, m) \cap Nodes
           q  == Settle(r, ns, l, to)
<1>0. Sound(g)
  BY DEF Whole
<1>1. Reconciled(g, m, r) /\ Added(g, m) = DOMAIN ToElements(m) \ In(g)
  BY <1>0, ReconcileIs
<1>2. h = ApplyFilters(q, f)
  BY DEF PlaceNewcomers
<1> HIDE DEF r
<1>3. Loose(r, tl) /\ Len(tl) = Len(sl)
  BY <1>1, ArriveLoose
<1>4. /\ Sound(r) /\ r.els = ToElements(m) /\ r.selected = g.selected \ Lost(g, m)
      /\ In(r) = DOMAIN ToElements(m)
  BY <1>1 DEF Reconciled, In
<1>n. \A n \in Drawn(g) : n \notin ns
  BY <1>1 DEF Drawn
<1> HIDE DEF ns
<1>5. Loose(q, tl) /\ Kept(r, q) /\ SettledIn(r, ns, l, q)
  BY <1>3, SettledLoose
<1> HIDE DEF q
<1>6. Whole(h, tl) /\ Shown(q, f, h)
  BY <1>2, <1>5, ShownWhole
<1>7. q.els = ToElements(m)
  BY <1>4, <1>5 DEF Kept
<1>8. Shows(h, m, f) /\ h.els = ToElements(m)
  BY <1>6, <1>7, ShownShows
<1>9. h.selected = g.selected \ Lost(g, m)
  BY <1>4, <1>5, <1>6 DEF Kept, Shown
<1>10. \A n \in Nodes : /\ h.fold[n] = r.fold[n] /\ h.leaf[n] = r.leaf[n] /\ h.pos[n] = q.pos[n]
                        /\ n \in h.collapsed <=> n \in r.collapsed
  BY <1>5, <1>6 DEF SettledIn, Shown
<1>11. \A n \in Drawn(g) : n \in Nodes /\ q.pos[n] = r.pos[n]
  BY <1>5, <1>n DEF SettledIn, Drawn
<1>12. ASSUME NEW n \in Drawn(g) \ Lost(g, m)
       PROVE  /\ h.fold[n] = g.fold[n]
              /\ n \in FollowersOf(g, LetOut(g, m)) => h.leaf[n] = None /\ n \notin h.collapsed
              /\ n \notin FollowersOf(g, LetOut(g, m)) =>
                   /\ h.leaf[n] = g.leaf[n] /\ h.pos[n] = g.pos[n]
                   /\ n \in h.collapsed <=> n \in g.collapsed
  <2>1. n \in Nodes \ Lost(g, m)
    BY <1>11
  <2> QED
    BY <1>1, <1>10, <1>11, <2>1 DEF Reconciled
<1>13. ASSUME NEW n \in Drawn(g) \ Lost(g, m), NEW s \in LetOut(g, m), n \in Followers(g, s),
              \A t \in LetOut(g, m) : n \in Followers(g, t) => t = s
       PROVE  h.pos[n] = Plus(g.pos[s], Offset(g, n))
  <2>1. n \in Nodes \ Lost(g, m)
    BY <1>11
  <2>2. r.pos[n] = Plus(g.pos[s], Offset(g, n))
    BY <1>1, <1>13, <2>1 DEF Reconciled
  <2> QED
    BY <1>10, <1>11, <2>1, <2>2
<1>14. Arrived(g, m, h)
  BY <1>8, <1>9, <1>12, <1>13 DEF Arrived
<1>15. (In(g) \ In(r)) \cup (In(g) \cap Added(g, m)) = Lost(g, m)
  BY <1>1, <1>4 DEF Lost
<1> QED
  BY <1>3, <1>6, <1>8, <1>14, <1>15 DEF r

-----------------------------------------------------------------------------
(* The invariant holds. *)

\* What is always so: the core is whole, shows the model through the filters,
\* and has the selection that is listed.
CoreInv ==
  /\ Whole(cy, slides) /\ Len(slides) <= MaxSlides
  /\ Shows(cy, model, filters) /\ model \in Models
  /\ Mirrors(selection, cy)
  /\ IsLayout(saved)

LEMMA LayoutsAre ==
  \A l \in Layouts : IsLayout(l)
BY CoreAssumption DEF IsLayout, Pos

LEMMA NoSlides ==
  /\ <<>> \in Seq(Slide) /\ Len(<<>>) = 0 /\ 0 <= MaxSlides /\ MaxSlides \in Nat /\ 1 <= MaxSlides
  /\ IsList(<<>>) /\ ToSet(<<>>) = {}
<1>1. ToSet(<<>>) = {}
  BY DEF ToSet
<1> QED
  BY <1>1, CoreAssumption DEF IsList, Once

LEMMA CoreInit ==
  Init => CoreInv
<1> SUFFICES ASSUME Init PROVE CoreInv
  OBVIOUS
<1>1. model \in Models /\ saved = None /\ slides = <<>> /\ selection = <<>>
  BY DEF Init
<1>2. PICK to \in Physics : cy = FirstDraw(model, None, filters, to)
  BY DEF Init
<1>3. to \in [Nodes -> Pos] /\ IsLayout(None)
  BY PhysicsIs DEF IsLayout
<1>4. Whole(cy, <<>>) /\ Shows(cy, model, filters) /\ cy.selected = {}
  BY <1>1, <1>2, <1>3, FirstDrawIs
<1>5. Mirrors(selection, cy)
  BY <1>1, <1>4, NoSlides DEF Mirrors
<1> QED
  BY <1>1, <1>3, <1>4, <1>5, NoSlides DEF CoreInv

LEMMA InItems ==
  ASSUME CoreInv
  PROVE  In(cy) \subseteq Items /\ cy.selected \subseteq In(cy)
BY TypedIs DEF CoreInv, Whole, Sound, Framed

\* A step that picks: the elements are the ones they were.
LEMMA SelectSteps ==
  ASSUME CoreInv, NEW ids,
         \/ SelectOnly(ids) /\ ids \subseteq In(cy)
         \/ SelectAlso(ids) /\ ids \subseteq In(cy)
         \/ Unselect(ids),
         UNCHANGED <<model, slides, filters, saved>>
  PROVE  CoreInv'
<1>1. /\ Whole(cy, slides) /\ Shows(cy, model, filters)
      /\ IsList(selection) /\ ToSet(selection) = cy.selected
      /\ In(cy) \subseteq Items /\ cy.selected \subseteq In(cy)
  BY InItems DEF CoreInv, Mirrors
<1>2. ASSUME NEW S, S \subseteq In(cy), cy' = [cy EXCEPT !.selected = S],
             IsList(selection'), ToSet(selection') = S
      PROVE  CoreInv'
  <2>1. /\ Whole(cy', slides) /\ cy'.selected = S
        /\ cy'.els = cy.els /\ cy'.hidden = cy.hidden /\ cy'.faded = cy.faded
        /\ cy'.receded = cy.receded
    BY <1>1, <1>2, SelectedWhole
  <2>2. Shows(cy', model, filters)
    BY <1>1, <2>1, StillShows
  <2>3. Mirrors(selection', cy')
    BY <1>2, <2>1 DEF Mirrors
  <2>4. /\ Len(slides) <= MaxSlides /\ model \in Models /\ IsLayout(saved)
        /\ model' = model /\ slides' = slides /\ filters' = filters /\ saved' = saved
    BY DEF CoreInv
  <2> QED
    BY <2>1, <2>2, <2>3, <2>4 DEF CoreInv
<1>3. CASE SelectOnly(ids) /\ ids \subseteq In(cy)
  <2> DEFINE l1 == OnUnselect(selection, cy.selected)
  <2>1. IsList(l1) /\ ToSet(l1) = {}
    BY <1>1, OnUnselectIs
  <2>2. selection' = OnSelect(l1, ids) /\ cy' = [cy EXCEPT !.selected = ids]
    BY <1>3 DEF SelectOnly
  <2> HIDE DEF l1
  <2>3. IsList(selection') /\ ToSet(selection') = ids
    BY <1>1, <1>3, <2>1, <2>2, OnSelectIs
  <2> QED
    BY <1>2, <1>3, <2>2, <2>3
<1>4. CASE SelectAlso(ids) /\ ids \subseteq In(cy)
  <2> DEFINE more == ids \ cy.selected
             S == cy.selected \cup ids
  <2>1. selection' = OnSelect(selection, more) /\ cy' = [cy EXCEPT !.selected = S]
    BY <1>4 DEF SelectAlso
  <2>2. more \subseteq Items /\ S \subseteq In(cy) /\ cy.selected \cup more = S
    BY <1>1, <1>4
  <2> HIDE DEF more, S
  <2>3. IsList(selection') /\ ToSet(selection') = S
    BY <1>1, <2>1, <2>2, OnSelectIs
  <2> QED
    BY <1>2, <2>1, <2>2, <2>3
<1>5. CASE Unselect(ids)
  <2> DEFINE less == ids \cap cy.selected
             S == cy.selected \ ids
  <2>1. selection' = OnUnselect(selection, less) /\ cy' = [cy EXCEPT !.selected = S]
    BY <1>5 DEF Unselect
  <2>2. S \subseteq In(cy) /\ cy.selected \ less = S
    BY <1>1
  <2> HIDE DEF less, S
  <2>3. IsList(selection') /\ ToSet(selection') = S
    BY <1>1, <2>1, <2>2, OnUnselectIs
  <2> QED
    BY <1>2, <2>1, <2>2, <2>3
<1> QED
  BY <1>3, <1>4, <1>5

\* A step that changes what Kept does not tell of.
LEMMA KeptSteps ==
  ASSUME CoreInv, Whole(cy', slides'), Kept(cy, cy'), Len(slides') <= MaxSlides,
         IsLayout(saved'), UNCHANGED <<model, selection, filters>>
  PROVE  CoreInv'
<1>1. cy'.els = cy.els /\ cy'.hidden = cy.hidden /\ cy'.faded = cy.faded
      /\ cy'.receded = cy.receded /\ cy'.selected = cy.selected
  BY DEF Kept
<1>2. /\ Shows(cy, model, filters) /\ Mirrors(selection, cy) /\ model \in Models
      /\ model' = model /\ selection' = selection /\ filters' = filters
  BY DEF CoreInv
<1>3. Shows(cy', model, filters)
  BY <1>1, <1>2, StillShows
<1>4. Mirrors(selection, cy')
  BY <1>1, <1>2 DEF Mirrors
<1> QED
  BY <1>2, <1>3, <1>4 DEF CoreInv

LEMMA ArriveStep ==
  ASSUME CoreInv, NEW m \in Models, Arrive(m)
  PROVE  CoreInv' /\ Arrived(cy, m, cy')
<1> DEFINE r == Reconcile(cy, m)
           gone == (In(cy) \ In(r)) \cup (In(cy) \cap Added(cy, m))
           tl == [k \in DOMAIN slides |-> Outlive(slides[k], Lost(cy, m))]
<1>1. PICK to \in Answers((Added(cy, m) \cap Nodes) \ Known(saved)) :
        cy' = ApplyFilters(PlaceNewcomers(r, Added(cy, m), saved, to), filters)
  BY Zenon DEF Arrive
<1>2. to \in [Nodes -> Pos]
  BY PhysicsIs
<1>3. /\ model' = m /\ slides' = OutliveAll(gone) /\ selection' = OnRemove(selection, gone)
      /\ filters' = filters /\ saved' = saved
  BY Zenon DEF Arrive
<1>4. /\ Whole(cy, slides) /\ Len(slides) <= MaxSlides /\ Mirrors(selection, cy) /\ IsLayout(saved)
  BY DEF CoreInv
<1>5. /\ Whole(cy', tl) /\ Len(tl) = Len(slides) /\ Shows(cy', m, filters) /\ Arrived(cy, m, cy')
      /\ gone = Lost(cy, m)
  <2> HIDE DEF tl
  <2>1. tl = [k \in DOMAIN slides |-> Outlive(slides[k], Lost(cy, m))]
    BY DEF tl
  <2> QED
    BY <1>1, <1>2, <1>4, <2>1, ArriveIs
<1> HIDE DEF gone, r
<1>6. slides' = tl
  BY <1>3, <1>5 DEF OutliveAll
<1> HIDE DEF tl
<1>7. cy'.selected = cy.selected \ gone
  BY <1>5 DEF Arrived
<1>8. IsList(selection') /\ ToSet(selection') = cy.selected \ gone
  BY <1>3, <1>4, OnUnselectIs DEF Mirrors
<1>9. Mirrors(selection', cy')
  BY <1>7, <1>8 DEF Mirrors
<1> QED
  BY <1>3, <1>4, <1>5, <1>6, <1>9 DEF CoreInv

LEMMA SetFiltersStep ==
  ASSUME CoreInv, NEW f, SetFilters(f)
  PROVE  CoreInv'
<1>1. /\ Mounted /\ filters' = f /\ cy' = ApplyFilters(cy, f)
      /\ model' = model /\ slides' = slides /\ selection' = selection /\ saved' = saved
  BY DEF SetFilters
<1>2. /\ Loose(cy, slides) /\ Len(slides) <= MaxSlides /\ Shows(cy, model, filters)
      /\ model \in Models /\ Mirrors(selection, cy) /\ IsLayout(saved)
  BY DEF CoreInv, Whole, Loose
<1>3. Whole(cy', slides) /\ Shown(cy, f, cy')
  BY <1>1, <1>2, ShownWhole
<1>4. cy.els = ToElements(model)
  BY <1>1, <1>2 DEF Shows, Mounted
<1>5. Shows(cy', model, f)
  BY <1>2, <1>3, <1>4, ShownShows
<1>6. Mirrors(selection, cy')
  BY <1>2, <1>3 DEF Shown, Mirrors
<1> QED
  BY <1>1, <1>2, <1>3, <1>5, <1>6 DEF CoreInv

LEMMA UnmountStep ==
  ASSUME CoreInv, Unmount
  PROVE  CoreInv'
<1>1. /\ cy' = Empty /\ slides' = <<>> /\ selection' = <<>>
      /\ model' = model /\ filters' = filters /\ saved' = saved
  BY DEF Unmount
<1>2. Whole(cy', slides') /\ Shows(cy', model', filters') /\ Mirrors(selection', cy')
  BY <1>1, EmptyIs, NoSlides DEF Mirrors
<1> QED
  BY <1>1, <1>2, NoSlides DEF CoreInv

\* Slides of a core with nothing in it move nothing in the next.
LEMMA MountStep ==
  ASSUME CoreInv, Mount
  PROVE  CoreInv'
<1>1. In(cy) = {}
  BY DEF Mount, Mounted
<1>2. PICK m \in Models, to \in Physics : model' = m /\ cy' = FirstDraw(m, saved, filters, to)
  BY DEF Mount
<1>3. slides' = slides /\ selection' = selection /\ filters' = filters /\ saved' = saved
  BY DEF Mount
<1>4. /\ Whole(cy, slides) /\ Len(slides) <= MaxSlides /\ Mirrors(selection, cy) /\ IsLayout(saved)
      /\ slides \in Seq(Slide) /\ AllFit(cy, slides)
  BY DEF CoreInv, Whole
<1>5. /\ Whole(cy', <<>>) /\ Shows(cy', m, filters) /\ cy'.selected = {}
  BY <1>2, <1>4, PhysicsIs, FirstDrawIs
<1>6. AllFit(cy', slides)
  <2> SUFFICES ASSUME NEW k \in 1 .. Len(slides) PROVE SlideFits(cy', slides[k])
    BY DEF AllFit
  <2>1. SlideFits(cy, slides[k])
    BY <1>4 DEF AllFit
  <2>2. Drawn(cy) = {} /\ Switches(cy) = {}
    BY <1>1 DEF Drawn, Switches
  <2>3. DOMAIN slides[k].land = {} /\ slides[k].edges = {} /\ ~slides[k].alive
    BY <1>1, <2>1, <2>2 DEF SlideFits
  <2> QED
    BY <2>3 DEF SlideFits
<1>7. Tracked(cy', slides)
  <2>1. Tracked(cy', <<>>)
    BY <1>5 DEF Whole
  <2>2. 1 .. Len(<<>>) = {}
    OBVIOUS
  <2> QED
    BY <2>1, <2>2 DEF Tracked
<1>8. Whole(cy', slides)
  BY <1>4, <1>5, <1>6, <1>7 DEF Whole
<1>9. Mirrors(selection, cy')
  BY <1>1, <1>4, <1>5, InItems DEF Mirrors
<1> QED
  BY <1>2, <1>3, <1>4, <1>5, <1>8, <1>9 DEF CoreInv

LEMMA PickSteps ==
  ASSUME CoreInv,
         \/ \E i \in Tapped : \/ Tap(i) \/ ToggleTap(i) \/ FocusInGraph(i) \/ DeselectInGraph(i)
                              \/ SetSelectionToIds({i})
         \/ TapCanvas
         \/ \E s \in Nodes : SelectLeafGroup(s)
         \/ \E h \in {"down"} : AddMaskToSelection(h)
  PROVE  CoreInv'
<1>1. ASSUME NEW i, Tap(i) PROVE CoreInv'
  BY <1>1, SelectSteps DEF Tap, OnScreen
<1>2. ASSUME NEW i, ToggleTap(i) PROVE CoreInv'
  BY <1>2, SelectSteps DEF ToggleTap, OnScreen
<1>3. ASSUME NEW i, FocusInGraph(i) PROVE CoreInv'
  BY <1>3, SelectSteps DEF FocusInGraph
<1>4. ASSUME NEW i, DeselectInGraph(i) PROVE CoreInv'
  BY <1>4, SelectSteps DEF DeselectInGraph
<1>5. ASSUME NEW ids, SetSelectionToIds(ids) PROVE CoreInv'
  <2>1. ids \cap In(cy) \subseteq In(cy)
    OBVIOUS
  <2> QED
    BY <1>5, <2>1, SelectSteps DEF SetSelectionToIds
<1>6. CASE TapCanvas
  BY <1>6, SelectSteps DEF TapCanvas
<1>7. ASSUME NEW s, SelectLeafGroup(s) PROVE CoreInv'
  <2> DEFINE ids == LeafNeighbors(cy, s) \cup {s}
  <2>1. ids \subseteq In(cy)
    BY <1>7 DEF SelectLeafGroup, OnScreen, LeafNeighbors, Drawn
  <2>2. SelectOnly(ids) /\ UNCHANGED <<model, slides, filters, saved>>
    BY <1>7 DEF SelectLeafGroup
  <2> HIDE DEF ids
  <2> QED
    BY <2>1, <2>2, SelectSteps
<1>8. ASSUME NEW h, AddMaskToSelection(h) PROVE CoreInv'
  <2> DEFINE ids == {i \in In(cy) \ Groups : cy.els[i].data.health = h}
  <2>1. ids \subseteq In(cy)
    OBVIOUS
  <2>2. SelectAlso(ids) /\ UNCHANGED <<model, slides, filters, saved>>
    BY <1>8, Zenon DEF AddMaskToSelection
  <2> HIDE DEF ids
  <2> QED
    BY <2>1, <2>2, SelectSteps
<1> QED
  BY <1>1, <1>2, <1>3, <1>4, <1>5, <1>6, <1>7, <1>8

LEMMA SlideSteps ==
  ASSUME CoreInv,
         \/ \E s \in Nodes : CollapseLeaves(s) \/ ExpandLeaves(s)
         \/ CollapseAllLeaves \/ ExpandAllLeaves \/ Land
  PROVE  CoreInv'
<1>1. Whole(cy, slides) /\ Len(slides) <= MaxSlides /\ IsLayout(saved) /\ slides \in Seq(Slide)
  BY DEF CoreInv, Whole
<1>2. ASSUME NEW s \in Nodes, CollapseLeaves(s) PROVE CoreInv'
  <2>1. /\ slides = <<>> /\ s \in Switches(cy) /\ CanFold(cy, s)
        /\ cy' = BeginFold(cy, s) /\ slides' = Append(slides, FoldSlide(cy, s))
        /\ UNCHANGED <<model, selection, filters, saved>>
    BY <1>2 DEF CollapseLeaves, Unhurried
  <2>2. Standing(cy, slides)
    BY <2>1 DEF Standing
  <2>3. Whole(cy', slides') /\ Kept(cy, cy')
    BY <1>1, <2>1, <2>2, FoldWhole
  <2>4. Len(slides') <= MaxSlides
    BY <2>1, NoSlides
  <2> QED
    BY <1>1, <2>1, <2>3, <2>4, KeptSteps
<1>3. ASSUME NEW s \in Nodes, ExpandLeaves(s) PROVE CoreInv'
  <2>1. /\ s \in Switches(cy) /\ IsCollapsed(cy, s) /\ Len(slides) < MaxSlides
        /\ cy' = BeginUnfold(cy, s) /\ slides' = Append(slides, UnfoldSlide(cy, s))
        /\ UNCHANGED <<model, selection, filters, saved>>
    BY <1>3 DEF ExpandLeaves
  <2>2. Whole(cy', slides') /\ Kept(cy, cy')
    BY <1>1, <2>1, UnfoldWhole
  <2>3. Len(slides') <= MaxSlides
    BY <1>1, <2>1, NoSlides
  <2> QED
    BY <1>1, <2>1, <2>2, <2>3, KeptSteps
<1>4. CASE CollapseAllLeaves
  <2>1. /\ slides = <<>> /\ Len(FoldAll.begun) <= MaxSlides
        /\ cy' = FoldAll.g /\ slides' = FoldAll.begun
        /\ UNCHANGED <<model, selection, filters, saved>>
    BY <1>4 DEF CollapseAllLeaves, Unhurried
  <2>2. Whole(cy', slides') /\ Kept(cy, cy')
    BY <1>1, <2>1, FoldAllIs
  <2> QED
    BY <1>1, <2>1, <2>2, KeptSteps
<1>5. CASE ExpandAllLeaves
  <2>1. /\ Len(slides \o UnfoldAll.begun) <= MaxSlides
        /\ cy' = UnfoldAll.g /\ slides' = slides \o UnfoldAll.begun
        /\ UNCHANGED <<model, selection, filters, saved>>
    BY <1>5 DEF ExpandAllLeaves
  <2>2. Whole(cy', slides') /\ Kept(cy, cy')
    BY <1>1, <2>1, UnfoldAllIs
  <2> QED
    BY <1>1, <2>1, <2>2, KeptSteps
<1>6. CASE Land
  <2>1. /\ slides # <<>> /\ cy' = Landed(cy, Head(slides)) /\ slides' = Tail(slides)
        /\ UNCHANGED <<model, selection, filters, saved>>
    BY <1>6 DEF Land
  <2>2. Whole(cy', slides') /\ Kept(cy, cy')
    BY <1>1, <2>1, LandWhole
  <2>3. Len(slides') <= MaxSlides
    BY <1>1, <2>1, NoSlides
  <2> QED
    BY <1>1, <2>1, <2>2, <2>3, KeptSteps
<1> QED
  BY <1>2, <1>3, <1>4, <1>5, <1>6

LEMMA MoveSteps ==
  ASSUME CoreInv,
         \/ \E n \in Nodes : \E p \in Spots[n] : Drag(n, p)
         \/ ReRunLayout \/ RelayoutSelected
         \/ \E l \in Layouts : ApplyLayout(l)
  PROVE  CoreInv'
<1>1. Whole(cy, slides) /\ Len(slides) <= MaxSlides /\ IsLayout(saved) /\ Sound(cy)
  BY DEF CoreInv, Whole
<1>2. ASSUME NEW n \in Nodes, NEW p \in Spots[n], Drag(n, p) PROVE CoreInv'
  <2>1. p \in Pos
    BY CoreAssumption DEF Pos
  <2>2. cy' = MoveTo(cy, n, p) /\ UNCHANGED <<model, slides, selection, filters, saved>>
    BY <1>2 DEF Drag
  <2>3. Whole(cy', slides) /\ Kept(cy, cy')
    BY <1>1, <2>1, <2>2, MoveWhole
  <2> QED
    BY <1>1, <2>2, <2>3, KeptSteps
<1>3. ASSUME NEW ns, ns \subseteq Nodes, NEW to \in Answers(ns), cy' = RunLayout(ns, to),
             UNCHANGED <<model, slides, selection, filters, saved>>
      PROVE  CoreInv'
  <2>1. to \in [Nodes -> Pos]
    BY PhysicsIs
  <2>2. Whole(cy', slides) /\ Kept(cy, cy')
    BY <1>1, <1>3, <2>1, LayoutIs
  <2> QED
    BY <1>1, <1>3, <2>2, KeptSteps
<1>4. CASE ReRunLayout
  <2>1. Drawn(cy) \subseteq Nodes
    BY DEF Drawn
  <2> QED
    BY <1>3, <1>4, <2>1 DEF ReRunLayout
<1>5. CASE RelayoutSelected
  <2>1. cy.selected \cap Drawn(cy) \subseteq Nodes
    BY DEF Drawn
  <2> QED
    BY <1>3, <1>5, <2>1 DEF RelayoutSelected
<1>6. ASSUME NEW l \in Layouts, ApplyLayout(l) PROVE CoreInv'
  <2>1. PICK to \in Answers(Drawn(cy) \ Known(l)) : cy' = ApplyPositions(cy, l, to)
    BY <1>6 DEF ApplyLayout
  <2>2. /\ slides = <<>> /\ saved' = l
        /\ UNCHANGED <<model, slides, selection, filters>>
    BY <1>6 DEF ApplyLayout, Unhurried
  <2>3. to \in [Nodes -> Pos] /\ IsLayout(l)
    BY PhysicsIs, LayoutsAre
  <2>4. Loose(cy', <<>>) /\ Boxed(cy') /\ Kept(cy, cy')
    BY <1>1, <2>1, <2>3, AppliedIs
  <2>5. Whole(cy', slides')
    BY <2>2, <2>4 DEF Loose, Whole
  <2> QED
    BY <1>1, <2>2, <2>3, <2>4, <2>5, KeptSteps
<1> QED
  BY <1>2, <1>4, <1>5, <1>6

LEMMA CoreNext ==
  CoreInv /\ [Next]_vars => CoreInv'
<1> SUFFICES ASSUME CoreInv, [Next]_vars PROVE CoreInv'
  OBVIOUS
<1>1. CASE UNCHANGED vars
  BY <1>1 DEF vars, CoreInv, Whole, Shows, Mirrors, Sound, Boxed, Owned, AllFit, Tracked,
              Typed, Scratched, Framed
<1>2. CASE Next
  BY <1>2, ArriveStep, SetFiltersStep, UnmountStep, MountStep, PickSteps, SlideSteps, MoveSteps DEF Next
<1> QED
  BY <1>1, <1>2

LEMMA CoreInvariant ==
  Spec => []CoreInv
<1>1. Init => CoreInv
  BY CoreInit
<1>2. CoreInv /\ [Next]_vars => CoreInv'
  BY CoreNext
<1> QED
  BY <1>1, <1>2, PTL DEF Spec

LEMMA TypeOKHolds ==
  CoreInv => TypeOK
<1> SUFFICES ASSUME CoreInv PROVE TypeOK
  OBVIOUS
<1>1. /\ Sound(cy) /\ Typed(cy) /\ Scratched(cy) /\ In(cy) \subseteq Items
      /\ Len(slides) <= MaxSlides /\ model \in Models /\ IsLayout(saved)
  BY DEF CoreInv, Whole, Sound, Framed
<1>2. /\ cy.pos \in [Nodes -> Pos]
      /\ cy.collapsed \cup cy.hidden \cup cy.faded \cup cy.receded \cup cy.selected \subseteq In(cy)
  BY <1>1, TypedIs
<1>3. ASSUME NEW n \in Nodes
      PROVE  /\ cy.leaf[n] # None => cy.leaf[n] \in [under : Nodes, off : Pos] /\ Kind[n] = "ca"
             /\ cy.fold[n] # None => cy.fold[n] \subseteq Nodes /\ Kind[n] = "switch"
  <2>1. cy.leaf[n] \in [under : Heads, off : Pos] \cup {None}
    BY <1>1, TypedIs
  <2>2. /\ cy.leaf[n] # None => n \in Leaves
        /\ cy.fold[n] # None => n \in Heads /\ cy.fold[n] \subseteq Leaves
    BY <1>1, ScratchIs
  <2>3. Heads \subseteq Nodes /\ Leaves \subseteq Nodes
        /\ (n \in Leaves <=> Kind[n] = "ca") /\ (n \in Heads <=> Kind[n] = "switch")
    BY Kinds
  <2>4. cy.leaf[n] # None => cy.leaf[n] \in [under : Nodes, off : Pos]
    BY <2>1, <2>3
  <2> QED
    BY <2>2, <2>3, <2>4
<1>4. saved = None \/ DOMAIN saved \subseteq Nodes
  BY <1>1 DEF IsLayout
<1> QED
  BY <1>1, <1>2, <1>3, <1>4 DEF TypeOK, Items

\* The core holds exactly what the model has, each in its box and with its
\* data, and App's list is the selection the core has, whatever models came
\* while leaves were folded, slid, dragged or selected (reconcile.ts 20-108,
\* GraphView.tsx 94-115).
THEOREM TheCoreIsTheModel ==
  Spec => []CoreIsTheModel
<1>1. CoreInv => CoreIsTheModel
  <2> SUFFICES ASSUME CoreInv PROVE CoreIsTheModel
    OBVIOUS
  <2>1. TypeOK
    BY TypeOKHolds
  <2>2. ReconcileExact
    BY DEF CoreInv, Shows, ReconcileExact, Mounted
  <2>3. SelectionMirrors
    BY AsManyItems DEF CoreInv, Mirrors, SelectionMirrors
  <2> QED
    BY <2>1, <2>2, <2>3 DEF CoreIsTheModel
<1> QED
  BY <1>1, CoreInvariant, PTL

LEMMA FiltersHoldThen ==
  CoreInv => FiltersHold
<1> SUFFICES ASSUME CoreInv PROVE FiltersHold
  OBVIOUS
<1>1. /\ Shows(cy, model, filters) /\ model \in Models /\ In(cy) \subseteq Items
  BY InItems DEF CoreInv
<1>2. /\ \A i : i \in cy.faded <=>
           /\ filters.dimHealthy /\ i \in In(cy) \ Groups /\ model.mode = "single"
           /\ cy.els[i].data.health = "ok"
      /\ \A i : i \in cy.receded <=>
           /\ filters.highlightChanges /\ i \in In(cy) \ Groups /\ model.mode = "compare"
           /\ cy.els[i].data.change = "unchanged" /\ cy.els[i].data.churn = 0
      /\ \A n \in Nodes : n \in cy.hidden <=> filters.hideCAs /\ n \in Drawn(cy) /\ Kind[n] = "ca"
  BY <1>1 DEF Shows
<1>3. cy.faded = IF Mounted /\ filters.dimHealthy /\ model.mode = "single"
                   THEN {i \in In(cy) \ Groups : cy.els[i].data.health = "ok"} ELSE {}
  BY <1>2 DEF Mounted
<1>4. cy.hidden \cap Nodes = IF filters.hideCAs
                               THEN {n \in Drawn(cy) : Kind[n] = "ca"} ELSE {}
  BY <1>2 DEF Drawn
<1>5. cy.receded = IF Mounted /\ filters.highlightChanges /\ model.mode = "compare"
                     THEN {n \in DOMAIN model.nodes : ~IsInteresting(model.nodes[n])}
                          \cup {l \in DOMAIN model.links : ~IsInteresting(model.links[l])}
                     ELSE {}
  <2>1. CASE ~Mounted
    BY <1>2, <2>1 DEF Mounted
  <2>2. CASE Mounted
    <3> DEFINE want == ToElements(model)
               calm == {n \in DOMAIN model.nodes : ~IsInteresting(model.nodes[n])}
                       \cup {l \in DOMAIN model.links : ~IsInteresting(model.links[l])}
    <3>1. cy.els = want /\ In(cy) = DOMAIN want
      BY <1>1, <2>2 DEF Shows, Mounted, In
    <3>2. ASSUME NEW i \in In(cy) \ Groups
          PROVE  i \in calm <=> cy.els[i].data.change = "unchanged" /\ cy.els[i].data.churn = 0
      <4>0. i \in DOMAIN want \ Groups
        BY <3>1
      <4>1. /\ i \in DOMAIN model.nodes \/ i \in DOMAIN model.links
            /\ i \in DOMAIN model.nodes => want[i].data = Data(model, model.nodes[i])
            /\ i \in DOMAIN model.links => want[i].data = Data(model, model.links[i])
        BY <1>1, <4>0, ElementsOf
      <4>2. DOMAIN model.nodes \subseteq Nodes /\ DOMAIN model.links \subseteq Links
            /\ DOMAIN model.nodes \cap DOMAIN model.links = {}
        BY <1>1, ModelsAssumption, Kinds
      <4> HIDE DEF want
      <4>3. CASE i \in DOMAIN model.nodes
        <5>1. /\ cy.els[i].data.change = model.nodes[i].change
              /\ cy.els[i].data.churn = model.nodes[i].churn
          BY <3>1, <4>1, <4>3 DEF Data
        <5>2. model.nodes[i].churn \in Nat
          BY <1>1, <4>3, ModelsAssumption
        <5>3. i \in calm <=> ~IsInteresting(model.nodes[i])
          BY <4>2, <4>3
        <5> QED
          BY <5>1, <5>2, <5>3 DEF IsInteresting
      <4>4. CASE i \in DOMAIN model.links
        <5>1. /\ cy.els[i].data.change = model.links[i].change
              /\ cy.els[i].data.churn = model.links[i].churn
          BY <3>1, <4>1, <4>4 DEF Data
        <5>2. model.links[i].churn \in Nat
          BY <1>1, <4>4, ModelsAssumption
        <5>3. i \in calm <=> ~IsInteresting(model.links[i])
          BY <4>2, <4>4
        <5> QED
          BY <5>1, <5>2, <5>3 DEF IsInteresting
      <4> QED
        BY <4>1, <4>3, <4>4
    <3>3. calm \subseteq In(cy) \ Groups
      <4>1. DOMAIN model.nodes \subseteq Nodes /\ DOMAIN model.links \subseteq Links
        BY <1>1, ModelsAssumption
      <4>2. DOMAIN want \cap Nodes = DOMAIN model.nodes /\ DOMAIN want \cap Links = DOMAIN model.links
        <5>1. want = ToElements(model)
          OBVIOUS
        <5> HIDE DEF want
        <5> QED
          BY <1>1, <5>1, WantIs
      <4> HIDE DEF want
      <4> QED
        BY <3>1, <4>1, <4>2, Kinds
    <3> HIDE DEF calm
    <3>4. \A i : i \in cy.receded <=>
            filters.highlightChanges /\ model.mode = "compare" /\ i \in calm
      BY <1>2, <3>2, <3>3
    <3>5. cy.receded = IF filters.highlightChanges /\ model.mode = "compare" THEN calm ELSE {}
      BY <3>4
    <3> QED
      BY <2>2, <3>5 DEF calm
  <2> QED
    BY <2>1, <2>2
<1> QED
  BY <1>3, <1>4, <1>5 DEF FiltersHold

\* A box is on screen exactly while one of its members is, and the classes of
\* the filters are those of what is drawn, whatever came after they were set
\* (groupBoxes.ts, filters.ts).
THEOREM ClassesAreRight ==
  Spec => []ClassesFollow
<1>1. CoreInv => ClassesFollow
  BY FiltersHoldThen DEF CoreInv, Whole, Boxed, BoxFrames, ClassesFollow
<1> QED
  BY <1>1, CoreInvariant, PTL

\* No sweep, fold or slide hides a leaf for good: a switch in the graph has it
\* on its list (leafOps.ts, reconcile.ts).
THEOREM NoLeafIsLost ==
  Spec => []HiddenHasOwner
<1>1. CoreInv => HiddenHasOwner
  BY DEF CoreInv, Whole, Owned, HiddenHasOwner
<1> QED
  BY <1>1, CoreInvariant, PTL

-----------------------------------------------------------------------------
(* Places. *)

\* A leaf at rest that is folded under the one switch that lists it, or under
\* none and on no list.
LEMMA AtRest ==
  ASSUME CoreInv, NEW n \in Drawn(cy), ~Sliding(n), ~Estranged(n)
  PROVE  \/ cy.leaf[n] = None /\ \A s \in Nodes : n \notin Followers(cy, s)
         \/ /\ cy.leaf[n] # None /\ cy.leaf[n].under \in Folded(cy)
            /\ n \in Followers(cy, cy.leaf[n].under)
            /\ \A s \in Nodes : n \in Followers(cy, s) => s = cy.leaf[n].under
<1>1. Sound(cy) /\ Scratched(cy) /\ Tracked(cy, slides) /\ slides \in Seq(Slide)
  BY DEF CoreInv, Whole, Sound
<1>2. n \in Nodes
  BY DEF Drawn
<1>3. \A s \in Nodes : n \in Followers(cy, s) => s \in Switches(cy) /\ s \in Folded(cy)
  BY <1>1, FoldedAreSwitches DEF Followers
<1>4. \A s \in Nodes : n \in Followers(cy, s) => cy.leaf[n] # None /\ cy.leaf[n].under = s
  BY <1>3 DEF Estranged
<1>5. cy.leaf[n] # None => n \in Followers(cy, cy.leaf[n].under)
  <2>1. DOMAIN slides = 1 .. Len(slides)
    BY <1>1
  <2> QED
    BY <1>1, <1>2, <2>1 DEF Tracked, Sliding
<1>6. cy.leaf[n] # None => cy.leaf[n].under \in Nodes
  BY <1>1, <1>2, ScratchIs
<1> QED
  BY <1>3, <1>4, <1>5, <1>6

\* What is captured is what unfolding would show, and to apply it right away
\* restores it (positions.ts, leafOps.ts).
THEOREM SavedIsRestored ==
  Spec => []SavedLayoutRestores
<1>1. CoreInv => SavedLayoutRestores
  <2> SUFFICES ASSUME CoreInv PROVE SavedLayoutRestores
    OBVIOUS
  <2> DEFINE seen == CapturePositions(cy)
             u == ResetAllCollapsed(cy)
             h == ApplyPositions(cy, seen, cy.pos)
  <2>1. Sound(cy) /\ Typed(cy)
    BY DEF CoreInv, Whole, Sound
  <2>2. ResetOf(cy, u)
    BY <2>1, ResetIs
  <2>3. \A n \in Drawn(cy) : n \in Nodes /\ seen[n] = LogicalPosition(cy, n)
    BY DEF CapturePositions, Drawn
  <2>4. DOMAIN seen = Drawn(cy) /\ seen = [n \in Drawn(cy) |-> seen[n]]
    BY DEF CapturePositions
  <2> HIDE DEF seen, u
  <2>5. ASSUME NEW n \in Drawn(cy), ~Sliding(n), ~Estranged(n)
        PROVE  seen[n] = u.pos[n]
    <3>1. n \in Nodes
      BY <2>3
    <3>2. CASE cy.leaf[n] = None /\ \A s \in Nodes : n \notin Followers(cy, s)
      <4>1. n \notin FollowersOf(cy, Folded(cy))
        BY <3>2 DEF FollowersOf, Folded, Drawn
      <4>2. u.pos[n] = cy.pos[n]
        BY <2>2, <3>1, <4>1 DEF ResetOf
      <4> QED
        BY <2>3, <3>2, <4>2 DEF LogicalPosition
    <3>3. CASE /\ cy.leaf[n] # None /\ cy.leaf[n].under \in Folded(cy)
               /\ n \in Followers(cy, cy.leaf[n].under)
               /\ \A s \in Nodes : n \in Followers(cy, s) => s = cy.leaf[n].under
      <4> DEFINE s == cy.leaf[n].under
      <4>1. \A t \in Folded(cy) : n \in Followers(cy, t) => t = s
        BY <3>3 DEF Folded, Drawn
      <4>2. u.pos[n] = Plus(cy.pos[s], Offset(cy, n))
        BY <2>2, <3>1, <3>3, <4>1 DEF ResetOf
      <4>3. Offset(cy, n) = cy.leaf[n].off
        BY <3>3 DEF Offset
      <4>4. s \in In(cy)
        BY <3>3 DEF Folded, Drawn
      <4> QED
        BY <2>3, <3>3, <4>2, <4>3, <4>4 DEF LogicalPosition
    <3> QED
      BY <2>5, <3>2, <3>3, AtRest
  <2>6. \A n \in Drawn(cy) : seen[n] \in Pos
    <3> SUFFICES ASSUME NEW n \in Drawn(cy) PROVE LogicalPosition(cy, n) \in Pos
      BY <2>3
    <3>1. n \in Nodes /\ cy.pos[n] \in Pos
      BY <2>1, <2>3, TypedIs
    <3>2. cy.leaf[n] # None => cy.leaf[n].under \in Nodes /\ cy.leaf[n].off \in Pos
      BY <2>1, <3>1, ScratchIs
    <3>3. cy.leaf[n] # None => cy.pos[cy.leaf[n].under] \in Pos
      BY <2>1, <3>2, TypedIs
    <3> QED
      BY <3>1, <3>2, <3>3, Positions DEF LogicalPosition
  <2>7. seen \in [Drawn(cy) -> Pos] /\ Drawn(cy) \in SUBSET Nodes
    BY <2>3, <2>4, <2>6
  <2>8. IsLayout(seen) /\ seen # None
    BY <2>7, NullAssumption DEF IsLayout, Pos
  <2>9. Known(seen) = Drawn(cy)
    BY <2>4, <2>8 DEF Known
  <2>10. /\ Kept(cy, h) /\ \A n \in Nodes : h.leaf[n] = None
         /\ \A n \in Drawn(cy) : h.pos[n] = seen[n]
    <3>1. cy.pos \in [Nodes -> Pos]
      BY <2>1, TypedIs
    <3>2. \A n \in Drawn(cy) \cap Known(seen) : h.pos[n] = seen[n]
      BY <2>1, <2>8, <3>1, AppliedIs
    <3> QED
      BY <2>1, <2>8, <2>9, <3>1, <3>2, AppliedIs
  <2> HIDE DEF h
  <2>11. CapturePositions(h) = seen
    <3>1. Drawn(h) = Drawn(cy)
      BY <2>10, KeptIs
    <3>2. \A n \in Drawn(cy) : LogicalPosition(h, n) = seen[n]
      BY <2>3, <2>10 DEF LogicalPosition
    <3> QED
      BY <2>4, <3>1, <3>2 DEF CapturePositions
  <2> QED
    BY <2>5, <2>11 DEF SavedLayoutRestores, seen, u, h
<1> QED
  BY <1>1, CoreInvariant, PTL

\* A model that arrives leaves what stays where it was, selected as it was and
\* folded as it was (reconcile.ts 20-108, positions.ts).
THEOREM SurvivorsStay ==
  Spec => SurvivorsKeepPlace
<1> DEFINE Stay ==
       /\ \A i \in In(cy) \cap In(cy') : i \in cy.selected <=> i \in cy'.selected
       /\ \A n \in Drawn(cy) \cap Drawn(cy') :
            /\ Sliding(n) \/ Estranged(n) \/ LogicalPosition(cy', n) = LogicalPosition(cy, n)
            /\ \A s \in Switches(cy) \cap Switches(cy') :
                 n \in Followers(cy, s) =>
                   /\ n \in Followers(cy', s)
                   /\ Estranged(n) \/ (n \in cy.collapsed <=> n \in cy'.collapsed)
<1>1. ASSUME CoreInv, NEW m \in Models, Arrive(m) PROVE Stay
  <2>0. /\ Sound(cy) /\ Scratched(cy) /\ Typed(cy)
    BY <1>1 DEF CoreInv, Whole, Sound
  <2>1. Arrived(cy, m, cy')
    BY <1>1, ArriveStep
  <2>2. In(cy') = DOMAIN ToElements(m) /\ cy'.selected = cy.selected \ Lost(cy, m)
    BY <2>1 DEF Arrived, In
  <2>3. \A i \in In(cy) \cap In(cy') : i \notin Lost(cy, m)
    BY <2>2 DEF Lost
  <2>4. ASSUME NEW n \in Drawn(cy) \cap Drawn(cy')
        PROVE  /\ n \in Nodes /\ n \in Drawn(cy) \ Lost(cy, m)
               /\ cy'.fold[n] = cy.fold[n]
               /\ n \notin FollowersOf(cy, LetOut(cy, m)) =>
                    /\ cy'.leaf[n] = cy.leaf[n] /\ cy'.pos[n] = cy.pos[n]
                    /\ n \in cy'.collapsed <=> n \in cy.collapsed
    <3>1. n \in Nodes /\ n \in Drawn(cy) \ Lost(cy, m)
      BY <2>3 DEF Drawn
    <3> QED
      BY <2>1, <3>1 DEF Arrived
  <2>5. ASSUME NEW n \in Drawn(cy) \cap Drawn(cy'), ~Sliding(n), ~Estranged(n)
        PROVE  LogicalPosition(cy', n) = LogicalPosition(cy, n)
    <3>1. CASE cy.leaf[n] = None /\ \A s \in Nodes : n \notin Followers(cy, s)
      <4>1. n \notin FollowersOf(cy, LetOut(cy, m))
        BY <3>1 DEF FollowersOf, LetOut, Folded, Drawn
      <4> QED
        BY <2>4, <3>1, <4>1 DEF LogicalPosition
    <3>2. CASE /\ cy.leaf[n] # None /\ cy.leaf[n].under \in Folded(cy)
               /\ n \in Followers(cy, cy.leaf[n].under)
               /\ \A s \in Nodes : n \in Followers(cy, s) => s = cy.leaf[n].under
      <4> DEFINE s == cy.leaf[n].under
      <4>0. s \in Nodes /\ s \in In(cy) /\ s \in Heads /\ s \in Drawn(cy)
        BY <2>0, <3>2, FoldedAreSwitches DEF Folded, Drawn
      <4>1. LogicalPosition(cy, n) = Plus(cy.pos[s], cy.leaf[n].off)
        BY <3>2, <4>0 DEF LogicalPosition
      <4>2. CASE s \in Lost(cy, m)
        <5>1. s \in LetOut(cy, m)
          BY <3>2, <4>2 DEF LetOut
        <5>2. \A t \in LetOut(cy, m) : n \in Followers(cy, t) => t = s
          BY <3>2 DEF LetOut, Folded, Drawn
        <5>3. cy'.pos[n] = Plus(cy.pos[s], Offset(cy, n))
          BY <2>1, <2>4, <3>2, <5>1, <5>2 DEF Arrived
        <5>4. cy'.leaf[n] = None
          BY <2>1, <2>4, <3>2, <5>1 DEF Arrived, FollowersOf
        <5>5. Offset(cy, n) = cy.leaf[n].off
          BY <3>2 DEF Offset
        <5> QED
          BY <4>1, <5>3, <5>4, <5>5 DEF LogicalPosition
      <4>3. CASE s \notin Lost(cy, m)
        <5>1. n \notin FollowersOf(cy, LetOut(cy, m))
          <6> SUFFICES ASSUME NEW t \in LetOut(cy, m), n \in Followers(cy, t) PROVE FALSE
            BY DEF FollowersOf
          <6>1. t = s
            BY <3>2 DEF LetOut, Folded, Drawn
          <6> QED
            BY <4>3, <6>1 DEF LetOut
        <5>2. s \in In(cy')
          BY <2>2, <4>0, <4>3 DEF Lost
        <5>3. s \notin FollowersOf(cy, LetOut(cy, m))
          <6>1. \A t \in LetOut(cy, m) : t \in Nodes
            BY DEF LetOut, Folded, Drawn
          <6> QED
            BY <2>0, <4>0, <6>1, FollowersAreLeaves, Kinds DEF FollowersOf
        <5>4. cy'.pos[s] = cy.pos[s]
          BY <2>4, <4>0, <5>2, <5>3 DEF Drawn
        <5>5. cy'.leaf[n] = cy.leaf[n]
          BY <2>4, <5>1
        <5> QED
          BY <3>2, <4>1, <5>2, <5>4, <5>5 DEF LogicalPosition
      <4> QED
        BY <4>2, <4>3
    <3> QED
      BY <1>1, <2>5, <3>1, <3>2, AtRest
  <2>6. ASSUME NEW n \in Drawn(cy) \cap Drawn(cy'), NEW s \in Switches(cy) \cap Switches(cy'),
               n \in Followers(cy, s)
        PROVE  /\ n \in Followers(cy', s)
               /\ Estranged(n) \/ (n \in cy.collapsed <=> n \in cy'.collapsed)
    <3>1. s \in Drawn(cy) \cap Drawn(cy') /\ n \in In(cy')
      BY DEF Switches, Drawn
    <3>2. cy'.fold[s] = cy.fold[s] /\ s \notin Lost(cy, m)
      BY <2>4, <3>1
    <3>3. n \in Followers(cy', s)
      BY <2>6, <3>1, <3>2 DEF Followers
    <3>4. ASSUME ~Estranged(n) PROVE n \in cy.collapsed <=> n \in cy'.collapsed
      <4>1. n \notin FollowersOf(cy, LetOut(cy, m))
        <5> SUFFICES ASSUME NEW t \in LetOut(cy, m), n \in Followers(cy, t) PROVE FALSE
          BY DEF FollowersOf
        <5>1. t \in Switches(cy)
          BY <2>0, FoldedAreSwitches DEF LetOut
        <5>2. t = s
          BY <2>6, <3>4, <5>1 DEF Estranged
        <5> QED
          BY <3>2, <5>2 DEF LetOut
      <4> QED
        BY <2>4, <4>1
    <3> QED
      BY <3>3, <3>4
  <2> QED
    BY <2>2, <2>3, <2>5, <2>6
<1>2. ASSUME CoreInv, Mount PROVE Stay
  <2>1. In(cy) = {}
    BY <1>2 DEF Mount, Mounted
  <2> QED
    BY <2>1 DEF Drawn
<1>3. ASSUME CoreInv, [Next]_vars, model' # model PROVE Stay
  <2> HIDE DEF Stay
  <2>1. (\E m \in Models : Arrive(m)) \/ Mount
    BY <1>3 DEF Next, vars, SetFilters, Unmount, Tap, ToggleTap, FocusInGraph, DeselectInGraph,
         SetSelectionToIds, TapCanvas, Drag, SelectLeafGroup, CollapseLeaves, ExpandLeaves,
         CollapseAllLeaves, ExpandAllLeaves, ReRunLayout, RelayoutSelected, Land, ApplyLayout,
         AddMaskToSelection
  <2> QED
    BY <1>1, <1>2, <1>3, <2>1
<1>4. CoreInv /\ [Next]_vars => [model' # model => Stay]_vars
  <2> HIDE DEF Stay
  <2> QED
    BY <1>3
<1> QED
  BY <1>4, CoreInvariant, PTL DEF Spec, SurvivorsKeepPlace
=============================================================================
