---------------------------- MODULE Cards_proofs ----------------------------
(***************************************************************************)
(* Theorems about the cards and the summary, for any graph, history of it, *)
(* threshold and order of selection.  What the cards are of is a list      *)
(* without repetitions of what is drawn, beside a model that is of the     *)
(* instants on screen.                                                     *)
(***************************************************************************)
EXTENDS Cards, WellFoundedInduction, FiniteSetTheorems, SequenceTheorems, TLAPS

-----------------------------------------------------------------------------
(* Lists of ids. *)

\* A set of naturals with 0 and the successor of each of its members is Nat.
LEMMA Reached ==
  ASSUME NEW n \in Nat, NEW P, 0 \in P, \A k \in 0 .. n : k \in P => k + 1 \in P
  PROVE  n \in P
<1> SUFFICES ASSUME n \notin P
             PROVE  FALSE
  OBVIOUS
<1> DEFINE R == OpToRel(<, Nat)
           S == {k \in 0 .. n : k \notin P}
<1>1. IsWellFoundedOn(R, Nat)
  BY NatLessThanWellFounded
<1>2. \A x, y \in Nat : <<y, x>> \in R <=> y < x
  BY DEF OpToRel
<1> HIDE DEF R
<1>3. S \subseteq Nat /\ S # {}
  OBVIOUS
<1>4. PICK m \in S : \A k \in S : ~ (<<k, m>> \in R)
  BY <1>1, <1>3, WFMin
<1>5. m # 0 /\ m - 1 \in 0 .. n /\ m - 1 < m /\ m = (m - 1) + 1 /\ m - 1 \in Nat /\ m \in Nat
  BY <1>4
<1>6. m - 1 \in S
  BY <1>5, <1>4
<1> QED
  BY <1>2, <1>4, <1>5, <1>6

\* The values of the recursion.
FilteredBy(f, list, S) ==
  /\ f[0] = <<>>
  /\ \A k \in 1 .. Len(list) :
       /\ list[k] \in S => f[k] = Append(f[k - 1], list[k])
       /\ list[k] \notin S => f[k] = f[k - 1]
  /\ Filtered(list, S) = f[Len(list)]

\* The recursion has them: were n the least length without, n - 1 would have.
LEMMA FilterSteps ==
  ASSUME NEW T, NEW list \in Seq(T), NEW S
  PROVE  \E f : FilteredBy(f, list, S)
<1> DEFINE E(f, k) == IF k = 0 THEN <<>>
                      ELSE IF list[k] \in S THEN Append(f[k - 1], list[k]) ELSE f[k - 1]
           Rec(f, n) == f = [k \in 0 .. n |-> E(f, k)]
           P == {n \in Nat : \E f : Rec(f, n)}
           F == CHOOSE f : Rec(f, Len(list))
<1>1. ASSUME NEW f, NEW n \in Nat, Rec(f, n), NEW k \in 0 .. n PROVE f[k] = E(f, k)
  <2> HIDE DEF E
  <2> QED
    BY <1>1
<1>2. 0 \in P
  <2>1. E([k \in 0 .. 0 |-> <<>>], 0) = <<>>
    OBVIOUS
  <2>2. Rec([k \in 0 .. 0 |-> <<>>], 0)
    <3> HIDE DEF E
    <3> QED
      BY <2>1
  <2> QED
    BY <2>2
<1>3. ASSUME NEW n \in Nat, n \in P PROVE n + 1 \in P
  <2>1. PICK f : Rec(f, n)
    BY <1>3
  <2> DEFINE g == [k \in 0 .. n + 1 |-> IF k = n + 1 THEN E(f, n + 1) ELSE f[k]]
  <2>2. ASSUME NEW k \in 0 .. n + 1 PROVE g[k] = E(g, k)
    <3>1. k # 0 => k - 1 \in 0 .. n /\ g[k - 1] = f[k - 1]
      OBVIOUS
    <3>2. E(g, k) = E(f, k)
      BY <3>1
    <3>3. k # n + 1 => k \in 0 .. n
      OBVIOUS
    <3> HIDE DEF E, Rec
    <3>4. k # n + 1 => f[k] = E(f, k)
      BY <1>1, <2>1, <3>3
    <3> QED
      BY <3>2, <3>4
  <2>3. Rec(g, n + 1)
    <3> HIDE DEF E
    <3> QED
      BY <2>2
  <2> HIDE DEF Rec
  <2> QED
    BY <2>3
<1>4. Len(list) \in P
  <2> HIDE DEF P
  <2> QED
    BY <1>2, <1>3, Reached
<1>5. Rec(F, Len(list))
  <2> HIDE DEF Rec
  <2> QED
    BY <1>4
<1>6. Filtered(list, S) = F[Len(list)]
  BY DEF Filtered
<1>7. ASSUME NEW k \in 0 .. Len(list) PROVE F[k] = E(F, k)
  <2> HIDE DEF F, E, Rec
  <2> QED
    BY <1>1, <1>5
<1> HIDE DEF F
<1>8. F[0] = <<>>
  <2>1. 0 \in 0 .. Len(list)
    OBVIOUS
  <2> QED
    BY <1>7, <2>1
<1>9. ASSUME NEW k \in 1 .. Len(list)
      PROVE  F[k] = IF list[k] \in S THEN Append(F[k - 1], list[k]) ELSE F[k - 1]
  <2>1. k \in 0 .. Len(list) /\ k # 0
    OBVIOUS
  <2> QED
    BY <1>7, <2>1
<1>10. FilteredBy(F, list, S)
  BY <1>6, <1>8, <1>9, Zenon DEF FilteredBy
<1> QED
  BY <1>10

Once(s) == \A i, j \in 1 .. Len(s) : s[i] = s[j] => i = j

\* What is listed in t is what s lists of a set.
IsCut(t, s, S) ==
  /\ \A i \in 1 .. Len(t) : \E j \in 1 .. Len(s) : s[j] \in S /\ t[i] = s[j]
  /\ \A j \in 1 .. Len(s) : s[j] \in S => \E i \in 1 .. Len(t) : t[i] = s[j]

\* The elements kept are those of the set, in number and, if they were, once.
LEMMA FilterIs ==
  ASSUME NEW T, NEW list \in Seq(T), NEW S
  PROVE  /\ Filtered(list, S) \in Seq(T)
         /\ IsCut(Filtered(list, S), list, S)
         /\ Len(Filtered(list, S)) = Cardinality({i \in 1 .. Len(list) : list[i] \in S})
         /\ Once(list) => Once(Filtered(list, S))
<1>1. PICK f : FilteredBy(f, list, S)
  BY FilterSteps
<1> DEFINE Of(k)  == {i \in 1 .. k : list[i] \in S}
           Good(k) == /\ f[k] \in Seq(T)
                      /\ \A i \in 1 .. Len(f[k]) : \E j \in Of(k) : f[k][i] = list[j]
                      /\ \A j \in Of(k) : \E i \in 1 .. Len(f[k]) : f[k][i] = list[j]
                      /\ IsFiniteSet(Of(k)) /\ Len(f[k]) = Cardinality(Of(k))
                      /\ Once(list) => Once(f[k])
           P == {k \in 0 .. Len(list) : Good(k)}
<1>2. 0 \in P
  <2>1. Of(0) = {}
    OBVIOUS
  <2>2. f[0] = <<>>
    BY <1>1 DEF FilteredBy
  <2>3. f[0] \in Seq(T) /\ Len(f[0]) = 0 /\ Once(f[0])
    BY <2>2 DEF Once
  <2>4. IsFiniteSet(Of(0)) /\ Cardinality(Of(0)) = 0
    BY <2>1, FS_EmptySet
  <2> HIDE DEF Of
  <2>5. Good(0)
    BY <2>1, <2>3, <2>4
  <2> QED
    BY <2>5
<1>3. ASSUME NEW k \in 0 .. Len(list), k \in P PROVE k + 1 \in P \/ k = Len(list)
  <2> SUFFICES ASSUME k # Len(list) PROVE Good(k + 1)
    OBVIOUS
  <2>g. Good(k)
    BY <1>3
  <2>1. k \in Nat /\ k + 1 \in 1 .. Len(list) /\ (k + 1) - 1 = k /\ list[k + 1] \in T
    OBVIOUS
  <2>2. CASE list[k + 1] \in S
    <3>1. f[k + 1] = Append(f[k], list[k + 1])
      BY <1>1, <2>1, <2>2 DEF FilteredBy
    <3>2. Of(k + 1) = Of(k) \cup {k + 1} /\ k + 1 \notin Of(k)
      BY <2>1, <2>2
    <3>3. IsFiniteSet(Of(k + 1)) /\ Cardinality(Of(k + 1)) = Cardinality(Of(k)) + 1
      <4> HIDE DEF Of
      <4> QED
        BY <2>g, <3>2, FS_AddElement
    <3>4. /\ f[k + 1] \in Seq(T) /\ Len(f[k + 1]) = Len(f[k]) + 1 /\ Len(f[k]) \in Nat
          /\ \A i \in 1 .. Len(f[k]) : f[k + 1][i] = f[k][i]
          /\ f[k + 1][Len(f[k]) + 1] = list[k + 1]
      BY <1>3, <2>1, <3>1
    <3> HIDE DEF Of
    <3>5. \A i \in 1 .. Len(f[k]) : \E j \in Of(k) : f[k][i] = list[j]
      BY <1>3
    <3>6. \A j \in Of(k) : \E i \in 1 .. Len(f[k]) : f[k][i] = list[j]
      BY <1>3
    <3>7. \A i \in 1 .. Len(f[k + 1]) : i \in 1 .. Len(f[k]) \/ i = Len(f[k]) + 1
      BY <3>4
    <3>8. \A i \in 1 .. Len(f[k + 1]) : \E j \in Of(k + 1) : f[k + 1][i] = list[j]
      BY <3>2, <3>4, <3>5, <3>7
    <3>9. \A j \in Of(k + 1) : \E i \in 1 .. Len(f[k + 1]) : f[k + 1][i] = list[j]
      BY <3>2, <3>4, <3>6
    <3>10. Once(list) => Once(f[k + 1])
      <4> SUFFICES ASSUME Once(list) PROVE Once(f[k + 1])
        OBVIOUS
      <4>1. \A i \in 1 .. Len(f[k]) : f[k][i] # list[k + 1]
        <5> SUFFICES ASSUME NEW i \in 1 .. Len(f[k]), f[k][i] = list[k + 1] PROVE FALSE
          OBVIOUS
        <5>1. PICK j \in Of(k) : f[k][i] = list[j]
          BY <3>5
        <5>2. j \in 1 .. k
          BY DEF Of
        <5>3. j # k + 1 /\ j \in 1 .. Len(list) /\ list[j] = list[k + 1]
          BY <2>1, <5>1, <5>2
        <5> QED
          BY <2>1, <5>3 DEF Once
      <4> QED
        BY <2>g, <3>4, <3>7, <4>1 DEF Once
    <3> QED
      BY <2>g, <3>3, <3>4, <3>8, <3>9, <3>10
  <2>3. CASE list[k + 1] \notin S
    <3>1. f[k + 1] = f[k]
      BY <1>1, <2>1, <2>3 DEF FilteredBy
    <3>2. Of(k + 1) = Of(k)
      BY <2>1, <2>3
    <3> HIDE DEF Of
    <3> QED
      BY <2>g, <3>1, <3>2
  <2> QED
    BY <2>2, <2>3
<1>4. Len(list) \in P
  <2> DEFINE Q == P \cup {k \in Nat : k > Len(list)}
  <2>1. \A k \in 0 .. Len(list) : k \in Q => k + 1 \in Q
    <3> HIDE DEF P
    <3>1. ASSUME NEW k \in 0 .. Len(list), k \in Q PROVE k + 1 \in Q
      <4>1. k \in P
        BY <3>1
      <4>2. k = Len(list) => k + 1 \in Q
        OBVIOUS
      <4> QED
        BY <1>3, <4>1, <4>2
    <3> QED
      BY <3>1
  <2>2. Len(list) \in Q
    <3> HIDE DEF P
    <3>1. 0 \in Q /\ Len(list) \in Nat
      BY <1>2
    <3> HIDE DEF Q
    <3> QED
      BY <2>1, <3>1, Reached
  <2> HIDE DEF P
  <2> QED
    BY <2>2
<1>5. Good(Len(list)) /\ f[Len(list)] = Filtered(list, S)
  <2> HIDE DEF Good
  <2> QED
    BY <1>1, <1>4 DEF FilteredBy
<1>c. IsCut(Filtered(list, S), list, S)
  BY <1>5 DEF IsCut
<1>6. Filtered(list, S) \in Seq(T) /\ DOMAIN Filtered(list, S) = 1 .. Len(Filtered(list, S))
  BY <1>5
<1> QED
  BY <1>5, <1>6, <1>c

\* A list of items, each once.
IsList(s) == s \in Seq(Items) /\ Once(s)

LEMMA CountUpTo ==
  ASSUME NEW n \in Nat
  PROVE  IsFiniteSet(1 .. n) /\ Cardinality(1 .. n) = n
<1>1. CASE n = 0
  <2>1. 1 .. n = {}
    BY <1>1
  <2> QED
    BY <1>1, <2>1, FS_EmptySet
<1>2. CASE n # 0
  <2>1. 1 \in Int /\ n \in Int /\ ~(1 > n) /\ n - 1 + 1 = n
    BY <1>2
  <2> QED
    BY <2>1, FS_Interval
<1> QED
  BY <1>1, <1>2

LEMMA IdsOf ==
  ASSUME NEW T, NEW s \in Seq(T)
  PROVE  /\ Len(s) \in Nat /\ DOMAIN s = 1 .. Len(s)
         /\ \A i : i \in Ids(s) <=> \E k \in 1 .. Len(s) : s[k] = i
         /\ Ids(s) \subseteq T
BY DEF Ids

\* Cut down, a list lists what it did of the set, each item once.
LEMMA FilteredCount ==
  ASSUME NEW s, IsList(s), NEW S
  PROVE  /\ IsList(Filtered(s, S))
         /\ Ids(Filtered(s, S)) = Ids(s) \cap S
         /\ Len(Filtered(s, S)) = Cardinality({k \in 1 .. Len(s) : s[k] \in S})
         /\ Len(Filtered(s, S)) <= Len(s)
<1> DEFINE t == Filtered(s, S)
           K == {k \in 1 .. Len(s) : s[k] \in S}
<1>1. /\ t \in Seq(Items)
      /\ \A i \in 1 .. Len(t) : \E j \in 1 .. Len(s) : s[j] \in S /\ t[i] = s[j]
      /\ \A j \in 1 .. Len(s) : s[j] \in S => \E i \in 1 .. Len(t) : t[i] = s[j]
      /\ Len(t) = Cardinality(K)
      /\ Once(t)
  <2> HIDE DEF K
  <2>1. s \in Seq(Items) /\ Once(s)
    BY DEF IsList
  <2>2. /\ t \in Seq(Items) /\ (Once(s) => Once(t))
        /\ Len(t) = Cardinality({i \in 1 .. Len(s) : s[i] \in S})
    BY <2>1, FilterIs
  <2>3. IsCut(t, s, S)
    BY <2>1, FilterIs
  <2> QED
    BY <2>1, <2>2, <2>3 DEF K, IsCut
<1>2. Len(s) \in Nat
  BY IdsOf DEF IsList
<1>3. IsFiniteSet(1 .. Len(s)) /\ Cardinality(1 .. Len(s)) = Len(s)
  <2> HIDE DEF t, K
  <2> QED
    BY <1>2, CountUpTo
<1>4. Cardinality(K) <= Len(s)
  BY <1>3, FS_Subset
<1> HIDE DEF t, K
<1>5. ASSUME NEW i PROVE i \in Ids(t) <=> i \in Ids(s) \cap S
  <2>1. i \in Ids(t) <=> \E k \in 1 .. Len(t) : t[k] = i
    BY <1>1, IdsOf
  <2>2. i \in Ids(s) <=> \E k \in 1 .. Len(s) : s[k] = i
    BY IdsOf DEF IsList
  <2> QED
    BY <1>1, <2>1, <2>2
<1> QED
  BY <1>1, <1>4, <1>5 DEF IsList, t, K

LEMMA FilteredList ==
  ASSUME NEW s, IsList(s), NEW S
  PROVE  /\ IsList(Filtered(s, S))
         /\ Ids(Filtered(s, S)) = Ids(s) \cap S
         /\ Len(Filtered(s, S)) <= Len(s)
BY FilteredCount

\* A list has as many places as items.
LEMMA AsManyItems ==
  ASSUME NEW s, IsList(s)
  PROVE  IsFiniteSet(Ids(s)) /\ Cardinality(Ids(s)) = Len(s)
<1> DEFINE f == [k \in 1 .. Len(s) |-> s[k]]
<1>1. Len(s) \in Nat /\ \A i : i \in Ids(s) <=> \E k \in 1 .. Len(s) : s[k] = i
  BY IdsOf DEF IsList
<1>2. f \in Bijection(1 .. Len(s), Ids(s))
  <2>1. f \in [1 .. Len(s) -> Ids(s)]
    BY <1>1
  <2>2. \A j, k \in 1 .. Len(s) : f[j] = f[k] => j = k
    BY DEF IsList, Once
  <2>3. \A i \in Ids(s) : \E k \in 1 .. Len(s) : f[k] = i
    BY <1>1
  <2> HIDE DEF f
  <2> QED
    BY <2>1, <2>2, <2>3 DEF Bijection, Injection, Surjection, IsInjective
<1> HIDE DEF f
<1>3. IsFiniteSet(1 .. Len(s)) /\ Cardinality(1 .. Len(s)) = Len(s)
  BY <1>1, CountUpTo
<1> QED
  BY <1>2, <1>3, FS_Bijection, FS_SameCardinalityBij DEF ExistsBijection

\* Two lists with nothing in common follow each other.
LEMMA JoinedLists ==
  ASSUME NEW s, IsList(s), NEW t, IsList(t), Ids(s) \cap Ids(t) = {}
  PROVE  /\ IsList(s \o t)
         /\ Ids(s \o t) = Ids(s) \cup Ids(t)
         /\ Len(s \o t) = Len(s) + Len(t)
<1>1. /\ s \o t \in Seq(Items) /\ Len(s \o t) = Len(s) + Len(t)
      /\ \A k \in 1 .. Len(s) : (s \o t)[k] = s[k]
      /\ \A k \in 1 .. Len(t) : (s \o t)[Len(s) + k] = t[k]
      /\ Len(s) \in Nat /\ Len(t) \in Nat
  BY DEF IsList
<1> DEFINE u == s \o t
<1>2. /\ \A i : i \in Ids(s) <=> \E k \in 1 .. Len(s) : s[k] = i
      /\ \A i : i \in Ids(t) <=> \E k \in 1 .. Len(t) : t[k] = i
      /\ \A i : i \in Ids(u) <=> \E k \in 1 .. Len(u) : u[k] = i
  BY <1>1, IdsOf DEF IsList
<1> HIDE DEF u
<1>3. \A k \in 1 .. Len(u) : \/ k \in 1 .. Len(s) /\ u[k] = s[k]
                             \/ \E j \in 1 .. Len(t) : k = Len(s) + j /\ u[k] = t[j]
  <2> SUFFICES ASSUME NEW k \in 1 .. Len(u), k \notin 1 .. Len(s)
               PROVE  \E j \in 1 .. Len(t) : k = Len(s) + j /\ u[k] = t[j]
    BY <1>1 DEF u
  <2>1. k - Len(s) \in 1 .. Len(t) /\ k = Len(s) + (k - Len(s))
    BY <1>1 DEF u
  <2> QED
    BY <1>1, <2>1 DEF u
<1>4. \A i : i \in Ids(u) <=> i \in Ids(s) \cup Ids(t)
  <2>1. \A k \in 1 .. Len(s) : k \in 1 .. Len(u) /\ u[k] = s[k]
    BY <1>1 DEF u
  <2>2. \A k \in 1 .. Len(t) : Len(s) + k \in 1 .. Len(u) /\ u[Len(s) + k] = t[k]
    BY <1>1 DEF u
  <2>3. ASSUME NEW i, i \in Ids(u) PROVE i \in Ids(s) \cup Ids(t)
    <3>1. PICK k \in 1 .. Len(u) : u[k] = i
      BY <1>2, <2>3
    <3> QED
      BY <1>2, <1>3, <3>1
  <2>4. ASSUME NEW i, i \in Ids(s) PROVE i \in Ids(u)
    BY <1>2, <2>1, <2>4
  <2>5. ASSUME NEW i, i \in Ids(t) PROVE i \in Ids(u)
    BY <1>2, <2>2, <2>5
  <2> QED
    BY <2>3, <2>4, <2>5
<1>5. Once(u)
  <2> SUFFICES ASSUME NEW j \in 1 .. Len(u), NEW k \in 1 .. Len(u), u[j] = u[k]
               PROVE  j = k
    BY DEF Once
  <2>1. CASE j \in 1 .. Len(s) /\ k \in 1 .. Len(s) /\ u[j] = s[j] /\ u[k] = s[k]
    BY <2>1 DEF IsList, Once
  <2>2. ASSUME NEW p \in 1 .. Len(t), NEW q \in 1 .. Len(t),
               j = Len(s) + p, k = Len(s) + q, u[j] = t[p], u[k] = t[q]
        PROVE  j = k
    BY <2>2 DEF IsList, Once
  <2>3. \A x \in 1 .. Len(s), y \in 1 .. Len(t) : s[x] # t[y]
    BY <1>2
  <2> QED
    BY <1>3, <2>1, <2>2, <2>3
<1> QED
  BY <1>1, <1>4, <1>5 DEF IsList, u

-----------------------------------------------------------------------------
\* What the panel remembers it remembers on screen, and it forces cards for a
\* selection only.
OffScreen ==
  /\ ~CardsOn => expanded = {} /\ focus = None /\ pending = None
  /\ forced \in BOOLEAN
  /\ selection = <<>> => ~forced

IInv == EscapeHatch /\ OffScreen

-----------------------------------------------------------------------------
(* A commit. *)

\* A commit keeps the invariant when it forces cards for what is selected now
\* or, having been forced, for no more than before.
LEMMA CommitKeeps ==
  ASSUME IInv, NEW sel, NEW limit, NEW force \in BOOLEAN, NEW open, NEW target, NEW from,
         Commit(sel, limit, force, open, target, from),
         force => sel # <<>>,
         force /\ forced => Ids(sel) \subseteq Ids(selection)
  PROVE  IInv'
<1>1. selection' = sel /\ threshold' = limit /\ forced' = force
  BY DEF Commit
<1>2. CardsOn' <=> ShowsCards(sel, limit, force)
  BY <1>1 DEF CardsOn, ShowsCards, Summarizes
<1>3. force => Ids(sel) \subseteq allowed'
  <2>1. CASE force /\ ~forced
    <3>1. allowed' = Ids(sel)
      BY <2>1, Zenon DEF Commit
    <3> QED
      BY <3>1
  <2>2. CASE force /\ forced
    <3>1. allowed' = allowed
      BY <2>2, Zenon DEF Commit
    <3> QED
      BY <2>2, <3>1 DEF IInv, EscapeHatch
  <2> QED
    BY <2>1, <2>2 DEF IInv, OffScreen
<1>4. EscapeHatch'
  BY <1>1, <1>3 DEF EscapeHatch, Ids
<1>5. ~CardsOn' => expanded' = {} /\ focus' = None /\ pending' = None
  BY <1>2, Zenon DEF Commit
<1> QED
  BY <1>1, <1>4, <1>5 DEF IInv, OffScreen

\* Whatever selects goes on forcing cards only if it adds nothing.
LEMMA SelectKeeps ==
  ASSUME IInv, NEW sel, NEW open, NEW target, NEW from,
         Commit(sel, threshold, Forces(sel), open, target, from)
  PROVE  IInv'
<1>1. Forces(sel) \in BOOLEAN /\ (Forces(sel) => sel # <<>>)
  BY DEF Forces, IInv, OffScreen
<1>2. Forces(sel) /\ forced => Ids(sel) \subseteq Ids(selection)
  BY DEF Forces, Grows
<1> QED
  BY <1>1, <1>2, CommitKeeps

\* Without a change of the selection, the cards only change while they show.
LEMMA SameSelectionKeeps ==
  ASSUME IInv, UNCHANGED <<selection, forced, allowed>>,
         UNCHANGED <<expanded, focus, pending>> \/ CardsOn,
         CardsOn' = CardsOn
  PROVE  IInv'
BY DEF IInv, EscapeHatch, OffScreen

-----------------------------------------------------------------------------
(* The steps. *)

\* A page opens with nothing selected.
LEMMA InitKeeps == Init => IInv
BY DEF Init, IInv, EscapeHatch, OffScreen

\* Each step is a commit, or leaves the selection alone.
LEMMA StepKeeps == IInv /\ [Next]_vars => IInv'
<1> SUFFICES ASSUME IInv, [Next]_vars
             PROVE  IInv'
  OBVIOUS
<1>1. ASSUME NEW i \in Items, Tap(i) \/ ToggleTap(i) \/ Close(i)
      PROVE  IInv'
  BY <1>1, SelectKeeps DEF Tap, ToggleTap, Close, Select
<1>2. ASSUME NEW i \in Items, Toggle(i)
      PROVE  IInv'
  <2>1. CardsOn' = CardsOn
    BY <1>2 DEF Toggle, CardsOn, ShowsCards, Summarizes
  <2> QED
    BY <1>2, <2>1, SameSelectionKeeps DEF Toggle
<1>3. ASSUME NEW els \in SUBSET Graph(model), SelectMany(els)
      PROVE  IInv'
  BY <1>3, SelectKeeps DEF SelectMany, Select
<1>4. ASSUME NEW i \in Nodes \cup Links, NEW to \in Nodes \cup Links, Navigate(i, to)
      PROVE  IInv'
  <2>1. CASE /\ UNCHANGED <<selection, threshold, forced, allowed>>
             /\ CardsOn
    <3>1. CardsOn' = CardsOn
      BY <2>1 DEF CardsOn, ShowsCards, Summarizes
    <3> QED
      BY <2>1, <3>1, SameSelectionKeeps
  <2>2. CASE \E sel, open : Commit(sel, threshold, Forces(sel), open, to, to)
    BY <2>2, SelectKeeps
  <2> QED
    BY <1>4, <2>1, <2>2 DEF Navigate
<1>5. ASSUME NEW w \in Nodes, SelectLeafGroup(w)
      PROVE  IInv'
  BY <1>5, SelectKeeps DEF SelectLeafGroup, Select
<1>6. CASE TapCanvas
  BY <1>6, SelectKeeps DEF TapCanvas, Select
<1>7. ASSUME UNCHANGED <<selection, threshold, forced, allowed, expanded, focus, pending>>
      PROVE  IInv'
  BY <1>7 DEF IInv, EscapeHatch, OffScreen, CardsOn, ShowsCards, Summarizes
<1>8. CASE Answer
  BY <1>8, <1>7, SelectKeeps DEF Answer, Draw, Select
<1>9. CASE Sweep \/ (\E t \in Times : SetTime(t)) \/ UNCHANGED vars
  BY <1>9, <1>7 DEF Sweep, SetTime, vars
<1>10. ASSUME NEW ids, PickBucket(ids)
       PROVE  IInv'
  BY <1>10, SelectKeeps DEF PickBucket, Select
<1>11. CASE ShowAll
  <2>1. Commit(selection, threshold, TRUE, {}, None, None) /\ selection # <<>>
    BY <1>11 DEF ShowAll
  <2> QED
    BY <2>1, CommitKeeps
<1>12. ASSUME NEW n \in Thresholds, SetThreshold(n)
       PROVE  IInv'
  <2>1. CASE Commit(selection, n, forced, {}, None, None)
    BY <2>1, CommitKeeps DEF IInv, OffScreen
  <2>2. CASE /\ ShowsCards(selection, n, forced) = CardsOn /\ threshold' = n
             /\ UNCHANGED <<selection, forced, allowed, expanded, focus, pending>>
    <3>1. CardsOn' = CardsOn
      BY <2>2 DEF CardsOn, ShowsCards, Summarizes
    <3> QED
      BY <2>2, <3>1, SameSelectionKeeps
  <2> QED
    BY <1>12, <2>1, <2>2 DEF SetThreshold
<1> QED
  BY <1>1, <1>2, <1>3, <1>4, <1>5, <1>6, <1>8, <1>9, <1>10, <1>11, <1>12 DEF Next

\* Whatever is tapped, boxed, traversed, filtered, closed or lost to a poll, and
\* whatever the threshold is set to: forced cards are of elements that were
\* selected when all cards were asked for (DetailPanel.tsx 31-38).
THEOREM ForcedCardsWereAskedFor == Spec => []EscapeHatch
<1>1. IInv => EscapeHatch
  BY DEF IInv
<1> QED
  BY <1>1, InitKeeps, StepKeeps, PTL DEF Spec

-----------------------------------------------------------------------------
(* The models. *)

\* What may be drawn: the answer for some instant, or for some two.
IsModel(m) ==
  \/ \E k \in Sweeps : m = FromTopology(Topology(k))
  \/ \E j, k \in Sweeps : m = FromDiff(Diff(j, k))

\* What is in a model is of the fabric.
LEMMA ModelHolds ==
  ASSUME NEW m, IsModel(m)
  PROVE  /\ DOMAIN m.nodes \subseteq Nodes /\ DOMAIN m.links \subseteq Links
         /\ Graph(m) \subseteq Items
         /\ DOMAIN m.nodes \cup DOMAIN m.links \subseteq Graph(m)
         /\ Graph(m) \ Groups = DOMAIN m.nodes \cup DOMAIN m.links
<1> DEFINE OfFabric == /\ DOMAIN m.nodes \subseteq Nodes /\ DOMAIN m.links \subseteq Links
                       /\ m.groups \subseteq Groups
<1>1. OfFabric
  <2>1. ASSUME NEW k \in Sweeps, m = FromTopology(Topology(k))
        PROVE  OfFabric
    BY <2>1, FabricAssumption DEF FromTopology, Topology, Sweeps
  <2>2. ASSUME NEW j \in Sweeps, NEW k \in Sweeps, m = FromDiff(Diff(j, k))
        PROVE  OfFabric
    BY <2>2, FabricAssumption DEF FromDiff, Diff, Compared, Sweeps
  <2> QED
    BY <2>1, <2>2 DEF IsModel
<1>2. Boxes(m) \subseteq Groups
  BY <1>1 DEF Boxes, GroupOf
<1>3. Graph(m) = DOMAIN m.nodes \cup DOMAIN m.links \cup Boxes(m)
  BY DEF Graph, ToElements
<1> QED
  BY <1>1, <1>2, <1>3, GraphAssumption DEF Items

Clock ==
  /\ head \in Sweeps
  /\ time.until \in Sweeps \cup {None}
  /\ time.mode = "compare" => time.since \in Sweeps

\* What the panel has in hand.
Panel ==
  /\ IsList(selection) /\ Len(selection) <= MaxCards
  /\ threshold \in Thresholds
  /\ expanded \subseteq Items /\ allowed \subseteq Items
  /\ {focus, pending} \subseteq Items \cup {None}

OnGraph == IsModel(model) /\ Ids(selection) \subseteq Graph(model)

CardInv == IInv /\ Clock /\ Panel /\ OnGraph

LEMMA SweepAtIs ==
  ASSUME Clock
  PROVE  SweepAt(time.until) \in Sweeps
BY DEF Clock, SweepAt

LEMMA FreshIsModel ==
  ASSUME Clock
  PROVE  IsModel(Fresh)
BY SweepAtIs DEF Clock, Fresh, IsModel

\* A commit of a list keeps the panel.
LEMMA CommitLists ==
  ASSUME Panel, NEW sel, IsList(sel), Len(sel) <= MaxCards,
         NEW limit \in Thresholds, NEW force, NEW open \in SUBSET Items,
         NEW target \in Items \cup {None}, NEW from,
         Commit(sel, limit, force, open, target, from)
  PROVE  Panel' /\ selection' = sel
<1>1. selection' = sel /\ threshold' = limit
  BY DEF Commit
<1>2. Ids(sel) \subseteq Items
  BY IdsOf DEF IsList
<1>3. allowed' \subseteq Items
  BY <1>2 DEF Commit, Panel
<1>4. ASSUME NEW prev, NEW o \in SUBSET Items, NEW f
      PROVE  Open(prev, sel, o, f) \subseteq Items
  BY <1>2 DEF Open, Opened
<1>5. expanded' \subseteq Items /\ {focus', pending'} \subseteq Items \cup {None}
  BY <1>4 DEF Commit
<1> QED
  BY <1>1, <1>3, <1>5 DEF Panel, IsList, Once

LEMMA SelectLists ==
  ASSUME Panel, NEW sel, IsList(sel), Len(sel) <= MaxCards, Select(sel)
  PROVE  Panel' /\ selection' = sel
<1>1. /\ threshold \in Thresholds /\ expanded \in SUBSET Items
      /\ focus \in Items \cup {None}
  BY DEF Panel
<1> QED
  BY <1>1, CommitLists DEF Select

\* One more item.
LEMMA AppendLists ==
  ASSUME NEW s, IsList(s), NEW i \in Items, i \notin Ids(s)
  PROVE  /\ IsList(Append(s, i)) /\ Ids(Append(s, i)) = Ids(s) \cup {i}
         /\ Len(Append(s, i)) = Len(s) + 1
<1>1. IsList(<<i>>) /\ Ids(<<i>>) = {i} /\ Len(<<i>>) = 1
  BY DEF IsList, Once, Ids
<1>2. Append(s, i) = s \o <<i>>
  BY AppendIsConcat DEF IsList
<1> QED
  BY <1>1, <1>2, JoinedLists

LEMMA LoneLists ==
  ASSUME NEW i \in Items
  PROVE  IsList(<<i>>) /\ Ids(<<i>>) = {i} /\ Len(<<i>>) = 1
BY DEF IsList, Once, Ids

LEMMA NoneLists == IsList(<<>>) /\ Ids(<<>>) = {} /\ Len(<<>>) = 0
BY DEF IsList, Once, Ids

\* The elements of a set, as a batch selects them.
LEMMA BatchLists ==
  ASSUME NEW S \in SUBSET Items
  PROVE  /\ IsList(Filtered(Order, S)) /\ Ids(Filtered(Order, S)) = S
         /\ Len(Filtered(Order, S)) = Cardinality(S)
<1>1. IsList(Order) /\ Ids(Order) = Items
  <2>1. IsList(Order)
    BY OrderAssumption DEF IsList, Once, Items
  <2> QED
    BY <2>1, OrderAssumption, IdsOf DEF IsList, Items
<1>2. IsList(Filtered(Order, S)) /\ Ids(Filtered(Order, S)) = Items \cap S
  BY <1>1, FilteredList
<1>3. Items \cap S = S
  OBVIOUS
<1> QED
  BY <1>2, <1>3, AsManyItems

LEMMA WithoutLists ==
  ASSUME NEW s, IsList(s), NEW gone
  PROVE  /\ IsList(Without(s, gone)) /\ Ids(Without(s, gone)) = Ids(s) \ gone
         /\ Len(Without(s, gone)) <= Len(s)
<1>1. Ids(s) \cap (Ids(s) \ gone) = Ids(s) \ gone
  OBVIOUS
<1> QED
  BY <1>1, FilteredList DEF Without


-----------------------------------------------------------------------------
(* The lists, through the steps. *)

\* Selected among what is drawn, whatever it was selected by.
LEMMA PickedLists ==
  ASSUME CardInv, NEW sel, IsList(sel), Len(sel) <= MaxCards, Ids(sel) \subseteq Graph(model),
         Select(sel), Elsewhere
  PROVE  (Clock /\ Panel /\ OnGraph)'
<1>1. Panel' /\ selection' = sel
  BY SelectLists DEF CardInv
<1>2. Clock' /\ model' = model
  BY DEF Elsewhere, CardInv, Clock
<1>3. OnGraph'
  BY <1>1, <1>2 DEF CardInv, OnGraph, Ids
<1> QED
  BY <1>1, <1>2, <1>3

LEMMA TapLists ==
  ASSUME CardInv, NEW i \in Items, Tap(i) \/ ToggleTap(i) \/ Close(i)
  PROVE  (Clock /\ Panel /\ OnGraph)'
<1>1. IsList(selection) /\ Len(selection) <= MaxCards /\ Ids(selection) \subseteq Graph(model)
      /\ Len(selection) \in Nat /\ MaxCards \in Nat \ {0}
  BY CardsAssumption, IdsOf DEF CardInv, Panel, OnGraph, IsList
<1>2. CASE Tap(i)
  <2> DEFINE sel == <<i>>
  <2>1. Select(sel) /\ Elsewhere /\ i \in Graph(model)
    BY <1>2 DEF Tap
  <2>2. IsList(sel) /\ Ids(sel) = {i} /\ Len(sel) = 1
    BY LoneLists
  <2> HIDE DEF sel
  <2>3. Len(sel) <= MaxCards /\ Ids(sel) \subseteq Graph(model)
    BY <1>1, <2>1, <2>2
  <2> QED
    BY <2>1, <2>2, <2>3, PickedLists
<1>3. ASSUME Select(Without(selection, {i})), Elsewhere
      PROVE  (Clock /\ Panel /\ OnGraph)'
  <2> DEFINE sel == Without(selection, {i})
  <2>1. IsList(sel) /\ Ids(sel) = Ids(selection) \ {i} /\ Len(sel) <= Len(selection)
    BY <1>1, WithoutLists
  <2>2. Select(sel) /\ Elsewhere
    BY <1>3
  <2> HIDE DEF sel
  <2>3. Len(sel) \in Nat
    BY <2>1, IdsOf DEF IsList
  <2>4. Len(sel) <= MaxCards /\ Ids(sel) \subseteq Graph(model)
    BY <1>1, <2>1, <2>3
  <2> QED
    BY <2>1, <2>2, <2>4, PickedLists
<1>4. CASE ToggleTap(i)
  <2>1. CASE i \notin Ids(selection)
    <3> DEFINE sel == Append(selection, i)
    <3>1. IsList(sel) /\ Ids(sel) = Ids(selection) \cup {i} /\ Len(sel) = Len(selection) + 1
      BY <1>1, <2>1, AppendLists
    <3>2. i \in Graph(model) /\ Len(selection) < MaxCards /\ Select(sel) /\ Elsewhere
      BY <1>4, <2>1 DEF ToggleTap
    <3> HIDE DEF sel
    <3>3. Len(sel) <= MaxCards /\ Ids(sel) \subseteq Graph(model)
      BY <1>1, <3>1, <3>2
    <3> QED
      BY <3>1, <3>2, <3>3, PickedLists
  <2> QED
    BY <1>3, <1>4, <2>1 DEF ToggleTap
<1> QED
  BY <1>2, <1>3, <1>4 DEF Close

LEMMA BatchesList ==
  ASSUME CardInv,
         \/ \E els \in SUBSET Graph(model) : SelectMany(els)
         \/ \E w \in Nodes : SelectLeafGroup(w)
         \/ TapCanvas
  PROVE  (Clock /\ Panel /\ OnGraph)'
<1>1. /\ IsList(selection) /\ Len(selection) <= MaxCards /\ Ids(selection) \subseteq Graph(model)
      /\ Len(selection) \in Nat /\ MaxCards \in Nat /\ IsModel(model)
  BY CardsAssumption, IdsOf DEF CardInv, Panel, OnGraph, IsList
<1>2. ASSUME NEW els \in SUBSET Graph(model), SelectMany(els)
      PROVE  (Clock /\ Panel /\ OnGraph)'
  <2> DEFINE more == NewOnes(els)
             batch == Filtered(Order, more)
  <2>1. more \in SUBSET Items /\ more \cap Ids(selection) = {} /\ more \subseteq els
    BY <1>1, ModelHolds DEF NewOnes
  <2>2. /\ els \subseteq Graph(model) /\ Len(selection) + Cardinality(more) <= MaxCards
        /\ Select(selection \o batch) /\ Elsewhere
    BY <1>2 DEF SelectMany
  <2> HIDE DEF more
  <2>3. IsList(batch) /\ Ids(batch) = more /\ Len(batch) = Cardinality(more)
    BY <2>1, BatchLists
  <2> HIDE DEF batch
  <2>4. /\ IsList(selection \o batch) /\ Ids(selection \o batch) = Ids(selection) \cup more
        /\ Len(selection \o batch) = Len(selection) + Cardinality(more)
    BY <1>1, <2>1, <2>3, JoinedLists
  <2> QED
    BY <1>1, <2>1, <2>2, <2>4, PickedLists
<1>3. ASSUME NEW w \in Nodes, SelectLeafGroup(w)
      PROVE  (Clock /\ Panel /\ OnGraph)'
  <2> DEFINE group == {w} \cup {n \in DOMAIN model.nodes : Kind[n] # "switch" /\
                                  \E l \in DOMAIN model.links : Ends[l] = {w, n}}
  <2>1. group \subseteq DOMAIN model.nodes /\ Cardinality(group) <= MaxCards
        /\ Select(Filtered(Order, group)) /\ Elsewhere
    BY <1>3 DEF SelectLeafGroup
  <2>2. group \in SUBSET Items /\ group \subseteq Graph(model)
    BY <1>1, <2>1, ModelHolds
  <2> HIDE DEF group
  <2>3. /\ IsList(Filtered(Order, group)) /\ Ids(Filtered(Order, group)) = group
        /\ Len(Filtered(Order, group)) = Cardinality(group)
    BY <2>2, BatchLists
  <2> QED
    BY <2>1, <2>2, <2>3, PickedLists
<1>4. CASE TapCanvas
  BY <1>1, <1>4, NoneLists, PickedLists DEF TapCanvas
<1> QED
  BY <1>2, <1>3, <1>4

LEMMA AnswerLists ==
  ASSUME CardInv, Answer
  PROVE  (Clock /\ Panel /\ OnGraph)'
<1>1. /\ IsList(selection) /\ Len(selection) <= MaxCards /\ Ids(selection) \subseteq Graph(model)
      /\ Len(selection) \in Nat /\ MaxCards \in Nat /\ Clock /\ Panel
  BY CardsAssumption, IdsOf DEF CardInv, Panel, OnGraph, IsList
<1> DEFINE gone == Graph(model) \ Graph(Fresh)
<1>2. model' = Fresh /\ IsModel(Fresh) /\ Clock'
  BY <1>1, FreshIsModel DEF Answer, Draw, Clock
<1>3. CASE gone = {}
  <2>1. UNCHANGED <<selection, threshold, allowed, expanded, focus, pending>>
    BY <1>3 DEF Answer, Draw
  <2> QED
    BY <1>1, <1>2, <1>3, <2>1 DEF OnGraph, Panel, IsList, Once, Ids
<1>4. CASE gone # {}
  <2>1. Select(Without(selection, gone))
    BY <1>4 DEF Answer, Draw, OnRemove
  <2> HIDE DEF gone
  <2>2. /\ IsList(Without(selection, gone)) /\ Ids(Without(selection, gone)) = Ids(selection) \ gone
        /\ Len(Without(selection, gone)) <= Len(selection)
    BY <1>1, WithoutLists
  <2>3. Len(Without(selection, gone)) \in Nat
    BY <2>2, IdsOf DEF IsList
  <2>4. Panel' /\ selection' = Without(selection, gone)
    BY <1>1, <2>1, <2>2, <2>3, SelectLists
  <2>5. Ids(selection)' \subseteq Graph(Fresh)
    BY <1>1, <2>2, <2>4 DEF gone, Ids
  <2>6. OnGraph'
    BY <1>2, <2>5 DEF OnGraph, Ids
  <2> QED
    BY <1>2, <2>4, <2>6
<1> QED
  BY <1>3, <1>4

LEMMA NavigateLists ==
  ASSUME CardInv, NEW i \in Nodes \cup Links, NEW to \in Nodes \cup Links, Navigate(i, to)
  PROVE  (Clock /\ Panel /\ OnGraph)'
<1> DEFINE left == (expanded \ {i}) \cup {to}
           sel == Append(selection, to)
<1>1. /\ IsList(selection) /\ Len(selection) <= MaxCards /\ Ids(selection) \subseteq Graph(model)
      /\ Len(selection) \in Nat /\ MaxCards \in Nat /\ Panel /\ threshold \in Thresholds
      /\ to \in Items /\ left \in SUBSET Items /\ IsModel(model)
  BY CardsAssumption, IdsOf DEF CardInv, Panel, OnGraph, IsList, Items
<1>2. Clock' /\ model' = model
  BY DEF CardInv, Navigate, Elsewhere, Clock
<1>3. CASE to \in Ids(selection) \/ to \notin Graph(model)
  <2>1. /\ expanded' = left /\ focus' = to /\ pending' = to
        /\ UNCHANGED <<selection, threshold, allowed>>
    BY <1>3 DEF Navigate
  <2> HIDE DEF left
  <2>2. Panel'
    BY <1>1, <2>1 DEF Panel, IsList, Once
  <2>3. OnGraph'
    BY <1>1, <1>2, <2>1 DEF OnGraph, Ids
  <2> QED
    BY <1>2, <2>2, <2>3
<1>4. CASE ~(to \in Ids(selection) \/ to \notin Graph(model))
  <2>1. Len(selection) < MaxCards /\ Commit(sel, threshold, Forces(sel), left, to, to)
    BY <1>4 DEF Navigate
  <2>2. IsList(sel) /\ Ids(sel) = Ids(selection) \cup {to} /\ Len(sel) = Len(selection) + 1
    BY <1>1, <1>4, AppendLists
  <2> HIDE DEF left, sel
  <2>3. Panel' /\ selection' = sel
    BY <1>1, <2>1, <2>2, CommitLists
  <2>4. OnGraph'
    BY <1>1, <1>2, <1>4, <2>2, <2>3 DEF OnGraph, Ids
  <2> QED
    BY <1>2, <2>3, <2>4
<1> QED
  BY <1>3, <1>4

\* The health buckets are of nodes and of links.
HealthOf(i) == Element(i).el["health"]
Having(s, h) == {i \in Ids(s) : HealthOf(i) = h}

LEMMA HealthBucketIs ==
  ASSUME NEW b
  PROVE  b \in HealthBuckets <=>
           \E s \in {NodeIds, LinkIds} : \E i \in Ids(s) : b = Filtered(s, Having(s, HealthOf(i)))
<1>1. ASSUME NEW s
      PROVE  Buckets(s, "health") = [h \in {HealthOf(i) : i \in Ids(s)} |-> Filtered(s, Having(s, h))]
  BY DEF Buckets, HealthOf, Having
<1>2. ASSUME NEW s
      PROVE  b \in {Buckets(s, "health")[h] : h \in DOMAIN Buckets(s, "health")} <=>
               \E i \in Ids(s) : b = Filtered(s, Having(s, HealthOf(i)))
  <2> DEFINE f == Buckets(s, "health")
             D == {HealthOf(i) : i \in Ids(s)}
  <2>1. DOMAIN f = D /\ \A h \in D : f[h] = Filtered(s, Having(s, h))
    BY <1>1
  <2> HIDE DEF f
  <2>2. b \in {f[h] : h \in DOMAIN f} <=> \E h \in D : b = Filtered(s, Having(s, h))
    BY <2>1
  <2> QED
    BY <2>2 DEF f
<1> QED
  BY <1>2 DEF HealthBuckets

\* A bucket lists some of the selection.
LEMMA BucketLists ==
  ASSUME CardInv, NEW ids \in HealthBuckets \cup TypeBuckets
  PROVE  /\ IsList(ids) /\ Ids(ids) \subseteq Ids(selection) /\ Len(ids) <= Len(selection)
         /\ Len(ids) \in Nat
<1>1. IsList(selection) /\ Len(selection) \in Nat
  BY IdsOf DEF CardInv, Panel, IsList
<1>2. ASSUME NEW s, IsList(s), Ids(s) \subseteq Ids(selection), Len(s) <= Len(selection), NEW S,
             ids = Filtered(s, S)
      PROVE  /\ IsList(ids) /\ Ids(ids) \subseteq Ids(selection) /\ Len(ids) <= Len(selection)
             /\ Len(ids) \in Nat
  <2>1. IsList(ids) /\ Ids(ids) = Ids(s) \cap S /\ Len(ids) <= Len(s)
    BY <1>2, FilteredList
  <2>2. Len(ids) \in Nat /\ Len(s) \in Nat
    BY <1>2, <2>1, IdsOf DEF IsList
  <2> QED
    BY <1>1, <1>2, <2>1, <2>2
<1>3. ASSUME NEW S
      PROVE  /\ IsList(Filtered(selection, S)) /\ Ids(Filtered(selection, S)) \subseteq Ids(selection)
             /\ Len(Filtered(selection, S)) <= Len(selection)
  BY <1>1, FilteredList
<1>4. ASSUME NEW s \in {NodeIds, LinkIds}, NEW S, ids = Filtered(s, S)
      PROVE  /\ IsList(ids) /\ Ids(ids) \subseteq Ids(selection) /\ Len(ids) <= Len(selection)
             /\ Len(ids) \in Nat
  BY <1>2, <1>3, <1>4 DEF NodeIds, LinkIds
<1>5. CASE ids \in HealthBuckets
  BY <1>4, <1>5, HealthBucketIs
<1>6. CASE ids \in TypeBuckets
  BY <1>4, <1>6 DEF TypeBuckets
<1> QED
  BY <1>5, <1>6

LEMMA SummaryLists ==
  ASSUME CardInv,
         \/ \E ids \in HealthBuckets \cup TypeBuckets : PickBucket(ids)
         \/ ShowAll
         \/ \E n \in Thresholds : SetThreshold(n)
  PROVE  (Clock /\ Panel /\ OnGraph)'
<1>1. /\ IsList(selection) /\ Len(selection) <= MaxCards /\ Ids(selection) \subseteq Graph(model)
      /\ Len(selection) \in Nat /\ MaxCards \in Nat \ {0} /\ Panel /\ Clock /\ OnGraph
      /\ {} \in SUBSET Items /\ None \in Items \cup {None} /\ threshold \in Thresholds
  BY CardsAssumption, IdsOf DEF CardInv, Panel, OnGraph, IsList
<1>2. ASSUME NEW ids \in HealthBuckets \cup TypeBuckets, PickBucket(ids)
      PROVE  (Clock /\ Panel /\ OnGraph)'
  <2>1. /\ IsList(ids) /\ Ids(ids) \subseteq Ids(selection) /\ Len(ids) <= Len(selection)
        /\ Len(ids) \in Nat
    BY BucketLists
  <2>2. Select(ids) /\ Elsewhere
    BY <1>2 DEF PickBucket
  <2> QED
    BY <1>1, <2>1, <2>2, PickedLists
<1>3. ASSUME NEW limit \in Thresholds, NEW force,
             Commit(selection, limit, force, {}, None, None), Elsewhere
      PROVE  (Clock /\ Panel /\ OnGraph)'
  <2>1. Panel' /\ selection' = selection
    BY <1>1, <1>3, CommitLists
  <2> QED
    BY <1>1, <1>3, <2>1 DEF Elsewhere, Clock, OnGraph, Ids
<1>4. CASE ShowAll
  BY <1>1, <1>3, <1>4 DEF ShowAll
<1>5. ASSUME NEW n \in Thresholds, SetThreshold(n)
      PROVE  (Clock /\ Panel /\ OnGraph)'
  <2>1. CASE /\ threshold' = n
             /\ UNCHANGED <<selection, forced, allowed, expanded, focus, pending>>
    BY <1>1, <1>5, <2>1 DEF SetThreshold, Elsewhere, Clock, OnGraph, Ids, Panel, IsList, Once
  <2>2. CASE Commit(selection, n, forced, {}, None, None)
    BY <1>3, <1>5, <2>2 DEF SetThreshold
  <2> QED
    BY <1>5, <2>1, <2>2 DEF SetThreshold
<1> QED
  BY <1>2, <1>4, <1>5

LEMMA InitLists == Init => Clock /\ Panel /\ OnGraph
<1> SUFFICES ASSUME Init PROVE Clock /\ Panel /\ OnGraph
  OBVIOUS
<1>1. 1 \in Sweeps
  BY FabricAssumption DEF Sweeps
<1>2. Clock
  BY <1>1 DEF Init, Clock
<1>3. IsList(selection) /\ Ids(selection) = {} /\ Len(selection) = 0
  BY NoneLists DEF Init
<1>4. Panel
  BY <1>3, CardsAssumption DEF Init, Panel
<1>5. OnGraph
  BY <1>1, <1>3 DEF Init, OnGraph, IsModel
<1> QED
  BY <1>2, <1>4, <1>5

LEMMA InvHolds == Spec => []CardInv
<1>1. Init => CardInv
  BY InitKeeps, InitLists DEF CardInv
<1>2. CardInv /\ [Next]_vars => CardInv'
  <2> SUFFICES ASSUME CardInv, [Next]_vars
               PROVE  (Clock /\ Panel /\ OnGraph)'
    BY StepKeeps DEF CardInv
  <2>1. ASSUME NEW i \in Items, Toggle(i)
        PROVE  (Clock /\ Panel /\ OnGraph)'
    BY <2>1 DEF Toggle, CardInv, Clock, Panel, OnGraph, IsList, Once, Ids
  <2>2. CASE Sweep
    <3>1. head' \in Sweeps
      BY <2>2, FabricAssumption DEF Sweep, CardInv, Clock, Sweeps
    <3> QED
      BY <2>2, <3>1 DEF Sweep, CardInv, Clock, Panel, OnGraph, IsList, Once, Ids
  <2>3. ASSUME NEW t \in Times, SetTime(t)
        PROVE  (Clock /\ Panel /\ OnGraph)'
    <3>1. t.until \in Sweeps \cup {None} /\ (t.mode = "compare" => t.since \in Sweeps)
      BY TimesAssumption DEF Sweeps
    <3> QED
      BY <2>3, <3>1 DEF SetTime, CardInv, Clock, Panel, OnGraph, IsList, Once, Ids
  <2>4. CASE UNCHANGED vars
    BY <2>4 DEF vars, CardInv, Clock, Panel, OnGraph, IsList, Once, Ids
  <2> QED
    BY <2>1, <2>2, <2>3, <2>4, TapLists, BatchesList, AnswerLists, NavigateLists, SummaryLists
    DEF Next
<1> QED
  BY <1>1, <1>2, PTL DEF Spec

-----------------------------------------------------------------------------
(* A card shows its own element. *)

\* What a comparison says of an id that one of its two sweeps has.
LEMMA ComparedIs ==
  ASSUME NEW was, NEW is, NEW i \in DOMAIN was \cup DOMAIN is,
         i \in DOMAIN was => was[i] # None, i \in DOMAIN is => is[i] # None
  PROVE  LET d == Compared(was, is)[i]
         IN  /\ d.before = IF i \in DOMAIN was THEN was[i] ELSE None
             /\ d.after = IF i \in DOMAIN is THEN is[i] ELSE None
             /\ d.change = "removed" <=> i \notin DOMAIN is
BY DEF Compared

\* Once settled, with k the sweep asked for: what is drawn is there, but for
\* the removals of a comparison, which are in the sweep it starts from.
LEMMA DrawnIsThere ==
  ASSUME CardInv, Settled, NEW i, Resolves(i)
  PROVE  LET k == SweepAt(time.until)
         IN  /\ Element(i).change = "removed" <=> ~Exists(i, k)
             /\ Element(i).change = "removed" =>
                  model.since \in Sweeps /\ Exists(i, model.since)
<1> DEFINE k == SweepAt(time.until)
<1>1. k \in Sweeps /\ Clock /\ k \in 1 .. Len(Fabric)
  BY SweepAtIs DEF CardInv, Sweeps
<1>2. CASE time.mode # "compare"
  <2>1. model = FromTopology(Topology(k))
    BY <1>2 DEF Settled, Fresh
  <2> HIDE DEF k
  <2>2. DOMAIN model.nodes = DOMAIN Fabric[k].nodes /\ DOMAIN model.links = DOMAIN Fabric[k].links
    BY <2>1 DEF FromTopology, Topology
  <2>3. Exists(i, k)
    BY <2>2 DEF Resolves, Exists
  <2>4. Element(i).change = "unchanged"
    BY <2>1, <2>2 DEF Resolves, Element, FromTopology, Topology, AsUnchanged
  <2> QED
    BY <2>3, <2>4 DEF k
<1>3. CASE time.mode = "compare"
  <2> DEFINE j == time.since
  <2>1. model = FromDiff(Diff(j, k)) /\ j \in Sweeps /\ j \in 1 .. Len(Fabric)
    BY <1>1, <1>3 DEF Settled, Fresh, Clock, Sweeps
  <2> HIDE DEF k, j
  <2> DEFINE nodes == Compared(Fabric[j].nodes, Fabric[k].nodes)
             links == Compared(Fabric[j].links, Fabric[k].links)
  <2>2. /\ model.nodes = [n \in DOMAIN nodes |-> ToElement(nodes[n])]
        /\ model.links = [l \in DOMAIN links |-> ToElement(links[l])]
        /\ model.since = j
    BY <2>1 DEF FromDiff, Diff
  <2>3. /\ DOMAIN nodes = DOMAIN Fabric[j].nodes \cup DOMAIN Fabric[k].nodes
        /\ DOMAIN links = DOMAIN Fabric[j].links \cup DOMAIN Fabric[k].links
    BY DEF Compared
  <2>4. /\ DOMAIN Fabric[j].nodes \subseteq Nodes /\ DOMAIN Fabric[j].links \subseteq Links
        /\ DOMAIN Fabric[k].nodes \subseteq Nodes /\ DOMAIN Fabric[k].links \subseteq Links
        /\ \A n \in DOMAIN Fabric[j].nodes : Fabric[j].nodes[n] # None
        /\ \A n \in DOMAIN Fabric[k].nodes : Fabric[k].nodes[n] # None
        /\ \A l \in DOMAIN Fabric[j].links : Fabric[j].links[l] # None
        /\ \A l \in DOMAIN Fabric[k].links : Fabric[k].links[l] # None
    BY <1>1, <2>1, FabricAssumption
  <2>5. CASE i \in DOMAIN nodes
    <3>1. nodes[i].change = "removed" <=> i \notin DOMAIN Fabric[k].nodes
      BY <2>3, <2>4, <2>5, ComparedIs
    <3>2. Element(i).change = nodes[i].change
      <4>1. Element(i) = ToElement(nodes[i])
        <5> HIDE DEF nodes
        <5> QED
          BY <2>2, <2>5 DEF Element
      <4> QED
        BY <4>1 DEF ToElement
    <3>3. i \notin DOMAIN Fabric[k].links /\ i \in Nodes
      BY <2>3, <2>4, <2>5, GraphAssumption
    <3> HIDE DEF nodes, links
    <3> QED
      BY <2>1, <2>2, <2>3, <2>5, <3>1, <3>2, <3>3 DEF Exists, k
  <2>6. CASE i \notin DOMAIN nodes
    <3>1. i \in DOMAIN links
      BY <2>2, <2>6 DEF Resolves
    <3>2. links[i].change = "removed" <=> i \notin DOMAIN Fabric[k].links
      BY <2>3, <2>4, <3>1, ComparedIs
    <3>3. Element(i).change = links[i].change
      <4>1. Element(i) = ToElement(links[i])
        <5> HIDE DEF nodes, links
        <5> QED
          BY <2>2, <2>6, <3>1 DEF Element
      <4> QED
        BY <4>1 DEF ToElement
    <3>4. i \notin DOMAIN Fabric[k].nodes
      BY <2>3, <2>6
    <3> HIDE DEF nodes, links
    <3> QED
      BY <2>1, <2>2, <2>3, <3>1, <3>2, <3>3, <3>4 DEF Exists, k
  <2> QED
    BY <2>5, <2>6
<1> QED
  BY <1>2, <1>3

LEMMA Answered == ASSUME CardInv PROVE CardIsAnswered
<1> SUFFICES ASSUME Settled, NEW i, Resolves(i)
             PROVE  Exists(i, SweepAt(DetailAt(i)))
  BY DEF CardIsAnswered
<1>1. CASE Element(i).change = "removed"
  <2>1. model.since \in Sweeps /\ Exists(i, model.since)
    BY <1>1, DrawnIsThere
  <2>2. model.since # None
    BY <2>1, CardsAssumption, FabricAssumption DEF Sweeps
  <2> QED
    BY <1>1, <2>1, <2>2 DEF DetailAt, SweepAt
<1>2. CASE Element(i).change # "removed"
  <2>1. DetailAt(i) = time.until
    BY <1>2 DEF DetailAt
  <2> QED
    BY <1>2, <2>1, DrawnIsThere
<1> QED
  BY <1>1, <1>2

\* Of the selection, the ids that resolve and those that do not.
LEMMA SelectedIs ==
  ASSUME CardInv
  PROVE  /\ Ids(NodeIds) = Ids(selection) \cap DOMAIN model.nodes
         /\ Ids(LinkIds) = Ids(selection) \cap DOMAIN model.links
         /\ Ids(Unresolved) = {i \in Ids(selection) : ~Resolves(i)}
         /\ IsList(NodeIds) /\ IsList(LinkIds) /\ IsList(Unresolved)
         /\ \A i \in Ids(selection) : i \in Groups <=> ~Resolves(i)
<1>1. IsList(selection) /\ IsModel(model) /\ Ids(selection) \subseteq Graph(model)
  BY DEF CardInv, Panel, OnGraph
<1>2. \A i \in Graph(model) : i \in Groups <=> ~Resolves(i)
  BY <1>1, ModelHolds, GraphAssumption DEF Resolves
<1>3. ASSUME NEW S
      PROVE  IsList(Filtered(selection, S)) /\ Ids(Filtered(selection, S)) = Ids(selection) \cap S
  BY <1>1, FilteredList
<1>4. Ids(selection) \cap {i \in Ids(selection) : ~Resolves(i)} = {i \in Ids(selection) : ~Resolves(i)}
  OBVIOUS
<1> QED
  BY <1>1, <1>2, <1>3, <1>4 DEF NodeIds, LinkIds, Unresolved

LEMMA MissingAre == ASSUME CardInv PROVE MissingAreRemovals
<1> SUFFICES ASSUME Settled
             PROVE  Missing = {i \in Ids(selection) \ Groups : Element(i).change = "removed"}
  BY DEF MissingAreRemovals
<1>1. Ids(NodeIds) \cup Ids(LinkIds) = {i \in Ids(selection) : Resolves(i)}
  BY SelectedIs DEF Resolves
<1>2. \A i : Resolves(i) => (Element(i).change = "removed" <=> ~Exists(i, SweepAt(time.until)))
  BY DrawnIsThere
<1>3. \A i \in Ids(selection) : i \in Groups <=> ~Resolves(i)
  BY SelectedIs
<1> QED
  BY <1>1, <1>2, <1>3 DEF Missing

LEMMA ListedIs == ASSUME CardInv PROVE ListedIsTheDifference
<1> SUFFICES ASSUME Settled, model.mode = "compare", NEW i \in Ids(selection) \cap Nodes
             PROVE  LET was == Fabric[model.since].nodes
                        is  == Fabric[model.resolved].nodes
                    IN  Listed(i) = IF i \in DOMAIN was /\ i \in DOMAIN is
                                      THEN {<<f, Field(was[i], f), Field(is[i], f)>> :
                                              f \in {f \in DOMAIN was[i] \cup DOMAIN is[i] :
                                                       Field(was[i], f) # Field(is[i], f)}}
                                      ELSE {}
  BY DEF ListedIsTheDifference
<1> DEFINE k == SweepAt(time.until)
           j == time.since
           was == Fabric[j].nodes
           is == Fabric[k].nodes
<1>1. time.mode = "compare"
  <2> SUFFICES ASSUME time.mode # "compare" PROVE FALSE
    OBVIOUS
  <2>1. model.mode = "single"
    BY DEF Settled, Fresh, FromTopology
  <2> QED
    BY <2>1
<1>2. model = FromDiff(Diff(j, k))
  BY <1>1 DEF Settled, Fresh
<1>3. k \in Sweeps /\ j \in Sweeps /\ k \in 1 .. Len(Fabric) /\ j \in 1 .. Len(Fabric)
  BY <1>1, SweepAtIs DEF CardInv, Clock, Sweeps
<1> HIDE DEF k, j
<1>4. model.since = j /\ model.resolved = k
  BY <1>2 DEF FromDiff, Diff
<1>5. model.nodes = [n \in DOMAIN Compared(was, is) |-> ToElement(Compared(was, is)[n])]
  BY <1>2 DEF FromDiff, Diff
<1>6. DOMAIN model.nodes = DOMAIN was \cup DOMAIN is
  BY <1>5 DEF Compared
<1>7. i \in DOMAIN model.nodes
  BY SelectedIs, ModelHolds, GraphAssumption DEF CardInv, OnGraph, Resolves
<1>8. /\ i \in DOMAIN was => was[i] # None
      /\ i \in DOMAIN is => is[i] # None
  BY <1>3, FabricAssumption
<1> HIDE DEF was, is
<1>9. Element(i) = ToElement(Compared(was, is)[i])
  BY <1>5, <1>6, <1>7 DEF Element
<1>10. /\ Element(i).before = IF i \in DOMAIN was THEN was[i] ELSE None
       /\ Element(i).after = IF i \in DOMAIN is THEN is[i] ELSE None
  BY <1>6, <1>7, <1>8, <1>9, ComparedIs DEF ToElement
<1>11. Listed(i) = IF i \in DOMAIN was /\ i \in DOMAIN is
                     THEN {<<f, Field(was[i], f), Field(is[i], f)>> :
                             f \in {f \in DOMAIN was[i] \cup DOMAIN is[i] :
                                      Field(was[i], f) # Field(is[i], f)}}
                     ELSE {}
  <2>1. CASE i \in DOMAIN was /\ i \in DOMAIN is
    <3>1. Element(i).before = was[i] /\ Element(i).after = is[i] /\ was[i] # None /\ is[i] # None
      BY <1>8, <1>10, <2>1
    <3> QED
      BY <2>1, <3>1, Zenon DEF Listed, ChangedFields
  <2>2. CASE ~(i \in DOMAIN was /\ i \in DOMAIN is)
    <3>1. Element(i).before = None \/ Element(i).after = None
      BY <1>10, <2>2
    <3> QED
      BY <2>2, <3>1, Zenon DEF Listed, ChangedFields
  <2> QED
    BY <2>1, <2>2
<1> QED
  BY <1>4, <1>11, Zenon DEF was, is

\* Through sweeps, answers, instants and comparisons, in any order: a card
\* asks for its element at an instant that has it, the summary misses what was
\* removed, and a card lists what differs between the two sweeps compared
\* (SelectionCard, SummaryPanel, Delta.tsx).
THEOREM CardsShowTheirOwn == Spec => []CardsAreTrue
<1>1. CardInv => TypeOK
  <2> SUFFICES ASSUME CardInv PROVE TypeOK
    OBVIOUS
  <2>1. Cardinality(Ids(selection)) = Len(selection)
    BY AsManyItems DEF CardInv, Panel
  <2> QED
    BY <2>1 DEF TypeOK, CardInv, IInv, OffScreen, Clock, Panel, OnGraph
<1>2. CardInv => CardsAreTrue
  BY <1>1, Answered, MissingAre, ListedIs DEF CardsAreTrue
<1> QED
  BY <1>2, InvHolds, PTL

-----------------------------------------------------------------------------
(* The summary accounts for the selection. *)

\* Three disjoint sets of places that make up a list.
LEMMA PlacesAddUp ==
  ASSUME NEW n \in Nat, NEW A, NEW B, NEW C,
         A \cup B \cup C = 1 .. n,
         A \cap B = {}, A \cap C = {}, B \cap C = {}
  PROVE  Cardinality(A) + Cardinality(B) + Cardinality(C) = n
<1>1. IsFiniteSet(1 .. n) /\ Cardinality(1 .. n) = n
  BY CountUpTo
<1>2. A \subseteq 1 .. n /\ B \subseteq 1 .. n /\ C \subseteq 1 .. n
  OBVIOUS
<1>3. IsFiniteSet(A) /\ IsFiniteSet(B) /\ IsFiniteSet(C)
  BY <1>1, <1>2, FS_Subset
<1>4. Cardinality({}) = 0
  BY FS_EmptySet
<1>5. ASSUME NEW S, IsFiniteSet(S), NEW T, IsFiniteSet(T), S \cap T = {}
      PROVE  IsFiniteSet(S \cup T) /\ Cardinality(S \cup T) = Cardinality(S) + Cardinality(T)
  <2>1. Cardinality(S) \in Nat /\ Cardinality(T) \in Nat
    BY <1>5, FS_CardinalityType
  <2>2. /\ IsFiniteSet(S \cup T)
        /\ Cardinality(S \cup T) = Cardinality(S) + Cardinality(T) - Cardinality({})
    BY <1>5, FS_Union
  <2> QED
    BY <1>4, <2>1, <2>2
<1>6. IsFiniteSet(A \cup B) /\ Cardinality(A \cup B) = Cardinality(A) + Cardinality(B)
  BY <1>3, <1>5
<1>7. (A \cup B) \cap C = {} /\ (A \cup B) \cup C = 1 .. n
  OBVIOUS
<1>8. Cardinality(1 .. n) = Cardinality(A \cup B) + Cardinality(C)
  BY <1>3, <1>5, <1>6, <1>7
<1> QED
  BY <1>1, <1>6, <1>8

LEMMA SummaryCounts ==
  ASSUME CardInv
  PROVE  Len(NodeIds) + Len(LinkIds) + Len(Unresolved) = Len(selection)
<1>1. IsList(selection) /\ Len(selection) \in Nat /\ IsModel(model)
  BY IdsOf DEF CardInv, Panel, OnGraph, IsList
<1>2. \A k \in 1 .. Len(selection) : selection[k] \in Ids(selection)
  BY <1>1, IdsOf DEF IsList
<1>3. DOMAIN model.nodes \cap DOMAIN model.links = {}
  BY <1>1, ModelHolds, GraphAssumption
<1> DEFINE Loose == {i \in Ids(selection) : ~Resolves(i)}
           Places(S) == {k \in 1 .. Len(selection) : selection[k] \in S}
           A == Places(DOMAIN model.nodes)
           B == Places(DOMAIN model.links)
           C == Places(Loose)
<1>4. /\ Len(NodeIds) = Cardinality(A) /\ Len(LinkIds) = Cardinality(B)
      /\ Len(Unresolved) = Cardinality(C)
  BY <1>1, FilteredCount DEF NodeIds, LinkIds, Unresolved
<1>5. /\ A \cup B \cup C = 1 .. Len(selection)
      /\ A \cap B = {} /\ A \cap C = {} /\ B \cap C = {}
  BY <1>2, <1>3 DEF Resolves
<1> HIDE DEF A, B, C
<1> QED
  BY <1>1, <1>4, <1>5, PlacesAddUp

LEMMA OneBucketEach ==
  ASSUME CardInv, NEW i \in Ids(selection) \ Groups
  PROVE  \E b \in HealthBuckets :
           i \in Ids(b) /\ \A c \in HealthBuckets \ {b} : i \notin Ids(c)
<1>1. /\ Ids(NodeIds) = Ids(selection) \cap DOMAIN model.nodes
      /\ Ids(LinkIds) = Ids(selection) \cap DOMAIN model.links
      /\ IsList(NodeIds) /\ IsList(LinkIds) /\ Resolves(i)
  BY SelectedIs
<1>2. DOMAIN model.nodes \cap DOMAIN model.links = {}
  BY ModelHolds, GraphAssumption DEF CardInv, OnGraph
<1>3. PICK s \in {NodeIds, LinkIds} : i \in Ids(s) /\ \A t \in {NodeIds, LinkIds} : i \in Ids(t) => t = s
  <2>1. CASE i \in DOMAIN model.nodes
    BY <1>1, <1>2, <2>1
  <2>2. CASE i \in DOMAIN model.links
    BY <1>1, <1>2, <2>2
  <2> QED
    BY <1>1, <2>1, <2>2 DEF Resolves
<1>4. ASSUME NEW t \in {NodeIds, LinkIds}, NEW h
      PROVE  Ids(Filtered(t, Having(t, h))) = {j \in Ids(t) : HealthOf(j) = h}
  <2>1. IsList(t)
    BY <1>1
  <2>2. Ids(Filtered(t, Having(t, h))) = Ids(t) \cap Having(t, h)
    BY <2>1, FilteredList
  <2> QED
    BY <2>2 DEF Having
<1> DEFINE b == Filtered(s, Having(s, HealthOf(i)))
<1>5. b \in HealthBuckets
  BY <1>3, HealthBucketIs
<1>6. i \in Ids(b)
  BY <1>3, <1>4
<1>7. ASSUME NEW c \in HealthBuckets, i \in Ids(c)
      PROVE  c = b
  <2>1. PICK t \in {NodeIds, LinkIds} : \E j \in Ids(t) : c = Filtered(t, Having(t, HealthOf(j)))
    BY HealthBucketIs
  <2>2. PICK j \in Ids(t) : c = Filtered(t, Having(t, HealthOf(j)))
    BY <2>1
  <2>3. i \in Ids(t) /\ HealthOf(i) = HealthOf(j)
    BY <1>4, <1>7, <2>2
  <2> QED
    BY <1>3, <2>2, <2>3
<1> QED
  BY <1>5, <1>6, <1>7

\* Whatever was selected, filtered, and lost to polls since: each selected
\* element is counted once, and what resolves to nothing is a box
\* (Summarize.ts).
THEOREM SummaryIsWhole == Spec => []SummaryAddsUp
<1>1. CardInv => SummaryAddsUp
  BY SummaryCounts, OneBucketEach, SelectedIs DEF SummaryAddsUp
<1> QED
  BY <1>1, InvHolds, PTL

-----------------------------------------------------------------------------
(* Cards open one by one. *)

CardStep == AtMostOneOpens /\ OpenCardsSurvivePolls /\ NavigationClosesItsOrigin

\* What the effect of CardsPanel opens: the one addition, or nothing.
LEMMA OpensTheOne ==
  ASSUME NEW prev, NEW sel, NEW open, NEW from
  PROVE  /\ \A i, j \in Open(prev, sel, open, from) \ open : i = j
         /\ Ids(sel) \subseteq Ids(prev) =>
              Open(prev, sel, open, from) = open \ (Ids(prev) \ Ids(sel))
BY DEF Open, Opened, IsOne

\* A commit other than a traversal opens one card at most, and turns to none.
LEMMA CommitOpensOne ==
  ASSUME OffScreen, NEW sel, NEW limit, NEW force, NEW from, NEW open \in {expanded, {}},
         NEW target \in {focus, None},
         Commit(sel, limit, force, open, target, from)
  PROVE  AtMostOneOpens /\ NavigationClosesItsOrigin
<1>1. focus' \in {focus, None}
  BY DEF Commit
<1>2. CASE ~ShowsCards(sel, limit, force)
  <2>1. expanded' = {}
    BY <1>2, Zenon DEF Commit
  <2> QED
    BY <1>1, <2>1 DEF AtMostOneOpens, NavigationClosesItsOrigin
<1>3. CASE ShowsCards(sel, limit, force) /\ ~CardsOn
  <2>1. expanded' = Open(<<>>, sel, {}, None) /\ expanded = {}
    BY <1>3 DEF Commit, OffScreen
  <2> QED
    BY <1>1, <2>1, OpensTheOne DEF AtMostOneOpens, NavigationClosesItsOrigin
<1>4. CASE ShowsCards(sel, limit, force) /\ CardsOn
  <2>1. expanded' = Open(selection, sel, open, from)
    BY <1>4 DEF Commit
  <2>2. \A i, j \in expanded' \ open : i = j
    BY <2>1, OpensTheOne
  <2> QED
    BY <1>1, <2>2 DEF AtMostOneOpens, NavigationClosesItsOrigin
<1> QED
  BY <1>2, <1>3, <1>4

LEMMA SelectOpensOne ==
  ASSUME OffScreen, NEW sel, Select(sel), Elsewhere
  PROVE  CardStep
<1>1. AtMostOneOpens /\ NavigationClosesItsOrigin
  BY CommitOpensOne DEF Select
<1> QED
  BY <1>1 DEF CardStep, OpenCardsSurvivePolls, Elsewhere

\* A new model takes ids out of the selection: it adds none, and the panel does
\* not turn to the summary for having fewer.
LEMMA AnswerClosesTheGone ==
  ASSUME CardInv, Answer
  PROVE  CardStep
<1> DEFINE gone == Graph(model) \ Graph(Fresh)
<1>1. IsList(selection) /\ OffScreen /\ Len(selection) \in Nat
  BY IdsOf DEF CardInv, Panel, IInv, IsList
<1>2. CASE gone = {}
  BY <1>2 DEF Answer, Draw, CardStep, AtMostOneOpens, OpenCardsSurvivePolls, NavigationClosesItsOrigin
<1>3. CASE gone # {}
  <2> DEFINE sel == Without(selection, gone)
  <2>1. Select(sel)
    BY <1>3 DEF Answer, Draw, OnRemove
  <2> HIDE DEF gone
  <2>2. /\ Ids(sel) \subseteq Ids(selection) /\ Len(sel) <= Len(selection) /\ IsList(sel)
        /\ Len(sel) \in Nat
    <3>1. IsList(sel) /\ Ids(sel) = Ids(selection) \ gone /\ Len(sel) <= Len(selection)
      BY <1>1, WithoutLists
    <3> HIDE DEF sel
    <3> QED
      BY <3>1, IdsOf DEF IsList
  <2> HIDE DEF sel
  <2>3. AtMostOneOpens /\ NavigationClosesItsOrigin
    BY <1>1, <2>1, CommitOpensOne DEF Select
  <2>4. ~Grows(sel)
    BY <2>2 DEF Grows
  <2>5. ASSUME CardsOn
        PROVE  expanded \cap Ids(sel) \subseteq expanded' /\ expanded' \subseteq expanded
    <3>1. CASE ~ShowsCards(sel, threshold, Forces(sel))
      <4>1. sel = <<>>
        <5>1. forced \/ ~(Len(selection) >= threshold)
          BY <2>5 DEF CardsOn, ShowsCards, Summarizes
        <5>2. threshold \in Nat
          BY CardsAssumption DEF CardInv, Panel
        <5>3. sel # <<>> /\ forced => Forces(sel)
          BY <2>4 DEF Forces
        <5> QED
          BY <1>1, <2>2, <3>1, <5>1, <5>2, <5>3 DEF ShowsCards, Summarizes
      <4>2. expanded' = {}
        BY <2>1, <3>1, Zenon DEF Select, Commit
      <4> QED
        BY <4>1, <4>2, NoneLists
    <3>2. CASE ShowsCards(sel, threshold, Forces(sel))
      <4>1. expanded' = Open(selection, sel, expanded, pending)
        BY <2>1, <2>5, <3>2 DEF Select, Commit
      <4>2. expanded' = expanded \ (Ids(selection) \ Ids(sel))
        BY <2>2, <4>1, OpensTheOne
      <4> QED
        BY <4>2
    <3> QED
      BY <3>1, <3>2
  <2>6. selection' = sel
    BY <2>1 DEF Select, Commit
  <2>7. OpenCardsSurvivePolls
    BY <2>5, <2>6 DEF OpenCardsSurvivePolls, Ids
  <2> QED
    BY <2>3, <2>7 DEF CardStep
<1> QED
  BY <1>2, <1>3

\* A traversal trades its origin for its target, or leaves the target's card as
\* the commit that selects it opens it.
LEMMA NavigateTrades ==
  ASSUME CardInv, NEW i \in Nodes \cup Links, NEW to \in Nodes \cup Links, Navigate(i, to)
  PROVE  CardStep
<1> DEFINE left == (expanded \ {i}) \cup {to}
           sel == Append(selection, to)
<1>1. CardsOn /\ model' = model
  BY DEF Navigate, Elsewhere
<1>2. CASE expanded' = left /\ focus' = to
  <2>1. \A x, y \in expanded' \ expanded : x = y
    BY <1>2
  <2>2. expanded \ expanded' \subseteq {i}
    BY <1>2
  <2>3. Cardinality(expanded \ expanded') <= 1
    <3>1. IsFiniteSet({i}) /\ Cardinality({i}) = 1
      BY FS_Singleton
    <3> QED
      BY <2>2, <3>1, FS_Subset
  <2>4. focus' \in expanded'
    BY <1>2
  <2> QED
    BY <1>1, <2>1, <2>3, <2>4
    DEF CardStep, AtMostOneOpens, OpenCardsSurvivePolls, NavigationClosesItsOrigin
<1>3. CASE to \in Ids(selection) \/ to \notin Graph(model)
  BY <1>2, <1>3 DEF Navigate
<1>4. CASE ~(to \in Ids(selection) \/ to \notin Graph(model))
  <2>1. Commit(sel, threshold, Forces(sel), left, to, to)
    BY <1>4 DEF Navigate
  <2>2. Ids(sel) = Ids(selection) \cup {to}
    BY <1>4, AppendLists DEF CardInv, Panel, Items
  <2> HIDE DEF sel, left
  <2>3. CASE ~ShowsCards(sel, threshold, Forces(sel))
    <3>1. expanded' = {} /\ focus' = None
      BY <2>1, <2>3, Zenon DEF Commit
    <3> QED
      BY <1>1, <3>1 DEF CardStep, AtMostOneOpens, OpenCardsSurvivePolls, NavigationClosesItsOrigin
  <2>4. CASE ShowsCards(sel, threshold, Forces(sel))
    <3>1. expanded' = Open(selection, sel, left, to) /\ focus' = to
      BY <1>1, <2>1, <2>4 DEF Commit
    <3>2. Ids(sel) \ Ids(selection) = {to} /\ Ids(selection) \ Ids(sel) = {}
      BY <1>4, <2>2
    <3>3. Owned({to}, to) /\ IsOne({to})
      BY GraphAssumption DEF Owned, IsOne
    <3>4. expanded' = left \cup {to}
      <4>1. Open(selection, sel, left, to) = Opened(selection, {to}, left \ {}, to)
        BY <3>2 DEF Open
      <4> QED
        BY <3>1, <3>3, <4>1 DEF Opened
    <3> QED
      BY <1>2, <3>1, <3>4 DEF left
  <2> QED
    BY <2>3, <2>4
<1> QED
  BY <1>3, <1>4

LEMMA StepOpensOne == CardInv /\ [Next]_vars => CardStep \/ UNCHANGED vars
<1> SUFFICES ASSUME CardInv, Next
             PROVE  CardStep
  OBVIOUS
<1>1. OffScreen
  BY DEF CardInv, IInv
<1>2. ASSUME UNCHANGED <<model, expanded, focus>> \/ (UNCHANGED <<expanded, focus, selection>> /\ CardsOn)
      PROVE  CardStep
  BY <1>2 DEF CardStep, AtMostOneOpens, OpenCardsSurvivePolls, NavigationClosesItsOrigin
<1>3. ASSUME NEW i \in Items, Tap(i) \/ ToggleTap(i) \/ Close(i)
      PROVE  CardStep
  BY <1>1, <1>3, SelectOpensOne DEF Tap, ToggleTap, Close
<1>4. ASSUME NEW i \in Items, Toggle(i)
      PROVE  CardStep
  BY <1>4 DEF Toggle, CardStep, AtMostOneOpens, OpenCardsSurvivePolls, NavigationClosesItsOrigin
<1>5. ASSUME NEW els \in SUBSET Graph(model), SelectMany(els)
      PROVE  CardStep
  BY <1>1, <1>5, SelectOpensOne DEF SelectMany
<1>6. ASSUME NEW w \in Nodes, SelectLeafGroup(w)
      PROVE  CardStep
  BY <1>1, <1>6, SelectOpensOne DEF SelectLeafGroup
<1>7. CASE TapCanvas
  BY <1>1, <1>7, SelectOpensOne DEF TapCanvas
<1>8. CASE Sweep \/ \E t \in Times : SetTime(t)
  BY <1>2, <1>8 DEF Sweep, SetTime
<1>9. ASSUME NEW ids, PickBucket(ids)
      PROVE  CardStep
  BY <1>1, <1>9, SelectOpensOne DEF PickBucket
<1>10. ASSUME NEW sel, NEW limit, NEW force,
              Commit(sel, limit, force, {}, None, None), Elsewhere
       PROVE  CardStep
  BY <1>1, <1>10, CommitOpensOne DEF CardStep, OpenCardsSurvivePolls, Elsewhere
<1>11. CASE ShowAll
  BY <1>10, <1>11 DEF ShowAll
<1>12. ASSUME NEW n \in Thresholds, SetThreshold(n)
       PROVE  CardStep
  BY <1>2, <1>10, <1>12 DEF SetThreshold, Elsewhere
<1> QED
  BY <1>3, <1>4, <1>5, <1>6, <1>7, <1>8, <1>9, <1>11, <1>12, AnswerClosesTheGone, NavigateTrades
  DEF Next

\* However many elements a step selects it opens one card at most; a new model
\* closes no card of what is still there; and a traversal closes no card but
\* its origin (CardsPanel.tsx 50-81, 94-105).
THEOREM OneCardAtATime == Spec => CardsOpenOneByOne
<1>1. CardInv /\ [Next]_vars => [AtMostOneOpens /\ OpenCardsSurvivePolls /\ NavigationClosesItsOrigin]_vars
  BY StepOpensOne DEF CardStep
<1> QED
  BY <1>1, InvHolds, PTL DEF Spec, CardsOpenOneByOne
=============================================================================
