---------------------------- MODULE RunStreamData ----------------------------
(***************************************************************************)
(* Facts about the data of a turn's stream (RunRoute), apart from the      *)
(* variables that carry it: the sums the route keeps by adding and         *)
(* subtracting, the text and the images of what was passed on, and the     *)
(* notifications that wait to be replayed.                                 *)
(*                                                                         *)
(* They need induction over numbers and sets.  The induction theorems of   *)
(* the library take an operator as their hypothesis, which the provers at  *)
(* hand cannot instantiate; stated with a set in place of the operator,    *)
(* the same principles are first-order facts, and come first here.         *)
(***************************************************************************)
EXTENDS RunRouteTypes, FiniteSetTheorems, WellFoundedInduction

(* Every non-empty set of natural numbers has a least member.              *)
LEMMA LeastMember ==
  ASSUME NEW T \in SUBSET Nat, T # {}
  PROVE  \E n \in T : \A m \in T : n <= m
<1>1. \A x, y \in Nat : <<x, y>> \in OpToRel(<, Nat) <=> x < y
  BY DEF OpToRel
<1>2. \E n \in T : \A m \in T : ~(<<m, n>> \in OpToRel(<, Nat))
  BY NatLessThanWellFounded, WFMin
<1>3. PICK n \in T : \A m \in T : ~(<<m, n>> \in OpToRel(<, Nat))
  BY <1>2
<1>4. \A m \in T : ~(m < n)
  BY <1>1, <1>3
<1> QED BY <1>4

(* A set of numbers with 0 that has n + 1 whenever it has n has them all.  *)
LEMMA NumbersInduct ==
  ASSUME NEW T, 0 \in T, \A n \in Nat : n \in T => n + 1 \in T
  PROVE  Nat \subseteq T
<1> SUFFICES ASSUME Nat \ T # {} PROVE FALSE
  OBVIOUS
<1>1. PICK n \in Nat \ T : \A m \in Nat \ T : n <= m
  BY LeastMember
<1>2. n # 0 /\ n - 1 \in Nat /\ n - 1 \in T
  BY <1>1
<1> QED BY <1>1, <1>2

(* Every non-empty set of numbers below a bound has a greatest member.     *)
LEMMA GreatestMember ==
  ASSUME NEW n \in Nat, NEW T \in SUBSET (1..n), T # {}
  PROVE  \E k \in T : \A m \in T : m <= k
<1> DEFINE U == {d \in Nat : n - d \in T}
<1>1. \A m \in T : m \in 1..n /\ n - m \in Nat /\ n - (n - m) = m
  OBVIOUS
<1>2. U \in SUBSET Nat /\ U # {} /\ \A m \in T : n - m \in U
  BY <1>1
<1>3. PICK d \in U : \A e \in U : d <= e
  <2> HIDE DEF U
  <2> QED BY <1>2, LeastMember
<1>4. d \in Nat /\ n - d \in T
  BY <1>3
<1>5. \A m \in T : d <= n - m
  BY <1>2, <1>3
<1>6. \A m \in T : m <= n - d
  BY <1>1, <1>4, <1>5
<1> QED BY <1>4, <1>6

(* A family of finite sets that has S whenever it has S without any one of *)
(* its members has them all.                                               *)
LEMMA FiniteSetsInduct ==
  ASSUME NEW X, IsFiniteSet(X), NEW T,
         \A S \in SUBSET X : (\A x \in S : S \ {x} \in T) => S \in T
  PROVE  SUBSET X \subseteq T
<1> DEFINE N == {n \in Nat : \A S \in SUBSET X : Cardinality(S) = n => S \in T}
<1>1. \A S \in SUBSET X : IsFiniteSet(S) /\ Cardinality(S) \in Nat
  BY FS_Subset, FS_CardinalityType
<1>2. 0 \in N
  <2>1. ASSUME NEW S \in SUBSET X, Cardinality(S) = 0 PROVE S \in T
    <3>1. S = {}
      BY <1>1, <2>1, FS_EmptySet
    <3> QED BY <3>1
  <2> QED BY <2>1
<1>3. ASSUME NEW n \in Nat, n \in N PROVE n + 1 \in N
  <2>1. ASSUME NEW S \in SUBSET X, Cardinality(S) = n + 1 PROVE S \in T
    <3>1. \A x \in S : Cardinality(S \ {x}) = n
      BY <1>1, <2>1, FS_RemoveElement
    <3>2. \A x \in S : S \ {x} \in T
      BY <1>3, <3>1
    <3> QED BY <3>2
  <2> QED BY <2>1
<1>4. Nat \subseteq N
  <2> HIDE DEF N
  <2> QED BY <1>2, <1>3, NumbersInduct
<1> QED BY <1>1, <1>4

-----------------------------------------------------------------------------
(* The sum over the sets of images that TotalBytes recurs through.         *)
Picked(S) == CHOOSE i \in S : TRUE
Sums(sizes, f) ==
  f = [S \in SUBSET ImageIds |->
         IF S = {} THEN 0 ELSE sizes[Picked(S)] + f[S \ {Picked(S)}]]

(* The running sums of the sizes, in the order SumFunction takes them.     *)
LEMMA SumsExist ==
  ASSUME NEW sizes \in [ImageIds -> Int]
  PROVE  \E f : Sums(sizes, f)
<1> DEFINE Upto(n) == {S \in SUBSET ImageIds : Cardinality(S) <= n}
           Step(g, S) == IF S = {} THEN 0
                         ELSE sizes[Picked(S)] + g[S \ {Picked(S)}]
           Solves(n, g) == /\ DOMAIN g = Upto(n)
                           /\ \A S \in Upto(n) : g[S] = Step(g, S)
           N == {n \in Nat : \E g : Solves(n, g)}
<1>1. \A S \in SUBSET ImageIds :
        /\ Cardinality(S) \in Nat /\ Cardinality(S) <= Cardinality(ImageIds)
        /\ Cardinality(S) = 0 <=> S = {}
        /\ \A x \in S : Cardinality(S \ {x}) = Cardinality(S) - 1
  BY BoundsAssumption, FS_Subset, FS_CardinalityType, FS_EmptySet,
     FS_RemoveElement
<1>2. \A S \in SUBSET ImageIds : S # {} => Picked(S) \in S
  BY DEF Picked
<1>3. 0 \in N
  <2>1. Upto(0) = {{}}
    BY <1>1
  <2>2. Solves(0, [S \in {{}} |-> 0])
    BY <2>1
  <2> QED BY <2>2
<1>4. ASSUME NEW n \in Nat, n \in N PROVE n + 1 \in N
  <2>1. PICK g : Solves(n, g)
    BY <1>4
  <2> DEFINE h == [S \in Upto(n + 1) |-> Step(g, S)]
  <2>2. ASSUME NEW S \in Upto(n + 1), S # {}
        PROVE  S \ {Picked(S)} \in Upto(n) /\ S \ {Picked(S)} \in Upto(n + 1)
    BY <1>1, <1>2, <2>2
  <2>3. \A S \in Upto(n) : S \in Upto(n + 1) /\ h[S] = g[S]
    BY <1>1, <2>1
  <2>4. \A S \in Upto(n + 1) : h[S] = Step(h, S)
    BY <2>2, <2>3
  <2>5. \E k : Solves(n + 1, k)
    BY <2>4
  <2> HIDE DEF Solves
  <2> QED BY <2>5
<1>5. Nat \subseteq N
  <2> HIDE DEF N
  <2> QED BY <1>3, <1>4, NumbersInduct
<1>6. PICK g : Solves(Cardinality(ImageIds), g)
  BY <1>1, <1>5
<1>7. Upto(Cardinality(ImageIds)) = SUBSET ImageIds
  BY <1>1
<1> DEFINE f == [S \in SUBSET ImageIds |-> g[S]]
<1>8. Sums(sizes, f)
  BY <1>2, <1>6, <1>7 DEF Sums
<1> QED BY <1>8

(* What a sum is: nothing over no images, and each image adds its size.    *)
Adds(sizes, f) ==
  /\ f \in [SUBSET ImageIds -> Int]
  /\ f[{}] = 0
  /\ \A S \in SUBSET ImageIds : \A i \in S : f[S] = sizes[i] + f[S \ {i}]

(* The total changes by what one entry changes.                            *)
LEMMA TotalAdds ==
  ASSUME NEW sizes \in [ImageIds -> Int]
  PROVE  \E f : Adds(sizes, f) /\ TotalBytes(sizes) = f[ImageIds]
<1> DEFINE f == CHOOSE f : Sums(sizes, f)
<1>1. TotalBytes(sizes) = f[ImageIds]
  BY DEF TotalBytes, Sums, Picked
<1>2. Sums(sizes, f)
  BY SumsExist
<1> HIDE DEF f
<1>3. \A S \in SUBSET ImageIds :
        f[S] = IF S = {} THEN 0 ELSE sizes[Picked(S)] + f[S \ {Picked(S)}]
  BY <1>2 DEF Sums
<1>4. \A S \in SUBSET ImageIds : S # {} => Picked(S) \in S
  BY DEF Picked
<1>5. \A S \in SUBSET ImageIds : f[S] \in Int
  <2> DEFINE T == {S \in SUBSET ImageIds : f[S] \in Int}
  <2>1. ASSUME NEW S \in SUBSET ImageIds, \A x \in S : S \ {x} \in T
        PROVE  S \in T
    <3>1. CASE S = {}
      <4>1. f[S] = 0
        BY <1>3, <3>1
      <4> QED BY <4>1
    <3>2. CASE S # {}
      <4>1. /\ f[S] = sizes[Picked(S)] + f[S \ {Picked(S)}]
            /\ sizes[Picked(S)] \in Int /\ f[S \ {Picked(S)}] \in Int
        BY <1>3, <1>4, <2>1, <3>2
      <4> QED BY <4>1
    <3> QED BY <3>1, <3>2
  <2>2. SUBSET ImageIds \subseteq T
    <3> HIDE DEF T
    <3> QED BY <2>1, BoundsAssumption, FiniteSetsInduct
  <2> QED BY <2>2
<1>6. \A S \in SUBSET ImageIds : \A i \in S : f[S] = sizes[i] + f[S \ {i}]
  <2> DEFINE T == {S \in SUBSET ImageIds :
                     \A i \in S : f[S] = sizes[i] + f[S \ {i}]}
  <2>1. ASSUME NEW S \in SUBSET ImageIds, \A x \in S : S \ {x} \in T,
               NEW i \in S
        PROVE  f[S] = sizes[i] + f[S \ {i}]
    <3> DEFINE p == Picked(S)
    <3>1. p \in S /\ f[S] = sizes[p] + f[S \ {p}]
      BY <1>3, <1>4
    <3> HIDE DEF p
    <3>2. CASE i = p
      BY <3>1, <3>2
    <3>3. CASE i # p
      <4>1. f[S \ {p}] = sizes[i] + f[(S \ {p}) \ {i}]
        BY <2>1, <3>1, <3>3
      <4>2. (S \ {p}) \ {i} = (S \ {i}) \ {p}
        OBVIOUS
      <4>3. f[S \ {i}] = sizes[p] + f[(S \ {p}) \ {i}]
        BY <2>1, <3>1, <3>3, <4>2
      <4>4. /\ sizes[i] \in Int /\ sizes[p] \in Int
            /\ f[(S \ {p}) \ {i}] \in Int
        BY <1>5, <3>1
      <4> QED BY <3>1, <4>1, <4>3, <4>4
    <3> QED BY <3>2, <3>3
  <2>2. SUBSET ImageIds \subseteq T
    <3>1. \A S \in SUBSET ImageIds : (\A x \in S : S \ {x} \in T) => S \in T
      BY <2>1
    <3> HIDE DEF T
    <3> QED BY <3>1, BoundsAssumption, FiniteSetsInduct
  <2> QED BY <2>2
<1>7. f \in [SUBSET ImageIds -> Int] /\ f[{}] = 0
  BY <1>2, <1>3, <1>5 DEF Sums
<1> QED BY <1>1, <1>6, <1>7 DEF Adds

(* Replacing one payload changes the total by the difference.              *)
LEMMA TotalReplaces ==
  ASSUME NEW sizes \in [ImageIds -> Int], NEW i \in ImageIds, NEW size \in Int
  PROVE  TotalBytes([sizes EXCEPT ![i] = size])
           = TotalBytes(sizes) - sizes[i] + size
<1> DEFINE changed == [sizes EXCEPT ![i] = size]
<1>1. changed \in [ImageIds -> Int] /\ changed[i] = size
      /\ \A j \in ImageIds : j # i => changed[j] = sizes[j]
  OBVIOUS
<1> HIDE DEF changed
<1>2. PICK f : Adds(sizes, f) /\ TotalBytes(sizes) = f[ImageIds]
  BY TotalAdds
<1>3. PICK g : Adds(changed, g) /\ TotalBytes(changed) = g[ImageIds]
  BY <1>1, TotalAdds
<1>4. \A S \in SUBSET ImageIds : i \notin S => f[S] = g[S]
  <2> DEFINE T == {S \in SUBSET ImageIds : i \notin S => f[S] = g[S]}
  <2>1. ASSUME NEW S \in SUBSET ImageIds, \A x \in S : S \ {x} \in T, i \notin S
        PROVE  f[S] = g[S]
    <3>1. CASE S = {}
      BY <1>2, <1>3, <3>1 DEF Adds
    <3>2. CASE S # {}
      <4>1. PICK x \in S : TRUE
        BY <3>2
      <4>2. f[S] = sizes[x] + f[S \ {x}] /\ g[S] = changed[x] + g[S \ {x}]
        BY <1>2, <1>3 DEF Adds
      <4> QED BY <1>1, <2>1, <4>2
    <3> QED BY <3>1, <3>2
  <2>2. SUBSET ImageIds \subseteq T
    <3>1. \A S \in SUBSET ImageIds : (\A x \in S : S \ {x} \in T) => S \in T
      BY <2>1
    <3> HIDE DEF T
    <3> QED BY <3>1, BoundsAssumption, FiniteSetsInduct
  <2> QED BY <2>2
<1>5. /\ f[ImageIds] = sizes[i] + f[ImageIds \ {i}]
      /\ g[ImageIds] = size + g[ImageIds \ {i}]
      /\ f[ImageIds \ {i}] = g[ImageIds \ {i}]
      /\ f[ImageIds \ {i}] \in Int /\ sizes[i] \in Int
  BY <1>1, <1>2, <1>3, <1>4 DEF Adds
<1> QED BY <1>2, <1>3, <1>5 DEF changed

(* Nothing weighs nothing.                                                 *)
LEMMA TotalOfNone == TotalBytes(NoImages) = 0
<1>1. NoImages \in [ImageIds -> Int] /\ \A i \in ImageIds : NoImages[i] = 0
  BY DEF NoImages
<1>2. PICK f : Adds(NoImages, f) /\ TotalBytes(NoImages) = f[ImageIds]
  BY <1>1, TotalAdds
<1> DEFINE T == {S \in SUBSET ImageIds : f[S] = 0}
<1>3. ASSUME NEW S \in SUBSET ImageIds, \A x \in S : S \ {x} \in T
      PROVE  S \in T
  <2>1. CASE S = {}
    BY <1>2, <2>1 DEF Adds
  <2>2. CASE S # {}
    <3>1. PICK x \in S : TRUE
      BY <2>2
    <3>2. f[S] = NoImages[x] + f[S \ {x}]
      BY <1>2 DEF Adds
    <3> QED BY <1>1, <1>3, <3>2
  <2> QED BY <2>1, <2>2
<1>4. SUBSET ImageIds \subseteq T
  <2> HIDE DEF T
  <2> QED BY <1>3, BoundsAssumption, FiniteSetsInduct
<1> QED BY <1>2, <1>4

-----------------------------------------------------------------------------
(* The prefix sums of the text sizes that TextOf recurs through.           *)
TextSize(item) == IF item.kind = "text" THEN item.size ELSE 0
TextSums(items, f) ==
  f = [n \in 0..Len(items) |->
         IF n = 0 THEN 0 ELSE f[n - 1] + TextSize(items[n])]

AddsUpTo(items, n, f) ==
  /\ f \in [0..n -> Nat]
  /\ f[0] = 0
  /\ \A m \in 1..n : f[m] = f[m - 1] + TextSize(items[m])
TextAdds(items, f) == AddsUpTo(items, Len(items), f)

(* The running text totals of a sequence exist.                            *)
LEMMA TextSumsAdd ==
  ASSUME NEW items \in Seq(ItemType)
  PROVE  \E f : TextAdds(items, f) /\ TextOf(items) = f[Len(items)]
<1> DEFINE L == Len(items)
           N == {n \in Nat : n <= L => \E g : AddsUpTo(items, n, g)}
<1>1. L \in Nat /\ \A n \in 1..L : TextSize(items[n]) \in Nat
  BY ItemFacts DEF TextSize, ItemType
<1> HIDE DEF L
<1>2. 0 \in N
  <2>1. AddsUpTo(items, 0, [n \in 0..0 |-> 0])
    BY DEF AddsUpTo
  <2> QED BY <2>1
<1>3. ASSUME NEW n \in Nat, n \in N, n + 1 <= L PROVE n + 1 \in N
  <2>1. PICK g : AddsUpTo(items, n, g)
    BY <1>1, <1>3
  <2> DEFINE h == [m \in 0..(n + 1) |->
                     IF m = n + 1 THEN g[n] + TextSize(items[n + 1]) ELSE g[m]]
  <2>2. h \in [0..(n + 1) -> Nat] /\ h[0] = 0
    BY <1>1, <1>3, <2>1 DEF AddsUpTo
  <2>3. \A m \in 1..(n + 1) : h[m] = h[m - 1] + TextSize(items[m])
    BY <2>1 DEF AddsUpTo
  <2> HIDE DEF h
  <2>4. AddsUpTo(items, n + 1, h)
    BY <2>2, <2>3 DEF AddsUpTo
  <2> QED BY <2>4
<1>4. ASSUME NEW n \in Nat, n \in N PROVE n + 1 \in N
  <2>1. CASE n + 1 <= L
    BY <1>3, <1>4, <2>1
  <2>2. CASE ~(n + 1 <= L)
    BY <2>2
  <2> QED BY <2>1, <2>2
<1>5. Nat \subseteq N
  <2> HIDE DEF N
  <2> QED BY <1>2, <1>4, NumbersInduct
<1>6. PICK g : AddsUpTo(items, L, g)
  <2>1. L \in N
    BY <1>1, <1>5
  <2> QED BY <1>1, <2>1
<1> DEFINE f == CHOOSE f : TextSums(items, f)
<1>7. TextOf(items) = f[L]
  BY DEF TextOf, TextSums, TextSize, L
<1>8. TextSums(items, f)
  <2>1. g = [n \in 0..L |-> IF n = 0 THEN 0 ELSE g[n - 1] + TextSize(items[n])]
    BY <1>1, <1>6 DEF AddsUpTo
  <2>2. TextSums(items, g)
    BY <2>1 DEF TextSums, L
  <2> QED BY <2>2
<1> HIDE DEF f
<1>9. \A n \in 0..L : f[n] = IF n = 0 THEN 0 ELSE f[n - 1] + TextSize(items[n])
  BY <1>8 DEF TextSums, L
<1>10. \A n \in 0..L : f[n] \in Nat
  <2> DEFINE M == {n \in Nat : n <= L => f[n] \in Nat}
  <2>1. 0 \in M
    BY <1>1, <1>9
  <2>2. ASSUME NEW n \in Nat, n \in M PROVE n + 1 \in M
    <3>1. ASSUME n + 1 <= L PROVE f[n + 1] \in Nat
      <4>1. /\ f[n + 1] = f[n] + TextSize(items[n + 1])
            /\ f[n] \in Nat /\ TextSize(items[n + 1]) \in Nat
        BY <1>1, <1>9, <2>2, <3>1
      <4> QED BY <4>1
    <3> QED BY <3>1
  <2>3. Nat \subseteq M
    <3> HIDE DEF M
    <3> QED BY <2>1, <2>2, NumbersInduct
  <2> QED BY <1>1, <2>3
<1>11. TextAdds(items, f)
  <2>1. f \in [0..L -> Nat]
    BY <1>8, <1>10 DEF TextSums, L
  <2>2. f[0] = 0 /\ \A n \in 1..L : f[n] = f[n - 1] + TextSize(items[n])
    BY <1>1, <1>9
  <2> QED BY <2>1, <2>2 DEF TextAdds, AddsUpTo, L
<1> QED BY <1>7, <1>11 DEF L

(* No items, no text.                                                      *)
LEMMA TextOfNothing == TextOf(<<>>) = 0
<1>1. <<>> \in Seq(ItemType) /\ Len(<<>>) = 0
  OBVIOUS
<1> QED BY <1>1, TextSumsAdd DEF TextAdds, AddsUpTo

(* Two lists with the same beginning have the same sums up to its end.     *)
LEMMA TextSumsAgree ==
  ASSUME NEW a \in Seq(ItemType), NEW b \in Seq(ItemType), NEW f, NEW g,
         TextAdds(a, f), TextAdds(b, g), NEW k \in Nat,
         k <= Len(a), k <= Len(b), \A n \in 1..k : a[n] = b[n]
  PROVE  f[k] = g[k]
<1> DEFINE N == {n \in Nat : n <= k => f[n] = g[n]}
<1>1. Len(a) \in Nat /\ Len(b) \in Nat
  OBVIOUS
<1>2. 0 \in N
  BY DEF TextAdds, AddsUpTo
<1>3. ASSUME NEW n \in Nat, n \in N PROVE n + 1 \in N
  <2>1. ASSUME n + 1 <= k PROVE f[n + 1] = g[n + 1]
    <3>1. /\ f[n + 1] = f[n] + TextSize(a[n + 1])
          /\ g[n + 1] = g[n] + TextSize(b[n + 1])
      BY <1>1, <2>1 DEF TextAdds, AddsUpTo
    <3>2. f[n] = g[n] /\ a[n + 1] = b[n + 1]
      BY <1>3, <2>1
    <3> QED BY <3>1, <3>2
  <2> QED BY <2>1
<1>4. Nat \subseteq N
  <2> HIDE DEF N
  <2> QED BY <1>2, <1>3, NumbersInduct
<1> QED BY <1>4

(* The text of the first n items.                                          *)
TextUpTo(items, n) == TextOf(SubSeq(items, 1, n))

(* Any running total of the text is the text up to that item.              *)
LEMMA TextUpToIs ==
  ASSUME NEW items \in Seq(ItemType), NEW f, TextAdds(items, f)
  PROVE  \A n \in 0..Len(items) : TextUpTo(items, n) = f[n]
<1> SUFFICES ASSUME NEW n \in 0..Len(items) PROVE TextUpTo(items, n) = f[n]
  OBVIOUS
<1> DEFINE s == SubSeq(items, 1, n)
<1>1. /\ s \in Seq(ItemType) /\ Len(s) = n /\ n \in Nat /\ n <= Len(items)
      /\ \A m \in 1..n : s[m] = items[m]
  OBVIOUS
<1> HIDE DEF s
<1>2. PICK g : TextAdds(s, g) /\ TextOf(s) = g[Len(s)]
  BY <1>1, TextSumsAdd
<1>3. f[n] = g[n]
  BY <1>1, <1>2, TextSumsAgree
<1> QED BY <1>1, <1>2, <1>3 DEF TextUpTo, s

(* What TextUpTo is built from.                                            *)
LEMMA TextGrows ==
  ASSUME NEW items \in Seq(ItemType)
  PROVE  /\ TextUpTo(items, 0) = 0
         /\ TextUpTo(items, Len(items)) = TextOf(items)
         /\ \A n \in 0..Len(items) : TextUpTo(items, n) \in Nat
         /\ \A n \in 1..Len(items) :
              TextUpTo(items, n) = TextUpTo(items, n - 1) + TextSize(items[n])
<1>1. PICK f : TextAdds(items, f) /\ TextOf(items) = f[Len(items)]
  BY TextSumsAdd
<1>2. \A n \in 0..Len(items) : TextUpTo(items, n) = f[n]
  BY <1>1, TextUpToIs
<1>3. Len(items) \in Nat
  OBVIOUS
<1>4. /\ \A n \in 0..Len(items) : f[n] \in Nat
      /\ f[0] = 0
      /\ \A n \in 1..Len(items) : f[n] = f[n - 1] + TextSize(items[n])
  BY <1>1 DEF TextAdds, AddsUpTo
<1>5. /\ 0 \in 0..Len(items) /\ Len(items) \in 0..Len(items)
      /\ \A n \in 1..Len(items) : n \in 0..Len(items) /\ n - 1 \in 0..Len(items)
  BY <1>3
<1> QED BY <1>1, <1>2, <1>4, <1>5

(* Items that carry no text leave it alone.                                *)
LEMMA TextSkips ==
  ASSUME NEW items \in Seq(ItemType), NEW k \in 0..Len(items),
         NEW n \in k..Len(items),
         \A m \in (k + 1)..n : items[m].kind # "text"
  PROVE  TextUpTo(items, n) = TextUpTo(items, k)
<1> DEFINE N == {d \in Nat : k + d <= n =>
                   TextUpTo(items, k + d) = TextUpTo(items, k)}
<1>1. Len(items) \in Nat /\ k \in Nat /\ n \in Nat
      /\ \A m \in 0..Len(items) : TextUpTo(items, m) \in Nat
  BY TextGrows
<1>2. 0 \in N
  BY <1>1
<1>3. ASSUME NEW d \in Nat, d \in N PROVE d + 1 \in N
  <2>1. ASSUME k + (d + 1) <= n
        PROVE  TextUpTo(items, k + (d + 1)) = TextUpTo(items, k)
    <3> DEFINE m == k + (d + 1)
    <3>1. m \in (k + 1)..n /\ m \in 1..Len(items) /\ m - 1 = k + d
      BY <1>1, <2>1
    <3>2. TextSize(items[m]) = 0
      BY <3>1 DEF TextSize
    <3>3. TextUpTo(items, m) = TextUpTo(items, k + d) + 0
      BY <3>1, <3>2, TextGrows
    <3>4. TextUpTo(items, k + d) = TextUpTo(items, k)
      BY <1>1, <1>3, <2>1
    <3> QED BY <1>1, <3>3, <3>4
  <2> QED BY <2>1
<1>4. Nat \subseteq N
  <2> HIDE DEF N
  <2> QED BY <1>2, <1>3, NumbersInduct
<1>5. n - k \in Nat /\ k + (n - k) = n
  BY <1>1
<1> QED BY <1>4, <1>5

(* What is read later does not change the text so far.                     *)
LEMMA TextKept ==
  ASSUME NEW items \in Seq(ItemType), NEW item \in ItemType,
         NEW n \in 0..Len(items)
  PROVE  TextUpTo(Append(items, item), n) = TextUpTo(items, n)
<1> DEFINE more == Append(items, item)
<1>1. /\ more \in Seq(ItemType) /\ Len(more) = Len(items) + 1
      /\ n \in Nat /\ n <= Len(items) /\ Len(items) \in Nat
      /\ \A m \in 1..n : more[m] = items[m]
  OBVIOUS
<1> HIDE DEF more
<1>2. PICK f : TextAdds(items, f)
  BY TextSumsAdd
<1>3. PICK g : TextAdds(more, g)
  BY <1>1, TextSumsAdd
<1>4. f[n] = g[n]
  <2>1. \A m \in 1..n : items[m] = more[m]
    BY <1>1
  <2> QED BY <1>1, <1>2, <1>3, <2>1, TextSumsAgree
<1>5. n \in 0..Len(more)
  BY <1>1
<1>6. TextUpTo(items, n) = f[n] /\ TextUpTo(more, n) = g[n]
  BY <1>1, <1>2, <1>3, <1>5, TextUpToIs
<1> QED BY <1>4, <1>6 DEF more

-----------------------------------------------------------------------------
(* The stream of one turn, apart from the variables that carry it: items   *)
(* is what the app-server wrote, over says that it has also written the    *)
(* turn's terminal, and seen holds the places that reached the handle.     *)

(* The terminal comes after every event.                                   *)
Position(note, items) ==
  IF note.kind = "event" THEN note.place ELSE Len(items) + 1

(* Notifications of turn r as the app-server wrote them.                   *)
AsWritten(notes, r, items, over) == \A i \in DOMAIN notes :
  /\ notes[i].turn = r
  /\ notes[i].kind = "event" =>
       notes[i].place \in 1..Len(items) /\ notes[i].item = items[notes[i].place]
  /\ notes[i].kind = "terminal" => over
Ascending(notes, items) == \A i, j \in DOMAIN notes :
  i < j => Position(notes[i], items) < Position(notes[j], items)
Before(these, those, items) ==
  \A i \in DOMAIN these, j \in DOMAIN those :
    Position(these[i], items) < Position(those[j], items)

(* Images a later notification of the same item replaces (Replaced).       *)
Supplanted(items, n) ==
  /\ items[n].kind = "image"
  /\ \E m \in (n + 1)..Len(items) :
       items[m].kind = "image" /\ items[m].id = items[n].id

IsImage(items, n, i) == items[n].kind = "image" /\ items[n].id = i

(* What was passed on: everything up to the frontier k that no later image *)
(* replaces; text and images are what the route retains of it.             *)
UpToDate(images, seen, items) == \A i \in ImageIds :
  \/ images[i] = 0 /\ \A x \in seen : ~IsImage(items, x, i)
  \/ \E x \in seen : /\ IsImage(items, x, i)
                     /\ images[i] = items[x].size
                     /\ \A y \in seen : IsImage(items, y, i) => y <= x
PassedOn(seen, items, k, text, images) ==
  /\ seen \subseteq 1..k
  /\ k \in 0..Len(items)
  /\ \A n \in 1..k : Supplanted(items, n) \/ n \in seen
  /\ text = TextUpTo(items, k)
  /\ UpToDate(images, seen, items)

(* What waits beyond the frontier: now is replayed, next is deferred until *)
(* then.                                                                   *)
EventPlaces(notes) ==
  {notes[i].place : i \in {j \in DOMAIN notes : notes[j].kind = "event"}}
Beyond(notes, k, items) ==
  \A i \in DOMAIN notes : k < Position(notes[i], items)
Waits(now, next, r, items, over, k) ==
  /\ AsWritten(now, r, items, over) /\ AsWritten(next, r, items, over)
  /\ Ascending(now, items) /\ Ascending(next, items)
  /\ Before(now, next, items)
  /\ Beyond(now, k, items) /\ Beyond(next, k, items)
  /\ \A n \in (k + 1)..Len(items) :
       Supplanted(items, n) \/ n \in EventPlaces(now) \cup EventPlaces(next)

(* The image counters after one more event.                                *)
ImagesWith(images, item) ==
  IF item.kind = "image" THEN [images EXCEPT ![item.id] = item.size] ELSE images

(* What a queue of notifications is made of.                               *)
LEMMA NoteFacts ==
  ASSUME NEW notes \in Seq(Note)
  PROVE  /\ Len(notes) \in Nat /\ DOMAIN notes = 1..Len(notes)
         /\ \A i \in DOMAIN notes :
              /\ notes[i] \in Note
              /\ notes[i].kind \in {"event", "terminal"}
              /\ notes[i].kind # "event" => notes[i].kind = "terminal"
              /\ notes[i].kind = "event" =>
                   notes[i] \in EventNote /\ notes[i].place \in Nat
BY DEF Note, EventNote, TerminalNote

(* Items of the model are of the type the sums are stated for.             *)
LEMMA ItemsTyped == \A items \in Seq(Items) : items \in Seq(ItemType)
<1> SUFFICES ASSUME NEW items \in Seq(Items) PROVE items \in Seq(ItemType)
  OBVIOUS
<1>1. \A i \in 1..Len(items) : items[i] \in ItemType
  BY ItemsAssumption
<1> QED BY <1>1

(* Supplanted items are images: passing them over adds no text.            *)
LEMMA SkippedHaveNoText ==
  ASSUME NEW items \in Seq(Items), NEW k \in 0..Len(items), NEW n \in k..Len(items),
         \A m \in (k + 1)..n : Supplanted(items, m)
  PROVE  TextUpTo(items, n) = TextUpTo(items, k)
<1>1. \A m \in (k + 1)..n : items[m].kind # "text"
  BY DEF Supplanted
<1> QED BY <1>1, ItemsTyped, TextSkips

(* The replayed head is passed on.                                         *)
LEMMA HeadPasses ==
  ASSUME NEW seen, NEW items \in Seq(Items), NEW k, NEW text,
         NEW images \in [ImageIds -> Nat], NEW now \in Seq(Note),
         NEW next \in Seq(Note), NEW r, NEW over,
         PassedOn(seen, items, k, text, images),
         Waits(now, next, r, items, over, k),
         now # <<>>, Head(now).kind = "event"
  PROVE  LET x == Head(now).place IN
         /\ x \in (k + 1)..Len(items) /\ Head(now).item = items[x]
         /\ Head(now).turn = r
         /\ PassedOn(seen \cup {x}, items, x, text + TextSize(items[x]),
                     ImagesWith(images, items[x]))
         /\ Waits(Tail(now), next, r, items, over, x)
<1> DEFINE x == Head(now).place
           rest == Tail(now)
<1>1. /\ Len(items) \in Nat /\ k \in 0..Len(items) /\ Len(now) \in Nat
      /\ Len(now) # 0 /\ DOMAIN now = 1..Len(now) /\ Head(now) = now[1]
      /\ \A i \in 1..Len(items) : items[i] \in Items
  BY DEF PassedOn
<1>11. /\ AsWritten(now, r, items, over) /\ AsWritten(next, r, items, over)
       /\ Ascending(now, items) /\ Ascending(next, items)
       /\ Before(now, next, items)
       /\ Beyond(now, k, items) /\ Beyond(next, k, items)
  BY DEF Waits
<1>12. /\ seen \subseteq 1..k /\ k \in Nat /\ \A y \in seen : y \in 1..k
       /\ \A n \in 1..k : Supplanted(items, n) \/ n \in seen
  BY DEF PassedOn
<1>2. /\ rest \in Seq(Note) /\ Len(rest) = Len(now) - 1
      /\ DOMAIN rest = 1..(Len(now) - 1)
      /\ \A i \in 1..(Len(now) - 1) : rest[i] = now[i + 1]
  BY <1>1
<1>3. /\ x \in 1..Len(items) /\ Head(now).item = items[x] /\ Head(now).turn = r
      /\ Position(now[1], items) = x /\ k < x
  BY <1>1 DEF Waits, AsWritten, Beyond, Position
<1> HIDE DEF x, rest
<1>4. \A i \in 2..Len(now) : x < Position(now[i], items)
  BY <1>1, <1>3 DEF Waits, Ascending
<1>5. \A i \in DOMAIN next : x < Position(next[i], items)
  BY <1>1, <1>3 DEF Waits, Before
<1>6. \A n \in EventPlaces(now) : n = x \/ (x < n /\ n \in EventPlaces(rest))
  <2> SUFFICES ASSUME NEW n \in EventPlaces(now), n # x
               PROVE  x < n /\ n \in EventPlaces(rest)
    OBVIOUS
  <2>1. PICK i \in DOMAIN now : now[i].kind = "event" /\ now[i].place = n
    BY DEF EventPlaces
  <2>2. i # 1 /\ i \in 2..Len(now) /\ i - 1 \in DOMAIN rest /\ rest[i - 1] = now[i]
    BY <1>1, <1>2, <2>1 DEF x
  <2>3. x < n
    BY <1>4, <2>1, <2>2 DEF Position
  <2> QED BY <2>1, <2>2, <2>3 DEF EventPlaces
<1>7. \A n \in EventPlaces(next) : x < n
  BY <1>5 DEF EventPlaces, Position
<1>8. \A n \in (k + 1)..(x - 1) : Supplanted(items, n)
  <2> SUFFICES ASSUME NEW n \in (k + 1)..(x - 1), ~Supplanted(items, n)
               PROVE  FALSE
    OBVIOUS
  <2>1. n \in EventPlaces(now) \cup EventPlaces(next)
    BY <1>1, <1>3 DEF Waits
  <2> QED BY <1>1, <1>3, <1>6, <1>7, <2>1
<1>9. PassedOn(seen \cup {x}, items, x, text + TextSize(items[x]),
               ImagesWith(images, items[x]))
  <2>1. seen \cup {x} \subseteq 1..x /\ x \in 0..Len(items)
    BY <1>1, <1>3, <1>12
  <2>2. \A n \in 1..x : Supplanted(items, n) \/ n \in seen \cup {x}
    BY <1>1, <1>3, <1>8, <1>12
  <2>3. text + TextSize(items[x]) = TextUpTo(items, x)
    <3>1. TextUpTo(items, x - 1) = TextUpTo(items, k)
      BY <1>1, <1>3, <1>8, SkippedHaveNoText
    <3>2. TextUpTo(items, x) = TextUpTo(items, x - 1) + TextSize(items[x])
      BY <1>3, ItemsTyped, TextGrows
    <3> QED BY <3>1, <3>2 DEF PassedOn
  <2>4. UpToDate(ImagesWith(images, items[x]), seen \cup {x}, items)
    <3>1. x \in Nat /\ items[x] \in Items /\ \A y \in seen : y < x /\ y \in Nat
      BY <1>1, <1>3, <1>12
    <3> SUFFICES ASSUME NEW i \in ImageIds
                 PROVE  \/ /\ ImagesWith(images, items[x])[i] = 0
                           /\ \A y \in seen \cup {x} : ~IsImage(items, y, i)
                        \/ \E y \in seen \cup {x} :
                             /\ IsImage(items, y, i)
                             /\ ImagesWith(images, items[x])[i] = items[y].size
                             /\ \A z \in seen \cup {x} :
                                  IsImage(items, z, i) => z <= y
      BY DEF UpToDate
    <3>2. CASE IsImage(items, x, i)
      <4>1. ImagesWith(images, items[x])[i] = items[x].size
        BY <3>2 DEF ImagesWith, IsImage
      <4>2. \A z \in seen \cup {x} : z <= x
        BY <1>3, <3>1
      <4> QED BY <3>2, <4>1, <4>2
    <3>3. CASE ~IsImage(items, x, i)
      <4>1. ImagesWith(images, items[x])[i] = images[i]
        BY <3>3 DEF ImagesWith, IsImage
      <4>2. CASE images[i] = 0 /\ \A y \in seen : ~IsImage(items, y, i)
        BY <3>3, <4>1, <4>2
      <4>3. CASE \E y \in seen : /\ IsImage(items, y, i)
                                 /\ images[i] = items[y].size
                                 /\ \A z \in seen : IsImage(items, z, i) => z <= y
        BY <3>3, <4>1, <4>3
      <4> QED BY <4>2, <4>3 DEF PassedOn, UpToDate
    <3> QED BY <3>2, <3>3
  <2> QED BY <2>1, <2>2, <2>3, <2>4 DEF PassedOn
<1>10. Waits(rest, next, r, items, over, x)
  <2>1. AsWritten(rest, r, items, over) /\ AsWritten(next, r, items, over)
    <3>1. \A i \in DOMAIN rest : i + 1 \in DOMAIN now /\ rest[i] = now[i + 1]
      BY <1>1, <1>2
    <3> QED BY <1>11, <3>1 DEF AsWritten
  <2>2. Ascending(rest, items) /\ Ascending(next, items)
    <3>1. \A i, j \in DOMAIN rest : i < j =>
            Position(rest[i], items) < Position(rest[j], items)
      <4> SUFFICES ASSUME NEW i \in DOMAIN rest, NEW j \in DOMAIN rest, i < j
                   PROVE  Position(rest[i], items) < Position(rest[j], items)
        OBVIOUS
      <4>1. /\ i + 1 \in DOMAIN now /\ j + 1 \in DOMAIN now /\ i + 1 < j + 1
            /\ rest[i] = now[i + 1] /\ rest[j] = now[j + 1]
        BY <1>1, <1>2
      <4> QED BY <1>11, <4>1 DEF Ascending
    <3> QED BY <1>11, <3>1 DEF Ascending
  <2>3. Before(rest, next, items)
    <3>1. \A i \in DOMAIN rest : i + 1 \in DOMAIN now /\ rest[i] = now[i + 1]
      BY <1>1, <1>2
    <3> QED BY <1>11, <3>1 DEF Before
  <2>4. Beyond(rest, x, items) /\ Beyond(next, x, items)
    BY <1>1, <1>2, <1>4, <1>5 DEF Beyond
  <2>5. \A n \in (x + 1)..Len(items) : Supplanted(items, n)
          \/ n \in EventPlaces(rest) \cup EventPlaces(next)
    <3> SUFFICES ASSUME NEW n \in (x + 1)..Len(items), ~Supplanted(items, n)
                 PROVE  n \in EventPlaces(rest) \cup EventPlaces(next)
      OBVIOUS
    <3>1. n \in (k + 1)..Len(items) /\ n # x
      BY <1>1, <1>3
    <3> QED BY <1>6, <3>1 DEF Waits
  <2> QED BY <2>1, <2>2, <2>3, <2>4, <2>5 DEF Waits
<1> QED BY <1>1, <1>3, <1>9, <1>10 DEF x, rest

(* What was deferred is replayed next.                                     *)
LEMMA DeferredIsNext ==
  ASSUME NEW next, NEW r, NEW items \in Seq(Items), NEW over, NEW k,
         Waits(<<>>, next, r, items, over, k)
  PROVE  Waits(next, <<>>, r, items, over, k)
<1>1. DOMAIN <<>> = {} /\ EventPlaces(<<>>) = {}
  BY DEF EventPlaces
<1> QED BY <1>1 DEF Waits, AsWritten, Ascending, Before, Beyond

(* The app-server writes one more item.                                    *)
LEMMA SupplantedStays ==
  ASSUME NEW items \in Seq(Items), NEW item \in Items, NEW n \in 1..Len(items)
  PROVE  LET more == Append(items, item) IN
         /\ more \in Seq(Items) /\ Len(more) = Len(items) + 1
         /\ Len(items) \in Nat /\ n \in 1..Len(more) /\ more[n] = items[n]
         /\ more[Len(more)] = item
         /\ Supplanted(items, n) => Supplanted(more, n)
         /\ /\ item.kind = "image" /\ items[n].kind = "image"
            /\ items[n].id = item.id
            => Supplanted(more, n)
<1> DEFINE more == Append(items, item)
<1>1. /\ more \in Seq(Items) /\ Len(more) = Len(items) + 1
      /\ Len(items) \in Nat /\ \A m \in 1..Len(items) : more[m] = items[m]
      /\ more[Len(items) + 1] = item
  OBVIOUS
<1> HIDE DEF more
<1>2. ASSUME Supplanted(items, n) PROVE Supplanted(more, n)
  <2>1. PICK m \in (n + 1)..Len(items) :
          items[m].kind = "image" /\ items[m].id = items[n].id
    BY <1>2 DEF Supplanted
  <2>2. /\ m \in (n + 1)..Len(more) /\ more[m] = items[m] /\ more[n] = items[n]
        /\ items[n].kind = "image"
    BY <1>1, <1>2, <2>1 DEF Supplanted
  <2> QED BY <2>1, <2>2 DEF Supplanted
<1>3. ASSUME item.kind = "image", items[n].kind = "image", items[n].id = item.id
      PROVE  Supplanted(more, n)
  <2>1. Len(more) \in (n + 1)..Len(more) /\ more[Len(more)] = item
        /\ more[n] = items[n]
    BY <1>1
  <2> QED BY <1>3, <2>1 DEF Supplanted
<1> QED BY <1>1, <1>2, <1>3 DEF more

(* What was passed on stays so when another item is written.               *)
LEMMA PassedOnStays ==
  ASSUME NEW seen, NEW items \in Seq(Items), NEW item \in Items, NEW k,
         NEW text, NEW images, PassedOn(seen, items, k, text, images)
  PROVE  PassedOn(seen, Append(items, item), k, text, images)
<1> DEFINE more == Append(items, item)
<1>1. /\ Len(items) \in Nat /\ Len(more) = Len(items) + 1 /\ k \in 0..Len(items)
      /\ seen \subseteq 1..k
      /\ \A n \in 1..Len(items) :
           more[n] = items[n] /\ (Supplanted(items, n) => Supplanted(more, n))
  BY SupplantedStays DEF PassedOn
<1>2. TextUpTo(more, k) = TextUpTo(items, k)
  BY <1>1, ItemsTyped, ItemsAssumption, TextKept
<1> HIDE DEF more
<1>3. UpToDate(images, seen, more)
  <2>1. \A x \in seen : more[x] = items[x]
    BY <1>1
  <2> QED BY <2>1 DEF PassedOn, UpToDate, IsImage
<1>4. \A n \in 1..k : Supplanted(more, n) \/ n \in seen
  BY <1>1 DEF PassedOn
<1>5. k \in 0..Len(more)
  BY <1>1
<1> QED BY <1>1, <1>2, <1>3, <1>4, <1>5 DEF PassedOn, more

(* Notifications keep their place when another one is written after them,  *)
(* unless the terminal was already there.                                  *)
LEMMA WrittenStays ==
  ASSUME NEW notes \in Seq(Note), NEW r, NEW items \in Seq(Items),
         NEW item \in Items, AsWritten(notes, r, items, FALSE)
  PROVE  /\ AsWritten(notes, r, Append(items, item), FALSE)
         /\ \A i \in DOMAIN notes :
              /\ notes[i].kind = "event"
              /\ Position(notes[i], items) = notes[i].place
              /\ Position(notes[i], Append(items, item)) = notes[i].place
<1>1. \A i \in DOMAIN notes : notes[i].kind = "event"
  BY NoteFacts DEF AsWritten
<1>2. \A n \in 1..Len(items) : /\ n \in 1..Len(Append(items, item))
                               /\ Append(items, item)[n] = items[n]
  OBVIOUS
<1> QED BY <1>1, <1>2 DEF AsWritten, Position

(* What becomes of the queue that drops the replaced image.                *)
LEMMA LatestShape ==
  ASSUME NEW queue \in Seq(Note), NEW item
  PROVE  LET rest == Latest(queue, item) IN
         /\ rest \in Seq(Note) /\ Len(rest) <= Len(queue)
         /\ \/ /\ rest = queue
               /\ \A m \in DOMAIN queue : ~Superseded(queue[m], item)
            \/ \E at \in DOMAIN queue :
                 /\ Superseded(queue[at], item)
                 /\ Len(rest) = Len(queue) - 1
                 /\ \A m \in 1..Len(rest) :
                      rest[m] = IF m < at THEN queue[m] ELSE queue[m + 1]
<1> DEFINE old == {n \in DOMAIN queue : Superseded(queue[n], item)}
           at == CHOOSE n \in old : TRUE
<1>0. Len(queue) \in Nat /\ DOMAIN queue = 1..Len(queue)
  BY NoteFacts
<1> HIDE DEF old, at
<1>1. Latest(queue, item) \in Seq(Note) /\ Len(queue) \in Nat
      /\ DOMAIN queue = 1..Len(queue)
  <2>1. Latest(queue, item) \in Seq(Note)
    BY LatestType
  <2> QED BY <1>0, <2>1
<1> USE DEF old, at
<1>2. CASE old = {}
  <2>1. Latest(queue, item) = queue
    BY <1>2 DEF Latest
  <2>2. \A m \in DOMAIN queue : ~Superseded(queue[m], item)
    BY <1>2
  <2>3. Len(queue) <= Len(queue)
    BY ONLY <1>0
  <2> QED BY <1>1, <2>1, <2>2, <2>3
<1>3. CASE old # {}
  <2>1. at \in DOMAIN queue /\ Superseded(queue[at], item)
    BY <1>3
  <2>2. Latest(queue, item)
          = SubSeq(queue, 1, at - 1) \o SubSeq(queue, at + 1, Len(queue))
    BY <1>3 DEF Latest
  <2> HIDE DEF old, at
  <2> DEFINE a == SubSeq(queue, 1, at - 1)
             b == SubSeq(queue, at + 1, Len(queue))
  <2>3. /\ a \in Seq(Note) /\ Len(a) = at - 1
        /\ \A m \in 1..(at - 1) : a[m] = queue[m]
    BY <1>1, <2>1
  <2>4. /\ b \in Seq(Note) /\ Len(b) = Len(queue) - at
        /\ \A m \in 1..(Len(queue) - at) : b[m] = queue[at + m]
    BY <1>1, <2>1
  <2> HIDE DEF a, b
  <2>5. /\ Len(a \o b) = Len(queue) - 1
        /\ \A m \in 1..(Len(queue) - 1) :
             (a \o b)[m] = IF m < at THEN queue[m] ELSE queue[m + 1]
    <3>1. Len(a \o b) = Len(queue) - 1
      <4>1. Len(a \o b) = Len(a) + Len(b)
        BY <2>3, <2>4
      <4> QED BY <1>1, <2>1, <2>3, <2>4, <4>1
    <3>2. ASSUME NEW m \in 1..(Len(queue) - 1)
          PROVE  (a \o b)[m] = IF m < at THEN queue[m] ELSE queue[m + 1]
      <4>1. (a \o b)[m] = IF m <= Len(a) THEN a[m] ELSE b[m - Len(a)]
        BY <1>1, <2>1, <2>3, <2>4, <3>2
      <4>2. CASE m < at
        BY <1>1, <2>1, <2>3, <4>1, <4>2
      <4>3. CASE ~(m < at)
        <5>1. m - (at - 1) \in 1..(Len(queue) - at) /\ at + (m - (at - 1)) = m + 1
              /\ ~(m <= at - 1)
          BY <1>1, <2>1, <3>2, <4>3
        <5> QED BY <2>3, <2>4, <4>1, <4>3, <5>1
      <4> QED BY <4>2, <4>3
    <3> QED BY <3>1, <3>2
  <2>6. Latest(queue, item) = a \o b
    BY <2>2 DEF a, b
  <2>7. Len(queue) - 1 <= Len(queue)
    BY ONLY <1>0
  <2> QED BY <1>1, <2>1, <2>5, <2>6, <2>7, Zenon
<1> QED BY <1>2, <1>3

(* A written event is deferred, in place of an image it replaces.          *)
LEMMA WrittenIsDeferred ==
  ASSUME NEW now \in Seq(Note), NEW next \in Seq(Note), NEW r,
         NEW items \in Seq(Items), NEW item \in Items, NEW k \in 0..Len(items),
         Waits(now, next, r, items, FALSE, k), NEW note \in Note,
         note.kind = "event", note.turn = r, note.item = item,
         note.place = Len(items) + 1
  PROVE  Waits(now, Append(Latest(next, item), note), r, Append(items, item),
               FALSE, k)
<1> DEFINE more == Append(items, item)
           rest == Latest(next, item)
           q == Append(rest, note)
           n == Len(next)
<1>1. /\ Len(items) \in Nat /\ more \in Seq(Items) /\ Len(more) = Len(items) + 1
      /\ more[Len(items) + 1] = item
      /\ n \in Nat /\ DOMAIN next = 1..n /\ k \in 0..Len(items)
  BY NoteFacts
<1>2. /\ AsWritten(now, r, items, FALSE) /\ AsWritten(next, r, items, FALSE)
      /\ Ascending(now, items) /\ Ascending(next, items)
      /\ Before(now, next, items)
      /\ Beyond(now, k, items) /\ Beyond(next, k, items)
  BY DEF Waits
<1>3. /\ AsWritten(now, r, more, FALSE) /\ AsWritten(next, r, more, FALSE)
      /\ \A i \in DOMAIN now : /\ now[i].kind = "event"
                               /\ Position(now[i], items) = now[i].place
                               /\ Position(now[i], more) = now[i].place
                               /\ now[i].place \in 1..Len(items)
      /\ \A i \in DOMAIN next : /\ next[i].kind = "event"
                                /\ Position(next[i], items) = next[i].place
                                /\ Position(next[i], more) = next[i].place
                                /\ next[i].place \in 1..Len(items)
  <2>1. /\ AsWritten(now, r, more, FALSE) /\ AsWritten(next, r, more, FALSE)
        /\ \A i \in DOMAIN now : /\ now[i].kind = "event"
                                 /\ Position(now[i], items) = now[i].place
                                 /\ Position(now[i], more) = now[i].place
        /\ \A i \in DOMAIN next : /\ next[i].kind = "event"
                                  /\ Position(next[i], items) = next[i].place
                                  /\ Position(next[i], more) = next[i].place
    BY <1>2, WrittenStays
  <2>2. /\ \A i \in DOMAIN now : now[i].place \in 1..Len(items)
        /\ \A i \in DOMAIN next : next[i].place \in 1..Len(items)
    BY <1>2, <2>1 DEF AsWritten
  <2> QED BY <2>1, <2>2
<1>4. Position(note, more) = Len(items) + 1
  BY DEF Position
<1>5. rest \in Seq(Note) /\ Len(rest) \in Nat /\ DOMAIN rest = 1..Len(rest)
  BY LatestShape
<1>6. \A i \in 1..Len(rest) : \E j \in 1..n :
        /\ rest[i] = next[j]
        /\ \A h \in 1..Len(rest) : i < h =>
             \E m \in 1..n : j < m /\ rest[h] = next[m]
  <2>1. CASE rest = next
    BY <1>1, <2>1
  <2>2. CASE \E at \in DOMAIN next :
               /\ Superseded(next[at], item)
               /\ Len(rest) = n - 1
               /\ \A m \in 1..Len(rest) :
                    rest[m] = IF m < at THEN next[m] ELSE next[m + 1]
    <3> PICK at \in DOMAIN next :
               /\ Len(rest) = n - 1
               /\ \A m \in 1..Len(rest) :
                    rest[m] = IF m < at THEN next[m] ELSE next[m + 1]
      BY <2>2
    <3> DEFINE to(m) == IF m < at THEN m ELSE m + 1
    <3>1. \A m \in 1..Len(rest) : to(m) \in 1..n /\ rest[m] = next[to(m)]
      BY <1>1
    <3>2. \A i, h \in 1..Len(rest) : i < h => to(i) < to(h)
      BY <1>1
    <3> HIDE DEF to
    <3> QED BY <3>1, <3>2
  <2> HIDE DEF rest
  <2> QED BY <2>1, <2>2, LatestShape DEF rest
<1>7. \A x \in EventPlaces(next) : x \in EventPlaces(rest) \/ Supplanted(more, x)
  <2> SUFFICES ASSUME NEW x \in EventPlaces(next), ~Supplanted(more, x)
               PROVE  x \in EventPlaces(rest)
    OBVIOUS
  <2>3. PICK j \in 1..n : next[j].kind = "event" /\ next[j].place = x
    BY <1>1 DEF EventPlaces
  <2> SUFFICES \E i \in 1..Len(rest) : rest[i] = next[j]
    <3>1. ASSUME NEW i \in 1..Len(rest), rest[i] = next[j]
          PROVE  x \in EventPlaces(rest)
      BY <1>5, <2>3, <3>1 DEF EventPlaces
    <3> QED BY <3>1
  <2>1. CASE rest = next
    BY <2>1
  <2>2. CASE \E at \in DOMAIN next :
               /\ Superseded(next[at], item)
               /\ Len(rest) = n - 1
               /\ \A m \in 1..Len(rest) :
                    rest[m] = IF m < at THEN next[m] ELSE next[m + 1]
    <3> PICK at \in DOMAIN next :
               /\ Superseded(next[at], item)
               /\ Len(rest) = n - 1
               /\ \A m \in 1..Len(rest) :
                    rest[m] = IF m < at THEN next[m] ELSE next[m + 1]
      BY <2>2
    <3>1. Supplanted(more, next[at].place)
      <4>1. /\ next[at].place \in 1..Len(items)
            /\ items[next[at].place] = next[at].item
            /\ item.kind = "image" /\ next[at].item.kind = "image"
            /\ next[at].item.id = item.id
        BY <1>2, <1>3 DEF AsWritten, Superseded
      <4> QED BY <4>1, SupplantedStays
    <3>2. CASE j = at
      BY <2>3, <3>1, <3>2
    <3>3. CASE j < at
      <4>1. j \in 1..Len(rest) /\ rest[j] = next[j]
        BY <1>1, <3>3
      <4> QED BY <4>1
    <3>4. CASE at < j
      <4>1. j - 1 \in 1..Len(rest) /\ ~(j - 1 < at) /\ (j - 1) + 1 = j
        BY <1>1, <3>4
      <4>2. rest[j - 1] = next[j]
        BY <4>1
      <4> QED BY <4>1, <4>2
    <3> QED BY <1>1, <3>2, <3>3, <3>4
  <2> HIDE DEF rest
  <2> QED BY <2>1, <2>2, LatestShape DEF rest
<1> HIDE DEF rest
<1>8. /\ q \in Seq(Note) /\ Len(q) = Len(rest) + 1 /\ DOMAIN q = 1..(Len(rest) + 1)
      /\ \A i \in 1..Len(rest) : q[i] = rest[i]
      /\ q[Len(rest) + 1] = note
  BY <1>5
<1> HIDE DEF q, more
<1>9. \A i \in DOMAIN q : \/ i \in 1..Len(rest) /\ \E j \in DOMAIN next : q[i] = next[j]
                          \/ i = Len(rest) + 1 /\ q[i] = note
  <2> SUFFICES ASSUME NEW i \in DOMAIN q, i # Len(rest) + 1
               PROVE  i \in 1..Len(rest) /\ \E j \in DOMAIN next : q[i] = next[j]
    BY <1>8
  <2>1. i \in 1..Len(rest)
    BY <1>5, <1>8
  <2> QED BY <1>1, <1>6, <1>8, <2>1
<1>10. AsWritten(q, r, more, FALSE)
  <2>1. Len(items) + 1 \in 1..Len(more)
    BY <1>1
  <2> QED BY <1>1, <1>3, <1>9, <2>1 DEF AsWritten
<1>11. Ascending(q, more)
  <2> SUFFICES ASSUME NEW i \in DOMAIN q, NEW h \in DOMAIN q, i < h
               PROVE  Position(q[i], more) < Position(q[h], more)
    BY DEF Ascending
  <2>1. i \in 1..Len(rest) /\ q[i] = rest[i]
    BY <1>5, <1>8
  <2>2. PICK j \in 1..n : /\ rest[i] = next[j]
                          /\ \A g \in 1..Len(rest) : i < g =>
                               \E m \in 1..n : j < m /\ rest[g] = next[m]
    BY <1>6, <2>1
  <2>3. CASE h = Len(rest) + 1
    <3>1. Position(q[i], more) \in 1..Len(items)
      <4>1. q[i] = next[j] /\ j \in DOMAIN next
        BY <1>1, <2>1, <2>2
      <4> QED BY ONLY <1>3, <4>1
    <3>2. Position(q[h], more) = Len(items) + 1
      BY <1>4, <1>8, <2>3
    <3> QED BY <1>1, <3>1, <3>2
  <2>4. CASE h # Len(rest) + 1
    <3>1. h \in 1..Len(rest) /\ q[h] = rest[h]
      BY <1>5, <1>8, <2>4
    <3>2. PICK m \in 1..n : j < m /\ rest[h] = next[m]
      BY <2>2, <3>1
    <3>3. /\ Position(next[j], items) < Position(next[m], items)
          /\ j \in DOMAIN next /\ m \in DOMAIN next
      BY <1>1, <1>2, <3>2 DEF Ascending
    <3>4. q[i] = next[j] /\ q[h] = next[m]
      BY <2>1, <2>2, <3>1, <3>2
    <3>5. /\ Position(next[j], more) = Position(next[j], items)
          /\ Position(next[m], more) = Position(next[m], items)
      BY ONLY <1>3, <3>3
    <3> QED BY ONLY <3>3, <3>4, <3>5
  <2> QED BY <2>3, <2>4
<1>12. Ascending(now, more)
  BY <1>2, <1>3 DEF Ascending
<1>13. Before(now, q, more)
  <2> SUFFICES ASSUME NEW i \in DOMAIN now, NEW h \in DOMAIN q
               PROVE  Position(now[i], more) < Position(q[h], more)
    BY DEF Before
  <2>1. CASE q[h] = note
    <3>1. Position(now[i], more) \in 1..Len(items)
      BY <1>3
    <3> QED BY <1>1, <1>4, <2>1, <3>1
  <2>2. CASE \E j \in DOMAIN next : q[h] = next[j]
    BY <1>2, <1>3, <2>2 DEF Before
  <2> QED BY <1>9, <2>1, <2>2
<1>14. Beyond(now, k, more) /\ Beyond(q, k, more)
  <2>1. k < Len(items) + 1
    BY <1>1
  <2>2. Beyond(now, k, more)
    BY <1>2, <1>3 DEF Beyond
  <2>3. \A i \in DOMAIN q : k < Position(q[i], more)
    BY <1>2, <1>3, <1>4, <1>9, <2>1 DEF Beyond
  <2> QED BY <2>2, <2>3 DEF Beyond
<1>15. ASSUME NEW x \in (k + 1)..Len(more), ~Supplanted(more, x)
       PROVE  x \in EventPlaces(now) \cup EventPlaces(q)
  <2>1. CASE x = Len(items) + 1
    <3>1. Len(rest) + 1 \in DOMAIN q
      BY <1>5, <1>8
    <3> QED BY <1>8, <2>1, <3>1 DEF EventPlaces
  <2>2. CASE x # Len(items) + 1
    <3>1. x \in (k + 1)..Len(items) /\ x \in 1..Len(items)
      BY <1>1, <2>2
    <3>2. ~Supplanted(items, x)
      BY <1>15, <3>1, SupplantedStays DEF more
    <3>3. x \in EventPlaces(now) \/ x \in EventPlaces(next)
      BY <3>1, <3>2 DEF Waits
    <3>4. \A y \in EventPlaces(rest) : y \in EventPlaces(q)
      <4>1. \A i \in DOMAIN rest : i \in DOMAIN q /\ q[i] = rest[i]
        BY <1>5, <1>8
      <4> QED BY <4>1 DEF EventPlaces
    <3> QED BY <1>7, <1>15, <3>3, <3>4
  <2> QED BY <2>1, <2>2
<1> QED BY <1>3, <1>10, <1>11, <1>12, <1>13, <1>14, <1>15 DEF Waits, q, more, rest

(* So is the terminal, behind every event.                                 *)
LEMMA TerminalIsDeferred ==
  ASSUME NEW now \in Seq(Note), NEW next \in Seq(Note), NEW r,
         NEW items \in Seq(Items), NEW k \in 0..Len(items),
         Waits(now, next, r, items, FALSE, k),
         NEW note \in Note, note.kind = "terminal", note.turn = r
  PROVE  Waits(now, Append(next, note), r, items, TRUE, k)
<1> DEFINE q == Append(next, note)
<1>1. /\ Len(next) \in Nat /\ Len(items) \in Nat /\ DOMAIN next = 1..Len(next)
      /\ DOMAIN q = 1..(Len(next) + 1) /\ q[Len(next) + 1] = note
      /\ \A i \in 1..Len(next) : q[i] = next[i]
      /\ k \in 0..Len(items)
  BY NoteFacts
<1> HIDE DEF q
<1>2. /\ AsWritten(now, r, items, FALSE) /\ AsWritten(next, r, items, FALSE)
      /\ Ascending(now, items) /\ Ascending(next, items)
      /\ Before(now, next, items)
      /\ Beyond(now, k, items) /\ Beyond(next, k, items)
  BY DEF Waits
<1>3. /\ \A i \in DOMAIN now : now[i].kind = "event"
                               /\ Position(now[i], items) \in 1..Len(items)
      /\ \A i \in DOMAIN next : next[i].kind = "event"
                                /\ Position(next[i], items) \in 1..Len(items)
  BY <1>2, NoteFacts DEF AsWritten, Position
<1>4. Position(note, items) = Len(items) + 1
  BY DEF Position
<1>5. \A i \in DOMAIN q : \/ i \in DOMAIN next /\ q[i] = next[i]
                          \/ i = Len(next) + 1 /\ q[i] = note
  BY <1>1
<1>6. AsWritten(now, r, items, TRUE) /\ AsWritten(q, r, items, TRUE)
  BY <1>2, <1>5 DEF AsWritten
<1>7. Ascending(q, items)
  <2> SUFFICES ASSUME NEW i \in DOMAIN q, NEW j \in DOMAIN q, i < j
               PROVE  Position(q[i], items) < Position(q[j], items)
    BY DEF Ascending
  <2>1. i \in DOMAIN next /\ q[i] = next[i]
    BY <1>1, <1>5
  <2>2. CASE j \in DOMAIN next /\ q[j] = next[j]
    BY <1>2, <2>1, <2>2 DEF Ascending
  <2>3. CASE q[j] = note
    <3>1. Position(next[i], items) \in 1..Len(items)
      BY <1>3, <2>1
    <3> QED BY <1>1, <1>4, <2>1, <2>3, <3>1
  <2> QED BY <1>5, <2>2, <2>3
<1>8. Before(now, q, items)
  <2> SUFFICES ASSUME NEW i \in DOMAIN now, NEW j \in DOMAIN q
               PROVE  Position(now[i], items) < Position(q[j], items)
    BY DEF Before
  <2>1. CASE j \in DOMAIN next /\ q[j] = next[j]
    BY <1>2, <2>1 DEF Before
  <2>2. CASE q[j] = note
    <3>1. Position(now[i], items) \in 1..Len(items)
      BY <1>3
    <3> QED BY <1>1, <1>4, <2>2, <3>1
  <2> QED BY <1>5, <2>1, <2>2
<1>9. Beyond(q, k, items)
  <2>1. k < Len(items) + 1
    BY <1>1
  <2> QED BY <1>2, <1>4, <1>5, <2>1 DEF Beyond
<1>10. \A x \in EventPlaces(next) : x \in EventPlaces(q)
  <2>1. \A i \in DOMAIN next : i \in DOMAIN q /\ q[i] = next[i]
    BY <1>1
  <2> QED BY <2>1 DEF EventPlaces
<1> QED BY <1>2, <1>6, <1>7, <1>8, <1>9, <1>10 DEF Waits, q

(* Of an image that was seen the latest one is what the counters hold.     *)
LEMMA LatestIsUpToDate ==
  ASSUME NEW items \in Seq(Items), NEW seen, NEW images \in [ImageIds -> Nat],
         seen \subseteq 1..Len(items), UpToDate(images, seen, items),
         \A n \in 1..Len(items) : Supplanted(items, n) \/ n \in seen
  PROVE  images = LatestImages(items)
<1>1. Len(items) \in Nat /\ DOMAIN items = 1..Len(items)
  OBVIOUS
<1>2. ASSUME NEW i \in ImageIds
      PROVE  images[i] = LatestImages(items)[i]
  <2> DEFINE places == {n \in DOMAIN items : items[n].kind = "image"
                                             /\ items[n].id = i}
             last == CHOOSE n \in places : \A m \in places : m <= n
  <2>1. LatestImages(items)[i] = IF places = {} THEN 0 ELSE items[last].size
    BY DEF LatestImages
  <2>2. CASE places = {}
    <3>1. images[i] = 0
      BY <1>1, <2>2 DEF UpToDate, IsImage
    <3> QED BY <2>1, <2>2, <3>1
  <2>3. CASE places # {}
    <3>1. \E n \in places : \A m \in places : m <= n
      BY <1>1, <2>3, GreatestMember
    <3>2. last \in places /\ \A m \in places : m <= last
      BY <3>1
    <3> HIDE DEF last
    <3>3. last \in 1..Len(items) /\ IsImage(items, last, i)
      BY <1>1, <3>2 DEF IsImage
    <3>4. ~Supplanted(items, last)
      <4>1. ASSUME Supplanted(items, last) PROVE FALSE
        <5>1. PICK m \in (last + 1)..Len(items) :
                items[m].kind = "image" /\ items[m].id = items[last].id
          BY <4>1 DEF Supplanted
        <5>2. m \in places /\ ~(m <= last)
          BY <1>1, <3>3, <5>1 DEF IsImage
        <5> QED BY <3>2, <5>2
      <4> QED BY <4>1
    <3>5. last \in seen
      BY <3>3, <3>4
    <3>6. PICK x \in seen : /\ IsImage(items, x, i)
                            /\ images[i] = items[x].size
                            /\ \A y \in seen : IsImage(items, y, i) => y <= x
      BY <3>3, <3>5 DEF UpToDate
    <3>7. x \in places /\ x \in Nat /\ last \in Nat
      BY <1>1, <3>3, <3>6 DEF IsImage
    <3>8. last <= x /\ x <= last
      BY <3>2, <3>3, <3>5, <3>6, <3>7
    <3>9. x = last
      BY <3>7, <3>8
    <3> QED BY <2>1, <2>3, <3>6, <3>9
  <2> QED BY <2>2, <2>3
<1>3. LatestImages(items) = [i \in ImageIds |-> LatestImages(items)[i]]
  BY DEF LatestImages
<1> QED BY <1>2, <1>3

(* When the terminal is replayed nothing of the turn is missing.           *)
LEMMA TerminalCompletes ==
  ASSUME NEW seen, NEW items \in Seq(Items), NEW k, NEW text,
         NEW images \in [ImageIds -> Nat], NEW now \in Seq(Note),
         NEW next \in Seq(Note), NEW r, NEW over,
         PassedOn(seen, items, k, text, images),
         Waits(now, next, r, items, over, k),
         now # <<>>, Head(now).kind = "terminal"
  PROVE  /\ over /\ Head(now).turn = r
         /\ text = TextOf(items) /\ images = LatestImages(items)
         /\ \A n \in DOMAIN items : Supplanted(items, n) \/ n \in seen
<1>1. /\ Len(now) \in Nat /\ 1 \in DOMAIN now /\ Head(now) = now[1]
      /\ DOMAIN now = 1..Len(now) /\ Len(items) \in Nat
      /\ DOMAIN items = 1..Len(items)
  BY NoteFacts
<1>2. /\ AsWritten(now, r, items, over) /\ AsWritten(next, r, items, over)
      /\ Ascending(now, items) /\ Before(now, next, items)
  BY DEF Waits
<1>3. over /\ Head(now).turn = r /\ Position(now[1], items) = Len(items) + 1
  BY <1>1, <1>2 DEF AsWritten, Position
<1>4. EventPlaces(now) = {}
  <2>1. ASSUME NEW i \in DOMAIN now, now[i].kind = "event" PROVE FALSE
    <3>1. Position(now[i], items) \in 1..Len(items)
      BY <1>2, <2>1 DEF AsWritten, Position
    <3>2. i # 1 /\ 1 < i
      BY <1>1, <2>1
    <3>3. Position(now[1], items) < Position(now[i], items)
      BY <1>1, <1>2, <3>2 DEF Ascending
    <3> QED BY <1>1, <1>3, <3>1, <3>3
  <2> QED BY <2>1 DEF EventPlaces
<1>5. EventPlaces(next) = {}
  <2>1. ASSUME NEW i \in DOMAIN next, next[i].kind = "event" PROVE FALSE
    <3>1. Position(next[i], items) \in 1..Len(items)
      BY <1>2, <2>1 DEF AsWritten, Position
    <3>2. Position(now[1], items) < Position(next[i], items)
      BY <1>1, <1>2 DEF Before
    <3> QED BY <1>1, <1>3, <3>1, <3>2
  <2> QED BY <2>1 DEF EventPlaces
<1>6. \A n \in (k + 1)..Len(items) : Supplanted(items, n)
  BY <1>4, <1>5 DEF Waits
<1>7. /\ seen \subseteq 1..k /\ k \in 0..Len(items)
      /\ \A n \in 1..k : Supplanted(items, n) \/ n \in seen
      /\ text = TextUpTo(items, k) /\ UpToDate(images, seen, items)
  BY DEF PassedOn
<1>8. \A n \in 1..Len(items) : Supplanted(items, n) \/ n \in seen
  <2>1. \A n \in 1..Len(items) : n \in 1..k \/ n \in (k + 1)..Len(items)
    BY <1>1, <1>7
  <2> QED BY <1>6, <1>7, <2>1
<1>9. text = TextOf(items)
  <2>1. Len(items) \in k..Len(items)
    BY <1>1, <1>7
  <2>2. TextUpTo(items, Len(items)) = TextUpTo(items, k)
    BY <1>6, <1>7, <2>1, SkippedHaveNoText
  <2>3. TextUpTo(items, Len(items)) = TextOf(items)
    BY ItemsTyped, TextGrows
  <2> QED BY <1>7, <2>2, <2>3
<1>10. images = LatestImages(items)
  <2>1. seen \subseteq 1..Len(items)
    BY <1>1, <1>7
  <2> QED BY <1>7, <1>8, <2>1, LatestIsUpToDate
<1> QED BY <1>1, <1>3, <1>8, <1>9, <1>10

-----------------------------------------------------------------------------
(* What the consumer of a turn has: events of this turn, in the order they *)
(* were written, with no gap but for replaced images.                      *)
Streamed(notes, r, items) ==
  /\ \A i \in DOMAIN notes :
       notes[i].turn = r /\ notes[i].place \in 1..Len(items)
  /\ \A i, j \in DOMAIN notes : i < j => notes[i].place < notes[j].place
  /\ \A x \in Places(notes) : \A n \in 1..(x - 1) :
       Supplanted(items, n) \/ n \in Places(notes)

(* Taking the head of one sequence to the end of another.                  *)
LEMMA MoveHead ==
  ASSUME NEW S, NEW a \in Seq(S), NEW b \in Seq(S), b # <<>>
  PROVE  Append(a, Head(b)) \o Tail(b) = a \o b
OBVIOUS

(* Appending to the later of two queues.                                   *)
LEMMA AppendLater ==
  ASSUME NEW S, NEW a \in Seq(S), NEW b \in Seq(S), NEW x \in S
  PROVE  a \o Append(b, x) = Append(a \o b, x)
OBVIOUS

(* What was delivered stays so when more is written.                       *)
LEMMA StreamedStays ==
  ASSUME NEW notes \in Seq(EventNote), NEW r, NEW items \in Seq(Items),
         NEW item \in Items, Streamed(notes, r, items)
  PROVE  Streamed(notes, r, Append(items, item))
<1> DEFINE more == Append(items, item)
<1>1. /\ Len(items) \in Nat /\ Len(more) = Len(items) + 1
      /\ \A n \in 1..Len(items) : Supplanted(items, n) => Supplanted(more, n)
  BY SupplantedStays
<1> HIDE DEF more
<1>2. /\ \A i \in DOMAIN notes :
           notes[i].turn = r /\ notes[i].place \in 1..Len(items)
      /\ \A i, j \in DOMAIN notes : i < j => notes[i].place < notes[j].place
      /\ \A x \in Places(notes) : \A n \in 1..(x - 1) :
           Supplanted(items, n) \/ n \in Places(notes)
  BY DEF Streamed
<1>3. \A x \in Places(notes) : x \in 1..Len(items)
  BY <1>2 DEF Places
<1>4. ASSUME NEW x \in Places(notes), NEW n \in 1..(x - 1)
      PROVE  Supplanted(more, n) \/ n \in Places(notes)
  <2>1. n \in 1..Len(items)
    BY <1>1, <1>3
  <2> QED BY <1>1, <1>2, <2>1
<1>5. \A i \in DOMAIN notes : notes[i].turn = r /\ notes[i].place \in 1..Len(more)
  BY <1>1, <1>2
<1> QED BY <1>2, <1>4, <1>5 DEF Streamed, more

(* The next event in line is delivered.                                    *)
LEMMA StreamedGrows ==
  ASSUME NEW notes \in Seq(EventNote), NEW note \in EventNote, NEW r,
         NEW items \in Seq(Items), NEW text, NEW images, NEW k,
         Streamed(notes, r, items), note.turn = r,
         PassedOn(Places(notes), items, k, text, images),
         note.place \in (k + 1)..Len(items),
         \A n \in 1..note.place :
           Supplanted(items, n) \/ n \in Places(notes) \cup {note.place}
  PROVE  /\ Streamed(Append(notes, note), r, items)
         /\ Places(Append(notes, note)) = Places(notes) \cup {note.place}
<1> DEFINE q == Append(notes, note)
           x == note.place
<1>1. /\ Len(notes) \in Nat /\ DOMAIN notes = 1..Len(notes)
      /\ DOMAIN q = 1..(Len(notes) + 1) /\ q[Len(notes) + 1] = note
      /\ \A i \in 1..Len(notes) : q[i] = notes[i]
  OBVIOUS
<1>2. \A i \in DOMAIN q : \/ i \in DOMAIN notes /\ q[i] = notes[i]
                          \/ i = Len(notes) + 1 /\ q[i] = note
  BY <1>1
<1> HIDE DEF q
<1>3. Len(items) \in Nat /\ k \in Nat /\ x \in 1..Len(items) /\ k < x
  BY DEF PassedOn
<1>4. Places(q) = Places(notes) \cup {x}
  <2>1. \A i \in DOMAIN notes : i \in DOMAIN q /\ q[i] = notes[i]
    BY <1>1
  <2>2. Len(notes) + 1 \in DOMAIN q
    BY <1>1
  <2> QED BY <1>1, <1>2, <2>1, <2>2 DEF Places
<1>5. \A y \in Places(notes) : y \in 1..k
  BY DEF PassedOn
<1>6. \A i \in DOMAIN notes : notes[i].place \in 1..k
  BY <1>5 DEF Places
<1>7. \A i, j \in DOMAIN q : i < j => q[i].place < q[j].place
  <2> SUFFICES ASSUME NEW i \in DOMAIN q, NEW j \in DOMAIN q, i < j
               PROVE  q[i].place < q[j].place
    OBVIOUS
  <2>1. i \in DOMAIN notes /\ q[i] = notes[i]
    BY <1>1, <1>2
  <2>2. CASE j \in DOMAIN notes /\ q[j] = notes[j]
    BY <2>1, <2>2 DEF Streamed
  <2>3. CASE q[j] = note
    BY <1>3, <1>6, <2>1, <2>3
  <2> QED BY <1>2, <2>2, <2>3
<1>8. \A i \in DOMAIN q : q[i].turn = r /\ q[i].place \in 1..Len(items)
  BY <1>2, <1>3 DEF Streamed
<1>9. \A y \in Places(q) : \A n \in 1..(y - 1) :
        Supplanted(items, n) \/ n \in Places(q)
  <2> SUFFICES ASSUME NEW y \in Places(q), NEW n \in 1..(y - 1)
               PROVE  Supplanted(items, n) \/ n \in Places(q)
    OBVIOUS
  <2>1. n \in 1..x
    BY <1>3, <1>4, <1>5
  <2> QED BY <1>4, <2>1
<1> QED BY <1>4, <1>7, <1>8, <1>9 DEF Streamed, q

-----------------------------------------------------------------------------
(* The deferred images and the counters kept of them.                      *)
ImagesIn(notes, i) ==
  {n \in DOMAIN notes : /\ notes[n].kind = "event"
                        /\ notes[n].item.kind = "image"
                        /\ notes[n].item.id = i}
Counted(notes, sizes) == \A i \in ImageIds :
  /\ \A n, m \in ImagesIn(notes, i) : n = m
  /\ sizes[i] # 0 <=> ImagesIn(notes, i) # {}
  /\ \A n \in ImagesIn(notes, i) : notes[n].item.size = sizes[i]

(* An empty queue counts no images.                                        *)
LEMMA NoneCounted == Counted(<<>>, NoImages)
BY DEF Counted, ImagesIn, NoImages

(* A notification that is no image changes nothing.                        *)
LEMMA CountedGrows ==
  ASSUME NEW notes \in Seq(Note), NEW sizes, Counted(notes, sizes),
         NEW note \in Note, note.kind = "event" => note.item.kind # "image"
  PROVE  Counted(Append(notes, note), sizes)
<1> DEFINE q == Append(notes, note)
<1>1. /\ Len(notes) \in Nat /\ DOMAIN notes = 1..Len(notes)
      /\ DOMAIN q = 1..(Len(notes) + 1) /\ q[Len(notes) + 1] = note
      /\ \A n \in 1..Len(notes) : q[n] = notes[n]
  OBVIOUS
<1> HIDE DEF q
<1>2. ASSUME NEW i \in ImageIds
      PROVE  /\ ImagesIn(q, i) = ImagesIn(notes, i)
             /\ \A n \in ImagesIn(notes, i) : q[n] = notes[n]
  <2>1. \A n \in DOMAIN q : n \in DOMAIN notes \/ n = Len(notes) + 1
    BY <1>1
  <2>2. ASSUME NEW n \in ImagesIn(q, i) PROVE n \in ImagesIn(notes, i)
    BY <1>1, <2>1, <2>2 DEF ImagesIn
  <2>3. ASSUME NEW n \in ImagesIn(notes, i)
        PROVE  n \in ImagesIn(q, i) /\ q[n] = notes[n]
    <3>1. n \in 1..Len(notes) /\ n \in DOMAIN q
      BY <1>1, <2>3 DEF ImagesIn
    <3> QED BY <1>1, <2>3, <3>1 DEF ImagesIn
  <2> QED BY <2>2, <2>3
<1> QED BY <1>2 DEF Counted, q

(* A deferred image takes the place of the one it replaces.                *)
LEMMA CountedReplaces ==
  ASSUME NEW notes \in Seq(Note), NEW sizes \in [ImageIds -> Nat],
         Counted(notes, sizes), NEW note \in EventNote,
         note.item.kind = "image"
  PROVE  Counted(Append(Latest(notes, note.item), note),
                 [sizes EXCEPT ![note.item.id] = note.item.size])
<1> DEFINE item == note.item
           j == note.item.id
           rest == Latest(notes, item)
           q == Append(rest, note)
           now == [sizes EXCEPT ![j] = item.size]
           n == Len(notes)
<1>1. /\ note.kind = "event" /\ item \in Items /\ j \in ImageIds
      /\ item.size \in Nat /\ item.size # 0
  <2>1. item \in Items /\ note.kind = "event"
    BY DEF EventNote
  <2>2. item \in ItemType
    BY <2>1, ItemsAssumption
  <2>3. item.size # 0
    BY <2>2 DEF ItemType
  <2> QED BY <2>1, <2>3, ItemFacts
<1>2. /\ now[j] = item.size
      /\ \A i \in ImageIds : i # j => now[i] = sizes[i]
  BY <1>1
<1>3. n \in Nat /\ DOMAIN notes = 1..n
  OBVIOUS
<1>4. /\ rest \in Seq(Note)
      /\ \/ rest = notes /\ ImagesIn(notes, j) = {}
         \/ \E at \in 1..n :
              /\ at \in ImagesIn(notes, j)
              /\ Len(rest) = n - 1
              /\ \A m \in 1..Len(rest) :
                   rest[m] = IF m < at THEN notes[m] ELSE notes[m + 1]
  <2>1. \A m \in DOMAIN notes :
          Superseded(notes[m], item) <=> m \in ImagesIn(notes, j)
    BY DEF Superseded, ImagesIn
  <2>2. ImagesIn(notes, j) \subseteq DOMAIN notes
    BY DEF ImagesIn
  <2> HIDE DEF item, j, rest
  <2>3. /\ rest \in Seq(Note)
        /\ \/ /\ rest = notes
              /\ \A m \in DOMAIN notes : ~Superseded(notes[m], item)
           \/ \E at \in DOMAIN notes :
                /\ Superseded(notes[at], item)
                /\ Len(rest) = n - 1
                /\ \A m \in 1..Len(rest) :
                     rest[m] = IF m < at THEN notes[m] ELSE notes[m + 1]
    BY LatestShape DEF rest
  <2>4. CASE /\ rest = notes
             /\ \A m \in DOMAIN notes : ~Superseded(notes[m], item)
    BY <2>1, <2>2, <2>3, <2>4
  <2>5. CASE \E at \in DOMAIN notes :
                /\ Superseded(notes[at], item)
                /\ Len(rest) = n - 1
                /\ \A m \in 1..Len(rest) :
                     rest[m] = IF m < at THEN notes[m] ELSE notes[m + 1]
    BY <1>3, <2>1, <2>3, <2>5
  <2> QED BY <2>3, <2>4, <2>5
<1>5. /\ \A n1, n2 \in ImagesIn(notes, j) : n1 = n2
      /\ \A i \in ImageIds :
           /\ \A n1, n2 \in ImagesIn(notes, i) : n1 = n2
           /\ sizes[i] # 0 <=> ImagesIn(notes, i) # {}
           /\ \A m \in ImagesIn(notes, i) : notes[m].item.size = sizes[i]
  BY <1>1 DEF Counted
<1> HIDE DEF rest, now
(* Each image of the shortened queue is one of the queue's, and no other   *)
(* than the replaced one is gone.                                          *)
<1>6. ASSUME NEW i \in ImageIds
      PROVE  /\ \A a, b \in ImagesIn(rest, i) : a = b
             /\ i = j => ImagesIn(rest, i) = {}
             /\ i # j => (ImagesIn(rest, i) # {} <=> ImagesIn(notes, i) # {})
             /\ \A a \in ImagesIn(rest, i) : rest[a].item.size = sizes[i]
  <2>1. CASE rest = notes /\ ImagesIn(notes, j) = {}
    BY <1>5, <2>1
  <2>2. ASSUME NEW at \in 1..n, at \in ImagesIn(notes, j), Len(rest) = n - 1,
               \A m \in 1..Len(rest) :
                 rest[m] = IF m < at THEN notes[m] ELSE notes[m + 1]
        PROVE  /\ \A a, b \in ImagesIn(rest, i) : a = b
               /\ i = j => ImagesIn(rest, i) = {}
               /\ i # j => (ImagesIn(rest, i) # {} <=> ImagesIn(notes, i) # {})
               /\ \A a \in ImagesIn(rest, i) : rest[a].item.size = sizes[i]
    <3> DEFINE old(a) == IF a < at THEN a ELSE a + 1
    <3>1. DOMAIN rest = 1..(n - 1)
      BY <1>3, <1>4, <2>2
    <3>2. ASSUME NEW a \in 1..(n - 1)
          PROVE  /\ old(a) \in 1..n /\ old(a) # at /\ rest[a] = notes[old(a)]
                 /\ a \in ImagesIn(rest, i) <=> old(a) \in ImagesIn(notes, i)
      <4>1. old(a) \in 1..n /\ old(a) # at
        BY <1>3
      <4>2. rest[a] = notes[old(a)]
        BY <1>3, <2>2
      <4> HIDE DEF old
      <4> QED BY <1>3, <3>1, <4>1, <4>2 DEF ImagesIn
    <3>3. \A a, b \in 1..(n - 1) : old(a) = old(b) => a = b
      BY <1>3
    <3>4. ASSUME NEW m \in 1..n, m # at
          PROVE  \E a \in 1..(n - 1) : old(a) = m
      <4>1. CASE m < at
        BY <1>3, <4>1
      <4>2. CASE at < m
        <5>1. m - 1 \in 1..(n - 1) /\ old(m - 1) = m
          BY <1>3, <4>2
        <5> QED BY <5>1
      <4> QED BY <1>3, <3>4, <4>1, <4>2
    <3> HIDE DEF old
    <3>5. ImagesIn(rest, i) \subseteq 1..(n - 1)
          /\ ImagesIn(notes, i) \subseteq 1..n
      BY <1>3, <3>1 DEF ImagesIn
    <3>6. \A a, b \in ImagesIn(rest, i) : a = b
      BY <1>5, <3>2, <3>3, <3>5
    <3>7. i = j => ImagesIn(rest, i) = {}
      <4> SUFFICES ASSUME i = j, NEW a \in ImagesIn(rest, i) PROVE FALSE
        OBVIOUS
      <4>1. old(a) \in ImagesIn(notes, j) /\ old(a) # at
        BY <3>2, <3>5
      <4> QED BY <1>5, <2>2, <4>1
    <3>8. i # j => (ImagesIn(rest, i) # {} <=> ImagesIn(notes, i) # {})
      <4>1. ASSUME NEW a \in ImagesIn(rest, i) PROVE ImagesIn(notes, i) # {}
        BY <3>2, <3>5
      <4>2. ASSUME i # j, NEW m \in ImagesIn(notes, i)
            PROVE  ImagesIn(rest, i) # {}
        <5>1. m # at
          BY <2>2, <4>2 DEF ImagesIn
        <5>2. PICK a \in 1..(n - 1) : old(a) = m
          BY <3>4, <3>5, <5>1
        <5> QED BY <3>2, <5>2
      <4> QED BY <4>1, <4>2
    <3>9. \A a \in ImagesIn(rest, i) : rest[a].item.size = sizes[i]
      BY <1>5, <3>2, <3>5
    <3> QED BY <3>6, <3>7, <3>8, <3>9
  <2> QED BY <1>4, <2>1, <2>2
<1>7. /\ Len(rest) \in Nat /\ DOMAIN rest = 1..Len(rest)
      /\ DOMAIN q = 1..(Len(rest) + 1) /\ q[Len(rest) + 1] = note
      /\ \A m \in 1..Len(rest) : q[m] = rest[m]
  BY <1>4 DEF Note
<1> HIDE DEF q
<1>8. ASSUME NEW i \in ImageIds
      PROVE  /\ \A m \in ImagesIn(q, i) :
                  \/ m \in ImagesIn(rest, i) /\ q[m] = rest[m]
                  \/ i = j /\ m = Len(rest) + 1 /\ q[m] = note
             /\ ImagesIn(rest, i) \subseteq ImagesIn(q, i)
             /\ i = j => Len(rest) + 1 \in ImagesIn(q, i)
  <2>1. \A m \in DOMAIN q : m \in DOMAIN rest \/ m = Len(rest) + 1
    BY <1>7
  <2>2. ASSUME NEW m \in ImagesIn(q, i)
        PROVE  \/ m \in ImagesIn(rest, i) /\ q[m] = rest[m]
               \/ i = j /\ m = Len(rest) + 1 /\ q[m] = note
    BY <1>7, <2>1, <2>2 DEF ImagesIn
  <2>3. ASSUME NEW m \in ImagesIn(rest, i) PROVE m \in ImagesIn(q, i)
    <3>1. m \in 1..Len(rest) /\ m \in DOMAIN q
      BY <1>7, <2>3 DEF ImagesIn
    <3> QED BY <1>7, <2>3, <3>1 DEF ImagesIn
  <2>4. i = j => Len(rest) + 1 \in ImagesIn(q, i)
    <3>1. Len(rest) + 1 \in DOMAIN q
      BY <1>7
    <3> QED BY <1>1, <1>7, <3>1 DEF ImagesIn
  <2> QED BY <2>2, <2>3, <2>4
<1>9. ASSUME NEW i \in ImageIds
      PROVE  /\ \A a, b \in ImagesIn(q, i) : a = b
             /\ now[i] # 0 <=> ImagesIn(q, i) # {}
             /\ \A a \in ImagesIn(q, i) : q[a].item.size = now[i]
  <2>1. CASE i = j
    BY <1>1, <1>2, <1>6, <1>8, <2>1
  <2>2. CASE i # j
    BY <1>2, <1>5, <1>6, <1>8, <2>2
  <2> QED BY <2>1, <2>2
<1> QED BY <1>9 DEF Counted, q, rest, now
=============================================================================
