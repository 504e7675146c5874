----------------------------- MODULE TillProofs -----------------------------
(***************************************************************************)
(* Proofs about the money of a club, for any number of clerks, orders,     *)
(* shifts, tariffs, ledger entries and overlapping requests.  In order:    *)
(* lemmas about finite sums, smallest elements and division; the drawers   *)
(* (Shifts); the bills and what they come to (Bills); opening hours and    *)
(* prices (Tariffs); the figures (Reports); the types of all.  The keys    *)
(* have a module of proofs of their own (IdempotencyProofs).               *)
(***************************************************************************)
EXTENDS MCTill, FiniteSets, FiniteSetsExt, FiniteSetTheorems, TLAPS

tillVars == <<scene, serverVars, billVars, shiftVars, priceVars, bookVars>>

-----------------------------------------------------------------------------
\* Sums.  The library's fold is defined by a CHOOSE of a recursive function.  For a finite
\* set there is exactly one such function: of the subsets for which there were none, or
\* two, one is smallest, and that one's value follows from the values below it.

SumOver(f, S) == MapThenSumSet(LAMBDA x : f[x], S)

OneOf(s) == CHOOSE x \in s : TRUE

AddsUp(f, S, g) ==
    g = [s \in SUBSET S |-> IF s = {} THEN 0 ELSE f[OneOf(s)] + g[s \ {OneOf(s)}]]

\* A set of subsets of a finite set that is not empty has a smallest element.
LEMMA SmallestSet ==
    ASSUME NEW S, IsFiniteSet(S), NEW B \in SUBSET SUBSET S, NEW t \in B
    PROVE  \E s \in B : \A u \in SUBSET s : u # s => u \notin B
<1>1. B \subseteq FiniteSubsetsOf(S)
  BY FS_FiniteSubsetsOfFinite
<1>2. PICK s \in B : \A u \in B : <<u, s>> \notin StrictSubsetOrdering(S)
  BY <1>1, FS_StrictSubsetOrderingWellFounded, WFMin
<1>3. ASSUME NEW u \in SUBSET s, u # s, u \in B PROVE FALSE
  <2>1. <<u, s>> \in StrictSubsetOrdering(S)
    BY <1>3, SMT DEF StrictSubsetOrdering
  <2> QED BY <1>2, <1>3, <2>1
<1> QED BY <1>3

\* The element taken away next is an element.
LEMMA OneOfIn ==
    ASSUME NEW s, s # {}
    PROVE  OneOf(s) \in s
BY DEF OneOf

\* The fold of the library is the recursive function at the whole set.
LEMMA SumUnfolds ==
    ASSUME NEW f, NEW S
    PROVE  SumOver(f, S) = (CHOOSE g : AddsUp(f, S, g))[S]
BY DEF SumOver, MapThenSumSet, MapThenFoldSet, AddsUp, OneOf

\* The recursion has one solution ...
LEMMA OneSum ==
    ASSUME NEW S, IsFiniteSet(S), NEW f, NEW g, NEW h,
           AddsUp(f, S, g), AddsUp(f, S, h)
    PROVE  \A s \in SUBSET S : g[s] = h[s]
<1> SUFFICES ASSUME NEW t \in SUBSET S, g[t] # h[t] PROVE FALSE
  OBVIOUS
<1> DEFINE B == {s \in SUBSET S : g[s] # h[s]}
<1>1. t \in B /\ B \in SUBSET SUBSET S
  OBVIOUS
<1>2. \A s \in SUBSET S : s \notin B => g[s] = h[s]
  OBVIOUS
<1>8. \A s \in B : g[s] # h[s]
  OBVIOUS
<1> HIDE DEF B
<1>3. PICK s \in B : \A u \in SUBSET s : u # s => u \notin B
  BY <1>1, SmallestSet
<1>4. s \in SUBSET S
  BY <1>1
<1>5. g[s] = IF s = {} THEN 0 ELSE f[OneOf(s)] + g[s \ {OneOf(s)}]
  BY <1>4 DEF AddsUp
<1>6. h[s] = IF s = {} THEN 0 ELSE f[OneOf(s)] + h[s \ {OneOf(s)}]
  BY <1>4 DEF AddsUp
<1>7. s # {} => g[s \ {OneOf(s)}] = h[s \ {OneOf(s)}]
  BY <1>2, <1>3, <1>4, OneOfIn
<1> QED BY <1>8, <1>5, <1>6, <1>7

\* ... whose part on the subsets of T is the solution for T ...
LEMMA SumPart ==
    ASSUME NEW S, NEW f, NEW g, AddsUp(f, S, g), NEW T \in SUBSET S
    PROVE  AddsUp(f, T, [s \in SUBSET T |-> g[s]])
<1> DEFINE h == [s \in SUBSET T |-> g[s]]
<1>1. ASSUME NEW s \in SUBSET T
      PROVE  h[s] = IF s = {} THEN 0 ELSE f[OneOf(s)] + h[s \ {OneOf(s)}]
  <2>1. g[s] = IF s = {} THEN 0 ELSE f[OneOf(s)] + g[s \ {OneOf(s)}]
    BY DEF AddsUp
  <2>2. h[s] = g[s] /\ h[s \ {OneOf(s)}] = g[s \ {OneOf(s)}]
    OBVIOUS
  <2> QED BY <2>1, <2>2
<1>2. h = [s \in SUBSET T |-> h[s]]
  OBVIOUS
<1> HIDE DEF h
<1>3. h = [s \in SUBSET T |-> IF s = {} THEN 0 ELSE f[OneOf(s)] + h[s \ {OneOf(s)}]]
  BY <1>1, <1>2
<1> QED BY <1>3 DEF AddsUp, h

\* The solution, if there is one
SumsOf(f, S) == CHOOSE g : AddsUp(f, S, g)

\* ... and it has one, put together from those of the smaller sets.
LEMMA SumExists ==
    ASSUME NEW S, IsFiniteSet(S), NEW f
    PROVE  AddsUp(f, S, SumsOf(f, S))
<1> SUFFICES ASSUME \A g : ~AddsUp(f, S, g) PROVE FALSE
  BY DEF SumsOf
<1> DEFINE B == {s \in SUBSET S : \A g : ~AddsUp(f, s, g)}
<1>1. S \in B /\ B \in SUBSET SUBSET S
  OBVIOUS
<1>2. \A s \in SUBSET S : s \notin B => AddsUp(f, s, SumsOf(f, s))
  BY DEF SumsOf
<1>10. \A s \in B : \A g : ~AddsUp(f, s, g)
  OBVIOUS
<1> HIDE DEF B
<1>3. PICK s \in B : \A u \in SUBSET s : u # s => u \notin B
  BY <1>1, SmallestSet
<1>4. s \in SUBSET S
  BY <1>1
<1>5. ASSUME NEW u \in SUBSET s, u # s
      PROVE  AddsUp(f, u, SumsOf(f, u))
  BY <1>2, <1>3, <1>4, <1>5
<1> DEFINE val(u) == SumsOf(f, u)[u]
<1>6. ASSUME NEW u \in SUBSET s, u # s, NEW w \in SUBSET u
      PROVE  SumsOf(f, u)[w] = val(w)
  <2>1. AddsUp(f, u, SumsOf(f, u)) /\ w \in SUBSET s /\ w # s /\ IsFiniteSet(w)
    BY <1>4, <1>5, <1>6, FS_Subset
  <2>2. AddsUp(f, w, SumsOf(f, w))
    BY <1>5, <2>1
  <2>3. AddsUp(f, w, [t \in SUBSET w |-> SumsOf(f, u)[t]])
    BY <2>1, SumPart
  <2>4. \A t \in SUBSET w : SumsOf(f, w)[t] = [x \in SUBSET w |-> SumsOf(f, u)[x]][t]
    BY <2>1, <2>2, <2>3, OneSum
  <2> QED BY <2>4
<1> DEFINE rest == s \ {OneOf(s)}
           g == [u \in SUBSET s |->
                   IF u # s THEN val(u) ELSE IF s = {} THEN 0 ELSE f[OneOf(s)] + val(rest)]
<1>7. ASSUME NEW u \in SUBSET s
      PROVE  g[u] = IF u = {} THEN 0 ELSE f[OneOf(u)] + g[u \ {OneOf(u)}]
  <2>1. CASE u = s
    <3>1. s # {} => rest \in SUBSET s /\ rest # s
      BY OneOfIn
    <3> QED BY <2>1, <3>1
  <2>2. CASE u # s
    <3>1. u # {} => /\ u \ {OneOf(u)} \in SUBSET s /\ u \ {OneOf(u)} # s
                    /\ u \ {OneOf(u)} \in SUBSET u
      BY <2>2, OneOfIn
    <3>2. AddsUp(f, u, SumsOf(f, u))
      BY <1>5, <2>2
    <3> DEFINE T == SumsOf(f, u)
    <3>3. T[u] = IF u = {} THEN 0 ELSE f[OneOf(u)] + T[u \ {OneOf(u)}]
      <4> HIDE DEF T
      <4>1. AddsUp(f, u, T)
        BY <3>2 DEF T
      <4> QED BY <4>1 DEF AddsUp
    <3>4. u # {} => T[u \ {OneOf(u)}] = val(u \ {OneOf(u)})
      BY <1>6, <2>2, <3>1
    <3>5. g[u] = T[u] /\ (u # {} => g[u \ {OneOf(u)}] = val(u \ {OneOf(u)}))
      BY <2>2, <3>1
    <3> HIDE DEF T, g, val
    <3> QED BY <3>3, <3>4, <3>5
  <2> QED BY <2>1, <2>2
<1>8. g = [u \in SUBSET s |-> g[u]]
  OBVIOUS
<1> HIDE DEF g
<1>9. AddsUp(f, s, g)
  BY <1>7, <1>8 DEF AddsUp
<1> QED BY <1>9, <1>10

\* A sum is one term and the sum of the others.
LEMMA SumStep ==
    ASSUME NEW S, IsFiniteSet(S), NEW f
    PROVE  SumOver(f, S) = IF S = {} THEN 0 ELSE f[OneOf(S)] + SumOver(f, S \ {OneOf(S)})
<1> DEFINE T == S \ {OneOf(S)}
           g == SumsOf(f, S)
           h == SumsOf(f, T)
<1>1. IsFiniteSet(T) /\ T \in SUBSET S
  BY FS_Subset
<1>2. SumOver(f, S) = g[S] /\ SumOver(f, T) = h[T]
  BY SumUnfolds DEF SumsOf
<1>3. AddsUp(f, S, g) /\ AddsUp(f, T, h)
  BY <1>1, SumExists
<1> HIDE DEF g, h
<1>4. AddsUp(f, T, [t \in SUBSET T |-> g[t]])
  BY <1>1, <1>3, SumPart
<1>5. h[T] = [t \in SUBSET T |-> g[t]][T]
  BY <1>1, <1>3, <1>4, OneSum
<1>6. g[S] = IF S = {} THEN 0 ELSE f[OneOf(S)] + g[T]
  BY <1>3 DEF AddsUp
<1> QED BY <1>2, <1>5, <1>6

\* A sum of integers is an integer, of naturals a natural.
LEMMA SumType ==
    ASSUME NEW S, IsFiniteSet(S), NEW f
    PROVE  /\ (\A x \in S : f[x] \in Int) => SumOver(f, S) \in Int
           /\ (\A x \in S : f[x] \in Nat) => SumOver(f, S) \in Nat
<1>1. ASSUME NEW Numbers, Numbers = Int \/ Numbers = Nat, \A x \in S : f[x] \in Numbers,
             SumOver(f, S) \notin Numbers
      PROVE  FALSE
  <2> DEFINE B == {s \in SUBSET S : SumOver(f, s) \notin Numbers}
  <2>1. S \in B /\ B \in SUBSET SUBSET S
    BY <1>1
  <2>2. /\ \A s \in SUBSET S : s \notin B => SumOver(f, s) \in Numbers
        /\ \A s \in B : SumOver(f, s) \notin Numbers
    OBVIOUS
  <2> HIDE DEF B
  <2>3. PICK s \in B : \A u \in SUBSET s : u # s => u \notin B
    BY <2>1, SmallestSet
  <2>4. s \in SUBSET S /\ IsFiniteSet(s)
    BY <2>1, FS_Subset
  <2>5. s # {} => f[OneOf(s)] \in Numbers /\ SumOver(f, s \ {OneOf(s)}) \in Numbers
    BY <1>1, <2>2, <2>3, <2>4, OneOfIn
  <2>6. SumOver(f, s) = IF s = {} THEN 0 ELSE f[OneOf(s)] + SumOver(f, s \ {OneOf(s)})
    BY <2>4, SumStep
  <2> QED BY <1>1, <2>2, <2>5, <2>6
<1> QED BY <1>1

\* Equal terms, equal sums
LEMMA SumSame ==
    ASSUME NEW S, IsFiniteSet(S), NEW f, NEW g, \A x \in S : f[x] = g[x]
    PROVE  SumOver(f, S) = SumOver(g, S)
<1> SUFFICES ASSUME SumOver(f, S) # SumOver(g, S) PROVE FALSE
  OBVIOUS
<1> DEFINE B == {s \in SUBSET S : SumOver(f, s) # SumOver(g, s)}
<1>1. S \in B /\ B \in SUBSET SUBSET S
  OBVIOUS
<1>2. /\ \A s \in SUBSET S : s \notin B => SumOver(f, s) = SumOver(g, s)
      /\ \A s \in B : SumOver(f, s) # SumOver(g, s)
  OBVIOUS
<1> HIDE DEF B
<1>3. PICK s \in B : \A u \in SUBSET s : u # s => u \notin B
  BY <1>1, SmallestSet
<1>4. s \in SUBSET S /\ IsFiniteSet(s)
  BY <1>1, FS_Subset
<1>5. s # {} => /\ f[OneOf(s)] = g[OneOf(s)]
                /\ SumOver(f, s \ {OneOf(s)}) = SumOver(g, s \ {OneOf(s)})
  BY <1>2, <1>3, <1>4, OneOfIn
<1>6. /\ SumOver(f, s) = IF s = {} THEN 0 ELSE f[OneOf(s)] + SumOver(f, s \ {OneOf(s)})
      /\ SumOver(g, s) = IF s = {} THEN 0 ELSE g[OneOf(s)] + SumOver(g, s \ {OneOf(s)})
  BY <1>4, SumStep
<1> QED BY <1>2, <1>5, <1>6

\* Any element may be taken out first.
LEMMA SumRemove ==
    ASSUME NEW S, IsFiniteSet(S), NEW f, \A x \in S : f[x] \in Int, NEW x \in S
    PROVE  SumOver(f, S) = f[x] + SumOver(f, S \ {x})
<1> SUFFICES ASSUME SumOver(f, S) # f[x] + SumOver(f, S \ {x}) PROVE FALSE
  OBVIOUS
<1> DEFINE B == {s \in SUBSET S : \E y \in s : SumOver(f, s) # f[y] + SumOver(f, s \ {y})}
<1>1. S \in B /\ B \in SUBSET SUBSET S
  OBVIOUS
<1>2. /\ \A s \in SUBSET S : s \notin B =>
               \A y \in s : SumOver(f, s) = f[y] + SumOver(f, s \ {y})
      /\ \A s \in B : \E y \in s : SumOver(f, s) # f[y] + SumOver(f, s \ {y})
  OBVIOUS
<1> HIDE DEF B
<1>3. PICK s \in B : \A u \in SUBSET s : u # s => u \notin B
  BY <1>1, SmallestSet
<1>4. s \in SUBSET S
  BY <1>1
<1>5. PICK y \in s : SumOver(f, s) # f[y] + SumOver(f, s \ {y})
  BY <1>2
<1> DEFINE a == OneOf(s)
           u == s \ {a}
           v == s \ {y}
           w == (s \ {a}) \ {y}
<1>6. a \in s /\ IsFiniteSet(s)
  BY <1>4, <1>5, OneOfIn, FS_Subset
<1>7. SumOver(f, s) = f[a] + SumOver(f, u)
  BY <1>5, <1>6, SumStep
<1>8. y # a
  BY <1>5, <1>7
<1>9. u \in SUBSET s /\ v \in SUBSET s /\ u # s /\ v # s /\ y \in u /\ a \in v /\ w = v \ {a}
  BY <1>5, <1>6, <1>8
<1> HIDE DEF a, u, v, w
<1>10. SumOver(f, u) = f[y] + SumOver(f, u \ {y}) /\ SumOver(f, v) = f[a] + SumOver(f, v \ {a})
  BY <1>2, <1>3, <1>4, <1>9
<1>11. IsFiniteSet(w) /\ w \in SUBSET S
  BY <1>4, <1>6, FS_Subset DEF w
<1>12. f[y] \in Int /\ f[a] \in Int /\ SumOver(f, w) \in Int
  BY <1>4, <1>6, <1>11, SumType
<1>13. u \ {y} = w
  BY DEF u, w
<1>14. SumOver(f, u) = f[y] + SumOver(f, w) /\ SumOver(f, v) = f[a] + SumOver(f, w)
  BY <1>9, <1>10, <1>13
<1>15. SumOver(f, s) # f[y] + SumOver(f, v)
  BY <1>5 DEF v
<1> QED BY <1>7, <1>12, <1>14, <1>15

\* The sum over a set is that over a part and that over the rest.
LEMMA SumUnion ==
    ASSUME NEW S, IsFiniteSet(S), NEW f, \A x \in S : f[x] \in Int, NEW T \in SUBSET S
    PROVE  SumOver(f, S) = SumOver(f, T) + SumOver(f, S \ T)
<1> SUFFICES ASSUME SumOver(f, S) # SumOver(f, T) + SumOver(f, S \ T) PROVE FALSE
  OBVIOUS
<1> DEFINE B == {s \in SUBSET T : SumOver(f, S) # SumOver(f, s) + SumOver(f, S \ s)}
<1>1. T \in B /\ B \in SUBSET SUBSET T /\ IsFiniteSet(T)
  BY FS_Subset
<1>2. /\ \A s \in SUBSET T : s \notin B => SumOver(f, S) = SumOver(f, s) + SumOver(f, S \ s)
      /\ \A s \in B : SumOver(f, S) # SumOver(f, s) + SumOver(f, S \ s)
  OBVIOUS
<1> HIDE DEF B
<1>3. PICK s \in B : \A u \in SUBSET s : u # s => u \notin B
  BY <1>1, SmallestSet
<1>4. s \in SUBSET S /\ s \in SUBSET T /\ IsFiniteSet(s) /\ IsFiniteSet(S \ s)
  BY <1>1, FS_Subset
<1>5. SumOver(f, s) \in Int /\ SumOver(f, S \ s) \in Int
  BY <1>4, SumType
<1>6. CASE s = {}
  <2>1. SumOver(f, s) = 0
    BY <1>4, <1>6, SumStep
  <2>2. S \ s = S
    BY <1>6
  <2>3. SumOver(f, S \ s) = SumOver(f, S)
    BY <2>2
  <2>4. SumOver(f, S) # 0 + SumOver(f, S)
    BY <1>2, <2>1, <2>3
  <2>5. SumOver(f, S) \in Int
    BY SumType
  <2> QED BY <2>4, <2>5
<1>7. CASE s # {}
  <2>1. PICK a \in s : TRUE
    BY <1>7
  <2> DEFINE r == s \ {a}
  <2>2. SumOver(f, s) = f[a] + SumOver(f, r)
    BY <1>4, SumRemove
  <2>3. S \ r = (S \ s) \union {a} /\ (S \ r) \ {a} = S \ s /\ a \in S \ r
    BY <1>4, <2>1
  <2>4. IsFiniteSet(S \ r) /\ IsFiniteSet(r)
    BY <1>4, FS_Subset
  <2>5. SumOver(f, S \ r) = f[a] + SumOver(f, S \ s)
    <3> HIDE DEF r
    <3>1. S \ r \subseteq S
      OBVIOUS
    <3>2. SumOver(f, S \ r) = f[a] + SumOver(f, (S \ r) \ {a})
      BY <2>3, <2>4, <3>1, SumRemove
    <3> QED BY <2>3, <3>2
  <2>6. SumOver(f, S) = SumOver(f, r) + SumOver(f, S \ r)
    BY <1>2, <1>3, <1>4, <2>1
  <2>7. f[a] \in Int /\ SumOver(f, r) \in Int
    BY <1>4, <2>4, SumType
  <2>8. SumOver(f, S) # SumOver(f, s) + SumOver(f, S \ s)
    BY <1>2
  <2> DEFINE rest == S \ s
             more == S \ r
  <2> HIDE DEF r, rest, more
  <2>9. /\ SumOver(f, s) = f[a] + SumOver(f, r) /\ SumOver(f, more) = f[a] + SumOver(f, rest)
        /\ SumOver(f, S) = SumOver(f, r) + SumOver(f, more)
        /\ SumOver(f, S) # SumOver(f, s) + SumOver(f, rest)
        /\ SumOver(f, rest) \in Int
    BY <1>5, <2>2, <2>5, <2>6, <2>8 DEF rest, more
  <2> QED BY <2>7, <2>9
<1> QED BY <1>6, <1>7

\* A factor of every term is one of the sum.
LEMMA SumScaled ==
    ASSUME NEW S, IsFiniteSet(S), NEW f, \A x \in S : f[x] \in Int, NEW n \in Int
    PROVE  SumOver([x \in S |-> n * f[x]], S) = n * SumOver(f, S)
<1> DEFINE g == [x \in S |-> n * f[x]]
<1> SUFFICES ASSUME SumOver(g, S) # n * SumOver(f, S) PROVE FALSE
  OBVIOUS
<1>10. \A x \in S : g[x] = n * f[x]
  OBVIOUS
<1> HIDE DEF g
<1> DEFINE B == {s \in SUBSET S : SumOver(g, s) # n * SumOver(f, s)}
<1>1. S \in B /\ B \in SUBSET SUBSET S
  OBVIOUS
<1>2. /\ \A s \in SUBSET S : s \notin B => SumOver(g, s) = n * SumOver(f, s)
      /\ \A s \in B : SumOver(g, s) # n * SumOver(f, s)
  OBVIOUS
<1> HIDE DEF B
<1>3. PICK s \in B : \A u \in SUBSET s : u # s => u \notin B
  BY <1>1, SmallestSet
<1>4. s \in SUBSET S /\ IsFiniteSet(s) /\ IsFiniteSet(s \ {OneOf(s)})
  BY <1>1, FS_Subset
<1> DEFINE a == OneOf(s)
           r == s \ {a}
<1>5. s # {} => a \in S /\ SumOver(g, r) = n * SumOver(f, r)
  BY <1>2, <1>3, <1>4, OneOfIn
<1>6. /\ SumOver(f, s) = IF s = {} THEN 0 ELSE f[a] + SumOver(f, r)
      /\ SumOver(g, s) = IF s = {} THEN 0 ELSE g[a] + SumOver(g, r)
  BY <1>4, SumStep
<1>7. SumOver(f, r) \in Int
  BY <1>4, SumType
<1> HIDE DEF a, r
<1>8. s # {} => g[a] + n * SumOver(f, r) = n * (f[a] + SumOver(f, r))
  <2> SUFFICES ASSUME s # {} PROVE g[a] + n * SumOver(f, r) = n * (f[a] + SumOver(f, r))
    OBVIOUS
  <2>1. f[a] \in Int /\ g[a] = n * f[a]
    BY <1>5, <1>10
  <2> DEFINE p == f[a]
             q == SumOver(f, r)
  <2> HIDE DEF p, q
  <2>2. p \in Int /\ q \in Int => n * p + n * q = n * (p + q)
    OBVIOUS
  <2> QED BY <1>7, <2>1, <2>2 DEF p, q
<1>9. n * 0 = 0
  OBVIOUS
<1> QED BY <1>2, <1>5, <1>6, <1>8, <1>9

\* Sorted by k, the elements of S lie in the parts D, and h is the sum of each part.
Parted(h, D, f, S, k) ==
    /\ \A x \in S : k[x] \in D
    /\ \A d \in D : h[d] = SumOver(f, {x \in S : k[x] = d})

\* The sums of the parts add up to the sum.
LEMMA SumParts ==
    ASSUME NEW S, IsFiniteSet(S), NEW f, \A x \in S : f[x] \in Int,
           NEW D, IsFiniteSet(D), NEW k, NEW h, Parted(h, D, f, S, k)
    PROVE  SumOver(h, D) = SumOver(f, S)
<1>0. /\ \A x \in S : k[x] \in D
      /\ \A d \in D : h[d] = SumOver(f, {x \in S : k[x] = d})
  BY DEF Parted
<1> DEFINE In(s) == {x \in S : k[x] \in s}
<1>1. In(D) = S
  BY <1>0
<1>2. SUFFICES ASSUME SumOver(h, D) # SumOver(f, In(D)) PROVE FALSE
  BY <1>1
<1> DEFINE B == {s \in SUBSET D : SumOver(h, s) # SumOver(f, In(s))}
<1>3. D \in B /\ B \in SUBSET SUBSET D
  BY <1>2
<1>4. /\ \A s \in SUBSET D : s \notin B => SumOver(h, s) = SumOver(f, In(s))
      /\ \A s \in B : SumOver(h, s) # SumOver(f, In(s))
  OBVIOUS
<1> HIDE DEF B
<1>5. PICK s \in B : \A u \in SUBSET s : u # s => u \notin B
  BY <1>3, SmallestSet
<1>6. s \in SUBSET D /\ IsFiniteSet(s)
  BY <1>3, FS_Subset
<1>7. SumOver(h, s) = IF s = {} THEN 0 ELSE h[OneOf(s)] + SumOver(h, s \ {OneOf(s)})
  BY <1>6, SumStep
<1>8. CASE s = {}
  <2>1. In(s) = {} /\ IsFiniteSet({})
    BY <1>8, FS_EmptySet
  <2>2. SumOver(f, {}) = 0
    BY <2>1, SumStep
  <2> QED BY <1>4, <1>7, <1>8, <2>1, <2>2
<1>9. CASE s # {}
  <2> DEFINE d == OneOf(s)
             r == s \ {d}
             T == {x \in S : k[x] = d}
  <2>1. d \in s /\ d \in D
    BY <1>6, <1>9, OneOfIn
  <2>2. SumOver(h, r) = SumOver(f, In(r))
    BY <1>4, <1>5, <1>6, <2>1
  <2>3. T \in SUBSET In(s) /\ In(s) \ T = In(r) /\ In(s) \in SUBSET S
    BY <2>1
  <2>4. IsFiniteSet(In(s))
    BY <2>3, FS_Subset
  <2> HIDE DEF T, r, d, In
  <2>5. SumOver(f, In(s)) = SumOver(f, T) + SumOver(f, In(s) \ T)
    BY <2>3, <2>4, SumUnion
  <2>6. h[d] = SumOver(f, T)
    BY <1>0, <2>1 DEF T
  <2> QED BY <1>4, <1>7, <1>9, <2>2, <2>3, <2>5, <2>6 DEF d, r
<1> QED BY <1>8, <1>9

\* The sum of differences is the difference of the sums.
LEMMA SumMinus ==
    ASSUME NEW S, IsFiniteSet(S), NEW f, NEW g, \A x \in S : f[x] \in Int /\ g[x] \in Int
    PROVE  SumOver([x \in S |-> f[x] - g[x]], S) = SumOver(f, S) - SumOver(g, S)
<1> DEFINE h == [x \in S |-> f[x] - g[x]]
<1> SUFFICES ASSUME SumOver(h, S) # SumOver(f, S) - SumOver(g, S) PROVE FALSE
  OBVIOUS
<1>1. \A x \in S : h[x] = f[x] - g[x]
  OBVIOUS
<1> HIDE DEF h
<1> DEFINE B == {s \in SUBSET S : SumOver(h, s) # SumOver(f, s) - SumOver(g, s)}
<1>2. S \in B /\ B \in SUBSET SUBSET S
  OBVIOUS
<1>3. /\ \A s \in SUBSET S : s \notin B => SumOver(h, s) = SumOver(f, s) - SumOver(g, s)
      /\ \A s \in B : SumOver(h, s) # SumOver(f, s) - SumOver(g, s)
  OBVIOUS
<1> HIDE DEF B
<1>4. PICK s \in B : \A u \in SUBSET s : u # s => u \notin B
  BY <1>2, SmallestSet
<1>5. s \in SUBSET S /\ IsFiniteSet(s) /\ IsFiniteSet(s \ {OneOf(s)})
  BY <1>2, FS_Subset
<1> DEFINE a == OneOf(s)
           r == s \ {a}
<1>6. s # {} => a \in S /\ SumOver(h, r) = SumOver(f, r) - SumOver(g, r)
  BY <1>3, <1>4, <1>5, OneOfIn
<1>7. /\ SumOver(f, s) = IF s = {} THEN 0 ELSE f[a] + SumOver(f, r)
      /\ SumOver(g, s) = IF s = {} THEN 0 ELSE g[a] + SumOver(g, r)
      /\ SumOver(h, s) = IF s = {} THEN 0 ELSE h[a] + SumOver(h, r)
  BY <1>5, SumStep
<1>8. SumOver(f, r) \in Int /\ SumOver(g, r) \in Int
  BY <1>5, SumType
<1> HIDE DEF a, r
<1> QED BY <1>1, <1>3, <1>6, <1>7, <1>8

\* What is ordered totally has a first element, if it is finite and there is any.
LEMMA FirstOf ==
    ASSUME NEW S, IsFiniteSet(S), S # {}, NEW R,
           \A a, b \in S : <<a, b>> \in R \/ <<b, a>> \in R,
           \A a, b, c \in S : <<a, b>> \in R /\ <<b, c>> \in R => <<a, c>> \in R
    PROVE  \E a \in S : \A b \in S : <<a, b>> \in R
<1> DEFINE First(s) == \E a \in s : \A b \in s : <<a, b>> \in R
           B == {s \in SUBSET S : s # {} /\ ~First(s)}
<1>1. SUFFICES ASSUME S \in B PROVE FALSE
  OBVIOUS
<1>2. PICK s \in B : \A u \in SUBSET s : u # s => u \notin B
  <2>1. B \in SUBSET SUBSET S
    OBVIOUS
  <2> HIDE DEF B
  <2> QED BY <1>1, <2>1, SmallestSet
<1>3. s \in SUBSET S /\ s # {} /\ ~First(s)
  BY <1>2
<1>4. PICK a \in s : TRUE
  BY <1>3
<1> DEFINE r == s \ {a}
<1>5. CASE r = {}
  <2>1. s = {a} /\ <<a, a>> \in R
    BY <1>3, <1>4, <1>5
  <2> QED BY <1>3, <2>1
<1>6. CASE r # {}
  <2>1. First(r)
    <3>1. r \in SUBSET s /\ r # s /\ r \in SUBSET S
      BY <1>3, <1>4
    <3> QED BY <1>2, <1>6, <3>1
  <2>2. PICK c \in r : \A b \in r : <<c, b>> \in R
    BY <2>1
  <2>3. CASE <<a, c>> \in R
    <3>1. \A b \in s : <<a, b>> \in R
      BY <1>3, <1>4, <2>2, <2>3
    <3> QED BY <1>3, <1>4, <3>1
  <2>4. CASE <<c, a>> \in R
    <3>1. \A b \in s : <<c, b>> \in R
      BY <2>2, <2>4
    <3> QED BY <1>3, <2>2, <3>1
  <2> QED BY <1>3, <1>4, <2>2, <2>3, <2>4
<1> QED BY <1>5, <1>6

\* Smallest and largest numbers
LEMMA SmallestOf ==
    ASSUME NEW S \in SUBSET Int, IsFiniteSet(S), S # {}
    PROVE  Min(S) \in S /\ \A x \in S : Min(S) <= x
<1> DEFINE R == {p \in Int \X Int : p[1] <= p[2]}
<1>1. \A a, b \in Int : <<a, b>> \in R <=> a <= b
  OBVIOUS
<1> HIDE DEF R
<1>2. \E a \in S : \A b \in S : <<a, b>> \in R
  <2>1. ASSUME NEW a \in S, NEW b \in S PROVE <<a, b>> \in R \/ <<b, a>> \in R
    <3>1. a \in Int /\ b \in Int /\ (a <= b \/ b <= a)
      OBVIOUS
    <3> QED BY <1>1, <3>1
  <2>2. \A a, b, c \in S : <<a, b>> \in R /\ <<b, c>> \in R => <<a, c>> \in R
    BY <1>1
  <2> QED BY <2>1, <2>2, FirstOf
<1>3. \E a \in S : \A b \in S : a <= b
  BY <1>1, <1>2
<1> QED BY <1>3 DEF Min

\* The same from the other end
LEMMA LargestOf ==
    ASSUME NEW S \in SUBSET Int, IsFiniteSet(S), S # {}
    PROVE  Max(S) \in S /\ \A x \in S : x <= Max(S)
<1> DEFINE R == {p \in Int \X Int : p[2] <= p[1]}
<1>1. \A a, b \in Int : <<a, b>> \in R <=> b <= a
  OBVIOUS
<1> HIDE DEF R
<1>2. \E a \in S : \A b \in S : <<a, b>> \in R
  <2>1. ASSUME NEW a \in S, NEW b \in S PROVE <<a, b>> \in R \/ <<b, a>> \in R
    <3>1. a \in Int /\ b \in Int /\ (a <= b \/ b <= a)
      OBVIOUS
    <3> QED BY <1>1, <3>1
  <2>2. \A a, b, c \in S : <<a, b>> \in R /\ <<b, c>> \in R => <<a, c>> \in R
    BY <1>1
  <2> QED BY <2>1, <2>2, FirstOf
<1>3. \E a \in S : \A b \in S : a >= b
  BY <1>1, <1>2
<1>4. Max(S) \in S /\ \A b \in S : Max(S) >= b
  BY <1>3 DEF Max
<1> QED BY <1>4

\* Equal summands
LEMMA SumConstant ==
    ASSUME NEW S, IsFiniteSet(S), NEW f, NEW c \in Int, \A x \in S : f[x] = c
    PROVE  SumOver(f, S) = c * Cardinality(S)
<1> DEFINE B == {s \in SUBSET S : SumOver(f, s) # c * Cardinality(s)}
<1>1. SUFFICES ASSUME S \in B PROVE FALSE
  OBVIOUS
<1>2. /\ B \in SUBSET SUBSET S
      /\ \A s \in SUBSET S : s \notin B => SumOver(f, s) = c * Cardinality(s)
      /\ \A s \in B : SumOver(f, s) # c * Cardinality(s)
  OBVIOUS
<1> HIDE DEF B
<1>3. PICK s \in B : \A u \in SUBSET s : u # s => u \notin B
  BY <1>1, <1>2, SmallestSet
<1>4. s \in SUBSET S /\ IsFiniteSet(s)
  BY <1>2, FS_Subset
<1> DEFINE a == OneOf(s)
           r == s \ {a}
<1>5. SumOver(f, s) = IF s = {} THEN 0 ELSE f[a] + SumOver(f, r)
  BY <1>4, SumStep
<1>6. CASE s = {}
  <2>1. Cardinality(s) = 0
    BY <1>6, FS_EmptySet
  <2> QED BY <1>2, <1>5, <1>6, <2>1
<1>7. CASE s # {}
  <2>1. a \in s /\ f[a] = c
    BY <1>4, <1>7, OneOfIn
  <2>2. SumOver(f, r) = c * Cardinality(r)
    BY <1>2, <1>3, <1>4, <2>1
  <2>3. Cardinality(r) = Cardinality(s) - 1 /\ Cardinality(s) \in Nat
    BY <1>4, <2>1, FS_RemoveElement, FS_CardinalityType
  <2> DEFINE n == Cardinality(s)
  <2> HIDE DEF n
  <2>4. n \in Nat => c + c * (n - 1) = c * n
    BY SMTT(20)
  <2> QED BY <1>2, <1>5, <1>7, <2>1, <2>2, <2>3, <2>4 DEF n
<1> QED BY <1>6, <1>7

-----------------------------------------------------------------------------
\* Division: what \div is, and that nothing else is.

\* What integer division returns
LEMMA Quotient ==
    ASSUME NEW a \in Int, NEW n \in Nat \ {0}
    PROVE  a \div n \in Int /\ n * (a \div n) <= a /\ a < n * (a \div n) + n
BY SMTT(20)

\* A number that lies where the quotient must lie is the quotient.
LEMMA QuotientIs ==
    ASSUME NEW a \in Int, NEW n \in Nat \ {0}, NEW q \in Int, n * q <= a, a < n * q + n
    PROVE  a \div n = q
<1> DEFINE p == a \div n
<1>1. p \in Int /\ n * p <= a /\ a < n * p + n
  BY Quotient
<1> HIDE DEF p
<1>2. CASE p < q
  <2>1. p + 1 <= q
    BY <1>1, <1>2
  <2>2. n * (p + 1) <= n * q
    BY <1>1, <2>1, SMTT(20)
  <2> QED BY <1>1, <2>2, SMTT(20)
<1>3. CASE q < p
  <2>1. q + 1 <= p
    BY <1>1, <1>3
  <2>2. n * (q + 1) <= n * p
    BY <1>1, <2>1, SMTT(20)
  <2> QED BY <1>1, <2>2, SMTT(20)
<1> QED BY <1>1, <1>2, <1>3 DEF p

\* A later moment is not in an earlier day.
LEMMA QuotientGrows ==
    ASSUME NEW a \in Int, NEW b \in Int, a <= b, NEW n \in Nat \ {0}
    PROVE  a \div n <= b \div n
<1> DEFINE p == a \div n
           q == b \div n
<1>1. p \in Int /\ q \in Int /\ n * p <= a /\ b < n * q + n
  BY Quotient
<1> HIDE DEF p, q
<1>2. CASE q < p
  <2>1. q + 1 <= p
    BY <1>1, <1>2
  <2>2. n * (q + 1) <= n * p
    BY <1>1, <2>1, SMTT(20)
  <2> QED BY <1>1, <2>2, SMTT(20)
<1> QED BY <1>1, <1>2 DEF p, q

\* Multiples of n are ordered as what they are multiples of.
LEMMA Multiples ==
    ASSUME NEW a \in Int, NEW b \in Int, NEW n \in Nat \ {0}
    PROVE  /\ a * n \in Int /\ b * n \in Int
           /\ a < b <=> a * n < b * n
           /\ a <= b <=> a * n <= b * n
<1>1. a < b => a * n < b * n
  BY SMTT(20)
<1>2. a * n < b * n => a < b
  <2>1. b <= a => b * n <= a * n
    BY SMTT(20)
  <2> QED BY <2>1
<1>3. b < a => b * n < a * n
  BY SMTT(20)
<1>4. a * n \in Int /\ b * n \in Int
  OBVIOUS
<1> QED BY <1>1, <1>2, <1>3, <1>4, SMTT(20)

\* Dividing by two numbers is dividing by their product.
LEMMA QuotientTwice ==
    ASSUME NEW a \in Int, NEW n \in Nat \ {0}, NEW d \in Nat \ {0}
    PROVE  a \div (d * n) = (a \div n) \div d
<1> DEFINE p == a \div n
           q == p \div d
<1>1. p \in Int /\ n * p <= a /\ a < n * p + n
  BY Quotient
<1>2. q \in Int /\ d * q <= p /\ p < d * q + d
  BY <1>1, Quotient
<1> HIDE DEF p, q
<1>3. d * n \in Nat \ {0} /\ (d * n) * q = n * (d * q)
  BY <1>2, SMTT(20)
<1>4. n * (d * q) <= n * p
  BY <1>1, <1>2, SMTT(20)
<1>5. p + 1 <= d * q + d
  BY <1>1, <1>2
<1>6. n * (p + 1) <= n * (d * q + d)
  BY <1>1, <1>2, <1>5, SMTT(20)
<1>7. n * (p + 1) = n * p + n /\ n * (d * q + d) = (d * n) * q + d * n
  BY <1>1, <1>2, SMTT(20)
<1>8. (d * n) * q <= a /\ a < (d * n) * q + d * n
  BY <1>1, <1>2, <1>3, <1>4, <1>6, <1>7
<1>9. a \div (d * n) = q
  BY <1>2, <1>3, <1>8, QuotientIs
<1> QED BY <1>9 DEF p, q

\* Whole multiples come out of a quotient.
LEMMA QuotientShift ==
    ASSUME NEW a \in Int, NEW b \in Int, NEW n \in Nat \ {0}
    PROVE  (a + b * n) \div n = a \div n + b
<1> DEFINE p == a \div n
<1>1. p \in Int /\ n * p <= a /\ a < n * p + n
  BY Quotient
<1> HIDE DEF p
<1>2. n * (p + b) = n * p + b * n
  BY <1>1, SMTT(20)
<1>3. a + b * n \in Int /\ p + b \in Int /\ n * (p + b) <= a + b * n /\ a + b * n < n * (p + b) + n
  BY <1>1, <1>2
<1>4. (a + b * n) \div n = p + b
  BY <1>3, QuotientIs
<1> QED BY <1>4 DEF p

\* Rounding half up does not depend on the unit.
LEMMA Rounding ==
    ASSUME NEW s \in Int, NEW n \in Nat \ {0}, NEW h \in Nat \ {0}
    PROVE  (n * s + (h * n) \div 2) \div (h * n) = (s + h \div 2) \div h
<1> DEFINE q == (s + h \div 2) \div h
           half == h \div 2
           all == (h * n) \div 2
<1>1. half \in Int /\ 2 * half <= h /\ h < 2 * half + 2
  BY Quotient
<1>2. h * n \in Nat \ {0}
  BY SMTT(20)
<1>3. all \in Int /\ 2 * all <= h * n /\ h * n < 2 * all + 2
  BY <1>2, Quotient
<1>4. q \in Int /\ h * q <= s + half /\ s + half < h * q + h
  BY <1>1, Quotient
<1> HIDE DEF q, half, all
<1>5. n * (2 * half) <= n * h
  BY <1>1, SMTT(20)
<1>6. n * half <= all
  <2>1. n * (2 * half) = 2 * (n * half) /\ n * h = h * n /\ n * half \in Int
    BY <1>1, SMTT(20)
  <2> QED BY <1>3, <1>5, <2>1
<1>7. n * (h * q) <= n * (s + half)
  BY <1>1, <1>4, SMTT(20)
<1>8. n * (h * q) = (h * n) * q /\ n * (s + half) = n * s + n * half
      /\ n * half \in Int /\ n * s \in Int /\ (h * n) * q \in Int
  BY <1>1, <1>4, SMTT(20)
<1>9. (h * n) * q <= n * s + all
  BY <1>3, <1>6, <1>7, <1>8
<1>10. 2 * s + h + 1 <= 2 * (h * q) + 2 * h
  <2>1. h <= 2 * half + 1 /\ s + half + 1 <= h * q + h /\ h * q \in Int
    BY <1>1, <1>4
  <2> QED BY <1>1, <2>1
<1>11. n * (2 * s + h + 1) <= n * (2 * (h * q) + 2 * h)
  <2> DEFINE x == 2 * s + h + 1
             y == 2 * (h * q) + 2 * h
  <2>1. x \in Int /\ y \in Int /\ x <= y
    BY <1>4, <1>10
  <2> HIDE DEF x, y
  <2>2. n * x <= n * y
    BY <2>1, SMTT(20)
  <2> QED BY <2>2 DEF x, y
<1>12. n * (2 * s + h + 1) = 2 * (n * s) + h * n + n
       /\ n * (2 * (h * q) + 2 * h) = 2 * ((h * n) * q) + 2 * (h * n)
  BY <1>4, SMTT(20)
<1>13. n * s + all < (h * n) * q + h * n
  BY <1>2, <1>3, <1>8, <1>11, <1>12
<1> DEFINE w == n * s + all
           k == h * n
<1>14. w \in Int /\ k \in Nat \ {0} /\ k * q <= w /\ w < k * q + k
  BY <1>2, <1>3, <1>8, <1>9, <1>13
<1> HIDE DEF w, k
<1>15. w \div k = q
  BY <1>4, <1>14, QuotientIs
<1> QED BY <1>15 DEF w, k, q, half, all

-----------------------------------------------------------------------------
\* Pieces: moments that cut a stretch of time, and sums over what lies between them.

\* The point after p
Following(P, p) == Min({q \in P : q > p})

\* Every point before the last has one.
LEMMA FollowingIs ==
    ASSUME NEW P \in SUBSET Int, IsFiniteSet(P), NEW e \in P, NEW p \in P, p < e
    PROVE  /\ Following(P, p) \in P /\ p < Following(P, p)
           /\ \A q \in P : p < q => Following(P, p) <= q
<1> DEFINE U == {q \in P : q > p}
<1>1. U \in SUBSET Int /\ U # {} /\ U \in SUBSET P
  OBVIOUS
<1>2. IsFiniteSet(U)
  BY <1>1, FS_Subset
<1>3. Min(U) \in U /\ \A q \in U : Min(U) <= q
  <2> HIDE DEF U
  <2> QED BY <1>1, <1>2, SmallestOf
<1>4. \A q \in P : p < q => q \in U
  OBVIOUS
<1>5. Min(U) \in P /\ p < Min(U)
  BY <1>3
<1> QED BY <1>3, <1>4, <1>5 DEF Following

\* The point at or before t
Preceding(P, t) == Max({p \in P : p <= t})

\* Every moment lies in exactly one piece.
LEMMA PrecedingIs ==
    ASSUME NEW P \in SUBSET Int, IsFiniteSet(P), NEW s \in P, NEW e \in P,
           NEW t \in Int, s <= t, t < e
    PROVE  /\ Preceding(P, t) \in P
           /\ \A p \in P : p < e => (Preceding(P, t) = p <=> p <= t /\ t < Following(P, p))
<1> DEFINE U == {p \in P : p <= t}
           x == Preceding(P, t)
<1>1. U \in SUBSET Int /\ U # {} /\ U \in SUBSET P
  OBVIOUS
<1>2. IsFiniteSet(U)
  BY <1>1, FS_Subset
<1>3. Max(U) \in U /\ \A q \in U : q <= Max(U)
  <2> HIDE DEF U
  <2> QED BY <1>1, <1>2, LargestOf
<1>4. x = Max(U)
  BY DEF Preceding
<1>5. x \in P /\ x \in Int /\ x <= t /\ \A q \in P : q <= t => q <= x
  BY <1>3, <1>4
<1> HIDE DEF U, x
<1>6. ASSUME NEW p \in P, p < e
      PROVE  x = p <=> p <= t /\ t < Following(P, p)
  <2> DEFINE n == Following(P, p)
  <2>1. n \in P /\ n \in Int /\ p < n /\ (\A q \in P : p < q => n <= q) /\ p \in Int
    BY <1>6, FollowingIs
  <2> HIDE DEF n
  <2>2. x = p => t < n
    <3>1. n <= t => n <= x
      BY <1>5, <2>1
    <3> QED BY <1>5, <2>1, <3>1
  <2>3. p <= t /\ t < n => x = p
    <3>1. p <= t => p <= x
      BY <1>5
    <3>2. p < x => n <= x
      BY <1>5, <2>1
    <3> QED BY <1>5, <2>1, <3>1, <3>2
  <2> QED BY <1>5, <2>2, <2>3 DEF n
<1> QED BY <1>5, <1>6 DEF x

\* P cuts the units a .. b - 1, of n ticks each, between units.
CutsUnits(P, n, a, b) ==
    /\ P \in SUBSET Int /\ IsFiniteSet(P) /\ a * n \in P /\ b * n \in P
    /\ \A p \in P : \E i \in a .. b : p = i * n

\* A piece of P from p on costs c[p] for every tick, and f[m] = c[p] for each unit m in it.
Charges(n, a, b, P, f, c, h) ==
    \A p \in P \ {b * n} :
        /\ c[p] \in Int
        /\ h[p] = c[p] * (Following(P, p) - p)
        /\ \A m \in a .. b - 1 : p <= m * n /\ m * n < Following(P, p) => f[m] = c[p]

\* Charging the pieces is charging the units in them: the pieces P are cut at multiples of
\* n, every unit m of a piece costs the same, and a piece costs that for every tick of it.
LEMMA PiecesSum ==
    ASSUME NEW n \in Nat \ {0}, NEW a \in Int, NEW b \in Int, a < b,
           NEW P, CutsUnits(P, n, a, b),
           NEW f, NEW c, NEW h, Charges(n, a, b, P, f, c, h)
    PROVE  SumOver(h, P \ {b * n}) = n * SumOver(f, a .. b - 1)
<1>0. \A p \in P \ {b * n} :
          /\ c[p] \in Int
          /\ h[p] = c[p] * (Following(P, p) - p)
          /\ \A m \in a .. b - 1 : p <= m * n /\ m * n < Following(P, p) => f[m] = c[p]
  BY DEF Charges
<1> P \in SUBSET Int /\ IsFiniteSet(P) /\ a * n \in P /\ b * n \in P
    /\ \A p \in P : \E i \in a .. b : p = i * n
  BY DEF CutsUnits
<1> DEFINE e == b * n
           L == P \ {e}
           S == a .. b - 1
           k == [m \in S |-> Preceding(P, m * n)]
           g == [p \in L |-> SumOver(f, {m \in S : k[m] = p})]
<1>1. e \in Int /\ a * n \in Int /\ a * n < e
  BY Multiples
<1>2. ASSUME NEW p \in L
      PROVE  p \in Int /\ p < e
  <2>1. PICK i \in a .. b : p = i * n
    OBVIOUS
  <2>2. i * n <= b * n /\ i * n \in Int
    BY Multiples
  <2> QED BY <1>1, <2>1, <2>2
<1>3. ASSUME NEW m \in S
      PROVE  m * n \in Int /\ a * n <= m * n /\ m * n < e
  BY Multiples
<1>4. ASSUME NEW m \in S
      PROVE  /\ k[m] \in L
             /\ \A p \in L : k[m] = p <=> p <= m * n /\ m * n < Following(P, p)
  <2>1. k[m] = Preceding(P, m * n)
    OBVIOUS
  <2>2. /\ Preceding(P, m * n) \in P
        /\ \A p \in P : p < e =>
               (Preceding(P, m * n) = p <=> p <= m * n /\ m * n < Following(P, p))
    <3> HIDE DEF S, k, g, L
    <3> QED BY <1>1, <1>3, PrecedingIs
  <2>3. Preceding(P, m * n) # e
    <3> DEFINE U == {p \in P : p <= m * n}
    <3>1. U \in SUBSET Int /\ IsFiniteSet(U) /\ a * n \in U
      BY <1>3, FS_Subset
    <3>2. Max(U) \in U
      <4> HIDE DEF U
      <4> QED BY <3>1, LargestOf
    <3>3. e \notin U
      BY <1>1, <1>3
    <3> QED BY <3>2, <3>3 DEF Preceding
  <2> QED BY <1>2, <2>1, <2>2, <2>3
<1>5. ASSUME NEW p \in L
      PROVE  /\ {m \in S : k[m] = p} = p \div n .. Following(P, p) \div n - 1
             /\ p \div n \in Int /\ Following(P, p) \div n \in Int
             /\ p \div n < Following(P, p) \div n
             /\ p = n * (p \div n) /\ Following(P, p) = n * (Following(P, p) \div n)
  <2> DEFINE q == Following(P, p)
  <2>1. q \in P /\ p < q
    <3> HIDE DEF e
    <3> QED BY <1>1, <1>2, FollowingIs DEF e
  <2>2. PICK i \in a .. b : p = i * n
    OBVIOUS
  <2>3. PICK j \in a .. b : q = j * n
    BY <2>1
  <2>4. p \div n = i /\ q \div n = j
    <3>1. n * i = i * n /\ n * j = j * n
      OBVIOUS
    <3>2. i * n < n * i + n /\ j * n < n * j + n
      BY <3>1
    <3>3. (i * n) \div n = i
      BY <3>1, <3>2, Multiples, QuotientIs
    <3>4. (j * n) \div n = j
      BY <3>1, <3>2, Multiples, QuotientIs
    <3> QED BY <2>2, <2>3, <3>3, <3>4
  <2>5. i < j
    BY <2>1, <2>2, <2>3, Multiples
  <2>6. \A m \in S : p <= m * n /\ m * n < q <=> i <= m /\ m < j
    BY <2>2, <2>3, Multiples
  <2>7. \A m \in S : k[m] = p <=> i <= m /\ m < j
    BY <1>4, <2>6
  <2>8. {m \in S : k[m] = p} = i .. j - 1
    <3> HIDE DEF k
    <3> QED BY <2>7
  <2>9. i \in Int /\ j \in Int /\ i * n = n * i /\ j * n = n * j
    OBVIOUS
  <2> HIDE DEF S, k, q
  <2>10. /\ {m \in S : k[m] = p} = p \div n .. q \div n - 1
         /\ p = n * (p \div n) /\ q = n * (q \div n)
    BY <2>2, <2>3, <2>4, <2>8, <2>9
  <2>11. p \div n \in Int /\ q \div n \in Int /\ p \div n < q \div n
    BY <2>4, <2>5, <2>9
  <2> QED BY <2>10, <2>11 DEF q
<1>6. ASSUME NEW p \in L
      PROVE  h[p] = n * g[p] /\ g[p] \in Int
  <2> DEFINE i == p \div n
             j == Following(P, p) \div n
             T == {m \in S : k[m] = p}
  <2>1. T = i .. j - 1 /\ i \in Int /\ j \in Int /\ i < j
        /\ p = n * i /\ Following(P, p) = n * j
    BY <1>5
  <2>2. \A m \in T : f[m] = c[p]
    BY <1>0, <1>4
  <2>3. c[p] \in Int /\ h[p] = c[p] * (Following(P, p) - p)
    BY <1>0
  <2>4. g[p] = SumOver(f, T)
    OBVIOUS
  <2> HIDE DEF i, j, T, g
  <2>5. IsFiniteSet(T) /\ Cardinality(T) = j - i
    <3>1. j - 1 \in Int /\ i <= j - 1
      BY <2>1
    <3>2. IsFiniteSet(i .. j - 1) /\ Cardinality(i .. j - 1) = (j - 1) - i + 1
      BY <2>1, <3>1, FS_Interval
    <3> QED BY <2>1, <3>2
  <2>6. SumOver(f, T) = c[p] * (j - i)
    BY <2>2, <2>3, <2>5, SumConstant
  <2> DEFINE x == c[p]
  <2> HIDE DEF x
  <2>7. x \in Int => x * (n * j - n * i) = n * (x * (j - i)) /\ x * (j - i) \in Int
    BY <2>1, SMTT(20)
  <2> QED BY <2>1, <2>3, <2>4, <2>6, <2>7 DEF x
<1>7. IsFiniteSet(L) /\ IsFiniteSet(S)
  <2>1. L \in SUBSET P
    OBVIOUS
  <2>2. a \in Int /\ b - 1 \in Int
    OBVIOUS
  <2> HIDE DEF L
  <2> QED BY <2>1, <2>2, FS_Subset, FS_Interval
<1>8. \A m \in S : f[m] \in Int
  <2> SUFFICES ASSUME NEW m \in S PROVE f[m] \in Int
    OBVIOUS
  <2>1. k[m] \in L /\ k[m] <= m * n /\ m * n < Following(P, k[m])
    BY <1>4
  <2> HIDE DEF k
  <2> QED BY <1>0, <2>1
<1>9. Parted(g, L, f, S, k)
  BY <1>4 DEF Parted
<1> HIDE DEF g, k, S, L
<1>10. SumOver(g, L) = SumOver(f, S)
  BY <1>7, <1>8, <1>9, SumParts
<1>11. SumOver(h, L) = n * SumOver(g, L)
  <2> DEFINE w == [p \in L |-> n * g[p]]
  <2>1. \A p \in L : w[p] = n * g[p]
    OBVIOUS
  <2>2. SumOver(w, L) = n * SumOver(g, L)
    BY <1>6, <1>7, SumScaled
  <2> HIDE DEF w
  <2>3. \A p \in L : h[p] = w[p]
    BY <1>6, <2>1
  <2>4. SumOver(h, L) = SumOver(w, L)
    BY <1>7, <2>3, SumSame
  <2> QED BY <2>2, <2>4
<1> QED BY <1>10, <1>11 DEF L, S

-----------------------------------------------------------------------------
\* Shifts

DrawerRequests == {Drawer!Idle} \union Drawer!Request

\* What a transaction of the drawer may hold
LEMMA EntryKinds ==
    ASSUME Drawer!TypeOK, NEW r \in Calls
    PROVE  /\ entries[r].op = "entry" => entries[r].id \in ShiftIds /\ entries[r].amount \in Int
           /\ entries[r].op = "expense" =>
                 /\ entries[r].id \in ShiftIds /\ entries[r].row \in Expenses
                 /\ entries[r].amount \in Nat
           /\ entries[r].op = "edit" =>
                 /\ entries[r].row \in Expenses /\ entries[r].amount \in Nat
                 /\ entries[r].status \in {"active", "archived"}
           /\ entries[r].op \in {"close", "closing"} => entries[r].id \in ShiftIds
           /\ entries[r].op = "closing" => entries[r].counted \in Nat
<1>1. entries[r] \in DrawerRequests
  BY DEF Drawer!TypeOK, DrawerRequests
<1> QED BY <1>1 DEF DrawerRequests, Drawer!Idle, Drawer!Request

\* A step of a transaction changes its own entry only.
LEMMA OneEntry ==
    ASSUME Drawer!TypeOK, NEW r \in Calls, NEW q \in DrawerRequests,
           entries' = [entries EXCEPT ![r] = q]
    PROVE  /\ entries' \in [Calls -> DrawerRequests]
           /\ entries'[r] = q
           /\ \A x \in Calls \ {r} : entries'[x] = entries[x]
BY DEF Drawer!TypeOK, DrawerRequests

DrawerInv == Drawer!TypeOK

\* A shift that is closed and quiet stays as it is.
Resting ==
    \A k \in ShiftIds : Drawer!Quiet(k) =>
        Drawer!Quiet(k)' /\ cash'[k] = cash[k] /\ shift'[k] = shift[k] /\ logged'[k] = logged[k]

\* A step that only reads, for an open shift or about an expense of one
LEMMA EntryRead ==
    ASSUME DrawerInv, NEW r \in Calls, NEW q \in DrawerRequests,
           entries' = [entries EXCEPT ![r] = q], UNCHANGED <<shift, cash, expense>>,
           \A k \in ShiftIds : Drawer!Closed(k) =>
               /\ q.op \in {"entry", "expense", "close", "closing"} /\ q.id = k =>
                      entries[r].op = "close" /\ entries[r].id = k
               /\ q.op = "edit" => expense[q.row].shift # k
    PROVE  /\ logged' \in [ShiftIds -> Int] => DrawerInv'
           /\ \A k \in ShiftIds : Drawer!Quiet(k) => Drawer!Quiet(k)'
<1>1. logged' \in [ShiftIds -> Int] => DrawerInv'
  BY OneEntry DEF DrawerInv, Drawer!TypeOK, DrawerRequests
<1>2. ASSUME NEW k \in ShiftIds, Drawer!Quiet(k)
      PROVE  Drawer!Quiet(k)'
  BY <1>2, OneEntry DEF DrawerInv, Drawer!Quiet, Drawer!Touches, Drawer!Closed
<1> QED BY <1>1, <1>2

\* Every step of the drawer keeps its invariant.
LEMMA DrawerStep ==
    ASSUME DrawerInv, [TillNext]_tillVars
    PROVE  DrawerInv' /\ Resting
<1>0. Nobody \notin Staff /\ Amounts \subseteq Nat \ {0} /\ CashBound \in Nat
  BY TillAssumption DEF TillAssumption, Drawer!ShiftsAssumption
<1> USE <1>0
<1>1. Drawer!Idle \in DrawerRequests /\ Drawer!Idle.op = "idle"
  BY DEF DrawerRequests, Drawer!Idle
<1>2. CASE UNCHANGED shiftVars
  BY <1>2 DEF shiftVars, DrawerInv, Drawer!TypeOK, Resting,
     Drawer!Quiet, Drawer!Touches, Drawer!Closed
<1>3. ASSUME NEW r \in Calls, NEW k \in ShiftIds, NEW s \in Staff, NEW a \in Amounts \union {0},
             Drawer!OpenShift(r, k, s, a)
      PROVE  DrawerInv' /\ Resting
  <2>1. Drawer!NewShift(s) \in Drawer!Shift /\ Drawer!NewShift(s).staff = s
    BY DEF Drawer!NewShift, Drawer!Shift
  <2>2. DrawerInv'
    BY <1>3, <2>1 DEF Drawer!OpenShift, DrawerInv, Drawer!TypeOK
  <2>3. Resting
    BY <1>3 DEF Drawer!OpenShift, DrawerInv, Drawer!TypeOK, Resting, Drawer!Quiet,
       Drawer!Touches, Drawer!Closed
  <2> QED BY <2>2, <2>3
<1>4. ASSUME NEW r \in Calls, NEW k \in ShiftIds, NEW a \in Int, Drawer!EntryInsert(r, k, a)
      PROVE  DrawerInv' /\ Resting
  <2> DEFINE q == [op |-> "entry", id |-> k, amount |-> a]
  <2>1. q \in DrawerRequests
    BY DEF DrawerRequests, Drawer!Request
  <2> QED
    BY <1>4, <2>1, EntryRead DEF Drawer!EntryInsert, Drawer!Accepts, Drawer!Closed, DrawerInv,
       Drawer!TypeOK, Resting
<1>5. ASSUME NEW r \in Calls, NEW e \in Expenses, NEW k \in ShiftIds, NEW a \in Amounts,
             Drawer!ExpenseInsert(r, e, k, a)
      PROVE  DrawerInv' /\ Resting
  <2> DEFINE q == [op |-> "expense", id |-> k, row |-> e, amount |-> a]
  <2>1. q \in DrawerRequests
    BY DEF DrawerRequests, Drawer!Request
  <2> QED
    BY <1>5, <2>1, EntryRead DEF Drawer!ExpenseInsert, Drawer!Accepts, Drawer!Closed, DrawerInv,
       Drawer!TypeOK, Resting
<1>6. ASSUME NEW r \in Calls, NEW e \in Expenses, NEW a \in Amounts,
             NEW st \in {"active", "archived"}, Drawer!EditRead(r, e, a, st)
      PROVE  DrawerInv' /\ Resting
  <2> DEFINE q == [op |-> "edit", row |-> e, amount |-> a, status |-> st]
  <2>1. q \in DrawerRequests /\ q.op = "edit" /\ q.row = e
    BY DEF DrawerRequests, Drawer!Request
  <2>2. entries' = [entries EXCEPT ![r] = q] /\ UNCHANGED <<shift, cash, expense, logged>>
    BY <1>6 DEF Drawer!EditRead
  <2>3. \A k \in ShiftIds : Drawer!Closed(k) => expense[e].shift # k
    BY <1>6 DEF Drawer!EditRead, Drawer!Editable, Drawer!Closed
  <2> HIDE DEF q
  <2> QED BY <2>1, <2>2, <2>3, EntryRead DEF DrawerInv, Drawer!TypeOK, Resting
<1>7. ASSUME NEW r \in Calls, NEW k \in ShiftIds, Drawer!CloseRead(r, k)
      PROVE  DrawerInv' /\ Resting
  <2> DEFINE q == [op |-> "close", id |-> k]
  <2>1. q \in DrawerRequests
    BY DEF DrawerRequests, Drawer!Request
  <2> QED
    BY <1>7, <2>1, EntryRead DEF Drawer!CloseRead, Drawer!Closable, Drawer!Closed, DrawerInv,
       Drawer!TypeOK, Resting
<1>8. ASSUME NEW r \in Calls, NEW counted \in Amounts \union {0}, Drawer!CloseUpdate(r, counted)
      PROVE  DrawerInv' /\ Resting
  <2> DEFINE k == entries[r].id
             q == [op |-> "closing", id |-> k, counted |-> counted]
  <2>1. k \in ShiftIds /\ entries[r].op = "close"
    <3>1. entries[r].op = "close"
      BY <1>8 DEF Drawer!CloseUpdate
    <3> QED BY <3>1, EntryKinds DEF DrawerInv
  <2>2. q \in DrawerRequests
    <3>1. counted \in Nat
      OBVIOUS
    <3> HIDE DEF k
    <3> QED BY <2>1, <3>1 DEF DrawerRequests, Drawer!Request
  <2>3. /\ entries' = [entries EXCEPT ![r] = q] /\ UNCHANGED <<shift, cash, expense>>
        /\ logged' = [logged EXCEPT ![k] = counted - cash[k]]
    BY <1>8 DEF Drawer!CloseUpdate, Drawer!Variance
  <2>4. logged' \in [ShiftIds -> Int] /\ \A j \in ShiftIds \ {k} : logged'[j] = logged[j]
    BY <2>1, <2>3 DEF DrawerInv, Drawer!TypeOK
  <2>5. ~Drawer!Quiet(k)
    BY <2>1 DEF Drawer!Quiet, Drawer!Touches
  <2>6. DrawerInv' /\ \A j \in ShiftIds : Drawer!Quiet(j) => Drawer!Quiet(j)'
    BY <2>1, <2>2, <2>3, <2>4, EntryRead
  <2> HIDE DEF k
  <2> QED BY <2>3, <2>4, <2>5, <2>6 DEF Resting
<1>9. ASSUME NEW r \in Calls, Drawer!EntryCommit(r)
      PROVE  DrawerInv' /\ Resting
  <2>1. entries[r].id \in ShiftIds /\ entries[r].amount \in Int /\ entries[r].op = "entry"
    BY <1>9, EntryKinds DEF Drawer!EntryCommit, DrawerInv
  <2>2. entries' = [entries EXCEPT ![r] = Drawer!Idle]
    BY <1>9 DEF Drawer!EntryCommit, Drawer!Finish
  <2>3. DrawerInv'
    BY <1>1, <1>9, <2>1, <2>2, OneEntry DEF Drawer!EntryCommit, DrawerInv, Drawer!TypeOK, DrawerRequests
  <2>4. Resting
    BY <1>1, <1>9, <2>1, <2>2, OneEntry DEF Drawer!EntryCommit, DrawerInv, Drawer!TypeOK,
       Resting, Drawer!Quiet, Drawer!Touches, Drawer!Closed
  <2> QED BY <2>3, <2>4
<1>10. ASSUME NEW r \in Calls, Drawer!ExpenseCommit(r)
       PROVE  DrawerInv' /\ Resting
  <2> DEFINE k == entries[r].id
             e == entries[r].row
             a == entries[r].amount
             new == [status |-> "active", shift |-> k, amount |-> a]
  <2>1. k \in ShiftIds /\ e \in Expenses /\ a \in Nat /\ entries[r].op = "expense"
    BY <1>10, EntryKinds DEF Drawer!ExpenseCommit, DrawerInv
  <2>2. /\ entries' = [entries EXCEPT ![r] = Drawer!Idle]
        /\ expense' = [expense EXCEPT ![e] = new]
        /\ cash' = [cash EXCEPT ![k] = @ - a]
        /\ UNCHANGED <<shift, logged>>
    BY <1>10 DEF Drawer!ExpenseCommit, Drawer!Finish
  <2>3. new \in Drawer!Expense /\ new.shift = k
    BY <2>1 DEF Drawer!Expense
  <2>4. ~Drawer!Quiet(k)
    BY <2>1 DEF Drawer!Quiet, Drawer!Touches
  <2> HIDE DEF k, e, a, new
  <2>5. DrawerInv'
    BY <1>1, <2>1, <2>2, <2>3, OneEntry DEF DrawerInv, Drawer!TypeOK, DrawerRequests
  <2>6. \A x \in Expenses \ {e} : expense'[x] = expense[x]
    BY <2>2 DEF DrawerInv, Drawer!TypeOK
  <2>7. expense'[e].shift = k
    BY <2>1, <2>2, <2>3 DEF DrawerInv, Drawer!TypeOK
  <2>8. ASSUME NEW j \in ShiftIds, Drawer!Quiet(j)
        PROVE  Drawer!Quiet(j)' /\ cash'[j] = cash[j]
    <3>1. j # k
      BY <2>4, <2>8
    <3>2. ASSUME NEW x \in Calls PROVE ~Drawer!Touches(x, j)'
      <4>1. CASE x = r
        BY <1>1, <2>2, <4>1, OneEntry DEF Drawer!Touches, DrawerInv
      <4>2. CASE x # r
        <5>1. entries'[x] = entries[x] /\ ~Drawer!Touches(x, j)
          BY <1>1, <2>2, <2>8, <4>2, OneEntry DEF Drawer!Quiet, DrawerInv
        <5>2. entries[x].op = "edit" => entries[x].row \in Expenses
          BY EntryKinds DEF DrawerInv
        <5> QED BY <2>6, <2>7, <3>1, <5>1, <5>2 DEF Drawer!Touches
      <4> QED BY <4>1, <4>2
    <3> QED
      BY <2>1, <2>2, <2>8, <3>1, <3>2 DEF Drawer!Quiet, Drawer!Closed, DrawerInv, Drawer!TypeOK
  <2> QED BY <2>2, <2>5, <2>8 DEF Resting
<1>11. ASSUME NEW r \in Calls, Drawer!EditCommit(r)
       PROVE  DrawerInv' /\ Resting
  <2> DEFINE e == entries[r].row
             k == expense[e].shift
             new == [expense[e] EXCEPT !.status = entries[r].status, !.amount = entries[r].amount]
             change == Drawer!Spent(expense[e].status, expense[e].amount)
                           - Drawer!Spent(entries[r].status, entries[r].amount)
  <2>1. /\ e \in Expenses /\ entries[r].amount \in Nat /\ entries[r].op = "edit"
        /\ entries[r].status \in {"active", "archived"}
    BY <1>11, EntryKinds DEF Drawer!EditCommit, DrawerInv
  <2>2. expense[e] \in Drawer!Expense /\ k \in ShiftIds /\ expense[e].amount \in Nat
    BY <2>1 DEF DrawerInv, Drawer!TypeOK, Drawer!Expense
  <2>3. new \in Drawer!Expense /\ new.shift = k
    BY <2>1, <2>2 DEF Drawer!Expense
  <2>4. change \in Int
    BY <2>1, <2>2 DEF Drawer!Spent
  <2>5. /\ entries' = [entries EXCEPT ![r] = Drawer!Idle]
        /\ expense' = [expense EXCEPT ![e] = new]
        /\ cash' = [cash EXCEPT ![k] = @ + change]
        /\ UNCHANGED <<shift, logged>>
    BY <1>11, <2>1 DEF Drawer!EditCommit, Drawer!Finish, DrawerInv, Drawer!TypeOK
  <2>6. ~Drawer!Quiet(k)
    BY <2>1 DEF Drawer!Quiet, Drawer!Touches
  <2> HIDE DEF e, new, change
  <2>7. DrawerInv'
    BY <1>1, <2>1, <2>2, <2>3, <2>4, <2>5, OneEntry DEF DrawerInv, Drawer!TypeOK, DrawerRequests
  <2>8. \A x \in Expenses : expense'[x].shift = expense[x].shift
    BY <2>1, <2>3, <2>5 DEF DrawerInv, Drawer!TypeOK
  <2> HIDE DEF k
  <2>9. ASSUME NEW j \in ShiftIds, Drawer!Quiet(j)
        PROVE  Drawer!Quiet(j)' /\ cash'[j] = cash[j]
    <3>1. j # k
      BY <2>6, <2>9
    <3>2. ASSUME NEW x \in Calls PROVE ~Drawer!Touches(x, j)'
      <4>1. CASE x = r
        BY <1>1, <2>5, <4>1, OneEntry DEF Drawer!Touches, DrawerInv
      <4>2. CASE x # r
        <5>1. entries'[x] = entries[x] /\ ~Drawer!Touches(x, j)
          BY <1>1, <2>5, <2>9, <4>2, OneEntry DEF Drawer!Quiet, DrawerInv
        <5>2. entries[x].op = "edit" => entries[x].row \in Expenses
          BY EntryKinds DEF DrawerInv
        <5> QED BY <2>8, <5>1, <5>2 DEF Drawer!Touches
      <4> QED BY <4>1, <4>2
    <3> QED
      BY <2>2, <2>5, <2>9, <3>1, <3>2 DEF Drawer!Quiet, Drawer!Closed, DrawerInv, Drawer!TypeOK
  <2> QED BY <2>5, <2>7, <2>9 DEF Resting
<1>12. ASSUME NEW r \in Calls, Drawer!CloseCommit(r)
       PROVE  DrawerInv' /\ Resting
  <2> DEFINE k == entries[r].id
             new == [shift[k] EXCEPT !.status = "closed", !.counted = entries[r].counted]
  <2>1. k \in ShiftIds /\ entries[r].counted \in Nat /\ entries[r].op = "closing"
    BY <1>12, EntryKinds DEF Drawer!CloseCommit, DrawerInv
  <2>2. shift[k] \in Drawer!Shift
    BY <2>1 DEF DrawerInv, Drawer!TypeOK
  <2>3. new \in Drawer!Shift /\ new.status = "closed"
    BY <2>1, <2>2 DEF Drawer!Shift
  <2>4. /\ entries' = [entries EXCEPT ![r] = Drawer!Idle]
        /\ shift' = [shift EXCEPT ![k] = new]
        /\ UNCHANGED <<cash, expense, logged>>
    BY <1>12, <2>1 DEF Drawer!CloseCommit, Drawer!Finish, DrawerInv, Drawer!TypeOK
  <2>5. ~Drawer!Quiet(k)
    BY <2>1 DEF Drawer!Quiet, Drawer!Touches
  <2> HIDE DEF k, new
  <2>6. DrawerInv'
    BY <1>1, <2>1, <2>3, <2>4, OneEntry DEF DrawerInv, Drawer!TypeOK, DrawerRequests
  <2>7. Resting
    BY <1>1, <2>1, <2>4, <2>5, OneEntry DEF DrawerInv, Drawer!TypeOK, Resting, Drawer!Quiet,
       Drawer!Touches, Drawer!Closed
  <2> QED BY <2>6, <2>7
<1>13. ASSUME NEW r \in Calls, Drawer!Abort(r)
       PROVE  DrawerInv' /\ Resting
  BY <1>1, <1>13, EntryRead DEF Drawer!Abort, Drawer!Finish, DrawerInv, Drawer!TypeOK, Resting
<1>14. UNCHANGED shiftVars \/ \E r \in Calls : Drawer!Step(r)
  BY DEF TillNext, tillVars, shiftVars, Drawer!Next
<1>15. \A a \in Amounts : a \in Int /\ -a \in Int
  OBVIOUS
<1> QED
  BY <1>2, <1>3, <1>4, <1>5, <1>6, <1>7, <1>8, <1>9, <1>10, <1>11, <1>12, <1>13, <1>14, <1>15
     DEF Drawer!Step

\* So the invariant of the drawer holds always, in every scene.
LEMMA DrawerAlways == TillSpec => []DrawerInv
<1>1. TillInit => DrawerInv
  BY DEF TillInit, Drawer!Init, DrawerInv, Drawer!TypeOK,
     Drawer!Shift, Drawer!Expense
<1>2. DrawerInv /\ [TillNext]_tillVars => DrawerInv'
  BY DrawerStep
<1> QED BY <1>1, <1>2, PTL DEF TillSpec, tillVars

\* The trigger on payments, movements and expenses and the check of update_expense leave a
\* race with transactions that were open when the shift was closed, and with no other.
THEOREM ClosedIsClosed == TillSpec => QuietForEver
<1>1. DrawerInv /\ [TillNext]_tillVars => [Resting]_shiftVars
  BY DrawerStep
<1>2. TillSpec => [][Resting]_shiftVars
  BY <1>1, DrawerAlways, PTL DEF TillSpec, tillVars
<1>3. [][Resting]_shiftVars => QuietForEver
  BY PTL DEF Resting, shiftVars, QuietForEver, Drawer!QuietForEver, Drawer!vars
<1> QED BY <1>2, <1>3

-----------------------------------------------------------------------------
\* Bills

Requesters == Calls \union {DeskRequest}

Columns == {"status", "play", "closed", "method", "paid", "discount", "debt", "tip", "proof"}

\* As much of the types as the proofs need: what the sums of a bill are is left open.
BillRows ==
    /\ DOMAIN bill = Bookings
    /\ \A b \in Bookings : DOMAIN bill[b] = Columns
    /\ order \in [Orders -> Tills!Order]
    /\ taken \in [Bookings \union Orders -> [Tills!Methods -> Nat]]
    /\ back \in [Orders -> [Tills!Methods -> Nat]]

\* What a transaction in flight knows: it never takes an order back to NONE or CANCELLED,
\* and a receipt it has seen did come.
Known(q) ==
    \/ q = Tills!Idle
    \/ q.op = "advance" /\ q.id \in Orders /\ q.next \in {"ACCEPTED", "PREPARING", "DELIVERED"}
    \/ q.op = "cancel" /\ q.id \in Orders
    \/ /\ q.op \in {"bill", "close"}
       /\ q.id \in Bookings
       /\ q.proof = "SUBMITTED" /\ q.id \in Members => q.id \in photos

InFlight == DOMAIN req = Requesters /\ \A r \in Requesters : Known(req[r])

Receipts == \A b \in Members : bill[b].proof = "SUBMITTED" => b \in photos

\* One request at a time: the bill it has read is still open.
AtTheDesk ==
    scene = "desk" =>
        /\ Tills!PaidOnce
        /\ req[DeskRequest].op \in {"bill", "close"} => Tills!OpenBill(req[DeskRequest].id)

TillsInv ==
    /\ BillRows /\ InFlight /\ Receipts
    /\ Tills!RefundedOnce /\ Tills!TransferHasReceipt
    /\ AtTheDesk

\* A step of a transaction changes its own memory only.
LEMMA OneRequest ==
    ASSUME InFlight, NEW r \in Requesters, NEW q, Known(q),
           req' = [req EXCEPT ![r] = q], UNCHANGED photos
    PROVE  InFlight' /\ req'[r] = q /\ \A x \in Requesters \ {r} : req'[x] = req[x]
<1>1. DOMAIN req' = Requesters /\ req'[r] = q /\ \A x \in Requesters \ {r} : req'[x] = req[x]
  BY DEF InFlight
<1>2. ASSUME NEW x \in Requesters PROVE Known(req[x])'
  BY <1>1 DEF InFlight, Known
<1> QED BY <1>1, <1>2 DEF InFlight

\* A request that has answered holds nothing.
LEMMA Ended ==
    ASSUME InFlight, NEW r \in Requesters, Tills!Finish(r), UNCHANGED photos
    PROVE  /\ InFlight' /\ \A x \in Requesters \ {r} : req'[x] = req[x]
           /\ req'[r].op = "idle"
<1>1. Known(Tills!Idle) /\ Tills!Idle.op = "idle"
  BY DEF Known, Tills!Idle
<1> QED BY <1>1, OneRequest DEF Tills!Finish

\* An UPDATE of bookings changes one row only.
LEMMA OneBill ==
    ASSUME BillRows, NEW b \in Bookings, NEW row, DOMAIN row = Columns,
           bill' = [bill EXCEPT ![b] = row], UNCHANGED <<order, back>>,
           taken' \in [Bookings \union Orders -> [Tills!Methods -> Nat]]
    PROVE  BillRows' /\ bill'[b] = row /\ \A c \in Bookings \ {b} : bill'[c] = bill[c]
BY DEF BillRows

\* A step that reads, for the memory of the transaction
LEMMA ReadOnly ==
    ASSUME TillsInv, NEW r \in Requesters, NEW q, Known(q),
           scene' = scene, req' = [req EXCEPT ![r] = q],
           UNCHANGED <<bill, order, stock, taken, back, photos>>,
           scene = "desk" /\ q.op \in {"bill", "close"} => Tills!OpenBill(q.id),
           scene = "desk" => r = DeskRequest
    PROVE  TillsInv'
<1>1. InFlight' /\ req'[r] = q
  BY OneRequest DEF TillsInv
<1>2. AtTheDesk'
  BY <1>1 DEF TillsInv, AtTheDesk, Tills!PaidOnce, Tills!OpenBill
<1> QED
  BY <1>1, <1>2 DEF TillsInv, BillRows, Receipts, Tills!RefundedOnce, Tills!TransferHasReceipt

\* The steps of orders (create_order, advance_order, cancel_order) keep the invariant,
LEMMA OrdersKeep ==
    ASSUME TillsInv, TillAssumption, scene' = scene, NEW r \in Requesters, Tills!OrderStep(r),
           scene = "desk" => r = DeskRequest
    PROVE  TillsInv'
<1> USE DEF Tills!BillsAssumption, TillAssumption
<1>1. ASSUME NEW o \in Orders, Tills!AdvanceRead(r, o)
      PROVE  TillsInv'
  <2> DEFINE next == Tills!NextStatus(order[o].status)
             q == [op |-> "advance", id |-> o, next |-> next]
  <2>1. next \in {"ACCEPTED", "PREPARING", "DELIVERED"}
    BY <1>1 DEF Tills!AdvanceRead, Tills!NextStatus
  <2>2. Known(q) /\ q.op = "advance"
    BY <2>1 DEF Known
  <2>3. req' = [req EXCEPT ![r] = q] /\ UNCHANGED <<bill, order, stock, taken, back, photos>>
    BY <1>1 DEF Tills!AdvanceRead
  <2> HIDE DEF q
  <2> QED BY <2>2, <2>3, ReadOnly
<1>2. ASSUME NEW o \in Orders, Tills!CancelRead(r, o)
      PROVE  TillsInv'
  <2> DEFINE q == [op |-> "cancel", id |-> o]
  <2>1. Known(q) /\ q.op = "cancel"
    BY DEF Known
  <2>2. req' = [req EXCEPT ![r] = q] /\ UNCHANGED <<bill, order, stock, taken, back, photos>>
    BY <1>2 DEF Tills!CancelRead
  <2> HIDE DEF q
  <2> QED BY <2>1, <2>2, ReadOnly
<1>3. ASSUME NEW o \in Orders, NEW b \in Bookings \union {NoBooking}, NEW qty \in Qtys,
             NEW m \in Tills!Methods \union {"NULL"}, Tills!CreateOrder(r, o, b, qty, m)
      PROVE  TillsInv'
  <2> DEFINE new == [status |-> "NEW", booking |-> b, qty |-> qty]
             sum == Price * qty
  <2>1. new \in Tills!Order /\ new.status = "NEW" /\ sum \in Nat
    <3>1. Price \in Nat /\ qty \in Nat
      OBVIOUS
    <3>2. sum \in Nat
      <4> HIDE DEF TillAssumption, Tills!BillsAssumption
      <4> QED BY <3>1
    <3>3. qty \in Qtys /\ b \in Bookings \union {NoBooking}
      OBVIOUS
    <3> HIDE DEF TillAssumption, Tills!BillsAssumption, sum
    <3> QED BY <3>1, <3>2, <3>3 DEF Tills!Order, Tills!OrderStatuses
  <2> HIDE DEF new, sum
  <2>2. /\ order' = [order EXCEPT ![o] = new] /\ order[o].status = "NONE"
        /\ UNCHANGED <<bill, back, photos, req>>
    BY <1>3 DEF Tills!CreateOrder, new
  <2>3. \/ taken' = taken
        \/ m \in Tills!Methods /\ taken' = [taken EXCEPT ![o][m] = taken[o][m] + sum]
    BY <1>3 DEF Tills!CreateOrder, sum
  <2>4. /\ taken' \in [Bookings \union Orders -> [Tills!Methods -> Nat]]
        /\ \A x \in (Bookings \union Orders) \ {o} : taken'[x] = taken[x]
        /\ \A n \in Tills!Methods : taken'[o][n] >= taken[o][n]
    <3> DEFINE ledger == [taken[o] EXCEPT ![m] = taken[o][m] + sum]
    <3>1. /\ taken[o] \in [Tills!Methods -> Nat]
          /\ taken \in [Bookings \union Orders -> [Tills!Methods -> Nat]]
      BY DEF TillsInv, BillRows
    <3>2. CASE taken' = taken
      BY <3>1, <3>2
    <3>3. CASE m \in Tills!Methods /\ taken' = [taken EXCEPT ![o] = ledger]
      <4>1. ledger \in [Tills!Methods -> Nat]
               /\ \A n \in Tills!Methods : ledger[n] >= taken[o][n]
        BY <2>1, <3>1, <3>3
      <4> HIDE DEF ledger
      <4> QED BY <3>1, <3>3, <4>1
    <3> QED BY <2>3, <3>2, <3>3
  <2>5. BillRows'
    <3>1. order' \in [Orders -> Tills!Order]
      BY <2>1, <2>2 DEF TillsInv, BillRows
    <3>2. bill' = bill /\ back' = back
      BY <2>2
    <3> QED BY <2>4, <3>1, <3>2 DEF TillsInv, BillRows
  <2>6. Tills!RefundedOnce'
    <3>1. ASSUME NEW p \in Orders, NEW n \in Tills!Methods
          PROVE  /\ back'[p][n] <= taken'[p][n]
                 /\ order'[p].status = "CANCELLED" => back'[p][n] = taken'[p][n]
      <4>1. /\ back[p][n] \in Nat /\ taken[p][n] \in Nat /\ taken'[p][n] \in Nat
            /\ back[p][n] <= taken[p][n]
            /\ order[p].status = "CANCELLED" => back[p][n] = taken[p][n]
        BY <2>4 DEF TillsInv, BillRows, Tills!RefundedOnce
      <4>2. CASE p = o
        BY <2>1, <2>2, <2>4, <4>1, <4>2 DEF TillsInv, BillRows
      <4>3. CASE p # o
        BY <2>2, <2>4, <4>1, <4>3 DEF TillsInv, BillRows
      <4> QED BY <4>2, <4>3
    <3> QED BY <3>1 DEF Tills!RefundedOnce
  <2>7. AtTheDesk'
    BY <2>2, <2>4 DEF TillsInv, AtTheDesk, Tills!PaidOnce, Tills!OpenBill
  <2> QED
    BY <2>2, <2>5, <2>6, <2>7
       DEF TillsInv, InFlight, Known, Receipts, Tills!TransferHasReceipt
<1>4. ASSUME Tills!AdvanceWrite(r)
      PROVE  TillsInv'
  <2> DEFINE o == req[r].id
             new == [order[o] EXCEPT !.status = req[r].next]
  <2>1. o \in Orders /\ req[r].next \in {"ACCEPTED", "PREPARING", "DELIVERED"}
    BY <1>4 DEF Tills!AdvanceWrite, TillsInv, InFlight, Known, Tills!Idle
  <2>2. new \in Tills!Order /\ new.status # "CANCELLED"
    <3>1. order[o] \in Tills!Order
      BY <2>1 DEF TillsInv, BillRows
    <3> QED BY <2>1, <3>1 DEF Tills!Order, Tills!OrderStatuses
  <2>3. /\ order' = [order EXCEPT ![o] = new] /\ Tills!Finish(r)
        /\ UNCHANGED <<bill, stock, taken, back, photos>>
    BY <1>4, <2>1 DEF Tills!AdvanceWrite, TillsInv, BillRows
  <2> HIDE DEF o, new
  <2>4. InFlight' /\ req'[r].op = "idle"
    BY <2>3, Ended DEF TillsInv
  <2>5. BillRows' /\ Tills!RefundedOnce'
    BY <2>1, <2>2, <2>3 DEF TillsInv, BillRows, Tills!RefundedOnce
  <2>6. AtTheDesk'
    BY <2>3, <2>4 DEF TillsInv, AtTheDesk, Tills!PaidOnce
  <2> QED
    BY <2>3, <2>4, <2>5, <2>6 DEF TillsInv, Receipts, Tills!TransferHasReceipt
<1>5. ASSUME Tills!CancelWrite(r)
      PROVE  TillsInv'
  <2> DEFINE o == req[r].id
             new == [order[o] EXCEPT !.status = "CANCELLED"]
             refund == Tills!Refunded(o)
  <2>1. o \in Orders
    BY <1>5 DEF Tills!CancelWrite, TillsInv, InFlight, Known, Tills!Idle
  <2>2. new \in Tills!Order
    <3>1. order[o] \in Tills!Order
      BY <2>1 DEF TillsInv, BillRows
    <3> QED BY <3>1 DEF Tills!Order, Tills!OrderStatuses
  <2>3. /\ order' = [order EXCEPT ![o] = new] /\ back' = [back EXCEPT ![o] = refund]
        /\ Tills!Finish(r) /\ UNCHANGED <<bill, taken, photos>>
    BY <1>5, <2>1 DEF Tills!CancelWrite, TillsInv, BillRows
  <2>4. refund \in [Tills!Methods -> Nat] /\ \A m \in Tills!Methods : refund[m] = taken[o][m]
    BY <2>1 DEF Tills!Refunded, TillsInv, BillRows, Tills!RefundedOnce
  <2> HIDE DEF o, new, refund
  <2>5. InFlight' /\ req'[r].op = "idle"
    BY <2>3, Ended DEF TillsInv
  <2>6. BillRows' /\ Tills!RefundedOnce'
    BY <2>1, <2>2, <2>3, <2>4 DEF TillsInv, BillRows, Tills!RefundedOnce
  <2>7. AtTheDesk'
    BY <2>3, <2>5 DEF TillsInv, AtTheDesk, Tills!PaidOnce
  <2> QED
    BY <2>3, <2>5, <2>6, <2>7 DEF TillsInv, Receipts, Tills!TransferHasReceipt
<1> QED BY <1>1, <1>2, <1>3, <1>4, <1>5 DEF Tills!OrderStep

\* ... so do those of sessions (bill lines, close_bill, payments), ...
LEMMA BillsKeep ==
    ASSUME TillsInv, TillAssumption, scene' = scene, NEW r \in Requesters,
           Tills!BillStep(r) \/ Tills!Abort(r),
           scene = "desk" => r = DeskRequest
    PROVE  TillsInv'
<1> USE DEF Tills!BillsAssumption, TillAssumption
<1>1. ASSUME NEW b \in Bookings, Tills!CloseRead(r, b)
      PROVE  TillsInv'
  <2> DEFINE q == [op |-> "bill", id |-> b, play |-> bill[b].play, proof |-> bill[b].proof]
  <2>1. Known(q) /\ q.op = "bill" /\ q.id = b
    BY DEF Known, TillsInv, Receipts
  <2>2. /\ req' = [req EXCEPT ![r] = q] /\ Tills!OpenBill(b)
        /\ UNCHANGED <<bill, order, stock, taken, back, photos>>
    BY <1>1 DEF Tills!CloseRead
  <2> HIDE DEF q
  <2> QED BY <2>1, <2>2, ReadOnly
<1>2. ASSUME Tills!CloseSum(r)
      PROVE  TillsInv'
  <2> DEFINE total == req[r].play + Tills!OrdersTotal(req[r].id)
  <2> HIDE DEF total
  <2> DEFINE q == [op |-> "close", id |-> req[r].id, proof |-> req[r].proof, total |-> total]
  <2>1. Known(req[r]) /\ req[r].op = "bill"
    BY <1>2 DEF Tills!CloseSum, TillsInv, InFlight
  <2>2. Known(q) /\ q.op = "close" /\ q.id = req[r].id
    BY <2>1 DEF Known, Tills!Idle
  <2>3. /\ req' = [req EXCEPT ![r] = q]
        /\ UNCHANGED <<bill, order, stock, taken, back, photos>>
    BY <1>2 DEF Tills!CloseSum, total
  <2>4. scene = "desk" => Tills!OpenBill(req[r].id)
    BY <2>1 DEF TillsInv, AtTheDesk
  <2> HIDE DEF q
  <2> QED BY <2>2, <2>3, <2>4, ReadOnly
<1>3. ASSUME NEW m \in Tills!Methods, Tills!AskForProof(r, m)
      PROVE  TillsInv'
  <2> DEFINE b == req[r].id
             row == [bill[b] EXCEPT !.proof = "PENDING"]
  <2>1. b \in Bookings /\ Tills!Finish(r) /\ UNCHANGED <<order, stock, taken, back, photos>>
    BY <1>3 DEF Tills!AskForProof, TillsInv, InFlight, Known, Tills!Idle
  <2>2. InFlight' /\ req'[r].op = "idle"
    BY <2>1, Ended DEF TillsInv
  <2>3. CASE bill' = bill
    <3>1. AtTheDesk'
      BY <2>1, <2>2, <2>3 DEF TillsInv, AtTheDesk, Tills!PaidOnce
    <3> QED
      BY <2>1, <2>2, <2>3, <3>1
         DEF TillsInv, BillRows, Receipts, Tills!RefundedOnce, Tills!TransferHasReceipt
  <2>4. CASE bill' = [bill EXCEPT ![b] = row]
    <3>1. /\ DOMAIN row = Columns /\ row.proof = "PENDING"
          /\ row.closed = bill[b].closed /\ row.method = bill[b].method
          /\ row.status = bill[b].status /\ row.paid = bill[b].paid
      BY <2>1 DEF TillsInv, BillRows, Columns
    <3> HIDE DEF row, b
    <3>2. /\ BillRows' /\ bill'[b] = row
          /\ \A c \in Bookings \ {b} : bill'[c] = bill[c]
      BY <2>1, <2>4, <3>1, OneBill DEF TillsInv, BillRows
    <3>3. Receipts' /\ Tills!TransferHasReceipt'
      BY <2>1, <3>1, <3>2 DEF TillsInv, Receipts, Tills!TransferHasReceipt
    <3>4. AtTheDesk'
      BY <2>1, <2>2, <3>1, <3>2 DEF TillsInv, AtTheDesk, Tills!PaidOnce
    <3> QED
      BY <2>1, <2>2, <3>2, <3>3, <3>4 DEF TillsInv, Tills!RefundedOnce
  <2>5. bill' = bill \/ bill' = [bill EXCEPT ![b] = row]
    BY <1>3, <2>1 DEF Tills!AskForProof, TillsInv, BillRows
  <2> QED BY <2>3, <2>4, <2>5
<1>4. ASSUME NEW m \in Tills!Methods, NEW paid \in 0 .. MaxPaid,
             NEW why \in {"DISCOUNT", "DEBT", "TIP", "NONE"}, NEW role \in {"STAFF", "OWNER"},
             Tills!CloseWrite(r, m, paid, why, role)
      PROVE  TillsInv'
  <2> DEFINE b == req[r].id
             discount == Tills!Shortfall(req[r].total, paid, why, "DISCOUNT")
             debt == Tills!Shortfall(req[r].total, paid, why, "DEBT")
             tip == IF paid > req[r].total THEN paid - req[r].total ELSE 0
             proof == IF m = "TRANSFER" /\ b \in Members THEN "CONFIRMED" ELSE "NULL"
  <2> HIDE DEF discount, debt, tip
  <2> DEFINE row == [bill[b] EXCEPT !.closed = TRUE, !.method = m, !.paid = paid,
                                    !.discount = discount, !.debt = debt, !.tip = tip,
                                    !.proof = proof]
  <2>1. /\ b \in Bookings /\ Tills!Finish(r) /\ UNCHANGED <<order, stock, back, photos>>
        /\ req[r].op = "close" /\ Known(req[r])
    BY <1>4 DEF Tills!CloseWrite, TillsInv, InFlight, Known, Tills!Idle
  <2>2. /\ taken' = [taken EXCEPT ![b][m] = @ + paid]
        /\ bill' = [bill EXCEPT ![b] = row]
    BY <1>4, <2>1 DEF Tills!CloseWrite, TillsInv, BillRows, discount, debt, tip
  <2>3. m = "TRANSFER" /\ b \in Members => b \in photos
    BY <1>4, <2>1 DEF Tills!CloseWrite, Tills!NeedsProof, Known, Tills!Idle
  <2>4. /\ DOMAIN row = Columns /\ row.closed /\ row.method = m /\ row.paid = paid
        /\ row.status = bill[b].status /\ row.proof # "SUBMITTED"
    BY <2>1 DEF TillsInv, BillRows, Columns
  <2>5. paid \in Nat
    BY DEF Tills!BillsAssumption
  <2>6. InFlight' /\ req'[r].op = "idle"
    BY <2>1, Ended DEF TillsInv
  <2>7. scene = "desk" => Tills!OpenBill(b)
    BY <2>1 DEF TillsInv, AtTheDesk
  <2> HIDE DEF b, row
  <2>8. /\ taken' \in [Bookings \union Orders -> [Tills!Methods -> Nat]]
        /\ taken'[b][m] = taken[b][m] + paid
        /\ \A n \in Tills!Methods \ {m} : taken'[b][n] = taken[b][n]
        /\ \A x \in (Bookings \union Orders) \ {b} : taken'[x] = taken[x]
    BY <2>1, <2>2, <2>5 DEF TillsInv, BillRows
  <2>9. BillRows' /\ bill'[b] = row /\ \A c \in Bookings \ {b} : bill'[c] = bill[c]
    BY <2>1, <2>2, <2>4, <2>8, OneBill DEF TillsInv
  <2>10. Receipts' /\ Tills!TransferHasReceipt'
    BY <2>1, <2>3, <2>4, <2>9 DEF TillsInv, Receipts, Tills!TransferHasReceipt
  <2>11. Tills!RefundedOnce'
    BY <2>1, <2>8 DEF TillsInv, Tills!RefundedOnce, Tills!BillsAssumption
  <2>12. AtTheDesk'
    <3>1. ASSUME scene = "desk", NEW c \in Bookings
          PROVE  /\ bill'[c].closed => bill'[c].status # "CANCELLED"
                 /\ \A n \in Tills!Methods :
                      taken'[c][n] = IF bill'[c].closed /\ bill'[c].method = n
                                     THEN bill'[c].paid ELSE 0
      <4>1. CASE c = b
        BY <2>4, <2>5, <2>7, <2>8, <2>9, <3>1, <4>1
           DEF TillsInv, AtTheDesk, Tills!PaidOnce, Tills!OpenBill
      <4>2. CASE c # b
        BY <2>8, <2>9, <3>1, <4>2 DEF TillsInv, AtTheDesk, Tills!PaidOnce
      <4> QED BY <4>1, <4>2
    <3> QED BY <2>6, <3>1 DEF AtTheDesk, Tills!PaidOnce
  <2> QED
    BY <2>6, <2>9, <2>10, <2>11, <2>12 DEF TillsInv
<1>5. ASSUME NEW b \in Bookings, NEW row, bill' = [bill EXCEPT ![b] = row],
             Tills!OpenBill(b), Tills!Free(r), DOMAIN row = Columns,
             ~row.closed, row.method = bill[b].method, row.proof = bill[b].proof,
             UNCHANGED <<order, stock, taken, back, photos, req>>
      PROVE  TillsInv'
  <2>1. BillRows' /\ bill'[b] = row /\ \A c \in Bookings \ {b} : bill'[c] = bill[c]
    BY <1>5, OneBill DEF TillsInv, BillRows
  <2>2. Receipts' /\ Tills!TransferHasReceipt'
    BY <1>5, <2>1 DEF TillsInv, Receipts, Tills!TransferHasReceipt
  <2>3. AtTheDesk'
    BY <1>5, <2>1 DEF TillsInv, AtTheDesk, Tills!PaidOnce, Tills!OpenBill, Tills!Free, Tills!Idle
  <2> QED
    BY <1>5, <2>1, <2>2, <2>3 DEF TillsInv, InFlight, Known, Tills!RefundedOnce
<1>6. ASSUME NEW b \in Bookings, Tills!GrowPlay(r, b)
      PROVE  TillsInv'
  <2> DEFINE more == bill[b].play + 1
  <2> HIDE DEF more
  <2> DEFINE row == [bill[b] EXCEPT !.play = more]
  <2>1. /\ DOMAIN row = Columns /\ row.closed = bill[b].closed
        /\ row.method = bill[b].method /\ row.proof = bill[b].proof
    BY DEF TillsInv, BillRows, Columns
  <2>2. /\ bill' = [bill EXCEPT ![b] = row] /\ Tills!OpenBill(b) /\ Tills!Free(r)
        /\ UNCHANGED <<order, stock, taken, back, photos, req>>
    BY <1>6 DEF Tills!GrowPlay, TillsInv, BillRows, more, Columns
  <2> HIDE DEF row
  <2> QED BY <1>5, <2>1, <2>2 DEF Tills!OpenBill
<1>7. ASSUME NEW b \in Bookings, Tills!CancelBooking(r, b)
      PROVE  TillsInv'
  <2> DEFINE row == [bill[b] EXCEPT !.status = "CANCELLED"]
  <2>1. /\ DOMAIN row = Columns /\ row.closed = bill[b].closed
        /\ row.method = bill[b].method /\ row.proof = bill[b].proof
    BY DEF TillsInv, BillRows, Columns
  <2>2. /\ bill' = [bill EXCEPT ![b] = row] /\ Tills!OpenBill(b) /\ Tills!Free(r)
        /\ UNCHANGED <<order, stock, taken, back, photos, req>>
    BY <1>7 DEF Tills!CancelBooking, TillsInv, BillRows
  <2> HIDE DEF row
  <2> QED BY <1>5, <2>1, <2>2 DEF Tills!OpenBill
<1>8. ASSUME Tills!Abort(r)
      PROVE  TillsInv'
  <2>1. Known(Tills!Idle) /\ Tills!Idle.op = "idle"
    BY DEF Known, Tills!Idle
  <2> QED BY <1>8, <2>1, ReadOnly DEF Tills!Abort, Tills!Finish
<1> QED BY <1>1, <1>2, <1>3, <1>4, <1>6, <1>7, <1>8 DEF Tills!BillStep

\* ... and so does the bot with a receipt (bot_submit_payment_proof).
LEMMA ProofsKeep ==
    ASSUME TillsInv, TillAssumption, scene' = scene, NEW b \in Bookings, Tills!SubmitProof(b)
    PROVE  TillsInv'
<1> DEFINE row == [bill[b] EXCEPT !.proof = "SUBMITTED"]
<1>1. /\ DOMAIN row = Columns /\ row.closed = bill[b].closed /\ row.method = bill[b].method
      /\ row.status = bill[b].status /\ row.paid = bill[b].paid
  BY DEF TillsInv, BillRows, Columns
<1>2. /\ bill' = [bill EXCEPT ![b] = row] /\ photos' = photos \union {b}
      /\ UNCHANGED <<order, stock, taken, back, req>>
  BY DEF Tills!SubmitProof, TillsInv, BillRows
<1> HIDE DEF row
<1>3. BillRows' /\ bill'[b] = row /\ \A c \in Bookings \ {b} : bill'[c] = bill[c]
  BY <1>1, <1>2, OneBill DEF TillsInv, BillRows
<1>4. InFlight'
  BY <1>2 DEF TillsInv, InFlight, Known
<1>5. Receipts' /\ Tills!TransferHasReceipt'
  BY <1>1, <1>2, <1>3
     DEF TillsInv, Receipts, Tills!TransferHasReceipt, TillAssumption, Tills!BillsAssumption
<1>6. ASSUME NEW c \in Bookings
      PROVE  /\ bill'[c].closed = bill[c].closed /\ bill'[c].method = bill[c].method
             /\ bill'[c].status = bill[c].status /\ bill'[c].paid = bill[c].paid
  BY <1>1, <1>3
<1>7. Tills!PaidOnce => Tills!PaidOnce'
  BY <1>2, <1>6 DEF Tills!PaidOnce
<1>8. InFlight /\ DeskRequest \in Requesters
  BY DEF TillsInv, Requesters
<1>9. req[DeskRequest].op \in {"bill", "close"} => req[DeskRequest].id \in Bookings
  BY <1>8 DEF InFlight, Known, Tills!Idle
<1>10. AtTheDesk'
  BY <1>2, <1>6, <1>7, <1>9 DEF TillsInv, AtTheDesk, Tills!OpenBill
<1> QED
  BY <1>2, <1>3, <1>4, <1>5, <1>10 DEF TillsInv, Tills!RefundedOnce

\* So the invariant of the bills holds always, in every scene.
LEMMA TillsAlways == TillSpec => []TillsInv
<1> USE TillAssumption
<1>1. ASSUME TillInit
      PROVE  TillsInv
  <2>1. BillRows
    BY <1>1 DEF TillInit, Tills!Init, BillRows, Columns, Tills!Order, Tills!OrderStatuses
  <2>2. InFlight /\ \A r \in Requesters : req[r].op = "idle"
    BY <1>1 DEF TillInit, Tills!Init, InFlight, Known, Tills!Idle, Requesters
  <2>3. Receipts /\ Tills!TransferHasReceipt
    BY <1>1 DEF TillInit, Tills!Init, Receipts, Tills!TransferHasReceipt, TillAssumption,
       Tills!BillsAssumption
  <2>4. Tills!RefundedOnce
    BY <1>1 DEF TillInit, Tills!Init, Tills!RefundedOnce
  <2>5. AtTheDesk
    BY <1>1, <2>2 DEF TillInit, Tills!Init, AtTheDesk, Tills!PaidOnce, Requesters
  <2> QED BY <2>1, <2>2, <2>3, <2>4, <2>5 DEF TillsInv
<1>2. ASSUME TillsInv, [TillNext]_tillVars
      PROVE  TillsInv'
  <2>1. CASE UNCHANGED <<scene, billVars>>
    BY <1>2, <2>1 DEF billVars, TillsInv, BillRows, InFlight, Known, Receipts, AtTheDesk,
       Tills!RefundedOnce, Tills!TransferHasReceipt, Tills!PaidOnce, Tills!OpenBill
  <2>2. ASSUME NEW r \in Requesters, Tills!Handle(r), scene' = scene,
               scene = "desk" => r = DeskRequest
        PROVE  TillsInv'
    BY <1>2, <2>2, OrdersKeep, BillsKeep DEF Tills!Handle
  <2>3. ASSUME Proofs, scene' = scene
        PROVE  TillsInv'
    BY <1>2, <2>3, ProofsKeep DEF Proofs
  <2> QED
    BY <1>2, <2>1, <2>2, <2>3 DEF TillNext, tillVars, Requesters
<1> QED BY <1>1, <1>2, PTL DEF TillSpec, tillVars

\* Whatever overlaps, a cancelled sale is refunded once and no bill of a guest of the bot is
\* closed by transfer without a receipt; one request at a time, an open bill has no payment
\* and a closed one exactly the payment its row shows (cancel_order, close_bill,
\* bot_submit_payment_proof).
THEOREM MoneyAddsUp == TillSpec => []BillsAddUp
<1>1. TillsInv => BillsAddUp
  BY DEF TillsInv, AtTheDesk, BillsAddUp
<1> QED BY <1>1, TillsAlways, PTL

-----------------------------------------------------------------------------
\* What the sums of a bill come to, and the types of Bills

\* What the sums over orders need of the constants
LEMMA Countable == IsFiniteSet(Orders) /\ Price \in Nat
BY TillAssumption DEF TillAssumption, Tills!BillsAssumption, IsFiniteSet, Tills!IsFiniteSet

\* Columns that a sum is about, as functions
Amount == [o \in Orders |-> Price * order[o].qty]
Qty == [o \in Orders |-> order[o].qty]

\* What the orders of a booking come to, as a sum (_orders_total)
LEMMA AmountsSum ==
    \A S \in SUBSET Orders :
        Tills!MapThenSumSet(LAMBDA o : Price * order[o].qty, S) = SumOver(Amount, S)
<1> SUFFICES ASSUME NEW S \in SUBSET Orders
             PROVE  Tills!MapThenSumSet(LAMBDA o : Price * order[o].qty, S) = SumOver(Amount, S)
  OBVIOUS
<1> DEFINE Eq(g) == g = [s \in SUBSET S |-> IF s = {} THEN 0
                              ELSE Price * order[OneOf(s)].qty + g[s \ {OneOf(s)}]]
<1>1. Tills!MapThenSumSet(LAMBDA o : Price * order[o].qty, S) = (CHOOSE g : Eq(g))[S]
  BY DEF Tills!MapThenSumSet, Tills!MapThenFoldSet, OneOf
<1>2. ASSUME NEW s \in SUBSET S, s # {} PROVE Amount[OneOf(s)] = Price * order[OneOf(s)].qty
  BY <1>2, OneOfIn DEF Amount
<1>3. ASSUME NEW g PROVE AddsUp(Amount, S, g) <=> Eq(g)
  BY <1>2 DEF AddsUp
<1> HIDE DEF Eq
<1>4. (CHOOSE g : Eq(g)) = (CHOOSE g : AddsUp(Amount, S, g))
  BY <1>3
<1> QED BY <1>1, <1>4, SumUnfolds

\* What was taken from the shelf, as a sum
LEMMA QtysSum ==
    \A S \in SUBSET Orders :
        Tills!MapThenSumSet(LAMBDA o : order[o].qty, S) = SumOver(Qty, S)
<1> SUFFICES ASSUME NEW S \in SUBSET Orders
             PROVE  Tills!MapThenSumSet(LAMBDA o : order[o].qty, S) = SumOver(Qty, S)
  OBVIOUS
<1> DEFINE Eq(g) == g = [s \in SUBSET S |-> IF s = {} THEN 0
                              ELSE order[OneOf(s)].qty + g[s \ {OneOf(s)}]]
<1>1. Tills!MapThenSumSet(LAMBDA o : order[o].qty, S) = (CHOOSE g : Eq(g))[S]
  BY DEF Tills!MapThenSumSet, Tills!MapThenFoldSet, OneOf
<1>2. ASSUME NEW s \in SUBSET S, s # {} PROVE Qty[OneOf(s)] = order[OneOf(s)].qty
  BY <1>2, OneOfIn DEF Qty
<1>3. ASSUME NEW g PROVE AddsUp(Qty, S, g) <=> Eq(g)
  BY <1>2 DEF AddsUp
<1> HIDE DEF Eq
<1>4. (CHOOSE g : Eq(g)) = (CHOOSE g : AddsUp(Qty, S, g))
  BY <1>3
<1> QED BY <1>1, <1>4, SumUnfolds

Kept == {o \in Orders : order[o].status # "CANCELLED"}

\* The shelf, as a sum over a function
LEMMA ShelfSum == Tills!StockExact <=> stock = InitialStock - SumOver(Qty, Kept)
<1>1. Kept \in SUBSET Orders
  BY DEF Kept
<1>2. Tills!MapThenSumSet(LAMBDA o : order[o].qty, Kept) = SumOver(Qty, Kept)
  BY <1>1, QtysSum
<1> QED BY <1>2 DEF Tills!StockExact, Kept

\* A sum of prices is a natural number.
LEMMA OrdersTotalType ==
    ASSUME TillAssumption, order \in [Orders -> Tills!Order], NEW b
    PROVE  Tills!OrdersTotal(b) \in Nat
<1> DEFINE S == {o \in Orders :
                    order[o].status \notin {"NONE", "CANCELLED"} /\ order[o].booking = b}
<1>1. S \in SUBSET Orders /\ IsFiniteSet(S) /\ Price \in Nat
  BY Countable, FS_Subset
<1>2. \A o \in S : Amount[o] \in Nat
  <2> SUFFICES ASSUME NEW o \in S PROVE Amount[o] \in Nat
    OBVIOUS
  <2>1. order[o].qty \in Nat /\ Amount[o] = Price * order[o].qty
    BY DEF Tills!Order, Amount
  <2> QED BY <1>1, <2>1
<1>3. Tills!OrdersTotal(b) = SumOver(Amount, S)
  BY <1>1, AmountsSum DEF Tills!OrdersTotal
<1> HIDE DEF S
<1> QED BY <1>1, <1>2, <1>3, SumType

\* Every row, both ledgers and every transaction in flight keep their type.
LEMMA BillTypes == TillSpec => []Tills!TypeOK
<1>0. /\ Members \subseteq Bookings /\ NoBooking \notin Bookings /\ Bookings \intersect Orders = {}
      /\ Qtys \subseteq Nat \ {0} /\ Price \in Nat /\ InitialStock \in Int /\ FirstPlay \in Nat
      /\ MaxPlay \in Nat /\ MaxPaid \in Nat
  BY TillAssumption DEF TillAssumption, Tills!BillsAssumption
<1> DEFINE Requested == {Tills!Idle} \union Tills!Request
<1> USE DEF Tills!Methods
<1>1. TillInit => Tills!TypeOK
  BY <1>0 DEF TillInit, Tills!Init, Tills!TypeOK, Tills!Bill, Tills!Order, Tills!OrderStatuses,
     Tills!ProofStatuses
<1>2. ASSUME Tills!TypeOK, [TillNext]_tillVars
      PROVE  Tills!TypeOK'
  <2>1. /\ bill \in [Bookings -> Tills!Bill] /\ order \in [Orders -> Tills!Order] /\ stock \in Int
        /\ taken \in [Bookings \union Orders -> [Tills!Methods -> Nat]]
        /\ back \in [Orders -> [Tills!Methods -> Nat]]
        /\ photos \subseteq Members /\ req \in [Requesters -> Requested]
    BY <1>2 DEF Tills!TypeOK, Requesters
  <2>2. ASSUME /\ bill' \in [Bookings -> Tills!Bill] /\ order' \in [Orders -> Tills!Order]
               /\ stock' \in Int
               /\ taken' \in [Bookings \union Orders -> [Tills!Methods -> Nat]]
               /\ back' \in [Orders -> [Tills!Methods -> Nat]]
               /\ photos' \subseteq Members /\ req' \in [Requesters -> Requested]
        PROVE  Tills!TypeOK'
    BY <2>2 DEF Tills!TypeOK, Requesters
  <2>3. ASSUME NEW r \in Requesters
        PROVE  /\ req[r].op = "advance" =>
                   req[r].id \in Orders /\ req[r].next \in Tills!OrderStatuses
               /\ req[r].op = "cancel" => req[r].id \in Orders
               /\ req[r].op = "bill" => /\ req[r].id \in Bookings /\ req[r].play \in Nat
                                        /\ req[r].proof \in Tills!ProofStatuses
               /\ req[r].op = "close" => /\ req[r].id \in Bookings /\ req[r].total \in Nat
                                         /\ req[r].proof \in Tills!ProofStatuses
    <3>1. req[r] \in Requested
      BY <2>1
    <3> QED BY <3>1 DEF Tills!Idle, Tills!Request
  <2>4. ASSUME NEW r \in Requesters, Tills!Finish(r)
        PROVE  req' \in [Requesters -> Requested]
    BY <2>1, <2>4 DEF Tills!Finish
  <2>5. CASE UNCHANGED billVars
    BY <2>1, <2>2, <2>5 DEF billVars
  <2>6. ASSUME NEW r \in Requesters, NEW q \in Tills!Request, req' = [req EXCEPT ![r] = q],
               UNCHANGED <<bill, order, stock, taken, back, photos>>
        PROVE  Tills!TypeOK'
    BY <2>1, <2>2, <2>6
  <2>7. ASSUME NEW b \in Bookings, NEW row \in Tills!Bill, bill' = [bill EXCEPT ![b] = row],
               UNCHANGED <<order, stock, back>>, photos' \subseteq Members,
               req' \in [Requesters -> Requested],
               taken' \in [Bookings \union Orders -> [Tills!Methods -> Nat]]
        PROVE  Tills!TypeOK'
    BY <2>1, <2>2, <2>7
  <2>8. ASSUME NEW r \in Requesters, NEW o \in Orders, Tills!AdvanceRead(r, o)
        PROVE  Tills!TypeOK'
    <3> DEFINE next == Tills!NextStatus(order[o].status)
    <3>1. next \in Tills!OrderStatuses
      BY <2>8 DEF Tills!AdvanceRead, Tills!NextStatus, Tills!OrderStatuses
    <3> HIDE DEF next
    <3>2. [op |-> "advance", id |-> o, next |-> next] \in Tills!Request
      BY <3>1 DEF Tills!Request
    <3> QED BY <2>6, <2>8, <3>2 DEF Tills!AdvanceRead, next
  <2>9. ASSUME NEW r \in Requesters, NEW o \in Orders, Tills!CancelRead(r, o)
        PROVE  Tills!TypeOK'
    <3>1. [op |-> "cancel", id |-> o] \in Tills!Request
      BY DEF Tills!Request
    <3> QED BY <2>6, <2>9, <3>1 DEF Tills!CancelRead
  <2>10. ASSUME NEW r \in Requesters, NEW o \in Orders, NEW b \in Bookings \union {NoBooking},
                NEW qty \in Qtys, NEW m \in Tills!Methods \union {"NULL"},
                Tills!CreateOrder(r, o, b, qty, m)
         PROVE  Tills!TypeOK'
    <3> DEFINE row == [status |-> "NEW", booking |-> b, qty |-> qty]
    <3>1. row \in Tills!Order /\ qty \in Nat /\ Price * qty \in Nat
      BY <1>0 DEF Tills!Order, Tills!OrderStatuses
    <3>2. /\ order' = [order EXCEPT ![o] = row] /\ stock' = stock - qty
          /\ UNCHANGED <<bill, back, photos, req>>
      BY <2>10 DEF Tills!CreateOrder
    <3> DEFINE sold == Price * qty
    <3>3. \/ taken' = taken
          \/ m \in Tills!Methods /\ taken' = [taken EXCEPT ![o][m] = @ + sold]
      BY <1>0, <2>10 DEF Tills!CreateOrder
    <3> HIDE DEF row
    <3>4. order' \in [Orders -> Tills!Order]
      BY <2>1, <3>1, <3>2
    <3>5. sold \in Nat
      BY <3>1
    <3> HIDE DEF sold
    <3>6. ASSUME m \in Tills!Methods, taken' = [taken EXCEPT ![o][m] = @ + sold]
          PROVE  taken' \in [Bookings \union Orders -> [Tills!Methods -> Nat]]
      <4>1. taken[o] \in [Tills!Methods -> Nat]
        BY <2>1
      <4>2. [taken[o] EXCEPT ![m] = @ + sold] \in [Tills!Methods -> Nat]
        BY <3>5, <3>6, <4>1
      <4> QED BY <2>1, <3>6, <4>2
    <3>7. taken' \in [Bookings \union Orders -> [Tills!Methods -> Nat]]
      BY <2>1, <3>3, <3>6
    <3>8. stock' \in Int
      BY <2>1, <3>1, <3>2
    <3> QED BY <2>1, <2>2, <3>2, <3>4, <3>7, <3>8
  <2>11. ASSUME NEW r \in Requesters, Tills!AdvanceWrite(r)
         PROVE  Tills!TypeOK'
    <3> DEFINE o == req[r].id
               row == [order[o] EXCEPT !.status = req[r].next]
    <3>1. o \in Orders /\ req[r].next \in Tills!OrderStatuses
      BY <2>3, <2>11 DEF Tills!AdvanceWrite
    <3>2. row \in Tills!Order
      <4>1. order[o] \in Tills!Order
        BY <2>1, <3>1
      <4> QED BY <3>1, <4>1 DEF Tills!Order
    <3>3. /\ order' = [order EXCEPT ![o] = row] /\ Tills!Finish(r)
          /\ UNCHANGED <<bill, stock, taken, back, photos>>
      BY <2>1, <2>11, <3>1 DEF Tills!AdvanceWrite
    <3> HIDE DEF o, row
    <3> QED BY <2>1, <2>2, <2>4, <3>1, <3>2, <3>3
  <2>12. ASSUME NEW r \in Requesters, Tills!CancelWrite(r)
         PROVE  Tills!TypeOK'
    <3> DEFINE o == req[r].id
               row == [order[o] EXCEPT !.status = "CANCELLED"]
               refund == Tills!Refunded(o)
    <3>1. o \in Orders
      BY <2>3, <2>12 DEF Tills!CancelWrite
    <3>2. row \in Tills!Order /\ order[o].qty \in Nat
      <4>1. order[o] \in Tills!Order
        BY <2>1, <3>1
      <4> QED BY <4>1 DEF Tills!Order, Tills!OrderStatuses
    <3>3. refund \in [Tills!Methods -> Nat]
      BY <2>1, <3>1 DEF Tills!Refunded
    <3>4. /\ order' = [order EXCEPT ![o] = row] /\ Tills!Finish(r)
          /\ stock' = stock + order[o].qty /\ back' = [back EXCEPT ![o] = refund]
          /\ UNCHANGED <<bill, taken, photos>>
      BY <2>1, <2>12, <3>1 DEF Tills!CancelWrite, Tills!Restocked
    <3> HIDE DEF o, row, refund
    <3> QED BY <2>1, <2>2, <2>4, <3>1, <3>2, <3>3, <3>4
  <2>13. ASSUME NEW r \in Requesters, NEW b \in Bookings, Tills!CloseRead(r, b)
         PROVE  Tills!TypeOK'
    <3>1. [op |-> "bill", id |-> b, play |-> bill[b].play, proof |-> bill[b].proof]
             \in Tills!Request
      <4>1. bill[b] \in Tills!Bill
        BY <2>1
      <4>2. bill[b].play \in Nat /\ bill[b].proof \in Tills!ProofStatuses
        BY <4>1 DEF Tills!Bill
      <4> QED BY <4>2 DEF Tills!Request
    <3> QED BY <2>6, <2>13, <3>1 DEF Tills!CloseRead
  <2>14. ASSUME NEW r \in Requesters, Tills!CloseSum(r)
         PROVE  Tills!TypeOK'
    <3> DEFINE total == req[r].play + Tills!OrdersTotal(req[r].id)
    <3>1. /\ req[r].id \in Bookings /\ req[r].play \in Nat
          /\ req[r].proof \in Tills!ProofStatuses
      BY <2>3, <2>14 DEF Tills!CloseSum
    <3>2. total \in Nat
      BY <2>1, <3>1, TillAssumption, OrdersTotalType
    <3> HIDE DEF total
    <3>3. [op |-> "close", id |-> req[r].id, proof |-> req[r].proof, total |-> total]
             \in Tills!Request
      BY <3>1, <3>2 DEF Tills!Request
    <3> QED BY <2>6, <2>14, <3>3 DEF Tills!CloseSum, total
  <2>15. ASSUME NEW r \in Requesters, NEW m \in Tills!Methods, Tills!AskForProof(r, m)
         PROVE  Tills!TypeOK'
    <3> DEFINE b == req[r].id
               row == [bill[b] EXCEPT !.proof = "PENDING"]
    <3>1. b \in Bookings
      BY <2>3, <2>15 DEF Tills!AskForProof
    <3>2. row \in Tills!Bill
      <4>1. bill[b] \in Tills!Bill
        BY <2>1, <3>1
      <4> QED BY <4>1 DEF Tills!Bill, Tills!ProofStatuses
    <3>3. /\ bill' = bill \/ bill' = [bill EXCEPT ![b] = row]
          /\ Tills!Finish(r) /\ UNCHANGED <<order, stock, taken, back, photos>>
      BY <2>1, <2>15, <3>1 DEF Tills!AskForProof
    <3> HIDE DEF b, row
    <3> QED BY <2>1, <2>2, <2>4, <2>7, <3>1, <3>2, <3>3
  <2>16. ASSUME NEW r \in Requesters, NEW m \in Tills!Methods, NEW paid \in 0 .. MaxPaid,
                NEW why \in {"DISCOUNT", "DEBT", "TIP", "NONE"}, NEW role \in {"STAFF", "OWNER"},
                Tills!CloseWrite(r, m, paid, why, role)
         PROVE  Tills!TypeOK'
    <3> DEFINE b == req[r].id
               total == req[r].total
               discount == Tills!Shortfall(total, paid, why, "DISCOUNT")
               debt == Tills!Shortfall(total, paid, why, "DEBT")
               tip == IF paid > total THEN paid - total ELSE 0
               proof == IF m = "TRANSFER" /\ b \in Members THEN "CONFIRMED" ELSE "NULL"
    <3>1. b \in Bookings /\ total \in Nat /\ paid \in Nat
      BY <1>0, <2>3, <2>16 DEF Tills!CloseWrite
    <3>2. discount \in Nat /\ debt \in Nat /\ tip \in Nat /\ proof \in Tills!ProofStatuses
      BY <3>1 DEF Tills!Shortfall, Tills!ProofStatuses
    <3> HIDE DEF discount, debt, tip, proof
    <3> DEFINE row == [bill[b] EXCEPT !.closed = TRUE, !.method = m, !.paid = paid,
                                      !.discount = discount, !.debt = debt, !.tip = tip,
                                      !.proof = proof]
    <3>3. row \in Tills!Bill
      <4>1. bill[b] \in Tills!Bill
        BY <2>1, <3>1
      <4> HIDE DEF b
      <4> QED BY <3>1, <3>2, <4>1 DEF Tills!Bill
    <3>4. /\ bill' = [bill EXCEPT ![b] = row] /\ Tills!Finish(r)
          /\ taken' = [taken EXCEPT ![b][m] = @ + paid]
          /\ UNCHANGED <<order, stock, back, photos>>
      BY <2>1, <2>16, <3>1 DEF Tills!CloseWrite, discount, debt, tip, proof
    <3> HIDE DEF b, row, total
    <3>5. taken' \in [Bookings \union Orders -> [Tills!Methods -> Nat]]
      BY <2>1, <3>1, <3>4
    <3> QED BY <2>1, <2>4, <2>7, <3>1, <3>3, <3>4, <3>5
  <2>17. ASSUME NEW b \in Bookings, Tills!SubmitProof(b)
         PROVE  Tills!TypeOK'
    <3> DEFINE row == [bill[b] EXCEPT !.proof = "SUBMITTED"]
    <3>1. row \in Tills!Bill
      <4>1. bill[b] \in Tills!Bill
        BY <2>1
      <4> QED BY <4>1 DEF Tills!Bill, Tills!ProofStatuses
    <3>2. /\ bill' = [bill EXCEPT ![b] = row] /\ photos' \subseteq Members
          /\ UNCHANGED <<order, stock, taken, back, req>>
      BY <2>1, <2>17 DEF Tills!SubmitProof
    <3> HIDE DEF row
    <3> QED BY <2>1, <2>7, <3>1, <3>2
  <2>18. ASSUME NEW r \in Requesters, NEW b \in Bookings,
                Tills!GrowPlay(r, b) \/ Tills!CancelBooking(r, b)
         PROVE  Tills!TypeOK'
    <3>1. bill[b] \in Tills!Bill /\ bill[b].play \in Nat
      BY <2>1 DEF Tills!Bill
    <3>2. /\ [bill[b] EXCEPT !.play = @ + 1] \in Tills!Bill
          /\ [bill[b] EXCEPT !.status = "CANCELLED"] \in Tills!Bill
      BY <3>1 DEF Tills!Bill
    <3>3. /\ \/ bill' = [bill EXCEPT ![b] = [bill[b] EXCEPT !.play = @ + 1]]
             \/ bill' = [bill EXCEPT ![b] = [bill[b] EXCEPT !.status = "CANCELLED"]]
          /\ UNCHANGED <<order, stock, taken, back, photos, req>>
      BY <2>1, <2>18 DEF Tills!GrowPlay, Tills!CancelBooking
    <3> QED BY <2>1, <2>7, <3>2, <3>3
  <2>19. ASSUME NEW r \in Requesters, Tills!Abort(r)
         PROVE  Tills!TypeOK'
    BY <2>1, <2>2, <2>4, <2>19 DEF Tills!Abort
  <2>20. ASSUME NEW r \in Requesters, Tills!Handle(r)
         PROVE  Tills!TypeOK'
    BY <2>8, <2>9, <2>10, <2>11, <2>12, <2>13, <2>14, <2>15, <2>16, <2>18, <2>19, <2>20
       DEF Tills!Handle, Tills!OrderStep, Tills!BillStep
  <2> QED
    BY <1>2, <2>5, <2>17, <2>20 DEF TillNext, tillVars, Proofs, Requesters
<1> QED BY <1>1, <1>2, PTL DEF TillSpec, tillVars

-----------------------------------------------------------------------------
\* One request at a time at the desk

OrdersOf(b) == {o \in Orders : order[o].booking = b /\ order[o].status # "CANCELLED"}

\* What a bill is owed, as a sum; before a step and after it
LEMMA OwedSum ==
    \A b \in Bookings : Tills!Owed(b) = bill[b].play + Price * SumOver(Qty, OrdersOf(b))
<1> SUFFICES ASSUME NEW b \in Bookings
             PROVE  Tills!Owed(b) = bill[b].play + Price * SumOver(Qty, OrdersOf(b))
  OBVIOUS
<1>1. OrdersOf(b) \in SUBSET Orders
  BY DEF OrdersOf
<1>2. Tills!MapThenSumSet(LAMBDA o : order[o].qty, OrdersOf(b)) = SumOver(Qty, OrdersOf(b))
  BY <1>1, QtysSum
<1> QED BY <1>2 DEF Tills!Owed, OrdersOf

\* The same after a step
LEMMA OwedSumNext ==
    (\A b \in Bookings : Tills!Owed(b) = bill[b].play + Price * SumOver(Qty, OrdersOf(b)))'
BY OwedSum, PTL

\* An order that does not exist is of nobody and of nothing.
Unwritten ==
    \A o \in Orders :
        order[o].status = "NONE" => order[o].qty = 0 /\ order[o].booking = NoBooking

\* What close_bill adds up is what is owed.
LEMMA BillTotal ==
    ASSUME Tills!TypeOK, Unwritten, NEW b \in Bookings
    PROVE  Tills!OrdersTotal(b) = Price * SumOver(Qty, OrdersOf(b))
<1> DEFINE S == {o \in Orders :
                    order[o].status \notin {"NONE", "CANCELLED"} /\ order[o].booking = b}
<1>1. S = OrdersOf(b)
  BY TillAssumption DEF Unwritten, OrdersOf, TillAssumption, Tills!BillsAssumption
<1>2. S \in SUBSET Orders /\ IsFiniteSet(S) /\ Price \in Int
  BY Countable, FS_Subset
<1>3. Tills!OrdersTotal(b) = SumOver(Amount, S)
  BY <1>2, AmountsSum DEF Tills!OrdersTotal
<1>4. \A o \in S : Qty[o] \in Int /\ Amount[o] = Price * Qty[o]
  BY DEF Tills!TypeOK, Tills!Order, Qty, Amount
<1> HIDE DEF S
<1> DEFINE scaled == [o \in S |-> Price * Qty[o]]
<1>5. \A o \in S : Amount[o] = scaled[o]
  BY <1>4
<1>6. SumOver(scaled, S) = Price * SumOver(Qty, S)
  BY <1>2, <1>4, SumScaled
<1> HIDE DEF scaled
<1> QED BY <1>1, <1>2, <1>3, <1>5, <1>6, SumSame

\* One request at a time: what it has read is still so, and the shelf agrees.
Desk ==
    LET q == req[DeskRequest]
    IN  scene = "desk" =>
            /\ stock = InitialStock - SumOver(Qty, Kept)
            /\ Unwritten
            /\ q.op = "cancel" => order[q.id].status = "NEW"
            /\ q.op = "advance" => order[q.id].status \notin {"NONE", "CANCELLED"}
            /\ q.op = "bill" => q.play = bill[q.id].play
            /\ q.op = "close" => q.total = Tills!Owed(q.id)

\* One order more or one less on the shelf
LEMMA ShelfMoves ==
    ASSUME Tills!TypeOK, Tills!TypeOK', NEW o \in Orders, order[o].status # "CANCELLED",
           \A p \in Orders \ {o} : order'[p] = order[p],
           stock = InitialStock - SumOver(Qty, Kept)
    PROVE  /\ /\ order'[o].status # "CANCELLED"
              /\ stock' = stock + order[o].qty - order'[o].qty
              => stock' = InitialStock - SumOver(Qty', Kept')
           /\ /\ order'[o].status = "CANCELLED"
              /\ stock' = stock + order[o].qty
              => stock' = InitialStock - SumOver(Qty', Kept')
<1> DEFINE rest == Kept \ {o}
<1>1. IsFiniteSet(Kept) /\ IsFiniteSet(rest) /\ Kept \in SUBSET Orders /\ rest \in SUBSET Orders
  BY Countable, FS_Subset DEF Kept
<1>2. /\ \A p \in Orders : Qty[p] \in Int /\ Qty'[p] \in Int
      /\ \A p \in rest : Qty[p] = Qty'[p]
      /\ Qty[o] = order[o].qty /\ Qty'[o] = order'[o].qty
  BY DEF Tills!TypeOK, Tills!Order, Qty, Kept
<1>3. /\ o \in Kept
      /\ Kept' = IF order'[o].status = "CANCELLED" THEN rest ELSE Kept
  BY DEF Kept
<1>4. SumOver(Qty, Kept) = Qty[o] + SumOver(Qty, rest)
  BY <1>1, <1>2, <1>3, SumRemove
<1>5. SumOver(Qty', Kept) = Qty'[o] + SumOver(Qty', rest)
  BY <1>1, <1>2, <1>3, SumRemove
<1>6. SumOver(Qty, rest) = SumOver(Qty', rest)
  BY <1>1, <1>2, SumSame
<1>7. SumOver(Qty, rest) \in Int
  BY <1>1, <1>2, SumType
<1>8. InitialStock \in Int /\ Qty[o] \in Int /\ Qty'[o] \in Int
  BY <1>2, TillAssumption DEF TillAssumption, Tills!BillsAssumption
<1> QED BY <1>2, <1>3, <1>4, <1>5, <1>6, <1>7, <1>8

\* A step that leaves the orders of a booking alone leaves its debt alone.
LEMMA OwedStays ==
    ASSUME order' = order, NEW b \in Bookings, bill'[b].play = bill[b].play
    PROVE  Tills!Owed(b)' = Tills!Owed(b)
<1>1. Qty' = Qty /\ OrdersOf(b)' = OrdersOf(b)
  BY DEF Qty, OrdersOf
<1> QED BY <1>1, OwedSum, OwedSumNext

\* A receipt changes no order and no sum.
LEMMA ProofOnly ==
    ASSUME Tills!TypeOK, NEW b \in Bookings, NEW v,
           bill' = [bill EXCEPT ![b].proof = v]
    PROVE  \A c \in Bookings : /\ bill'[c].play = bill[c].play
                               /\ bill'[c].closed = bill[c].closed
BY DEF Tills!TypeOK, Tills!Bill

\* One request at a time, every step keeps bill, orders and shelf in agreement.
LEMMA DeskStep ==
    ASSUME Desk, Tills!TypeOK, Tills!TypeOK', InFlight, [TillNext]_tillVars
    PROVE  /\ Desk'
           /\ scene = "desk" /\ billVars' # billVars => Tills!ClosesInFull
<1>1. scene' = scene
  BY DEF TillNext, tillVars
<1>2. SUFFICES ASSUME scene = "desk"
               PROVE  Desk' /\ (billVars' # billVars => Tills!ClosesInFull)
  BY <1>1 DEF Desk
<1> DEFINE r == DeskRequest
           q == req[r]
<1>3. /\ stock = InitialStock - SumOver(Qty, Kept)
      /\ Unwritten
      /\ q.op = "cancel" => order[q.id].status = "NEW"
      /\ q.op = "advance" => order[q.id].status \notin {"NONE", "CANCELLED"}
      /\ q.op = "bill" => q.play = bill[q.id].play
      /\ q.op = "close" => q.total = Tills!Owed(q.id)
  BY <1>2 DEF Desk
<1>4. /\ r \in Requesters /\ Known(q) /\ req \in [Requesters -> {Tills!Idle} \union Tills!Request]
      /\ q \in {Tills!Idle} \union Tills!Request
  BY DEF InFlight, Requesters, Tills!TypeOK
<1>5. /\ q.op \in {"advance", "cancel"} => q.id \in Orders
      /\ q.op = "advance" => q.next \in {"ACCEPTED", "PREPARING", "DELIVERED"}
      /\ q.op \in {"bill", "close"} => q.id \in Bookings
      /\ q.op = "close" => q.total \in Nat
  BY <1>4 DEF Known, Tills!Idle, Tills!Request
<1>6. ASSUME stock' = InitialStock - SumOver(Qty', Kept'), Unwritten', req'[r].op = "idle"
      PROVE  Desk'
  BY <1>6 DEF Desk
<1>7. ASSUME Tills!Finish(r) PROVE req'[r].op = "idle"
  BY <1>4, <1>7 DEF Tills!Finish, Tills!Idle
<1>8. ASSUME UNCHANGED <<order, stock>>
      PROVE  stock' = InitialStock - SumOver(Qty', Kept') /\ Unwritten'
  BY <1>3, <1>8 DEF Qty, Kept, Unwritten
<1>9. ASSUME \A b \in Bookings : bill'[b].closed = bill[b].closed
      PROVE  Tills!ClosesInFull
  BY <1>9 DEF Tills!ClosesInFull
<1> HIDE DEF r
<1>10. CASE UNCHANGED billVars
  <2>1. /\ UNCHANGED <<order, stock, bill>> /\ req'[r] = req[r]
    BY <1>10 DEF billVars
  <2>2. q.op = "close" => Tills!Owed(q.id)' = Tills!Owed(q.id)
    BY <1>5, <2>1, OwedStays
  <2> QED BY <1>3, <1>8, <1>10, <2>1, <2>2 DEF Desk, r
<1>11. CASE Proofs
  <2>1. PICK b \in Bookings : Tills!SubmitProof(b)
    BY <1>11 DEF Proofs
  <2>2. bill' = [bill EXCEPT ![b].proof = "SUBMITTED"] /\ UNCHANGED <<order, stock, req>>
    BY <2>1 DEF Tills!SubmitProof
  <2>3. \A c \in Bookings : bill'[c].play = bill[c].play /\ bill'[c].closed = bill[c].closed
    BY <2>2, ProofOnly
  <2>4. q.op = "close" => Tills!Owed(q.id)' = Tills!Owed(q.id)
    BY <1>5, <2>2, <2>3, OwedStays
  <2> QED BY <1>3, <1>5, <1>8, <1>9, <2>2, <2>3, <2>4 DEF Desk, r
<1>12. CASE Tills!OrderStep(r)
  <2>1. Tills!ClosesInFull
    <3>1. bill' = bill
      BY <1>12 DEF Tills!OrderStep, Tills!AdvanceRead, Tills!CancelRead, Tills!CreateOrder,
         Tills!AdvanceWrite, Tills!CancelWrite
    <3> QED BY <1>9, <3>1
  <2>2. ASSUME NEW o \in Orders, Tills!AdvanceRead(r, o) \/ Tills!CancelRead(r, o)
        PROVE  Desk'
    <3>1. /\ UNCHANGED <<bill, order, stock>>
          /\ \/ /\ req'[r] = [op |-> "advance", id |-> o, next |-> Tills!NextStatus(order[o].status)]
                /\ order[o].status \in {"NEW", "ACCEPTED", "PREPARING"}
             \/ req'[r] = [op |-> "cancel", id |-> o] /\ order[o].status = "NEW"
      BY <1>4, <2>2 DEF Tills!AdvanceRead, Tills!CancelRead, Tills!Cancellable
    <3> QED BY <1>8, <3>1 DEF Desk, r
  <2>3. ASSUME NEW o \in Orders, NEW b \in Bookings \union {NoBooking}, NEW qty \in Qtys,
               NEW m \in Tills!Methods \union {"NULL"}, Tills!CreateOrder(r, o, b, qty, m)
        PROVE  Desk'
    <3> DEFINE row == [status |-> "NEW", booking |-> b, qty |-> qty]
    <3>1. /\ order' = [order EXCEPT ![o] = row] /\ stock' = stock - qty
          /\ order[o].status = "NONE" /\ req' = req /\ q = Tills!Idle
      BY <2>3 DEF Tills!CreateOrder, Tills!Free
    <3>2. /\ order'[o] = row /\ \A p \in Orders \ {o} : order'[p] = order[p]
      BY <3>1 DEF Tills!TypeOK
    <3>3. order[o].qty = 0 /\ qty \in Nat /\ stock \in Int
      BY <1>3, <3>1, TillAssumption
         DEF Unwritten, TillAssumption, Tills!BillsAssumption, Tills!TypeOK
    <3>4. stock' = stock + order[o].qty - order'[o].qty /\ order'[o].status = "NEW"
      BY <3>1, <3>2, <3>3
    <3>5. Unwritten'
      BY <1>3, <3>2 DEF Unwritten
    <3>6. stock' = InitialStock - SumOver(Qty', Kept')
      BY <1>3, <3>1, <3>2, <3>4, ShelfMoves
    <3> QED BY <1>6, <3>1, <3>5, <3>6 DEF Tills!Idle
  <2>4. CASE Tills!AdvanceWrite(r)
    <3> DEFINE o == q.id
    <3>1. /\ order' = [order EXCEPT ![o].status = q.next] /\ stock' = stock /\ o \in Orders
          /\ order[o].status \notin {"NONE", "CANCELLED"} /\ Tills!Finish(r)
          /\ q.next \in {"ACCEPTED", "PREPARING", "DELIVERED"}
      BY <1>3, <1>5, <2>4 DEF Tills!AdvanceWrite
    <3> HIDE DEF o
    <3>2. /\ order'[o] = [order[o] EXCEPT !.status = q.next]
          /\ \A p \in Orders \ {o} : order'[p] = order[p]
      BY <3>1 DEF Tills!TypeOK
    <3>3. order'[o].qty = order[o].qty /\ order'[o].status = q.next /\ stock \in Int
          /\ order[o].qty \in Int
      BY <3>1, <3>2 DEF Tills!TypeOK, Tills!Order
    <3>4. stock' = InitialStock - SumOver(Qty', Kept')
      BY <1>3, <3>1, <3>2, <3>3, ShelfMoves
    <3>5. Unwritten'
      BY <1>3, <3>1, <3>2, <3>3 DEF Unwritten
    <3> QED BY <1>6, <1>7, <2>1, <3>1, <3>4, <3>5
  <2>5. CASE Tills!CancelWrite(r)
    <3> DEFINE o == q.id
    <3>1. /\ order' = [order EXCEPT ![o].status = "CANCELLED"] /\ stock' = stock + order[o].qty
          /\ o \in Orders /\ order[o].status = "NEW" /\ Tills!Finish(r)
      BY <1>3, <1>5, <2>5 DEF Tills!CancelWrite, Tills!Restocked
    <3> HIDE DEF o
    <3>2. /\ order'[o] = [order[o] EXCEPT !.status = "CANCELLED"]
          /\ \A p \in Orders \ {o} : order'[p] = order[p]
      BY <3>1 DEF Tills!TypeOK
    <3>3. order'[o].status = "CANCELLED"
      BY <3>1, <3>2 DEF Tills!TypeOK, Tills!Order
    <3>4. stock' = InitialStock - SumOver(Qty', Kept')
      BY <1>3, <3>1, <3>2, <3>3, ShelfMoves
    <3>5. Unwritten'
      BY <1>3, <3>1, <3>2, <3>3 DEF Unwritten
    <3> QED BY <1>6, <1>7, <2>1, <3>1, <3>4, <3>5
  <2> QED BY <1>12, <2>1, <2>2, <2>3, <2>4, <2>5 DEF Tills!OrderStep
<1>13. ASSUME NEW b \in Bookings, Tills!CloseRead(r, b)
       PROVE  Desk' /\ Tills!ClosesInFull
  <2>1. /\ UNCHANGED <<bill, order, stock>> /\ req'[r].op = "bill" /\ req'[r].id = b
        /\ req'[r].play = bill[b].play
    BY <1>4, <1>13 DEF Tills!CloseRead
  <2> QED BY <1>8, <1>9, <2>1 DEF Desk, r
<1>14. CASE Tills!CloseSum(r)
  <2> DEFINE total == q.play + Tills!OrdersTotal(q.id)
  <2>1. /\ UNCHANGED <<bill, order, stock>> /\ req'[r].op = "close" /\ req'[r].id = q.id
        /\ req'[r].total = total /\ q.op = "bill"
    BY <1>4, <1>14 DEF Tills!CloseSum
  <2>2. PICK b \in Bookings : b = q.id
    BY <1>5, <2>1
  <2>3. total = Tills!Owed(b)
    BY <1>3, <2>1, <2>2, BillTotal, OwedSum
  <2>4. Tills!Owed(b)' = Tills!Owed(b)
    BY <2>1, OwedStays
  <2>5. req'[r].id = b /\ req'[r].total = Tills!Owed(b)'
    BY <2>1, <2>2, <2>3, <2>4
  <2>6. Desk'
    BY <1>8, <2>1, <2>5 DEF Desk, r
  <2> QED BY <1>9, <2>1, <2>6
<1>15. ASSUME NEW m \in Tills!Methods, Tills!AskForProof(r, m)
       PROVE  Desk' /\ Tills!ClosesInFull
  <2>1. /\ bill' = bill \/ bill' = [bill EXCEPT ![q.id].proof = "PENDING"]
        /\ UNCHANGED <<order, stock>> /\ Tills!Finish(r) /\ q.id \in Bookings
    BY <1>5, <1>15 DEF Tills!AskForProof
  <2>2. \A c \in Bookings : bill'[c].closed = bill[c].closed
    BY <2>1, ProofOnly
  <2> QED BY <1>6, <1>7, <1>8, <1>9, <2>1, <2>2
<1>16. ASSUME NEW m \in Tills!Methods, NEW paid \in 0 .. MaxPaid,
              NEW why \in {"DISCOUNT", "DEBT", "TIP", "NONE"}, NEW role \in {"STAFF", "OWNER"},
              Tills!CloseWrite(r, m, paid, why, role)
       PROVE  Desk' /\ Tills!ClosesInFull
  <2> DEFINE b == q.id
             total == q.total
             discount == Tills!Shortfall(total, paid, why, "DISCOUNT")
             debt == Tills!Shortfall(total, paid, why, "DEBT")
             tip == IF paid > total THEN paid - total ELSE 0
  <2>1. /\ b \in Bookings /\ total \in Nat /\ paid \in Nat /\ total = Tills!Owed(b)
        /\ Tills!ReasonGiven(total, paid, why) /\ Tills!Finish(r) /\ UNCHANGED <<order, stock>>
    BY <1>3, <1>5, <1>16, TillAssumption
       DEF Tills!CloseWrite, TillAssumption, Tills!BillsAssumption
  <2>2. paid + discount + debt - tip = total
    BY <2>1 DEF Tills!Shortfall, Tills!ReasonGiven
  <2>3. PICK proof : bill' = [bill EXCEPT ![b] =
                         [@ EXCEPT !.closed = TRUE, !.method = m, !.paid = paid,
                                   !.discount = discount, !.debt = debt, !.tip = tip,
                                   !.proof = proof]]
    BY <1>16 DEF Tills!CloseWrite
  <2> HIDE DEF b, total, discount, debt, tip
  <2>4. /\ bill'[b].paid = paid /\ bill'[b].discount = discount /\ bill'[b].debt = debt
        /\ bill'[b].tip = tip
        /\ \A c \in Bookings \ {b} : bill'[c] = bill[c]
    BY <2>1, <2>3 DEF Tills!TypeOK, Tills!Bill
  <2>5. Tills!ClosesInFull
    BY <2>1, <2>2, <2>4 DEF Tills!ClosesInFull, Tills!Settled
  <2> QED BY <1>6, <1>7, <1>8, <2>1, <2>5
<1>17. ASSUME NEW b \in Bookings, Tills!GrowPlay(r, b) \/ Tills!CancelBooking(r, b)
       PROVE  Desk' /\ Tills!ClosesInFull
  <2>1. /\ UNCHANGED <<order, stock, req>> /\ q = Tills!Idle
        /\ \/ bill' = [bill EXCEPT ![b].play = @ + 1]
           \/ bill' = [bill EXCEPT ![b].status = "CANCELLED"]
    BY <1>17 DEF Tills!GrowPlay, Tills!CancelBooking, Tills!Free
  <2>2. \A c \in Bookings : bill[c] \in Tills!Bill
    BY DEF Tills!TypeOK
  <2>3. DOMAIN bill = Bookings
    BY DEF Tills!TypeOK
  <2>4. \A c \in Bookings : bill'[c].closed = bill[c].closed
    BY <2>1, <2>2, <2>3 DEF Tills!Bill
  <2> QED BY <1>6, <1>8, <1>9, <2>1, <2>4 DEF Tills!Idle
<1>18. CASE Tills!Abort(r)
  <2>1. UNCHANGED <<bill, order, stock>> /\ Tills!Finish(r)
    BY <1>18 DEF Tills!Abort
  <2> QED BY <1>6, <1>7, <1>8, <1>9, <2>1
<1>19. UNCHANGED billVars \/ Tills!Handle(r) \/ Proofs
  BY <1>2 DEF TillNext, tillVars, r
<1> QED
  BY <1>10, <1>11, <1>12, <1>13, <1>14, <1>15, <1>16, <1>17, <1>18, <1>19
     DEF Tills!Handle, Tills!BillStep

\* So bill, orders and shelf agree always at the desk.
LEMMA DeskAlways == TillSpec => []Desk
<1>1. ASSUME TillInit PROVE Desk
  <2>1. Unwritten /\ req[DeskRequest].op = "idle" /\ stock = InitialStock
    BY <1>1 DEF TillInit, Tills!Init, Unwritten, Tills!Idle
  <2>2. Kept = Orders /\ \A o \in Orders : Qty[o] = 0 * Qty[o] /\ Qty[o] \in Int
    BY <1>1 DEF TillInit, Tills!Init, Kept, Qty
  <2> DEFINE none == [o \in Orders |-> 0 * Qty[o]]
  <2>3. SumOver(none, Orders) = 0 * SumOver(Qty, Orders) /\ SumOver(Qty, Orders) \in Int
    BY <2>2, Countable, SumScaled, SumType
  <2>4. \A o \in Orders : Qty[o] = none[o]
    BY <2>2
  <2> HIDE DEF none
  <2>5. SumOver(Qty, Kept) = 0
    BY <2>2, <2>3, <2>4, Countable, SumSame
  <2>6. InitialStock \in Int
    BY TillAssumption DEF TillAssumption, Tills!BillsAssumption
  <2> QED BY <2>1, <2>5, <2>6 DEF Desk
<1>2. Desk /\ Tills!TypeOK /\ Tills!TypeOK' /\ TillsInv /\ [TillNext]_tillVars => Desk'
  BY DeskStep DEF TillsInv
<1> QED BY <1>1, <1>2, BillTypes, TillsAlways, PTL DEF TillSpec, tillVars

\* One request at a time, the shelf agrees with the orders, and a bill that is closed
\* accounts for the hours played and for every order that was not cancelled, whatever the
\* prices, quantities and sums handed over (create_order, cancel_order, close_bill).
THEOREM BillsInFull == TillSpec => SumsExact
<1>1. Desk => (scene = "desk" => Tills!StockExact)
  BY ShelfSum DEF Desk
<1>2. Desk /\ Tills!TypeOK /\ Tills!TypeOK' /\ TillsInv /\ [TillNext]_tillVars
          => [scene = "desk" => Tills!ClosesInFull]_billVars
  BY DeskStep DEF TillsInv
<1> QED
  BY <1>1, <1>2, DeskAlways, BillTypes, TillsAlways, PTL DEF TillSpec, tillVars, SumsExact

-----------------------------------------------------------------------------
\* Tariffs: fits_opening_hours, which compares two ends, means what its docstring says.

\* What update_club guarantees of the saved hours.
Hours ==
    /\ club.opens \in Nat /\ club.closes \in Nat
    /\ club.opens < club.closes /\ club.closes <= MaxCloses

\* What the code assumes of clocks and closings
LEMMA HoursUnits ==
    /\ DayMinutes \in Nat \ {0}
    /\ MaxCloses \in Nat /\ MaxCloses < 2 * DayMinutes
BY TillAssumption DEF TillAssumption, Prices!TariffsAssumption

\* Two ends decide about all the minutes between them: opening hours shorter than a day
\* leave a closed minute after each closing, so a booking that is open throughout
\* cannot leave the hours it starts in.
LEMMA TwoEndsSuffice ==
    ASSUME Hours, NEW startMin \in 0 .. DayMinutes - 1, NEW minutes \in 1 .. DayMinutes
    PROVE  Prices!FitsOpeningHours(startMin, minutes) <=>
               \A m \in startMin .. startMin + minutes - 1 : Prices!OpenAt(m)
<1> USE HoursUnits
<1> DEFINE o == club.opens
           c == club.closes
           D == DayMinutes
           last == startMin + minutes - 1
           AllOpen == \A m \in startMin .. last : Prices!OpenAt(m)
<1> o \in Nat /\ c \in Nat /\ o < c /\ c < 2 * D /\ D \in Nat /\ D > 0
    BY DEF Hours
<1> startMin \in Nat /\ startMin < D /\ minutes \in Nat /\ 1 <= minutes /\ minutes <= D
    OBVIOUS
<1>1. ASSUME c - o >= D, NEW m \in startMin .. last
      PROVE  Prices!OpenAt(m)
  <2>1. m \in Nat /\ m < 2 * D
        OBVIOUS
  <2>2. CASE m < o
    <3>1. o < D
          BY <1>1
    <3>2. o - D <= m /\ m < c - D
          BY <1>1, <2>1, <2>2, <3>1
    <3> QED  BY <3>2 DEF Prices!OpenAt
  <2>3. CASE o <= m /\ m < c
        BY <2>3 DEF Prices!OpenAt
  <2>4. CASE c <= m
    <3>1. o + D <= m /\ m < c + D
          BY <1>1, <2>1, <2>4
    <3> QED  BY <3>1 DEF Prices!OpenAt
  <2> QED  BY <2>1, <2>2, <2>3, <2>4
<1>2. ASSUME NEW offset \in {0, -D}, o + offset <= startMin, startMin + minutes <= c + offset,
             NEW m \in startMin .. last
      PROVE  Prices!OpenAt(m)
      BY <1>2 DEF Prices!OpenAt
<1>3. Prices!FitsOpeningHours(startMin, minutes) => AllOpen
      BY <1>1, <1>2 DEF Prices!FitsOpeningHours
<1>4. ASSUME AllOpen, c - o < D
      PROVE  \E offset \in {0, -D} : o + offset <= startMin /\ startMin + minutes <= c + offset
  <2>1. PICK k \in {-D, 0, D} : o + k <= startMin /\ startMin < c + k
        BY <1>4 DEF Prices!OpenAt
  <2>2. k # D
        BY <2>1
  <2>3. SUFFICES ASSUME startMin + minutes > c + k
                 PROVE  FALSE
        BY <2>1, <2>2
  <2>4. c + k \in startMin .. last
        BY <2>1, <2>3
  <2>5. PICK j \in {-D, 0, D} : o + j <= c + k /\ c + k < c + j
        BY <1>4, <2>4 DEF Prices!OpenAt
  <2>6. j >= k + D
        BY <2>2, <2>5
  <2> QED  BY <1>4, <2>5, <2>6
<1>5. AllOpen => Prices!FitsOpeningHours(startMin, minutes)
      BY <1>4 DEF Prices!FitsOpeningHours
<1> QED  BY <1>3, <1>5

\* Every tariff row was accepted by _clean_tariff_fields, every setting by update_club.
PriceInv ==
    /\ Prices!TypeOK
    /\ \A i \in TariffIds : tariff[i] # Prices!NoTariff => Prices!CleanTariffFields(tariff[i])
    /\ club \in Settings /\ Prices!CleanClubFields(club)

\* So every tariff and setting that is stored has passed its check.
LEMMA PriceAlways == TillSpec => []PriceInv
<1>0. /\ Settings \subseteq [opens : Nat, closes : Nat, min : Nat, max : Nat, advance : Nat]
      /\ Forms \subseteq [days : SUBSET (0 .. WeekDays - 1), from : Nat, to : Nat, price : Nat,
                          priority : Nat, console : Consoles \union {AnyOne},
                          kind : Kinds \union {AnyOne}]
  BY TillAssumption DEF TillAssumption, Prices!TariffsAssumption
<1>1. TillInit => PriceInv
  BY <1>0 DEF TillInit, Prices!Init, PriceInv, Prices!TypeOK, Prices!Club
<1>2. ASSUME PriceInv, [TillNext]_tillVars
      PROVE  PriceInv'
  <2>1. CASE UNCHANGED priceVars
    BY <1>2, <2>1 DEF priceVars, PriceInv, Prices!TypeOK, Prices!CleanTariffFields,
       Prices!CleanClubFields
  <2>2. ASSUME NEW i \in TariffIds, NEW f \in Forms, NEW st \in {"active", "archived"},
               Prices!CleanTariffFields(f),
               tariff' = [tariff EXCEPT ![i] = Prices!TariffRow(st, f)], UNCHANGED club
        PROVE  PriceInv'
    <3> DEFINE row == Prices!TariffRow(st, f)
    <3>1. row \in Prices!Tariff
      BY <1>0 DEF Prices!TariffRow, Prices!Tariff
    <3>2. Prices!CleanTariffFields(row)
      BY <2>2 DEF Prices!CleanTariffFields, Prices!TariffRow
    <3> HIDE DEF row
    <3>3. Prices!TypeOK'
      BY <1>2, <2>2, <3>1 DEF PriceInv, Prices!TypeOK, row
    <3>4. \A j \in TariffIds : tariff'[j] = IF j = i THEN row ELSE tariff[j]
      BY <1>2, <2>2 DEF PriceInv, Prices!TypeOK, row
    <3> QED
      BY <1>2, <2>2, <3>2, <3>3, <3>4 DEF PriceInv, Prices!CleanTariffFields, Prices!CleanClubFields
  <2>3. CASE Prices!PatchClub
    <3>1. PICK f \in Settings : Prices!UpdateClub(f)
      BY <2>3 DEF Prices!PatchClub
    <3> QED
      BY <1>0, <1>2, <3>1 DEF Prices!UpdateClub, PriceInv, Prices!TypeOK, Prices!Club,
         Prices!CleanTariffFields, Prices!CleanClubFields
  <2>4. UNCHANGED priceVars \/ Prices!Next
    BY <1>2 DEF TillNext, tillVars, priceVars
  <2> QED
    BY <2>1, <2>2, <2>3, <2>4 DEF Prices!Next, Prices!PostTariff, Prices!CreateTariff,
       Prices!PatchTariff, Prices!UpdateTariff
<1> QED BY <1>1, <1>2, PTL DEF TillSpec, tillVars

\* That contains what the opening hours need.
LEMMA PricesKeepHours ==
    ASSUME PriceInv
    PROVE  Hours
BY DEF PriceInv, Prices!TypeOK, Prices!Club, Prices!CleanClubFields, Hours

\* No booking is accepted in a minute in which the club is closed, and none is refused
\* that would be open throughout, whatever the owner has saved (fits_opening_hours).
THEOREM OpenAlways == TillSpec => []OpenThroughout
<1>1. PriceInv => OpenThroughout
  BY TwoEndsSuffice, PricesKeepHours DEF OpenThroughout, Prices!OpenThroughout
<1> QED BY <1>1, PriceAlways, PTL

-----------------------------------------------------------------------------
\* The price of a window, minute by minute

\* The units of time
LEMMA ClockUnits ==
    /\ MinuteTicks \in Nat \ {0} /\ HourMinutes \in Nat \ {0}
    /\ DayMinutes \in Nat \ {0} /\ WeekDays \in Nat \ {0}
    /\ Prices!MINUTE = MinuteTicks /\ Prices!HOUR = HourMinutes * MinuteTicks
    /\ Prices!DAY = DayMinutes * MinuteTicks
    /\ IsFiniteSet(TariffIds) /\ TariffIds \subseteq Int
    /\ AnyOne \notin Consoles
BY TillAssumption DEF TillAssumption, Prices!TariffsAssumption, Prices!MINUTE, Prices!HOUR,
   Prices!DAY, IsFiniteSet, Prices!IsFiniteSet

\* The tariff t is in force in minute m, by the hours of a day d.
Reaches(t, d, m) == d * DayMinutes + t.from <= m /\ m < d * DayMinutes + t.to

InForce(t, m) == \E d \in Int : d % WeekDays \in t.days /\ Reaches(t, d, m)

\* Only the day of the minute and the one before can reach it.
LEMMA ReachedFrom ==
    ASSUME NEW t, t.from \in Nat, t.to \in Nat, t.to <= 2 * DayMinutes,
           NEW m \in Int, NEW d \in Int, Reaches(t, d, m)
    PROVE  d \in {m \div DayMinutes, m \div DayMinutes - 1}
<1> DEFINE n == DayMinutes
           q == m \div n
           x == n * d
<1>1. q \in Int /\ n * q <= m /\ m < n * q + n
  BY ClockUnits, Quotient
<1>2. n \in Nat \ {0} /\ x \in Int /\ d * n = x
  BY ClockUnits, SMTT(20)
<1>3. x <= m /\ m < x + 2 * n
  BY <1>2 DEF Reaches
<1> HIDE DEF n, q, x
<1>4. d <= q
  <2>1. q + 1 <= d => n * (q + 1) <= n * d
    BY <1>1, <1>2, SMTT(20)
  <2>2. n * (q + 1) = n * q + n
    BY <1>1, <1>2, SMTT(20)
  <2> QED BY <1>1, <1>2, <1>3, <2>1, <2>2 DEF x
<1>5. q - 1 <= d
  <2>1. d + 2 <= q => n * (d + 2) <= n * q
    BY <1>1, <1>2, SMTT(20)
  <2>2. n * (d + 2) = n * d + 2 * n
    BY <1>1, <1>2, SMTT(20)
  <2> QED BY <1>1, <1>2, <1>3, <2>1, <2>2 DEF x
<1>6. d = q \/ d = q - 1
  BY <1>1, <1>4, <1>5
<1> QED BY <1>6 DEF q, n

\* _applies_at at a moment is being in force in the minute of that moment.
LEMMA AppliesIs ==
    ASSUME NEW t, t.from \in Nat, t.to \in Nat, t.to <= 2 * DayMinutes, NEW x \in Int
    PROVE  Prices!AppliesAt(t, x) <=> InForce(t, x \div MinuteTicks)
<1> DEFINE n == MinuteTicks
           m == x \div n
           q == m \div DayMinutes
           rel(d) == (x - d * Prices!DAY) \div Prices!MINUTE
<1>1. n \in Nat \ {0} /\ DayMinutes \in Nat \ {0}
  BY ClockUnits
<1>2. m \in Int /\ q \in Int
  BY <1>1, Quotient
<1>3. x \div Prices!DAY = q
  BY <1>1, ClockUnits, QuotientTwice
<1>4. ASSUME NEW d \in Int
      PROVE  /\ rel(d) = m - d * DayMinutes /\ d * DayMinutes \in Int
             /\ (t.from <= rel(d) /\ rel(d) < t.to) <=> Reaches(t, d, m)
  <2> DEFINE y == d * DayMinutes
  <2>1. y \in Int /\ x - d * (DayMinutes * n) = x + (-y) * n
    BY <1>1, SMTT(20)
  <2>2. (x + (-y) * n) \div n = m + (-y)
    <3>1. -y \in Int
      BY <2>1
    <3> HIDE DEF y
    <3> QED BY <1>1, <3>1, QuotientShift
  <2>3. rel(d) = m + (-y)
    BY <2>1, <2>2, ClockUnits
  <2> HIDE DEF rel, m
  <2>4. rel(d) = m - y
    BY <1>2, <2>1, <2>3
  <2> QED BY <1>2, <2>1, <2>4 DEF Reaches
<1>5. Prices!AppliesAt(t, x) <=>
          \E offset \in {0, -1} : LET d == q + offset
                                  IN  d % WeekDays \in t.days /\ t.from <= rel(d) /\ rel(d) < t.to
  BY <1>3 DEF Prices!AppliesAt
<1>6. Prices!AppliesAt(t, x) <=>
          \E d \in {q, q - 1} : d % WeekDays \in t.days /\ t.from <= rel(d) /\ rel(d) < t.to
  <2>1. q + 0 = q /\ q + (-1) = q - 1
    BY <1>2
  <2> HIDE DEF rel, q
  <2> QED BY <1>5, <2>1
<1> HIDE DEF rel
<1>7. Prices!AppliesAt(t, x) <=> \E d \in {q, q - 1} : d % WeekDays \in t.days /\ Reaches(t, d, m)
  BY <1>2, <1>4, <1>6
<1>8. \A d \in Int : Reaches(t, d, m) => d \in {q, q - 1}
  BY <1>2, ReachedFrom
<1>9. q \in Int /\ q - 1 \in Int
  BY <1>2
<1> HIDE DEF q, m
<1>10. Prices!AppliesAt(t, x) <=> InForce(t, m)
  BY <1>7, <1>8, <1>9 DEF InForce
<1> QED BY <1>10 DEF m

-----------------------------------------------------------------------------
\* The tariffs of T that are for this console, this room and minute m
Fitting(T, m, console, kind) ==
    {i \in T : /\ tariff[i].console \in {AnyOne, console}
               /\ tariff[i].kind \in {AnyOne, kind}
               /\ InForce(tariff[i], m)}

\* The tariffs that take part passed _clean_tariff_fields.
LEMMA ActiveRows ==
    ASSUME PriceInv
    PROVE  /\ Prices!LoadTariffs \in SUBSET TariffIds /\ IsFiniteSet(Prices!LoadTariffs)
           /\ \A i \in Prices!LoadTariffs :
                  /\ tariff[i].status = "active"
                  /\ tariff[i].from \in Nat /\ tariff[i].to \in Nat
                  /\ tariff[i].to <= 2 * DayMinutes
                  /\ tariff[i].price \in Nat /\ tariff[i].priority \in Nat
<1>1. Prices!LoadTariffs \in SUBSET TariffIds
  BY DEF Prices!LoadTariffs
<1>2. IsFiniteSet(Prices!LoadTariffs)
  BY <1>1, ClockUnits, FS_Subset
<1>3. ASSUME NEW i \in Prices!LoadTariffs
      PROVE  /\ tariff[i].status = "active"
             /\ tariff[i] \in Prices!Tariff /\ Prices!CleanTariffFields(tariff[i])
  <2>1. i \in TariffIds /\ tariff[i].status = "active"
    BY DEF Prices!LoadTariffs
  <2>2. tariff[i] # Prices!NoTariff
    BY <2>1 DEF Prices!NoTariff
  <2> QED BY <2>1, <2>2 DEF PriceInv, Prices!TypeOK
<1> QED BY <1>1, <1>2, <1>3 DEF Prices!Tariff, Prices!CleanTariffFields

\* The candidates at a moment are the tariffs that fit its minute.
LEMMA CandidatesAre ==
    ASSUME PriceInv, NEW x \in Int, NEW console, NEW kind
    PROVE  Prices!Candidates(Prices!LoadTariffs, x, console, kind)
               = Fitting(Prices!LoadTariffs, x \div MinuteTicks, console, kind)
BY ActiveRows, AppliesIs DEF Prices!Candidates, Fitting

\* What a guest expects looks at the days of the week around, which is enough.
LEMMA ExpectedAre ==
    ASSUME PriceInv, NEW m \in 0 .. (WeekDays + 1) * DayMinutes - 1, NEW console, NEW kind
    PROVE  Prices!ExpectedAt(m, console, kind)
               = Fitting(Prices!LoadTariffs, m, console, kind)
<1> DEFINE n == DayMinutes
           w == WeekDays
<1>1. n \in Nat \ {0} /\ w \in Nat \ {0}
  BY ClockUnits
<1>2. (w + 1) * n \in Int /\ m \in Int /\ 0 <= m /\ m < (w + 1) * n
  BY <1>1, SMTT(20)
<1>3. m \div n \in 0 .. w
  <2> DEFINE q == m \div n
  <2>1. q \in Int /\ n * q <= m /\ m < n * q + n
    BY <1>1, <1>2, Quotient
  <2> HIDE DEF q, n, w
  <2>2. n * (q + 1) = n * q + n /\ n * q \in Int
    BY <1>1, <2>1, SMTT(20)
  <2>3. q + 1 <= 0 => n * (q + 1) <= 0
    BY <1>1, <2>1, SMTT(20)
  <2>4. w + 1 <= q => n * (w + 1) <= n * q
    BY <1>1, <2>1, SMTT(20)
  <2>5. n * (w + 1) = (w + 1) * n
    BY <1>1, SMTT(20)
  <2>6. 0 <= q /\ q <= w
    BY <1>1, <1>2, <2>1, <2>2, <2>3, <2>4, <2>5
  <2>7. q \in 0 .. w
    BY <1>1, <2>1, <2>6
  <2> QED BY <2>7 DEF q
<1>4. \A d \in {m \div n, m \div n - 1} : d \in -1 .. 2 * w
  <2> HIDE DEF n, w
  <2> QED BY <1>1, <1>3
<1>5. ASSUME NEW i \in Prices!LoadTariffs
      PROVE  (\E d \in -1 .. 2 * w : d % w \in tariff[i].days /\ Reaches(tariff[i], d, m))
                 <=> InForce(tariff[i], m)
  <2>1. \A d \in Int : Reaches(tariff[i], d, m) => d \in -1 .. 2 * w
    BY <1>2, <1>4, ActiveRows, ReachedFrom
  <2>2. \A d \in -1 .. 2 * w : d \in Int
    BY <1>1
  <2> QED BY <2>1, <2>2 DEF InForce
<1>6. ASSUME NEW i \in Prices!LoadTariffs
      PROVE  (\E d \in -1 .. 2 * w : /\ d % w \in tariff[i].days
                                     /\ d * n + tariff[i].from <= m
                                     /\ m < d * n + tariff[i].to)
                 <=> InForce(tariff[i], m)
  BY <1>5 DEF Reaches
<1> QED BY <1>6 DEF Prices!ExpectedAt, Fitting, Prices!LoadTariffs

Points(a, b) == Prices!Boundaries(Prices!LoadTariffs, a * MinuteTicks, b * MinuteTicks)

\* The points of _boundaries: whole minutes of the window, among them both ends and
\* every minute in which a tariff of a day that can reach the window begins or ends.
LEMMA PointsAre ==
    ASSUME PriceInv, NEW a \in Int, NEW b \in Int, a < b
    PROVE  /\ Points(a, b) \in SUBSET Int /\ IsFiniteSet(Points(a, b))
           /\ a * MinuteTicks \in Points(a, b) /\ b * MinuteTicks \in Points(a, b)
           /\ \A p \in Points(a, b) : \E i \in a .. b : p = i * MinuteTicks
           /\ \A i \in Prices!LoadTariffs, d \in a \div DayMinutes - 1 .. b \div DayMinutes :
                  \A x \in {d * DayMinutes + tariff[i].from, d * DayMinutes + tariff[i].to} :
                      a <= x /\ x <= b => x * MinuteTicks \in Points(a, b)
<1> DEFINE n == MinuteTicks
           T == Prices!LoadTariffs
           days == a \div DayMinutes - 1 .. b \div DayMinutes
           Raw == {a * n, b * n} \union {d * (DayMinutes * n) : d \in days}
                    \union {d * (DayMinutes * n) + tariff[i].from * n : d \in days, i \in T}
                    \union {d * (DayMinutes * n) + tariff[i].to * n : d \in days, i \in T}
           P == Points(a, b)
<1>1. n \in Nat \ {0} /\ DayMinutes \in Nat \ {0}
  BY ClockUnits
<1>2. a * n \in Int /\ b * n \in Int /\ a * n < b * n
  BY <1>1, Multiples
<1>3. (a * n) \div (DayMinutes * n) = a \div DayMinutes
      /\ (b * n) \div (DayMinutes * n) = b \div DayMinutes
  <2>1. ASSUME NEW c \in Int PROVE (c * n) \div n = c
    <3>1. n * c = c * n /\ c * n \in Int
      BY <1>1, SMTT(20)
    <3>2. n * c <= c * n /\ c * n < n * c + n
      BY <1>1, <3>1
    <3> QED BY <1>1, <3>1, <3>2, QuotientIs
  <2>2. /\ (a * n) \div (DayMinutes * n) = ((a * n) \div n) \div DayMinutes
        /\ (b * n) \div (DayMinutes * n) = ((b * n) \div n) \div DayMinutes
    BY <1>1, <1>2, QuotientTwice
  <2> QED BY <2>1, <2>2
<1>4. P = {p \in Raw : a * n <= p /\ p <= b * n}
  <2> DEFINE Cut(day, minute, ds) ==
               {p \in {a * n, b * n} \union {d * day : d \in ds}
                        \union {d * day + tariff[i].from * minute : d \in ds, i \in T}
                        \union {d * day + tariff[i].to * minute : d \in ds, i \in T} :
                    a * n <= p /\ p <= b * n}
  <2>1. P = Cut(Prices!DAY, Prices!MINUTE,
                (a * n) \div Prices!DAY - 1 .. (b * n) \div Prices!DAY)
    BY DEF Points, Prices!Boundaries
  <2>2. {p \in Raw : a * n <= p /\ p <= b * n} = Cut(DayMinutes * n, n, days)
    OBVIOUS
  <2> HIDE DEF Cut, P, Raw
  <2>3. Prices!DAY = DayMinutes * n /\ Prices!MINUTE = n
    BY ClockUnits
  <2> HIDE DEF n
  <2> QED BY <1>3, <2>1, <2>2, <2>3
<1>5. a \div DayMinutes \in Int /\ b \div DayMinutes \in Int /\ \A d \in days : d \in Int
  BY <1>1, Quotient
<1>6. ASSUME NEW d \in Int, NEW j \in Int
      PROVE  d * (DayMinutes * n) + j * n = (d * DayMinutes + j) * n
             /\ d * (DayMinutes * n) = (d * DayMinutes) * n
             /\ d * DayMinutes + j \in Int /\ d * DayMinutes \in Int
  BY <1>1, SMTT(20)
<1>7. ASSUME NEW p \in Raw
      PROVE  \E i \in Int : p = i * n
  <2>1. CASE p \in {a * n, b * n}
    BY <2>1
  <2>2. CASE p \in {d * (DayMinutes * n) : d \in days}
    BY <1>5, <1>6, <2>2
  <2>3. CASE p \in {d * (DayMinutes * n) + tariff[i].from * n : d \in days, i \in T}
    <3>1. PICK d \in days, i \in T : p = d * (DayMinutes * n) + tariff[i].from * n
      BY <2>3
    <3> DEFINE f == tariff[i].from
    <3>2. d \in Int /\ f \in Int
      BY <1>5, ActiveRows
    <3> HIDE DEF f, n
    <3>3. p = (d * DayMinutes + f) * n /\ d * DayMinutes + f \in Int
      BY <1>1, <1>6, <3>1, <3>2 DEF f
    <3> QED BY <3>3
  <2>4. CASE p \in {d * (DayMinutes * n) + tariff[i].to * n : d \in days, i \in T}
    <3>1. PICK d \in days, i \in T : p = d * (DayMinutes * n) + tariff[i].to * n
      BY <2>4
    <3> DEFINE f == tariff[i].to
    <3>2. d \in Int /\ f \in Int
      BY <1>5, ActiveRows
    <3> HIDE DEF f, n
    <3>3. p = (d * DayMinutes + f) * n /\ d * DayMinutes + f \in Int
      BY <1>1, <1>6, <3>1, <3>2 DEF f
    <3> QED BY <3>3
  <2> QED BY <2>1, <2>2, <2>3, <2>4
<1>8. ASSUME NEW i \in T, NEW d \in days
      PROVE  /\ (d * DayMinutes + tariff[i].from) * n \in Raw
             /\ (d * DayMinutes + tariff[i].to) * n \in Raw
             /\ d * DayMinutes + tariff[i].from \in Int /\ d * DayMinutes + tariff[i].to \in Int
  <2>1. d \in Int /\ tariff[i].from \in Int /\ tariff[i].to \in Int
    BY <1>5, ActiveRows
  <2>2. /\ d * (DayMinutes * n) + tariff[i].from * n \in Raw
        /\ d * (DayMinutes * n) + tariff[i].to * n \in Raw
    OBVIOUS
  <2> HIDE DEF Raw
  <2> QED BY <1>6, <2>1, <2>2
<1>9. a * n \in Raw /\ b * n \in Raw
  OBVIOUS
<1> HIDE DEF Raw, P
<1>10. ASSUME NEW p \in P
       PROVE  p \in Int /\ \E i \in a .. b : p = i * n
  <2>1. PICK i \in Int : p = i * n
    BY <1>4, <1>7
  <2>2. p \in Int /\ a * n <= i * n /\ i * n <= b * n
    BY <1>1, <1>4, <2>1, Multiples
  <2>3. a <= i /\ i <= b
    BY <1>1, <2>2, Multiples
  <2> QED BY <2>1, <2>2, <2>3
<1>11. P \in SUBSET Int /\ a * n \in P /\ b * n \in P
  BY <1>2, <1>4, <1>9, <1>10
<1>12. IsFiniteSet(P)
  <2>1. P \in SUBSET (a * n .. b * n) /\ IsFiniteSet(a * n .. b * n)
    BY <1>2, <1>4, <1>10, FS_Interval
  <2> QED BY <2>1, FS_Subset
<1>13. ASSUME NEW x \in Int, a <= x, x <= b, x * n \in Raw
       PROVE  x * n \in P
  <2>1. a * n <= x * n /\ x * n <= b * n
    BY <1>1, <1>13, Multiples
  <2> QED BY <1>4, <1>13, <2>1
<1>14. ASSUME NEW i \in T, NEW d \in days,
              NEW x \in {d * DayMinutes + tariff[i].from, d * DayMinutes + tariff[i].to},
              a <= x, x <= b
       PROVE  x * n \in P
  BY <1>8, <1>13, <1>14
<1> QED BY <1>10, <1>11, <1>12, <1>14 DEF P

\* Between two points no tariff begins or ends, so one minute stands for all of a piece.
LEMMA PieceConstant ==
    ASSUME PriceInv, NEW a \in Int, NEW b \in Int, a < b, NEW p \in Points(a, b),
           p < b * MinuteTicks, NEW i \in Prices!LoadTariffs, NEW m \in Int, NEW l \in Int,
           p <= m * MinuteTicks, m * MinuteTicks < Following(Points(a, b), p),
           p <= l * MinuteTicks, l * MinuteTicks < Following(Points(a, b), p),
           InForce(tariff[i], m)
    PROVE  InForce(tariff[i], l)
<1> DEFINE n == MinuteTicks
           P == Points(a, b)
           q == Following(P, p)
           t == tariff[i]
<1>1. n \in Nat \ {0} /\ DayMinutes \in Nat \ {0}
  BY ClockUnits
<1>2. /\ q \in P /\ p < q /\ \A x \in P : p < x => q <= x
  <2>1. P \in SUBSET Int /\ IsFiniteSet(P) /\ b * n \in P
    BY PointsAre
  <2> HIDE DEF P, n
  <2> QED BY <2>1, FollowingIs DEF n, P
<1>3. PICK g \in a .. b : p = g * n
  BY PointsAre
<1>4. PICK h \in a .. b : q = h * n
  BY <1>2, PointsAre
<1>5. g \in Int /\ h \in Int /\ a <= g /\ h <= b
  OBVIOUS
<1>6. g <= m /\ m < h /\ g <= l /\ l < h
  BY <1>1, <1>3, <1>4, <1>5, Multiples
<1>7. PICK d \in Int : d % WeekDays \in t.days /\ Reaches(t, d, m)
  BY DEF InForce
<1>8. t.from \in Nat /\ t.to \in Nat /\ t.to <= 2 * DayMinutes
  BY ActiveRows
<1>9. d \in {m \div DayMinutes, m \div DayMinutes - 1}
  <2> HIDE DEF t
  <2> QED BY <1>7, <1>8, ReachedFrom
<1>10. d \in a \div DayMinutes - 1 .. b \div DayMinutes
  <2>1. a \div DayMinutes <= m \div DayMinutes /\ m \div DayMinutes <= b \div DayMinutes
    <3>1. a <= m /\ m <= b
      BY <1>5, <1>6
    <3> QED BY <1>1, <3>1, QuotientGrows
  <2>2. a \div DayMinutes \in Int /\ m \div DayMinutes \in Int /\ b \div DayMinutes \in Int
    BY <1>1, Quotient
  <2> QED BY <1>9, <2>1, <2>2
<1> DEFINE first == d * DayMinutes + t.from
           end == d * DayMinutes + t.to
<1>11. first \in Int /\ end \in Int /\ first <= m /\ m < end
  BY <1>1, <1>7, <1>8, SMTT(20) DEF Reaches
<1>12. ASSUME NEW x \in {first, end}, g < x, x < h
       PROVE  FALSE
  <2>1. x \in Int /\ a <= x /\ x <= b
    BY <1>5, <1>11, <1>12
  <2>2. x * n \in P
    BY <1>10, <2>1, PointsAre
  <2>3. p < x * n /\ x * n < q
    BY <1>1, <1>3, <1>4, <1>5, <1>12, <2>1, Multiples
  <2>4. q <= x * n
    BY <1>2, <2>2, <2>3
  <2> QED BY <1>1, <1>4, <1>5, <2>1, <2>3, <2>4, Multiples
<1>13. first <= l /\ l < end
  <2>1. ~(g < first /\ first < h) /\ ~(g < end /\ end < h)
    BY <1>12
  <2> HIDE DEF first, end
  <2> QED BY <1>5, <1>6, <1>11, <2>1
<1>14. Reaches(t, d, l)
  BY <1>13 DEF Reaches
<1> QED BY <1>7, <1>14 DEF InForce

-----------------------------------------------------------------------------
\* The highest priority, then the smallest id: the one the guest expects
LEMMA PickIs ==
    ASSUME PriceInv, NEW C \in SUBSET Prices!LoadTariffs, C # {}
    PROVE  /\ Prices!Pick(C) \in C
           /\ LET top == Max({tariff[i].priority : i \in C})
              IN  Min({i \in C : tariff[i].priority = top}) = Prices!Pick(C)
<1> DEFINE x == Prices!Pick(C)
           R == {r \in C \X C : Prices!Prior(r[1], r[2])}
<1>1. \A i \in C : i \in Int /\ tariff[i].priority \in Nat
  BY ActiveRows, ClockUnits
<1>2. IsFiniteSet(C)
  BY ActiveRows, FS_Subset
<1>3. \A i, j \in C : <<i, j>> \in R <=> Prices!Prior(i, j)
  OBVIOUS
<1>4. \E i \in C : \A j \in C : Prices!Prior(i, j)
  <2> HIDE DEF R
  <2>1. ASSUME NEW i \in C, NEW j \in C PROVE <<i, j>> \in R \/ <<j, i>> \in R
    <3>1. /\ i \in Int /\ j \in Int
          /\ tariff[i].priority \in Nat /\ tariff[j].priority \in Nat
      BY <1>1
    <3>2. Prices!Prior(i, j) \/ Prices!Prior(j, i)
      BY <3>1 DEF Prices!Prior
    <3> QED BY <1>3, <3>2
  <2>2. \A i, j, k \in C : <<i, j>> \in R /\ <<j, k>> \in R => <<i, k>> \in R
    BY <1>1, <1>3 DEF Prices!Prior
  <2>3. \E i \in C : \A j \in C : <<i, j>> \in R
    BY <1>2, <2>1, <2>2, FirstOf
  <2> QED BY <1>3, <2>3
<1>5. x \in C /\ \A j \in C : Prices!Prior(x, j)
  BY <1>4 DEF Prices!Pick
<1> HIDE DEF x
<1> DEFINE V == {tariff[i].priority : i \in C}
           top == Max(V)
           F == {i \in C : tariff[i].priority = top}
<1>6. top = tariff[x].priority
  <2>1. tariff[x].priority \in V /\ V \in SUBSET Int
    BY <1>1, <1>5
  <2>2. \A v \in V : v <= tariff[x].priority
    BY <1>1, <1>5 DEF Prices!Prior
  <2>3. top \in V /\ tariff[x].priority <= top
    <3>1. \E v \in V : \A y \in V : v >= y
      BY <2>1, <2>2
    <3>2. top \in V /\ \A y \in V : top >= y
      BY <3>1 DEF Max
    <3> HIDE DEF V, top
    <3>3. \A y \in V : y \in Int
      BY <2>1
    <3>4. top \in Int /\ tariff[x].priority \in Int /\ top >= tariff[x].priority
      BY <2>1, <3>2, <3>3
    <3> QED BY <3>2, <3>4
  <2> DEFINE w == tariff[x].priority
  <2> HIDE DEF V, top, w
  <2>4. top \in Int /\ w \in Int /\ top <= w /\ w <= top
    BY <2>1, <2>2, <2>3 DEF w
  <2>5. top = w
    BY <2>4
  <2> QED BY <2>5 DEF w
<1> HIDE DEF V, top
<1>7. x \in F /\ \A j \in F : x <= j
  BY <1>1, <1>5, <1>6 DEF Prices!Prior
<1>8. Min(F) = x
  <2>1. F \in SUBSET Int
    BY <1>1
  <2>2. Min(F) \in F /\ \A y \in F : Min(F) <= y
    BY <1>7 DEF Min
  <2> HIDE DEF F
  <2>3. x \in Int /\ Min(F) \in Int /\ x <= Min(F) /\ Min(F) <= x
    BY <1>7, <2>1, <2>2
  <2> QED BY <2>3
<1> QED BY <1>5, <1>8 DEF x, V, top

\* Minimum and maximum are the same in both modules.
LEMMA SameMin == \A S : Prices!Min(S) = Min(S) /\ Prices!Max(S) = Max(S)
BY DEF Prices!Min, Min, Prices!Max, Max

\* The tariff that a minute is charged by
Charged(m, console, kind) ==
    tariff[Prices!Pick(Fitting(Prices!LoadTariffs, m, console, kind))].price

\* The middle of a piece lies in a minute of it, ...
LEMMA MiddleOfPiece ==
    ASSUME NEW n \in Nat \ {0}, NEW g \in Int, NEW q \in Int, g * n < q
    PROVE  LET l == ((g * n + q) \div 2) \div n
           IN  /\ (g * n + q) \div 2 \in Int /\ l \in Int
               /\ g * n <= l * n /\ l * n < q
<1> DEFINE p == g * n
           x == (p + q) \div 2
           l == x \div n
<1>1. p \in Int /\ p < q /\ n * g = p
  BY SMTT(20)
<1> HIDE DEF p
<1>2. x \in Int /\ p <= x /\ x < q
  BY <1>1
<1> HIDE DEF x
<1>3. l \in Int /\ n * l <= x /\ x < n * l + n
  BY <1>2, Quotient
<1> HIDE DEF l
<1>4. n * l = l * n /\ n * (l + 1) = n * l + n /\ l * n \in Int
  BY <1>3, SMTT(20)
<1>5. g <= l
  <2>1. l + 1 <= g => n * (l + 1) <= n * g
    BY <1>3, SMTT(20)
  <2> QED BY <1>1, <1>2, <1>3, <1>4, <2>1
<1>6. p <= l * n /\ l * n < q
  <2>1. n * g <= n * l
    BY <1>3, <1>5, SMTT(20)
  <2> QED BY <1>1, <1>2, <1>3, <1>4, <2>1
<1> QED BY <1>2, <1>3, <1>6 DEF l, x, p

\* ... so what fits at the middle fits in every minute of the piece.
LEMMA PieceFits ==
    ASSUME PriceInv, NEW a \in Int, NEW b \in Int, a < b, NEW p \in Points(a, b),
           p < b * MinuteTicks, NEW m \in Int,
           p <= m * MinuteTicks, m * MinuteTicks < Following(Points(a, b), p),
           NEW console, NEW kind
    PROVE  Prices!Candidates(Prices!LoadTariffs, (p + Following(Points(a, b), p)) \div 2,
                             console, kind)
               = Fitting(Prices!LoadTariffs, m, console, kind)
<1> DEFINE n == MinuteTicks
           P == Points(a, b)
           q == Following(P, p)
           x == (p + q) \div 2
           l == x \div n
<1>1. n \in Nat \ {0}
  BY ClockUnits
<1>2. q \in P /\ p < q
  <2>1. P \in SUBSET Int /\ IsFiniteSet(P) /\ b * n \in P
    BY PointsAre
  <2> HIDE DEF P, n
  <2> QED BY <2>1, FollowingIs DEF n, P
<1>3. PICK g \in Int : p = g * n
  BY PointsAre
<1>4. q \in Int
  BY <1>2, PointsAre
<1>5. x \in Int /\ l \in Int /\ p <= l * n /\ l * n < q
  <2> HIDE DEF q, n
  <2> QED BY <1>1, <1>2, <1>3, <1>4, MiddleOfPiece
<1>6. \A i \in Prices!LoadTariffs : InForce(tariff[i], l) <=> InForce(tariff[i], m)
  <2> HIDE DEF l
  <2> QED BY <1>5, PieceConstant
<1>7. Prices!Candidates(Prices!LoadTariffs, x, console, kind)
          = Fitting(Prices!LoadTariffs, l, console, kind)
  <2> HIDE DEF x
  <2> QED BY <1>5, CandidatesAre DEF l
<1> HIDE DEF x, l
<1>8. Fitting(Prices!LoadTariffs, l, console, kind) = Fitting(Prices!LoadTariffs, m, console, kind)
  BY <1>6 DEF Fitting
<1> QED BY <1>7, <1>8 DEF x

\* The minutes of a window and its pieces
LEMMA PiecesOf ==
    ASSUME PriceInv, NEW a \in Int, NEW b \in Int, a < b
    PROVE  /\ \A p \in Points(a, b) \ {b * MinuteTicks} :
                  /\ p < b * MinuteTicks
                  /\ \E m \in a .. b - 1 : /\ p <= m * MinuteTicks
                                           /\ m * MinuteTicks < Following(Points(a, b), p)
           /\ \A m \in a .. b - 1 : \E p \in Points(a, b) \ {b * MinuteTicks} :
                  /\ p <= m * MinuteTicks
                  /\ m * MinuteTicks < Following(Points(a, b), p)
<1> DEFINE n == MinuteTicks
           P == Points(a, b)
           e == b * n
<1>1. n \in Nat \ {0}
  BY ClockUnits
<1>2. /\ P \in SUBSET Int /\ IsFiniteSet(P) /\ a * n \in P /\ e \in P
      /\ \A p \in P : \E i \in a .. b : p = i * n
  BY PointsAre
<1> HIDE DEF P, n
<1>3. ASSUME NEW p \in P \ {e}
      PROVE  /\ p < e
             /\ \E m \in a .. b - 1 : p <= m * n /\ m * n < Following(P, p)
  <2>1. PICK g \in a .. b : p = g * n
    BY <1>2
  <2>2. g # b
    BY <2>1
  <2>3. g \in Int /\ g < b /\ g \in a .. b - 1
    BY <2>2
  <2>4. p < e /\ p \in Int /\ e \in Int
    BY <1>1, <2>1, <2>3, Multiples
  <2>5. p < Following(P, p)
    <3> HIDE DEF e
    <3> QED BY <1>2, <2>4, FollowingIs
  <2>6. p <= g * n /\ g * n < Following(P, p)
    BY <2>1, <2>4, <2>5
  <2> QED BY <2>3, <2>4, <2>6
<1>4. ASSUME NEW m \in a .. b - 1
      PROVE  \E p \in P \ {e} : p <= m * n /\ m * n < Following(P, p)
  <2> DEFINE t == m * n
             x == Preceding(P, t)
             U == {p \in P : p <= t}
  <2>1. t \in Int /\ a * n <= t /\ t < e /\ e \in Int
    BY <1>1, Multiples
  <2>2. x \in U
    <3>1. U \in SUBSET Int /\ IsFiniteSet(U) /\ a * n \in U
      BY <1>2, <2>1, FS_Subset
    <3>2. Max(U) \in U
      <4> HIDE DEF U
      <4> QED BY <3>1, LargestOf
    <3> QED BY <3>2 DEF Preceding
  <2>3. x \in P /\ x # e
    BY <2>1, <2>2
  <2>4. x < e
    BY <1>3, <2>3
  <2> HIDE DEF t, e
  <2>5. x = Preceding(P, t)
    OBVIOUS
  <2> HIDE DEF x
  <2>6. x <= t /\ t < Following(P, x)
    BY <1>2, <2>1, <2>3, <2>4, <2>5, PrecedingIs
  <2> QED BY <2>3, <2>6 DEF t, e
<1> QED BY <1>3, <1>4 DEF P, n

\* Minute by minute: what the guest adds up is the sum of the tariffs of the minutes.
LEMMA ExpectedSum ==
    ASSUME PriceInv, NEW M \in SUBSET (0 .. (WeekDays + 1) * DayMinutes - 1), IsFiniteSet(M),
           NEW console, NEW kind,
           \A m \in M : Prices!ExpectedAt(m, console, kind) # {}
    PROVE  Prices!MapThenSumSet(LAMBDA m : Prices!ExpectedPrice(m, console, kind), M)
               = SumOver([m \in M |-> Charged(m, console, kind)], M)
<1> DEFINE f == [m \in M |-> Charged(m, console, kind)]
           Eq(g) == g = [s \in SUBSET M |-> IF s = {} THEN 0
                          ELSE Prices!ExpectedPrice(OneOf(s), console, kind) + g[s \ {OneOf(s)}]]
<1>1. Prices!MapThenSumSet(LAMBDA m : Prices!ExpectedPrice(m, console, kind), M)
          = (CHOOSE g : Eq(g))[M]
  BY DEF Prices!MapThenSumSet, Prices!MapThenFoldSet, OneOf
<1>2. ASSUME NEW m \in M
      PROVE  f[m] = Prices!ExpectedPrice(m, console, kind)
  <2> DEFINE C == Fitting(Prices!LoadTariffs, m, console, kind)
  <2>1. Prices!ExpectedAt(m, console, kind) = C
    BY ExpectedAre
  <2>2. C \in SUBSET Prices!LoadTariffs /\ C # {}
    BY <2>1 DEF Fitting
  <2>3. f[m] = tariff[Prices!Pick(C)].price
    BY DEF Charged
  <2> HIDE DEF C, f
  <2>4. Min({i \in C : tariff[i].priority = Max({tariff[j].priority : j \in C})})
            = Prices!Pick(C)
    BY <2>2, PickIs
  <2>5. Prices!ExpectedPrice(m, console, kind) =
            tariff[Prices!Min({i \in C : tariff[i].priority =
                                   Prices!Max({tariff[j].priority : j \in C})})].price
    BY <2>1 DEF Prices!ExpectedPrice
  <2> QED BY <2>3, <2>4, <2>5, SameMin
<1>3. ASSUME NEW s \in SUBSET M, s # {}
      PROVE  f[OneOf(s)] = Prices!ExpectedPrice(OneOf(s), console, kind)
  BY <1>2, <1>3, OneOfIn
<1> HIDE DEF f
<1>4. ASSUME NEW g PROVE AddsUp(f, M, g) <=> Eq(g)
  BY <1>3 DEF AddsUp
<1> HIDE DEF Eq
<1>5. (CHOOSE g : Eq(g)) = (CHOOSE g : AddsUp(f, M, g))
  BY <1>4
<1>6. (CHOOSE g : AddsUp(f, M, g))[M] = SumOver(f, M)
  BY SumUnfolds
<1> QED BY <1>1, <1>5, <1>6 DEF f

\* The pieces of a window by their first points, and what its minutes come to
Lefts(a, b) == Points(a, b) \ {b * MinuteTicks}

AllFit(a, b, console, kind) ==
    \A m \in a .. b - 1 : Fitting(Prices!LoadTariffs, m, console, kind) # {}

ChargeOf(a, b, console, kind) ==
    SumOver([m \in a .. b - 1 |-> Charged(m, console, kind)], a .. b - 1)

\* h is what price_for_window charges for each piece: the price at its middle, by the tick.
PieceWeights(h, a, b, console, kind) ==
    \A p \in Lefts(a, b) :
        h[p] = tariff[Prices!Pick(Prices!Candidates(Prices!LoadTariffs,
                          (p + Following(Points(a, b), p)) \div 2, console, kind))].price
               * (Following(Points(a, b), p) - p)

\* That is n ticks of each minute of the window, if all have a tariff
LEMMA WindowSum ==
    ASSUME PriceInv, NEW a \in Int, NEW b \in Int, a < b, NEW console, NEW kind,
           AllFit(a, b, console, kind), NEW h, PieceWeights(h, a, b, console, kind)
    PROVE  SumOver(h, Lefts(a, b)) = MinuteTicks * ChargeOf(a, b, console, kind)
<1> DEFINE n == MinuteTicks
           P == Points(a, b)
           T == Prices!LoadTariffs
           f == [m \in a .. b - 1 |-> Charged(m, console, kind)]
           c == [p \in P \ {b * n} |->
                   tariff[Prices!Pick(Prices!Candidates(T, (p + Following(P, p)) \div 2,
                                                       console, kind))].price]
<1>1. n \in Nat \ {0}
  BY ClockUnits
<1>2. CutsUnits(P, n, a, b)
  BY PointsAre DEF CutsUnits
<1>3. ASSUME NEW p \in P \ {b * n}, NEW m \in a .. b - 1,
             p <= m * n, m * n < Following(P, p)
      PROVE  f[m] = c[p]
  <2>1. p < b * n
    BY PiecesOf
  <2>2. m \in Int
    OBVIOUS
  <2>3. Prices!Candidates(T, (p + Following(P, p)) \div 2, console, kind)
            = Fitting(T, m, console, kind)
    BY <1>3, <2>1, <2>2, PieceFits
  <2> QED BY <2>3 DEF Charged
<1>4. ASSUME NEW m \in a .. b - 1
      PROVE  f[m] \in Int
  <2> DEFINE C == Fitting(T, m, console, kind)
  <2>1. C \in SUBSET T /\ C # {}
    BY DEF Fitting, AllFit
  <2>2. Prices!Pick(C) \in C
    <3> HIDE DEF C
    <3> QED BY <2>1, PickIs
  <2>3. tariff[Prices!Pick(C)].price \in Nat
    BY <2>1, <2>2, ActiveRows
  <2> QED BY <2>3 DEF Charged
<1>5. ASSUME NEW p \in P \ {b * n}
      PROVE  c[p] \in Int /\ h[p] = c[p] * (Following(P, p) - p)
  <2>1. PICK m \in a .. b - 1 : p <= m * n /\ m * n < Following(P, p)
    BY PiecesOf
  <2>2. f[m] = c[p]
    BY <1>3, <2>1
  <2>3. c[p] \in Int
    <3> HIDE DEF f, c
    <3> QED BY <1>4, <2>2
  <2> QED BY <2>3 DEF PieceWeights, Lefts
<1>6. Charges(n, a, b, P, f, c, h)
  <2> HIDE DEF n, P, f, c
  <2> QED BY <1>3, <1>5 DEF Charges
<1> HIDE DEF n, P, f, c
<1>7. SumOver(h, P \ {b * n}) = n * SumOver(f, a .. b - 1)
  BY <1>1, <1>2, <1>6, PiecesSum
<1> QED BY <1>7 DEF n, P, f, Lefts, ChargeOf

\* price_for_window in its own words, with the window as minutes a .. b - 1
LEMMA WindowIs ==
    ASSUME PriceInv, NEW start \in Int, NEW hours \in Nat \ {0}, NEW console, NEW kind
    PROVE  LET a == start \div MinuteTicks
               b == a + hours * HourMinutes
               sum == ChargeOf(a, b, console, kind)
           IN  Prices!PriceForWindow(Prices!LoadTariffs, start, hours, console, kind) =
                   IF AllFit(a, b, console, kind)
                   THEN (sum + HourMinutes \div 2) \div HourMinutes
                   ELSE Prices!NoPrice
<1> DEFINE n == MinuteTicks
           T == Prices!LoadTariffs
           a == start \div n
           b == a + hours * HourMinutes
           sum == ChargeOf(a, b, console, kind)
           from == (start \div Prices!MINUTE) * Prices!MINUTE
           end == from + hours * Prices!HOUR
           Q == Prices!Boundaries(T, from, end)
           next(p) == Prices!Min({q \in Q : q > p})
           here(p) == Prices!Candidates(T, (p + next(p)) \div 2, console, kind)
           weight(p) == tariff[Prices!Pick(here(p))].price * (next(p) - p)
           total == Prices!MapThenSumSet(weight, Q \ {end})
           P == Points(a, b)
           L == Lefts(a, b)
           h == [p \in L |-> weight(p)]
<1>1. Prices!PriceForWindow(T, start, hours, console, kind) =
          IF \E p \in Q \ {end} : here(p) = {} THEN Prices!NoPrice
          ELSE (total + Prices!HOUR \div 2) \div Prices!HOUR
  BY DEF Prices!PriceForWindow
<1>2. n \in Nat \ {0} /\ HourMinutes \in Nat \ {0} /\ a \in Int
  BY ClockUnits, Quotient
<1>3. hours * HourMinutes \in Nat \ {0} /\ b \in Int /\ a < b
  <2>1. hours * HourMinutes \in Nat \ {0}
    BY <1>2, SMTT(20)
  <2> HIDE DEF a
  <2> QED BY <1>2, <2>1
<1>4. from = a * n /\ end = b * n
  <2>1. from = a * n /\ end = a * n + hours * (HourMinutes * n)
    BY ClockUnits
  <2> DEFINE k == hours * HourMinutes
  <2>2. hours * (HourMinutes * n) = k * n
    BY <1>2, SMTT(20)
  <2> HIDE DEF from, end, a, k
  <2>3. a * n + k * n = (a + k) * n
    BY <1>2, <1>3, SMTT(20) DEF k
  <2> QED BY <2>1, <2>2, <2>3 DEF k
<1>5. Q = P /\ Q \ {end} = L
  <2> HIDE DEF from, end, a, b
  <2> QED BY <1>4 DEF Points, Lefts
<1> HIDE DEF from, end, Q, a, b
<1>6. ASSUME NEW p PROVE next(p) = Following(P, p)
  BY <1>5, SameMin DEF Following
<1> HIDE DEF next, P
<1>7. ASSUME NEW p \in L
      PROVE  \E m \in a .. b - 1 : here(p) = Fitting(T, m, console, kind)
  <2>1. PICK m \in a .. b - 1 : p <= m * n /\ m * n < Following(P, p)
    BY <1>2, <1>3, PiecesOf DEF P, Lefts
  <2>2. p \in P /\ p < b * n /\ m \in Int
    BY <1>2, <1>3, PiecesOf DEF P, Lefts
  <2>3. here(p) = Fitting(T, m, console, kind)
    BY <1>2, <1>3, <1>6, <2>1, <2>2, PieceFits DEF P
  <2> QED BY <2>3
<1>8. ASSUME NEW m \in a .. b - 1
      PROVE  \E p \in L : here(p) = Fitting(T, m, console, kind)
  <2>1. PICK p \in L : p <= m * n /\ m * n < Following(P, p)
    BY <1>2, <1>3, PiecesOf DEF P, Lefts
  <2>2. p \in P /\ p < b * n /\ m \in Int
    BY <1>2, <1>3, PiecesOf DEF P, Lefts
  <2>3. here(p) = Fitting(T, m, console, kind)
    BY <1>2, <1>3, <1>6, <2>1, <2>2, PieceFits DEF P
  <2> QED BY <2>3
<1>9. (\E p \in L : here(p) = {}) <=> ~AllFit(a, b, console, kind)
  <2> HIDE DEF here
  <2> QED BY <1>7, <1>8 DEF AllFit
<1>10. total = SumOver(h, L)
  <2> DEFINE Eq(g) == g = [s \in SUBSET L |-> IF s = {} THEN 0
                              ELSE weight(OneOf(s)) + g[s \ {OneOf(s)}]]
  <2>1. total = Prices!MapThenSumSet(weight, L)
    BY <1>5
  <2>2. Prices!MapThenSumSet(weight, L) = (CHOOSE g : Eq(g))[L]
    BY DEF Prices!MapThenSumSet, Prices!MapThenFoldSet, OneOf
  <2>3. ASSUME NEW s \in SUBSET L, s # {} PROVE h[OneOf(s)] = weight(OneOf(s))
    <3>1. OneOf(s) \in L
      BY <2>3, OneOfIn
    <3> HIDE DEF weight, L
    <3> QED BY <3>1
  <2> HIDE DEF h, weight, L
  <2>4. ASSUME NEW g PROVE AddsUp(h, L, g) <=> Eq(g)
    BY <2>3 DEF AddsUp
  <2> HIDE DEF Eq
  <2>5. (CHOOSE g : Eq(g)) = (CHOOSE g : AddsUp(h, L, g))
    BY <2>4
  <2>6. (CHOOSE g : AddsUp(h, L, g))[L] = SumOver(h, L)
    BY SumUnfolds
  <2> QED BY <2>1, <2>2, <2>5, <2>6
<1>11. ASSUME AllFit(a, b, console, kind)
       PROVE  SumOver(h, L) = n * sum /\ sum \in Int
  <2>1. PieceWeights(h, a, b, console, kind)
    BY <1>6 DEF PieceWeights, P
  <2> HIDE DEF h
  <2>2. SumOver(h, L) = n * sum
    BY <1>2, <1>3, <1>11, <2>1, WindowSum DEF P
  <2>3. sum \in Int
    <3> DEFINE f == [m \in a .. b - 1 |-> Charged(m, console, kind)]
    <3>1. ASSUME NEW m \in a .. b - 1 PROVE f[m] \in Int
      <4> DEFINE C == Fitting(T, m, console, kind)
      <4>1. C \in SUBSET T /\ C # {}
        BY <1>11 DEF Fitting, AllFit
      <4>2. Prices!Pick(C) \in C
        <5> HIDE DEF C
        <5> QED BY <4>1, PickIs
      <4>3. tariff[Prices!Pick(C)].price \in Nat
        BY <4>1, <4>2, ActiveRows
      <4> QED BY <4>3 DEF Charged
    <3>2. IsFiniteSet(a .. b - 1)
      BY <1>2, <1>3, FS_Interval
    <3> HIDE DEF f
    <3>3. SumOver(f, a .. b - 1) \in Int
      BY <3>1, <3>2, SumType
    <3> QED BY <3>3 DEF f, ChargeOf
  <2> QED BY <2>2, <2>3
<1>12. Prices!HOUR = HourMinutes * n
  BY ClockUnits
<1>13. ASSUME AllFit(a, b, console, kind)
       PROVE  (total + Prices!HOUR \div 2) \div Prices!HOUR
                  = (sum + HourMinutes \div 2) \div HourMinutes
  <2>1. total = n * sum /\ sum \in Int
    BY <1>10, <1>11, <1>13
  <2> HIDE DEF total, sum
  <2> QED BY <1>2, <1>12, <2>1, Rounding
<1> HIDE DEF total, here, L, T
<1>14. Prices!PriceForWindow(T, start, hours, console, kind) =
           IF AllFit(a, b, console, kind)
           THEN (sum + HourMinutes \div 2) \div HourMinutes
           ELSE Prices!NoPrice
  BY <1>1, <1>5, <1>9, <1>13
<1> QED BY <1>14 DEF T, a, b

\* The night after a day is the night before the next: a minute of tomorrow is open if the
\* minute at the same time today is.
LEMMA OpenAgain ==
    ASSUME Hours, NEW m \in Int, 0 <= m, m < 2 * DayMinutes
    PROVE  Prices!OpenAt(m) <=> Prices!OpenAt(m % DayMinutes)
<1> USE HoursUnits
<1> DEFINE o == club.opens
           c == club.closes
           D == DayMinutes
<1> o \in Nat /\ c \in Nat /\ o < c /\ c < 2 * D /\ D \in Nat /\ D > 0
    BY DEF Hours
<1>1. CASE m < D
  <2>1. m % D = m
    BY <1>1
  <2> QED BY <2>1
<1>2. CASE D <= m
  <2>1. m % D = m - D
    <3>1. m \div D = 1
      <4>1. 1 \in Int /\ D * 1 <= m /\ m < D * 1 + D
        BY <1>2
      <4> QED BY <4>1, QuotientIs
    <3>2. m % D = m - D * (m \div D)
      BY SMTT(20)
    <3> QED BY <3>1, <3>2
  <2>2. Prices!OpenAt(m - D) => Prices!OpenAt(m)
    BY <1>2 DEF Prices!OpenAt
  <2>3. Prices!OpenAt(m) => Prices!OpenAt(m - D)
    BY <1>2 DEF Prices!OpenAt
  <2> QED BY <2>1, <2>2, <2>3
<1> QED BY <1>1, <1>2

\* _assert_within_opening_hours lets a booking in if each of its minutes is open.
LEMMA OpenWindow ==
    ASSUME Hours, NEW start \in Int, NEW hours \in Nat \ {0}, hours * HourMinutes <= DayMinutes
    PROVE  LET a == start \div MinuteTicks
           IN  Prices!WithinOpeningHours(start, hours) <=>
                   \A m \in a .. a + hours * HourMinutes - 1 : Prices!OpenAt(m % DayMinutes)
<1> DEFINE D == DayMinutes
           a == start \div MinuteTicks
           s == a % D
           k == hours * HourMinutes
           q == a \div D
<1>1. D \in Nat \ {0} /\ a \in Int
  BY ClockUnits, Quotient
<1>2. k \in 1 .. D
  <2>1. k \in Nat \ {0}
    BY ClockUnits, SMTT(20)
  <2> QED BY <1>1, <2>1
<1> HIDE DEF a, k
<1>3. q \in Int /\ s \in 0 .. D - 1 /\ a = D * q + s
  BY <1>1, SMTT(20)
<1>4. Prices!WithinOpeningHours(start, hours) <=> Prices!FitsOpeningHours(s, k)
  BY ClockUnits DEF Prices!WithinOpeningHours, a, k
<1>5. Prices!FitsOpeningHours(s, k) <=> \A x \in s .. s + k - 1 : Prices!OpenAt(x)
  <2> HIDE DEF s, D
  <2> QED BY <1>2, <1>3, TwoEndsSuffice DEF D
<1> HIDE DEF q, s
<1>6. ASSUME NEW x \in s .. s + k - 1
      PROVE  Prices!OpenAt(x) <=> Prices!OpenAt((D * q + x) % D)
  <2>1. x \in Int /\ 0 <= x /\ x < 2 * D
    BY <1>1, <1>2, <1>3
  <2>2. (D * q + x) % D = x % D
    <3> DEFINE y == x \div D
               z == x % D
    <3>1. y \in Int /\ z \in Int /\ 0 <= z /\ z < D /\ x = D * y + z
      BY <1>1, <2>1, SMTT(20)
    <3> HIDE DEF y, z
    <3> DEFINE w == D * q + x
    <3>2. w \in Int /\ D * (q + y) = D * q + D * y /\ D * q \in Int /\ D * y \in Int
      BY <1>1, <1>3, <2>1, <3>1, SMTT(20)
    <3>3. w = D * (q + y) + z /\ q + y \in Int
      BY <1>1, <1>3, <3>1, <3>2
    <3> HIDE DEF w
    <3>4. w \div D = q + y
      BY <1>1, <3>1, <3>2, <3>3, QuotientIs
    <3>5. w % D = w - D * (w \div D)
      BY <1>1, <3>2, SMTT(20)
    <3>6. w % D = z
      BY <1>1, <3>1, <3>2, <3>3, <3>4, <3>5
    <3> QED BY <3>6 DEF w, z
  <2> QED BY <2>1, <2>2, OpenAgain
<1>7. (\A x \in s .. s + k - 1 : Prices!OpenAt((D * q + x) % D)) <=>
          \A m \in a .. a + k - 1 : Prices!OpenAt(m % D)
  <2> DEFINE O(m) == Prices!OpenAt(m % D)
             v == D * q
  <2>1. v \in Int
    BY <1>1, <1>3, SMTT(20)
  <2>2. a = v + s
    BY <1>3
  <2> HIDE DEF O, v
  <2>3. ASSUME NEW m \in a .. a + k - 1 PROVE m - v \in s .. s + k - 1 /\ v + (m - v) = m
    BY <1>1, <1>2, <1>3, <2>1, <2>2
  <2>4. ASSUME NEW x \in s .. s + k - 1 PROVE v + x \in a .. a + k - 1
    BY <1>1, <1>2, <1>3, <2>1, <2>2
  <2>5. (\A x \in s .. s + k - 1 : O(v + x)) <=> \A m \in a .. a + k - 1 : O(m)
    BY <2>3, <2>4
  <2> QED BY <2>5 DEF O, v
<1> QED BY <1>4, <1>5, <1>6, <1>7 DEF a, k

\* One quote
LEMMA QuoteIs ==
    ASSUME PriceInv, Prices!LoadTariffs # {},
           NEW start \in Prices!Starts, NEW hours \in 1 .. club.max,
           NEW c \in Consoles, NEW kind \in Kinds, Prices!ValidWindow(start, hours),
           NEW ask \in {<<c, AnyOne>>, <<AnyOne, c>>}
    PROVE  LET M == Prices!MinutesOf(start, hours)
               sum == Prices!MapThenSumSet(LAMBDA m : Prices!ExpectedPrice(m, c, kind), M)
               amount == IF \E m \in M : \/ Prices!ExpectedAt(m, c, kind) = {}
                                        \/ ~Prices!OpenAt(m % DayMinutes)
                         THEN Prices!NoPrice
                         ELSE (sum + HourMinutes \div 2) \div HourMinutes
           IN  Prices!QuoteBooking(start, hours, ask[1], ask[2], kind) = amount
<1> DEFINE a == start \div MinuteTicks
           b == a + hours * HourMinutes
           M == a .. b - 1
           sum == Prices!MapThenSumSet(LAMBDA m : Prices!ExpectedPrice(m, c, kind), M)
           T == Prices!LoadTariffs
           D == DayMinutes
           W == WeekDays
<1>2. hours \in Nat \ {0} /\ hours <= club.max /\ club.max \in Nat
      /\ club.max * HourMinutes <= DayMinutes
  BY TillAssumption DEF PriceInv, Prices!TypeOK, Prices!Club, TillAssumption,
     Prices!TariffsAssumption
<1>3. hours * HourMinutes \in Nat \ {0} /\ hours * HourMinutes <= DayMinutes
  <2>1. hours * HourMinutes \in Nat \ {0}
    BY <1>2, ClockUnits, SMTT(20)
  <2>2. hours * HourMinutes <= club.max * HourMinutes
    <3> DEFINE x == club.max
               h == HourMinutes
    <3>1. x \in Int /\ hours \in Int /\ hours <= x /\ h \in Nat \ {0}
      BY <1>2, ClockUnits
    <3> HIDE DEF x, h
    <3>2. hours * h <= x * h
      BY <3>1, Multiples
    <3> QED BY <3>2 DEF x, h
  <2> DEFINE y == club.max * HourMinutes
             z == hours * HourMinutes
  <2>3. y \in Int
    BY <1>2, ClockUnits, SMTT(20)
  <2> HIDE DEF y, z
  <2>4. z <= D
    BY <1>2, <2>1, <2>2, <2>3, ClockUnits DEF y, z
  <2> QED BY <2>1, <2>4 DEF z
<1>4. start \in Int /\ 0 <= start /\ start < W * (D * MinuteTicks)
  <2>1. W * (D * MinuteTicks) \in Int
    BY ClockUnits, SMTT(20)
  <2> QED BY <2>1, ClockUnits DEF Prices!Starts
<1>5. a \in Int /\ 0 <= a /\ a < W * D
  <2> DEFINE n == MinuteTicks
             d == W * D
  <2>1. n \in Nat \ {0} /\ d \in Int /\ W * (D * n) = n * d
    BY ClockUnits, SMTT(20)
  <2>2. a \in Int /\ n * a <= start /\ start < n * a + n
    BY <1>4, <2>1, Quotient
  <2>7. start < n * d
    BY <1>4, <2>1
  <2> HIDE DEF n, d, a, D, W
  <2>3. d <= a => n * d <= n * a
    BY <2>1, <2>2, SMTT(20)
  <2>4. a + 1 <= 0 => n * (a + 1) <= 0
    BY <2>1, <2>2, SMTT(20)
  <2>5. n * (a + 1) = n * a + n /\ n * a \in Int /\ n * d \in Int
    BY <2>1, <2>2, SMTT(20)
  <2>6. 0 <= a /\ a < d
    BY <1>4, <2>1, <2>2, <2>3, <2>4, <2>5, <2>7
  <2> QED BY <2>2, <2>6 DEF d
<1>1. a .. a + hours * HourMinutes - 1 = M /\ Prices!MinutesOf(start, hours) = M
  <2>1. Prices!MinutesOf(start, hours) = a .. a + hours * HourMinutes - 1
    BY DEF Prices!MinutesOf, Prices!MINUTE
  <2> DEFINE k == hours * HourMinutes
  <2>2. a + (k - 1) = (a + k) - 1
    <3> HIDE DEF a, k
    <3> QED BY <1>3, <1>5 DEF k
  <2> HIDE DEF a, k
  <2>3. a .. a + k - 1 = (a .. (a + k) - 1)
    BY <2>2
  <2> QED BY <2>1, <2>3 DEF k
<1>6. b \in Int /\ a < b /\ M \in SUBSET (0 .. (W + 1) * D - 1)
  <2> DEFINE k == hours * HourMinutes
             d == W * D
  <2>1. k \in Nat \ {0} /\ k <= D /\ d \in Int /\ (W + 1) * D = d + D /\ D \in Nat
    BY <1>3, ClockUnits, SMTT(20)
  <2> HIDE DEF k, d, a, D, W
  <2> QED BY <1>5, <2>1 DEF d, k
<1>7. IsFiniteSet(M)
  <2> HIDE DEF a, b
  <2>1. b - 1 \in Int
    BY <1>6
  <2> QED BY <1>5, <2>1, FS_Interval
<1>8. \A m \in M : Prices!ExpectedAt(m, c, kind) = Fitting(T, m, c, kind)
  <2> HIDE DEF M
  <2> QED BY <1>6, ExpectedAre
<1>9. AllFit(a, b, c, kind) <=> ~\E m \in M : Prices!ExpectedAt(m, c, kind) = {}
  <2> HIDE DEF a, b
  <2> QED BY <1>8 DEF AllFit
<1>10. Prices!WithinOpeningHours(start, hours) <=> \A m \in M : Prices!OpenAt(m % DayMinutes)
  <2>1. Hours
    BY PricesKeepHours
  <2>2. Prices!WithinOpeningHours(start, hours) <=>
            \A m \in a .. a + hours * HourMinutes - 1 : Prices!OpenAt(m % DayMinutes)
    BY <1>2, <1>3, <1>4, <2>1, OpenWindow
  <2> HIDE DEF a, M
  <2> QED BY <1>1, <2>2
<1>11. AllFit(a, b, c, kind) => sum = ChargeOf(a, b, c, kind)
  <2> HIDE DEF a, b
  <2>1. ASSUME AllFit(a, b, c, kind)
        PROVE  sum = SumOver([m \in M |-> Charged(m, c, kind)], M)
    <3>1. \A m \in M : Prices!ExpectedAt(m, c, kind) # {}
      BY <1>9, <2>1
    <3> HIDE DEF M
    <3> QED BY <1>6, <1>7, <3>1, ExpectedSum
  <2> QED BY <2>1 DEF ChargeOf
<1>12. Prices!PriceForWindow(T, start, hours, c, kind) =
           IF AllFit(a, b, c, kind)
           THEN (ChargeOf(a, b, c, kind) + HourMinutes \div 2) \div HourMinutes
           ELSE Prices!NoPrice
  BY <1>2, <1>4, WindowIs
<1>13. Prices!QuoteBooking(start, hours, ask[1], ask[2], kind) =
           IF Prices!WithinOpeningHours(start, hours)
           THEN Prices!PriceForWindow(T, start, hours, c, kind) ELSE Prices!NoPrice
  <2>1. c # AnyOne
    BY ClockUnits
  <2>2. Prices!ResolveConsole(ask[1], ask[2]) = c
    BY <2>1 DEF Prices!ResolveConsole
  <2> QED BY <2>1, <2>2 DEF Prices!QuoteBooking, Prices!QuotePlayAmount
<1> HIDE DEF a, b, M, sum
<1> QED BY <1>1, <1>9, <1>10, <1>11, <1>12, <1>13 DEF sum

\* What a club with tariffs asks for a window is what its minutes cost together, rounded
\* once, whatever tariffs and opening hours the owner has saved and at whatever second the
\* booking begins; it is refused exactly if the club is closed in one of its minutes or one
\* of them has no tariff (quote_booking, price_for_window).
THEOREM PricesAddUp == TillSpec => []PricedByTheMinute
<1>1. PriceInv => PricedByTheMinute
  BY QuoteIs DEF PricedByTheMinute, Prices!PricedByTheMinute
<1> QED BY <1>1, PriceAlways, PTL

-----------------------------------------------------------------------------
\* Figures of the dashboard and of the reports

\* What the code assumes of the ledger
LEMMA Ledger ==
    /\ IsFiniteSet(Ids) /\ Amounts \subseteq Nat
    /\ DayHours \in Nat \ {0} /\ WeekDays \in Nat \ {0} /\ Zone \in Int /\ LastHour \in Nat
BY TillAssumption DEF TillAssumption, Books!ReportsAssumption, IsFiniteSet, Books!IsFiniteSet

\* Amounts are natural, and only expenses are dated by a day.
BookInv ==
    /\ Books!TypeOK
    /\ \A i \in Ids :
           /\ entry[i].sort \notin {"none", "expense"} => entry[i].at \in Books!Hours
           /\ entry[i].sort = "expense" => entry[i].at \in Books!Days

\* Every step of the ledger keeps its invariant.
LEMMA BookStep ==
    ASSUME BookInv, [TillNext]_tillVars
    PROVE  BookInv'
<1> USE DEF Books!Sorts
<1>1. now \in Books!Hours
  BY DEF BookInv, Books!TypeOK
<1>2. CASE UNCHANGED bookVars
  BY <1>2 DEF bookVars, BookInv, Books!TypeOK, Books!Hours, Books!Days
<1>3. ASSUME NEW i \in Ids, NEW sort \in Books!Sorts, NEW when, NEW a \in Amounts,
             when \in IF sort = "expense" THEN Books!Days ELSE Books!Hours,
             Books!Write(i, sort, when, a)
      PROVE  BookInv'
  <2> DEFINE row == [sort |-> sort, at |-> when, amount |-> a, live |-> TRUE]
  <2>1. row \in [sort : Books!Sorts \union {"none"}, at : Books!Hours \union Books!Days,
                 amount : Amounts \union {0}, live : BOOLEAN]
    BY <1>3
  <2>2. entry' = [entry EXCEPT ![i] = row] /\ now' = now
    BY <1>3 DEF Books!Write
  <2>3. row.sort = sort /\ row.at = when
    OBVIOUS
  <2>4. /\ sort \notin {"none", "expense"} => when \in Books!Hours
        /\ sort = "expense" => when \in Books!Days
    BY <1>3
  <2> HIDE DEF row
  <2>5. Books!TypeOK'
    BY <2>1, <2>2 DEF BookInv, Books!TypeOK, Books!Hours, Books!Days
  <2>6. \A j \in Ids : entry'[j] = IF j = i THEN row ELSE entry[j]
    BY <2>2 DEF BookInv, Books!TypeOK
  <2> QED BY <2>3, <2>4, <2>5, <2>6 DEF BookInv, Books!Hours, Books!Days
<1>4. ASSUME NEW i \in Ids, NEW sort, Books!Strike(i, sort)
      PROVE  BookInv'
  <2> DEFINE row == [entry[i] EXCEPT !.live = FALSE]
  <2>1. entry' = [entry EXCEPT ![i] = row] /\ now' = now
    BY <1>4 DEF Books!Strike, BookInv, Books!TypeOK
  <2>2. row \in [sort : Books!Sorts \union {"none"}, at : Books!Hours \union Books!Days,
                 amount : Amounts \union {0}, live : BOOLEAN]
        /\ row.sort = entry[i].sort /\ row.at = entry[i].at
    BY DEF BookInv, Books!TypeOK
  <2> HIDE DEF row
  <2>3. Books!TypeOK'
    BY <2>1, <2>2 DEF BookInv, Books!TypeOK, Books!Hours, Books!Days
  <2>4. \A j \in Ids : entry'[j].sort = entry[j].sort /\ entry'[j].at = entry[j].at
    BY <2>1, <2>2 DEF BookInv, Books!TypeOK
  <2> QED BY <2>3, <2>4 DEF BookInv, Books!Hours, Books!Days
<1>5. CASE Books!Tick
  BY <1>5, Ledger DEF Books!Tick, BookInv, Books!TypeOK, Books!Hours, Books!Days
<1>6. CASE \E i \in Ids, a \in Amounts :
             \/ \E t \in Books!Hours : Books!Book(i, t, a)
             \/ Books!Order(i, a) \/ Books!Receive(i, a) \/ Books!Refund(i, a)
             \/ \E d \in Books!Days : Books!Spend(i, d, a)
             \/ Books!RecordPayment(i, a)
  BY <1>1, <1>3, <1>6 DEF Books!Book, Books!Order, Books!Receive, Books!Refund, Books!Spend,
     Books!RecordPayment
<1>7. CASE \E i \in Ids : \/ Books!CancelBooking(i) \/ Books!CancelOrder(i)
                         \/ Books!Archive(i) \/ Books!NewOrganization(i)
  BY <1>1, <1>3, <1>4, <1>7 DEF Books!CancelBooking, Books!CancelOrder, Books!Archive,
     Books!NewOrganization
<1>8. UNCHANGED bookVars \/ Books!Next
  BY DEF TillNext, tillVars, bookVars
<1> QED BY <1>2, <1>5, <1>6, <1>7, <1>8 DEF Books!Next

\* So the invariant of the ledger holds always.
LEMMA BooksAlways == TillSpec => []BookInv
<1>1. TillInit => BookInv
  BY Ledger DEF TillInit, Books!Init, BookInv, Books!TypeOK, Books!Blank, Books!Hours, Books!Days,
     Books!Sorts
<1>2. BookInv /\ [TillNext]_tillVars => BookInv'
  BY BookStep
<1> QED BY <1>1, <1>2, PTL DEF TillSpec, tillVars

-----------------------------------------------------------------------------
\* The amounts of the ledger, as a function
Money == [i \in Ids |-> entry[i].amount]

Live(sorts) == {i \in Ids : entry[i].sort \in sorts /\ entry[i].live}

\* The sums of the figures are sums over the amounts.
LEMMA LedgerSum ==
    ASSUME NEW S \in SUBSET Ids
    PROVE  Books!MapThenSumSet(LAMBDA i : entry[i].amount, S) = SumOver(Money, S)
<1> DEFINE Eq(g) == g = [s \in SUBSET S |-> IF s = {} THEN 0
                              ELSE entry[OneOf(s)].amount + g[s \ {OneOf(s)}]]
<1>1. Books!MapThenSumSet(LAMBDA i : entry[i].amount, S) = (CHOOSE g : Eq(g))[S]
  BY DEF Books!MapThenSumSet, Books!MapThenFoldSet, OneOf
<1>2. ASSUME NEW s \in SUBSET S, s # {} PROVE Money[OneOf(s)] = entry[OneOf(s)].amount
  BY <1>2, OneOfIn DEF Money
<1>3. ASSUME NEW g PROVE AddsUp(Money, S, g) <=> Eq(g)
  BY <1>2 DEF AddsUp
<1> HIDE DEF Eq
<1>4. (CHOOSE g : Eq(g)) = (CHOOSE g : AddsUp(Money, S, g))
  BY <1>3
<1> QED BY <1>1, <1>4, SumUnfolds

\* Figures are made of numbers, and every hour has its day among the days.
LEMMA LedgerTypes ==
    ASSUME BookInv
    PROVE  /\ \A i \in Ids : Money[i] \in Nat /\ entry[i].at \in Int
           /\ now \in Nat /\ Books!Day(now) \in Int
           /\ \A d \in Books!Days : d \in Int
           /\ IsFiniteSet(Books!Days)
           /\ \A t \in Books!Hours : Books!Day(t) \in Books!Days
           /\ \A sorts : Live(sorts) \in SUBSET Ids /\ IsFiniteSet(Live(sorts))
<1> USE Ledger
<1>1. \A t \in Int : Books!Day(t) \in Int
  BY Quotient DEF Books!Day, Books!Local
<1>2. Books!Day(0) \in Int /\ Books!Day(LastHour) \in Int
  BY <1>1
<1>3. IsFiniteSet(Books!Days) /\ \A d \in Books!Days : d \in Int
  BY <1>2, FS_Interval DEF Books!Days
<1>4. ASSUME NEW t \in Books!Hours PROVE Books!Day(t) \in Books!Days
  <2>1. t \in Int /\ 0 <= t /\ t <= LastHour
    BY DEF Books!Hours
  <2>2. 0 + Zone \in Int /\ t + Zone \in Int /\ LastHour + Zone \in Int
        /\ 0 + Zone <= t + Zone /\ t + Zone <= LastHour + Zone
    BY <2>1
  <2>3. Books!Day(0) <= Books!Day(t) /\ Books!Day(t) <= Books!Day(LastHour)
    BY <2>2, QuotientGrows DEF Books!Day, Books!Local
  <2> QED BY <1>1, <1>2, <2>1, <2>3 DEF Books!Days
<1>5. ASSUME NEW i \in Ids PROVE Money[i] \in Nat /\ entry[i].at \in Int
  <2>1. entry[i].at \in Books!Hours \union Books!Days /\ entry[i].amount \in Amounts \union {0}
    BY DEF BookInv, Books!TypeOK
  <2>2. Money[i] = entry[i].amount
    BY DEF Money
  <2>3. \A a \in Amounts \union {0} : a \in Nat
    OBVIOUS
  <2>4. \A t \in Books!Hours : t \in Int
    BY DEF Books!Hours
  <2> QED BY <1>3, <2>1, <2>2, <2>3, <2>4
<1>6. now \in Nat
  BY DEF BookInv, Books!TypeOK, Books!Hours
<1>7. ASSUME NEW sorts PROVE Live(sorts) \in SUBSET Ids /\ IsFiniteSet(Live(sorts))
  BY FS_Subset DEF Live
<1> QED BY <1>1, <1>3, <1>4, <1>5, <1>6, <1>7

\* The day of a moment is the one between whose midnights it lies.
LEMMA DayBetween ==
    ASSUME NEW t \in Int, NEW d \in Int
    PROVE  Books!Within(t, Books!Midnight(d), Books!Midnight(d + 1)) <=> Books!Day(t) = d
<1> USE Ledger
<1> DEFINE u == t + Zone
           n == DayHours
<1>1. u \in Int /\ n \in Nat \ {0}
  OBVIOUS
<1>2. /\ Books!Midnight(d) = d * n - Zone /\ Books!Midnight(d + 1) = (d + 1) * n - Zone
      /\ Books!Day(t) = u \div n
  BY DEF Books!Midnight, Books!Day, Books!Local
<1>3. (d + 1) * n = n * d + n /\ d * n = n * d /\ n * d \in Int
  BY <1>1, SMTT(20)
<1>4. Books!Within(t, Books!Midnight(d), Books!Midnight(d + 1)) <=> n * d <= u /\ u < n * d + n
  BY <1>1, <1>2, <1>3 DEF Books!Within
<1>5. n * d <= u /\ u < n * d + n => u \div n = d
  BY <1>1, QuotientIs
<1>6. u \div n = d => n * d <= u /\ u < n * d + n
  BY <1>1, Quotient
<1> QED BY <1>2, <1>4, <1>5, <1>6

\* Figures of one part of the ledger
LEMMA FigureIs ==
    ASSUME BookInv
    PROVE  /\ \A p \in Books!Periods :
                Books!Report(p).planned =
                    SumOver(Money, {i \in Live({"play", "bar"}) :
                        Books!Within(entry[i].at, Books!Midnight(Books!FirstDay(p)), now + 1)})
           /\ \A p \in Books!Periods : \A b \in DOMAIN Books!Series(p) :
                Books!Series(p)[b] =
                    SumOver(Money, {i \in Live({"play", "bar"}) :
                        /\ Books!Within(entry[i].at, Books!Midnight(Books!FirstDay(p)), now + 1)
                        /\ Books!Bucket(entry[i].at, p) = b})
<1>1. ASSUME NEW p \in Books!Periods
      PROVE  Books!Report(p).planned =
                    SumOver(Money, {i \in Live({"play", "bar"}) :
                        Books!Within(entry[i].at, Books!Midnight(Books!FirstDay(p)), now + 1)})
  <2> DEFINE S == {i \in Ids :
                     /\ entry[i].sort \in {"play", "bar"} /\ entry[i].live
                     /\ Books!Within(entry[i].at, Books!Midnight(Books!FirstDay(p)), now + 1)}
             T == {i \in Live({"play", "bar"}) :
                        Books!Within(entry[i].at, Books!Midnight(Books!FirstDay(p)), now + 1)}
  <2>1. S = T /\ S \in SUBSET Ids
    BY DEF Live
  <2>2. Books!MapThenSumSet(LAMBDA i : entry[i].amount, S) = SumOver(Money, S)
    BY <2>1, LedgerSum
  <2>3. Books!Report(p).planned = Books!MapThenSumSet(LAMBDA i : entry[i].amount, S)
    BY DEF Books!Report, Books!Totals, Books!Sum
  <2> QED BY <2>1, <2>2, <2>3
<1>2. ASSUME NEW p \in Books!Periods, NEW b \in DOMAIN Books!Series(p)
      PROVE  Books!Series(p)[b] =
                    SumOver(Money, {i \in Live({"play", "bar"}) :
                        /\ Books!Within(entry[i].at, Books!Midnight(Books!FirstDay(p)), now + 1)
                        /\ Books!Bucket(entry[i].at, p) = b})
  <2> DEFINE S == {i \in Ids :
                     /\ entry[i].sort \in {"play", "bar"} /\ entry[i].live
                     /\ Books!Within(entry[i].at, Books!Midnight(Books!FirstDay(p)), now + 1)
                     /\ Books!Bucket(entry[i].at, p) = b}
             T == {i \in Live({"play", "bar"}) :
                        /\ Books!Within(entry[i].at, Books!Midnight(Books!FirstDay(p)), now + 1)
                        /\ Books!Bucket(entry[i].at, p) = b}
  <2>1. S = T /\ S \in SUBSET Ids
    BY DEF Live
  <2>2. Books!MapThenSumSet(LAMBDA i : entry[i].amount, S) = SumOver(Money, S)
    BY <2>1, LedgerSum
  <2>3. Books!Series(p)[b] = Books!MapThenSumSet(LAMBDA i : entry[i].amount, S)
    BY DEF Books!Series, Books!Sum
  <2> QED BY <2>1, <2>2, <2>3
<1> QED BY <1>1, <1>2

\* Figures of the days of a club
LEMMA DayFigures ==
    ASSUME BookInv, NEW d \in Books!Days
    PROVE  /\ Books!Dashboard(d).received =
                  SumOver(Money, {i \in Live({"receipt"}) : Books!Day(entry[i].at) = d})
                      - SumOver(Money, {i \in Live({"refund"}) : Books!Day(entry[i].at) = d})
           /\ Books!Dashboard(d).expenses =
                  SumOver(Money, {i \in Live({"expense"}) : entry[i].at = d})
<1>1. d \in Int /\ \A i \in Ids : entry[i].at \in Int
  BY LedgerTypes
<1>2. ASSUME NEW sort \in {"receipt", "refund"}
      PROVE  Books!Sum({sort}, LAMBDA t : Books!Within(t, Books!Midnight(d), Books!Midnight(d + 1)))
                 = SumOver(Money, {i \in Live({sort}) : Books!Day(entry[i].at) = d})
  <2> DEFINE S == {i \in Ids :
                     /\ entry[i].sort \in {sort} /\ entry[i].live
                     /\ Books!Within(entry[i].at, Books!Midnight(d), Books!Midnight(d + 1))}
             T == {i \in Live({sort}) : Books!Day(entry[i].at) = d}
  <2>1. S = T /\ S \in SUBSET Ids
    BY <1>1, DayBetween DEF Live
  <2>2. Books!MapThenSumSet(LAMBDA i : entry[i].amount, S) = SumOver(Money, S)
    BY <2>1, LedgerSum
  <2>3. Books!Sum({sort}, LAMBDA t : Books!Within(t, Books!Midnight(d), Books!Midnight(d + 1)))
            = Books!MapThenSumSet(LAMBDA i : entry[i].amount, S)
    BY DEF Books!Sum
  <2> QED BY <2>1, <2>2, <2>3
<1>3. Books!Dashboard(d).received =
        Books!Sum({"receipt"}, LAMBDA t : Books!Within(t, Books!Midnight(d), Books!Midnight(d + 1)))
        - Books!Sum({"refund"},
                    LAMBDA t : Books!Within(t, Books!Midnight(d), Books!Midnight(d + 1)))
  BY DEF Books!Dashboard, Books!Totals, Books!Sum
<1>4. Books!Dashboard(d).expenses =
        SumOver(Money, {i \in Live({"expense"}) : entry[i].at = d})
  <2> DEFINE S == {i \in Ids :
                     /\ entry[i].sort \in {"expense"} /\ entry[i].live
                     /\ Books!Within(entry[i].at, d, d + 1)}
             T == {i \in Live({"expense"}) : entry[i].at = d}
  <2>1. S = T /\ S \in SUBSET Ids
    BY <1>1 DEF Live, Books!Within
  <2>2. Books!MapThenSumSet(LAMBDA i : entry[i].amount, S) = SumOver(Money, S)
    BY <2>1, LedgerSum
  <2>3. Books!Dashboard(d).expenses = Books!MapThenSumSet(LAMBDA i : entry[i].amount, S)
    BY DEF Books!Dashboard, Books!Totals, Books!Sum
  <2> QED BY <2>1, <2>2, <2>3
<1> QED BY <1>2, <1>3, <1>4

\* Figures of the whole ledger, and of the platform
LEMMA AllTime ==
    ASSUME NEW sort
    PROVE  /\ Books!Sum({sort}, LAMBDA t : TRUE) = SumOver(Money, Live({sort}))
           /\ Books!Total(sort) = SumOver(Money, Live({sort}))
<1> DEFINE S == {i \in Ids : entry[i].sort \in {sort} /\ entry[i].live /\ TRUE}
<1>1. S = Live({sort}) /\ S \in SUBSET Ids
  BY DEF Live
<1>2. Books!MapThenSumSet(LAMBDA i : entry[i].amount, S) = SumOver(Money, S)
  BY <1>1, LedgerSum
<1>3. /\ Books!Sum({sort}, LAMBDA t : TRUE) = Books!MapThenSumSet(LAMBDA i : entry[i].amount, S)
      /\ Books!Total(sort) = Books!MapThenSumSet(LAMBDA i : entry[i].amount, S)
  BY DEF Books!Sum, Books!Total
<1> QED BY <1>1, <1>2, <1>3

\* One bucket of the platform (get_financial_report)
LEMMA PlatformFigure ==
    ASSUME NEW sort \in {"fee", "org"}, NEW lookback \in 0 .. LastHour, NEW d \in Books!Days
    PROVE  Books!FinancialReport(sort, lookback)[d] =
               SumOver(Money, {i \in Live({sort}) : /\ entry[i].at >= now - lookback * DayHours
                                                    /\ Books!Day(entry[i].at) = d})
<1> DEFINE S == {i \in Ids : /\ entry[i].sort \in {sort} /\ entry[i].live
                             /\ entry[i].at >= now - lookback * DayHours
                             /\ Books!Day(entry[i].at) = d}
           T == {i \in Live({sort}) : /\ entry[i].at >= now - lookback * DayHours
                                      /\ Books!Day(entry[i].at) = d}
<1>1. S = T /\ S \in SUBSET Ids
  BY DEF Live
<1>2. Books!MapThenSumSet(LAMBDA i : entry[i].amount, S) = SumOver(Money, S)
  BY <1>1, LedgerSum
<1>3. Books!FinancialReport(sort, lookback)[d] =
          Books!MapThenSumSet(LAMBDA i : entry[i].amount, S)
  BY DEF Books!FinancialReport, Books!Sum
<1> QED BY <1>1, <1>2, <1>3

\* The bookings of today, by their date and by the bounds of the day
LEMMA TodayFigures ==
    ASSUME BookInv
    PROVE  Books!PlatformToday =
               Books!Sum({"play"}, LAMBDA t : Books!Within(t, Books!Midnight(Books!Day(now)),
                                                           Books!Midnight(Books!Day(now) + 1)))
<1> DEFINE d == Books!Day(now)
           S == {i \in Ids : /\ entry[i].sort \in {"play"} /\ entry[i].live
                             /\ Books!Day(entry[i].at) = d}
           T == {i \in Ids : /\ entry[i].sort \in {"play"} /\ entry[i].live
                             /\ Books!Within(entry[i].at, Books!Midnight(d), Books!Midnight(d + 1))}
<1>1. d \in Int /\ \A i \in Ids : entry[i].at \in Int
  BY LedgerTypes
<1>2. S = T
  BY <1>1, DayBetween
<1>3. Books!PlatformToday = Books!MapThenSumSet(LAMBDA i : entry[i].amount, S)
  BY DEF Books!PlatformToday, Books!Sum
<1>4. Books!Sum({"play"}, LAMBDA t : Books!Within(t, Books!Midnight(d), Books!Midnight(d + 1)))
          = Books!MapThenSumSet(LAMBDA i : entry[i].amount, T)
  BY DEF Books!Sum
<1>5. S \in SUBSET Ids /\ T \in SUBSET Ids
  OBVIOUS
<1>6. /\ Books!MapThenSumSet(LAMBDA i : entry[i].amount, S) = SumOver(Money, S)
      /\ Books!MapThenSumSet(LAMBDA i : entry[i].amount, T) = SumOver(Money, T)
  BY <1>5, LedgerSum
<1> QED BY <1>2, <1>3, <1>4, <1>6

-----------------------------------------------------------------------------
\* The graph of a report: every entry of the report has a bucket in it (_revenue_series).
LEMMA SeriesAdd ==
    ASSUME BookInv
    PROVE  Books!SeriesAddUp
<1> SUFFICES ASSUME NEW p \in Books!Periods
             PROVE  Books!MapThenSumSet(LAMBDA b : Books!Series(p)[b], DOMAIN Books!Series(p))
                        = Books!Report(p).planned
  BY DEF Books!SeriesAddUp
<1> DEFINE since == Books!Midnight(Books!FirstDay(p))
           S == {i \in Live({"play", "bar"}) : Books!Within(entry[i].at, since, now + 1)}
           D == DOMAIN Books!Series(p)
           k == [i \in S |-> Books!Bucket(entry[i].at, p)]
           low == IF p = "day" THEN Books!Local(since) ELSE Books!Day(since)
           high == IF p = "day" THEN Books!Local(now) ELSE Books!Day(now)
<1>1. Books!MapThenSumSet(LAMBDA b : Books!Series(p)[b], D) = SumOver(Books!Series(p), D)
  BY DEF Books!MapThenSumSet, Books!MapThenFoldSet, SumOver, MapThenSumSet, MapThenFoldSet
<1>2. D = low .. high
  BY DEF Books!Series
<1>3. \A t \in Int : Books!Day(t) \in Int
  BY Ledger, Quotient DEF Books!Day, Books!Local
<1>4. now \in Int /\ \A i \in Ids : entry[i].at \in Int /\ Money[i] \in Int
  BY LedgerTypes
<1>5. since \in Int
  <2>1. Books!FirstDay(p) \in Int
    <3>1. Books!Day(now) \in Int /\ Books!Day(now) \div WeekDays \in Int
      BY <1>3, <1>4, Ledger, Quotient
    <3> QED BY <3>1, Ledger DEF Books!FirstDay
  <2> QED BY <2>1, Ledger DEF Books!Midnight
<1> HIDE DEF since
<1>6. low \in Int /\ high \in Int
  BY <1>3, <1>4, <1>5, Ledger DEF Books!Local
<1>7. IsFiniteSet(D)
  BY <1>2, <1>6, FS_Interval
<1>8. S \in SUBSET Live({"play", "bar"}) /\ Live({"play", "bar"}) \in SUBSET Ids
      /\ IsFiniteSet(Live({"play", "bar"}))
  BY LedgerTypes
<1>9. S \in SUBSET Ids /\ IsFiniteSet(S)
  BY <1>8, FS_Subset
<1>10. ASSUME NEW i \in S PROVE k[i] \in D
  <2> DEFINE t == entry[i].at
  <2>1. t \in Int /\ since <= t /\ t <= now
    BY <1>4, <1>5, <1>9 DEF Books!Within
  <2> HIDE DEF t
  <2>2. since + Zone \in Int /\ t + Zone \in Int /\ now + Zone \in Int
        /\ since + Zone <= t + Zone /\ t + Zone <= now + Zone
    BY <1>4, <1>5, <2>1, Ledger
  <2>3. Books!Day(since) <= Books!Day(t) /\ Books!Day(t) <= Books!Day(now)
    BY <2>2, Ledger, QuotientGrows DEF Books!Day, Books!Local
  <2>4. k[i] = IF p = "day" THEN Books!Local(t) ELSE Books!Day(t)
    BY DEF Books!Bucket, t
  <2>5. Books!Local(t) \in Int /\ Books!Local(since) <= Books!Local(t)
        /\ Books!Local(t) <= Books!Local(now)
    BY <2>2 DEF Books!Local
  <2>6. Books!Day(t) \in Int
    BY <1>3, <2>1
  <2> QED BY <1>2, <1>6, <2>3, <2>4, <2>5, <2>6
<1>11. ASSUME NEW b \in D
       PROVE  Books!Series(p)[b] = SumOver(Money, {i \in S : k[i] = b})
  <2>1. {i \in S : k[i] = b} =
           {i \in Live({"play", "bar"}) : /\ Books!Within(entry[i].at, since, now + 1)
                                          /\ Books!Bucket(entry[i].at, p) = b}
    OBVIOUS
  <2> QED BY <2>1, FigureIs DEF since
<1>12. Books!Report(p).planned = SumOver(Money, S)
  BY FigureIs DEF since
<1> HIDE DEF S, D, k
<1>13. SumOver(Books!Series(p), D) = SumOver(Money, S)
  <2>1. \A i \in S : Money[i] \in Int
    BY <1>4, <1>9
  <2>2. Parted(Books!Series(p), D, Money, S, k)
    BY <1>10, <1>11 DEF Parted
  <2> QED BY <1>7, <1>9, <2>1, <2>2, SumParts
<1> QED BY <1>1, <1>12, <1>13 DEF D

\* What is live and of one sort, cut by days, is what is live and of that sort.
LEMMA CutByDays ==
    ASSUME BookInv, NEW sort \in Books!Sorts \ {"expense"}, NEW f,
           \A d \in Books!Days :
               f[d] = SumOver(Money, {i \in Live({sort}) : Books!Day(entry[i].at) = d})
    PROVE  SumOver(f, Books!Days) = SumOver(Money, Live({sort}))
<1> DEFINE S == Live({sort})
           D == Books!Days
           k == [i \in S |-> Books!Day(entry[i].at)]
<1>1. S \in SUBSET Ids /\ IsFiniteSet(S) /\ IsFiniteSet(D)
      /\ \A i \in Ids : Money[i] \in Int
  BY LedgerTypes
<1>2. \A i \in S : Money[i] \in Int
  BY <1>1
<1>3. ASSUME NEW i \in S PROVE k[i] \in D
  <2>1. entry[i].sort = sort /\ i \in Ids
    BY DEF Live
  <2>2. entry[i].at \in Books!Hours
    BY <2>1 DEF BookInv, Books!Sorts
  <2> QED BY <2>2, LedgerTypes
<1>4. ASSUME NEW d \in D PROVE f[d] = SumOver(Money, {i \in S : k[i] = d})
  <2>1. {i \in S : k[i] = d} = {i \in S : Books!Day(entry[i].at) = d}
    OBVIOUS
  <2> QED BY <2>1
<1> HIDE DEF S, k, D
<1>5. SumOver(f, D) = SumOver(Money, S)
  <2>1. Parted(f, D, Money, S, k)
    BY <1>3, <1>4 DEF Parted
  <2> QED BY <1>1, <1>2, <2>1, SumParts
<1> QED BY <1>5 DEF S, D

\* The dashboards of the days: every payment and expense is in one of them (get_dashboard).
LEMMA DaysAdd ==
    ASSUME BookInv
    PROVE  Books!DaysAddUp
<1> DEFINE got == [d \in Books!Days |-> Books!Dashboard(d).received]
           paid == [d \in Books!Days |-> Books!Dashboard(d).expenses]
           in == [d \in Books!Days |->
                    SumOver(Money, {i \in Live({"receipt"}) : Books!Day(entry[i].at) = d})]
           out == [d \in Books!Days |->
                    SumOver(Money, {i \in Live({"refund"}) : Books!Day(entry[i].at) = d})]
           net == [d \in Books!Days |-> in[d] - out[d]]
<1>1. /\ IsFiniteSet(Books!Days)
      /\ \A sorts : Live(sorts) \in SUBSET Ids /\ IsFiniteSet(Live(sorts))
      /\ \A i \in Ids : Money[i] \in Int
  BY LedgerTypes
<1>2. ASSUME NEW d \in Books!Days
      PROVE  got[d] = net[d] /\ in[d] \in Int /\ out[d] \in Int
  <2>1. got[d] = net[d]
    BY DayFigures
  <2>2. ASSUME NEW sort
        PROVE  SumOver(Money, {i \in Live({sort}) : Books!Day(entry[i].at) = d}) \in Int
    <3> DEFINE S == {i \in Live({sort}) : Books!Day(entry[i].at) = d}
    <3>1. S \in SUBSET Live({sort})
      OBVIOUS
    <3>2. IsFiniteSet(S) /\ \A i \in S : Money[i] \in Int
      BY <1>1, <3>1, FS_Subset
    <3> QED BY <3>2, SumType
  <2> QED BY <2>1, <2>2
<1>3. /\ SumOver(in, Books!Days) = SumOver(Money, Live({"receipt"}))
      /\ SumOver(out, Books!Days) = SumOver(Money, Live({"refund"}))
  BY CutByDays DEF Books!Sorts
<1>4. SumOver(paid, Books!Days) = SumOver(Money, Live({"expense"}))
  <2> DEFINE S == Live({"expense"})
             D == Books!Days
             k == [i \in S |-> entry[i].at]
  <2>1. ASSUME NEW i \in S PROVE k[i] \in D
    BY DEF BookInv, Live
  <2>2. ASSUME NEW d \in D PROVE paid[d] = SumOver(Money, {i \in S : k[i] = d})
    <3>1. {i \in S : k[i] = d} = {i \in S : entry[i].at = d}
      OBVIOUS
    <3> QED BY <3>1, DayFigures
  <2>3. IsFiniteSet(S) /\ S \in SUBSET Ids /\ IsFiniteSet(D)
    BY <1>1
  <2>4. \A i \in S : Money[i] \in Int
    BY <1>1, <2>3
  <2> HIDE DEF S, D, k, paid
  <2>5. Parted(paid, D, Money, S, k)
    BY <2>1, <2>2 DEF Parted
  <2>6. SumOver(paid, D) = SumOver(Money, S)
    BY <2>3, <2>4, <2>5, SumParts
  <2> QED BY <2>6 DEF S, D
<1> HIDE DEF in, out
<1>5. SumOver(net, Books!Days) = SumOver(in, Books!Days) - SumOver(out, Books!Days)
  BY <1>1, <1>2, SumMinus
<1>6. SumOver(got, Books!Days) = SumOver(net, Books!Days)
  BY <1>1, <1>2, SumSame
<1>7. /\ Books!MapThenSumSet(LAMBDA d : Books!Dashboard(d).received, Books!Days)
             = SumOver(got, Books!Days)
      /\ Books!MapThenSumSet(LAMBDA d : Books!Dashboard(d).expenses, Books!Days)
             = SumOver(paid, Books!Days)
  <2> DEFINE D == Books!Days
             Eq1(g) == g = [s \in SUBSET D |-> IF s = {} THEN 0
                              ELSE Books!Dashboard(OneOf(s)).received + g[s \ {OneOf(s)}]]
             Eq2(g) == g = [s \in SUBSET D |-> IF s = {} THEN 0
                              ELSE Books!Dashboard(OneOf(s)).expenses + g[s \ {OneOf(s)}]]
  <2>1. /\ Books!MapThenSumSet(LAMBDA d : Books!Dashboard(d).received, D) = (CHOOSE g : Eq1(g))[D]
        /\ Books!MapThenSumSet(LAMBDA d : Books!Dashboard(d).expenses, D) = (CHOOSE g : Eq2(g))[D]
    BY DEF Books!MapThenSumSet, Books!MapThenFoldSet, OneOf
  <2>2. ASSUME NEW s \in SUBSET D, s # {}
        PROVE  /\ got[OneOf(s)] = Books!Dashboard(OneOf(s)).received
               /\ paid[OneOf(s)] = Books!Dashboard(OneOf(s)).expenses
    BY <2>2, OneOfIn
  <2> HIDE DEF got, paid, D
  <2>3. ASSUME NEW g PROVE (AddsUp(got, D, g) <=> Eq1(g)) /\ (AddsUp(paid, D, g) <=> Eq2(g))
    BY <2>2 DEF AddsUp
  <2> HIDE DEF Eq1, Eq2
  <2>4. /\ (CHOOSE g : Eq1(g)) = (CHOOSE g : AddsUp(got, D, g))
        /\ (CHOOSE g : Eq2(g)) = (CHOOSE g : AddsUp(paid, D, g))
    BY <2>3
  <2> QED BY <2>1, <2>4, SumUnfolds DEF D
<1> QED BY <1>3, <1>4, <1>5, <1>6, <1>7, AllTime DEF Books!DaysAddUp

\* The buckets of the platform lose nothing that is recent enough.
LEMMA PlatformAdds ==
    ASSUME BookInv
    PROVE  Books!PlatformAddsUp
<1> SUFFICES ASSUME NEW sort \in {"fee", "org"}, NEW lookback \in 0 .. LastHour
             PROVE  LET report == Books!FinancialReport(sort, lookback)
                        sum == Books!MapThenSumSet(LAMBDA d : report[d], Books!Days)
                    IN  /\ sum <= Books!Total(sort)
                        /\ lookback * DayHours >= now => sum = Books!Total(sort)
  BY TodayFigures DEF Books!PlatformAddsUp
<1>0. ASSUME NEW d \in Books!Days
      PROVE  Books!FinancialReport(sort, lookback)[d] =
                 SumOver(Money, {i \in Live({sort}) : /\ entry[i].at >= now - lookback * DayHours
                                                      /\ Books!Day(entry[i].at) = d})
  BY PlatformFigure
<1> DEFINE report == Books!FinancialReport(sort, lookback)
           D == Books!Days
           A == Live({sort})
           S == {i \in A : entry[i].at >= now - lookback * DayHours}
           k == [i \in S |-> Books!Day(entry[i].at)]
<1>1. Books!MapThenSumSet(LAMBDA d : report[d], D) = SumOver(report, D)
  BY DEF Books!MapThenSumSet, Books!MapThenFoldSet, SumOver, MapThenSumSet, MapThenFoldSet
<1>2. /\ IsFiniteSet(A) /\ A \in SUBSET Ids /\ IsFiniteSet(D) /\ now \in Nat
      /\ \A i \in A : Money[i] \in Nat /\ entry[i].at \in Int
  BY LedgerTypes
<1>3. \A i \in A : entry[i].at \in Books!Hours /\ entry[i].at >= 0
  BY <1>2 DEF BookInv, Live, Books!Hours
<1>4. S \in SUBSET A /\ IsFiniteSet(S) /\ IsFiniteSet(A \ S)
  BY <1>2, FS_Subset
<1>5. ASSUME NEW i \in S PROVE k[i] \in D
  BY <1>3, LedgerTypes
<1>6. ASSUME NEW d \in D PROVE report[d] = SumOver(Money, {i \in S : k[i] = d})
  <2> DEFINE T == {i \in A : /\ entry[i].at >= now - lookback * DayHours
                             /\ Books!Day(entry[i].at) = d}
  <2>1. {i \in S : k[i] = d} = T
    OBVIOUS
  <2>2. Books!FinancialReport(sort, lookback)[d] = SumOver(Money, T)
    BY <1>0
  <2> QED BY <2>1, <2>2
<1>7. ASSUME lookback * DayHours >= now PROVE S = A
  <2> DEFINE n == lookback * DayHours
  <2>1. n \in Int
    BY Ledger
  <2>2. \A i \in A : entry[i].at \in Int /\ entry[i].at >= 0
    BY <1>2, <1>3
  <2>3. n >= now
    BY <1>7
  <2>4. S = {i \in A : entry[i].at >= now - n}
    OBVIOUS
  <2> HIDE DEF n, S, A
  <2>5. now - n <= 0
    BY <1>2, <2>1, <2>3
  <2> QED BY <1>2, <2>1, <2>2, <2>4, <2>5
<1>8. Books!Total(sort) = SumOver(Money, A)
  BY AllTime
<1> HIDE DEF report, D, A, S, k
<1>9. SumOver(report, D) = SumOver(Money, S)
  <2>1. \A i \in S : Money[i] \in Int
    BY <1>2, <1>4
  <2>2. Parted(report, D, Money, S, k)
    BY <1>5, <1>6 DEF Parted
  <2> QED BY <1>2, <1>4, <2>1, <2>2, SumParts
<1>10. SumOver(Money, A) = SumOver(Money, S) + SumOver(Money, A \ S)
  BY <1>2, <1>4, SumUnion
<1>11. SumOver(Money, S) \in Nat /\ SumOver(Money, A \ S) \in Nat
  BY <1>2, <1>4, SumType
<1>12. SumOver(report, D) <= Books!Total(sort)
  BY <1>8, <1>9, <1>10, <1>11
<1> QED BY <1>1, <1>7, <1>8, <1>9, <1>12 DEF report, D

\* The graph of a report adds up to the figure above it, the dashboards of the days to what
\* came in and went out, and the buckets of the platform to its totals, whatever was written
\* and cancelled when, and wherever the club is (_revenue_series, get_dashboard,
\* get_financial_report).
THEOREM ReportsAddUp == TillSpec => []FiguresAddUp
<1>1. BookInv => FiguresAddUp
  BY SeriesAdd, DaysAdd, PlatformAdds DEF FiguresAddUp, Books!FiguresAddUp
<1> QED BY <1>1, BooksAlways, PTL

-----------------------------------------------------------------------------
\* Types of all the parts

KeyProofs == INSTANCE IdempotencyProofs

\* The keys of this module are those of IdempotencyProofs.
LEMMA KeyTypes == TillSpec => []TypeOK
<1> USE DEF NoRow, Idle, KeyProofs!NoRow, KeyProofs!Idle
<1>0. KeyProofs!IdempotencyAssumption
  BY IdempotencyAssumption DEF IdempotencyAssumption, KeyProofs!IdempotencyAssumption
<1>1. TillInit => KeyProofs!TypeOK
  <2>1. TillInit => KeyProofs!Init
    BY DEF TillInit, Init, KeyProofs!Init
  <2> QED BY <1>0, <2>1, KeyProofs!InitHolds DEF KeyProofs!IInv
<1>2. Next => KeyProofs!Next
  BY DEF Next,
     Arrive, Serve, Claim, Found, Perform, Refuse, Finish, SendAnswer, Commit,
     BreakPromise, Deliver, DeliverEarly, Lose, Goto, Answer, Success, Failure, Refusals,
     Taken, Holds, Committable, Done,
     KeyProofs!Next,
     KeyProofs!Arrive, KeyProofs!Serve, KeyProofs!Claim, KeyProofs!Found,
     KeyProofs!Perform, KeyProofs!Refuse, KeyProofs!Finish, KeyProofs!SendAnswer,
     KeyProofs!Commit, KeyProofs!BreakPromise, KeyProofs!Deliver, KeyProofs!DeliverEarly,
     KeyProofs!Lose, KeyProofs!Goto, KeyProofs!Answer, KeyProofs!Success,
     KeyProofs!Failure, KeyProofs!Refusals, KeyProofs!Taken, KeyProofs!Holds,
     KeyProofs!Committable, KeyProofs!Done
<1>3. KeyProofs!TypeOK /\ [TillNext]_tillVars => KeyProofs!TypeOK'
  BY <1>0, <1>2, KeyProofs!TypeStep DEF TillNext, tillVars, serverVars, KeyProofs!serverVars
<1>4. KeyProofs!TypeOK => TypeOK
  BY DEF TypeOK, Row, Txn, Reply, Effect, Success, Failure, Refusals,
     KeyProofs!TypeOK, KeyProofs!Row, KeyProofs!Txn, KeyProofs!Reply, KeyProofs!Effect,
     KeyProofs!Success, KeyProofs!Failure, KeyProofs!Refusals
<1> QED BY <1>1, <1>3, <1>4, PTL DEF TillSpec, tillVars

\* Every row, every transaction in flight, every ledger and every setting of the till keeps
\* its type; in particular what a bill comes to is a natural number (_orders_total).
THEOREM TillTypesHold == TillSpec => []TypesOK
<1>1. /\ TypeOK /\ Tills!TypeOK /\ DrawerInv /\ PriceInv /\ BookInv => TypesOK
  BY DEF TypesOK, DrawerInv, PriceInv, BookInv
<1> QED BY <1>1, KeyTypes, BillTypes, DrawerAlways, PriceAlways, BooksAlways, PTL

=============================================================================
