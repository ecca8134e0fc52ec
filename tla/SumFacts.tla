------------------------------ MODULE SumFacts ------------------------------
(***************************************************************************)
(* What SumFunctionOnSet of the community module Functions computes, for   *)
(* every finite set of indices: books of wallets and caches are such sums. *)
(* The inductions are by a smallest counterexample.                        *)
(***************************************************************************)
EXTENDS FiniteSetsExt, FiniteSetTheorems, TLAPS

\* A non-empty collection of subsets of a finite set has a smallest member.
LEMMA SmallestSubset ==
  ASSUME NEW S, IsFiniteSet(S), NEW Bad \in SUBSET (SUBSET S), Bad # {}
  PROVE  \E T \in Bad : \A U \in Bad : Cardinality(T) <= Cardinality(U)
<1> DEFINE R == OpToRel(<, Nat)
           sizes == {Cardinality(T) : T \in Bad}
<1>1. \A T \in Bad : Cardinality(T) \in Nat
  BY FS_Subset, FS_CardinalityType
<1>2. sizes \subseteq Nat /\ sizes # {}
  BY <1>1
<1>3. IsWellFoundedOn(R, Nat)
  BY NatLessThanWellFounded
<1>4. PICK n \in sizes : \A k \in sizes : ~ (<<k, n>> \in R)
  <2> HIDE DEF R, sizes
  <2> QED BY <1>2, <1>3, WFMin
<1>5. \A k \in sizes : n <= k
  <2> TAKE k \in sizes
  <2>1. ~ (k < n)
    BY <1>4, <1>2 DEF OpToRel
  <2> QED BY <2>1, <1>2
<1>6. PICK T \in Bad : n = Cardinality(T)
  BY <1>4
<1> QED BY <1>5, <1>6

\* The smallest member has no proper subset beside it.
LEMMA MinimalSubset ==
  ASSUME NEW S, IsFiniteSet(S), NEW Bad \in SUBSET (SUBSET S), Bad # {}
  PROVE  \E T \in Bad : IsFiniteSet(T) /\ \A x \in T : T \ {x} \notin Bad
<1>1. PICK T \in Bad : \A U \in Bad : Cardinality(T) <= Cardinality(U)
  BY SmallestSubset
<1>2. IsFiniteSet(T) /\ Cardinality(T) \in Nat
  BY FS_Subset, FS_CardinalityType
<1>3. \A x \in T : Cardinality(T \ {x}) = Cardinality(T) - 1
  BY <1>2, FS_RemoveElement
<1> QED BY <1>1, <1>2, <1>3

-----------------------------------------------------------------------------
(* The recursion of the sum.                                               *)

Some(s) == CHOOSE x \in s : TRUE

\* g holds the sums of f over the sets of D, which is closed under removal.
SumsOver(g, f, D) ==
  g = [s \in D |-> IF s = {} THEN 0 ELSE f[Some(s)] + g[s \ {Some(s)}]]

Small(S, n) == {s \in SUBSET S : Cardinality(s) <= n}

LEMMA SomeIsIn ==
  ASSUME NEW s, s # {}
  PROVE  Some(s) \in s
BY DEF Some

\* The sums exist, one more element at a time.
LEMMA SumsExist ==
  ASSUME NEW S, IsFiniteSet(S), NEW f
  PROVE  \A n \in Nat : \E g : SumsOver(g, f, Small(S, n))
<1> DEFINE R == OpToRel(<, Nat)
           Bad == {n \in Nat : ~ \E g : SumsOver(g, f, Small(S, n))}
<1> SUFFICES ASSUME Bad # {} PROVE FALSE
  OBVIOUS
<1>1. IsWellFoundedOn(R, Nat)
  BY NatLessThanWellFounded
<1>2. Bad \subseteq Nat
  OBVIOUS
<1>3. PICK n \in Bad : \A k \in Bad : ~ (<<k, n>> \in R)
  <2> HIDE DEF R, Bad
  <2> QED BY <1>1, <1>2, WFMin
<1>4. n \in Nat /\ ~ \E g : SumsOver(g, f, Small(S, n))
  BY <1>3
<1>5. CASE n = 0
  <2>1. Small(S, 0) = {{}}
    <3>1. \A s \in SUBSET S : IsFiniteSet(s) /\ Cardinality(s) \in Nat
      BY FS_Subset, FS_CardinalityType
    <3>2. \A s \in SUBSET S : Cardinality(s) <= 0 <=> s = {}
      BY <3>1, FS_EmptySet
    <3> QED BY <3>2 DEF Small
  <2> DEFINE g == [s \in {{}} |-> 0]
  <2>2. SumsOver(g, f, {{}})
    BY DEF SumsOver
  <2> QED BY <2>1, <2>2, <1>4, <1>5
<1>6. CASE n # 0
  <2>1. n - 1 \in Nat /\ <<n - 1, n>> \in R
    BY <1>4, <1>6 DEF OpToRel
  <2>2. n - 1 \notin Bad
    BY <2>1, <1>3
  <2>3. PICK h : SumsOver(h, f, Small(S, n - 1))
    BY <2>1, <2>2
  <2> DEFINE D == Small(S, n)
             E == Small(S, n - 1)
             g == [s \in D |-> IF s \in E THEN h[s] ELSE f[Some(s)] + h[s \ {Some(s)}]]
  <2>4. \A s \in SUBSET S : Cardinality(s) \in Nat /\ IsFiniteSet(s)
    BY FS_Subset, FS_CardinalityType
  <2>5. \A s \in D : s # {} => Some(s) \in s /\ s \ {Some(s)} \in E
    <3> SUFFICES ASSUME NEW s \in D, s # {}
                 PROVE  Some(s) \in s /\ s \ {Some(s)} \in E
      OBVIOUS
    <3>1. Some(s) \in s
      BY SomeIsIn
    <3>2. Cardinality(s \ {Some(s)}) = Cardinality(s) - 1
      BY <3>1, <2>4, FS_RemoveElement DEF Small
    <3>3. s \in SUBSET S /\ Cardinality(s) <= n /\ Cardinality(s) \in Nat
      BY <2>4 DEF Small
    <3>4. s \ {Some(s)} \in SUBSET S /\ Cardinality(s \ {Some(s)}) <= n - 1
      <4> HIDE DEF Bad, D, E, g
      <4> QED BY <3>2, <3>3, <1>4
    <3> QED BY <3>1, <3>4 DEF Small
  <2>6. E \subseteq D /\ \A s \in D : s = {} => s \in E
    <3> HIDE DEF Bad, g, R
    <3>1. E \subseteq D
      BY <2>4, <1>4 DEF Small
    <3>2. {} \in E
      <4>1. Cardinality({}) = 0
        BY FS_EmptySet
      <4>2. Cardinality({}) <= n - 1
        BY <4>1, <2>1, <1>4
      <4> QED BY <4>2 DEF Small
    <3> QED BY <3>1, <3>2
  <2>7. \A s \in E : h[s] = IF s = {} THEN 0 ELSE f[Some(s)] + h[s \ {Some(s)}]
    BY <2>3 DEF SumsOver
  <2>8. \A s \in D : g[s] = IF s = {} THEN 0 ELSE f[Some(s)] + g[s \ {Some(s)}]
    <3> HIDE DEF D, E
    <3>1. \A s \in D : s # {} => g[s \ {Some(s)}] = h[s \ {Some(s)}]
      BY <2>5, <2>6
    <3>2. ASSUME NEW s \in D, s = {} PROVE g[s] = 0
      BY <3>2, <2>6, <2>7
    <3>3. ASSUME NEW s \in D, s # {} PROVE g[s] = f[Some(s)] + g[s \ {Some(s)}]
      BY <3>3, <3>1, <2>7
    <3> QED BY <3>2, <3>3
  <2>9. SumsOver(g, f, D)
    <3>1. g = [s \in D |-> IF s = {} THEN 0 ELSE f[Some(s)] + g[s \ {Some(s)}]]
      <4>1. g = [s \in D |-> g[s]]
        OBVIOUS
      <4> HIDE DEF g, D, E
      <4> QED BY <4>1, <2>8
    <3> QED BY <3>1 DEF SumsOver
  <2> QED BY <2>9, <1>4
<1> QED BY <1>5, <1>6

AllSums(g, f, S) == SumsOver(g, f, SUBSET S)

\* The sum is one of those.
LEMMA SumUnfolds ==
  ASSUME NEW S, IsFiniteSet(S), NEW f
  PROVE  \E g : AllSums(g, f, S) /\ SumFunctionOnSet(f, S) = g[S]
<1> DEFINE n == Cardinality(S)
<1>1. n \in Nat
  BY FS_CardinalityType
<1>2. Small(S, n) = SUBSET S
  BY FS_Subset DEF Small
<1>3. \E g : AllSums(g, f, S)
  <2> HIDE DEF n
  <2>1. \E g : SumsOver(g, f, Small(S, n))
    BY <1>1, SumsExist
  <2> QED BY <2>1, <1>2 DEF AllSums
<1>4. SumFunctionOnSet(f, S) = (CHOOSE g : AllSums(g, f, S))[S]
  BY DEF SumFunctionOnSet, FoldFunctionOnSet, MapThenFoldSet, AllSums, SumsOver, Some
<1> QED BY <1>3, <1>4

\* Two such recursions agree where both are defined.
LEMMA SumsAgree ==
  ASSUME NEW S, IsFiniteSet(S), NEW T \in SUBSET S, NEW f, NEW g, NEW h,
         AllSums(g, f, S), AllSums(h, f, T)
  PROVE  \A s \in SUBSET T : g[s] = h[s]
<1> DEFINE Bad == {s \in SUBSET T : g[s] # h[s]}
<1> SUFFICES ASSUME Bad # {} PROVE FALSE
  OBVIOUS
<1>1. IsFiniteSet(T)
  BY FS_Subset
<1>2. PICK s \in Bad : \A x \in s : s \ {x} \notin Bad
  <2>1. Bad \in SUBSET (SUBSET T)
    OBVIOUS
  <2> HIDE DEF Bad
  <2> QED BY <1>1, <2>1, MinimalSubset
<1>3. g[s] = IF s = {} THEN 0 ELSE f[Some(s)] + g[s \ {Some(s)}]
  BY DEF AllSums, SumsOver
<1>4. h[s] = IF s = {} THEN 0 ELSE f[Some(s)] + h[s \ {Some(s)}]
  BY DEF AllSums, SumsOver
<1>5. s # {}
  BY <1>3, <1>4
<1>6. Some(s) \in s /\ s \ {Some(s)} \in SUBSET T
  BY <1>5, SomeIsIn
<1>7. g[s \ {Some(s)}] = h[s \ {Some(s)}]
  BY <1>6, <1>2
<1> QED BY <1>3, <1>4, <1>5, <1>7

LEMMA SumEmpty ==
  ASSUME NEW f
  PROVE  SumFunctionOnSet(f, {}) = 0
<1>1. PICK g : AllSums(g, f, {}) /\ SumFunctionOnSet(f, {}) = g[{}]
  BY FS_EmptySet, SumUnfolds
<1> QED BY <1>1 DEF AllSums, SumsOver

LEMMA SumSome ==
  ASSUME NEW S, IsFiniteSet(S), S # {}, NEW f
  PROVE  SumFunctionOnSet(f, S) = f[Some(S)] + SumFunctionOnSet(f, S \ {Some(S)})
<1> DEFINE T == S \ {Some(S)}
<1>1. IsFiniteSet(T) /\ T \in SUBSET S
  BY FS_RemoveElement
<1>2. PICK g : AllSums(g, f, S) /\ SumFunctionOnSet(f, S) = g[S]
  BY SumUnfolds
<1>3. PICK h : AllSums(h, f, T) /\ SumFunctionOnSet(f, T) = h[T]
  <2> HIDE DEF T
  <2> QED BY <1>1, SumUnfolds
<1>4. g[T] = h[T]
  <2> HIDE DEF T
  <2>1. AllSums(g, f, S) /\ AllSums(h, f, T)
    BY <1>2, <1>3
  <2>2. \A s \in SUBSET T : g[s] = h[s]
    BY <2>1, <1>1, SumsAgree
  <2> QED BY <2>2
<1>5. g[S] = f[Some(S)] + g[T]
  BY <1>2 DEF AllSums, SumsOver
<1> QED BY <1>2, <1>3, <1>4, <1>5

-----------------------------------------------------------------------------
(* Facts about sums.                                                       *)

LEMMA SumType ==
  ASSUME NEW S, IsFiniteSet(S), NEW f, \A x \in S : f[x] \in Int
  PROVE  SumFunctionOnSet(f, S) \in Int
<1> DEFINE Bad == {T \in SUBSET S : SumFunctionOnSet(f, T) \notin Int}
<1>1. SUFFICES ASSUME Bad # {} PROVE FALSE
  OBVIOUS
<1>2. PICK T \in Bad : IsFiniteSet(T) /\ \A x \in T : T \ {x} \notin Bad
  <2>1. Bad \in SUBSET (SUBSET S)
    OBVIOUS
  <2> HIDE DEF Bad
  <2> QED BY <1>1, <2>1, MinimalSubset
<1>3. T # {}
  BY SumEmpty
<1>4. Some(T) \in T
  BY <1>3, SomeIsIn
<1>5. SumFunctionOnSet(f, T \ {Some(T)}) \in Int
  BY <1>2, <1>4
<1>6. SumFunctionOnSet(f, T) = f[Some(T)] + SumFunctionOnSet(f, T \ {Some(T)})
  BY <1>2, <1>3, SumSome
<1> QED BY <1>4, <1>5, <1>6

\* Any element may be taken out first.
LEMMA SumRemove ==
  ASSUME NEW S, IsFiniteSet(S), NEW f, \A x \in S : f[x] \in Int, NEW y \in S
  PROVE  SumFunctionOnSet(f, S) = f[y] + SumFunctionOnSet(f, S \ {y})
<1> DEFINE Bad == {T \in SUBSET S :
                    ~ \A x \in T : SumFunctionOnSet(f, T) = f[x] + SumFunctionOnSet(f, T \ {x})}
<1>1. SUFFICES ASSUME Bad # {} PROVE FALSE
  OBVIOUS
<1>2. PICK T \in Bad : IsFiniteSet(T) /\ \A x \in T : T \ {x} \notin Bad
  <2>1. Bad \in SUBSET (SUBSET S)
    OBVIOUS
  <2> HIDE DEF Bad
  <2> QED BY <1>1, <2>1, MinimalSubset
<1>3. PICK x \in T : SumFunctionOnSet(f, T) # f[x] + SumFunctionOnSet(f, T \ {x})
  OBVIOUS
<1> DEFINE c == Some(T)
<1>4. c \in T
  BY SomeIsIn
<1>5. SumFunctionOnSet(f, T) = f[c] + SumFunctionOnSet(f, T \ {c})
  BY <1>2, SumSome
<1>6. c # x
  BY <1>5, <1>3
<1>7. T \ {c} \notin Bad /\ T \ {x} \notin Bad
  BY <1>2, <1>4
<1> HIDE DEF c
<1>8. SumFunctionOnSet(f, T \ {c}) = f[x] + SumFunctionOnSet(f, (T \ {c}) \ {x})
  BY <1>6, <1>7
<1>9. SumFunctionOnSet(f, T \ {x}) = f[c] + SumFunctionOnSet(f, (T \ {x}) \ {c})
  BY <1>4, <1>6, <1>7
<1>10. (T \ {c}) \ {x} = (T \ {x}) \ {c}
  OBVIOUS
<1>11. f[c] \in Int /\ f[x] \in Int
  BY <1>4
<1>12. SumFunctionOnSet(f, (T \ {x}) \ {c}) \in Int
  <2>1. IsFiniteSet((T \ {x}) \ {c})
    BY <1>2, FS_RemoveElement
  <2> QED BY <2>1, SumType
<1>13. \A k \in Int : f[c] + (f[x] + k) = f[x] + (f[c] + k)
  <2> HIDE DEF Bad
  <2> QED BY <1>11
<1>14. SumFunctionOnSet(f, T) = f[x] + SumFunctionOnSet(f, T \ {x})
  <2> HIDE DEF Bad
  <2> QED BY <1>5, <1>8, <1>9, <1>10, <1>12, <1>13
<1> QED BY <1>3, <1>14

LEMMA SumAdd ==
  ASSUME NEW S, IsFiniteSet(S), NEW y, y \notin S,
         NEW f, \A x \in S \cup {y} : f[x] \in Int
  PROVE  SumFunctionOnSet(f, S \cup {y}) = f[y] + SumFunctionOnSet(f, S)
<1>1. IsFiniteSet(S \cup {y})
  BY FS_AddElement
<1>2. (S \cup {y}) \ {y} = S
  OBVIOUS
<1> QED BY <1>1, <1>2, SumRemove

\* Only the values on the set matter.
LEMMA SumSame ==
  ASSUME NEW S, IsFiniteSet(S), NEW f, NEW h, \A x \in S : f[x] = h[x]
  PROVE  SumFunctionOnSet(f, S) = SumFunctionOnSet(h, S)
<1> DEFINE Bad == {T \in SUBSET S : SumFunctionOnSet(f, T) # SumFunctionOnSet(h, T)}
<1>1. SUFFICES ASSUME Bad # {} PROVE FALSE
  OBVIOUS
<1>2. PICK T \in Bad : IsFiniteSet(T) /\ \A x \in T : T \ {x} \notin Bad
  <2>1. Bad \in SUBSET (SUBSET S)
    OBVIOUS
  <2> HIDE DEF Bad
  <2> QED BY <1>1, <2>1, MinimalSubset
<1>3. T # {}
  BY SumEmpty
<1>4. Some(T) \in T
  BY <1>3, SomeIsIn
<1>5. SumFunctionOnSet(f, T \ {Some(T)}) = SumFunctionOnSet(h, T \ {Some(T)})
  BY <1>2, <1>4
<1>6. /\ SumFunctionOnSet(f, T) = f[Some(T)] + SumFunctionOnSet(f, T \ {Some(T)})
      /\ SumFunctionOnSet(h, T) = h[Some(T)] + SumFunctionOnSet(h, T \ {Some(T)})
  BY <1>2, <1>3, SumSome
<1> QED BY <1>4, <1>5, <1>6

LEMMA SumMonotone ==
  ASSUME NEW S, IsFiniteSet(S), NEW f, NEW h,
         \A x \in S : f[x] \in Int /\ h[x] \in Int /\ f[x] <= h[x]
  PROVE  SumFunctionOnSet(f, S) <= SumFunctionOnSet(h, S)
<1> DEFINE Bad == {T \in SUBSET S : ~ (SumFunctionOnSet(f, T) <= SumFunctionOnSet(h, T))}
<1>1. SUFFICES ASSUME Bad # {} PROVE FALSE
  OBVIOUS
<1>2. PICK T \in Bad : IsFiniteSet(T) /\ \A x \in T : T \ {x} \notin Bad
  <2>1. Bad \in SUBSET (SUBSET S)
    OBVIOUS
  <2> HIDE DEF Bad
  <2> QED BY <1>1, <2>1, MinimalSubset
<1>3. T # {}
  BY SumEmpty
<1>4. Some(T) \in T
  BY <1>3, SomeIsIn
<1> DEFINE a == SumFunctionOnSet(f, T \ {Some(T)})
           b == SumFunctionOnSet(h, T \ {Some(T)})
<1>5. a <= b
  BY <1>2, <1>4
<1>6. /\ SumFunctionOnSet(f, T) = f[Some(T)] + a
      /\ SumFunctionOnSet(h, T) = h[Some(T)] + b
  BY <1>2, <1>3, SumSome
<1>7. a \in Int /\ b \in Int
  <2>1. IsFiniteSet(T \ {Some(T)})
    BY <1>2, FS_RemoveElement
  <2> QED BY <2>1, SumType
<1>8. f[Some(T)] \in Int /\ h[Some(T)] \in Int /\ f[Some(T)] <= h[Some(T)]
  BY <1>4
<1>9. ~ (SumFunctionOnSet(f, T) <= SumFunctionOnSet(h, T))
  OBVIOUS
<1> HIDE DEF a, b
<1> QED BY <1>5, <1>6, <1>7, <1>8, <1>9

LEMMA SumZero ==
  ASSUME NEW S, IsFiniteSet(S), NEW f, \A x \in S : f[x] = 0
  PROVE  SumFunctionOnSet(f, S) = 0
<1> DEFINE Bad == {T \in SUBSET S : SumFunctionOnSet(f, T) # 0}
<1>1. SUFFICES ASSUME Bad # {} PROVE FALSE
  OBVIOUS
<1>2. PICK T \in Bad : IsFiniteSet(T) /\ \A x \in T : T \ {x} \notin Bad
  <2>1. Bad \in SUBSET (SUBSET S)
    OBVIOUS
  <2> HIDE DEF Bad
  <2> QED BY <1>1, <2>1, MinimalSubset
<1>3. T # {}
  BY SumEmpty
<1>4. Some(T) \in T
  BY <1>3, SomeIsIn
<1>5. SumFunctionOnSet(f, T) = f[Some(T)] + SumFunctionOnSet(f, T \ {Some(T)})
  BY <1>2, <1>3, SumSome
<1> QED BY <1>2, <1>4, <1>5

LEMMA SumNegate ==
  ASSUME NEW S, IsFiniteSet(S), NEW f, NEW h,
         \A x \in S : f[x] \in Int /\ h[x] = 0 - f[x]
  PROVE  SumFunctionOnSet(h, S) = 0 - SumFunctionOnSet(f, S)
<1> DEFINE Bad == {T \in SUBSET S : SumFunctionOnSet(h, T) # 0 - SumFunctionOnSet(f, T)}
<1>1. SUFFICES ASSUME Bad # {} PROVE FALSE
  OBVIOUS
<1>2. PICK T \in Bad : IsFiniteSet(T) /\ \A x \in T : T \ {x} \notin Bad
  <2>1. Bad \in SUBSET (SUBSET S)
    OBVIOUS
  <2> HIDE DEF Bad
  <2> QED BY <1>1, <2>1, MinimalSubset
<1>3. T # {}
  BY SumEmpty
<1>4. Some(T) \in T
  BY <1>3, SomeIsIn
<1> DEFINE a == SumFunctionOnSet(f, T \ {Some(T)})
           b == SumFunctionOnSet(h, T \ {Some(T)})
<1>5. b = 0 - a
  BY <1>2, <1>4
<1>6. /\ SumFunctionOnSet(f, T) = f[Some(T)] + a
      /\ SumFunctionOnSet(h, T) = h[Some(T)] + b
  BY <1>2, <1>3, SumSome
<1>7. a \in Int
  <2>1. IsFiniteSet(T \ {Some(T)})
    BY <1>2, FS_RemoveElement
  <2> QED BY <2>1, SumType
<1>8. f[Some(T)] \in Int /\ h[Some(T)] = 0 - f[Some(T)]
  BY <1>4
<1>9. SumFunctionOnSet(h, T) # 0 - SumFunctionOnSet(f, T)
  OBVIOUS
<1> HIDE DEF a, b, Bad
<1> QED BY <1>5, <1>6, <1>7, <1>8, <1>9

\* A set splits into two parts.
LEMMA SumSplit ==
  ASSUME NEW S, IsFiniteSet(S), NEW f, \A x \in S : f[x] \in Int, NEW U \in SUBSET S
  PROVE  SumFunctionOnSet(f, S) = SumFunctionOnSet(f, U) + SumFunctionOnSet(f, S \ U)
<1> DEFINE P(T) == SumFunctionOnSet(f, S) = SumFunctionOnSet(f, T) + SumFunctionOnSet(f, S \ T)
           Bad == {T \in SUBSET S : ~ P(T)}
<1>1. SUFFICES ASSUME Bad # {} PROVE FALSE
  OBVIOUS
<1>2. PICK T \in Bad : IsFiniteSet(T) /\ \A x \in T : T \ {x} \notin Bad
  <2>1. Bad \in SUBSET (SUBSET S)
    OBVIOUS
  <2> HIDE DEF Bad
  <2> QED BY <1>1, <2>1, MinimalSubset
<1>3. SumFunctionOnSet(f, S) \in Int
  BY SumType
<1>4. T # {}
  <2>1. S \ {} = S
    OBVIOUS
  <2> QED BY <2>1, <1>3, SumEmpty
<1>5. PICK x : x \in T
  BY <1>4
<1>6. P(T \ {x})
  BY <1>2, <1>5
<1>7. SumFunctionOnSet(f, T) = f[x] + SumFunctionOnSet(f, T \ {x})
  BY <1>2, <1>5, SumRemove
<1>8. IsFiniteSet(S \ T) /\ IsFiniteSet(T \ {x})
  BY FS_Subset
<1>9. S \ (T \ {x}) = (S \ T) \cup {x}
  BY <1>5
<1>10. SumFunctionOnSet(f, S \ (T \ {x})) = f[x] + SumFunctionOnSet(f, S \ T)
  BY <1>5, <1>8, <1>9, SumAdd
<1>11. SumFunctionOnSet(f, S \ T) \in Int /\ SumFunctionOnSet(f, T \ {x}) \in Int /\ f[x] \in Int
  BY <1>5, <1>8, SumType
<1>12. ~ P(T)
  OBVIOUS
<1> QED BY <1>6, <1>7, <1>10, <1>11, <1>12

\* A sum of naturals is one, and at least what any part of it is.
LEMMA SumOfNaturals ==
  ASSUME NEW S, IsFiniteSet(S), NEW f, \A x \in S : f[x] \in Nat
  PROVE  /\ SumFunctionOnSet(f, S) \in Nat
         /\ \A U \in SUBSET S : SumFunctionOnSet(f, U) <= SumFunctionOnSet(f, S)
<1>1. \A U \in SUBSET S : SumFunctionOnSet(f, U) \in Nat
  <2> TAKE U \in SUBSET S
  <2> DEFINE z == [x \in U |-> 0]
  <2>1. IsFiniteSet(U)
    BY FS_Subset
  <2>2. SumFunctionOnSet(z, U) = 0
    BY <2>1, SumZero
  <2>3. SumFunctionOnSet(z, U) <= SumFunctionOnSet(f, U)
    BY <2>1, SumMonotone
  <2>4. SumFunctionOnSet(f, U) \in Int
    BY <2>1, SumType
  <2> QED BY <2>2, <2>3, <2>4
<1>2. \A U \in SUBSET S : SumFunctionOnSet(f, U) <= SumFunctionOnSet(f, S)
  <2> TAKE U \in SUBSET S
  <2>1. SumFunctionOnSet(f, S) = SumFunctionOnSet(f, U) + SumFunctionOnSet(f, S \ U)
    BY SumSplit
  <2>2. SumFunctionOnSet(f, U) \in Nat /\ SumFunctionOnSet(f, S \ U) \in Nat
    BY <1>1
  <2> QED BY <2>1, <2>2
<1> QED BY <1>1, <1>2

\* Two sums over the same indices, added term by term.
LEMMA SumPlus ==
  ASSUME NEW S, IsFiniteSet(S), NEW f, NEW g, NEW h,
         \A x \in S : f[x] \in Int /\ g[x] \in Int /\ h[x] = f[x] + g[x]
  PROVE  SumFunctionOnSet(h, S) = SumFunctionOnSet(f, S) + SumFunctionOnSet(g, S)
<1> DEFINE Bad == {T \in SUBSET S :
                     SumFunctionOnSet(h, T) # SumFunctionOnSet(f, T) + SumFunctionOnSet(g, T)}
<1>1. SUFFICES ASSUME Bad # {} PROVE FALSE
  OBVIOUS
<1>2. PICK T \in Bad : IsFiniteSet(T) /\ \A x \in T : T \ {x} \notin Bad
  <2>1. Bad \in SUBSET (SUBSET S)
    OBVIOUS
  <2> HIDE DEF Bad
  <2> QED BY <1>1, <2>1, MinimalSubset
<1>3. T # {}
  <2>1. /\ SumFunctionOnSet(f, {}) = 0 /\ SumFunctionOnSet(g, {}) = 0
        /\ SumFunctionOnSet(h, {}) = 0
    BY SumEmpty
  <2>2. SumFunctionOnSet(h, T) # SumFunctionOnSet(f, T) + SumFunctionOnSet(g, T)
    OBVIOUS
  <2> HIDE DEF Bad
  <2> SUFFICES ASSUME T = {} PROVE FALSE
    OBVIOUS
  <2>3. SumFunctionOnSet(h, {}) # SumFunctionOnSet(f, {}) + SumFunctionOnSet(g, {})
    BY <2>2
  <2> QED BY <2>1, <2>3
<1>4. PICK x : x \in T
  BY <1>3
<1>5. SumFunctionOnSet(h, T \ {x}) = SumFunctionOnSet(f, T \ {x}) + SumFunctionOnSet(g, T \ {x})
  BY <1>2, <1>4
<1>6. \A y \in T : f[y] \in Int /\ g[y] \in Int /\ h[y] \in Int
  OBVIOUS
<1>7. /\ SumFunctionOnSet(f, T) = f[x] + SumFunctionOnSet(f, T \ {x})
      /\ SumFunctionOnSet(g, T) = g[x] + SumFunctionOnSet(g, T \ {x})
      /\ SumFunctionOnSet(h, T) = h[x] + SumFunctionOnSet(h, T \ {x})
  BY <1>2, <1>4, <1>6, SumRemove
<1>8. IsFiniteSet(T \ {x})
  BY <1>2, FS_Subset
<1>9. SumFunctionOnSet(f, T \ {x}) \in Int /\ SumFunctionOnSet(g, T \ {x}) \in Int
  BY <1>6, <1>8, SumType
<1>10. h[x] = f[x] + g[x] /\ f[x] \in Int /\ g[x] \in Int
  BY <1>4
<1>11. SumFunctionOnSet(h, T) # SumFunctionOnSet(f, T) + SumFunctionOnSet(g, T)
  OBVIOUS
<1> HIDE DEF Bad
<1> QED BY <1>5, <1>7, <1>9, <1>10, <1>11

\* A sum may be taken group by group.
LEMMA SumByGroups ==
  ASSUME NEW S, IsFiniteSet(S), NEW f, \A x \in S : f[x] \in Int,
         NEW K, IsFiniteSet(K), NEW k, \A x \in S : k[x] \in K,
         NEW g, \A t \in K : g[t] = SumFunctionOnSet(f, {x \in S : k[x] = t})
  PROVE  SumFunctionOnSet(g, K) = SumFunctionOnSet(f, S)
<1> DEFINE In(U) == {x \in S : k[x] \in U}
           Bad == {U \in SUBSET K : SumFunctionOnSet(g, U) # SumFunctionOnSet(f, In(U))}
<1>1. \A U : In(U) \in SUBSET S /\ IsFiniteSet(In(U))
  <2>1. \A T \in SUBSET S : IsFiniteSet(T)
    BY FS_Subset
  <2> QED BY <2>1
<1>2. \A t \in K : g[t] \in Int
  <2> TAKE t \in K
  <2>1. {x \in S : k[x] = t} \in SUBSET S
    OBVIOUS
  <2>2. IsFiniteSet({x \in S : k[x] = t})
    BY <2>1, FS_Subset
  <2> QED BY <2>2, SumType
<1>3. Bad = {}
  <2>1. SUFFICES ASSUME Bad # {} PROVE FALSE
    OBVIOUS
  <2>2. PICK U \in Bad : IsFiniteSet(U) /\ \A t \in U : U \ {t} \notin Bad
    <3>1. Bad \in SUBSET (SUBSET K)
      OBVIOUS
    <3> HIDE DEF Bad
    <3> QED BY <2>1, <3>1, MinimalSubset
  <2>3. U # {}
    <3>1. In({}) = {}
      OBVIOUS
    <3> QED BY <3>1, SumEmpty
  <2>4. PICK t : t \in U
    BY <2>3
  <2>5. SumFunctionOnSet(g, U \ {t}) = SumFunctionOnSet(f, In(U \ {t}))
    BY <2>2, <2>4
  <2>6. SumFunctionOnSet(g, U) = g[t] + SumFunctionOnSet(g, U \ {t})
    BY <1>2, <2>2, <2>4, SumRemove
  <2> DEFINE G == {x \in S : k[x] = t}
  <2>7. G \in SUBSET In(U) /\ In(U) \ G = In(U \ {t})
    BY <2>4
  <2>8. IsFiniteSet(In(U)) /\ \A x \in In(U) : f[x] \in Int
    BY <1>1
  <2>9. SumFunctionOnSet(f, In(U)) # SumFunctionOnSet(g, U)
    OBVIOUS
  <2>10. g[t] = SumFunctionOnSet(f, G)
    BY <2>2, <2>4
  <2> HIDE DEF In, G, Bad
  <2>11. SumFunctionOnSet(f, In(U)) = SumFunctionOnSet(f, G) + SumFunctionOnSet(f, In(U) \ G)
    BY <2>7, <2>8, SumSplit
  <2> QED BY <2>5, <2>6, <2>7, <2>9, <2>10, <2>11
<1>4. SumFunctionOnSet(g, K) = SumFunctionOnSet(f, In(K))
  BY <1>3
<1>5. In(K) = S
  OBVIOUS
<1> QED BY <1>4, <1>5

\* The sum of one term.
LEMMA SumOne ==
  ASSUME NEW x, NEW f, f[x] \in Int
  PROVE  SumFunctionOnSet(f, {x}) = f[x]
<1>1. IsFiniteSet({}) /\ {} \cup {x} = {x} /\ x \notin {}
  BY FS_EmptySet
<1>2. \A y \in {} \cup {x} : f[y] \in Int
  OBVIOUS
<1>3. SumFunctionOnSet(f, {} \cup {x}) = f[x] + SumFunctionOnSet(f, {})
  BY <1>1, <1>2, SumAdd
<1> QED BY <1>1, <1>3, SumEmpty

LEMMA ImageFinite ==
  ASSUME NEW S, IsFiniteSet(S), NEW k
  PROVE  IsFiniteSet({k[x] : x \in S})
<1> DEFINE K == {k[x] : x \in S}
           h == [x \in S |-> k[x]]
<1>1. h \in Surjection(S, K)
  BY DEF Surjection
<1> HIDE DEF K, h
<1>2. IsFiniteSet(K)
  BY <1>1, FS_Surjection
<1> QED BY <1>2 DEF K

\* The same, with the groups given.
LEMMA SumByGivenGroups ==
  ASSUME NEW S, IsFiniteSet(S), NEW f, \A x \in S : f[x] \in Int,
         NEW K, IsFiniteSet(K), NEW k, \A x \in S : k[x] \in K,
         NEW G, \A t \in K : \A x : x \in G[t] <=> x \in S /\ k[x] = t,
         NEW g, \A t \in K : g[t] = SumFunctionOnSet(f, G[t])
  PROVE  SumFunctionOnSet(g, K) = SumFunctionOnSet(f, S)
<1>1. \A t \in K : g[t] = SumFunctionOnSet(f, {x \in S : k[x] = t})
  <2> TAKE t \in K
  <2>1. G[t] = {x \in S : k[x] = t}
    OBVIOUS
  <2> QED BY <2>1
<1> QED BY <1>1, SumByGroups

(* k renames the indices S of f to the indices K of g, one to one. *)
Renames(k, S, f, K, g) ==
  /\ IsFiniteSet(S) /\ K = {k[x] : x \in S}
  /\ \A x, y \in S : k[x] = k[y] => x = y
  /\ \A x \in S : f[x] \in Int /\ g[k[x]] = f[x]

\* Renaming the indices does not change the sum.
LEMMA SumRenamed ==
  ASSUME NEW k, NEW S, NEW f, NEW K, NEW g, Renames(k, S, f, K, g)
  PROVE  SumFunctionOnSet(g, K) = SumFunctionOnSet(f, S)
<1>1. IsFiniteSet(K)
  <2>1. IsFiniteSet(S) /\ K = {k[x] : x \in S}
    BY DEF Renames
  <2>2. IsFiniteSet({k[x] : x \in S})
    BY <2>1, ImageFinite
  <2> QED BY <2>1, <2>2
<1>2. IsFiniteSet(S) /\ \A x \in S : k[x] \in K /\ f[x] \in Int
  BY DEF Renames
<1> DEFINE G == [t \in K |-> {x \in S : k[x] = t}]
<1>3. \A t \in K : \A x : x \in G[t] <=> x \in S /\ k[x] = t
  OBVIOUS
<1>4. \A t \in K : g[t] = SumFunctionOnSet(f, G[t])
  <2> TAKE t \in K
  <2>1. PICK x \in S : t = k[x]
    BY DEF Renames
  <2>2. G[t] = {x}
    BY <2>1 DEF Renames
  <2>3. SumFunctionOnSet(f, {x}) = f[x]
    BY <1>2, SumOne
  <2> QED BY <2>1, <2>2, <2>3 DEF Renames
<1> HIDE DEF G
<1> QED BY <1>1, <1>2, <1>3, <1>4, SumByGivenGroups

-----------------------------------------------------------------------------
(* Largest and smallest elements.                                          *)

\* A non-empty set of natural numbers has a least element.
LEMMA LeastElement ==
  ASSUME NEW T \in SUBSET Nat, T # {}
  PROVE  \E x \in T : \A y \in T : x <= y
<1> DEFINE R == OpToRel(<, Nat)
<1>1. IsWellFoundedOn(R, Nat)
  BY NatLessThanWellFounded
<1>2. \E x \in T : \A y \in T : ~ (<<y, x>> \in R)
  <2> HIDE DEF R
  <2> QED BY <1>1, WFMin
<1>3. PICK x \in T : \A y \in T : ~ (<<y, x>> \in R)
  BY <1>2
<1>4. \A y \in T : x <= y
  <2> TAKE y \in T
  <2>1. <<y, x>> \notin R
    BY <1>3
  <2>2. ~(y < x)
    BY <2>1 DEF OpToRel
  <2> QED BY <2>2
<1> QED BY <1>4

\* A finite, non-empty set of integers has the maximum Max takes.
LEMMA MaxOfFinite ==
  ASSUME NEW S \in SUBSET Int, IsFiniteSet(S), S # {}
  PROVE  Max(S) \in S /\ \A y \in S : y <= Max(S)
<1> DEFINE Bad == {T \in SUBSET S : T # {} /\ ~ \E x \in T : \A y \in T : x >= y}
<1>1. Bad = {}
  <2>1. SUFFICES ASSUME Bad # {} PROVE FALSE
    OBVIOUS
  <2>2. PICK T \in Bad : \A x \in T : T \ {x} \notin Bad
    <3>1. Bad \in SUBSET (SUBSET S)
      OBVIOUS
    <3> HIDE DEF Bad
    <3> QED BY <2>1, <3>1, MinimalSubset
  <2>3. PICK x : x \in T
    OBVIOUS
  <2>4. T \ {x} # {}
    BY <2>3
  <2>5. PICK m \in T \ {x} : \A y \in T \ {x} : m >= y
    BY <2>2, <2>3, <2>4
  <2>6. m \in Int /\ x \in Int /\ \A y \in T : y \in Int
    BY <2>3
  <2>7. (\A y \in T : m >= y) \/ (\A y \in T : x >= y)
    BY <2>5, <2>6
  <2> QED BY <2>3, <2>7
<1>2. \E x \in S : \A y \in S : x >= y
  BY <1>1
<1> QED BY <1>2 DEF Max

LEMMA MaxOfTwo ==
  ASSUME NEW a \in Int, NEW b \in Int
  PROVE  Max({a, b}) = IF a >= b THEN a ELSE b
<1>1. \E x \in {a, b} : \A y \in {a, b} : x >= y
  OBVIOUS
<1>2. Max({a, b}) \in {a, b} /\ \A y \in {a, b} : Max({a, b}) >= y
  BY <1>1 DEF Max
<1> QED BY <1>2

\* Equal amounts add up to a product.
LEMMA SumEqual ==
  ASSUME NEW S, IsFiniteSet(S), NEW v \in Nat, NEW f, \A x \in S : f[x] = v
  PROVE  SumFunctionOnSet(f, S) = v * Cardinality(S)
<1> DEFINE Bad == {T \in SUBSET S : SumFunctionOnSet(f, T) # v * Cardinality(T)}
<1>1. SUFFICES ASSUME Bad # {} PROVE FALSE
  OBVIOUS
<1>2. PICK T \in Bad : IsFiniteSet(T) /\ \A x \in T : T \ {x} \notin Bad
  <2>1. Bad \in SUBSET (SUBSET S)
    OBVIOUS
  <2> HIDE DEF Bad
  <2> QED BY <1>1, <2>1, MinimalSubset
<1>3. T # {}
  BY SumEmpty, FS_EmptySet
<1>4. Some(T) \in T
  BY <1>3, SomeIsIn
<1> DEFINE U == T \ {Some(T)}
           n == Cardinality(T)
<1>5. SumFunctionOnSet(f, U) = v * Cardinality(U)
  BY <1>2, <1>4
<1>6. Cardinality(U) = n - 1 /\ n \in Nat
  BY <1>2, <1>4, FS_RemoveElement, FS_CardinalityType
<1>7. SumFunctionOnSet(f, T) = v + SumFunctionOnSet(f, U)
  BY <1>2, <1>3, <1>4, SumSome
<1>8. SumFunctionOnSet(f, T) # v * n
  OBVIOUS
<1> HIDE DEF n, U, Bad
<1>9. v * (n - 1) = v * n - v
  BY <1>6
<1>10. v * n \in Int
  BY <1>6
<1> QED BY <1>5, <1>6, <1>7, <1>8, <1>9, <1>10

\* A sum that ignores what is outside U.
LEMMA SumRestricted ==
  ASSUME NEW S, IsFiniteSet(S), NEW U \in SUBSET S, NEW f, \A x \in U : f[x] \in Int,
         NEW h, \A x \in S : h[x] = IF x \in U THEN f[x] ELSE 0
  PROVE  SumFunctionOnSet(h, S) = SumFunctionOnSet(f, U) /\ SumFunctionOnSet(f, U) \in Int
<1>1. IsFiniteSet(U) /\ IsFiniteSet(S \ U)
  BY FS_Subset
<1>2. SumFunctionOnSet(h, S) = SumFunctionOnSet(h, U) + SumFunctionOnSet(h, S \ U)
  <2>1. \A x \in S : h[x] \in Int
    OBVIOUS
  <2> QED BY <2>1, SumSplit
<1>3. SumFunctionOnSet(h, U) = SumFunctionOnSet(f, U)
  <2>1. \A x \in U : h[x] = f[x]
    OBVIOUS
  <2> QED BY <1>1, <2>1, SumSame
<1>4. SumFunctionOnSet(h, S \ U) = 0
  <2>1. \A x \in S \ U : h[x] = 0
    OBVIOUS
  <2> QED BY <1>1, <2>1, SumZero
<1>5. SumFunctionOnSet(f, U) \in Int
  BY <1>1, SumType
<1> QED BY <1>2, <1>3, <1>4, <1>5
=============================================================================
