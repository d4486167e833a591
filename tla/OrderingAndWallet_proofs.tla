--------------------- MODULE OrderingAndWallet_proofs ----------------------
(***************************************************************************)
(* Theorems about what is paid, in three modules that share no name:       *)
(*   Ordering  for every set of menus, every bound on edits, lines and     *)
(*     units;                                                              *)
(*   Wallet  for every number of hands and recharges, every amount, window *)
(*     of months and bound of messages, notices, polls, saves and pages;   *)
(*   DeliveryCheckout  for every set of keys, creators, payers, quotes and *)
(*     deliveries, every capacity and clock.                               *)
(***************************************************************************)
EXTENDS Ordering, Wallet, MCDeliveryCheckout, FiniteSetTheorems, SequenceTheorems,
        WellFoundedInduction, TLAPS

---------------------------------------------------------------------------
(* sums over a finite set *)

\* A set of numbers has a least one.
LEMMA LeastOf ==
  ASSUME NEW T \in SUBSET Nat, T # {}
  PROVE  \E n \in T : \A k \in T : ~(k < n)
<1>1. PICK n \in T : \A k \in T : ~(<<k, n>> \in OpToRel(<, Nat))
  BY NatLessThanWellFounded, WFMin
<1> QED
  BY <1>1 DEF OpToRel

Body(v, f, s) == IF s = {} THEN 0 ELSE v[CHOOSE x \in s : TRUE] + f[s \ {CHOOSE x \in s : TRUE}]
Iterates(v, S, f) == f = [s \in SUBSET S |-> Body(v, f, s)]

LEMMA SumUnfolded ==
  ASSUME NEW v, NEW S
  PROVE  SumFunctionOnSet(v, S) = (CHOOSE f : Iterates(v, S, f))[S]
BY DEF SumFunctionOnSet, FoldFunctionOnSet, MapThenFoldSet, Body, Iterates

LEMMA ChosenIn ==
  ASSUME NEW S, S # {}
  PROVE  (CHOOSE x \in S : TRUE) \in S
  OBVIOUS

\* Two iterations are the same on the sets on which they add the same.
LEMMA IterationsAgree ==
  ASSUME NEW S, NEW T, NEW U, IsFiniteSet(U), U \subseteq S, U \subseteq T,
         NEW v, NEW w, \A x \in U : v[x] = w[x],
         NEW f, Iterates(v, S, f), NEW g, Iterates(w, T, g)
  PROVE  f[U] = g[U]
<1> DEFINE Bad == {n \in Nat : \E s \in SUBSET U : Cardinality(s) = n /\ f[s] # g[s]}
<1>1. \A s \in SUBSET U : IsFiniteSet(s) /\ Cardinality(s) \in Nat
  BY FS_Subset, FS_CardinalityType
<1>2. Bad = {}
  <2> SUFFICES ASSUME Bad # {} PROVE FALSE
    OBVIOUS
  <2>1. PICK n \in Bad : \A k \in Bad : ~(k < n)
    BY LeastOf
  <2>2. PICK s \in SUBSET U : Cardinality(s) = n /\ f[s] # g[s]
    BY <2>1
  <2>3. f[s] = Body(v, f, s) /\ g[s] = Body(w, g, s)
    BY DEF Iterates
  <2>4. s # {}
    BY <2>2, <2>3 DEF Body
  <2> DEFINE c == CHOOSE x \in s : TRUE
  <2>5. c \in s
    BY <2>4, ChosenIn
  <2>6. f[s \ {c}] # g[s \ {c}]
    <3>1. v[c] = w[c]
      BY <2>5
    <3>2. f[s] = v[c] + f[s \ {c}] /\ g[s] = w[c] + g[s \ {c}]
      BY <2>3, <2>4 DEF Body
    <3> QED
      BY <3>1, <3>2, <2>2
  <2>7. Cardinality(s \ {c}) = n - 1 /\ Cardinality(s \ {c}) \in Nat
    BY <1>1, <2>2, <2>5, FS_RemoveElement
  <2>8. n - 1 \in Bad
    BY <2>6, <2>7
  <2> QED
    BY <2>1, <2>8
<1> QED
  BY <1>1, <1>2

UpTo(v, S, f, n) == \A s \in SUBSET S : Cardinality(s) <= n => f[s] = Body(v, f, s)

LEMMA IteratesFurther ==
  ASSUME NEW S, IsFiniteSet(S), NEW v, \A x \in S : v[x] \in Int, NEW n \in Nat,
         NEW f \in [SUBSET S -> Int], UpTo(v, S, f, n)
  PROVE  \E g \in [SUBSET S -> Int] : UpTo(v, S, g, n + 1)
<1> DEFINE g == [s \in SUBSET S |-> IF Cardinality(s) <= n THEN f[s] ELSE Body(v, f, s)]
<1>1. \A s \in SUBSET S : IsFiniteSet(s) /\ Cardinality(s) \in Nat
  BY FS_Subset, FS_CardinalityType
<1>2. \A s \in SUBSET S : Body(v, f, s) \in Int
  <2> TAKE s \in SUBSET S
  <2>1. CASE s = {}
    BY <2>1 DEF Body
  <2>2. CASE s # {}
    BY <2>2, ChosenIn DEF Body
  <2> QED
    BY <2>1, <2>2
<1>3. g \in [SUBSET S -> Int]
  BY <1>2
<1>4. UpTo(v, S, g, n + 1)
  <2> SUFFICES ASSUME NEW s \in SUBSET S, Cardinality(s) <= n + 1
               PROVE  g[s] = Body(v, g, s)
    BY DEF UpTo
  <2>1. Body(v, g, s) = Body(v, f, s)
    <3>1. CASE s = {}
      BY <3>1 DEF Body
    <3>2. CASE s # {}
      <4> DEFINE c == CHOOSE x \in s : TRUE
      <4>1. c \in s
        BY <3>2, ChosenIn
      <4>a. Cardinality(s \ {c}) = Cardinality(s) - 1
        BY <1>1, <4>1, FS_RemoveElement
      <4>2. Cardinality(s \ {c}) <= n
        BY <1>1, <4>a
      <4>3. g[s \ {c}] = f[s \ {c}]
        BY <4>2
      <4> HIDE DEF g
      <4> QED
        BY <4>3, <3>2 DEF Body
    <3> QED
      BY <3>1, <3>2
  <2>2. g[s] = Body(v, f, s)
    BY DEF UpTo
  <2> QED
    BY <2>1, <2>2
<1> QED
  BY <1>3, <1>4

LEMMA IterationExists ==
  ASSUME NEW S, IsFiniteSet(S), NEW v, \A x \in S : v[x] \in Int
  PROVE  \E f \in [SUBSET S -> Int] : Iterates(v, S, f)
<1> DEFINE Has(n) == \E f \in [SUBSET S -> Int] : UpTo(v, S, f, n)
           Bad == {n \in Nat : ~Has(n)}
<1>1. \A s \in SUBSET S : IsFiniteSet(s) /\ Cardinality(s) \in Nat /\ Cardinality(s) <= Cardinality(S)
  BY FS_Subset, FS_CardinalityType
<1>2. Has(0)
  <2> DEFINE z == [s \in SUBSET S |-> 0]
  <2>1. UpTo(v, S, z, 0)
    BY <1>1, FS_EmptySet DEF UpTo, Body
  <2>2. z \in [SUBSET S -> Int]
    OBVIOUS
  <2> HIDE DEF z
  <2> QED
    BY <2>1, <2>2
<1>3. \A n \in Nat : Has(n) => Has(n + 1)
  BY IteratesFurther
<1> HIDE DEF Has
<1>4. Bad = {}
  <2> SUFFICES ASSUME Bad # {} PROVE FALSE
    OBVIOUS
  <2>1. PICK n \in Bad : \A k \in Bad : ~(k < n)
    BY LeastOf
  <2>2. n # 0
    BY <2>1, <1>2
  <2>3. n - 1 \in Nat /\ n - 1 \notin Bad
    BY <2>1, <2>2
  <2>4. Has((n - 1) + 1)
    BY <2>3, <1>3
  <2> QED
    BY <2>1, <2>4
<1>5. Has(Cardinality(S))
  BY <1>4, FS_CardinalityType
<1>6. PICK f \in [SUBSET S -> Int] : UpTo(v, S, f, Cardinality(S))
  BY <1>5 DEF Has
<1>7. \A s \in SUBSET S : f[s] = Body(v, f, s)
  BY <1>1, <1>6 DEF UpTo
<1>8. Iterates(v, S, f)
  BY <1>7 DEF Iterates
<1> QED
  BY <1>8

\* f has the sums over the parts of S.
HasSums(v, S, f) == /\ f \in [SUBSET S -> Int] /\ Iterates(v, S, f)
                    /\ \A s \in SUBSET S : SumFunctionOnSet(v, s) = f[s]

LEMMA SumIsIteration ==
  ASSUME NEW S, IsFiniteSet(S), NEW v, \A x \in S : v[x] \in Int
  PROVE  \E f : HasSums(v, S, f)
<1>1. PICK f \in [SUBSET S -> Int] : Iterates(v, S, f)
  BY IterationExists
<1>2. ASSUME NEW s \in SUBSET S
      PROVE  SumFunctionOnSet(v, s) = f[s]
  <2> DEFINE g == CHOOSE g : Iterates(v, s, g)
  <2>1. IsFiniteSet(s) /\ \A x \in s : v[x] \in Int
    BY FS_Subset
  <2>2. Iterates(v, s, g)
    BY <2>1, IterationExists
  <2>3. SumFunctionOnSet(v, s) = g[s]
    BY SumUnfolded
  <2> HIDE DEF g
  <2>4. g[s] = f[s]
    BY <2>1, <2>2, <1>1, IterationsAgree
  <2> QED
    BY <2>3, <2>4
<1>3. HasSums(v, S, f)
  BY <1>1, <1>2 DEF HasSums
<1> QED
  BY <1>3

LEMMA SumType ==
  ASSUME NEW S, IsFiniteSet(S), NEW v, \A x \in S : v[x] \in Int
  PROVE  SumFunctionOnSet(v, S) \in Int
<1>1. PICK f : HasSums(v, S, f)
  BY SumIsIteration
<1>2. S \in SUBSET S
  OBVIOUS
<1> QED
  BY <1>1, <1>2 DEF HasSums

LEMMA SumEmpty ==
  ASSUME NEW v
  PROVE  SumFunctionOnSet(v, {}) = 0
<1>1. IsFiniteSet({}) /\ \A x \in {} : v[x] \in Int
  BY FS_EmptySet
<1>2. PICK f : HasSums(v, {}, f)
  BY <1>1, SumIsIteration
<1> QED
  BY <1>2 DEF HasSums, Iterates, Body

LEMMA SumChosen ==
  ASSUME NEW S, IsFiniteSet(S), S # {}, NEW v, \A x \in S : v[x] \in Int
  PROVE  SumFunctionOnSet(v, S) = v[CHOOSE x \in S : TRUE] + SumFunctionOnSet(v, S \ {CHOOSE x \in S : TRUE})
<1>1. PICK f : HasSums(v, S, f)
  BY SumIsIteration
<1>2. f[S] = Body(v, f, S)
  BY <1>1 DEF Iterates, HasSums
<1>3. (S \ {CHOOSE x \in S : TRUE}) \in SUBSET S
  OBVIOUS
<1>4. f[S] = v[CHOOSE x \in S : TRUE] + f[S \ {CHOOSE x \in S : TRUE}]
  BY <1>2 DEF Body
<1>5. SumFunctionOnSet(v, S) = f[S]
  BY <1>1 DEF HasSums
<1>6. SumFunctionOnSet(v, S \ {CHOOSE x \in S : TRUE}) = f[S \ {CHOOSE x \in S : TRUE}]
  BY <1>1, <1>3 DEF HasSums
<1> QED
  BY <1>4, <1>5, <1>6

\* Whichever element is taken out first.
LEMMA SumRemove ==
  ASSUME NEW S, IsFiniteSet(S), NEW v, \A x \in S : v[x] \in Int, NEW y \in S
  PROVE  SumFunctionOnSet(v, S) = v[y] + SumFunctionOnSet(v, S \ {y})
<1> DEFINE Holds(s) == \A z \in s : SumFunctionOnSet(v, s) = v[z] + SumFunctionOnSet(v, s \ {z})
           Bad == {n \in Nat : \E s \in SUBSET S : Cardinality(s) = n /\ ~Holds(s)}
<1>1. \A s \in SUBSET S : IsFiniteSet(s) /\ Cardinality(s) \in Nat
  BY FS_Subset, FS_CardinalityType
<1>2. Bad = {}
  <2> SUFFICES ASSUME Bad # {} PROVE FALSE
    OBVIOUS
  <2>1. PICK n \in Bad : \A k \in Bad : ~(k < n)
    BY LeastOf
  <2>2. PICK s \in SUBSET S : Cardinality(s) = n /\ ~Holds(s)
    BY <2>1
  <2>3. PICK z \in s : SumFunctionOnSet(v, s) # v[z] + SumFunctionOnSet(v, s \ {z})
    BY <2>2
  <2> DEFINE c == CHOOSE x \in s : TRUE
  <2>4. c \in s
    BY <2>3, ChosenIn
  <2>5. SumFunctionOnSet(v, s) = v[c] + SumFunctionOnSet(v, s \ {c})
    <3>1. IsFiniteSet(s) /\ s # {} /\ \A x \in s : v[x] \in Int
      BY <1>1, <2>3
    <3> QED
      BY <3>1, SumChosen
  <2> HIDE DEF c
  <2>6. c # z
    BY <2>3, <2>5
  <2>7. \A x \in s : Holds(s \ {x})
    <3> TAKE x \in s
    <3>1. Cardinality(s \ {x}) = n - 1 /\ Cardinality(s \ {x}) \in Nat
      BY <1>1, <2>2, FS_RemoveElement
    <3>2. n - 1 \notin Bad
      BY <2>1, <3>1
    <3>3. s \ {x} \in SUBSET S
      OBVIOUS
    <3> HIDE DEF Holds
    <3> QED
      BY <3>1, <3>2, <3>3
  <2>8. SumFunctionOnSet(v, s \ {c}) = v[z] + SumFunctionOnSet(v, (s \ {c}) \ {z})
    BY <2>7, <2>4, <2>6
  <2>9. SumFunctionOnSet(v, s \ {z}) = v[c] + SumFunctionOnSet(v, (s \ {z}) \ {c})
    BY <2>7, <2>4, <2>6
  <2>10. (s \ {c}) \ {z} = (s \ {z}) \ {c}
    OBVIOUS
  <2>11. SumFunctionOnSet(v, (s \ {z}) \ {c}) \in Int
    <3>1. (s \ {z}) \ {c} \in SUBSET S
      OBVIOUS
    <3>2. IsFiniteSet((s \ {z}) \ {c}) /\ \A x \in (s \ {z}) \ {c} : v[x] \in Int
      BY <1>1, <3>1
    <3> QED
      BY <3>2, SumType
  <2>12. v[c] \in Int /\ v[z] \in Int
    BY <2>4
  <2>13. SumFunctionOnSet(v, (s \ {c}) \ {z}) = SumFunctionOnSet(v, (s \ {z}) \ {c})
    BY <2>10
  <2> QED
    BY <2>3, <2>5, <2>8, <2>9, <2>13, <2>11, <2>12
<1>3. Cardinality(S) \notin Bad
  BY <1>2
<1>4. Holds(S)
  BY <1>1, <1>3
<1> QED
  BY <1>4

\* Equal summands.
LEMMA SumSame ==
  ASSUME NEW S, IsFiniteSet(S), NEW v, NEW w, \A x \in S : v[x] \in Int, \A x \in S : v[x] = w[x]
  PROVE  SumFunctionOnSet(w, S) = SumFunctionOnSet(v, S)
<1>1. \A x \in S : w[x] \in Int
  OBVIOUS
<1>2. PICK f : HasSums(v, S, f)
  BY SumIsIteration
<1>3. PICK g : HasSums(w, S, g)
  BY <1>1, SumIsIteration
<1>4. f[S] = g[S]
  BY <1>2, <1>3, IterationsAgree DEF HasSums
<1> QED
  BY <1>2, <1>3, <1>4 DEF HasSums

\* One summand changes.
LEMMA SumChanged ==
  ASSUME NEW S, IsFiniteSet(S), NEW y \in S,
         NEW v, \A x \in S : v[x] \in Int,
         NEW w, w[y] \in Int, \A x \in S \ {y} : w[x] = v[x]
  PROVE  SumFunctionOnSet(w, S) = (SumFunctionOnSet(v, S) - v[y]) + w[y]
<1>1. \A x \in S : w[x] \in Int
  OBVIOUS
<1>2. SumFunctionOnSet(w, S) = w[y] + SumFunctionOnSet(w, S \ {y})
  BY <1>1, SumRemove
<1>3. SumFunctionOnSet(v, S) = v[y] + SumFunctionOnSet(v, S \ {y})
  BY SumRemove
<1>4. IsFiniteSet(S \ {y}) /\ (\A x \in S \ {y} : v[x] \in Int) /\ (\A x \in S \ {y} : v[x] = w[x])
  BY FS_RemoveElement
<1>5. SumFunctionOnSet(w, S \ {y}) = SumFunctionOnSet(v, S \ {y}) /\ SumFunctionOnSet(v, S \ {y}) \in Int
  BY <1>4, SumSame, SumType
<1> QED
  BY <1>1, <1>2, <1>3, <1>5

LEMMA SumZero ==
  ASSUME NEW S, IsFiniteSet(S), NEW v, \A x \in S : v[x] = 0
  PROVE  SumFunctionOnSet(v, S) = 0
<1> DEFINE Bad == {n \in Nat : \E s \in SUBSET S : Cardinality(s) = n /\ SumFunctionOnSet(v, s) # 0}
<1>1. \A s \in SUBSET S : IsFiniteSet(s) /\ Cardinality(s) \in Nat
  BY FS_Subset, FS_CardinalityType
<1>2. Bad = {}
  <2> SUFFICES ASSUME Bad # {} PROVE FALSE
    OBVIOUS
  <2>1. PICK n \in Bad : \A k \in Bad : ~(k < n)
    BY LeastOf
  <2>2. PICK s \in SUBSET S : Cardinality(s) = n /\ SumFunctionOnSet(v, s) # 0
    BY <2>1
  <2>3. s # {}
    BY <2>2, SumEmpty
  <2>4. PICK c \in s : TRUE
    BY <2>3
  <2>5. SumFunctionOnSet(v, s) = v[c] + SumFunctionOnSet(v, s \ {c})
    <3>1. IsFiniteSet(s) /\ \A x \in s : v[x] \in Int
      BY <1>1
    <3> QED
      BY <3>1, SumRemove
  <2>6. Cardinality(s \ {c}) = n - 1 /\ Cardinality(s \ {c}) \in Nat
    BY <1>1, <2>2, FS_RemoveElement
  <2>7. n - 1 \notin Bad
    BY <2>1, <2>6
  <2>8. SumFunctionOnSet(v, s \ {c}) = 0
    BY <2>6, <2>7
  <2> QED
    BY <2>2, <2>5, <2>8
<1> QED
  BY <1>1, <1>2

\* The sum over two sets that share nothing.
LEMMA SumDisjoint ==
  ASSUME NEW S, IsFiniteSet(S), NEW T, IsFiniteSet(T), S \cap T = {},
         NEW v, \A x \in S \cup T : v[x] \in Int
  PROVE  SumFunctionOnSet(v, S \cup T) = SumFunctionOnSet(v, S) + SumFunctionOnSet(v, T)
<1> DEFINE Splits(t) == SumFunctionOnSet(v, S \cup t) = SumFunctionOnSet(v, S) + SumFunctionOnSet(v, t)
           Bad == {n \in Nat : \E t \in SUBSET T : Cardinality(t) = n /\ ~Splits(t)}
<1>1. \A t \in SUBSET T : /\ IsFiniteSet(t) /\ Cardinality(t) \in Nat /\ IsFiniteSet(S \cup t)
                          /\ \A x \in S \cup t : v[x] \in Int
  BY FS_Subset, FS_CardinalityType, FS_Union
<1>0. SumFunctionOnSet(v, S) \in Int
  BY SumType
<1>2. Bad = {}
  <2> SUFFICES ASSUME Bad # {} PROVE FALSE
    OBVIOUS
  <2>1. PICK n \in Bad : \A k \in Bad : ~(k < n)
    BY LeastOf
  <2>2. PICK t \in SUBSET T : Cardinality(t) = n /\ ~Splits(t)
    BY <2>1
  <2>3. t # {}
    <3> SUFFICES ASSUME t = {} PROVE FALSE
      OBVIOUS
    <3>1. S \cup t = S
      OBVIOUS
    <3> QED
      BY <3>1, <2>2, SumEmpty, <1>0
  <2>4. PICK c \in t : TRUE
    BY <2>3
  <2>5. SumFunctionOnSet(v, t) = v[c] + SumFunctionOnSet(v, t \ {c})
    <3>1. IsFiniteSet(t) /\ \A x \in t : v[x] \in Int
      BY <1>1
    <3> QED
      BY <3>1, SumRemove
  <2>6. SumFunctionOnSet(v, S \cup t) = v[c] + SumFunctionOnSet(v, S \cup (t \ {c}))
    <3>1. (S \cup t) \ {c} = S \cup (t \ {c})
      OBVIOUS
    <3>2. IsFiniteSet(S \cup t) /\ (\A x \in S \cup t : v[x] \in Int) /\ c \in S \cup t
      BY <1>1
    <3>3. SumFunctionOnSet(v, S \cup t) = v[c] + SumFunctionOnSet(v, (S \cup t) \ {c})
      BY <3>2, SumRemove
    <3> QED
      BY <3>1, <3>3
  <2>7. Cardinality(t \ {c}) = n - 1 /\ Cardinality(t \ {c}) \in Nat
    BY <1>1, <2>2, FS_RemoveElement
  <2>8. n - 1 \notin Bad
    <3>1. n \in Nat /\ n - 1 < n
      OBVIOUS
    <3> HIDE DEF Bad
    <3> QED
      BY <2>1, <3>1
  <2>9. Splits(t \ {c})
    <3>1. t \ {c} \in SUBSET T
      OBVIOUS
    <3> HIDE DEF Splits
    <3> QED
      BY <2>7, <2>8, <3>1
  <2>10. v[c] \in Int
    OBVIOUS
  <2>11. SumFunctionOnSet(v, t \ {c}) \in Int
    <3>1. IsFiniteSet(t \ {c}) /\ \A x \in t \ {c} : v[x] \in Int
      BY <1>1, FS_RemoveElement
    <3> QED
      BY <3>1, SumType
  <2> QED
    BY <2>2, <2>5, <2>6, <2>9, <2>10, <2>11, <1>0
<1>3. Cardinality(T) \notin Bad /\ T \in SUBSET T
  BY <1>2
<1> HIDE DEF Splits
<1>4. Splits(T)
  BY <1>1, <1>3
<1> QED
  BY <1>4 DEF Splits

\* The sum of the sums of the parts that g makes of a set.
Values(g, S) == {g[x] : x \in S}
PartOf(g, S, d) == {x \in S : g[x] = d}

LEMMA SumByParts ==
  ASSUME NEW S, IsFiniteSet(S), NEW v, \A x \in S : v[x] \in Int, NEW g, NEW w,
         \A d \in Values(g, S) : w[d] = SumFunctionOnSet(v, PartOf(g, S, d))
  PROVE  SumFunctionOnSet(w, Values(g, S)) = SumFunctionOnSet(v, S)
<1> USE DEF Values, PartOf
<1> DEFINE D == Values(g, S)
           Part(d) == PartOf(g, S, d)
           Parts(T) == {x \in S : g[x] \in T}
           Adds(T) == SumFunctionOnSet(w, T) = SumFunctionOnSet(v, Parts(T))
           Bad == {n \in Nat : \E T \in SUBSET D : Cardinality(T) = n /\ ~Adds(T)}
<1>1. IsFiniteSet(D)
  <2>1. [x \in S |-> g[x]] \in Surjection(S, D)
    BY DEF Surjection
  <2> QED BY <2>1, FS_Surjection
<1>2. \A T \in SUBSET D : IsFiniteSet(T) /\ Cardinality(T) \in Nat
  BY <1>1, FS_Subset, FS_CardinalityType
<1>3. \A X \in SUBSET S : IsFiniteSet(X) /\ (\A x \in X : v[x] \in Int) /\ SumFunctionOnSet(v, X) \in Int
  <2> TAKE X \in SUBSET S
  <2>1. IsFiniteSet(X) /\ \A x \in X : v[x] \in Int
    BY FS_Subset
  <2> QED BY <2>1, SumType
<1>4. \A d \in D : w[d] = SumFunctionOnSet(v, Part(d)) /\ w[d] \in Int
  <2> TAKE d \in D
  <2>1. Part(d) \in SUBSET S
    OBVIOUS
  <2>2. w[d] = SumFunctionOnSet(v, Part(d))
    OBVIOUS
  <2> HIDE DEF Part
  <2> QED BY <1>3, <2>1, <2>2
<1>5. Bad = {}
  <2> SUFFICES ASSUME Bad # {} PROVE FALSE
    OBVIOUS
  <2>1. PICK n \in Bad : \A k \in Bad : ~(k < n)
    BY LeastOf
  <2>2. PICK T \in SUBSET D : Cardinality(T) = n /\ ~Adds(T)
    BY <2>1
  <2>3. T # {}
    <3> SUFFICES ASSUME T = {} PROVE FALSE
      OBVIOUS
    <3>1. Parts(T) = {}
      OBVIOUS
    <3> HIDE DEF Parts
    <3> QED BY <3>1, <2>2, SumEmpty
  <2>4. PICK d \in T : TRUE
    BY <2>3
  <2> DEFINE U == T \ {d}
  <2>5. SumFunctionOnSet(w, T) = w[d] + SumFunctionOnSet(w, U)
    <3>1. IsFiniteSet(T) /\ d \in T /\ \A e \in T : w[e] \in Int
      BY <1>2, <1>4
    <3> HIDE DEF D
    <3> QED BY <3>1, SumRemove
  <2>6. Adds(U)
    <3>1. Cardinality(U) = n - 1 /\ Cardinality(U) \in Nat
      BY <1>2, <2>2, FS_RemoveElement
    <3>2. n - 1 \notin Bad
      <4>1. n \in Nat /\ n - 1 < n
        OBVIOUS
      <4> HIDE DEF Bad
      <4> QED BY <2>1, <4>1
    <3>3. U \in SUBSET D
      OBVIOUS
    <3> HIDE DEF Adds, U
    <3> QED BY <3>1, <3>2, <3>3
  <2>7. SumFunctionOnSet(v, Parts(T)) = SumFunctionOnSet(v, Part(d)) + SumFunctionOnSet(v, Parts(U))
    <3>1. Part(d) \cup Parts(U) = Parts(T) /\ Part(d) \cap Parts(U) = {}
      OBVIOUS
    <3>2. Part(d) \in SUBSET S /\ Parts(U) \in SUBSET S /\ Parts(T) \in SUBSET S
      OBVIOUS
    <3> HIDE DEF Part, Parts, U
    <3>3. IsFiniteSet(Part(d)) /\ IsFiniteSet(Parts(U)) /\ \A x \in Part(d) \cup Parts(U) : v[x] \in Int
      BY <1>3, <3>1, <3>2
    <3>4. SumFunctionOnSet(v, Part(d) \cup Parts(U)) = SumFunctionOnSet(v, Part(d)) + SumFunctionOnSet(v, Parts(U))
      BY <3>1, <3>3, SumDisjoint
    <3> QED BY <3>1, <3>4
  <2>8. w[d] = SumFunctionOnSet(v, Part(d))
    BY <1>4
  <2>9. SumFunctionOnSet(w, U) = SumFunctionOnSet(v, Parts(U))
    BY <2>6
  <2>10. SumFunctionOnSet(w, T) # SumFunctionOnSet(v, Parts(T))
    BY <2>2
  <2> HIDE DEF Part, Parts, U
  <2> QED BY <2>5, <2>7, <2>8, <2>9, <2>10
<1>6. Parts(D) = S
  OBVIOUS
<1>7. D \in SUBSET D /\ Cardinality(D) \notin Bad
  BY <1>5
<1> HIDE DEF D, Parts
<1>8. Adds(D)
  BY <1>2, <1>7
<1> QED BY <1>6, <1>8 DEF D

---------------------------------------------------------------------------
(* Ordering: what a session and a cart are *)

States == Dialogue \cup {"MAIN_MENU", "WELCOME"}

\* The options of the menu m, as they are picked.
OptionsIn(m) ==
  UNION {UNION {{Picked(g, o) : o \in ToSet(g.options)} : g \in ToSet(m.items[i].groups)} : i \in DOMAIN m.items}
Offered == UNION {OptionsIn(m) : m \in Menus}
BasePrices == UNION {{m.items[i].price : i \in DOMAIN m.items} : m \in Menus}
Prices == {p + Extras(options) : p \in BasePrices, options \in SUBSET Offered}
Lines == [item: Items, options: SUBSET Offered, units: Nat, price: Prices, fresh: BOOLEAN]

\* No two lines of a cart have the same item and options.
LinesDiffer(cart) == \A n, k \in DOMAIN cart : Line(cart[n]) = Line(cart[k]) => n = k

\* Whatever lists and ids it keeps, a session has these fields.
IsSession(s) ==
  /\ s \in [state : States, step : {s.step}, categories : {s.categories}, items : {s.items},
            category : {s.category}, item : {s.item}, quantity : Nat, group : Nat,
            options : SUBSET Offered, fresh : BOOLEAN, line : {s.line}, cart : Seq(Lines)]
  /\ s.group # 0
  /\ LinesDiffer(s.cart)

---------------------------------------------------------------------------
(* what may be ordered *)

\* What was picked is sold in the group of its name, one of the first k.
PickedIn(groups, k, options) ==
  \A c \in options : \E g \in 1..k :
    groups[g].name = c.group /\ \E o \in ToSet(groups[g].options) : o.sold /\ Picked(groups[g], o) = c

\* Each group before the present one has what it requires, none too many.
PickedSoFar(s) ==
  LET groups == GroupsOf(s.item)
  IN /\ PickedIn(groups, s.group, s.options)
     /\ \A g \in 1..s.group : Cardinality(OfGroup(s.options, groups[g])) <= groups[g].max
     /\ \A g \in 1..(s.group - 1) : Cardinality(OfGroup(s.options, groups[g])) >= groups[g].min

\* The options of a selection; that names differ is what keeps the groups apart.
Choosing(s) ==
  /\ s.group \in DOMAIN GroupsOf(s.item)
  /\ IsFiniteSet(s.options)
  /\ WellNamed(s.item) => PickedSoFar(s)

\* While nobody edited the menu since the item was chosen.
FreshSelection(s) ==
  s.fresh => Available(s.item) /\ (s.state = "SELECTING_OPTIONS" => Choosing(s))

\* What CreateOrder reads of the menu is what the line says; where names differ.
PricedNow(line) ==
  WellNamed(line.item) =>
    /\ line.price \in Int
    /\ line.price = menu.items[line.item].price + Extras(line.options)
    /\ Meant(line.item, line.options) = line.options
AsShown(line) == Acceptable(line) /\ PricedNow(line)
FreshLines(s) == \A n \in DOMAIN s.cart : s.cart[n].fresh => AsShown(s.cart[n])

GoodSession(s) == IsSession(s) /\ FreshSelection(s) /\ FreshLines(s)

---------------------------------------------------------------------------
(* what an answer means *)

Answerable(s, p) ==
  s.state \in Dialogue /\ p.kind # "emptied" /\ (s.state = "SELECTING_OPTIONS" => s.fresh) => p = Meaning(s)

OrderingInv == menu \in Menus /\ GoodSession(sess) /\ Answerable(sess, prompt)

\* What every handler leaves behind while the menu stays.
Led == GoodSession(sess') /\ Answerable(sess', prompt')

---------------------------------------------------------------------------
(* sessions *)

LEMMA ListFacts ==
  ASSUME NEW s, IsList(s)
  PROVE  /\ Len(s) \in Nat /\ DOMAIN s = 1..Len(s) /\ (s # <<>> => Len(s) # 0)
         /\ IsFiniteSet(ToSet(s))
<1>1. Len(s) \in Nat /\ DOMAIN s = 1..Len(s) /\ (s # <<>> => Len(s) # 0)
  <2> DEFINE S == ToSet(s)
  <2>1. s \in Seq(S)
    BY DEF IsList
  <2> HIDE DEF S
  <2> QED BY <2>1
<1>2. IsFiniteSet(DOMAIN s)
  BY <1>1, FS_Interval
<1>3. s \in Surjection(DOMAIN s, ToSet(s))
  <2>1. s \in [DOMAIN s -> ToSet(s)]
    <3>1. \A n \in DOMAIN s : s[n] \in ToSet(s)
      BY DEF ToSet
    <3>2. s = [n \in DOMAIN s |-> s[n]]
      <4> DEFINE S == ToSet(s)
      <4>1. s \in Seq(S)
        BY DEF IsList
      <4> HIDE DEF S
      <4> QED BY <4>1
    <3> QED BY <3>1, <3>2
  <2> QED BY <2>1 DEF Surjection, ToSet
<1> QED BY <1>1, <1>2, <1>3, FS_Surjection

LEMMA MenuFacts ==
  ASSUME menu \in Menus, NEW i, Exists(i)
  PROVE  /\ i \in Items /\ i # NoItem
         /\ IsList(GroupsOf(i))
         /\ \A g \in DOMAIN GroupsOf(i) :
              /\ GroupsOf(i)[g].min \in Nat /\ GroupsOf(i)[g].max \in Nat
              /\ GroupsOf(i)[g].min <= GroupsOf(i)[g].max
              /\ IsList(GroupsOf(i)[g].options)
BY MenusAssumption, NothingAssumption DEF Exists, GroupsOf

\* A session that differs from s in what is neither selected nor in the cart.
LEMMA SameSelection ==
  ASSUME NEW s, GoodSession(s), NEW t, IsSession(t),
         t.item = s.item, t.group = s.group, t.options = s.options, t.fresh = s.fresh, t.cart = s.cart,
         t.state = "SELECTING_OPTIONS" => s.state = "SELECTING_OPTIONS"
  PROVE  GoodSession(t)
<1>1. Choosing(s) => Choosing(t)
  BY DEF Choosing, PickedSoFar
<1> QED BY <1>1 DEF GoodSession, FreshSelection, FreshLines

LEMMA NewSession ==
  /\ GoodSession(NoSession) /\ NoSession.state = "MAIN_MENU" /\ NoSession.cart = <<>>
  /\ NoSession.step = "none" /\ NoSession.category = NoCategory /\ NoSession.item = NoItem
<1>2. <<>> \in Seq(Lines) /\ DOMAIN <<>> = {}
  OBVIOUS
<1>3. LinesDiffer(<<>>) /\ \A s : s.cart = <<>> => FreshLines(s)
  BY <1>2 DEF LinesDiffer, FreshLines
<1>4. "MAIN_MENU" \in States
  BY DEF States
<1>5. IsSession(NoSession)
  BY <1>2, <1>3, <1>4 DEF IsSession, NoSession
<1>6. FreshSelection(NoSession)
  BY DEF FreshSelection, NoSession
<1>7. FreshLines(NoSession)
  BY <1>3 DEF NoSession
<1> QED BY <1>5, <1>6, <1>7 DEF GoodSession, NoSession

LEMMA UnselectedFacts ==
  ASSUME NEW s, IsSession(s), FreshLines(s)
  PROVE  /\ GoodSession(Unselected(s)) /\ Unselected(s).state = s.state /\ Unselected(s).cart = s.cart
         /\ Unselected(s).step = "none" /\ Unselected(s).category = NoCategory /\ ~Unselected(s).fresh
<1>1. /\ Unselected(s).state = s.state /\ Unselected(s).cart = s.cart /\ ~Unselected(s).fresh
      /\ Unselected(s).step = "none" /\ Unselected(s).category = NoCategory /\ IsSession(Unselected(s))
  <2>1. IsSession(NoSession)
    BY NewSession DEF GoodSession
  <2>2. s.state \in States /\ s.cart \in Seq(Lines) /\ LinesDiffer(s.cart)
    BY DEF IsSession
  <2>3. IsSession(Unselected(s)) /\ Unselected(s).state = s.state /\ Unselected(s).cart = s.cart
    BY <2>1, <2>2 DEF IsSession, Unselected
  <2> QED BY <2>3 DEF Unselected, NoSession
<1>4. FreshLines(Unselected(s)) /\ FreshSelection(Unselected(s))
  BY <1>1 DEF FreshLines, FreshSelection
<1> QED BY <1>1, <1>4 DEF GoodSession

LEMMA ShowsLed ==
  ASSUME NEW s, NEW p, GoodSession(s), Answerable(s, p), Shows(s, p)
  PROVE  Led
BY DEF Shows, Led

LEMMA AtMenu ==
  ASSUME NEW s, GoodSession(s), NEW x \in {"MAIN_MENU", "WELCOME"}, NEW kind, Tells([s EXCEPT !.state = x], kind)
  PROVE  Led
<1> DEFINE t == [s EXCEPT !.state = x]
<1>1. /\ IsSession(t) /\ t.state = x /\ t.item = s.item /\ t.group = s.group /\ t.options = s.options
      /\ t.fresh = s.fresh /\ t.cart = s.cart
  BY DEF GoodSession, IsSession, States
<1> HIDE DEF t
<1>2. GoodSession(t)
  BY <1>1, SameSelection
<1>3. Answerable(t, [kind |-> kind])
  BY <1>1 DEF Answerable, Dialogue
<1> QED BY <1>2, <1>3, ShowsLed DEF Tells, t

LEMMA ShowAllItemsLed ==
  ASSUME NEW s, GoodSession(s), ShowAllItems(s)
  PROVE  Led
<1>1. CASE AllItems = <<>>
  BY <1>1, AtMenu DEF ShowAllItems
<1>2. CASE AllItems # <<>>
  <2> DEFINE t == [s EXCEPT !.state = "ORDERING", !.step = "item", !.items = AllItems]
  <2>1. /\ IsSession(t) /\ t.state = "ORDERING" /\ t.step = "item" /\ t.items = AllItems
        /\ t.item = s.item /\ t.group = s.group /\ t.options = s.options /\ t.fresh = s.fresh /\ t.cart = s.cart
    BY DEF GoodSession, IsSession, States, Dialogue
  <2>2. Shows(t, ItemList(AllItems))
    BY <1>2 DEF ShowAllItems
  <2> HIDE DEF t
  <2>3. GoodSession(t)
    BY <2>1, SameSelection
  <2>4. Meaning(t) = ItemList(AllItems)
    BY <2>1 DEF Meaning
  <2> QED BY <2>2, <2>3, <2>4, ShowsLed DEF Answerable
<1> QED BY <1>1, <1>2

\* Any session that is shown outside of the groups of options.
LEMMA Elsewhere ==
  ASSUME NEW s, GoodSession(s), NEW t, IsSession(t),
         t.item = s.item, t.group = s.group, t.options = s.options, t.fresh = s.fresh, t.cart = s.cart,
         t.state # "SELECTING_OPTIONS",
         NEW p, Shows(t, p), t.state \in Dialogue /\ p.kind # "emptied" => p = Meaning(t)
  PROVE  Led
<1>1. GoodSession(t)
  BY SameSelection
<1> QED BY <1>1, ShowsLed DEF Answerable

LEMMA StartLed ==
  ASSUME NEW s, GoodSession(s), StartOrdering(s)
  PROVE  Led
<1> DEFINE u == Unselected(s)
           t == [u EXCEPT !.state = "ORDERING", !.step = "category", !.categories = menu.categories]
<1>1. GoodSession(u)
  BY UnselectedFacts DEF GoodSession
<1>2. /\ IsSession(t) /\ t.state = "ORDERING" /\ t.step = "category" /\ t.categories = menu.categories
      /\ t.item = u.item /\ t.group = u.group /\ t.options = u.options /\ t.fresh = u.fresh /\ t.cart = u.cart
  BY <1>1 DEF GoodSession, IsSession, States, Dialogue
<1>3. CASE ~access
  BY <1>3, AtMenu DEF StartOrdering
<1>4. CASE access /\ menu.categories = <<>>
  <2>1. ShowAllItems(t)
    BY <1>4 DEF StartOrdering
  <2>2. GoodSession(t)
    BY <1>1, <1>2, SameSelection
  <2> HIDE DEF t
  <2> QED BY <2>1, <2>2, ShowAllItemsLed
<1>5. CASE access /\ menu.categories # <<>>
  <2>1. Shows(t, CategoryList(menu.categories))
    BY <1>5 DEF StartOrdering
  <2> HIDE DEF t, u
  <2>2. Meaning(t) = CategoryList(menu.categories)
    BY <1>2 DEF Meaning
  <2> QED BY <1>1, <1>2, <2>1, <2>2, Elsewhere
<1> QED BY <1>3, <1>4, <1>5

LEMMA CartLed ==
  ASSUME NEW s, GoodSession(s), ShowCart(s)
  PROVE  Led
<1> DEFINE t == [s EXCEPT !.state = "CONFIRMING_ORDER", !.line = NoLine]
<1>1. /\ IsSession(t) /\ t.state = "CONFIRMING_ORDER"
      /\ t.item = s.item /\ t.group = s.group /\ t.options = s.options /\ t.fresh = s.fresh /\ t.cart = s.cart
  BY DEF GoodSession, IsSession, States, Dialogue
<1>2. Shows(t, CartOf(s.cart))
  BY DEF ShowCart
<1> HIDE DEF t
<1>3. Meaning(t) = CartOf(s.cart)
  BY <1>1 DEF Meaning
<1> QED BY <1>1, <1>2, <1>3, Elsewhere

LEMMA QuantityLed ==
  ASSUME NEW s, GoodSession(s), ShowQuantity(s)
  PROVE  Led
<1> DEFINE t == [s EXCEPT !.state = "SELECTING_QTY"]
<1>1. /\ IsSession(t) /\ t.state = "SELECTING_QTY"
      /\ t.item = s.item /\ t.group = s.group /\ t.options = s.options /\ t.fresh = s.fresh /\ t.cart = s.cart
  BY DEF GoodSession, IsSession, States, Dialogue
<1>2. Shows(t, QuantityOf(s.item))
  BY DEF ShowQuantity
<1> HIDE DEF t
<1>3. Meaning(t) = QuantityOf(s.item)
  BY <1>1 DEF Meaning
<1> QED BY <1>1, <1>2, <1>3, Elsewhere

LEMMA GroupLed ==
  ASSUME NEW s, IsSession(s), FreshLines(s), s.fresh => Available(s.item) /\ Choosing(s), ShowGroup(s)
  PROVE  Led
<1> DEFINE t == [s EXCEPT !.state = "SELECTING_OPTIONS"]
<1>1. /\ IsSession(t) /\ t.state = "SELECTING_OPTIONS"
      /\ t.item = s.item /\ t.group = s.group /\ t.options = s.options /\ t.fresh = s.fresh /\ t.cart = s.cart
  BY DEF IsSession, States, Dialogue
<1>2. Shows(t, OptionsOf(s.item, GroupsOf(s.item)[s.group]))
  BY DEF ShowGroup
<1> HIDE DEF t
<1>3. Meaning(t) = OptionsOf(s.item, GroupsOf(s.item)[s.group])
  BY <1>1 DEF Meaning
<1>4. GoodSession(t)
  <2>1. Choosing(s) => Choosing(t)
    BY <1>1 DEF Choosing, PickedSoFar
  <2> QED BY <1>1, <2>1 DEF GoodSession, FreshSelection, FreshLines
<1> QED BY <1>2, <1>3, <1>4, ShowsLed DEF Answerable

LEMMA LinesLed ==
  ASSUME NEW s, GoodSession(s), ShowLines(s)
  PROVE  Led
<1> DEFINE t == [s EXCEPT !.state = "REMOVING_ORDER_ITEM"]
<1>1. /\ IsSession(t) /\ t.state = "REMOVING_ORDER_ITEM"
      /\ t.item = s.item /\ t.group = s.group /\ t.options = s.options /\ t.fresh = s.fresh /\ t.cart = s.cart
  BY DEF GoodSession, IsSession, States, Dialogue
<1>2. Shows(t, LinesOf(s.cart))
  BY DEF ShowLines
<1> HIDE DEF t
<1>3. Meaning(t) = LinesOf(s.cart)
  BY <1>1 DEF Meaning
<1> QED BY <1>1, <1>2, <1>3, Elsewhere

\* A line is found once, so the number of its units is the one that was shown.
LEMMA ActionsLed ==
  ASSUME NEW s, GoodSession(s), NEW n \in Find(s.cart, s.line), ShowActions(s, s.cart[n].units)
  PROVE  Led
<1> DEFINE t == [s EXCEPT !.state = "ADJUSTING_ORDER_ITEM"]
<1>1. /\ IsSession(t) /\ t.state = "ADJUSTING_ORDER_ITEM" /\ t.line = s.line
      /\ t.item = s.item /\ t.group = s.group /\ t.options = s.options /\ t.fresh = s.fresh /\ t.cart = s.cart
  BY DEF GoodSession, IsSession, States, Dialogue
<1>2. Shows(t, ActionsOf(s.line, s.cart[n].units))
  BY DEF ShowActions
<1> HIDE DEF t
<1>3. \A k \in Find(s.cart, s.line) : k = n
  BY DEF Find, GoodSession, IsSession, LinesDiffer
<1>4. Meaning(t) = ActionsOf(s.line, s.cart[n].units)
  <2> DEFINE some == \E k \in Find(s.cart, s.line) : s.cart[k].units > 1
             this == s.cart[n].units > 1
  <2>1. some <=> this
    BY <1>3
  <2>2. Meaning(t) = [kind |-> "actions", line |-> s.line, several |-> some]
    BY <1>1 DEF Meaning
  <2>3. ActionsOf(s.line, s.cart[n].units) = [kind |-> "actions", line |-> s.line, several |-> this]
    BY DEF ActionsOf
  <2>4. some \in BOOLEAN /\ this \in BOOLEAN
    OBVIOUS
  <2> HIDE DEF some, this
  <2>5. some = this
    BY <2>1, <2>4
  <2> QED BY <2>2, <2>3, <2>5
<1> QED BY <1>1, <1>2, <1>4, Elsewhere

LEMMA UnitsLed ==
  ASSUME NEW s, GoodSession(s), ShowUnits(s)
  PROVE  Led
<1> DEFINE t == [s EXCEPT !.state = "SELECTING_CART_ITEM_QTY"]
<1>1. /\ IsSession(t) /\ t.state = "SELECTING_CART_ITEM_QTY" /\ t.line = s.line
      /\ t.item = s.item /\ t.group = s.group /\ t.options = s.options /\ t.fresh = s.fresh /\ t.cart = s.cart
  BY DEF GoodSession, IsSession, States, Dialogue
<1>2. Shows(t, UnitsOf(s.line))
  BY DEF ShowUnits
<1> HIDE DEF t
<1>3. Meaning(t) = UnitsOf(s.line)
  BY <1>1 DEF Meaning
<1> QED BY <1>1, <1>2, <1>3, Elsewhere

LEMMA RepeatItemsLed ==
  ASSUME NEW s, GoodSession(s), s.state = "ORDERING", s.step = "item", RepeatItems(s)
  PROVE  Led
<1> DEFINE items == ItemsOf(s.category)
           t == [s EXCEPT !.items = items]
<1>1. CASE s.category = NoCategory
  BY <1>1, ShowAllItemsLed DEF RepeatItems
<1>2. CASE s.category # NoCategory /\ items = <<>>
  BY <1>2, StartLed DEF RepeatItems
<1>3. CASE s.category # NoCategory /\ items # <<>>
  <2>1. /\ IsSession(t) /\ t.state = "ORDERING" /\ t.step = "item" /\ t.items = items
        /\ t.item = s.item /\ t.group = s.group /\ t.options = s.options /\ t.fresh = s.fresh /\ t.cart = s.cart
    BY DEF GoodSession, IsSession
  <2>2. Shows(t, ItemList(items))
    BY <1>3 DEF RepeatItems
  <2> HIDE DEF t, items
  <2>3. Meaning(t) = ItemList(items)
    BY <2>1 DEF Meaning
  <2> QED BY <2>1, <2>2, <2>3, Elsewhere
<1> QED BY <1>1, <1>2, <1>3

LEMMA RepeatQuantityLed ==
  ASSUME NEW s, GoodSession(s), RepeatQuantity(s)
  PROVE  Led
BY QuantityLed, StartLed DEF RepeatQuantity

\* The group at hand is one of the item's, the one the session has when nobody edited the menu.
LEMMA AtGroupFacts ==
  ASSUME menu \in Menus, NEW s, IsSession(s), Exists(s.item), GroupsOf(s.item) # <<>>,
         s.fresh => Choosing(s)
  PROVE  LET t == AtGroup(s)
         IN  /\ IsSession(t) /\ t.item = s.item /\ t.options = s.options /\ t.fresh = s.fresh /\ t.cart = s.cart
             /\ t.group \in DOMAIN GroupsOf(s.item)
             /\ t.fresh => Choosing(t)
<1> DEFINE t == AtGroup(s)
           groups == GroupsOf(s.item)
<1>1. IsList(groups)
  BY MenuFacts
<1> HIDE DEF groups
<1>2. Len(groups) \in Nat /\ DOMAIN groups = 1..Len(groups) /\ s.group \in Nat /\ s.group # 0
  BY <1>1, ListFacts DEF IsSession
<1>3. Len(groups) # 0
  BY <1>1, ListFacts DEF groups
<1>4. /\ IsSession(t) /\ t.item = s.item /\ t.options = s.options /\ t.fresh = s.fresh /\ t.cart = s.cart
      /\ t.group = IF s.group > Len(groups) THEN 1 ELSE s.group
  BY DEF AtGroup, IsSession, groups
<1> HIDE DEF t
<1>5. t.group \in DOMAIN groups
  BY <1>2, <1>3, <1>4
<1>6. s.fresh => t.group = s.group
  BY <1>2, <1>4 DEF Choosing, groups
<1>7. s.fresh => Choosing(t)
  BY <1>4, <1>6 DEF Choosing, PickedSoFar
<1> QED BY <1>4, <1>5, <1>7 DEF groups, t

LEMMA RepeatOptionsLed ==
  ASSUME menu \in Menus, NEW s, GoodSession(s), s.state = "SELECTING_OPTIONS", RepeatOptions(s)
  PROVE  Led
<1>1. CASE ~Exists(s.item)
  BY <1>1, StartLed DEF RepeatOptions
<1>2. CASE Exists(s.item) /\ GroupsOf(s.item) = <<>>
  BY <1>2, RepeatQuantityLed DEF RepeatOptions
<1>3. CASE Exists(s.item) /\ GroupsOf(s.item) # <<>>
  <2> DEFINE t == AtGroup(s)
  <2>1. IsSession(s) /\ FreshLines(s) /\ (s.fresh => Available(s.item) /\ Choosing(s))
    BY DEF GoodSession, FreshSelection
  <2>2. /\ IsSession(t) /\ t.item = s.item /\ t.fresh = s.fresh /\ t.cart = s.cart
        /\ t.fresh => Choosing(t)
    BY <1>3, <2>1, AtGroupFacts
  <2>3. ShowGroup(t)
    BY <1>3 DEF RepeatOptions
  <2> HIDE DEF t
  <2>4. FreshLines(t) /\ (t.fresh => Available(t.item) /\ Choosing(t))
    BY <2>1, <2>2 DEF FreshLines
  <2> QED BY <2>2, <2>3, <2>4, GroupLed
<1> QED BY <1>1, <1>2, <1>3

LEMMA RepeatLinesLed ==
  ASSUME NEW s, GoodSession(s), RepeatLines(s)
  PROVE  Led
BY StartLed, LinesLed DEF RepeatLines

LEMMA RepeatAdjustmentLed ==
  ASSUME NEW s, GoodSession(s), RepeatAdjustment(s)
  PROVE  Led
BY RepeatLinesLed, ActionsLed DEF RepeatAdjustment

\* The question of the present state again.
LEMMA RepeatLed ==
  ASSUME menu \in Menus, NEW s, GoodSession(s), Repeat(s)
  PROVE  Led
<1>1. CASE s.state = "ORDERING" /\ s.step = "item"
  BY <1>1, RepeatItemsLed DEF Repeat
<1>2. CASE s.state = "ORDERING" /\ s.step # "item"
  BY <1>2, StartLed DEF Repeat
<1>3. CASE s.state = "SELECTING_QTY"
  BY <1>3, RepeatQuantityLed DEF Repeat
<1>4. CASE s.state = "SELECTING_OPTIONS"
  BY <1>4, RepeatOptionsLed DEF Repeat
<1>5. CASE s.state = "CONFIRMING_ORDER"
  BY <1>5, StartLed, CartLed DEF Repeat, RepeatCart
<1>6. CASE s.state = "REMOVING_ORDER_ITEM"
  BY <1>6, RepeatLinesLed DEF Repeat
<1>7. CASE s.state = "ADJUSTING_ORDER_ITEM"
  BY <1>7, RepeatAdjustmentLed DEF Repeat
<1>8. CASE s.state = "SELECTING_CART_ITEM_QTY"
  BY <1>8, RepeatAdjustmentLed, UnitsLed DEF Repeat, RepeatUnits
<1>9. CASE s.state \notin Dialogue
  <2>1. Tells([s EXCEPT !.state = "MAIN_MENU"], "menu")
    BY <1>9 DEF Repeat, Dialogue
  <2> QED BY <2>1, AtMenu
<1> QED BY <1>1, <1>2, <1>3, <1>4, <1>5, <1>6, <1>7, <1>8, <1>9 DEF Dialogue

LEMMA OpenCategoryLed ==
  ASSUME NEW s, GoodSession(s), NEW c, OpenCategory(s, c)
  PROVE  Led
<1> DEFINE items == ItemsOf(c)
           t == [s EXCEPT !.state = "ORDERING"]
           u == [s EXCEPT !.state = "ORDERING", !.step = "item", !.category = c, !.items = items]
<1>1. CASE items = <<>>
  <2> DEFINE p == IF s.step = "category" THEN CategoryList(s.categories) ELSE [kind |-> "emptied"]
  <2>1. /\ IsSession(t) /\ t.state = "ORDERING" /\ t.step = s.step /\ t.categories = s.categories
        /\ t.item = s.item /\ t.group = s.group /\ t.options = s.options /\ t.fresh = s.fresh /\ t.cart = s.cart
    BY DEF GoodSession, IsSession, States, Dialogue
  <2>2. Shows(t, p)
    BY <1>1 DEF OpenCategory
  <2> HIDE DEF t
  <2>3. p.kind # "emptied" => p = Meaning(t)
    BY <2>1 DEF Meaning
  <2> HIDE DEF p
  <2> QED BY <2>1, <2>2, <2>3, Elsewhere
<1>2. CASE items # <<>>
  <2>1. /\ IsSession(u) /\ u.state = "ORDERING" /\ u.step = "item" /\ u.items = items
        /\ u.item = s.item /\ u.group = s.group /\ u.options = s.options /\ u.fresh = s.fresh /\ u.cart = s.cart
    BY DEF GoodSession, IsSession, States, Dialogue
  <2>2. Shows(u, ItemList(items))
    BY <1>2 DEF OpenCategory
  <2> HIDE DEF u, items
  <2>3. Meaning(u) = ItemList(items)
    BY <2>1 DEF Meaning
  <2> QED BY <2>1, <2>2, <2>3, Elsewhere
<1> QED BY <1>1, <1>2

LEMMA ChangeItemLed ==
  ASSUME NEW s, GoodSession(s), ChangeItem(s)
  PROVE  Led
BY OpenCategoryLed, StartLed DEF ChangeItem

---------------------------------------------------------------------------
(* the cart *)

\* A list of as many others.
LEMMA AsMany ==
  ASSUME NEW S, NEW T, NEW list \in Seq(S), NEW other \in [DOMAIN list -> T]
  PROVE  other \in Seq(T) /\ Len(other) = Len(list) /\ DOMAIN other = DOMAIN list
<1>1. DOMAIN list = 1..Len(list) /\ Len(list) \in Nat
  OBVIOUS
<1>2. other \in [1..Len(list) -> T]
  BY <1>1
<1>3. other \in Seq(T)
  BY <1>1, <1>2, SeqDef
<1> QED BY <1>1, <1>2, <1>3

\* Another cart, while nothing is selected in the state.
LEMMA OtherCart ==
  ASSUME NEW s, GoodSession(s), NEW cart \in Seq(Lines), LinesDiffer(cart),
         \A n \in DOMAIN cart : cart[n].fresh => AsShown(cart[n])
  PROVE  GoodSession([s EXCEPT !.cart = cart])
<1> DEFINE t == [s EXCEPT !.cart = cart]
<1>1. /\ IsSession(t) /\ t.state = s.state /\ t.item = s.item /\ t.group = s.group /\ t.options = s.options
      /\ t.fresh = s.fresh /\ t.cart = cart
  BY DEF GoodSession, IsSession
<1> HIDE DEF t
<1>2. Choosing(s) => Choosing(t)
  BY <1>1 DEF Choosing, PickedSoFar
<1>3. GoodSession(t)
  BY <1>1, <1>2 DEF GoodSession, FreshSelection, FreshLines
<1> QED BY <1>3 DEF t

\* A line of a fresh selection can be ordered.
Complete(s) ==
  /\ Exists(s.item)
  /\ s.fresh => Available(s.item)
  /\ s.fresh /\ WellNamed(s.item) =>
       ValidOptions(s.item, s.options) /\ IsFiniteSet(s.options) /\ Meant(s.item, s.options) = s.options

LEMMA ExtrasInt ==
  ASSUME NEW options \in SUBSET Offered, IsFiniteSet(options)
  PROVE  Extras(options) \in Int
<1> DEFINE v == [o \in options |-> o.delta]
<1>1. \A o \in options : v[o] \in Int
  <2> TAKE o \in options
  <2>1. PICK m \in Menus : o \in OptionsIn(m)
    BY DEF Offered
  <2>2. PICK i \in DOMAIN m.items : \E g \in ToSet(m.items[i].groups) : \E q \in ToSet(g.options) : o = Picked(g, q)
    BY <2>1 DEF OptionsIn
  <2>3. PICK g \in DOMAIN m.items[i].groups : \E q \in ToSet(m.items[i].groups[g].options) :
                                                o = Picked(m.items[i].groups[g], q)
    BY <2>2 DEF ToSet
  <2>4. PICK q \in ToSet(m.items[i].groups[g].options) : o = Picked(m.items[i].groups[g], q)
    BY <2>3
  <2>5. q.delta \in Int
    BY <2>2, <2>3, <2>4, MenusAssumption
  <2>6. o.delta = q.delta
    BY <2>4 DEF Picked
  <2> QED BY <2>5, <2>6
<1>2. DOMAIN v = options
  OBVIOUS
<1>3. Extras(options) = SumFunctionOnSet(v, options)
  BY <1>2 DEF Extras, SumFunction
<1> HIDE DEF v
<1> QED BY <1>1, <1>3, SumType

LEMMA LinePrice ==
  ASSUME menu \in Menus, NEW i, Exists(i), NEW options \in SUBSET Offered
  PROVE  LET price == menu.items[i].price + Extras(options)
         IN  i \in Items /\ price \in Prices /\ (IsFiniteSet(options) => price \in Int)
<1>1. menu.items[i].price \in BasePrices
  BY DEF Exists, BasePrices
<1> DEFINE p == menu.items[i].price
<1> HIDE DEF p
<1>2. p \in BasePrices => p + Extras(options) \in Prices
  BY DEF Prices
<1>3. IsFiniteSet(options) => Extras(options) \in Int
  BY ExtrasInt
<1>4. p \in Int
  BY MenusAssumption DEF p, Exists
<1> QED BY <1>1, <1>2, <1>3, <1>4, MenuFacts DEF p

LEMMA AddedFacts ==
  ASSUME NEW s, IsSession(s), FreshLines(s), Complete(s), s.item \in Items, NEW price \in Prices,
         price = menu.items[s.item].price + Extras(s.options), IsFiniteSet(s.options) => price \in Int
  PROVE  LET cart == Added(s, price)
         IN  /\ cart \in Seq(Lines) /\ LinesDiffer(cart)
             /\ \A n \in DOMAIN cart : cart[n].fresh => AsShown(cart[n])
<1> DEFINE there == Find(s.cart, [item |-> s.item, options |-> s.options])
           row(n) == [s.cart[n] EXCEPT !.units = @ + s.quantity, !.fresh = @ /\ s.fresh]
           kept == [n \in DOMAIN s.cart |-> IF n \in there THEN row(n) ELSE s.cart[n]]
           line == [item |-> s.item, options |-> s.options, units |-> s.quantity,
                    price |-> price, fresh |-> s.fresh]
<1>0. /\ s.cart \in Seq(Lines) /\ LinesDiffer(s.cart) /\ s.quantity \in Nat /\ s.options \in SUBSET Offered
      /\ s.fresh \in BOOLEAN
  BY DEF IsSession
<1>1. ASSUME NEW n \in DOMAIN s.cart
      PROVE  /\ row(n) \in Lines /\ Line(row(n)) = Line(s.cart[n]) /\ (row(n).fresh => s.cart[n].fresh)
             /\ row(n).price = s.cart[n].price
  <2>1. s.cart[n] \in Lines
    BY <1>0
  <2> DEFINE l == s.cart[n]
  <2>2. l \in Lines
    BY <2>1
  <2> HIDE DEF l
  <2>3. (l.fresh /\ s.fresh) \in BOOLEAN /\ l.units + s.quantity \in Nat
    BY <2>2, <1>0 DEF Lines
  <2>4. [l EXCEPT !.units = @ + s.quantity, !.fresh = @ /\ s.fresh] \in Lines
    BY <2>2, <2>3 DEF Lines
  <2>5. Line([l EXCEPT !.units = @ + s.quantity, !.fresh = @ /\ s.fresh]) = Line(l)
    BY <2>2 DEF Lines, Line
  <2>6. LET r == [l EXCEPT !.units = @ + s.quantity, !.fresh = @ /\ s.fresh]
        IN  (r.fresh => l.fresh) /\ r.price = l.price
    BY <2>2 DEF Lines
  <2> QED BY <2>4, <2>5, <2>6 DEF l
<1>2. line \in Lines /\ Line(line) = [item |-> s.item, options |-> s.options] /\ line.fresh = s.fresh
      /\ line.item = s.item /\ line.options = s.options /\ line.price = price
  BY <1>0 DEF Lines, Line
<1> HIDE DEF row, line
<1>3. /\ kept \in Seq(Lines) /\ Len(kept) = Len(s.cart) /\ DOMAIN kept = DOMAIN s.cart
      /\ \A n \in DOMAIN s.cart : /\ Line(kept[n]) = Line(s.cart[n]) /\ (kept[n].fresh => s.cart[n].fresh)
                                  /\ kept[n].price = s.cart[n].price
  <2>1. \A n \in DOMAIN s.cart : kept[n] \in Lines
    BY <1>0, <1>1
  <2>2. kept \in [DOMAIN s.cart -> Lines]
    BY <2>1
  <2>3. kept \in Seq(Lines) /\ Len(kept) = Len(s.cart) /\ DOMAIN kept = DOMAIN s.cart
    <3> HIDE DEF kept
    <3> QED BY <1>0, <2>2, AsMany
  <2> QED BY <2>3, <1>1
<1> HIDE DEF kept
<1>4. LinesDiffer(kept)
  BY <1>0, <1>3 DEF LinesDiffer
<1>5. \A n \in DOMAIN kept : kept[n].fresh => AsShown(kept[n])
  BY <1>3 DEF FreshLines, AsShown, Acceptable, PricedNow, Line
<1>6. CASE there # {}
  <2>1. Added(s, price) = kept \o <<>>
    BY <1>6 DEF Added, kept, row
  <2>2. kept \o <<>> = kept
    BY <1>3
  <2> QED BY <1>3, <1>4, <1>5, <2>1, <2>2
<1>7. CASE there = {}
  <2> DEFINE cart == Append(kept, line)
  <2>1. Added(s, price) = kept \o <<line>>
    BY <1>7 DEF Added, kept, row, line
  <2>2. kept \o <<line>> = cart
    BY <1>2, <1>3
  <2>3. cart \in Seq(Lines) /\ Len(cart) = Len(kept) + 1 /\ DOMAIN cart = DOMAIN kept \cup {Len(kept) + 1}
        /\ cart[Len(kept) + 1] = line /\ \A n \in DOMAIN kept : cart[n] = kept[n] /\ n # Len(kept) + 1
    BY <1>2, <1>3
  <2> HIDE DEF cart
  <2>4. \A n \in DOMAIN kept : Line(kept[n]) # Line(line)
    BY <1>2, <1>3, <1>7 DEF Find
  <2>5. LinesDiffer(cart)
    BY <1>4, <2>3, <2>4 DEF LinesDiffer
  <2>6. line.fresh => AsShown(line)
    BY <1>2 DEF Complete, AsShown, Acceptable, PricedNow
  <2>7. \A n \in DOMAIN cart : cart[n].fresh => AsShown(cart[n])
    BY <1>5, <2>3, <2>6
  <2> QED BY <2>1, <2>2, <2>3, <2>5, <2>7
<1> QED BY <1>6, <1>7

LEMMA AddLed ==
  ASSUME menu \in Menus, NEW s, IsSession(s), FreshLines(s), Complete(s), AddToCart(s)
  PROVE  Led
<1> DEFINE price == menu.items[s.item].price + Extras(s.options)
           cart == Added(s, price)
           t == [s EXCEPT !.cart = cart]
<1>1. /\ s.item \in Items /\ price \in Prices /\ (IsFiniteSet(s.options) => price \in Int)
      /\ price = menu.items[s.item].price + Extras(s.options)
  <2>1. s.options \in SUBSET Offered /\ Exists(s.item)
    BY DEF IsSession, Complete
  <2> QED BY <2>1, LinePrice
<1> HIDE DEF price
<1>2. /\ cart \in Seq(Lines) /\ LinesDiffer(cart)
      /\ \A n \in DOMAIN cart : cart[n].fresh => AsShown(cart[n])
  BY <1>1, AddedFacts
<1>3. ShowCart(Unselected(t))
  BY DEF AddToCart, price
<1> HIDE DEF cart
<1>4. IsSession(t) /\ t.cart = cart
  BY <1>2 DEF IsSession
<1> HIDE DEF t
<1>5. FreshLines(t)
  BY <1>2, <1>4 DEF FreshLines
<1>6. GoodSession(Unselected(t))
  BY <1>4, <1>5, UnselectedFacts
<1> QED BY <1>3, <1>6, CartLed

---------------------------------------------------------------------------
(* options *)

\* What is picked of the groups before has nothing of the next one.
LEMMA NoneOfNext ==
  ASSUME NEW groups, NamesDiffer(groups), NEW k \in Nat, \A g \in 1..k : g \in DOMAIN groups,
         k + 1 \in DOMAIN groups, NEW options, PickedIn(groups, k, options)
  PROVE  OfGroup(options, groups[k + 1]) = {} /\ PickedIn(groups, k + 1, options)
<1>1. ASSUME NEW o \in options PROVE o.group # groups[k + 1].name
  <2>1. PICK g \in 1..k : groups[g].name = o.group
    BY DEF PickedIn
  <2> QED BY <2>1 DEF NamesDiffer
<1>2. 1..k \subseteq 1..(k + 1)
  OBVIOUS
<1> QED BY <1>1, <1>2 DEF OfGroup, PickedIn

LEMMA NextGroup ==
  ASSUME menu \in Menus, NEW s, s.group \in Nat, Exists(s.item), Choosing(s),
         MayPass(s, GroupsOf(s.item)[s.group]), s.group < Len(GroupsOf(s.item)),
         NEW t, t.item = s.item, t.options = s.options, t.group = s.group + 1
  PROVE  Choosing(t)
<1> DEFINE groups == GroupsOf(s.item)
<1>1. /\ IsList(groups) /\ DOMAIN groups = 1..Len(groups) /\ Len(groups) \in Nat
      /\ \A g \in DOMAIN groups : groups[g].min \in Nat /\ groups[g].max \in Nat
  BY MenuFacts, ListFacts
<1>0. s.group \in DOMAIN groups /\ IsFiniteSet(s.options)
  BY DEF Choosing
<1> SUFFICES ASSUME WellNamed(s.item) PROVE PickedSoFar(t)
  <2>1. t.group \in DOMAIN GroupsOf(t.item)
    BY <1>0, <1>1
  <2> QED BY <1>0, <2>1 DEF Choosing
<1>2. /\ s.group \in DOMAIN groups /\ NamesDiffer(groups) /\ PickedIn(groups, s.group, s.options) /\ IsFiniteSet(s.options)
      /\ \A g \in 1..s.group : Cardinality(OfGroup(s.options, groups[g])) <= groups[g].max
      /\ \A g \in 1..(s.group - 1) : Cardinality(OfGroup(s.options, groups[g])) >= groups[g].min
      /\ Cardinality(OfGroup(s.options, groups[s.group])) >= groups[s.group].min
  BY DEF Choosing, PickedSoFar, WellNamed, MayPass
<1>3. GroupsOf(t.item) = groups /\ s.group < Len(groups)
  OBVIOUS
<1> HIDE DEF groups
<1>4. s.group + 1 \in DOMAIN groups /\ \A g \in 1..s.group : g \in DOMAIN groups
  BY <1>1, <1>2, <1>3
<1>5. OfGroup(s.options, groups[s.group + 1]) = {} /\ PickedIn(groups, s.group + 1, s.options)
  BY <1>2, <1>4, NoneOfNext
<1>6. \A g \in 1..(s.group + 1) : Cardinality(OfGroup(s.options, groups[g])) <= groups[g].max
  <2> TAKE g \in 1..(s.group + 1)
  <2>1. CASE g = s.group + 1
    <3>1. OfGroup(s.options, groups[g]) = {}
      BY <1>5, <2>1
    <3>2. groups[g].max \in Nat
      BY <1>1, <1>4, <2>1
    <3>3. Cardinality({}) = 0
      BY FS_EmptySet
    <3>4. 0 <= groups[g].max
      BY <3>2
    <3> QED BY <3>1, <3>3, <3>4
  <2>2. CASE g \in 1..s.group
    BY <1>2, <2>2
  <2> QED BY <2>1, <2>2
<1>7. \A g \in 1..((s.group + 1) - 1) : Cardinality(OfGroup(s.options, groups[g])) >= groups[g].min
  <2> TAKE g \in 1..((s.group + 1) - 1)
  <2>1. CASE g = s.group
    BY <1>2, <2>1
  <2>2. CASE g \in 1..(s.group - 1)
    BY <1>2, <2>2
  <2> QED BY <2>1, <2>2
<1> QED BY <1>3, <1>5, <1>6, <1>7 DEF PickedSoFar

\* There is one first element at most.
LEMMA FirstIsOne ==
  ASSUME NEW list, DOMAIN list = 1..Len(list), Len(list) \in Nat, NEW these, NEW x \in First(list, these)
  PROVE  First(list, these) = {x}
<1> DEFINE Leads(n) == n \in DOMAIN list /\ list[n] \in these /\ \A k \in 1..(n - 1) : list[k] \notin these
<1>1. PICK n : Leads(n) /\ x = list[n]
  BY DEF First
<1>2. ASSUME NEW y \in First(list, these)
      PROVE  y = x
  <2>1. PICK m : Leads(m) /\ y = list[m]
    BY DEF First
  <2>2. ~(m < n) /\ ~(n < m) /\ n \in Nat /\ m \in Nat
    BY <1>1, <2>1
  <2> QED BY <1>1, <2>1, <2>2
<1> QED BY <1>2

\* Where names differ, what was picked is found again.
LEMMA PickedMatches ==
  ASSUME NEW i, WellNamed(i), IsList(GroupsOf(i)), NEW k \in DOMAIN GroupsOf(i),
         IsList(GroupsOf(i)[k].options), NEW o \in ToSet(GroupsOf(i)[k].options)
  PROVE  Matches(i, Picked(GroupsOf(i)[k], o)) = {o}
<1> DEFINE groups == GroupsOf(i)
           group == groups[k]
           c == Picked(group, o)
           options == group.options
<1>1. /\ c.group = group.name /\ c.name = o.name
      /\ \A j \in DOMAIN groups : groups[j].name = group.name => j = k
      /\ \A n, m \in DOMAIN options : options[n].name = options[m].name => n = m
  BY DEF Picked, WellNamed, NamesDiffer
<1>2. PICK n \in DOMAIN options : o = options[n]
  BY DEF ToSet
<1>3. /\ DOMAIN groups = 1..Len(groups) /\ Len(groups) \in Nat
      /\ DOMAIN options = 1..Len(options) /\ Len(options) \in Nat
  BY ListFacts
<1>4. o \in CalledSo(group, c) /\ group \in HavingIt(i, c)
  BY <1>1 DEF CalledSo, HavingIt, ToSet
<1> HIDE DEF groups, options, c
<1>5. \A j \in 1..(k - 1) : groups[j] \notin HavingIt(i, c)
  <2> TAKE j \in 1..(k - 1)
  <2>1. j \in DOMAIN groups /\ j # k
    BY <1>3 DEF groups
  <2> QED BY <1>1, <2>1 DEF HavingIt
<1>6. \A j \in 1..(n - 1) : options[j] \notin CalledSo(group, c)
  <2> TAKE j \in 1..(n - 1)
  <2>1. j \in DOMAIN options /\ j # n
    BY <1>3
  <2> QED BY <1>1, <1>2, <2>1 DEF CalledSo
<1>7. group \in First(groups, HavingIt(i, c))
  BY <1>4, <1>5 DEF First, groups
<1>8. o \in First(options, CalledSo(group, c))
  BY <1>2, <1>4, <1>6 DEF First
<1>9. First(groups, HavingIt(i, c)) = {group} /\ First(options, CalledSo(group, c)) = {o}
  BY <1>3, <1>7, <1>8, FirstIsOne
<1> QED BY <1>9 DEF Matches, groups, options, c

LEMMA LastGroup ==
  ASSUME menu \in Menus, NEW s, s.group \in Nat, Exists(s.item), WellNamed(s.item), Choosing(s),
         MayPass(s, GroupsOf(s.item)[s.group]), ~(s.group < Len(GroupsOf(s.item)))
  PROVE  ValidOptions(s.item, s.options) /\ IsFiniteSet(s.options) /\ Meant(s.item, s.options) = s.options
<1> DEFINE groups == GroupsOf(s.item)
           named(c, o) == [group |-> c.group, name |-> o.name, delta |-> o.delta]
           meant(c) == {named(c, o) : o \in Matches(s.item, c)}
<1>1. /\ IsList(groups) /\ DOMAIN groups = 1..Len(groups) /\ Len(groups) \in Nat
      /\ \A g \in DOMAIN groups : groups[g].min \in Nat /\ groups[g].max \in Nat /\ IsList(groups[g].options)
  BY MenuFacts, ListFacts
<1>2. /\ s.group \in DOMAIN groups /\ PickedIn(groups, s.group, s.options) /\ IsFiniteSet(s.options)
      /\ \A g \in 1..s.group : Cardinality(OfGroup(s.options, groups[g])) <= groups[g].max
      /\ \A g \in 1..(s.group - 1) : Cardinality(OfGroup(s.options, groups[g])) >= groups[g].min
      /\ Cardinality(OfGroup(s.options, groups[s.group])) >= groups[s.group].min
  BY DEF Choosing, PickedSoFar, MayPass
<1>3. s.group = Len(groups)
  BY <1>1, <1>2
<1>4. ASSUME NEW c \in s.options
      PROVE  \E o \in Matches(s.item, c) : o.sold /\ Matches(s.item, c) = {o} /\ named(c, o) = c
  <2>1. PICK g \in 1..s.group : groups[g].name = c.group
                                /\ \E o \in ToSet(groups[g].options) : o.sold /\ Picked(groups[g], o) = c
    BY <1>2 DEF PickedIn
  <2>2. PICK o \in ToSet(groups[g].options) : o.sold /\ Picked(groups[g], o) = c
    BY <2>1
  <2>3. g \in DOMAIN groups
    BY <1>1, <1>3
  <2>4. Matches(s.item, c) = {o}
    BY <1>1, <2>2, <2>3, PickedMatches
  <2>5. named(c, o) = c
    BY <2>2 DEF Picked
  <2> QED BY <2>2, <2>4, <2>5
<1>5. ASSUME NEW g \in ToSet(groups)
      PROVE  Cardinality(OfGroup(s.options, g)) \in g.min..g.max
  <2> HIDE DEF groups
  <2>1. PICK k \in DOMAIN groups : groups[k] = g
    BY DEF ToSet
  <2>2. Cardinality(OfGroup(s.options, g)) \in Nat
    <3>1. OfGroup(s.options, g) \in SUBSET s.options
      BY DEF OfGroup
    <3> QED BY <1>2, <3>1, FS_Subset, FS_CardinalityType
  <2>3. Cardinality(OfGroup(s.options, g)) <= g.max
    BY <1>1, <1>2, <1>3, <2>1
  <2>4. Cardinality(OfGroup(s.options, g)) >= g.min
    <3>1. CASE k = s.group
      BY <1>2, <2>1, <3>1
    <3>2. CASE k \in 1..(s.group - 1)
      BY <1>2, <2>1, <3>2
    <3> QED BY <1>1, <1>3, <3>1, <3>2
  <2>5. g.min \in Nat /\ g.max \in Nat
    BY <1>1, <2>1
  <2> QED BY <2>2, <2>3, <2>4, <2>5
<1>6. Meant(s.item, s.options) = s.options
  <2>1. ASSUME NEW c \in s.options
        PROVE  meant(c) = {c}
    <3>1. PICK o : Matches(s.item, c) = {o} /\ named(c, o) = c
      BY <1>4
    <3>2. {named(c, q) : q \in {o}} = {named(c, o)}
      OBVIOUS
    <3> HIDE DEF named
    <3> QED BY <3>1, <3>2
  <2>2. Meant(s.item, s.options) = UNION {meant(c) : c \in s.options}
    BY DEF Meant
  <2> HIDE DEF meant
  <2>3. UNION {meant(c) : c \in s.options} = s.options
    BY <2>1
  <2> QED BY <2>2, <2>3
<1>7. ValidOptions(s.item, s.options)
  BY <1>4, <1>5 DEF ValidOptions
<1> QED BY <1>2, <1>6, <1>7

LEMMA AdvanceLed ==
  ASSUME menu \in Menus, NEW s, IsSession(s), FreshLines(s), Exists(s.item),
         s.fresh => Available(s.item) /\ Choosing(s) /\ MayPass(s, GroupsOf(s.item)[s.group]),
         Advance(s)
  PROVE  Led
<1>1. CASE s.group < Len(GroupsOf(s.item))
  <2> DEFINE t == [s EXCEPT !.group = @ + 1]
  <2>1. ShowGroup(t)
    BY <1>1 DEF Advance
  <2>2. /\ IsSession(t) /\ t.item = s.item /\ t.options = s.options /\ t.group = s.group + 1
        /\ t.fresh = s.fresh /\ t.cart = s.cart /\ s.group \in Nat
    BY DEF IsSession
  <2> HIDE DEF t
  <2>3. t.fresh => Available(t.item) /\ Choosing(t)
    BY <1>1, <2>2, NextGroup
  <2> QED BY <2>1, <2>2, <2>3, GroupLed DEF FreshLines
<1>2. CASE ~(s.group < Len(GroupsOf(s.item)))
  <2>1. AddToCart(s)
    BY <1>2 DEF Advance
  <2>2. Complete(s)
    BY <1>2, LastGroup DEF Complete, IsSession
  <2> QED BY <2>1, <2>2, AddLed
<1> QED BY <1>1, <1>2

\* As many options as were chosen, at most.
LEMMA PickedCount ==
  ASSUME NEW group, NEW chosen, IsFiniteSet(chosen)
  PROVE  LET picked == {Picked(group, o) : o \in chosen}
         IN  IsFiniteSet(picked) /\ Cardinality(picked) <= Cardinality(chosen)
<1> DEFINE picked == {Picked(group, o) : o \in chosen}
           f == [o \in chosen |-> Picked(group, o)]
<1>1. f \in Surjection(chosen, picked)
  BY DEF Surjection
<1> HIDE DEF f
<1> QED BY <1>1, FS_Surjection

LEMMA UnionCount ==
  ASSUME NEW S, IsFiniteSet(S), NEW T, IsFiniteSet(T)
  PROVE  /\ IsFiniteSet(S \cup T) /\ Cardinality(S \cup T) \in Nat
         /\ Cardinality(S \cup T) <= Cardinality(S) + Cardinality(T)
<1>1. IsFiniteSet(S \cap T) /\ IsFiniteSet(S \cup T)
  BY FS_Subset, FS_Union
<1>2. /\ Cardinality(S \cup T) = Cardinality(S) + Cardinality(T) - Cardinality(S \cap T)
      /\ Cardinality(S \cap T) \in Nat /\ Cardinality(S) \in Nat /\ Cardinality(T) \in Nat
      /\ Cardinality(S \cup T) \in Nat
  BY <1>1, FS_Union, FS_CardinalityType
<1> QED BY <1>1, <1>2

LEMMA PickChoosing ==
  ASSUME menu \in Menus, NEW s, s.group \in Nat, Exists(s.item), Choosing(s),
         NEW chosen \in SUBSET ToSet(GroupsOf(s.item)[s.group].options),
         MayPick(s, GroupsOf(s.item)[s.group], chosen),
         NEW t, t.item = s.item, t.group = s.group,
         t.options = s.options \cup {Picked(GroupsOf(s.item)[s.group], o) : o \in chosen}
  PROVE  Choosing(t)
<1> DEFINE groups == GroupsOf(s.item)
           group == groups[s.group]
           picked == {Picked(group, o) : o \in chosen}
<1>1. /\ IsList(groups) /\ DOMAIN groups = 1..Len(groups) /\ Len(groups) \in Nat
      /\ \A g \in DOMAIN groups : groups[g].min \in Nat /\ groups[g].max \in Nat /\ IsList(groups[g].options)
  BY MenuFacts, ListFacts
<1>2. s.group \in DOMAIN groups /\ IsFiniteSet(s.options)
  BY DEF Choosing
<1>3. /\ \A o \in chosen : o.sold
      /\ Cardinality(OfGroup(s.options, group)) + Cardinality(chosen) <= group.max
      /\ chosen \in SUBSET ToSet(group.options) /\ t.options = s.options \cup picked
  BY DEF MayPick
<1>4. GroupsOf(t.item) = groups
  OBVIOUS
<1> HIDE DEF groups
<1>5. IsFiniteSet(chosen)
  BY <1>1, <1>2, <1>3, ListFacts, FS_Subset
<1>6. IsFiniteSet(picked) /\ Cardinality(picked) <= Cardinality(chosen)
      /\ Cardinality(picked) \in Nat /\ Cardinality(chosen) \in Nat
  BY <1>5, PickedCount, FS_CardinalityType
<1>7. IsFiniteSet(t.options)
  <2> HIDE DEF picked
  <2>1. IsFiniteSet(s.options \cup picked)
    BY <1>2, <1>6, FS_Union
  <2> QED BY <1>3, <2>1
<1> SUFFICES ASSUME WellNamed(s.item) PROVE PickedSoFar(t)
  BY <1>2, <1>4, <1>7 DEF Choosing
<1>8. /\ NamesDiffer(groups) /\ PickedIn(groups, s.group, s.options)
      /\ \A g \in 1..s.group : Cardinality(OfGroup(s.options, groups[g])) <= groups[g].max
      /\ \A g \in 1..(s.group - 1) : Cardinality(OfGroup(s.options, groups[g])) >= groups[g].min
  BY DEF Choosing, PickedSoFar, WellNamed, groups
<1>9. PickedIn(groups, s.group, t.options)
  <2>1. ASSUME NEW c \in picked
        PROVE  \E g \in 1..s.group : groups[g].name = c.group
                                     /\ \E o \in ToSet(groups[g].options) : o.sold /\ Picked(groups[g], o) = c
    <3>1. PICK o \in chosen : c = Picked(group, o)
      OBVIOUS
    <3>2. c.group = group.name /\ o \in ToSet(group.options) /\ o.sold
      BY <1>3, <3>1 DEF Picked
    <3>3. s.group \in 1..s.group
      BY <1>1, <1>2
    <3> QED BY <3>1, <3>2, <3>3
  <2> QED BY <1>8, <1>3, <2>1 DEF PickedIn
<1>10. ASSUME NEW g \in 1..s.group, g # s.group
      PROVE  OfGroup(t.options, groups[g]) = OfGroup(s.options, groups[g])
  <2>1. groups[g].name # group.name
    BY <1>1, <1>2, <1>10, <1>8 DEF NamesDiffer
  <2>2. OfGroup(s.options \cup picked, groups[g]) = OfGroup(s.options, groups[g])
    BY <2>1 DEF OfGroup, Picked
  <2> QED BY <1>3, <2>2
<1>11. Cardinality(OfGroup(t.options, group)) <= group.max
  <2> DEFINE mine == OfGroup(s.options, group)
  <2>1. IsFiniteSet(mine) /\ Cardinality(mine) \in Nat
    <3>1. mine \in SUBSET s.options
      BY DEF OfGroup
    <3> QED BY <1>2, <3>1, FS_Subset, FS_CardinalityType
  <2>2. OfGroup(t.options, group) = mine \cup picked
    BY <1>3 DEF OfGroup, Picked
  <2>3. Cardinality(mine \cup picked) <= Cardinality(mine) + Cardinality(picked)
        /\ Cardinality(mine \cup picked) \in Nat
    BY <1>6, <2>1, UnionCount
  <2>4. Cardinality(mine) + Cardinality(chosen) <= group.max /\ group.max \in Nat
    BY <1>1, <1>2, <1>3
  <2> HIDE DEF mine, picked, group
  <2>5. Cardinality(mine \cup picked) <= group.max
    BY <1>6, <2>1, <2>3, <2>4
  <2> QED BY <2>2, <2>5
<1>12. \A g \in 1..s.group : Cardinality(OfGroup(t.options, groups[g])) <= groups[g].max
  <2> TAKE g \in 1..s.group
  <2>1. CASE g = s.group
    BY <1>11, <2>1
  <2>2. CASE g # s.group
    BY <1>10, <1>8, <2>2
  <2> QED BY <2>1, <2>2
<1>13. \A g \in 1..(s.group - 1) : Cardinality(OfGroup(t.options, groups[g])) >= groups[g].min
  <2> TAKE g \in 1..(s.group - 1)
  <2>1. g \in 1..s.group /\ g # s.group
    OBVIOUS
  <2>2. OfGroup(t.options, groups[g]) = OfGroup(s.options, groups[g])
    BY <1>10, <2>1
  <2> QED BY <1>8, <2>2
<1> QED BY <1>4, <1>9, <1>12, <1>13 DEF PickedSoFar

LEMMA PickedOffered ==
  ASSUME menu \in Menus, NEW i, Exists(i), NEW g \in DOMAIN GroupsOf(i),
         NEW o \in ToSet(GroupsOf(i)[g].options)
  PROVE  Picked(GroupsOf(i)[g], o) \in Offered
<1>1. GroupsOf(i)[g] \in ToSet(menu.items[i].groups) /\ i \in DOMAIN menu.items
  BY DEF ToSet, GroupsOf, Exists
<1> DEFINE group == GroupsOf(i)[g]
<1>2. Picked(group, o) \in {Picked(group, p) : p \in ToSet(group.options)}
  OBVIOUS
<1> HIDE DEF group
<1>3. Picked(group, o) \in UNION {{Picked(h, p) : p \in ToSet(h.options)} : h \in ToSet(menu.items[i].groups)}
  BY <1>1, <1>2 DEF group
<1>4. Picked(group, o) \in OptionsIn(menu)
  BY <1>1, <1>3 DEF OptionsIn
<1> QED BY <1>4 DEF Offered, group

LEMMA PickLed ==
  ASSUME menu \in Menus, NEW s, IsSession(s), FreshLines(s), Exists(s.item),
         s.group \in DOMAIN GroupsOf(s.item), s.fresh => Available(s.item) /\ Choosing(s),
         NEW chosen \in SUBSET ToSet(GroupsOf(s.item)[s.group].options),
         MayPick(s, GroupsOf(s.item)[s.group], chosen), Pick(s, GroupsOf(s.item)[s.group], chosen)
  PROVE  Led
<1> DEFINE group == GroupsOf(s.item)[s.group]
           picked == {Picked(group, o) : o \in chosen}
           t == [s EXCEPT !.options = @ \cup picked]
<1>1. picked \in SUBSET Offered
  BY PickedOffered
<1>2. \/ Cardinality(OfGroup(t.options, group)) >= group.max /\ Advance(t)
      \/ ShowGroup(t)
  BY DEF Pick
<1> HIDE DEF picked
<1>3. /\ IsSession(t) /\ t.item = s.item /\ t.group = s.group /\ t.fresh = s.fresh /\ t.cart = s.cart
      /\ t.options = s.options \cup picked /\ s.group \in Nat
  BY <1>1 DEF IsSession
<1> HIDE DEF t, group
<1>4. s.fresh => Choosing(t)
  BY <1>3, PickChoosing DEF picked, group
<1>5. FreshLines(t)
  BY <1>3 DEF FreshLines
<1>6. CASE ShowGroup(t)
  BY <1>3, <1>4, <1>5, <1>6, GroupLed
<1>7. CASE Cardinality(OfGroup(t.options, group)) >= group.max /\ Advance(t)
  <2>1. s.fresh => MayPass(t, group)
    <3> SUFFICES ASSUME s.fresh PROVE MayPass(t, group)
      OBVIOUS
    <3>1. IsFiniteSet(OfGroup(t.options, group))
      <4>1. OfGroup(t.options, group) \in SUBSET t.options /\ IsFiniteSet(t.options)
        BY <1>4 DEF OfGroup, Choosing
      <4> QED BY <4>1, FS_Subset
    <3>2. Cardinality(OfGroup(t.options, group)) \in Nat
      BY <3>1, FS_CardinalityType
    <3>3. group.min \in Nat /\ group.max \in Nat /\ group.min <= group.max
      BY MenuFacts DEF group
    <3> QED BY <1>7, <3>2, <3>3 DEF MayPass
  <2>2. group = GroupsOf(t.item)[t.group]
    BY <1>3 DEF group
  <2> QED BY <1>3, <1>4, <1>5, <1>7, <2>1, <2>2, AdvanceLed
<1> QED BY <1>2, <1>6, <1>7

---------------------------------------------------------------------------
(* the actions *)

LEMMA CategoryStep ==
  ASSUME OrderingInv, OrderingCategorySelection
  PROVE  Led
BY OpenCategoryLed, RepeatLed DEF OrderingInv, OrderingCategorySelection

LEMMA ItemStep ==
  ASSUME OrderingInv, OrderingItemSelection
  PROVE  Led
<1>1. CASE Repeat(sess)
  BY <1>1, RepeatLed DEF OrderingInv
<1>2. ASSUME NEW i, ~Exists(i), Tells([sess EXCEPT !.state = "MAIN_MENU"], "menu")
      PROVE  Led
  BY <1>2, AtMenu DEF OrderingInv
<1>3. CASE UNCHANGED <<sess, prompt>>
  BY <1>3 DEF OrderingInv, Led
<1>4. ASSUME NEW i, Available(i), ShowQuantity([sess EXCEPT !.item = i, !.quantity = 0, !.fresh = TRUE])
      PROVE  Led
  <2> DEFINE s == [sess EXCEPT !.item = i, !.quantity = 0, !.fresh = TRUE]
  <2>1. IsSession(s) /\ s.item = i /\ s.cart = sess.cart /\ s.state = "ORDERING"
    BY DEF OrderingInv, GoodSession, IsSession, OrderingItemSelection, Handles
  <2> HIDE DEF s
  <2>2. GoodSession(s)
    BY <1>4, <2>1 DEF GoodSession, FreshSelection, FreshLines, OrderingInv
  <2> QED BY <1>4, <2>2, QuantityLed DEF s
<1> QED BY <1>1, <1>2, <1>3, <1>4 DEF OrderingItemSelection

LEMMA BackLed == BackToMenu => Led
<1>1. Answerable(NoSession, [kind |-> "menu"])
  BY NewSession DEF Answerable, Dialogue
<1> QED BY <1>1, NewSession, ShowsLed DEF BackToMenu, Tells

LEMMA QuantityStep ==
  ASSUME OrderingInv, QuantitySelection
  PROVE  Led
<1>0. menu \in Menus /\ GoodSession(sess) /\ sess.state = "SELECTING_QTY"
  BY DEF OrderingInv, QuantitySelection, Handles
<1>1. CASE BackToMenu
  BY <1>1, BackLed
<1>2. CASE ChangeItem(sess)
  BY <1>0, <1>2, ChangeItemLed
<1>3. CASE Repeat(sess)
  BY <1>0, <1>3, RepeatLed
<1>4. ASSUME NEW n \in 1..MostAsked, Exists(sess.item), GroupsOf(sess.item) # <<>>,
             ShowGroup([[sess EXCEPT !.quantity = n] EXCEPT !.group = 1, !.options = {}])
      PROVE  Led
  <2> DEFINE s == [sess EXCEPT !.quantity = n]
             t == [s EXCEPT !.group = 1, !.options = {}]
             groups == GroupsOf(sess.item)
  <2>0. n \in Nat
    BY BoundsAssumption
  <2>1. IsSession(s) /\ s.item = sess.item /\ s.fresh = sess.fresh /\ s.cart = sess.cart
    BY <1>0, <2>0 DEF GoodSession, IsSession
  <2> HIDE DEF s
  <2>2. /\ IsSession(t) /\ t.item = sess.item /\ t.group = 1 /\ t.options = {} /\ t.fresh = sess.fresh
        /\ t.cart = sess.cart
    <3>1. /\ t.item = s.item /\ t.group = 1 /\ t.options = {} /\ t.fresh = s.fresh /\ t.cart = s.cart
          /\ t.state = s.state /\ t.quantity = s.quantity
      BY <2>1 DEF IsSession
    <3>2. t \in [state : States, step : {t.step}, categories : {t.categories}, items : {t.items},
                 category : {t.category}, item : {t.item}, quantity : Nat, group : Nat,
                 options : SUBSET Offered, fresh : BOOLEAN, line : {t.line}, cart : Seq(Lines)]
      BY <2>1 DEF IsSession
    <3>3. t.group # 0 /\ LinesDiffer(t.cart)
      BY <2>1, <3>1 DEF IsSession
    <3> HIDE DEF t
    <3>4. IsSession(t)
      BY <3>2, <3>3 DEF IsSession
    <3> QED BY <2>1, <3>1, <3>4
  <2> HIDE DEF t
  <2>3. Choosing(t)
    <3>1. IsList(groups) /\ (\A g \in DOMAIN groups : groups[g].max \in Nat)
      BY <1>0, <1>4, MenuFacts
    <3>2. 1 \in DOMAIN groups
      BY <1>4, <3>1, ListFacts
    <3>3. groups = GroupsOf(t.item)
      BY <2>2
    <3> HIDE DEF groups
    <3>4. \A g \in 1..1 : Cardinality(OfGroup({}, groups[g])) <= groups[g].max
      <4>1. OfGroup({}, groups[1]) = {} /\ Cardinality({}) = 0
        BY FS_EmptySet DEF OfGroup
      <4>2. groups[1].max \in Nat
        BY <3>1, <3>2
      <4> QED BY <4>1, <4>2
    <3>5. IsFiniteSet({}) /\ PickedIn(groups, 1, {})
      BY FS_EmptySet DEF PickedIn
    <3>6. PickedSoFar(t)
      BY <2>2, <3>3, <3>4, <3>5 DEF PickedSoFar
    <3> QED BY <2>2, <3>2, <3>3, <3>5, <3>6 DEF Choosing
  <2>4. FreshLines(t) /\ (t.fresh => Available(t.item))
    BY <1>0, <2>2 DEF GoodSession, FreshSelection, FreshLines
  <2> QED BY <1>4, <2>2, <2>3, <2>4, GroupLed DEF t, s
<1>5. ASSUME NEW n \in 1..MostAsked, Exists(sess.item), GroupsOf(sess.item) = <<>>,
             AddToCart([[sess EXCEPT !.quantity = n] EXCEPT !.options = {}])
      PROVE  Led
  <2> DEFINE t == [[sess EXCEPT !.quantity = n] EXCEPT !.options = {}]
  <2>1. n \in Nat
    BY BoundsAssumption
  <2>2. IsSession(t) /\ t.item = sess.item /\ t.options = {} /\ t.fresh = sess.fresh /\ t.cart = sess.cart
    BY <1>0, <2>1 DEF GoodSession, IsSession
  <2> HIDE DEF t
  <2>3. ValidOptions(t.item, t.options) /\ IsFiniteSet(t.options) /\ Meant(t.item, t.options) = t.options
    BY <1>5, <2>2, FS_EmptySet DEF ValidOptions, ToSet, Meant
  <2>4. FreshLines(t) /\ (t.fresh => Available(t.item))
    BY <1>0, <2>2 DEF GoodSession, FreshSelection, FreshLines
  <2>5. Complete(t)
    BY <1>5, <2>2, <2>3, <2>4 DEF Complete
  <2> QED BY <1>0, <1>5, <2>2, <2>4, <2>5, AddLed DEF t
<1>6. \A n : [sess EXCEPT !.quantity = n].item = sess.item
  BY <1>0 DEF GoodSession, IsSession
<1>7. CASE ~Exists(sess.item)
  BY <1>1, <1>7 DEF QuantitySelection
<1>8. CASE Exists(sess.item) /\ GroupsOf(sess.item) # <<>>
  BY <1>2, <1>3, <1>4, <1>6, <1>8 DEF QuantitySelection
<1>9. CASE Exists(sess.item) /\ GroupsOf(sess.item) = <<>>
  BY <1>2, <1>3, <1>5, <1>6, <1>9 DEF QuantitySelection
<1> QED BY <1>7, <1>8, <1>9

LEMMA OptionStep ==
  ASSUME OrderingInv, OptionSelection
  PROVE  Led
<1>0. menu \in Menus /\ GoodSession(sess) /\ sess.state = "SELECTING_OPTIONS"
  BY DEF OrderingInv, OptionSelection, Handles
<1>1. IsSession(sess) /\ FreshLines(sess) /\ (sess.fresh => Available(sess.item) /\ Choosing(sess))
  BY <1>0 DEF GoodSession, FreshSelection
<1>2. CASE ~Exists(sess.item)
  <2>1. Tells([Unselected(sess) EXCEPT !.state = "MAIN_MENU"], "menu")
    BY <1>2 DEF OptionSelection
  <2>2. GoodSession(Unselected(sess))
    BY <1>1, UnselectedFacts
  <2> DEFINE u == Unselected(sess)
  <2> HIDE DEF u
  <2> QED BY <2>1, <2>2, AtMenu DEF u
<1>3. CASE Exists(sess.item) /\ GroupsOf(sess.item) = <<>>
  <2> DEFINE t == [sess EXCEPT !.options = {}]
  <2>1. AddToCart(t)
    BY <1>3 DEF OptionSelection
  <2>2. IsSession(t) /\ t.item = sess.item /\ t.options = {} /\ t.fresh = sess.fresh /\ t.cart = sess.cart
    BY <1>1 DEF IsSession
  <2> HIDE DEF t
  <2>3. ~sess.fresh
    BY <1>1, <1>3 DEF Choosing
  <2>4. Complete(t) /\ FreshLines(t)
    BY <1>1, <1>3, <2>2, <2>3 DEF Complete, FreshLines
  <2> QED BY <1>0, <2>1, <2>2, <2>4, AddLed
<1>4. CASE Exists(sess.item) /\ GroupsOf(sess.item) # <<>>
  <2> DEFINE s == AtGroup(sess)
             group == GroupsOf(s.item)[s.group]
  <2>1. /\ IsSession(s) /\ s.item = sess.item /\ s.fresh = sess.fresh /\ s.cart = sess.cart
        /\ s.group \in DOMAIN GroupsOf(sess.item)
        /\ s.fresh => Choosing(s)
    BY <1>0, <1>1, <1>4, AtGroupFacts
  <2>2. \/ MayPass(s, group) /\ Advance(s)
        \/ \E chosen \in SUBSET ToSet(group.options) \ {{}} : MayPick(s, group, chosen) /\ Pick(s, group, chosen)
        \/ ShowGroup(s)
    BY <1>4 DEF OptionSelection
  <2> HIDE DEF s
  <2>3. FreshLines(s) /\ (s.fresh => Available(s.item) /\ Choosing(s)) /\ Exists(s.item)
        /\ s.group \in DOMAIN GroupsOf(s.item)
    BY <1>1, <1>4, <2>1 DEF FreshLines
  <2>4. CASE MayPass(s, group) /\ Advance(s)
    BY <1>0, <2>1, <2>3, <2>4, AdvanceLed
  <2>5. ASSUME NEW chosen \in SUBSET ToSet(group.options) \ {{}},
               MayPick(s, group, chosen), Pick(s, group, chosen)
        PROVE  Led
    BY <1>0, <2>1, <2>3, <2>5, PickLed
  <2>6. CASE ShowGroup(s)
    BY <2>1, <2>3, <2>6, GroupLed
  <2> QED BY <2>2, <2>4, <2>5, <2>6
<1> QED BY <1>2, <1>3, <1>4

LEMMA OutsideLed ==
  ASSUME NEW s, GoodSession(s), s.state \notin Dialogue, NEW kind, Tells(s, kind)
  PROVE  Led
BY ShowsLed DEF Tells, Answerable

LEMMA WelcomeLed == Tells([NoSession EXCEPT !.state = "WELCOME"], "welcome") => Led
<1> DEFINE s == NoSession
<1>1. GoodSession(s)
  BY NewSession
<1> HIDE DEF s
<1>2. Tells([s EXCEPT !.state = "WELCOME"], "welcome") => Led
  BY <1>1, AtMenu
<1> QED BY <1>2 DEF s

LEMMA ConfirmationStep ==
  ASSUME OrderingInv, OrderConfirmation
  PROVE  Led
<1>0. menu \in Menus /\ GoodSession(sess) /\ sess.state = "CONFIRMING_ORDER"
  BY DEF OrderingInv, OrderConfirmation, Handles
<1>1. CASE Confirm
  <2>1. CASE StartOrdering(sess)
    BY <1>0, <2>1, StartLed
  <2>2. CASE Tells([NoSession EXCEPT !.state = "WELCOME"], "welcome")
    BY <2>2, WelcomeLed
  <2>3. CASE BackToMenu
    BY <2>3, BackLed
  <2>4. CASE CreateOrder(sess.cart, NoSession, [sess EXCEPT !.state = "MAIN_MENU"])
    <3>1. Tells(NoSession, "sent") \/ Tells([sess EXCEPT !.state = "MAIN_MENU"], "refused")
      BY <2>4 DEF CreateOrder
    <3>2. CASE Tells(NoSession, "sent")
      BY <3>2, NewSession, OutsideLed DEF Dialogue
    <3>3. CASE Tells([sess EXCEPT !.state = "MAIN_MENU"], "refused")
      BY <1>0, <3>3, AtMenu
    <3> QED BY <3>1, <3>2, <3>3
  <2> QED BY <1>1, <2>1, <2>2, <2>3, <2>4 DEF Confirm
<1>2. CASE ChangeItem(sess)
  BY <1>0, <1>2, ChangeItemLed
<1>3. CASE StartOrdering(sess)
  BY <1>0, <1>3, StartLed
<1>4. CASE ShowLines([sess EXCEPT !.line = NoLine])
  <2> DEFINE t == [sess EXCEPT !.line = NoLine]
  <2>1. /\ IsSession(t) /\ t.state = sess.state /\ t.item = sess.item /\ t.group = sess.group
        /\ t.options = sess.options /\ t.fresh = sess.fresh /\ t.cart = sess.cart
    BY <1>0 DEF GoodSession, IsSession
  <2> HIDE DEF t
  <2>2. GoodSession(t)
    BY <1>0, <2>1, SameSelection
  <2> QED BY <1>4, <2>2, LinesLed DEF t
<1>5. CASE Repeat(sess)
  BY <1>0, <1>5, RepeatLed
<1> QED BY <1>1, <1>2, <1>3, <1>4, <1>5 DEF OrderConfirmation

LEMMA MenuStep ==
  ASSUME OrderingInv, MainMenu
  PROVE  Led
<1>0. menu \in Menus /\ GoodSession(sess) /\ sess.state = "MAIN_MENU"
  BY DEF OrderingInv, MainMenu, Handles
<1>1. CASE Tells([NoSession EXCEPT !.state = "WELCOME"], "welcome")
  BY <1>1, WelcomeLed
<1>2. CASE StartOrdering(sess)
  BY <1>0, <1>2, StartLed
<1>3. CASE Repeat(sess)
  BY <1>0, <1>3, RepeatLed
<1>4. CASE RepeatLastRound
  <2>1. \E kind : Tells(sess, kind)
    BY <1>4 DEF RepeatLastRound, CreateOrder
  <2> QED BY <1>0, <2>1, OutsideLed DEF Dialogue
<1> QED BY <1>1, <1>2, <1>3, <1>4 DEF MainMenu

LEMMA RemovalStep ==
  ASSUME OrderingInv, OrderingCartItemRemoval
  PROVE  Led
<1>0. menu \in Menus /\ GoodSession(sess) /\ sess.state = "REMOVING_ORDER_ITEM"
  BY DEF OrderingInv, OrderingCartItemRemoval, Handles
<1>1. CASE Repeat(sess)
  BY <1>0, <1>1, RepeatLed
<1>2. ASSUME NEW n \in DOMAIN sess.cart,
             ShowActions([sess EXCEPT !.line = Line(sess.cart[n])], sess.cart[n].units)
      PROVE  Led
  <2> DEFINE t == [sess EXCEPT !.line = Line(sess.cart[n])]
  <2>1. /\ IsSession(t) /\ t.state = sess.state /\ t.item = sess.item /\ t.group = sess.group
        /\ t.options = sess.options /\ t.fresh = sess.fresh /\ t.cart = sess.cart
        /\ t.line = Line(sess.cart[n])
    BY <1>0 DEF GoodSession, IsSession
  <2> HIDE DEF t
  <2>2. GoodSession(t)
    BY <1>0, <2>1, SameSelection
  <2>3. n \in Find(t.cart, t.line) /\ t.cart[n].units = sess.cart[n].units
    BY <2>1 DEF Find
  <2>4. ShowActions(t, t.cart[n].units)
    BY <1>2, <2>3 DEF t
  <2> QED BY <2>2, <2>3, <2>4, ActionsLed
<1> QED BY <1>1, <1>2 DEF OrderingCartItemRemoval

\* Another number of units of one line.
LEMMA WithUnitsLed ==
  ASSUME GoodSession(sess), NEW n \in DOMAIN sess.cart, NEW units \in Nat, WithUnits(n, units)
  PROVE  Led
<1> DEFINE cart == [sess.cart EXCEPT ![n].units = units]
           row == [sess.cart[n] EXCEPT !.units = units]
<1>0. sess.cart \in Seq(Lines) /\ LinesDiffer(sess.cart) /\ FreshLines(sess)
  BY DEF GoodSession, IsSession
<1>1. row \in Lines /\ Line(row) = Line(sess.cart[n]) /\ row.fresh = sess.cart[n].fresh
      /\ row.item = sess.cart[n].item /\ row.options = sess.cart[n].options /\ row.price = sess.cart[n].price
  <2> DEFINE l == sess.cart[n]
  <2>1. l \in Lines
    BY <1>0
  <2> HIDE DEF l
  <2>2. [l EXCEPT !.units = units] \in Lines
    BY <2>1 DEF Lines
  <2>3. LET r == [l EXCEPT !.units = units]
        IN  Line(r) = Line(l) /\ r.fresh = l.fresh /\ r.item = l.item /\ r.options = l.options /\ r.price = l.price
    BY <2>1 DEF Lines, Line
  <2> QED BY <2>2, <2>3 DEF l
<1>2. ShowCart([sess EXCEPT !.cart = cart])
  BY DEF WithUnits
<1> HIDE DEF row
<1>3. /\ DOMAIN cart = DOMAIN sess.cart
      /\ \A k \in DOMAIN sess.cart : cart[k] = IF k = n THEN row ELSE sess.cart[k]
  BY <1>0 DEF row
<1> HIDE DEF cart
<1>4. cart \in Seq(Lines)
  <2>1. \A k \in DOMAIN sess.cart : cart[k] \in Lines
    BY <1>0, <1>1, <1>3
  <2>2. cart = [k \in DOMAIN sess.cart |-> cart[k]]
    BY <1>3 DEF cart
  <2>3. cart \in [DOMAIN sess.cart -> Lines]
    BY <2>1, <2>2
  <2> QED BY <1>0, <2>3, AsMany
<1>5. LinesDiffer(cart)
  BY <1>0, <1>1, <1>3 DEF LinesDiffer
<1>6. \A k \in DOMAIN cart : cart[k].fresh => AsShown(cart[k])
  BY <1>0, <1>1, <1>3 DEF FreshLines, AsShown, Acceptable, PricedNow
<1>7. GoodSession([sess EXCEPT !.cart = cart])
  BY <1>4, <1>5, <1>6, OtherCart
<1> DEFINE t == [sess EXCEPT !.cart = cart]
<1> HIDE DEF t
<1> QED BY <1>2, <1>7, CartLed DEF t

LEMMA RemovedFacts ==
  ASSUME NEW S, NEW list \in Seq(S), NEW n \in DOMAIN list
  PROVE  LET rest == RemoveAt(list, n)
         IN  /\ rest \in Seq(S) /\ DOMAIN rest = 1..(Len(list) - 1)
             /\ \A k \in DOMAIN rest : LET was == IF k < n THEN k ELSE k + 1
                                       IN  was \in DOMAIN list /\ rest[k] = list[was]
<1> DEFINE before == SubSeq(list, 1, n - 1)
           after == SubSeq(list, n + 1, Len(list))
<1>1. n \in 1..Len(list) /\ Len(list) \in Nat /\ DOMAIN list = 1..Len(list) /\ n \in Nat
  OBVIOUS
<1>2. /\ before \in Seq(S) /\ Len(before) = n - 1
      /\ \A k \in 1..(n - 1) : before[k] = list[k]
  BY <1>1
<1>3. /\ after \in Seq(S) /\ Len(after) = Len(list) - n
      /\ \A k \in 1..(Len(list) - n) : after[k] = list[k + n]
  BY <1>1
<1>4. RemoveAt(list, n) = before \o after
  BY DEF RemoveAt
<1> HIDE DEF before, after
<1>5. /\ before \o after \in Seq(S) /\ Len(before \o after) = Len(list) - 1
      /\ \A k \in 1..(Len(list) - 1) :
           (before \o after)[k] = IF k <= n - 1 THEN before[k] ELSE after[k - (n - 1)]
  <2>1. /\ before \o after \in Seq(S) /\ Len(before \o after) = Len(before) + Len(after)
        /\ \A k \in 1..(Len(before) + Len(after)) :
             (before \o after)[k] = IF k <= Len(before) THEN before[k] ELSE after[k - Len(before)]
    BY <1>2, <1>3, ConcatProperties
  <2>2. Len(before) + Len(after) = Len(list) - 1
    BY <1>1, <1>2, <1>3
  <2> QED BY <1>2, <2>1, <2>2
<1>6. ASSUME NEW k \in 1..(Len(list) - 1)
      PROVE  LET was == IF k < n THEN k ELSE k + 1
             IN  was \in DOMAIN list /\ (before \o after)[k] = list[was]
  <2>1. CASE k < n
    <3>1. k \in 1..(n - 1) /\ k <= n - 1 /\ k \in DOMAIN list
      BY <1>1, <2>1
    <3> QED BY <1>2, <1>5, <2>1, <3>1
  <2>2. CASE ~(k < n)
    <3>1. k - (n - 1) \in 1..(Len(list) - n) /\ ~(k <= n - 1) /\ (k - (n - 1)) + n = k + 1 /\ k + 1 \in DOMAIN list
      BY <1>1, <2>2
    <3> QED BY <1>3, <1>5, <2>2, <3>1
  <2> QED BY <2>1, <2>2
<1>7. DOMAIN (before \o after) = 1..(Len(list) - 1)
  BY <1>5
<1> QED BY <1>4, <1>5, <1>6, <1>7

\* A line less; when none is left, the categories.
LEMMA WithoutLineLed ==
  ASSUME GoodSession(sess), sess.state # "SELECTING_OPTIONS", NEW n \in DOMAIN sess.cart, WithoutLine(n)
  PROVE  Led
<1> DEFINE rest == RemoveAt(sess.cart, n)
           t == [sess EXCEPT !.cart = RemoveAt(@, n), !.line = NoLine]
           was(k) == IF k < n THEN k ELSE k + 1
<1>0. sess.cart \in Seq(Lines) /\ LinesDiffer(sess.cart) /\ FreshLines(sess) /\ FreshSelection(sess)
  BY DEF GoodSession, IsSession
<1>1. /\ rest \in Seq(Lines) /\ DOMAIN rest = 1..(Len(sess.cart) - 1)
      /\ \A k \in DOMAIN rest : was(k) \in DOMAIN sess.cart /\ rest[k] = sess.cart[was(k)]
  BY <1>0, RemovedFacts
<1>2. n \in Nat /\ Len(sess.cart) \in Nat
  BY <1>0
<1> HIDE DEF rest
<1>3. \A k, j \in DOMAIN rest : was(k) = was(j) => k = j
  BY <1>1, <1>2
<1> HIDE DEF was
<1>4. LinesDiffer(rest)
  BY <1>0, <1>1, <1>3 DEF LinesDiffer
<1>5. \A k \in DOMAIN rest : rest[k].fresh => AsShown(rest[k])
  BY <1>0, <1>1 DEF FreshLines
<1>6. (IF t.cart = <<>> THEN StartOrdering(t) ELSE ShowCart(t))
  BY DEF WithoutLine
<1>7. IsSession(t) /\ t.state = sess.state /\ t.item = sess.item /\ t.fresh = sess.fresh /\ t.cart = rest
  BY <1>1, <1>4 DEF GoodSession, IsSession, rest
<1> HIDE DEF t
<1>8. GoodSession(t)
  BY <1>0, <1>5, <1>7 DEF GoodSession, FreshSelection, FreshLines
<1> QED BY <1>6, <1>8, StartLed, CartLed

LEMMA AdjustmentStep ==
  ASSUME OrderingInv, OrderingCartItemAdjustment
  PROVE  Led
<1>0. menu \in Menus /\ GoodSession(sess) /\ sess.state = "ADJUSTING_ORDER_ITEM"
  BY DEF OrderingInv, OrderingCartItemAdjustment, Handles
<1>1. PICK n \in Find(sess.cart, sess.line) :
        LET units == sess.cart[n].units
        IN  \/ WithUnits(n, units + 1)
            \/ units > 1 /\ WithUnits(n, units - 1)
            \/ WithoutLine(n)
            \/ ShowUnits(sess)
            \/ ShowCart(sess)
            \/ Repeat(sess)
  BY DEF OrderingCartItemAdjustment
<1>2. n \in DOMAIN sess.cart /\ sess.cart[n].units \in Nat
  <2>1. n \in DOMAIN sess.cart
    BY DEF Find
  <2>2. sess.cart[n] \in Lines
    BY <1>0, <2>1 DEF GoodSession, IsSession
  <2> QED BY <2>1, <2>2 DEF Lines
<1>3. CASE WithUnits(n, sess.cart[n].units + 1)
  BY <1>0, <1>2, <1>3, WithUnitsLed
<1>4. CASE sess.cart[n].units > 1 /\ WithUnits(n, sess.cart[n].units - 1)
  BY <1>0, <1>2, <1>4, WithUnitsLed
<1> QED BY <1>0, <1>1, <1>2, <1>3, <1>4, WithoutLineLed, UnitsLed, CartLed, RepeatLed

LEMMA UnitsStep ==
  ASSUME OrderingInv, OrderingCartItemQuantitySelection
  PROVE  Led
<1>0. menu \in Menus /\ GoodSession(sess)
  BY DEF OrderingInv
<1>1. PICK n \in Find(sess.cart, sess.line) :
        \/ \E units \in 1..MostAsked : WithUnits(n, units)
        \/ ShowActions(sess, sess.cart[n].units)
        \/ Repeat(sess)
  BY DEF OrderingCartItemQuantitySelection
<1>2. n \in DOMAIN sess.cart
  BY DEF Find
<1>3. ASSUME NEW units \in 1..MostAsked, WithUnits(n, units) PROVE Led
  BY <1>0, <1>2, <1>3, WithUnitsLed
<1> QED BY <1>0, <1>1, <1>3, ActionsLed, RepeatLed

---------------------------------------------------------------------------
(* the theorems *)

LEMMA OrderingInitially == OrderingInit => OrderingInv
<1> SUFFICES ASSUME OrderingInit PROVE OrderingInv
  OBVIOUS
<1>1. menu \in Menus /\ sess = NoSession /\ prompt = [kind |-> "menu"]
  BY DEF OrderingInit
<1> QED BY <1>1, NewSession DEF OrderingInv, Answerable, Dialogue

LEMMA EditStep ==
  ASSUME OrderingInv, EditMenu
  PROVE  OrderingInv'
<1> DEFINE row(n) == [sess.cart[n] EXCEPT !.fresh = FALSE]
           cart == [n \in DOMAIN sess.cart |-> row(n)]
           t == [sess EXCEPT !.fresh = FALSE, !.cart = cart]
<1>0. sess.cart \in Seq(Lines) /\ LinesDiffer(sess.cart) /\ IsSession(sess) /\ Answerable(sess, prompt)
  BY DEF OrderingInv, GoodSession, IsSession
<1>1. sess' = [sess EXCEPT !.fresh = FALSE, !.cart = [n \in DOMAIN @ |-> [@[n] EXCEPT !.fresh = FALSE]]]
      /\ menu' \in Menus /\ prompt' = prompt
  BY DEF EditMenu
<1>2. sess' = t
  BY <1>1
<1>3. ASSUME NEW n \in DOMAIN sess.cart
      PROVE  /\ row(n) \in Lines /\ Line(row(n)) = Line(sess.cart[n]) /\ ~row(n).fresh
             /\ row(n).item = sess.cart[n].item /\ row(n).options = sess.cart[n].options
             /\ row(n).units = sess.cart[n].units /\ row(n).price = sess.cart[n].price
  <2> DEFINE l == sess.cart[n]
  <2>1. l \in Lines
    BY <1>0
  <2> HIDE DEF l
  <2>2. [l EXCEPT !.fresh = FALSE] \in Lines
    BY <2>1 DEF Lines
  <2>3. LET r == [l EXCEPT !.fresh = FALSE]
        IN  /\ Line(r) = Line(l) /\ ~r.fresh /\ r.item = l.item /\ r.options = l.options
            /\ r.units = l.units /\ r.price = l.price
    BY <2>1 DEF Lines, Line
  <2> QED BY <2>2, <2>3 DEF l
<1> HIDE DEF row
<1>4. cart \in Seq(Lines) /\ DOMAIN cart = DOMAIN sess.cart /\ \A n \in DOMAIN sess.cart : cart[n] = row(n)
  <2>1. cart \in [DOMAIN sess.cart -> Lines]
    BY <1>3
  <2> QED BY <1>0, <2>1, AsMany
<1> HIDE DEF cart
<1>5. LinesDiffer(cart)
  BY <1>0, <1>3, <1>4 DEF LinesDiffer
<1>6. /\ IsSession(t) /\ ~t.fresh /\ t.cart = cart /\ t.state = sess.state /\ t.step = sess.step
      /\ t.categories = sess.categories /\ t.items = sess.items /\ t.item = sess.item /\ t.line = sess.line
  BY <1>0, <1>4, <1>5 DEF IsSession
<1> HIDE DEF t
<1>7. IsSession(t) /\ ~t.fresh /\ \A n \in DOMAIN t.cart : ~t.cart[n].fresh
  BY <1>3, <1>4, <1>6
<1>8. GoodSession(sess)'
  BY <1>2, <1>7 DEF GoodSession, FreshSelection, FreshLines, IsSession
<1>9. Entries(cart) = Entries(sess.cart)
  BY <1>3, <1>4 DEF Entries
<1>10. Find(cart, sess.line) = Find(sess.cart, sess.line)
       /\ \A n \in DOMAIN sess.cart : cart[n].units = sess.cart[n].units
  BY <1>3, <1>4 DEF Find
<1>11. ASSUME sess.state \in Dialogue, sess.state # "SELECTING_OPTIONS" PROVE Meaning(sess)' = Meaning(sess)
  BY <1>2, <1>6, <1>9, <1>10, <1>11 DEF Meaning, CartOf, LinesOf
<1>12. Answerable(sess, prompt)'
  BY <1>0, <1>1, <1>2, <1>6, <1>11 DEF Answerable
<1> QED BY <1>1, <1>8, <1>12 DEF OrderingInv

LEMMA OrderingKept ==
  ASSUME OrderingInv, [OrderingNext]_orderingVars
  PROVE  OrderingInv'
<1>1. ASSUME UNCHANGED menu, Led PROVE OrderingInv'
  <2>1. ASSUME NEW i, NEW c PROVE Matches(i, c)' = Matches(i, c)
    BY <1>1 DEF Matches, First, CalledSo, HavingIt, GroupsOf
  <2>2. ASSUME NEW i, NEW options PROVE ValidOptions(i, options)' <=> ValidOptions(i, options)
    BY <1>1, <2>1 DEF ValidOptions, GroupsOf
  <2>3. ASSUME NEW i, NEW options PROVE Meant(i, options)' = Meant(i, options)
    BY <2>1 DEF Meant
  <2> QED
    BY <1>1, <2>2, <2>3 DEF OrderingInv, Led, GoodSession, IsSession, FreshSelection, FreshLines, Answerable, Choosing,
                      PickedSoFar, WellNamed, Available, Exists, GroupsOf, AsShown, PricedNow, Acceptable, Meaning
<1>2. CASE MainMenu
  BY <1>1, <1>2, MenuStep DEF MainMenu, Handles
<1>3. CASE OrderingCategorySelection
  BY <1>1, <1>3, CategoryStep DEF OrderingCategorySelection, Handles
<1>4. CASE OrderingItemSelection
  BY <1>1, <1>4, ItemStep DEF OrderingItemSelection, Handles
<1>5. CASE QuantitySelection
  BY <1>1, <1>5, QuantityStep DEF QuantitySelection, Handles
<1>6. CASE OptionSelection
  BY <1>1, <1>6, OptionStep DEF OptionSelection, Handles
<1>7. CASE OrderConfirmation
  BY <1>1, <1>7, ConfirmationStep DEF OrderConfirmation, Handles
<1>8. CASE OrderingCartItemRemoval
  BY <1>1, <1>8, RemovalStep DEF OrderingCartItemRemoval, Handles
<1>9. CASE OrderingCartItemAdjustment
  BY <1>1, <1>9, AdjustmentStep DEF OrderingCartItemAdjustment, Handles
<1>10. CASE OrderingCartItemQuantitySelection
  BY <1>1, <1>10, UnitsStep DEF OrderingCartItemQuantitySelection, Handles
<1>11. CASE Back
  BY <1>1, <1>11, BackLed DEF Back
<1>12. CASE Bootstrap
  BY <1>1, <1>12, RepeatLed DEF Bootstrap, OrderingInv
<1>13. CASE EditMenu
  BY <1>13, EditStep
<1>14. CASE Admitted
  <2>1. Tells([sess EXCEPT !.state = "MAIN_MENU"], "menu") \/ BackToMenu
    BY <1>14 DEF Admitted
  <2> QED BY <1>1, <1>14, <2>1, AtMenu, BackLed DEF Admitted, OrderingInv
<1>15. CASE UNCHANGED <<menu, sess, prompt>>
  BY <1>1, <1>15 DEF Led, OrderingInv
<1> QED BY <1>2, <1>3, <1>4, <1>5, <1>6, <1>7, <1>8, <1>9, <1>10, <1>11, <1>12, <1>13, <1>14, <1>15
        DEF OrderingNext, CloseTab, orderingVars

\* In every reachable state what the guest answers is taken for what it was
\* asked, with the exceptions that the property names (the handlers of
\* handle_whatsapp_ordering.go and their prompts).
THEOREM AnswersUnderstood == OrderingSpec => []AnswerMeansWhatWasAsked
<1>1. OrderingInv => AnswerMeansWhatWasAsked
  BY DEF OrderingInv, Answerable, AnswerMeansWhatWasAsked
<1> QED BY <1>1, OrderingInitially, OrderingKept, PTL DEF OrderingSpec

\* For every menu, what the dialogue let the guest put together passes the
\* validation of CreateOrder as long as nobody edited the menu, where the
\* names of groups and options differ.
THEOREM DialogueOrderable == OrderingSpec => []FreshLineOrderable
<1>1. OrderingInv => FreshLineOrderable
  BY DEF OrderingInv, GoodSession, FreshLines, AsShown, FreshLineOrderable
<1> QED BY <1>1, OrderingInitially, OrderingKept, PTL DEF OrderingSpec


---------------------------------------------------------------------------
(* the orders that are created *)

\* The orders of a cart add up to what it shows.
LEMMA BatchAddsUp ==
  ASSUME NEW cart \in Seq(Lines),
         \A n \in DOMAIN cart : cart[n].fresh /\ WellNamed(cart[n].item) /\ PricedNow(cart[n])
  PROVE  LET batch == Batch(cart)
         IN  SumFunction([d \in DOMAIN batch |-> Subtotal(batch[d])]) = Subtotal(Entries(cart))
<1> DEFINE N == DOMAIN cart
           v == [n \in N |-> cart[n].units * cart[n].price]
           to == [n \in N |-> Destination(cart[n])]
           D == Values(to, N)
           batch == Batch(cart)
           w == [d \in DOMAIN batch |-> Subtotal(batch[d])]
<1>1. IsFiniteSet(N)
  <2>1. N = 1..Len(cart) /\ Len(cart) \in Nat
    OBVIOUS
  <2> QED BY <2>1, FS_Interval
<1>2. ASSUME NEW n \in N
      PROVE  /\ cart[n].units \in Nat /\ cart[n].price \in Int /\ v[n] \in Int
             /\ OrderItem(cart[n]).units = cart[n].units /\ OrderItem(cart[n]).price = cart[n].price
  <2>1. cart[n] \in Lines /\ cart[n].price \in Int
    BY DEF PricedNow
  <2>2. cart[n].units \in Nat
    BY <2>1 DEF Lines
  <2>3. OrderItem(cart[n]).units = cart[n].units
    BY DEF OrderItem
  <2>4. OrderItem(cart[n]).price = menu.items[cart[n].item].price + Extras(Meant(cart[n].item, cart[n].options))
    BY DEF OrderItem
  <2>5. OrderItem(cart[n]).price = cart[n].price
    BY <2>4 DEF PricedNow
  <2>6. cart[n].units * cart[n].price \in Int
    BY <2>1, <2>2
  <2> QED BY <2>1, <2>2, <2>3, <2>5, <2>6
<1>3. DOMAIN batch = D /\ \A d \in D : batch[d] = [n \in LinesTo(cart, d) |-> OrderItem(cart[n])]
  BY DEF Batch, Destinations, Values
<1>4. ASSUME NEW d \in D
      PROVE  w[d] = SumFunctionOnSet(v, PartOf(to, N, d))
  <2> DEFINE part == PartOf(to, N, d)
             u == [n \in part |-> batch[d][n].units * batch[d][n].price]
  <2>1. LinesTo(cart, d) = part
    BY DEF LinesTo, PartOf
  <2>2. batch[d] = [n \in part |-> OrderItem(cart[n])]
    BY <1>3, <2>1
  <2>3. part \in SUBSET N
    BY DEF PartOf
  <2>4. ASSUME NEW n \in part
        PROVE  u[n] = v[n] /\ v[n] \in Int
    <3>1. n \in N /\ u[n] = batch[d][n].units * batch[d][n].price /\ v[n] = cart[n].units * cart[n].price
      BY <2>3
    <3>2. batch[d][n] = OrderItem(cart[n])
      BY <2>2
    <3>3. batch[d][n].units = cart[n].units /\ batch[d][n].price = cart[n].price
      BY <1>2, <3>1, <3>2
    <3> HIDE DEF u, v, part, batch, N
    <3> QED BY <1>2, <3>1, <3>3
  <2>5. DOMAIN batch[d] = part /\ DOMAIN u = part
    BY <2>2
  <2>6. Subtotal(batch[d]) = SumFunctionOnSet(u, part)
    BY <2>5 DEF Subtotal, SumFunction
  <2>7. w[d] = Subtotal(batch[d])
    BY <1>3
  <2>8. IsFiniteSet(part)
    BY <1>1, <2>3, FS_Subset
  <2> HIDE DEF part, u, v, w
  <2>9. SumFunctionOnSet(u, part) = SumFunctionOnSet(v, part)
    BY <2>4, <2>8, SumSame
  <2> QED BY <2>6, <2>7, <2>9 DEF part
<1>5. SumFunction(w) = SumFunctionOnSet(w, D)
  BY <1>3 DEF SumFunction
<1>6. Subtotal(Entries(cart)) = SumFunctionOnSet(v, N)
  <2> DEFINE u == [n \in DOMAIN Entries(cart) |-> Entries(cart)[n].units * Entries(cart)[n].price]
  <2>1. DOMAIN Entries(cart) = N /\ \A n \in N : /\ Entries(cart)[n].units = cart[n].units
                                                 /\ Entries(cart)[n].price = cart[n].price
    BY DEF Entries
  <2>2. DOMAIN u = N /\ u = v
    BY <2>1
  <2>3. Subtotal(Entries(cart)) = SumFunction(u)
    BY DEF Subtotal
  <2>4. DOMAIN v = N
    OBVIOUS
  <2> HIDE DEF u, v
  <2> QED BY <2>2, <2>3, <2>4 DEF SumFunction
<1>7. SumFunctionOnSet(w, D) = SumFunctionOnSet(v, N)
  <2> HIDE DEF v, w, to, N
  <2> QED BY <1>1, <1>2, <1>4, SumByParts
<1> HIDE DEF w, v, D, N
<1> QED BY <1>5, <1>6, <1>7 DEF w

\* Nothing but a created order says that it was sent.
LEMMA StartSays ==
  ASSUME NEW s, StartOrdering(s)
  PROVE  prompt'.kind # "sent"
BY DEF StartOrdering, ShowAllItems, Tells, Shows, CategoryList, ItemList

LEMMA ChangeSays ==
  ASSUME NEW s, ChangeItem(s)
  PROVE  prompt'.kind # "sent"
BY StartSays DEF ChangeItem, OpenCategory, Shows, CategoryList, ItemList

LEMMA RepeatSays ==
  ASSUME NEW s, s.state = "CONFIRMING_ORDER", Repeat(s)
  PROVE  prompt'.kind # "sent"
<1>1. RepeatCart(s)
  BY DEF Repeat
<1> QED BY <1>1, StartSays DEF RepeatCart, ShowCart, Shows, CartOf

LEMMA SentByConfirming ==
  ASSUME OrderingNext, sess.state = "CONFIRMING_ORDER", prompt.kind = "cart", prompt'.kind = "sent"
  PROVE  orders' = Batch(sess.cart)
<1>1. CASE OrderConfirmation
  <2>1. CASE Confirm
    <3>1. ~StartOrdering(sess)
      BY StartSays
    <3>2. ~Tells([NoSession EXCEPT !.state = "WELCOME"], "welcome") /\ ~BackToMenu
      BY DEF Tells, Shows, BackToMenu
    <3>3. CreateOrder(sess.cart, NoSession, [sess EXCEPT !.state = "MAIN_MENU"])
      BY <2>1, <3>1, <3>2 DEF Confirm
    <3>4. ~Tells([sess EXCEPT !.state = "MAIN_MENU"], "refused")
      BY DEF Tells, Shows
    <3> QED BY <3>3, <3>4 DEF CreateOrder
  <2>2. CASE ChangeItem(sess) \/ StartOrdering(sess) \/ Repeat(sess)
    BY <2>2, ChangeSays, StartSays, RepeatSays
  <2>3. CASE ShowLines([sess EXCEPT !.line = NoLine])
    BY <2>3 DEF ShowLines, LinesOf, Shows
  <2> QED BY <1>1, <2>1, <2>2, <2>3 DEF OrderConfirmation
<1>2. CASE Back
  BY <1>2 DEF Back, BackToMenu, Tells, Shows
<1>3. CASE Bootstrap
  BY <1>3, RepeatSays DEF Bootstrap
<1>4. CASE EditMenu \/ CloseTab
  BY <1>4 DEF EditMenu, CloseTab
<1> QED BY <1>1, <1>2, <1>3, <1>4
        DEF OrderingNext, MainMenu, OrderingCategorySelection, OrderingItemSelection, QuantitySelection,
            OptionSelection, OrderingCartItemRemoval, OrderingCartItemAdjustment,
            OrderingCartItemQuantitySelection, Admitted, Handles

\* For every menu, in any number of destinations and whatever the options
\* cost, the orders that confirming a cart creates add up to the subtotal the
\* guest was shown, as long as nobody edited the menu since the items were
\* chosen, where names differ.
THEOREM PricedAsShownHolds == OrderingSpec => PricedAsShown
<1> DEFINE Sending == /\ sess.state = "CONFIRMING_ORDER" /\ prompt.kind = "cart" /\ prompt'.kind = "sent"
                      /\ \A n \in DOMAIN sess.cart : sess.cart[n].fresh /\ WellNamed(sess.cart[n].item)
           AddUp == SumFunction([d \in DOMAIN orders' |-> Subtotal(orders'[d])]) = prompt.subtotal
<1>1. ASSUME OrderingInv, OrderingNext, Sending
      PROVE  AddUp
  <2>1. prompt = CartOf(sess.cart)
    BY <1>1 DEF OrderingInv, Answerable, Dialogue, Meaning
  <2>2. prompt.subtotal = Subtotal(Entries(sess.cart))
    BY <2>1 DEF CartOf
  <2>3. orders' = Batch(sess.cart)
    BY <1>1, SentByConfirming
  <2>4. sess.cart \in Seq(Lines)
    BY <1>1 DEF OrderingInv, GoodSession, IsSession
  <2>5. \A n \in DOMAIN sess.cart : PricedNow(sess.cart[n])
    BY <1>1 DEF OrderingInv, GoodSession, FreshLines, AsShown
  <2>6. LET batch == Batch(sess.cart)
        IN  SumFunction([d \in DOMAIN batch |-> Subtotal(batch[d])]) = Subtotal(Entries(sess.cart))
    BY <1>1, <2>4, <2>5, BatchAddsUp
  <2> QED BY <2>2, <2>3, <2>6
<1>2. OrderingInv /\ [OrderingNext]_orderingVars => [Sending => AddUp]_orderingVars
  BY <1>1
<1> QED BY <1>2, OrderingInitially, OrderingKept, PTL DEF OrderingSpec, PricedAsShown

---------------------------------------------------------------------------
(* the invariant of the wallet *)

\* A row that can be found is no blank; its month has begun; a confirmed one has been paid.
RowOK(p, mo) == /\ p.paid <= mo
                /\ p.status = "CONFIRMED" => p.paid >= 1
                /\ p.found # "no" => p.status # "none"
HasSeen(d) == d.op \in {"notice", "poll"}
About(d, r) == d # Idle /\ d.op \in {"create", "notice", "poll"} /\ d.of = r

DatesInv ==
  /\ \A k \in Months : k > month => logs[k] = 0
  /\ \A r \in Recharges : RowOK(payments[r], month)
  /\ \A h \in Hands : HasSeen(doing[h]) => RowOK(doing[h].seen, month) /\ doing[h].seen.status # "none"
  /\ \A h \in Hands : \A r \in Recharges : About(doing[h], r) => payments[r].status # "none"

OneEach == \A g, h \in Hands : \A r \in Recharges : About(doing[g], r) /\ About(doing[h], r) => g = h

\* What an undisturbed operation remembers is what the tables say.
AgreesWith(d, t, pays) ==
  /\ IsMessage(d) => d.plan = t.plan /\ d.price = t.price /\ (d.at = "debit" => d.plan = "pre_paid")
  /\ d.op = "create" => pays[d.of].status = "PENDING"
  /\ HasSeen(d) /\ d.at # "credit" => d.seen.status = pays[d.of].status /\ d.seen.paid = pays[d.of].paid
AllAgree == \A h \in Hands : AgreesWith(doing[h], tenant, payments)

Unsettled(f) == [h \in Hands |-> UnsettledOf(f[h])]

Balanced == tenant.balance + SumFunctionOnSet(Unsettled(doing), Hands) = LedgerBefore(month + 1)

TrueCycle(m) == Cycle(tenant.plan, LedgerBefore(m), logs[m] * tenant.price, ReceivedIn(payments, m))
FaithfulInv == \A m \in faithful : m < month /\ cycles[m] = TrueCycle(m)

WalletInv ==
  /\ DatesInv
  /\ disturbed => faithful = {}
  /\ ~disturbed => OneEach /\ AllAgree /\ Balanced /\ FaithfulInv

---------------------------------------------------------------------------
(* what a month adds *)

LEMMA MonthsFinite ==
  IsFiniteSet(Months) /\ \A S \in SUBSET Months : IsFiniteSet(S)
<1>1. IsFiniteSet(1..MaxMonth)
  BY WalletAssumption, FS_Interval
<1> QED
  BY <1>1, FS_Subset DEF Months

LEMMA ReceivedType ==
  ASSUME NEW pays, NEW k
  PROVE  ReceivedIn(pays, k) \in Nat
<1> DEFINE R == {r \in Recharges : pays[r].status = "CONFIRMED" /\ pays[r].paid = k}
<1>1. IsFiniteSet(R)
  BY WalletAssumption, FS_Subset
<1>2. Cardinality(R) \in Nat
  BY <1>1, FS_CardinalityType
<1> HIDE DEF R
<1>3. Amount * Cardinality(R) \in Nat
  BY <1>2, WalletAssumption
<1> QED
  BY <1>3 DEF ReceivedIn, R

\* The same rows are confirmed in a month.
LEMMA ReceivedSame ==
  ASSUME NEW pays, NEW qays, NEW k,
         \A r \in Recharges : (pays[r].status = "CONFIRMED" /\ pays[r].paid = k)
                                <=> (qays[r].status = "CONFIRMED" /\ qays[r].paid = k)
  PROVE  ReceivedIn(qays, k) = ReceivedIn(pays, k)
<1>1. {r \in Recharges : qays[r].status = "CONFIRMED" /\ qays[r].paid = k}
        = {r \in Recharges : pays[r].status = "CONFIRMED" /\ pays[r].paid = k}
  OBVIOUS
<1> QED
  BY <1>1 DEF ReceivedIn

\* One more row is.
LEMMA ReceivedMore ==
  ASSUME NEW pays, NEW qays, NEW k, NEW r \in Recharges,
         ~(pays[r].status = "CONFIRMED" /\ pays[r].paid = k),
         qays[r].status = "CONFIRMED" /\ qays[r].paid = k,
         \A s \in Recharges \ {r} : qays[s] = pays[s]
  PROVE  ReceivedIn(qays, k) = ReceivedIn(pays, k) + Amount
<1> DEFINE R == {s \in Recharges : pays[s].status = "CONFIRMED" /\ pays[s].paid = k}
           Q == {s \in Recharges : qays[s].status = "CONFIRMED" /\ qays[s].paid = k}
<1>1. Q = R \cup {r} /\ r \notin R
  OBVIOUS
<1>2. IsFiniteSet(R)
  BY WalletAssumption, FS_Subset
<1>3. ReceivedIn(pays, k) = Amount * Cardinality(R) /\ ReceivedIn(qays, k) = Amount * Cardinality(Q)
  BY DEF ReceivedIn
<1> HIDE DEF R, Q
<1>4. Cardinality(Q) = Cardinality(R) + 1 /\ Cardinality(R) \in Nat
  BY <1>1, <1>2, FS_AddElement, FS_CardinalityType
<1>5. Amount * (Cardinality(R) + 1) = Amount * Cardinality(R) + Amount
  BY <1>4, WalletAssumption
<1> QED
  BY <1>3, <1>4, <1>5

LEMMA NetsType ==
  ASSUME NEW t \in TenantRows, NEW lg \in [Months -> Nat], NEW pays
  PROVE  \A k \in Months : /\ Nets(t, lg, pays)[k] \in Int
                           /\ Nets(t, lg, pays)[k]
                                = ReceivedIn(pays, k) - (IF Prepaid(t) THEN lg[k] * t.price ELSE 0)
<1> TAKE k \in Months
<1>1. lg[k] * t.price \in Int
  <2>1. lg[k] \in Int /\ t.price \in Int
    BY DEF TenantRows
  <2> QED
    BY <2>1
<1>2. ReceivedIn(pays, k) \in Int
  BY ReceivedType
<1>3. Nets(t, lg, pays)[k] = ReceivedIn(pays, k) - (IF Prepaid(t) THEN lg[k] * t.price ELSE 0)
  BY DEF Nets
<1> QED
  BY <1>1, <1>2, <1>3

\* What the months before m add.
Before(m) == {k \in Months : k < m}
NetBefore(t, lg, pays, m) == SumFunctionOnSet(Nets(t, lg, pays), Before(m))

LEMMA LedgerIs ==
  \A m : LedgerBefore(m) = start + unbooked + NetBefore(tenant, logs, payments, m)
  BY DEF LedgerBefore, NetBefore, Before

LEMMA NetType ==
  ASSUME NEW t \in TenantRows, NEW lg \in [Months -> Nat], NEW pays, NEW m
  PROVE  NetBefore(t, lg, pays, m) \in Int
<1>1. IsFiniteSet(Before(m))
  BY MonthsFinite DEF Before
<1>2. \A k \in Before(m) : Nets(t, lg, pays)[k] \in Int
  BY NetsType DEF Before
<1> QED
  BY <1>1, <1>2, SumType DEF NetBefore

\* One more month.
LEMMA NetNext ==
  ASSUME NEW t \in TenantRows, NEW lg \in [Months -> Nat], NEW pays, NEW m \in Months
  PROVE  NetBefore(t, lg, pays, m + 1) = NetBefore(t, lg, pays, m) + Nets(t, lg, pays)[m]
<1>1. IsFiniteSet(Before(m + 1)) /\ m \in Before(m + 1) /\ Before(m + 1) \ {m} = Before(m)
  BY MonthsFinite DEF Before, Months
<1>2. \A k \in Before(m + 1) : Nets(t, lg, pays)[k] \in Int
  BY NetsType DEF Before
<1>3. NetBefore(t, lg, pays, m + 1) = Nets(t, lg, pays)[m] + NetBefore(t, lg, pays, m)
  BY <1>1, <1>2, SumRemove DEF NetBefore
<1> QED
  BY <1>3, NetType, NetsType

\* The months before m have the same figures.
LEMMA NetSame ==
  ASSUME NEW t \in TenantRows, NEW lg \in [Months -> Nat], NEW pays,
         NEW u \in TenantRows, NEW mg \in [Months -> Nat], NEW qays, NEW m,
         u.plan = t.plan, u.price = t.price,
         \A k \in Months : k < m => mg[k] = lg[k] /\ ReceivedIn(qays, k) = ReceivedIn(pays, k)
  PROVE  NetBefore(u, mg, qays, m) = NetBefore(t, lg, pays, m)
<1>1. IsFiniteSet(Before(m))
  BY MonthsFinite DEF Before
<1>2. \A k \in Before(m) : Nets(t, lg, pays)[k] \in Int
  BY NetsType DEF Before
<1>3. \A k \in Before(m) : Nets(t, lg, pays)[k] = Nets(u, mg, qays)[k]
  BY NetsType DEF Before, Prepaid
<1> QED
  BY <1>1, <1>2, <1>3, SumSame DEF NetBefore

\* One month has others, by d.
LEMMA NetChanged ==
  ASSUME NEW t \in TenantRows, NEW lg \in [Months -> Nat], NEW pays,
         NEW mg \in [Months -> Nat], NEW qays, NEW m \in Months, NEW d \in Int,
         \A k \in Months : k < m => mg[k] = lg[k] /\ ReceivedIn(qays, k) = ReceivedIn(pays, k),
         Nets(t, mg, qays)[m] = Nets(t, lg, pays)[m] + d
  PROVE  NetBefore(t, mg, qays, m + 1) = NetBefore(t, lg, pays, m + 1) + d
<1>1. NetBefore(t, mg, qays, m) = NetBefore(t, lg, pays, m)
  BY NetSame
<1>2. /\ NetBefore(t, mg, qays, m + 1) = NetBefore(t, mg, qays, m) + Nets(t, mg, qays)[m]
      /\ NetBefore(t, lg, pays, m + 1) = NetBefore(t, lg, pays, m) + Nets(t, lg, pays)[m]
  BY NetNext
<1>3. NetBefore(t, lg, pays, m) \in Int /\ Nets(t, lg, pays)[m] \in Int
  BY NetType, NetsType
<1> QED
  BY <1>1, <1>2, <1>3

---------------------------------------------------------------------------
(* what may be going on *)

\* Where an operation stands tells what it is.
LEMMA HandAt ==
  ASSUME NEW d, HandTypeOK(d), d # Idle
  PROVE  /\ d.at \in {"send", "reload", "debit", "log"} => d \in MessageHands
         /\ d.at \in {"call", "attempt", "apply"} => d \in CreateHands
         /\ d.at \in {"name", "confirm", "credit"} => d \in NoticeHands
         /\ d.at \in {"ask", "polled"} => d \in PollHands
         /\ d.at = "save" => d \in SaveHands
         /\ d.at = "price" => d \in ReadHands
         /\ d.at = "store" => \E S \in SUBSET Months : d \in StoreHands(S)
<1>1. CASE d \in MessageHands
  BY <1>1 DEF MessageHands
<1>2. CASE d \in CreateHands
  BY <1>2 DEF CreateHands
<1>3. CASE d \in NoticeHands
  BY <1>3 DEF NoticeHands
<1>4. CASE d \in PollHands
  BY <1>4 DEF PollHands
<1>5. CASE d \in SaveHands
  BY <1>5 DEF SaveHands
<1>6. CASE d \in ReadHands
  BY <1>6 DEF ReadHands
<1>7. CASE \E S \in SUBSET Months : d \in StoreHands(S)
  <2>1. d.at = "store"
    BY <1>7 DEF StoreHands
  <2> QED
    BY <1>7, <2>1
<1> QED
  BY <1>1, <1>2, <1>3, <1>4, <1>5, <1>6, <1>7 DEF HandTypeOK

\* What it is tells where it may stand.
LEMMA HandOf ==
  ASSUME NEW d, HandTypeOK(d)
  PROVE  /\ d = Idle <=> d.op = "none"
         /\ IsMessage(d) <=> d \in MessageHands
         /\ d.op = "create" <=> d \in CreateHands
         /\ d.op = "notice" <=> d \in NoticeHands
         /\ d.op = "poll" <=> d \in PollHands
         /\ d.op = "save" <=> d \in SaveHands
         /\ d.op = "page" <=> d \in ReadHands \/ \E S \in SUBSET Months : d \in StoreHands(S)
<1>0. d = Idle => d.op = "none"
  BY DEF Idle
<1>1. d \in MessageHands => d.op \in {"text", "interactive", "inbound"}
  BY DEF MessageHands
<1>2. d \in CreateHands => d.op = "create"
  BY DEF CreateHands
<1>3. d \in NoticeHands => d.op = "notice"
  BY DEF NoticeHands
<1>4. d \in PollHands => d.op = "poll"
  BY DEF PollHands
<1>5. d \in SaveHands => d.op = "save"
  BY DEF SaveHands
<1>6. d \in ReadHands => d.op = "page"
  BY DEF ReadHands
<1>7. (\E S \in SUBSET Months : d \in StoreHands(S)) => d.op = "page"
  BY DEF StoreHands
<1>8. d = Idle \/ d \in MessageHands \/ d \in CreateHands \/ d \in NoticeHands \/ d \in PollHands
        \/ d \in SaveHands \/ d \in ReadHands \/ \E S \in SUBSET Months : d \in StoreHands(S)
  BY DEF HandTypeOK
<1> DEFINE Storing == \E S \in SUBSET Months : d \in StoreHands(S)
<1> HIDE DEF Storing
<1>9. Storing => d.op = "page"
  BY <1>7 DEF Storing
<1>10. d = Idle \/ d \in MessageHands \/ d \in CreateHands \/ d \in NoticeHands \/ d \in PollHands
        \/ d \in SaveHands \/ d \in ReadHands \/ Storing
  BY <1>8 DEF Storing
<1>11. /\ d = Idle <=> d.op = "none"
       /\ IsMessage(d) <=> d \in MessageHands
       /\ d.op = "create" <=> d \in CreateHands
       /\ d.op = "notice" <=> d \in NoticeHands
       /\ d.op = "poll" <=> d \in PollHands
       /\ d.op = "save" <=> d \in SaveHands
       /\ d.op = "page" <=> d \in ReadHands \/ Storing
  BY <1>0, <1>1, <1>2, <1>3, <1>4, <1>5, <1>6, <1>9, <1>10 DEF IsMessage
<1> QED
  BY <1>11 DEF Storing

\* One hand changes.
LEMMA OneHand ==
  ASSUME WalletTypeOK, NEW h \in Hands, NEW d, HandTypeOK(d), doing' = [doing EXCEPT ![h] = d]
  PROVE  /\ doing' = [g \in Hands |-> doing'[g]]
         /\ \A g \in Hands : HandTypeOK(doing'[g])
         /\ doing'[h] = d
         /\ \A g \in Hands \ {h} : doing'[g] = doing[g]
<1>1. doing = [g \in Hands |-> doing[g]] /\ \A g \in Hands : HandTypeOK(doing[g])
  BY DEF WalletTypeOK
<1>2. DOMAIN doing = Hands
  BY <1>1
<1>3. /\ doing' = [g \in Hands |-> doing'[g]]
      /\ doing'[h] = d
      /\ \A g \in Hands \ {h} : doing'[g] = doing[g]
  BY <1>2
<1>4. \A g \in Hands : HandTypeOK(doing'[g])
  BY <1>1, <1>3
<1> QED
  BY <1>3, <1>4

LEMMA MessageOK ==
  ASSUME NEW d \in MessageHands, NEW at \in {"send", "reload", "debit", "log"}
  PROVE  [d EXCEPT !.at = at] \in MessageHands /\ HandTypeOK([d EXCEPT !.at = at])
<1>1. [d EXCEPT !.at = at] \in MessageHands
  BY DEF MessageHands
<1> QED
  BY <1>1 DEF HandTypeOK

\* An operation goes on as d.
Sets(h, d) ==
  /\ HandTypeOK(d)
  /\ doing' = [g \in Hands |-> doing'[g]]
  /\ \A g \in Hands : HandTypeOK(doing'[g])
  /\ doing'[h] = d
  /\ \A g \in Hands \ {h} : doing'[g] = doing[g]

LEMMA HandSets ==
  ASSUME WalletTypeOK, NEW h \in Hands, NEW d, HandTypeOK(d), doing' = [doing EXCEPT ![h] = d]
  PROVE  Sets(h, d)
  BY OneHand DEF Sets

LEMMA HandGoes ==
  ASSUME WalletTypeOK, NEW h \in Hands, NEW at, HandTypeOK([doing[h] EXCEPT !.at = at]), Go(h, at)
  PROVE  Sets(h, [doing[h] EXCEPT !.at = at])
<1>1. doing = [g \in Hands |-> doing[g]]
  BY DEF WalletTypeOK
<1>2. doing' = [doing EXCEPT ![h] = [doing[h] EXCEPT !.at = at]]
  BY <1>1 DEF Go
<1> QED
  BY <1>2, HandSets

LEMMA HandDone ==
  ASSUME WalletTypeOK, NEW h \in Hands, Done(h)
  PROVE  Sets(h, Idle)
<1>1. HandTypeOK(Idle)
  BY DEF HandTypeOK
<1> QED
  BY <1>1, HandSets DEF Done

LEMMA HandHere ==
  ASSUME WalletTypeOK, NEW h \in Hands
  PROVE  HandTypeOK(doing[h])
  BY DEF WalletTypeOK

LEMMA BillingAt == \A d : Billing(d) \in {"debit", "log"}
  BY DEF Billing

\* A message is prepared with the plan and the price read.
LEMMA MessageBegins ==
  ASSUME WalletTypeOK, NEW op \in {"text", "interactive", "inbound"}, NEW at \in {"send", "debit", "log"}
  PROVE  LET d == [op |-> op, at |-> at, plan |-> tenant.plan, price |-> tenant.price]
         IN d \in MessageHands /\ HandTypeOK(d)
  BY DEF WalletTypeOK, TenantRows, MessageHands, HandTypeOK

LEMMA StartTextSets ==
  ASSUME WalletTypeOK, NEW h \in Hands, StartText(h)
  PROVE  \/ UNCHANGED doing
         \/ Sets(h, [op |-> "text", at |-> "send", plan |-> tenant.plan, price |-> tenant.price])
  BY MessageBegins, HandSets DEF StartText, Begin

LEMMA StartInteractiveSets ==
  ASSUME WalletTypeOK, NEW h \in Hands, StartInteractive(h)
  PROVE  \/ UNCHANGED doing
         \/ Sets(h, [op |-> "interactive", at |-> "send", plan |-> tenant.plan, price |-> tenant.price])
  BY MessageBegins, HandSets DEF StartInteractive, Begin

LEMMA InboundSets ==
  ASSUME WalletTypeOK, NEW h \in Hands, Inbound(h)
  PROVE  \/ UNCHANGED doing
         \/ Sets(h, [op |-> "inbound", at |-> IF tenant.plan = "pre_paid" THEN "debit" ELSE "log",
                     plan |-> tenant.plan, price |-> tenant.price])
<1> DEFINE d == [op |-> "inbound", at |-> "log", plan |-> tenant.plan, price |-> tenant.price]
           e == [op |-> "inbound", at |-> IF tenant.plan = "pre_paid" THEN "debit" ELSE "log",
                 plan |-> tenant.plan, price |-> tenant.price]
<1>1. [d EXCEPT !.at = Billing(d)] = e
  BY DEF Billing
<1>2. HandTypeOK(e)
  BY MessageBegins
<1>3. UNCHANGED doing \/ Begin(h, [d EXCEPT !.at = Billing(d)])
  BY DEF Inbound
<1>4. UNCHANGED doing \/ doing' = [doing EXCEPT ![h] = e]
  BY <1>1, <1>3 DEF Begin
<1> QED
  BY <1>2, <1>4, HandSets

LEMMA SendSets ==
  ASSUME WalletTypeOK, NEW h \in Hands, Send(h)
  PROVE  /\ doing[h] \in MessageHands /\ doing[h].at = "send"
         /\ \/ Sets(h, Idle)
            \/ Sets(h, [doing[h] EXCEPT !.at = "reload"])
            \/ Sets(h, [doing[h] EXCEPT !.at = Billing(doing[h])])
<1>1. doing[h] \in MessageHands /\ doing[h].at = "send"
  BY HandHere, HandAt DEF Send
<1>2. /\ HandTypeOK([doing[h] EXCEPT !.at = "reload"])
      /\ HandTypeOK([doing[h] EXCEPT !.at = Billing(doing[h])])
  BY <1>1, MessageOK, BillingAt
<1>3. Done(h) \/ Go(h, "reload") \/ Go(h, Billing(doing[h]))
  BY DEF Send
<1> QED
  BY <1>1, <1>2, <1>3, HandDone, HandGoes

LEMMA ReloadSets ==
  ASSUME WalletTypeOK, NEW h \in Hands, Reload(h)
  PROVE  LET d == [doing[h] EXCEPT !.plan = tenant.plan, !.price = tenant.price]
         IN /\ doing[h] \in MessageHands /\ doing[h].at = "reload"
            /\ d \in MessageHands
            /\ Sets(h, [d EXCEPT !.at = Billing(d)])
<1> DEFINE d == [doing[h] EXCEPT !.plan = tenant.plan, !.price = tenant.price]
<1>1. doing[h] \in MessageHands /\ doing[h].at = "reload"
  BY HandHere, HandAt DEF Reload
<1>2. d \in MessageHands
  BY <1>1 DEF MessageHands, WalletTypeOK, TenantRows
<1>3. Begin(h, [d EXCEPT !.at = Billing(d)])
  BY DEF Reload
<1> HIDE DEF d
<1>4. HandTypeOK([d EXCEPT !.at = Billing(d)])
  BY <1>2, MessageOK, BillingAt
<1>5. Sets(h, [d EXCEPT !.at = Billing(d)])
  BY <1>3, <1>4, HandSets DEF Begin
<1> QED
  BY <1>1, <1>2, <1>5 DEF d

LEMMA DebitSets ==
  ASSUME WalletTypeOK, NEW h \in Hands, DeductWalletBalance(h)
  PROVE  /\ doing[h] \in MessageHands /\ doing[h].at = "debit"
         /\ Sets(h, [doing[h] EXCEPT !.at = "log"])
<1>1. doing[h] \in MessageHands /\ doing[h].at = "debit"
  BY HandHere, HandAt DEF DeductWalletBalance
<1>2. HandTypeOK([doing[h] EXCEPT !.at = "log"])
  BY <1>1, MessageOK
<1> QED
  BY <1>1, <1>2, HandGoes DEF DeductWalletBalance

LEMMA LogSets ==
  ASSUME WalletTypeOK, NEW h \in Hands, SaveLog(h)
  PROVE  doing[h] \in MessageHands /\ doing[h].at = "log" /\ Sets(h, Idle)
  BY HandHere, HandAt, HandDone DEF SaveLog

LEMMA CreateSets ==
  ASSUME WalletTypeOK, NEW h \in Hands, NEW r \in Recharges, CreatePixPayment(h, r)
  PROVE  Sets(h, [op |-> "create", at |-> "call", of |-> r, answer |-> "none"])
<1>1. HandTypeOK([op |-> "create", at |-> "call", of |-> r, answer |-> "none"])
  BY DEF HandTypeOK, CreateHands
<1> QED
  BY <1>1, HandSets DEF CreatePixPayment, Begin

LEMMA CallSets ==
  ASSUME WalletTypeOK, NEW h \in Hands, CallProvider(h)
  PROVE  /\ doing[h] \in CreateHands /\ doing[h].at = "call"
         /\ \/ Sets(h, Idle)
            \/ \E s \in {"pending", "rejected"} : Sets(h, [doing[h] EXCEPT !.at = "attempt", !.answer = s])
<1>1. doing[h] \in CreateHands /\ doing[h].at = "call"
  BY HandHere, HandAt DEF CallProvider
<1>2. \A s \in {"pending", "rejected"} : HandTypeOK([doing[h] EXCEPT !.at = "attempt", !.answer = s])
  BY <1>1 DEF HandTypeOK, CreateHands
<1>3. doing = [g \in Hands |-> doing[g]]
  BY DEF WalletTypeOK
<1>4. ASSUME NEW s \in {"pending", "rejected"}, doing' = [doing EXCEPT ![h].at = "attempt", ![h].answer = s]
      PROVE  Sets(h, [doing[h] EXCEPT !.at = "attempt", !.answer = s])
  <2>1. doing' = [doing EXCEPT ![h] = [doing[h] EXCEPT !.at = "attempt", !.answer = s]]
    BY <1>3, <1>4
  <2> QED
    BY <1>2, <2>1, HandSets
<1>5. Done(h) \/ \E s \in {"pending", "rejected"} : doing' = [doing EXCEPT ![h].at = "attempt", ![h].answer = s]
  BY DEF CallProvider
<1> QED
  BY <1>1, <1>4, <1>5, HandDone

LEMMA AttemptSets ==
  ASSUME WalletTypeOK, NEW h \in Hands, ApplyAttempt(h)
  PROVE  /\ doing[h] \in CreateHands /\ doing[h].at = "attempt"
         /\ Sets(h, [doing[h] EXCEPT !.at = "apply"])
<1>1. doing[h] \in CreateHands /\ doing[h].at = "attempt"
  BY HandHere, HandAt DEF ApplyAttempt
<1>2. HandTypeOK([doing[h] EXCEPT !.at = "apply"])
  BY <1>1 DEF HandTypeOK, CreateHands
<1> QED
  BY <1>1, <1>2, HandGoes DEF ApplyAttempt

LEMMA ApplySets ==
  ASSUME WalletTypeOK, NEW h \in Hands, ApplyPayment(h)
  PROVE  doing[h] \in CreateHands /\ doing[h].at = "apply" /\ Sets(h, Idle)
  BY HandHere, HandAt, HandDone DEF ApplyPayment

LEMMA NoticeSets ==
  ASSUME WalletTypeOK, NEW h \in Hands, NEW r \in Recharges, HandleWebhook(h, r)
  PROVE  Sets(h, [op |-> "notice", of |-> r, seen |-> payments[r],
                  at |-> IF payments[r].found = "attempt" THEN "name" ELSE "confirm"])
<1> DEFINE d == [op |-> "notice", of |-> r, seen |-> payments[r],
                 at |-> IF payments[r].found = "attempt" THEN "name" ELSE "confirm"]
<1>1. payments[r] \in PaymentRows
  BY DEF WalletTypeOK
<1>2. d \in NoticeHands
  BY <1>1 DEF NoticeHands
<1>3. HandTypeOK(d)
  BY <1>2 DEF HandTypeOK
<1>4. doing' = [doing EXCEPT ![h] = d]
  BY DEF HandleWebhook, Begin
<1> QED
  BY <1>3, <1>4, HandSets

LEMMA NameSets ==
  ASSUME WalletTypeOK, NEW h \in Hands, NamePayment(h)
  PROVE  /\ doing[h] \in NoticeHands /\ doing[h].at = "name"
         /\ Sets(h, [doing[h] EXCEPT !.at = "confirm"])
<1>1. doing[h] \in NoticeHands /\ doing[h].at = "name"
  BY HandHere, HandAt DEF NamePayment
<1>2. HandTypeOK([doing[h] EXCEPT !.at = "confirm"])
  BY <1>1 DEF HandTypeOK, NoticeHands
<1> QED
  BY <1>1, <1>2, HandGoes DEF NamePayment

LEMMA ConfirmSets ==
  ASSUME WalletTypeOK, NEW h \in Hands, ConfirmRecharge(h)
  PROVE  /\ doing[h] \in NoticeHands /\ doing[h].at = "confirm"
         /\ IF doing[h].seen.status = "CONFIRMED" THEN Sets(h, Idle)
            ELSE Sets(h, [doing[h] EXCEPT !.at = "credit"])
<1>1. doing[h] \in NoticeHands /\ doing[h].at = "confirm"
  BY HandHere, HandAt DEF ConfirmRecharge
<1>2. HandTypeOK([doing[h] EXCEPT !.at = "credit"])
  BY <1>1 DEF HandTypeOK, NoticeHands
<1> QED
  BY <1>1, <1>2, HandGoes, HandDone DEF ConfirmRecharge

LEMMA CreditSets ==
  ASSUME WalletTypeOK, NEW h \in Hands, Credit(h)
  PROVE  doing[h] \in NoticeHands /\ doing[h].at = "credit" /\ Sets(h, Idle)
  BY HandHere, HandAt, HandDone DEF Credit

LEMMA PollSets ==
  ASSUME WalletTypeOK, NEW h \in Hands, NEW r \in Recharges, GetPaymentStatus(h, r)
  PROVE  Sets(h, [op |-> "poll", at |-> "ask", of |-> r, seen |-> payments[r], answer |-> "none"])
<1> DEFINE d == [op |-> "poll", at |-> "ask", of |-> r, seen |-> payments[r], answer |-> "none"]
<1>1. payments[r] \in PaymentRows
  BY DEF WalletTypeOK
<1>2. d \in PollHands
  BY <1>1 DEF PollHands
<1>3. HandTypeOK(d)
  BY <1>2 DEF HandTypeOK
<1>4. doing' = [doing EXCEPT ![h] = d]
  BY DEF GetPaymentStatus, Begin
<1> QED
  BY <1>3, <1>4, HandSets

LEMMA AskSets ==
  ASSUME WalletTypeOK, NEW h \in Hands, Ask(h)
  PROVE  /\ doing[h] \in PollHands /\ doing[h].at = "ask"
         /\ \/ Sets(h, Idle)
            \/ Sets(h, [doing[h] EXCEPT !.at = "polled", !.answer = provider[doing[h].of]])
<1>1. doing[h] \in PollHands /\ doing[h].at = "ask"
  BY HandHere, HandAt DEF Ask
<1> DEFINE d == [doing[h] EXCEPT !.at = "polled", !.answer = provider[doing[h].of]]
<1>2. provider[doing[h].of] \in {"none", "pending", "approved", "rejected"}
  BY <1>1 DEF WalletTypeOK, PollHands
<1>3. d \in PollHands
  BY <1>1, <1>2 DEF PollHands
<1>4. HandTypeOK(d)
  BY <1>3 DEF HandTypeOK
<1>5. doing = [g \in Hands |-> doing[g]]
  BY DEF WalletTypeOK
<1>6. Done(h) \/ doing' = [doing EXCEPT ![h].at = "polled", ![h].answer = provider[doing[h].of]]
  BY DEF Ask
<1>7. Done(h) \/ doing' = [doing EXCEPT ![h] = d]
  BY <1>5, <1>6
<1> QED
  BY <1>1, <1>4, <1>7, HandSets, HandDone

LEMMA RefreshSets ==
  ASSUME WalletTypeOK, NEW h \in Hands, RefreshPaymentStatus(h)
  PROVE  doing[h] \in PollHands /\ doing[h].at = "polled" /\ Sets(h, Idle)
  BY HandHere, HandAt, HandDone DEF RefreshPaymentStatus

LEMMA LoadSets ==
  ASSUME WalletTypeOK, NEW h \in Hands, LoadTenant(h)
  PROVE  Sets(h, [op |-> "save", at |-> "save", row |-> tenant])
<1>1. HandTypeOK([op |-> "save", at |-> "save", row |-> tenant])
  BY DEF HandTypeOK, SaveHands, WalletTypeOK
<1> QED
  BY <1>1, HandSets DEF LoadTenant, Begin

\* Every save writes the row it read, with the grant and plan or price of its own.
LEMMA SaveSets ==
  ASSUME WalletTypeOK, NEW h \in Hands, UpdateWallet(h) \/ UpdateTenant(h) \/ SaveSettings(h)
  PROVE  /\ doing[h] \in SaveHands
         /\ Sets(h, Idle)
         /\ \E grant \in {0, 1}, row \in TenantRows :
              row.balance = doing[h].row.balance + grant /\ SaveTenant(h, row, grant)
<1>1. doing[h] \in SaveHands /\ doing[h].at = "save"
  BY HandHere, HandAt DEF UpdateWallet, UpdateTenant, SaveSettings
<1>2. doing[h].row \in TenantRows
  BY <1>1 DEF SaveHands
<1> DEFINE row == doing[h].row
<1> HIDE DEF row
<1>a. row \in TenantRows
  BY <1>2 DEF row
<1>b. \A grant \in {0, 1}, plan \in Plans :
        LET new == [row EXCEPT !.balance = @ + grant, !.plan = plan]
        IN new \in TenantRows /\ new.balance = row.balance + grant
  <2> TAKE grant \in {0, 1}, plan \in Plans
  <2>1. row.balance \in Int /\ row.balance + grant \in Int
    BY <1>a DEF TenantRows
  <2> QED
    BY <1>a, <2>1 DEF TenantRows
<1>c. \A p \in {1, 2} : [row EXCEPT !.price = p] \in TenantRows /\ [row EXCEPT !.price = p].balance = row.balance + 0
  <2>1. row.balance + 0 = row.balance
    BY <1>a DEF TenantRows
  <2> QED
    BY <1>a, <2>1 DEF TenantRows
<1>d. row.balance = row.balance + 0
  BY <1>a DEF TenantRows
<1>3. /\ \A grant \in {0, 1}, plan \in Plans :
           /\ [row EXCEPT !.balance = @ + grant, !.plan = plan] \in TenantRows
           /\ [row EXCEPT !.balance = @ + grant, !.plan = plan].balance = row.balance + grant
      /\ \A p \in {1, 2} : /\ [row EXCEPT !.price = p] \in TenantRows
                           /\ [row EXCEPT !.price = p].balance = row.balance + 0
      /\ row.balance = row.balance + 0
  BY <1>b, <1>c, <1>d
<1>4. CASE UpdateWallet(h)
  <2>1. PICK grant \in {0, 1}, plan \in Plans :
          SaveTenant(h, [row EXCEPT !.balance = @ + grant, !.plan = plan], grant)
    BY <1>4 DEF UpdateWallet, Plans, row
  <2> QED
    BY <2>1, <1>1, <1>3, HandDone DEF SaveTenant, row
<1>5. CASE UpdateTenant(h)
  <2>1. PICK p \in {1, 2} : SaveTenant(h, [row EXCEPT !.price = p], 0)
    BY <1>5 DEF UpdateTenant, row
  <2> QED
    BY <2>1, <1>1, <1>3, HandDone DEF SaveTenant, row
<1>6. CASE SaveSettings(h)
  <2>1. SaveTenant(h, row, 0)
    BY <1>6 DEF SaveSettings, row
  <2> QED
    BY <2>1, <1>1, <1>2, <1>3, HandDone DEF SaveTenant, row
<1> QED
  BY <1>4, <1>5, <1>6

---------------------------------------------------------------------------
(* types *)

\* The sums the page subtracts are those of the ledger, before payment.
LEMMA NetOfType ==
  ASSUME NEW c \in Int, NEW lg \in [Months -> Nat], NEW pays
  PROVE  \A k \in Months : NetOf(c, lg, pays)[k] \in Int
                           /\ NetOf(c, lg, pays)[k] = ReceivedIn(pays, k) - lg[k] * c
<1> TAKE k \in Months
<1>1. lg[k] * c \in Int
  <2>1. lg[k] \in Int
    OBVIOUS
  <2> QED
    BY <2>1
<1>2. ReceivedIn(pays, k) \in Int
  BY ReceivedType
<1>3. NetOf(c, lg, pays)[k] = ReceivedIn(pays, k) - lg[k] * c
  BY DEF NetOf
<1> QED
  BY <1>1, <1>2, <1>3

LEMMA CycleType ==
  ASSUME NEW p, NEW o \in Int, NEW c \in Int, NEW r \in Int
  PROVE  Cycle(p, o, c, r) \in CycleRows
<1>1. \A a, b \in Int : Larger(a, b) \in Int /\ Smaller(a, b) \in Int
  BY DEF Larger, Smaller
<1> DEFINE S == {"none", "attention", "idle", "covered_by_balance", "received", "partial", "open"}
<1>2. \A a, b, d, e : PrePaidStatus(a, b, d, e) \in S
  BY DEF PrePaidStatus
<1>3. \A a, b, d : PostPaidStatus(a, b, d) \in S
  BY DEF PostPaidStatus
<1> HIDE DEF S
<1>4. PrePaidCycle(o, c, r) \in CycleRows
  <2> DEFINE settled == Smaller(c, Larger(0, o) + r)
             covered == Larger(0, settled - Smaller(c, r))
  <2>1. settled \in Int
    BY <1>1
  <2> DEFINE status == PrePaidStatus(c, r, covered, c - settled)
  <2>2. status \in S
    BY <1>2
  <2>3. PrePaidCycle(o, c, r) = [opening |-> o, closing |-> o + r - c, charged |-> c, received |-> r,
                                 outstanding |-> c - settled, status |-> status]
    BY DEF PrePaidCycle
  <2> HIDE DEF settled, status
  <2> QED
    BY <2>1, <2>2, <2>3 DEF CycleRows, S
<1>5. PostPaidCycle(c, r) \in CycleRows
  <2> DEFINE outstanding == Larger(0, c - r)
             status == PostPaidStatus(c, r, outstanding)
  <2>1. outstanding \in Int /\ status \in S
    BY <1>1, <1>3
  <2>2. PostPaidCycle(c, r) = [opening |-> 0, closing |-> 0, charged |-> c, received |-> r,
                               outstanding |-> outstanding, status |-> status]
    BY DEF PostPaidCycle
  <2> HIDE DEF outstanding, status
  <2> QED
    BY <2>1, <2>2 DEF CycleRows, S
<1> QED
  BY <1>4, <1>5 DEF Cycle

LEMMA CyclesType ==
  ASSUME NEW b \in Int, NEW p, NEW c \in Int, NEW lg \in [Months -> Nat], NEW pays, NEW mo
  PROVE  buildWalletBillingCycles(b, p, c, lg, pays, mo) \in [ReferenceMonths(mo) -> CycleRows]
<1>1. ReferenceMonths(mo) \subseteq Months
  BY DEF ReferenceMonths
<1>2. ASSUME NEW m \in ReferenceMonths(mo)
      PROVE  Cycle(p, b - SumFunctionOnSet(NetOf(c, lg, pays), {k \in ReferenceMonths(mo) : k >= m}),
                   lg[m] * c, ReceivedIn(pays, m)) \in CycleRows
  <2> DEFINE S == {k \in ReferenceMonths(mo) : k >= m}
  <2>1. IsFiniteSet(S) /\ \A k \in S : NetOf(c, lg, pays)[k] \in Int
    BY <1>1, MonthsFinite, NetOfType
  <2> HIDE DEF S
  <2>2. SumFunctionOnSet(NetOf(c, lg, pays), S) \in Int
    BY <2>1, SumType
  <2>3. b - SumFunctionOnSet(NetOf(c, lg, pays), S) \in Int
    BY <2>2
  <2>4. lg[m] * c \in Int
    <3>1. lg[m] \in Int
      BY <1>1
    <3> QED
      BY <3>1
  <2>5. ReceivedIn(pays, m) \in Int
    BY ReceivedType
  <2> QED
    BY <2>3, <2>4, <2>5, CycleType DEF S
<1> QED
  BY <1>2 DEF buildWalletBillingCycles

LEMMA GetBalanceSets ==
  ASSUME WalletTypeOK, NEW h \in Hands, GetBalance(h)
  PROVE  Sets(h, [op |-> "page", at |-> "price", balance |-> tenant.balance, plan |-> tenant.plan])
<1>1. HandTypeOK([op |-> "page", at |-> "price", balance |-> tenant.balance, plan |-> tenant.plan])
  BY DEF HandTypeOK, ReadHands, WalletTypeOK, TenantRows
<1> QED
  BY <1>1, HandSets DEF GetBalance, Begin

LEMMA ReadSets ==
  ASSUME WalletTypeOK, NEW h \in Hands, ReadTables(h)
  PROVE  \E page : Sets(h, [op |-> "page", at |-> "store", rows |-> page])
<1>1. doing[h] \in ReadHands
  BY HandHere, HandAt DEF ReadTables
<1> DEFINE page == buildWalletBillingCycles(doing[h].balance, doing[h].plan, tenant.price, logs, payments, month)
<1>2. page \in [ReferenceMonths(month) -> CycleRows]
  BY <1>1, CyclesType DEF ReadHands, WalletTypeOK, TenantRows
<1>3. ReferenceMonths(month) \in SUBSET Months
  BY DEF ReferenceMonths
<1>4. doing' = [doing EXCEPT ![h] = [op |-> "page", at |-> "store", rows |-> page]]
  BY DEF ReadTables, Begin
<1> HIDE DEF page
<1>5. [op |-> "page", at |-> "store", rows |-> page] \in StoreHands(ReferenceMonths(month))
  BY <1>2 DEF StoreHands
<1>6. HandTypeOK([op |-> "page", at |-> "store", rows |-> page])
  BY <1>3, <1>5 DEF HandTypeOK
<1>7. Sets(h, [op |-> "page", at |-> "store", rows |-> page])
  BY <1>4, <1>6, HandSets
<1> QED
  BY <1>7

LEMMA SyncSets ==
  ASSUME WalletTypeOK, NEW h \in Hands, syncWalletBillingCycles(h)
  PROVE  /\ doing[h].op = "page"
         /\ \E S \in SUBSET Months : doing[h].rows \in [S -> CycleRows]
         /\ Sets(h, Idle)
<1>1. \E S \in SUBSET Months : doing[h] \in StoreHands(S)
  BY HandHere, HandAt DEF syncWalletBillingCycles
<1>2. doing[h].op = "page" /\ \E S \in SUBSET Months : doing[h].rows \in [S -> CycleRows]
  BY <1>1 DEF StoreHands
<1> QED
  BY <1>2, HandDone DEF syncWalletBillingCycles

LEMMA FailsSets ==
  ASSUME WalletTypeOK, NEW h \in Hands, Fails(h)
  PROVE  Sets(h, Idle)
<1>1. HandTypeOK(Idle)
  BY DEF HandTypeOK
<1> QED
  BY <1>1, HandSets DEF Fails, Skips, Begin

\* One statement further, with what it knew.
Further(d, e) ==
  \/ /\ d \in MessageHands /\ e \in MessageHands /\ e.at = "log" /\ e.plan = d.plan /\ e.price = d.price
  \/ d \in CreateHands /\ e \in CreateHands /\ e.of = d.of
  \/ d \in NoticeHands /\ d.at # "credit" /\ e \in NoticeHands /\ e.of = d.of /\ e.seen = d.seen

LEMMA OverlooksSets ==
  ASSUME WalletTypeOK, NEW h \in Hands, Overlooks(h)
  PROVE  \E d : Skips(h, d) /\ Sets(h, d) /\ Further(doing[h], d)
<1>0. HandTypeOK(doing[h]) /\ doing[h] # Idle
  BY HandHere DEF Overlooks
<1>1. ASSUME NEW at, Skips(h, [doing[h] EXCEPT !.at = at]),
             HandTypeOK([doing[h] EXCEPT !.at = at]), Further(doing[h], [doing[h] EXCEPT !.at = at])
      PROVE  \E d : Skips(h, d) /\ Sets(h, d) /\ Further(doing[h], d)
  <2> DEFINE d == [doing[h] EXCEPT !.at = at]
  <2>1. Skips(h, d) /\ HandTypeOK(d) /\ Further(doing[h], d)
    BY <1>1
  <2> HIDE DEF d
  <2>2. Sets(h, d)
    BY <2>1, HandSets DEF Skips, Begin
  <2> QED
    BY <2>1, <2>2
<1>2. CASE doing[h].at \in {"reload", "debit"} /\ Skips(h, [doing[h] EXCEPT !.at = "log"])
  <2>1. doing[h] \in MessageHands
    BY <1>0, <1>2, HandAt
  <2>2. Further(doing[h], [doing[h] EXCEPT !.at = "log"])
    BY <2>1 DEF Further, MessageHands
  <2> QED
    BY <1>1, <1>2, <2>1, <2>2, MessageOK
<1>3. CASE doing[h].at = "attempt" /\ Skips(h, [doing[h] EXCEPT !.at = "apply"])
  <2>1. doing[h] \in CreateHands
    BY <1>0, <1>3, HandAt
  <2>2. [doing[h] EXCEPT !.at = "apply"] \in CreateHands /\ [doing[h] EXCEPT !.at = "apply"].of = doing[h].of
    BY <2>1 DEF CreateHands
  <2> QED
    BY <1>1, <1>3, <2>1, <2>2 DEF Further, HandTypeOK
<1>4. ASSUME NEW at \in {"confirm", "credit"}, doing[h].at \in {"name", "confirm"},
             Skips(h, [doing[h] EXCEPT !.at = at])
      PROVE  \E d : Skips(h, d) /\ Sets(h, d) /\ Further(doing[h], d)
  <2>1. doing[h] \in NoticeHands
    BY <1>0, <1>4, HandAt
  <2>2. LET e == [doing[h] EXCEPT !.at = at]
        IN  e \in NoticeHands /\ e.of = doing[h].of /\ e.seen = doing[h].seen
    BY <2>1 DEF NoticeHands
  <2>3. doing[h].at # "credit"
    BY <1>4
  <2> QED
    BY <1>1, <1>4, <2>1, <2>2, <2>3 DEF Further, HandTypeOK
<1>5. \/ doing[h].at \in {"reload", "debit"} /\ Skips(h, [doing[h] EXCEPT !.at = "log"])
      \/ doing[h].at = "attempt" /\ Skips(h, [doing[h] EXCEPT !.at = "apply"])
      \/ doing[h].at = "name" /\ Skips(h, [doing[h] EXCEPT !.at = "confirm"])
      \/ doing[h].at = "confirm" /\ Skips(h, [doing[h] EXCEPT !.at = "credit"])
  BY DEF Overlooks
<1> QED
  BY <1>2, <1>3, <1>4, <1>5

\* What one actor's step does to the operations under way.
HandsOK == doing = [h \in Hands |-> doing[h]] /\ \A h \in Hands : HandTypeOK(doing[h])

LEMMA HandsStep ==
  ASSUME WalletTypeOK, [WalletNext]_walletVars
  PROVE  HandsOK'
<1>0. HandsOK
  BY DEF WalletTypeOK, HandsOK
<1>1. ASSUME UNCHANGED doing PROVE HandsOK'
  BY <1>0, <1>1 DEF HandsOK
<1>2. ASSUME NEW h \in Hands, NEW d, Sets(h, d) PROVE HandsOK'
  BY <1>2 DEF Sets, HandsOK
<1>3. ASSUME NEW h \in Hands, Hand(h) PROVE HandsOK'
  <2>1. CASE StartText(h) \/ StartInteractive(h) \/ Inbound(h)
    BY <2>1, <1>1, <1>2, StartTextSets, StartInteractiveSets, InboundSets
  <2>2. CASE Send(h) \/ Reload(h) \/ DeductWalletBalance(h) \/ SaveLog(h)
    BY <2>2, <1>2, SendSets, ReloadSets, DebitSets, LogSets
  <2>3. CASE \E r \in Recharges : CreatePixPayment(h, r) \/ HandleWebhook(h, r) \/ GetPaymentStatus(h, r)
    BY <2>3, <1>2, CreateSets, NoticeSets, PollSets
  <2>4. CASE CallProvider(h) \/ ApplyAttempt(h) \/ ApplyPayment(h)
    BY <2>4, <1>2, CallSets, AttemptSets, ApplySets
  <2>5. CASE NamePayment(h) \/ ConfirmRecharge(h) \/ Credit(h)
    BY <2>5, <1>2, NameSets, ConfirmSets, CreditSets
  <2>6. CASE Ask(h) \/ RefreshPaymentStatus(h)
    BY <2>6, <1>2, AskSets, RefreshSets
  <2>7. CASE LoadTenant(h) \/ UpdateWallet(h) \/ UpdateTenant(h) \/ SaveSettings(h)
    BY <2>7, <1>2, LoadSets, SaveSets
  <2>8. CASE GetBalance(h) \/ ReadTables(h) \/ syncWalletBillingCycles(h)
    BY <2>8, <1>2, GetBalanceSets, ReadSets, SyncSets
  <2>9. CASE Fails(h) \/ Overlooks(h)
    BY <2>9, <1>2, FailsSets, OverlooksSets
  <2> QED
    BY <1>3, <2>1, <2>2, <2>3, <2>4, <2>5, <2>6, <2>7, <2>8, <2>9 DEF Hand
<1>4. ASSUME NEW r \in Recharges, ProviderDecides(r) PROVE HandsOK'
  BY <1>1, <1>4 DEF ProviderDecides
<1>5. CASE MonthEnds
  BY <1>1, <1>5 DEF MonthEnds
<1>6. CASE UNCHANGED walletVars
  BY <1>1, <1>6 DEF walletVars
<1> QED
  BY <1>3, <1>4, <1>5, <1>6 DEF WalletNext

TablesOK ==
  /\ tenant \in TenantRows
  /\ logs \in [Months -> Nat]
  /\ payments \in [Recharges -> PaymentRows]
  /\ provider \in [Recharges -> {"none", "pending", "approved", "rejected"}]
  /\ cycles \in [Months -> CycleRows]
  /\ month \in Months
  /\ made \in [Counters -> Nat]
  /\ start \in Int /\ unbooked \in Int
  /\ disturbed \in BOOLEAN
  /\ faithful \subseteq Months

LEMMA TypeParts == WalletTypeOK <=> TablesOK /\ HandsOK
  BY DEF WalletTypeOK, TablesOK, HandsOK

LEMMA CountedType ==
  ASSUME made \in [Counters -> Nat], NEW what \in Counters, NEW max, Counted(what, max)
  PROVE  made' \in [Counters -> Nat]
<1>1. "all" \in Counters
  BY DEF Counters
<1>2. made' = [made EXCEPT ![what] = @ + 1, !["all"] = @ + 1]
  BY DEF Counted
<1> QED
  BY <1>1, <1>2

\* A row's balance less a price, or more a recharge.
LEMMA BalanceType ==
  ASSUME TablesOK, NEW d \in Int
  PROVE  /\ [tenant EXCEPT !.balance = @ + d] \in TenantRows
         /\ [tenant EXCEPT !.balance = @ + d].balance = tenant.balance + d
         /\ [tenant EXCEPT !.balance = @ + d].plan = tenant.plan
         /\ [tenant EXCEPT !.balance = @ + d].price = tenant.price
<1>1. tenant \in TenantRows
  BY DEF TablesOK
<1>2. tenant.balance \in Int /\ tenant.balance + d \in Int
  BY <1>1 DEF TenantRows
<1> QED
  BY <1>1, <1>2 DEF TenantRows

LEMMA AsPaymentType == \A p : AsPayment(p) \in {"PENDING", "CONFIRMED", "FAILED"}
  BY DEF AsPayment

\* A row of a payment is replaced.
LEMMA PaymentSet ==
  ASSUME TablesOK, NEW r \in Recharges, NEW p \in PaymentRows, payments' = [payments EXCEPT ![r] = p]
  PROVE  /\ payments' \in [Recharges -> PaymentRows]
         /\ payments'[r] = p
         /\ \A s \in Recharges \ {r} : payments'[s] = payments[s]
  BY DEF TablesOK

LEMMA CreateTables ==
  ASSUME WalletTypeOK, NEW h \in Hands, NEW r \in Recharges, CreatePixPayment(h, r)
  PROVE  /\ payments' \in [Recharges -> PaymentRows]
         /\ payments'[r].status = "PENDING" /\ payments'[r].paid = payments[r].paid
         /\ \A s \in Recharges \ {r} : payments'[s] = payments[s]
<1>1. payments[r] \in PaymentRows /\ TablesOK
  BY TypeParts DEF TablesOK
<1> DEFINE p == [payments[r] EXCEPT !.status = "PENDING"]
<1>2. p \in PaymentRows /\ p.status = "PENDING" /\ p.paid = payments[r].paid
  BY <1>1 DEF PaymentRows
<1>3. payments' = [payments EXCEPT ![r] = p]
  BY <1>1 DEF CreatePixPayment, TablesOK
<1> HIDE DEF p
<1> QED
  BY <1>1, <1>2, <1>3, PaymentSet

LEMMA AttemptTables ==
  ASSUME WalletTypeOK, NEW h \in Hands, ApplyAttempt(h)
  PROVE  LET r == doing[h].of
         IN /\ r \in Recharges
            /\ payments' \in [Recharges -> PaymentRows]
            /\ payments'[r].status = payments[r].status /\ payments'[r].paid = payments[r].paid
            /\ \A s \in Recharges \ {r} : payments'[s] = payments[s]
<1> DEFINE r == doing[h].of
<1>0. r \in Recharges
  BY AttemptSets DEF CreateHands
<1>1. payments[r] \in PaymentRows /\ TablesOK
  BY <1>0, TypeParts DEF TablesOK
<1>a. payments' = [payments EXCEPT ![r].found = "attempt"]
  BY DEF ApplyAttempt
<1> HIDE DEF r
<1> DEFINE p == [payments[r] EXCEPT !.found = "attempt"]
<1>2. p \in PaymentRows /\ p.status = payments[r].status /\ p.paid = payments[r].paid
  BY <1>1 DEF PaymentRows
<1>3. payments' = [payments EXCEPT ![r] = p]
  BY <1>0, <1>1, <1>a DEF TablesOK
<1> HIDE DEF p
<1>4. /\ payments' \in [Recharges -> PaymentRows]
      /\ payments'[r] = p
      /\ \A s \in Recharges \ {r} : payments'[s] = payments[s]
  BY <1>0, <1>1, <1>2, <1>3, PaymentSet
<1> QED
  BY <1>0, <1>2, <1>4 DEF r

LEMMA ApplyTables ==
  ASSUME WalletTypeOK, NEW h \in Hands, ApplyPayment(h)
  PROVE  LET r == doing[h].of
         IN /\ r \in Recharges
            /\ payments' \in [Recharges -> PaymentRows]
            /\ payments'[r].status \in {"PENDING", "FAILED"} /\ payments'[r].paid = 0
            /\ \A s \in Recharges \ {r} : payments'[s] = payments[s]
<1> DEFINE r == doing[h].of
           p == [status |-> AsPayment(doing[h].answer), paid |-> 0, found |-> "payment"]
<1>0. r \in Recharges /\ doing[h].answer \in {"none", "pending", "rejected"}
  BY ApplySets DEF CreateHands
<1>1. TablesOK
  BY TypeParts
<1>2. p \in PaymentRows /\ p.status \in {"PENDING", "FAILED"} /\ p.paid = 0
  BY <1>0, WalletAssumption DEF PaymentRows, AsPayment
<1>3. payments' = [payments EXCEPT ![r] = p]
  BY DEF ApplyPayment
<1> HIDE DEF p, r
<1>4. /\ payments' \in [Recharges -> PaymentRows]
      /\ payments'[r] = p
      /\ \A s \in Recharges \ {r} : payments'[s] = payments[s]
  BY <1>0, <1>1, <1>2, <1>3, PaymentSet
<1> QED
  BY <1>0, <1>2, <1>4 DEF r

LEMMA NameTables ==
  ASSUME WalletTypeOK, NEW h \in Hands, NamePayment(h)
  PROVE  LET r == doing[h].of
         IN /\ r \in Recharges
            /\ payments' \in [Recharges -> PaymentRows]
            /\ payments'[r].status = doing[h].seen.status /\ payments'[r].paid = doing[h].seen.paid
            /\ \A s \in Recharges \ {r} : payments'[s] = payments[s]
<1> DEFINE r == doing[h].of
           seen == doing[h].seen
<1>0. r \in Recharges /\ seen \in PaymentRows
  BY NameSets DEF NoticeHands
<1>1. TablesOK
  BY TypeParts
<1>a. payments' = [payments EXCEPT ![r] = [seen EXCEPT !.found = "payment"]]
  BY DEF NamePayment
<1> HIDE DEF r, seen
<1> DEFINE p == [seen EXCEPT !.found = "payment"]
<1>2. p \in PaymentRows /\ p.status = seen.status /\ p.paid = seen.paid
  BY <1>0 DEF PaymentRows
<1> HIDE DEF p
<1>4. /\ payments' \in [Recharges -> PaymentRows]
      /\ payments'[r] = p
      /\ \A s \in Recharges \ {r} : payments'[s] = payments[s]
  BY <1>0, <1>1, <1>2, <1>a, PaymentSet DEF p
<1> QED
  BY <1>0, <1>2, <1>4 DEF r, seen

LEMMA ConfirmTables ==
  ASSUME WalletTypeOK, NEW h \in Hands, ConfirmRecharge(h)
  PROVE  LET r == doing[h].of
         IN /\ r \in Recharges
            /\ payments' \in [Recharges -> PaymentRows]
            /\ IF doing[h].seen.status = "CONFIRMED" THEN payments' = payments
               ELSE payments'[r].status = "CONFIRMED" /\ payments'[r].paid = month
            /\ \A s \in Recharges \ {r} : payments'[s] = payments[s]
<1> DEFINE r == doing[h].of
           p == [status |-> "CONFIRMED", paid |-> month, found |-> "payment"]
<1>0. r \in Recharges
  BY ConfirmSets DEF NoticeHands
<1>1. TablesOK
  BY TypeParts
<1>2. p \in PaymentRows /\ p.status = "CONFIRMED" /\ p.paid = month
  BY <1>1 DEF PaymentRows, TablesOK, Months
<1>3. IF doing[h].seen.status = "CONFIRMED" THEN payments' = payments
      ELSE payments' = [payments EXCEPT ![r] = p]
  BY DEF ConfirmRecharge
<1> HIDE DEF p, r
<1>4. CASE doing[h].seen.status = "CONFIRMED"
  BY <1>0, <1>1, <1>3, <1>4 DEF TablesOK, r
<1>5. CASE doing[h].seen.status # "CONFIRMED"
  <2>1. /\ payments' \in [Recharges -> PaymentRows]
        /\ payments'[r] = p
        /\ \A s \in Recharges \ {r} : payments'[s] = payments[s]
    BY <1>0, <1>1, <1>2, <1>3, <1>5, PaymentSet
  <2> QED
    BY <1>0, <1>2, <1>5, <2>1 DEF r
<1> QED
  BY <1>4, <1>5

LEMMA RefreshTables ==
  ASSUME WalletTypeOK, NEW h \in Hands, RefreshPaymentStatus(h)
  PROVE  LET r == doing[h].of
             s == AsPayment(doing[h].answer)
             paid == doing[h].seen.paid
         IN /\ r \in Recharges
            /\ payments' \in [Recharges -> PaymentRows]
            /\ payments'[r].status = s /\ s # "none"
            /\ payments'[r].paid = IF s = "CONFIRMED" /\ paid = 0 THEN month ELSE paid
            /\ \A q \in Recharges \ {r} : payments'[q] = payments[q]
<1> DEFINE r == doing[h].of
           s == AsPayment(doing[h].answer)
           paid == doing[h].seen.paid
           p == [status |-> s, paid |-> IF s = "CONFIRMED" /\ paid = 0 THEN month ELSE paid, found |-> "payment"]
<1>0. r \in Recharges /\ paid \in 0..MaxMonth
  BY RefreshSets DEF PollHands, PaymentRows
<1>1. TablesOK
  BY TypeParts
<1>b. s \in {"PENDING", "CONFIRMED", "FAILED"}
  BY AsPaymentType
<1>3. payments' = [payments EXCEPT ![r] = p]
  BY DEF RefreshPaymentStatus
<1>2. p \in PaymentRows /\ p.status = s /\ p.paid = IF s = "CONFIRMED" /\ paid = 0 THEN month ELSE paid
  <2> HIDE DEF s, paid, r
  <2> QED
    BY <1>0, <1>1, <1>b DEF PaymentRows, TablesOK, Months
<1> HIDE DEF p, r, s, paid
<1>4. /\ payments' \in [Recharges -> PaymentRows]
      /\ payments'[r] = p
      /\ \A q \in Recharges \ {r} : payments'[q] = payments[q]
  BY <1>0, <1>1, <1>2, <1>3, PaymentSet
<1> QED
  BY <1>0, <1>2, <1>4, <1>b DEF r, s, paid

LEMMA DisturbType ==
  ASSUME TablesOK, NEW if \in BOOLEAN, Disturb(if)
  PROVE  disturbed' \in BOOLEAN /\ faithful' \subseteq Months /\ start' = start /\ unbooked' = unbooked
  BY DEF Disturb, TablesOK

LEMMA UnsettledType ==
  ASSUME NEW d, HandTypeOK(d)
  PROVE  UnsettledOf(d) \in Int
<1>1. IsMessage(d) => d.price \in Int
  BY HandOf DEF MessageHands
<1> QED
  BY <1>1, WalletAssumption DEF UnsettledOf

\* A skipped statement leaves the tables and the disturbance as they are.
LEMMA SkipsTables ==
  ASSUME WalletTypeOK, NEW h \in Hands, NEW d, Sets(h, d), Skips(h, d)
  PROVE  TablesOK'
<1>1. UnsettledOf(d) \in Int /\ UnsettledOf(doing[h]) \in Int
  BY HandHere, UnsettledType DEF Sets
<1>2. unbooked' \in Int
  BY <1>1 DEF Skips, WalletTypeOK
<1>3. faithful' \subseteq Months
  BY DEF Skips, WalletTypeOK
<1> QED
  BY <1>2, <1>3 DEF Skips, WalletTypeOK, TablesOK

LEMMA TablesStep ==
  ASSUME WalletTypeOK, [WalletNext]_walletVars
  PROVE  TablesOK'
<1>0. TablesOK
  BY TypeParts
<1>c. {"messages", "notices", "polls", "saves", "pages"} \subseteq Counters
  BY DEF Counters
<1>1. ASSUME NEW h \in Hands, Hand(h) PROVE TablesOK'
  <2>1. CASE StartText(h) \/ StartInteractive(h) \/ Inbound(h)
    <3>1. Counted("messages", MaxMessages)
      BY <2>1 DEF StartText, StartInteractive, Inbound
    <3>2. UNCHANGED <<tenant, logs, payments, provider, cycles, month, ghosts>>
      BY <2>1 DEF StartText, StartInteractive, Inbound
    <3> QED
      BY <1>0, <1>c, <3>1, <3>2, CountedType DEF TablesOK, ghosts
  <2>2. CASE Send(h) \/ Reload(h)
    BY <1>0, <2>2 DEF Send, Reload, TablesOK, ghosts
  <2>3. CASE DeductWalletBalance(h)
    <3>1. doing[h].price \in Int
      BY <2>3, DebitSets DEF MessageHands
    <3>2. tenant.balance - doing[h].price = tenant.balance + (-doing[h].price)
      BY <1>0, <3>1 DEF TablesOK, TenantRows
    <3>3. tenant' = [tenant EXCEPT !.balance = @ + (-doing[h].price)]
      BY <2>3, <3>2 DEF DeductWalletBalance
    <3>4. tenant' \in TenantRows
      BY <1>0, <3>1, <3>3, BalanceType
    <3> QED
      BY <1>0, <2>3, <3>4 DEF DeductWalletBalance, TablesOK, ghosts
  <2>4. CASE SaveLog(h)
    BY <1>0, <2>4 DEF SaveLog, TablesOK, ghosts
  <2>5. ASSUME NEW r \in Recharges, CreatePixPayment(h, r) PROVE TablesOK'
    <3>1. payments' \in [Recharges -> PaymentRows]
      BY <2>5, CreateTables
    <3> QED
      BY <1>0, <2>5, <3>1 DEF CreatePixPayment, TablesOK, ghosts
  <2>6. ASSUME NEW r \in Recharges, HandleWebhook(h, r) PROVE TablesOK'
    <3>1. Counted("notices", MaxNotices) /\ Disturb(Crossing(r))
      BY <2>6 DEF HandleWebhook
    <3>2. Crossing(r) \in BOOLEAN
      BY DEF Crossing
    <3>3. made' \in [Counters -> Nat]
      BY <1>0, <1>c, <3>1, CountedType DEF TablesOK
    <3>4. disturbed' \in BOOLEAN /\ faithful' \subseteq Months /\ start' = start /\ unbooked' = unbooked
      BY <1>0, <3>1, <3>2, DisturbType
    <3> QED
      BY <1>0, <2>6, <3>3, <3>4 DEF HandleWebhook, TablesOK
  <2>7. ASSUME NEW r \in Recharges, GetPaymentStatus(h, r) PROVE TablesOK'
    <3>1. Counted("polls", MaxPolls) /\ Disturb(Crossing(r))
      BY <2>7 DEF GetPaymentStatus
    <3>2. Crossing(r) \in BOOLEAN
      BY DEF Crossing
    <3>3. made' \in [Counters -> Nat]
      BY <1>0, <1>c, <3>1, CountedType DEF TablesOK
    <3>4. disturbed' \in BOOLEAN /\ faithful' \subseteq Months /\ start' = start /\ unbooked' = unbooked
      BY <1>0, <3>1, <3>2, DisturbType
    <3> QED
      BY <1>0, <2>7, <3>3, <3>4 DEF GetPaymentStatus, TablesOK
  <2>8. CASE CallProvider(h)
    BY <1>0, <2>8 DEF CallProvider, TablesOK, ghosts
  <2>9. CASE ApplyAttempt(h)
    BY <1>0, <2>9, AttemptTables DEF ApplyAttempt, TablesOK, ghosts
  <2>10. CASE ApplyPayment(h)
    <3>1. payments' \in [Recharges -> PaymentRows]
      BY <2>10, ApplyTables
    <3> QED
      BY <1>0, <2>10, <3>1 DEF ApplyPayment, TablesOK, ghosts
  <2>11. CASE NamePayment(h)
    <3>1. payments' \in [Recharges -> PaymentRows]
      BY <2>11, NameTables
    <3> QED
      BY <1>0, <2>11, <3>1 DEF NamePayment, TablesOK, ghosts
  <2>12. CASE ConfirmRecharge(h)
    <3>1. payments' \in [Recharges -> PaymentRows]
      BY <2>12, ConfirmTables
    <3> QED
      BY <1>0, <2>12, <3>1 DEF ConfirmRecharge, TablesOK, ghosts
  <2>13. CASE Credit(h)
    <3>1. tenant' \in TenantRows
      BY <1>0, <2>13, BalanceType, WalletAssumption DEF Credit
    <3> QED
      BY <1>0, <2>13, <3>1 DEF Credit, TablesOK, ghosts
  <2>14. CASE Ask(h)
    BY <1>0, <2>14 DEF Ask, TablesOK, ghosts
  <2>15. CASE RefreshPaymentStatus(h)
    <3>1. payments' \in [Recharges -> PaymentRows]
      BY <2>15, RefreshTables
    <3>2. \E if \in BOOLEAN : Disturb(if)
      BY <2>15 DEF RefreshPaymentStatus
    <3>3. disturbed' \in BOOLEAN /\ faithful' \subseteq Months /\ start' = start /\ unbooked' = unbooked
      BY <1>0, <3>2, DisturbType
    <3> QED
      BY <1>0, <2>15, <3>1, <3>3 DEF RefreshPaymentStatus, TablesOK
  <2>16. CASE LoadTenant(h)
    BY <1>0, <1>c, <2>16, CountedType DEF LoadTenant, TablesOK, ghosts
  <2>17. CASE UpdateWallet(h) \/ UpdateTenant(h) \/ SaveSettings(h)
    <3>1. PICK grant \in {0, 1}, row \in TenantRows : SaveTenant(h, row, grant)
      BY <2>17, SaveSets
    <3>2. tenant' = row /\ unbooked' \in Int
      BY <1>0, <3>1 DEF SaveTenant, TablesOK
    <3>3. disturbed' \in BOOLEAN /\ faithful' \subseteq Months
      BY <1>0, <3>1 DEF SaveTenant, TablesOK
    <3> QED
      BY <1>0, <3>1, <3>2, <3>3 DEF SaveTenant, TablesOK
  <2>18. CASE GetBalance(h)
    BY <1>0, <1>c, <2>18, CountedType DEF GetBalance, TablesOK, ghosts
  <2>19. CASE ReadTables(h)
    BY <1>0, <2>19 DEF ReadTables, TablesOK, ghosts
  <2>20. CASE syncWalletBillingCycles(h)
    <3>1. PICK S \in SUBSET Months : doing[h].rows \in [S -> CycleRows]
      BY <2>20, SyncSets
    <3>2. cycles' \in [Months -> CycleRows]
      <4>1. \A m \in Months : (IF m \in DOMAIN doing[h].rows THEN doing[h].rows[m] ELSE cycles[m]) \in CycleRows
        BY <1>0, <3>1 DEF TablesOK
      <4>2. cycles' = [m \in Months |-> IF m \in DOMAIN doing[h].rows THEN doing[h].rows[m] ELSE cycles[m]]
        BY <2>20 DEF syncWalletBillingCycles
      <4> QED
        BY <4>1, <4>2
    <3>3. faithful' \subseteq Months
      <4>1. DOMAIN doing[h].rows \subseteq Months
        BY <3>1
      <4>2. \/ faithful' = faithful \cup {m \in DOMAIN doing[h].rows : m < month}
            \/ faithful' = faithful \ DOMAIN doing[h].rows
        BY <2>20 DEF syncWalletBillingCycles
      <4> QED
        BY <1>0, <4>1, <4>2 DEF TablesOK
    <3> QED
      BY <1>0, <2>20, <3>2, <3>3 DEF syncWalletBillingCycles, TablesOK
  <2>21. CASE Fails(h)
    BY <2>21, FailsSets, SkipsTables DEF Fails
  <2>22. CASE Overlooks(h)
    BY <2>22, OverlooksSets, SkipsTables
  <2> QED
    BY <1>1, <2>1, <2>2, <2>3, <2>4, <2>5, <2>6, <2>7, <2>8, <2>9, <2>10, <2>11, <2>12, <2>13, <2>14,
       <2>15, <2>16, <2>17, <2>18, <2>19, <2>20, <2>21, <2>22 DEF Hand
<1>2. ASSUME NEW r \in Recharges, ProviderDecides(r) PROVE TablesOK'
  BY <1>0, <1>2 DEF ProviderDecides, TablesOK, ghosts
<1>3. CASE MonthEnds
  BY <1>0, <1>3, WalletAssumption DEF MonthEnds, TablesOK, ghosts, Months
<1>4. CASE UNCHANGED walletVars
  BY <1>0, <1>4 DEF walletVars, TablesOK
<1> QED
  BY <1>1, <1>2, <1>3, <1>4 DEF WalletNext

LEMMA TypeStep ==
  ASSUME WalletTypeOK, [WalletNext]_walletVars
  PROVE  WalletTypeOK'
<1>1. TablesOK' /\ HandsOK'
  BY TablesStep, HandsStep
<1> QED
  BY <1>1 DEF WalletTypeOK, TablesOK, HandsOK

LEMMA TypeInit ==
  ASSUME WalletInit
  PROVE  WalletTypeOK
<1>1. HandsOK
  <2>1. doing = [h \in Hands |-> Idle]
    BY DEF WalletInit
  <2> QED
    BY <2>1 DEF HandsOK, HandTypeOK
<1>2. tenant \in TenantRows /\ start \in Int
  BY WalletAssumption DEF WalletInit, TenantRows, Plans
<1>3. payments \in [Recharges -> PaymentRows]
  BY WalletAssumption DEF WalletInit, PaymentRows
<1>4. NoRow \in CycleRows
  BY DEF NoRow, CycleRows
<1>5. month \in Months
  BY WalletAssumption DEF WalletInit, Months
<1>6. logs \in [Months -> Nat]
  BY DEF WalletInit
<1>7. provider \in [Recharges -> {"none", "pending", "approved", "rejected"}]
  BY DEF WalletInit
<1>8. cycles \in [Months -> CycleRows] /\ made \in [Counters -> Nat]
  BY <1>4 DEF WalletInit
<1>9. unbooked \in Int /\ disturbed \in BOOLEAN /\ faithful \subseteq Months
  <2>1. unbooked = 0 /\ disturbed = FALSE /\ faithful = {}
    BY DEF WalletInit
  <2>2. disturbed \in BOOLEAN
    BY <2>1, Zenon
  <2> QED
    BY <2>1, <2>2
<1> QED
  BY <1>1, <1>2, <1>3, <1>5, <1>6, <1>7, <1>8, <1>9, TypeParts DEF TablesOK

---------------------------------------------------------------------------
(* what a step leaves standing *)

LEMMA LedgerType ==
  ASSUME WalletTypeOK, NEW n
  PROVE  LedgerBefore(n) \in Int
<1>1. start \in Int /\ unbooked \in Int /\ NetBefore(tenant, logs, payments, n) \in Int
  BY NetType DEF WalletTypeOK
<1> QED
  BY <1>1, LedgerIs

\* The ledger of months of which nothing changed.
LEMMA LedgerStands ==
  ASSUME WalletTypeOK, WalletTypeOK', NEW n,
         tenant'.plan = tenant.plan, tenant'.price = tenant.price, start' = start, unbooked' = unbooked,
         \A k \in Months : k < n => logs'[k] = logs[k] /\ ReceivedIn(payments', k) = ReceivedIn(payments, k)
  PROVE  LedgerBefore(n)' = LedgerBefore(n)
<1>1. /\ tenant \in TenantRows /\ logs \in [Months -> Nat]
      /\ tenant' \in TenantRows /\ logs' \in [Months -> Nat]
  BY DEF WalletTypeOK
<1>2. NetBefore(tenant', logs', payments', n) = NetBefore(tenant, logs, payments, n)
  BY <1>1, NetSame
<1>3. LedgerBefore(n)' = start' + unbooked' + NetBefore(tenant', logs', payments', n)
  BY DEF LedgerBefore, NetBefore, Before, Months
<1> QED
  BY <1>2, <1>3, LedgerIs

LEMMA FaithfulStands ==
  ASSUME WalletTypeOK, WalletTypeOK', FaithfulInv,
         tenant'.plan = tenant.plan, tenant'.price = tenant.price, month' >= month, faithful' \subseteq faithful,
         faithful' # {} => start' = start /\ unbooked' = unbooked,
         \A k \in Months : k < month => logs'[k] = logs[k] /\ ReceivedIn(payments', k) = ReceivedIn(payments, k),
         \A m \in faithful' : cycles'[m] = cycles[m]
  PROVE  FaithfulInv'
<1> SUFFICES ASSUME NEW m \in faithful'
             PROVE  m < month' /\ cycles'[m] = TrueCycle(m)'
  BY DEF FaithfulInv
<1>1. m \in faithful /\ m \in Months /\ month \in Months /\ month' \in Months
  BY DEF WalletTypeOK
<1>2. m < month /\ cycles[m] = TrueCycle(m)
  BY <1>1 DEF FaithfulInv
<1>3. m \in Int /\ month \in Int /\ month' \in Int
  BY <1>1 DEF Months
<1>4. \A k \in Months : k < m => k < month
  BY <1>2, <1>3 DEF Months
<1>5. LedgerBefore(m)' = LedgerBefore(m)
  BY <1>4, LedgerStands
<1>6. logs'[m] = logs[m] /\ ReceivedIn(payments', m) = ReceivedIn(payments, m)
  BY <1>1, <1>2
<1>7. TrueCycle(m) = Cycle(tenant.plan, LedgerBefore(m), logs[m] * tenant.price, ReceivedIn(payments, m))
  BY DEF TrueCycle
<1>8. TrueCycle(m)' = Cycle(tenant'.plan, LedgerBefore(m)', logs'[m] * tenant'.price, ReceivedIn(payments', m))
  BY DEF TrueCycle, ReceivedIn, Cycle
<1>9. TrueCycle(m)' = TrueCycle(m)
  BY <1>5, <1>6, <1>7, <1>8
<1> QED
  BY <1>2, <1>3, <1>9

\* One operation goes on as d; balance and what is unsettled change by as much as the ledger.
LEMMA BalanceStands ==
  ASSUME WalletTypeOK, WalletTypeOK', Balanced, NEW h \in Hands, NEW d, Sets(h, d), NEW x \in Int,
         month' = month, LedgerBefore(month + 1)' = LedgerBefore(month + 1) + x,
         tenant'.balance + UnsettledOf(d) = tenant.balance + UnsettledOf(doing[h]) + x
  PROVE  Balanced'
<1> DEFINE v == Unsettled(doing)
           w == Unsettled(doing')
<1>1. \A g \in Hands : v[g] = UnsettledOf(doing[g]) /\ v[g] \in Int
  BY HandHere, UnsettledType DEF Unsettled
<1>2. w[h] = UnsettledOf(d) /\ w[h] \in Int
  BY UnsettledType DEF Unsettled, Sets
<1>3. \A g \in Hands \ {h} : w[g] = v[g]
  BY DEF Unsettled, Sets
<1> HIDE DEF v, w
<1>4. IsFiniteSet(Hands)
  BY WalletAssumption
<1>5. SumFunctionOnSet(w, Hands) = (SumFunctionOnSet(v, Hands) - v[h]) + w[h]
  BY <1>1, <1>2, <1>3, <1>4, SumChanged
<1>6. SumFunctionOnSet(v, Hands) \in Int
  BY <1>1, <1>4, SumType
<1>7. tenant.balance \in Int /\ tenant'.balance \in Int
  BY DEF WalletTypeOK, TenantRows
<1>8. LedgerBefore(month + 1) \in Int
  BY LedgerType
<1>9. tenant.balance + SumFunctionOnSet(v, Hands) = LedgerBefore(month + 1)
  BY DEF Balanced, v
<1>10. LedgerBefore(month + 1)' = LedgerBefore(month + 1) + x
  OBVIOUS
<1>11. tenant'.balance + SumFunctionOnSet(w, Hands) = LedgerBefore(month + 1)'
  BY <1>1, <1>2, <1>5, <1>6, <1>7, <1>8, <1>9, <1>10
<1>12. Balanced' <=> tenant'.balance + SumFunctionOnSet(w, Hands) = LedgerBefore(month + 1)'
  BY DEF Balanced, w, Unsettled
<1> QED
  BY <1>11, <1>12

\* Nobody else is about the row that changes.
LEMMA AgreementStands ==
  ASSUME WalletTypeOK, OneEach, AllAgree, NEW h \in Hands, NEW d, Sets(h, d),
         tenant'.plan = tenant.plan, tenant'.price = tenant.price,
         \A r \in Recharges : \/ payments'[r].status = payments[r].status /\ payments'[r].paid = payments[r].paid
                              \/ \A g \in Hands \ {h} : ~About(doing[g], r),
         \A r \in Recharges : About(d, r) => \A g \in Hands \ {h} : ~About(doing[g], r),
         AgreesWith(d, tenant', payments')
  PROVE  OneEach' /\ AllAgree'
<1>1. doing'[h] = d /\ \A g \in Hands \ {h} : doing'[g] = doing[g]
  BY DEF Sets
<1>2. \A r \in Recharges : \A g, k \in Hands : About(doing'[g], r) /\ About(doing'[k], r) => g = k
  BY <1>1 DEF OneEach
<1>3. ASSUME NEW g \in Hands \ {h}
      PROVE  AgreesWith(doing[g], tenant', payments')
  <2>1. AgreesWith(doing[g], tenant, payments) /\ HandTypeOK(doing[g])
    BY HandHere DEF AllAgree
  <2>2. doing[g].op \in {"create", "notice", "poll"} => doing[g].of \in Recharges /\ About(doing[g], doing[g].of)
    BY <2>1, HandOf DEF CreateHands, NoticeHands, PollHands, About
  <2>3. doing[g].op \in {"create", "notice", "poll"} =>
          /\ payments'[doing[g].of].status = payments[doing[g].of].status
          /\ payments'[doing[g].of].paid = payments[doing[g].of].paid
    BY <2>2
  <2> QED
    BY <2>1, <2>3 DEF AgreesWith, HasSeen
<1>4. \A g \in Hands : AgreesWith(doing'[g], tenant', payments')
  BY <1>1, <1>3
<1> QED
  BY <1>2, <1>4 DEF OneEach, AllAgree

LEMMA DatesStand ==
  ASSUME WalletTypeOK, DatesInv, NEW h \in Hands, NEW d, Sets(h, d), month' = month,
         \A k \in Months : k > month => logs'[k] = 0,
         \A r \in Recharges : RowOK(payments'[r], month),
         \A r \in Recharges : payments[r].status # "none" => payments'[r].status # "none",
         HasSeen(d) => RowOK(d.seen, month) /\ d.seen.status # "none",
         \A r \in Recharges : About(d, r) => payments'[r].status # "none"
  PROVE  DatesInv'
<1>1. doing'[h] = d /\ \A g \in Hands \ {h} : doing'[g] = doing[g]
  BY DEF Sets
<1>2. \A g \in Hands : HasSeen(doing'[g]) => RowOK(doing'[g].seen, month) /\ doing'[g].seen.status # "none"
  BY <1>1 DEF DatesInv
<1>3. \A g \in Hands : \A r \in Recharges : About(doing'[g], r) => payments'[r].status # "none"
  BY <1>1 DEF DatesInv
<1>4. Months' = Months
  BY DEF Months
<1> QED
  BY <1>2, <1>3, <1>4 DEF DatesInv

\* An operation that is about no payment.
Apart(d) == d.op \notin {"create", "notice", "poll"}

LEMMA ApartIs ==
  ASSUME NEW d
  PROVE  /\ d = Idle \/ d \in MessageHands \/ d \in SaveHands \/ d.op = "page" => Apart(d)
         /\ Apart(d) => ~HasSeen(d) /\ \A r : ~About(d, r)
         /\ d = Idle \/ d \in SaveHands \/ d.op = "page" => UnsettledOf(d) = 0
  BY DEF Apart, HasSeen, About, Idle, MessageHands, SaveHands, UnsettledOf, IsMessage

\* A step apart from the payments, of which the tables show at most balance and grants.
LEMMA ApartStep ==
  ASSUME WalletTypeOK, WalletTypeOK', WalletInv, NEW h \in Hands, NEW d, Sets(h, d), Apart(doing[h]), Apart(d),
         UNCHANGED <<logs, payments, month, cycles, disturbed, faithful, start, unbooked>>,
         tenant'.plan = tenant.plan, tenant'.price = tenant.price,
         ~disturbed => AgreesWith(d, tenant, payments),
         ~disturbed => tenant'.balance + UnsettledOf(d) = tenant.balance + UnsettledOf(doing[h])
  PROVE  WalletInv'
<1>1. /\ ~HasSeen(d) /\ \A r : ~About(d, r)
  BY ApartIs
<1>2. DatesInv'
  BY <1>1, DatesStand DEF WalletInv, DatesInv
<1>3. disturbed' => faithful' = {}
  BY DEF WalletInv
<1>4. ASSUME ~disturbed PROVE OneEach' /\ AllAgree' /\ Balanced' /\ FaithfulInv'
  <2>1. OneEach /\ AllAgree /\ Balanced /\ FaithfulInv
    BY <1>4 DEF WalletInv
  <2>2. AgreesWith(d, tenant', payments')
    BY <1>4 DEF AgreesWith, Apart, HasSeen
  <2>3. OneEach' /\ AllAgree'
    BY <2>1, <2>2, <1>1, AgreementStands
  <2>4. LedgerBefore(month + 1)' = LedgerBefore(month + 1) + 0
    <3>1. LedgerBefore(month + 1)' = LedgerBefore(month + 1)
      <4> DEFINE n == month + 1
      <4>1. n' = n
        OBVIOUS
      <4> HIDE DEF n
      <4>2. LedgerBefore(n)' = LedgerBefore(n)
        BY <4>1, LedgerStands
      <4> QED
        BY <4>2 DEF n
    <3> QED
      BY <3>1, LedgerType
  <2>a. UnsettledOf(doing[h]) \in Int /\ tenant.balance \in Int
    BY HandHere, UnsettledType DEF WalletTypeOK, TenantRows
  <2>b. tenant'.balance + UnsettledOf(d) = tenant.balance + UnsettledOf(doing[h]) + 0
    BY <1>4, <2>a
  <2>5. Balanced'
    BY <2>1, <2>4, <2>b, BalanceStands
  <2>6. FaithfulInv'
    BY <2>1, FaithfulStands DEF WalletTypeOK, Months
  <2> QED
    BY <2>3, <2>5, <2>6
<1> QED
  BY <1>2, <1>3, <1>4 DEF WalletInv

\* Nothing of what the invariant speaks of changes.
LEMMA WalletInvSame ==
  ASSUME WalletInv,
         UNCHANGED <<tenant, logs, payments, cycles, month, doing, disturbed, faithful, start, unbooked>>
  PROVE  WalletInv'
<1>1. DatesInv'
  BY DEF WalletInv, DatesInv, Months
<1>2. OneEach => OneEach'
  BY DEF OneEach
<1>3. AllAgree => AllAgree'
  BY DEF AllAgree
<1>4. \A m : LedgerBefore(m)' = LedgerBefore(m)
  BY DEF LedgerBefore, Months
<1>5. Balanced => Balanced'
  BY DEF Balanced, Unsettled, UnsettledOf, LedgerBefore, Months
<1>6. FaithfulInv => FaithfulInv'
  BY DEF FaithfulInv, TrueCycle, Cycle, ReceivedIn, LedgerBefore, Months
<1> QED
  BY <1>1, <1>2, <1>3, <1>5, <1>6 DEF WalletInv

---------------------------------------------------------------------------
(* messages, saves and pages *)

\* An operation is apart, or at a payment.
LEMMA IdleHand ==
  ASSUME WalletTypeOK, NEW h \in Hands, doing[h] = Idle
  PROVE  Apart(doing[h]) /\ UnsettledOf(doing[h]) = 0
  BY ApartIs

LEMMA IdleAgrees == \A t, pays : AgreesWith(Idle, t, pays)
  BY DEF AgreesWith, Idle, IsMessage, HasSeen

LEMMA MessageFacts ==
  ASSUME NEW d \in MessageHands, NEW at \in {"send", "reload", "debit", "log"}
  PROVE  /\ Apart(d) /\ IsMessage(d)
         /\ LET e == [d EXCEPT !.at = at]
            IN e \in MessageHands /\ e.at = at /\ e.plan = d.plan /\ e.price = d.price /\ Apart(e) /\ IsMessage(e)
         /\ d.price \in Int
<1> DEFINE e == [d EXCEPT !.at = at]
<1>1. e \in MessageHands /\ e.at = at /\ e.plan = d.plan /\ e.price = d.price
  BY DEF MessageHands
<1>2. \A x \in MessageHands : Apart(x) /\ IsMessage(x) /\ x.price \in Int
  BY DEF MessageHands, Apart, IsMessage
<1> QED
  BY <1>1, <1>2

LEMMA MessageAgrees ==
  ASSUME NEW d \in MessageHands, NEW t, NEW pays,
         d.plan = t.plan, d.price = t.price, d.at = "debit" => d.plan = "pre_paid"
  PROVE  AgreesWith(d, t, pays)
  BY DEF AgreesWith, MessageHands, HasSeen

\* A message starts, or is dropped.
LEMMA StartsStep ==
  ASSUME WalletTypeOK, WalletTypeOK', WalletInv, NEW h \in Hands,
         StartText(h) \/ StartInteractive(h) \/ Inbound(h)
  PROVE  WalletInv'
<1>1. /\ UNCHANGED <<tenant, logs, payments, provider, cycles, month, disturbed, faithful, start, unbooked>>
      /\ doing[h] = Idle
  BY DEF StartText, StartInteractive, Inbound, ghosts
<1>2. CASE UNCHANGED doing
  BY <1>1, <1>2, WalletInvSame
<1>3. ASSUME NEW op \in {"text", "interactive", "inbound"}, NEW at \in {"send", "debit", "log"},
             at = "debit" => tenant.plan = "pre_paid", at = "log" => tenant.plan # "pre_paid",
             Sets(h, [op |-> op, at |-> at, plan |-> tenant.plan, price |-> tenant.price])
      PROVE  WalletInv'
  <2> DEFINE d == [op |-> op, at |-> at, plan |-> tenant.plan, price |-> tenant.price]
  <2>1. d \in MessageHands
    BY MessageBegins
  <2>2. d.plan = tenant.plan /\ d.price = tenant.price /\ d.at = at
    OBVIOUS
  <2> HIDE DEF d
  <2>3. UnsettledOf(d) = 0
    BY <1>3, <2>1, <2>2 DEF UnsettledOf, MessageHands
  <2>4. AgreesWith(d, tenant, payments)
    BY <1>3, <2>1, <2>2, MessageAgrees
  <2>5. Sets(h, d)
    BY <1>3 DEF d
  <2> QED
    BY <1>1, <2>1, <2>3, <2>4, <2>5, IdleHand, ApartIs, ApartStep
<1>4. CASE StartText(h)
  BY <1>2, <1>3, <1>4, StartTextSets
<1>5. CASE StartInteractive(h)
  BY <1>2, <1>3, <1>5, StartInteractiveSets
<1>6. CASE Inbound(h)
  <2>1. CASE tenant.plan = "pre_paid"
    BY <1>2, <1>3, <1>6, <2>1, InboundSets
  <2>2. CASE tenant.plan # "pre_paid"
    BY <1>2, <1>3, <1>6, <2>2, InboundSets
  <2> QED
    BY <2>1, <2>2
<1> QED
  BY <1>4, <1>5, <1>6

\* A message in hand agrees with the restaurant's row.
LEMMA MessageHere ==
  ASSUME WalletInv, NEW h \in Hands, doing[h] \in MessageHands, ~disturbed
  PROVE  /\ doing[h].plan = tenant.plan /\ doing[h].price = tenant.price
         /\ doing[h].at = "debit" => doing[h].plan = "pre_paid"
<1>1. AgreesWith(doing[h], tenant, payments)
  BY DEF WalletInv, AllAgree
<1> QED
  BY <1>1 DEF AgreesWith, MessageHands, IsMessage

\* Where a message is billed.
LEMMA BillsTo ==
  ASSUME NEW d \in MessageHands
  PROVE  LET e == [d EXCEPT !.at = Billing(d)]
         IN /\ e \in MessageHands /\ e.plan = d.plan /\ e.price = d.price
            /\ UnsettledOf(e) = 0
            /\ e.at = "debit" => e.plan = "pre_paid"
<1> DEFINE e == [d EXCEPT !.at = Billing(d)]
<1>0. Billing(d) \in {"send", "reload", "debit", "log"}
  BY DEF Billing
<1>1. e \in MessageHands /\ e.plan = d.plan /\ e.price = d.price /\ e.at = Billing(d)
  <2> DEFINE at == Billing(d)
  <2> HIDE DEF at
  <2>1. at \in {"send", "reload", "debit", "log"}
    BY <1>0 DEF at
  <2>2. LET f == [d EXCEPT !.at = at]
        IN f \in MessageHands /\ f.plan = d.plan /\ f.price = d.price /\ f.at = at
    BY <2>1, MessageFacts
  <2> QED
    BY <2>2 DEF at
<1> HIDE DEF e
<1>2. UnsettledOf(e) = 0
  BY <1>1 DEF UnsettledOf, MessageHands, Billing
<1> QED
  BY <1>1, <1>2 DEF Billing, e

LEMMA SendStep ==
  ASSUME WalletTypeOK, WalletTypeOK', WalletInv, NEW h \in Hands, Send(h)
  PROVE  WalletInv'
<1>1. /\ UNCHANGED <<tenant, logs, payments, provider, cycles, month, disturbed, faithful, start, unbooked>>
      /\ doing[h] \in MessageHands /\ doing[h].at = "send"
  BY SendSets DEF Send, ghosts
<1>2. Apart(doing[h]) /\ UnsettledOf(doing[h]) = 0
  BY <1>1, MessageFacts DEF UnsettledOf, MessageHands
<1>3. CASE Sets(h, Idle)
  BY <1>1, <1>2, <1>3, ApartIs, IdleAgrees, ApartStep
<1>4. CASE Sets(h, [doing[h] EXCEPT !.at = "reload"])
  <2> DEFINE e == [doing[h] EXCEPT !.at = "reload"]
  <2>1. e \in MessageHands /\ e.at = "reload" /\ e.plan = doing[h].plan /\ e.price = doing[h].price /\ Apart(e)
    BY <1>1, MessageFacts
  <2>2. Sets(h, e)
    BY <1>4
  <2> HIDE DEF e
  <2>3. UnsettledOf(e) = 0
    BY <2>1 DEF UnsettledOf, MessageHands
  <2>4. ~disturbed => AgreesWith(e, tenant, payments)
    BY <1>1, <2>1, MessageHere, MessageAgrees
  <2> QED
    BY <1>1, <1>2, <2>1, <2>2, <2>3, <2>4, ApartStep
<1>5. CASE Sets(h, [doing[h] EXCEPT !.at = Billing(doing[h])])
  <2> DEFINE e == [doing[h] EXCEPT !.at = Billing(doing[h])]
  <2>1. /\ e \in MessageHands /\ e.plan = doing[h].plan /\ e.price = doing[h].price
        /\ UnsettledOf(e) = 0 /\ (e.at = "debit" => e.plan = "pre_paid")
    BY <1>1, BillsTo
  <2>2. Sets(h, e)
    BY <1>5
  <2> HIDE DEF e
  <2>3. Apart(e)
    BY <2>1, ApartIs
  <2>4. ~disturbed => AgreesWith(e, tenant, payments)
    BY <1>1, <2>1, MessageHere, MessageAgrees
  <2> QED
    BY <1>1, <1>2, <2>1, <2>2, <2>3, <2>4, ApartStep
<1> QED
  BY <1>3, <1>4, <1>5, SendSets

LEMMA ReloadStep ==
  ASSUME WalletTypeOK, WalletTypeOK', WalletInv, NEW h \in Hands, Reload(h)
  PROVE  WalletInv'
<1> DEFINE d == [doing[h] EXCEPT !.plan = tenant.plan, !.price = tenant.price]
           e == [d EXCEPT !.at = Billing(d)]
<1>1. /\ UNCHANGED <<tenant, logs, payments, provider, cycles, month, disturbed, faithful, start, unbooked>>
      /\ doing[h] \in MessageHands /\ doing[h].at = "reload"
  BY ReloadSets DEF Reload, ghosts
<1>2. Apart(doing[h]) /\ UnsettledOf(doing[h]) = 0
  BY <1>1, MessageFacts DEF UnsettledOf, MessageHands
<1>3. d \in MessageHands /\ Sets(h, e)
  BY ReloadSets
<1>4. d.plan = tenant.plan /\ d.price = tenant.price
  BY <1>1 DEF MessageHands
<1> HIDE DEF d
<1>5. /\ e \in MessageHands /\ e.plan = d.plan /\ e.price = d.price
      /\ UnsettledOf(e) = 0 /\ (e.at = "debit" => e.plan = "pre_paid")
  BY <1>3, BillsTo
<1> HIDE DEF e
<1>6. AgreesWith(e, tenant, payments) /\ Apart(e)
  BY <1>4, <1>5, MessageAgrees, ApartIs
<1> QED
  BY <1>1, <1>2, <1>3, <1>5, <1>6, ApartStep

LEMMA DebitStep ==
  ASSUME WalletTypeOK, WalletTypeOK', WalletInv, NEW h \in Hands, DeductWalletBalance(h)
  PROVE  WalletInv'
<1> DEFINE e == [doing[h] EXCEPT !.at = "log"]
<1>1. /\ UNCHANGED <<logs, payments, provider, cycles, month, disturbed, faithful, start, unbooked>>
      /\ doing[h] \in MessageHands /\ doing[h].at = "debit" /\ Sets(h, e)
  BY DebitSets DEF DeductWalletBalance, ghosts
<1>2. Apart(doing[h]) /\ UnsettledOf(doing[h]) = 0 /\ doing[h].price \in Int
  BY <1>1, MessageFacts DEF UnsettledOf, MessageHands
<1>3. e \in MessageHands /\ e.at = "log" /\ e.plan = doing[h].plan /\ e.price = doing[h].price /\ Apart(e) /\ IsMessage(e)
  BY <1>1, MessageFacts
<1> HIDE DEF e
<1>4. tenant \in TenantRows /\ tenant' = [tenant EXCEPT !.balance = @ - doing[h].price]
  BY DEF WalletTypeOK, DeductWalletBalance
<1>5. /\ tenant'.balance = tenant.balance - doing[h].price /\ tenant'.plan = tenant.plan /\ tenant'.price = tenant.price
      /\ tenant.balance \in Int
  BY <1>4 DEF TenantRows
<1>6. ~disturbed => UnsettledOf(e) = doing[h].price
  BY <1>1, <1>3, MessageHere DEF UnsettledOf
<1>7. ~disturbed => AgreesWith(e, tenant, payments)
  BY <1>1, <1>3, MessageHere, MessageAgrees
<1>8. ~disturbed => tenant'.balance + UnsettledOf(e) = tenant.balance + UnsettledOf(doing[h])
  BY <1>2, <1>5, <1>6
<1> QED
  BY <1>1, <1>2, <1>3, <1>5, <1>7, <1>8, ApartStep

\* Loading a restaurant or the first two columns of a page; reading the tables.
LEMMA ReadsStep ==
  ASSUME WalletTypeOK, WalletTypeOK', WalletInv, NEW h \in Hands,
         LoadTenant(h) \/ GetBalance(h) \/ ReadTables(h)
  PROVE  WalletInv'
<1>1. UNCHANGED <<tenant, logs, payments, provider, cycles, month, disturbed, faithful, start, unbooked>>
  BY DEF LoadTenant, GetBalance, ReadTables, ghosts
<1>2. Apart(doing[h]) /\ UnsettledOf(doing[h]) = 0
  <2>1. CASE doing[h] = Idle
    BY <2>1, IdleHand
  <2>2. CASE ReadTables(h)
    <3>1. doing[h] \in ReadHands
      BY <2>2, HandHere, HandAt DEF ReadTables
    <3> QED
      BY <3>1, ApartIs DEF ReadHands
  <2> QED
    BY <2>1, <2>2 DEF LoadTenant, GetBalance
<1>3. \A d, t, pays : d.op \in {"save", "page"} => AgreesWith(d, t, pays) /\ Apart(d) /\ UnsettledOf(d) = 0
  BY DEF AgreesWith, IsMessage, HasSeen, Apart, UnsettledOf
<1>4. ASSUME NEW d, d.op \in {"save", "page"}, Sets(h, d) PROVE WalletInv'
  BY <1>1, <1>2, <1>3, <1>4, ApartStep
<1>5. CASE LoadTenant(h)
  <2> DEFINE d == [op |-> "save", at |-> "save", row |-> tenant]
  <2>1. Sets(h, d) /\ d.op = "save"
    BY <1>5, LoadSets
  <2> HIDE DEF d
  <2> QED
    BY <2>1, <1>4
<1>6. CASE GetBalance(h)
  <2> DEFINE d == [op |-> "page", at |-> "price", balance |-> tenant.balance, plan |-> tenant.plan]
  <2>1. Sets(h, d) /\ d.op = "page"
    BY <1>6, GetBalanceSets
  <2> HIDE DEF d
  <2> QED
    BY <2>1, <1>4
<1>7. CASE ReadTables(h)
  <2>1. PICK page : Sets(h, [op |-> "page", at |-> "store", rows |-> page])
    BY <1>7, ReadSets
  <2> DEFINE d == [op |-> "page", at |-> "store", rows |-> page]
  <2>2. Sets(h, d) /\ d.op = "page"
    BY <2>1
  <2> HIDE DEF d
  <2> QED
    BY <2>2, <1>4
<1> QED
  BY <1>5, <1>6, <1>7

---------------------------------------------------------------------------
(* the log and the recharges *)

\* What the running month adds changes by x.
LEMMA LedgerMoves ==
  ASSUME WalletTypeOK, WalletTypeOK', NEW x \in Int,
         tenant'.plan = tenant.plan, tenant'.price = tenant.price, month' = month,
         start' = start, unbooked' = unbooked,
         \A k \in Months : k < month => logs'[k] = logs[k] /\ ReceivedIn(payments', k) = ReceivedIn(payments, k),
         Nets(tenant, logs', payments')[month] = Nets(tenant, logs, payments)[month] + x
  PROVE  LedgerBefore(month + 1)' = LedgerBefore(month + 1) + x
<1>1. /\ tenant \in TenantRows /\ logs \in [Months -> Nat] /\ month \in Months
      /\ tenant' \in TenantRows /\ logs' \in [Months -> Nat]
      /\ start \in Int /\ unbooked \in Int
  BY DEF WalletTypeOK
<1>2. NetBefore(tenant, logs', payments', month + 1) = NetBefore(tenant, logs, payments, month + 1) + x
  BY <1>1, NetChanged
<1>3. NetBefore(tenant', logs', payments', month + 1) = NetBefore(tenant, logs', payments', month + 1)
  BY <1>1, NetSame
<1>4. NetBefore(tenant, logs, payments, month + 1) \in Int
  BY <1>1, NetType
<1>5. LedgerBefore(month + 1)' = start' + unbooked' + NetBefore(tenant', logs', payments', month' + 1)
  BY DEF LedgerBefore, NetBefore, Before, Months
<1>6. LedgerBefore(month + 1) = start + unbooked + NetBefore(tenant, logs, payments, month + 1)
  BY LedgerIs
<1> QED
  BY <1>1, <1>2, <1>3, <1>4, <1>5, <1>6

LEMMA LogStep ==
  ASSUME WalletTypeOK, WalletTypeOK', WalletInv, NEW h \in Hands, SaveLog(h)
  PROVE  WalletInv'
<1>1. /\ UNCHANGED <<tenant, payments, provider, cycles, month, disturbed, faithful, start, unbooked>>
      /\ doing[h] \in MessageHands /\ doing[h].at = "log" /\ Sets(h, Idle)
      /\ logs' = [logs EXCEPT ![month] = @ + 1]
  BY LogSets DEF SaveLog, ghosts
<1>2. logs \in [Months -> Nat] /\ month \in Months /\ tenant \in TenantRows
  BY DEF WalletTypeOK
<1>3. logs'[month] = logs[month] + 1 /\ \A k \in Months : k # month => logs'[k] = logs[k]
  BY <1>1, <1>2
<1>4. DatesInv'
  <2>1. ~HasSeen(Idle) /\ \A r : ~About(Idle, r)
    BY ApartIs
  <2>2. \A k \in Months : k > month => logs'[k] = 0
    BY <1>2, <1>3 DEF WalletInv, DatesInv, Months
  <2> QED
    BY <1>1, <2>1, <2>2, DatesStand DEF WalletInv, DatesInv
<1>5. disturbed' => faithful' = {}
  BY <1>1 DEF WalletInv
<1>6. ASSUME ~disturbed PROVE OneEach' /\ AllAgree' /\ Balanced' /\ FaithfulInv'
  <2>1. OneEach /\ AllAgree /\ Balanced /\ FaithfulInv
    BY <1>6 DEF WalletInv
  <2>2. OneEach' /\ AllAgree'
    BY <1>1, <2>1, ApartIs, IdleAgrees, AgreementStands
  <2>3. \A k \in Months : k < month => logs'[k] = logs[k] /\ ReceivedIn(payments', k) = ReceivedIn(payments, k)
    BY <1>1, <1>2, <1>3 DEF Months
  <2> DEFINE x == IF Prepaid(tenant) THEN -tenant.price ELSE 0
  <2>4. x \in Int /\ tenant.price \in Int /\ tenant.balance \in Int
    BY <1>2 DEF TenantRows
  <2>5. Nets(tenant, logs', payments')[month] = Nets(tenant, logs, payments)[month] + x
    <3>1. logs' \in [Months -> Nat]
      BY DEF WalletTypeOK
    <3>2. /\ Nets(tenant, logs', payments)[month]
               = ReceivedIn(payments, month) - (IF Prepaid(tenant) THEN logs'[month] * tenant.price ELSE 0)
          /\ Nets(tenant, logs, payments)[month]
               = ReceivedIn(payments, month) - (IF Prepaid(tenant) THEN logs[month] * tenant.price ELSE 0)
      BY <1>2, <3>1, NetsType
    <3>3. (logs[month] + 1) * tenant.price = logs[month] * tenant.price + tenant.price
      <4>1. logs[month] \in Int
        BY <1>2
      <4> QED
        BY <2>4, <4>1
    <3>4. logs[month] * tenant.price \in Int
      <4>1. logs[month] \in Int
        BY <1>2
      <4> QED
        BY <2>4, <4>1
    <3>5. ReceivedIn(payments, month) \in Int
      BY ReceivedType
    <3> QED
      BY <1>1, <1>3, <2>4, <3>2, <3>3, <3>4, <3>5
  <2>6. LedgerBefore(month + 1)' = LedgerBefore(month + 1) + x
    BY <1>1, <2>3, <2>4, <2>5, LedgerMoves
  <2>7. UnsettledOf(Idle) = 0 /\ UnsettledOf(doing[h]) = -x
    <3>1. doing[h].plan = tenant.plan /\ doing[h].price = tenant.price
      BY <1>1, <1>6, MessageHere
    <3>2. IsMessage(doing[h]) /\ doing[h].op # "notice"
      BY <1>1 DEF IsMessage, MessageHands
    <3>3. UnsettledOf(doing[h]) = IF Prepaid(tenant) THEN tenant.price ELSE 0
      BY <1>1, <3>1, <3>2 DEF UnsettledOf, Prepaid
    <3> QED
      BY <2>4, <3>3, ApartIs
  <2>8. tenant'.balance + UnsettledOf(Idle) = tenant.balance + UnsettledOf(doing[h]) + x
    BY <1>1, <2>4, <2>7
  <2> HIDE DEF x
  <2>9. Balanced'
    BY <1>1, <2>1, <2>4, <2>6, <2>8, BalanceStands
  <2>10. FaithfulInv'
    BY <1>1, <1>2, <2>1, <2>3, FaithfulStands DEF Months
  <2> QED
    BY <2>2, <2>9, <2>10
<1> QED
  BY <1>1, <1>4, <1>5, <1>6 DEF WalletInv

\* Others are not about the payment that h is about.
LEMMA Alone ==
  ASSUME OneEach, NEW h \in Hands, NEW r \in Recharges, About(doing[h], r)
  PROVE  \A g \in Hands \ {h} : ~About(doing[g], r)
  BY DEF OneEach

\* A step at payment r, of which the tables show at most that row and the balance.
LEMMA PaymentStep ==
  ASSUME WalletTypeOK, WalletTypeOK', WalletInv, NEW h \in Hands, NEW d, Sets(h, d), NEW r \in Recharges,
         UNCHANGED <<logs, month, cycles, start, unbooked>>,
         tenant'.plan = tenant.plan, tenant'.price = tenant.price,
         \A s \in Recharges \ {r} : payments'[s] = payments[s],
         RowOK(payments'[r], month), payments[r].status # "none" => payments'[r].status # "none",
         HasSeen(d) => RowOK(d.seen, month) /\ d.seen.status # "none",
         \A s \in Recharges : About(d, s) => s = r,
         About(d, r) => payments'[r].status # "none",
         disturbed => disturbed', disturbed' => faithful' = {}, faithful' \subseteq faithful,
         NEW x \in Int,
         ~disturbed' =>
           /\ \/ payments'[r].status = payments[r].status /\ payments'[r].paid = payments[r].paid
              \/ \A g \in Hands \ {h} : ~About(doing[g], r)
           /\ About(d, r) => \A g \in Hands \ {h} : ~About(doing[g], r)
           /\ AgreesWith(d, tenant, payments')
           /\ \A k \in Months : ReceivedIn(payments', k) = ReceivedIn(payments, k) + (IF k = month THEN x ELSE 0)
           /\ tenant'.balance + UnsettledOf(d) = tenant.balance + UnsettledOf(doing[h]) + x
  PROVE  WalletInv'
<1>1. DatesInv'
  <2>1. \A s \in Recharges : RowOK(payments'[s], month)
    BY DEF WalletInv, DatesInv
  <2>2. \A s \in Recharges : payments[s].status # "none" => payments'[s].status # "none"
    OBVIOUS
  <2>3. \A s \in Recharges : About(d, s) => payments'[s].status # "none"
    OBVIOUS
  <2> QED
    BY <2>1, <2>2, <2>3, DatesStand DEF WalletInv, DatesInv
<1>2. ASSUME ~disturbed' PROVE OneEach' /\ AllAgree' /\ Balanced' /\ FaithfulInv'
  <2>1. OneEach /\ AllAgree /\ Balanced /\ FaithfulInv
    BY <1>2 DEF WalletInv
  <2>2. OneEach' /\ AllAgree'
    <3>1. \A s \in Recharges : \/ payments'[s].status = payments[s].status /\ payments'[s].paid = payments[s].paid
                               \/ \A g \in Hands \ {h} : ~About(doing[g], s)
      BY <1>2
    <3>2. \A s \in Recharges : About(d, s) => \A g \in Hands \ {h} : ~About(doing[g], s)
      BY <1>2
    <3>3. AgreesWith(d, tenant', payments')
      BY <1>2 DEF AgreesWith
    <3> QED
      BY <2>1, <3>1, <3>2, <3>3, AgreementStands
  <2>3. month \in Months /\ tenant \in TenantRows /\ logs \in [Months -> Nat]
    BY DEF WalletTypeOK
  <2>a. \A k \in Months : ReceivedIn(payments', k) = ReceivedIn(payments, k) + (IF k = month THEN x ELSE 0)
    BY <1>2
  <2>4. \A k \in Months : k < month => logs'[k] = logs[k] /\ ReceivedIn(payments', k) = ReceivedIn(payments, k)
    BY <2>3, <2>a, ReceivedType DEF Months
  <2>5. Nets(tenant, logs', payments')[month] = Nets(tenant, logs, payments)[month] + x
    <3>1. /\ Nets(tenant, logs, payments')[month]
               = ReceivedIn(payments', month) - (IF Prepaid(tenant) THEN logs[month] * tenant.price ELSE 0)
          /\ Nets(tenant, logs, payments)[month]
               = ReceivedIn(payments, month) - (IF Prepaid(tenant) THEN logs[month] * tenant.price ELSE 0)
      BY <2>3, NetsType
    <3>2. (IF Prepaid(tenant) THEN logs[month] * tenant.price ELSE 0) \in Int
      <4>1. logs[month] \in Int /\ tenant.price \in Int
        BY <2>3 DEF TenantRows
      <4>2. logs[month] * tenant.price \in Int
        BY <4>1
      <4> QED
        BY <4>2
    <3>3. ReceivedIn(payments', month) = ReceivedIn(payments, month) + x /\ ReceivedIn(payments, month) \in Int
      BY <2>3, <2>a, ReceivedType
    <3> DEFINE c == IF Prepaid(tenant) THEN logs[month] * tenant.price ELSE 0
    <3> HIDE DEF c
    <3>4. c \in Int /\ Nets(tenant, logs, payments')[month] = ReceivedIn(payments', month) - c
          /\ Nets(tenant, logs, payments)[month] = ReceivedIn(payments, month) - c
      BY <3>1, <3>2 DEF c
    <3> QED
      BY <3>3, <3>4
  <2>6. LedgerBefore(month + 1)' = LedgerBefore(month + 1) + x
    BY <2>4, <2>5, LedgerMoves
  <2>7. Balanced'
    BY <1>2, <2>1, <2>6, BalanceStands
  <2>8. FaithfulInv'
    BY <2>1, <2>3, <2>4, FaithfulStands DEF Months
  <2> QED
    BY <2>2, <2>7, <2>8
<1> QED
  BY <1>1, <1>2 DEF WalletInv

\* Received amounts while no row of a month comes or goes.
LEMMA ReceivedStands ==
  ASSUME WalletTypeOK, NEW r \in Recharges, \A s \in Recharges \ {r} : payments'[s] = payments[s],
         \/ payments'[r].status = payments[r].status /\ payments'[r].paid = payments[r].paid
         \/ payments'[r].status # "CONFIRMED" /\ payments[r].status # "CONFIRMED"
  PROVE  \A k \in Months : ReceivedIn(payments', k) = ReceivedIn(payments, k) + (IF k = month THEN 0 ELSE 0)
<1> TAKE k \in Months
<1>1. ReceivedIn(payments', k) = ReceivedIn(payments, k)
  BY ReceivedSame
<1> QED
  BY <1>1, ReceivedType

\* Nobody is about a row that does not exist.
LEMMA NobodyAbout ==
  ASSUME DatesInv, NEW r \in Recharges, payments[r].status = "none"
  PROVE  \A g \in Hands : ~About(doing[g], r)
  BY DEF DatesInv

LEMMA NotCrossing ==
  ASSUME NEW r \in Recharges, ~Crossing(r)
  PROVE  \A g \in Hands : ~About(doing[g], r)
  BY DEF Crossing, Concerns, About

LEMMA CreatePixStep ==
  ASSUME WalletTypeOK, WalletTypeOK', WalletInv, NEW h \in Hands, NEW r \in Recharges, CreatePixPayment(h, r)
  PROVE  WalletInv'
<1> DEFINE d == [op |-> "create", at |-> "call", of |-> r, answer |-> "none"]
<1>1. /\ UNCHANGED <<tenant, logs, month, cycles, start, unbooked, disturbed, faithful>>
      /\ doing[h] = Idle /\ payments[r].status = "none" /\ Sets(h, d)
  BY CreateSets DEF CreatePixPayment, ghosts
<1>2. /\ payments'[r].status = "PENDING" /\ payments'[r].paid = payments[r].paid
      /\ \A s \in Recharges \ {r} : payments'[s] = payments[s]
  BY CreateTables
<1>3. DatesInv /\ (disturbed => faithful = {})
  BY DEF WalletInv
<1>4. \A g \in Hands : ~About(doing[g], r)
  BY <1>1, <1>3, NobodyAbout
<1>5. RowOK(payments'[r], month)
  BY <1>2, <1>3 DEF DatesInv, RowOK
<1>6. /\ ~HasSeen(d) /\ \A s \in Recharges : About(d, s) => s = r
      /\ UnsettledOf(d) = 0 /\ UnsettledOf(doing[h]) = 0
      /\ AgreesWith(d, tenant, payments')
  BY <1>1, <1>2, ApartIs DEF HasSeen, About, UnsettledOf, IsMessage, AgreesWith
<1>7. \A k \in Months : ReceivedIn(payments', k) = ReceivedIn(payments, k) + (IF k = month THEN 0 ELSE 0)
  BY <1>1, <1>2, ReceivedStands
<1> HIDE DEF d
<1>8. tenant'.balance + UnsettledOf(d) = tenant.balance + UnsettledOf(doing[h]) + 0
  BY <1>1, <1>6 DEF WalletTypeOK, TenantRows
<1>9. payments'[r].status # "none" /\ faithful' \subseteq faithful
  BY <1>1, <1>2
<1> QED
  BY <1>1, <1>2, <1>3, <1>4, <1>5, <1>6, <1>7, <1>8, <1>9, 0 \in Int, PaymentStep

\* An operation at a payment goes on, and the row stays as it was or as the operation knows it.
LEMMA SameRowStep ==
  ASSUME WalletTypeOK, WalletTypeOK', WalletInv, NEW h \in Hands, NEW d, Sets(h, d), NEW r \in Recharges,
         About(doing[h], r), \A s \in Recharges : About(d, s) => s = r,
         UNCHANGED <<tenant, logs, month, cycles, start, unbooked, disturbed, faithful>>,
         \A s \in Recharges \ {r} : payments'[s] = payments[s],
         RowOK(payments'[r], month), payments'[r].status # "none",
         HasSeen(d) => RowOK(d.seen, month) /\ d.seen.status # "none",
         UnsettledOf(d) = UnsettledOf(doing[h]),
         ~disturbed => /\ \/ payments'[r].status = payments[r].status /\ payments'[r].paid = payments[r].paid
                          \/ payments'[r].status # "CONFIRMED" /\ payments[r].status # "CONFIRMED"
                       /\ AgreesWith(d, tenant, payments')
  PROVE  WalletInv'
<1>1. disturbed => faithful = {}
  BY DEF WalletInv
<1>2. ~disturbed => \A g \in Hands \ {h} : ~About(doing[g], r)
  BY Alone DEF WalletInv
<1>3. ~disturbed =>
        \A k \in Months : ReceivedIn(payments', k) = ReceivedIn(payments, k) + (IF k = month THEN 0 ELSE 0)
  BY ReceivedStands
<1>4. tenant'.balance + UnsettledOf(d) = tenant.balance + UnsettledOf(doing[h]) + 0
  <2>1. UnsettledOf(doing[h]) \in Int /\ tenant.balance \in Int
    BY HandHere, UnsettledType DEF WalletTypeOK, TenantRows
  <2> QED
    BY <2>1
<1>5. faithful' \subseteq faithful
  OBVIOUS
<1>6. ~disturbed' =>
           /\ \/ payments'[r].status = payments[r].status /\ payments'[r].paid = payments[r].paid
              \/ \A g \in Hands \ {h} : ~About(doing[g], r)
           /\ About(d, r) => \A g \in Hands \ {h} : ~About(doing[g], r)
           /\ AgreesWith(d, tenant, payments')
           /\ \A k \in Months : ReceivedIn(payments', k) = ReceivedIn(payments, k) + (IF k = month THEN 0 ELSE 0)
           /\ tenant'.balance + UnsettledOf(d) = tenant.balance + UnsettledOf(doing[h]) + 0
  BY <1>2, <1>3, <1>4
<1> QED
  BY <1>1, <1>5, <1>6, 0 \in Int, PaymentStep

LEMMA AboutIdle == /\ \A r : ~About(Idle, r)
                   /\ ~HasSeen(Idle)
                   /\ UnsettledOf(Idle) = 0
  BY ApartIs

\* A row somebody is about exists.
LEMMA RowHere ==
  ASSUME WalletTypeOK, WalletInv, NEW h \in Hands, NEW r \in Recharges, About(doing[h], r)
  PROVE  payments[r].status # "none" /\ RowOK(payments[r], month)
  BY DEF WalletInv, DatesInv

LEMMA CreateFacts ==
  ASSUME NEW d \in CreateHands
  PROVE  /\ d.of \in Recharges /\ \A r : About(d, r) <=> r = d.of
         /\ UnsettledOf(d) = 0 /\ ~HasSeen(d)
         /\ \A t, pays : AgreesWith(d, t, pays) <=> pays[d.of].status = "PENDING"
<1>1. d.op = "create" /\ d.of \in Recharges
  BY DEF CreateHands
<1>2. d # Idle
  BY <1>1 DEF Idle
<1> QED
  BY <1>1, <1>2 DEF About, UnsettledOf, IsMessage, HasSeen, AgreesWith

LEMMA CallStep ==
  ASSUME WalletTypeOK, WalletTypeOK', WalletInv, NEW h \in Hands, CallProvider(h)
  PROVE  WalletInv'
<1>1. /\ UNCHANGED <<tenant, logs, month, cycles, start, unbooked, disturbed, faithful, payments>>
      /\ doing[h] \in CreateHands
  BY CallSets DEF CallProvider, ghosts
<1> DEFINE r == doing[h].of
<1>2. r \in Recharges /\ About(doing[h], r) /\ UnsettledOf(doing[h]) = 0
  BY <1>1, CreateFacts
<1>3. payments[r].status # "none" /\ RowOK(payments[r], month)
  BY <1>2, RowHere
<1>4. CASE Sets(h, Idle)
  BY <1>1, <1>2, <1>3, <1>4, AboutIdle, IdleAgrees, SameRowStep
<1>5. ASSUME NEW s \in {"pending", "rejected"}, Sets(h, [doing[h] EXCEPT !.at = "attempt", !.answer = s])
      PROVE  WalletInv'
  <2> DEFINE d == [doing[h] EXCEPT !.at = "attempt", !.answer = s]
  <2>1. d \in CreateHands /\ d.of = r
    BY <1>1 DEF CreateHands
  <2>2. Sets(h, d)
    BY <1>5
  <2> HIDE DEF d
  <2>3. ~disturbed => payments[r].status = "PENDING"
    BY <1>1, CreateFacts DEF WalletInv, AllAgree
  <2>4. /\ \A q \in Recharges : About(d, q) => q = r
        /\ UnsettledOf(d) = 0 /\ ~HasSeen(d)
        /\ ~disturbed => AgreesWith(d, tenant, payments)
    BY <2>1, <2>3, CreateFacts
  <2> HIDE DEF r
  <2>5. payments' = payments
    BY <1>1
  <2> QED
    BY <1>1, <1>2, <1>3, <2>2, <2>4, <2>5, SameRowStep
<1> QED
  BY <1>4, <1>5, CallSets

LEMMA AttemptStep ==
  ASSUME WalletTypeOK, WalletTypeOK', WalletInv, NEW h \in Hands, ApplyAttempt(h)
  PROVE  WalletInv'
<1> DEFINE r == doing[h].of
           d == [doing[h] EXCEPT !.at = "apply"]
<1>1. /\ UNCHANGED <<tenant, logs, month, cycles, start, unbooked, disturbed, faithful>>
      /\ doing[h] \in CreateHands /\ Sets(h, d)
  BY AttemptSets DEF ApplyAttempt, ghosts
<1>2. /\ payments'[r].status = payments[r].status /\ payments'[r].paid = payments[r].paid
      /\ \A s \in Recharges \ {r} : payments'[s] = payments[s]
  BY AttemptTables
<1>3. r \in Recharges /\ About(doing[h], r) /\ UnsettledOf(doing[h]) = 0
  BY <1>1, CreateFacts
<1>4. payments[r].status # "none" /\ RowOK(payments[r], month)
  BY <1>3, RowHere
<1>5. d \in CreateHands /\ d.of = r
  BY <1>1 DEF CreateHands
<1> HIDE DEF d
<1>6. ~disturbed => payments[r].status = "PENDING"
  BY <1>1, CreateFacts DEF WalletInv, AllAgree
<1>7. /\ \A q \in Recharges : About(d, q) => q = r
      /\ UnsettledOf(d) = 0 /\ ~HasSeen(d)
      /\ ~disturbed => AgreesWith(d, tenant, payments')
  BY <1>2, <1>5, <1>6, CreateFacts
<1> HIDE DEF r
<1>8. RowOK(payments'[r], month)
  BY <1>2, <1>4 DEF RowOK
<1> QED
  BY <1>1, <1>2, <1>3, <1>4, <1>7, <1>8, SameRowStep

LEMMA ApplyStep ==
  ASSUME WalletTypeOK, WalletTypeOK', WalletInv, NEW h \in Hands, ApplyPayment(h)
  PROVE  WalletInv'
<1> DEFINE r == doing[h].of
<1>1. /\ UNCHANGED <<tenant, logs, month, cycles, start, unbooked, disturbed, faithful>>
      /\ doing[h] \in CreateHands /\ Sets(h, Idle)
  BY ApplySets DEF ApplyPayment, ghosts
<1>2. /\ payments'[r].status \in {"PENDING", "FAILED"} /\ payments'[r].paid = 0
      /\ \A s \in Recharges \ {r} : payments'[s] = payments[s]
  BY ApplyTables
<1>3. r \in Recharges /\ About(doing[h], r) /\ UnsettledOf(doing[h]) = 0
  BY <1>1, CreateFacts
<1>4. ~disturbed => payments[r].status = "PENDING"
  BY <1>1, CreateFacts DEF WalletInv, AllAgree
<1> HIDE DEF r
<1>5. RowOK(payments'[r], month)
  BY <1>2 DEF RowOK, WalletTypeOK, Months
<1> QED
  BY <1>1, <1>2, <1>3, <1>4, <1>5, AboutIdle, IdleAgrees, SameRowStep

\* Operations that have seen a row.
SeenHands == NoticeHands \cup PollHands

LEMMA SeenFacts ==
  ASSUME NEW d \in SeenHands
  PROVE  /\ d.of \in Recharges /\ d.seen \in PaymentRows
         /\ \A r : About(d, r) <=> r = d.of
         /\ HasSeen(d) /\ ~IsMessage(d) /\ d.op # "create"
         /\ UnsettledOf(d) = IF d.at = "credit" THEN Amount ELSE 0
<1>1. CASE d \in NoticeHands
  <2>1. d.op = "notice" /\ d.of \in Recharges /\ d.seen \in PaymentRows
    BY <1>1 DEF NoticeHands
  <2>2. d # Idle
    BY <2>1 DEF Idle
  <2> QED
    BY <2>1, <2>2 DEF About, UnsettledOf, IsMessage, HasSeen
<1>2. CASE d \in PollHands
  <2>1. d.op = "poll" /\ d.of \in Recharges /\ d.seen \in PaymentRows /\ d.at # "credit"
    BY <1>2 DEF PollHands
  <2>2. d # Idle
    BY <2>1 DEF Idle
  <2> QED
    BY <2>1, <2>2 DEF About, UnsettledOf, IsMessage, HasSeen
<1> QED
  BY <1>1, <1>2 DEF SeenHands

LEMMA SeenAgrees ==
  ASSUME NEW d \in SeenHands, NEW t, NEW pays
  PROVE  AgreesWith(d, t, pays)
           <=> (d.at # "credit" => d.seen.status = pays[d.of].status /\ d.seen.paid = pays[d.of].paid)
  BY SeenFacts DEF AgreesWith

\* What such an operation saw is a row, and the row if nothing disturbed it.
LEMMA SeenHere ==
  ASSUME WalletTypeOK, WalletInv, NEW h \in Hands, doing[h] \in SeenHands
  PROVE  /\ RowOK(doing[h].seen, month) /\ doing[h].seen.status # "none"
         /\ ~disturbed /\ doing[h].at # "credit" =>
              /\ doing[h].seen.status = payments[doing[h].of].status
              /\ doing[h].seen.paid = payments[doing[h].of].paid
<1>1. HasSeen(doing[h])
  BY SeenFacts
<1>2. ~disturbed => AgreesWith(doing[h], tenant, payments)
  BY DEF WalletInv, AllAgree
<1> QED
  BY <1>1, <1>2, SeenAgrees DEF WalletInv, DatesInv

\* An operation starts with the row it reads.
LEMMA SeenBegins ==
  ASSUME WalletTypeOK, WalletTypeOK', WalletInv, NEW h \in Hands, doing[h] = Idle, NEW r \in Recharges,
         NEW d \in SeenHands, Sets(h, d), d.of = r, d.seen = payments[r], d.at # "credit",
         payments[r].status # "none", Disturb(Crossing(r)),
         UNCHANGED <<tenant, logs, payments, cycles, month>>
  PROVE  WalletInv'
<1>1. start' = start /\ unbooked' = unbooked /\ (disturbed' <=> disturbed \/ Crossing(r))
      /\ faithful' = IF Crossing(r) THEN {} ELSE faithful
  BY DEF Disturb
<1>2. DatesInv /\ (disturbed => faithful = {})
  BY DEF WalletInv
<1>3. RowOK(payments[r], month)
  BY <1>2 DEF DatesInv
<1>4. /\ \A s \in Recharges : About(d, s) => s = r
      /\ UnsettledOf(d) = 0 /\ UnsettledOf(doing[h]) = 0
      /\ AgreesWith(d, tenant, payments)
  BY SeenFacts, SeenAgrees, AboutIdle
<1>5. ~disturbed' => \A g \in Hands \ {h} : ~About(doing[g], r)
  BY <1>1, NotCrossing
<1>6. \A k \in Months : ReceivedIn(payments', k) = ReceivedIn(payments, k) + (IF k = month THEN 0 ELSE 0)
  BY ReceivedStands
<1>7. tenant'.balance + UnsettledOf(d) = tenant.balance + UnsettledOf(doing[h]) + 0
  BY <1>4 DEF WalletTypeOK, TenantRows
<1>8. /\ disturbed => disturbed'
      /\ disturbed' => faithful' = {}
      /\ faithful' \subseteq faithful
  BY <1>1, <1>2
<1>9. payments' = payments /\ payments'[r] = payments[r]
  OBVIOUS
<1> QED
  BY <1>1, <1>3, <1>4, <1>5, <1>6, <1>7, <1>8, <1>9, 0 \in Int, PaymentStep

LEMMA NoticeStep ==
  ASSUME WalletTypeOK, WalletTypeOK', WalletInv, NEW h \in Hands, NEW r \in Recharges, HandleWebhook(h, r)
  PROVE  WalletInv'
<1> DEFINE d == [op |-> "notice", of |-> r, seen |-> payments[r],
                 at |-> IF payments[r].found = "attempt" THEN "name" ELSE "confirm"]
<1>1. payments[r] \in PaymentRows
  BY DEF WalletTypeOK
<1>2. d \in NoticeHands /\ d.of = r /\ d.seen = payments[r] /\ d.at # "credit"
  BY <1>1 DEF NoticeHands
<1>3. Sets(h, d)
  BY NoticeSets
<1>4. payments[r].status # "none"
  BY DEF HandleWebhook, WalletInv, DatesInv, RowOK
<1> HIDE DEF d
<1> QED
  BY <1>2, <1>3, <1>4, SeenBegins DEF HandleWebhook, SeenHands

LEMMA PollStep ==
  ASSUME WalletTypeOK, WalletTypeOK', WalletInv, NEW h \in Hands, NEW r \in Recharges, GetPaymentStatus(h, r)
  PROVE  WalletInv'
<1> DEFINE d == [op |-> "poll", at |-> "ask", of |-> r, seen |-> payments[r], answer |-> "none"]
<1>1. payments[r] \in PaymentRows
  BY DEF WalletTypeOK
<1>2. d \in PollHands /\ d.of = r /\ d.seen = payments[r] /\ d.at # "credit"
  BY <1>1 DEF PollHands
<1>3. Sets(h, d)
  BY PollSets
<1> HIDE DEF d
<1> QED
  BY <1>2, <1>3, SeenBegins DEF GetPaymentStatus, SeenHands

LEMMA NameStep ==
  ASSUME WalletTypeOK, WalletTypeOK', WalletInv, NEW h \in Hands, NamePayment(h)
  PROVE  WalletInv'
<1> DEFINE r == doing[h].of
           d == [doing[h] EXCEPT !.at = "confirm"]
<1>1. /\ UNCHANGED <<tenant, logs, month, cycles, start, unbooked, disturbed, faithful>>
      /\ doing[h] \in NoticeHands /\ doing[h].at = "name" /\ Sets(h, d)
  BY NameSets DEF NamePayment, ghosts
<1>2. /\ payments'[r].status = doing[h].seen.status /\ payments'[r].paid = doing[h].seen.paid
      /\ \A s \in Recharges \ {r} : payments'[s] = payments[s]
  BY NameTables
<1>3. doing[h] \in SeenHands
  BY <1>1 DEF SeenHands
<1>4. r \in Recharges /\ About(doing[h], r) /\ UnsettledOf(doing[h]) = 0
  BY <1>1, <1>3, SeenFacts
<1>5. /\ RowOK(doing[h].seen, month) /\ doing[h].seen.status # "none"
      /\ ~disturbed => doing[h].seen.status = payments[r].status /\ doing[h].seen.paid = payments[r].paid
  BY <1>1, <1>3, SeenHere
<1>6. d \in NoticeHands /\ d.of = r /\ d.seen = doing[h].seen /\ d.at = "confirm"
  BY <1>1 DEF NoticeHands
<1> HIDE DEF d
<1>7. d \in SeenHands
  BY <1>6 DEF SeenHands
<1>8. /\ \A s \in Recharges : About(d, s) => s = r
      /\ UnsettledOf(d) = 0
      /\ RowOK(d.seen, month) /\ d.seen.status # "none"
      /\ AgreesWith(d, tenant, payments')
  BY <1>2, <1>5, <1>6, <1>7, SeenFacts, SeenAgrees
<1> HIDE DEF r
<1>9. RowOK(payments'[r], month) /\ payments'[r].status # "none"
  BY <1>2, <1>5 DEF RowOK
<1> QED
  BY <1>1, <1>2, <1>4, <1>5, <1>8, <1>9, SameRowStep

LEMMA AskStep ==
  ASSUME WalletTypeOK, WalletTypeOK', WalletInv, NEW h \in Hands, Ask(h)
  PROVE  WalletInv'
<1> DEFINE r == doing[h].of
<1>1. /\ UNCHANGED <<tenant, logs, month, cycles, start, unbooked, disturbed, faithful, payments>>
      /\ doing[h] \in PollHands /\ doing[h].at = "ask"
  BY AskSets DEF Ask, ghosts
<1>2. doing[h] \in SeenHands
  BY <1>1 DEF SeenHands
<1>3. r \in Recharges /\ About(doing[h], r) /\ UnsettledOf(doing[h]) = 0
  BY <1>1, <1>2, SeenFacts
<1>4. payments[r].status # "none" /\ RowOK(payments[r], month)
  BY <1>3, RowHere
<1>5. CASE Sets(h, Idle)
  BY <1>1, <1>3, <1>4, <1>5, AboutIdle, IdleAgrees, SameRowStep
<1>6. CASE Sets(h, [doing[h] EXCEPT !.at = "polled", !.answer = provider[doing[h].of]])
  <2> DEFINE d == [doing[h] EXCEPT !.at = "polled", !.answer = provider[doing[h].of]]
  <2>0. provider[doing[h].of] \in {"none", "pending", "approved", "rejected"}
    BY <1>3 DEF WalletTypeOK
  <2>1. d \in PollHands /\ d.of = r /\ d.seen = doing[h].seen /\ d.at = "polled"
    BY <1>1, <2>0 DEF PollHands
  <2>2. Sets(h, d)
    BY <1>6
  <2> HIDE DEF d
  <2>3. d \in SeenHands
    BY <2>1 DEF SeenHands
  <2>4. /\ RowOK(doing[h].seen, month) /\ doing[h].seen.status # "none"
        /\ ~disturbed => doing[h].seen.status = payments[r].status /\ doing[h].seen.paid = payments[r].paid
    BY <1>1, <1>2, SeenHere
  <2>5. /\ \A s \in Recharges : About(d, s) => s = r
        /\ UnsettledOf(d) = 0
        /\ RowOK(d.seen, month) /\ d.seen.status # "none"
        /\ ~disturbed => AgreesWith(d, tenant, payments)
    BY <2>1, <2>3, <2>4, SeenFacts, SeenAgrees
  <2> HIDE DEF r
  <2>6. payments' = payments
    BY <1>1
  <2> QED
    BY <1>1, <1>3, <1>4, <2>2, <2>5, <2>6, SameRowStep
<1> QED
  BY <1>5, <1>6, AskSets

LEMMA ConfirmStep ==
  ASSUME WalletTypeOK, WalletTypeOK', WalletInv, NEW h \in Hands, ConfirmRecharge(h)
  PROVE  WalletInv'
<1> DEFINE r == doing[h].of
<1>1. /\ UNCHANGED <<tenant, logs, month, cycles, start, unbooked, disturbed, faithful>>
      /\ doing[h] \in NoticeHands /\ doing[h].at = "confirm"
  BY ConfirmSets DEF ConfirmRecharge, ghosts
<1>2. doing[h] \in SeenHands
  BY <1>1 DEF SeenHands
<1>3. r \in Recharges /\ About(doing[h], r) /\ UnsettledOf(doing[h]) = 0
  BY <1>1, <1>2, SeenFacts
<1>4. payments[r].status # "none" /\ RowOK(payments[r], month)
  BY <1>3, RowHere
<1>5. /\ RowOK(doing[h].seen, month) /\ doing[h].seen.status # "none"
      /\ ~disturbed => doing[h].seen.status = payments[r].status /\ doing[h].seen.paid = payments[r].paid
  BY <1>1, <1>2, SeenHere
<1>6. CASE doing[h].seen.status = "CONFIRMED"
  <2>1. payments' = payments /\ Sets(h, Idle)
    BY <1>6, ConfirmSets, ConfirmTables
  <2> HIDE DEF r
  <2> QED
    BY <1>1, <1>3, <1>4, <2>1, AboutIdle, IdleAgrees, SameRowStep
<1>7. CASE doing[h].seen.status # "CONFIRMED"
  <2> DEFINE d == [doing[h] EXCEPT !.at = "credit"]
  <2>1. /\ Sets(h, d)
        /\ payments'[r].status = "CONFIRMED" /\ payments'[r].paid = month
        /\ \A s \in Recharges \ {r} : payments'[s] = payments[s]
    BY <1>7, ConfirmSets, ConfirmTables
  <2>2. d \in NoticeHands /\ d.of = r /\ d.seen = doing[h].seen /\ d.at = "credit"
    BY <1>1 DEF NoticeHands
  <2> HIDE DEF d
  <2>3. d \in SeenHands
    BY <2>2 DEF SeenHands
  <2>4. /\ \A s \in Recharges : About(d, s) => s = r
        /\ UnsettledOf(d) = Amount
        /\ RowOK(d.seen, month) /\ d.seen.status # "none"
        /\ AgreesWith(d, tenant, payments')
    BY <1>5, <2>2, <2>3, SeenFacts, SeenAgrees
  <2> HIDE DEF r
  <2>5. RowOK(payments'[r], month) /\ payments'[r].status # "none"
    BY <2>1 DEF RowOK, WalletTypeOK, Months
  <2>6. ASSUME ~disturbed
        PROVE  \A k \in Months : ReceivedIn(payments', k) = ReceivedIn(payments, k) + (IF k = month THEN Amount ELSE 0)
    <3> TAKE k \in Months
    <3>1. payments[r].status # "CONFIRMED"
      BY <1>5, <1>7, <2>6
    <3>2. CASE k = month
      <4>1. ReceivedIn(payments', k) = ReceivedIn(payments, k) + Amount
        BY <1>3, <2>1, <3>1, <3>2, ReceivedMore
      <4> QED
        BY <3>2, <4>1
    <3>3. CASE k # month
      <4>1. \A s \in Recharges : (payments[s].status = "CONFIRMED" /\ payments[s].paid = k)
                                   <=> (payments'[s].status = "CONFIRMED" /\ payments'[s].paid = k)
        BY <2>1, <3>1, <3>3
      <4>2. ReceivedIn(payments', k) = ReceivedIn(payments, k)
        BY <4>1, ReceivedSame
      <4> QED
        BY <3>3, <4>2, ReceivedType
    <3> QED
      BY <3>2, <3>3
  <2>7. ~disturbed => \A g \in Hands \ {h} : ~About(doing[g], r)
    BY <1>3, Alone DEF WalletInv
  <2>8. tenant'.balance + UnsettledOf(d) = tenant.balance + UnsettledOf(doing[h]) + Amount
    BY <1>1, <1>3, <2>4, WalletAssumption DEF WalletTypeOK, TenantRows
  <2>9. (disturbed => faithful = {}) /\ Amount \in Int
    BY WalletAssumption DEF WalletInv
  <2>10. ~disturbed' =>
           /\ \/ payments'[r].status = payments[r].status /\ payments'[r].paid = payments[r].paid
              \/ \A g \in Hands \ {h} : ~About(doing[g], r)
           /\ About(d, r) => \A g \in Hands \ {h} : ~About(doing[g], r)
           /\ AgreesWith(d, tenant, payments')
           /\ \A k \in Months : ReceivedIn(payments', k) = ReceivedIn(payments, k) + (IF k = month THEN Amount ELSE 0)
           /\ tenant'.balance + UnsettledOf(d) = tenant.balance + UnsettledOf(doing[h]) + Amount
    BY <1>1, <2>4, <2>6, <2>7, <2>8
  <2>11. faithful' \subseteq faithful /\ (disturbed => disturbed') /\ (disturbed' => faithful' = {})
    BY <1>1, <2>9
  <2> QED
    BY <1>1, <1>3, <2>1, <2>4, <2>5, <2>9, <2>10, <2>11, PaymentStep
<1> QED
  BY <1>6, <1>7

LEMMA CreditStep ==
  ASSUME WalletTypeOK, WalletTypeOK', WalletInv, NEW h \in Hands, Credit(h)
  PROVE  WalletInv'
<1> DEFINE r == doing[h].of
<1>1. /\ UNCHANGED <<logs, month, cycles, start, unbooked, disturbed, faithful, payments>>
      /\ doing[h] \in NoticeHands /\ doing[h].at = "credit" /\ Sets(h, Idle)
      /\ tenant' = [tenant EXCEPT !.balance = @ + Amount]
  BY CreditSets DEF Credit, ghosts
<1>2. doing[h] \in SeenHands
  BY <1>1 DEF SeenHands
<1>3. r \in Recharges /\ About(doing[h], r) /\ UnsettledOf(doing[h]) = Amount
  BY <1>1, <1>2, SeenFacts
<1> HIDE DEF r
<1>4. payments[r].status # "none" /\ RowOK(payments[r], month) /\ payments' = payments
  BY <1>1, <1>3, RowHere
<1>5. /\ tenant'.balance = tenant.balance + Amount /\ tenant'.plan = tenant.plan /\ tenant'.price = tenant.price
      /\ tenant.balance \in Int /\ Amount \in Int
  BY <1>1, WalletAssumption DEF WalletTypeOK, TenantRows
<1>6. \A k \in Months : ReceivedIn(payments', k) = ReceivedIn(payments, k) + (IF k = month THEN 0 ELSE 0)
  BY <1>3, <1>4, ReceivedStands
<1>7. tenant'.balance + UnsettledOf(Idle) = tenant.balance + UnsettledOf(doing[h]) + 0
  BY <1>3, <1>5, AboutIdle
<1>8. disturbed => faithful = {}
  BY DEF WalletInv
<1>9. /\ ~About(Idle, r) /\ ~HasSeen(Idle) /\ (\A s \in Recharges : About(Idle, s) => s = r)
      /\ \A t, pays : AgreesWith(Idle, t, pays)
  BY AboutIdle, IdleAgrees
<1>10. faithful' \subseteq faithful /\ (disturbed => disturbed') /\ (disturbed' => faithful' = {})
  BY <1>1, <1>8
<1> QED
  BY <1>1, <1>3, <1>4, <1>5, <1>6, <1>7, <1>9, <1>10, 0 \in Int, PaymentStep

LEMMA RefreshStep ==
  ASSUME WalletTypeOK, WalletTypeOK', WalletInv, NEW h \in Hands, RefreshPaymentStatus(h)
  PROVE  WalletInv'
<1> DEFINE r == doing[h].of
           s == AsPayment(doing[h].answer)
           paid == doing[h].seen.paid
           upset == (s = "CONFIRMED") # (payments[r].status = "CONFIRMED")
<1>1. /\ UNCHANGED <<tenant, logs, month, cycles>>
      /\ doing[h] \in PollHands /\ doing[h].at = "polled" /\ Sets(h, Idle)
      /\ Disturb(upset)
  BY RefreshSets DEF RefreshPaymentStatus
<1>2. /\ payments'[r].status = s /\ s # "none"
      /\ payments'[r].paid = IF s = "CONFIRMED" /\ paid = 0 THEN month ELSE paid
      /\ \A q \in Recharges \ {r} : payments'[q] = payments[q]
  BY RefreshTables
<1>3. doing[h] \in SeenHands
  BY <1>1 DEF SeenHands
<1>4. r \in Recharges /\ About(doing[h], r) /\ UnsettledOf(doing[h]) = 0 /\ paid \in 0..MaxMonth
  BY <1>1, <1>3, SeenFacts DEF PaymentRows
<1>5. payments[r].status # "none" /\ RowOK(payments[r], month)
  BY <1>4, RowHere
<1>6. /\ RowOK(doing[h].seen, month)
      /\ ~disturbed => doing[h].seen.status = payments[r].status /\ paid = payments[r].paid
  BY <1>1, <1>3, SeenHere
<1>a. paid <= month
  BY <1>6 DEF RowOK
<1> HIDE DEF r, s, paid
<1>7. RowOK(payments'[r], month) /\ payments'[r].status # "none"
  BY <1>2, <1>4, <1>a DEF RowOK, WalletTypeOK, Months
<1>8. start' = start /\ unbooked' = unbooked /\ (disturbed' <=> disturbed \/ upset)
      /\ faithful' = IF upset THEN {} ELSE faithful
  BY <1>1 DEF Disturb
<1>9. disturbed => faithful = {}
  BY DEF WalletInv
<1>10. faithful' \subseteq faithful /\ (disturbed => disturbed') /\ (disturbed' => faithful' = {})
  <2> HIDE DEF upset
  <2> QED
    BY <1>8, <1>9
<1>11. ASSUME ~disturbed'
       PROVE  \/ payments'[r].status = payments[r].status /\ payments'[r].paid = payments[r].paid
              \/ payments'[r].status # "CONFIRMED" /\ payments[r].status # "CONFIRMED"
  <2>1. ~disturbed /\ ((s = "CONFIRMED") <=> (payments[r].status = "CONFIRMED"))
    BY <1>8, <1>11
  <2>2. CASE s = "CONFIRMED"
    <3>1. payments[r].status = "CONFIRMED" /\ paid = payments[r].paid /\ paid >= 1
      BY <1>5, <1>6, <2>1, <2>2 DEF RowOK
    <3> QED
      BY <1>2, <2>2, <3>1
  <2>3. CASE s # "CONFIRMED"
    BY <1>2, <2>1, <2>3
  <2> QED
    BY <2>2, <2>3
<1>12. ~disturbed' =>
        \A k \in Months : ReceivedIn(payments', k) = ReceivedIn(payments, k) + (IF k = month THEN 0 ELSE 0)
  BY <1>2, <1>4, <1>11, ReceivedStands
<1>13. ~disturbed' => \A g \in Hands \ {h} : ~About(doing[g], r)
  BY <1>4, <1>8, Alone DEF WalletInv
<1>14. tenant'.balance + UnsettledOf(Idle) = tenant.balance + UnsettledOf(doing[h]) + 0
  BY <1>1, <1>4, AboutIdle DEF WalletTypeOK, TenantRows
<1>15. /\ ~About(Idle, r) /\ ~HasSeen(Idle) /\ (\A q \in Recharges : About(Idle, q) => q = r)
       /\ \A t, pays : AgreesWith(Idle, t, pays)
  BY AboutIdle, IdleAgrees
<1>16. ~disturbed' =>
           /\ \/ payments'[r].status = payments[r].status /\ payments'[r].paid = payments[r].paid
              \/ \A g \in Hands \ {h} : ~About(doing[g], r)
           /\ About(Idle, r) => \A g \in Hands \ {h} : ~About(doing[g], r)
           /\ AgreesWith(Idle, tenant, payments')
           /\ \A k \in Months : ReceivedIn(payments', k) = ReceivedIn(payments, k) + (IF k = month THEN 0 ELSE 0)
           /\ tenant'.balance + UnsettledOf(Idle) = tenant.balance + UnsettledOf(doing[h]) + 0
  BY <1>12, <1>13, <1>14, <1>15
<1> HIDE DEF upset
<1> QED
  BY <1>1, <1>2, <1>4, <1>7, <1>8, <1>10, <1>15, <1>16, 0 \in Int, PaymentStep

---------------------------------------------------------------------------
(* statements that fail *)

\* An operation goes on as d without its statement.
LEMMA SkipStep ==
  ASSUME WalletTypeOK, WalletTypeOK', WalletInv, NEW h \in Hands, NEW d, Sets(h, d), Skips(h, d),
         HasSeen(d) => RowOK(d.seen, month) /\ d.seen.status # "none",
         \A r \in Recharges : About(d, r) => About(doing[h], r),
         ~disturbed => AgreesWith(d, tenant, payments)
  PROVE  WalletInv'
<1> DEFINE x == UnsettledOf(d) - UnsettledOf(doing[h])
<1>1. /\ UNCHANGED <<tenant, logs, payments, provider, cycles, month, start, disturbed>>
      /\ unbooked' = unbooked + x
      /\ faithful' = IF x # 0 THEN {} ELSE faithful
  BY DEF Skips
<1>2. UnsettledOf(d) \in Int /\ UnsettledOf(doing[h]) \in Int
  BY HandHere, UnsettledType DEF Sets
<1>3. /\ tenant \in TenantRows /\ logs \in [Months -> Nat] /\ month \in Months
      /\ start \in Int /\ unbooked \in Int
  BY DEF WalletTypeOK
<1>4. disturbed => faithful = {}
  BY DEF WalletInv
<1>5. DatesInv'
  <2>1. DatesInv
    BY DEF WalletInv
  <2>2. \A r \in Recharges : About(d, r) => payments'[r].status # "none"
    BY <1>1, <2>1 DEF DatesInv
  <2> QED
    BY <1>1, <2>1, <2>2, DatesStand DEF DatesInv
<1>6. disturbed' => faithful' = {}
  BY <1>1, <1>4
<1>7. ASSUME ~disturbed PROVE OneEach' /\ AllAgree' /\ Balanced' /\ FaithfulInv'
  <2>1. OneEach /\ AllAgree /\ Balanced /\ FaithfulInv
    BY <1>7 DEF WalletInv
  <2>2. \A r \in Recharges : About(d, r) => \A g \in Hands \ {h} : ~About(doing[g], r)
    BY <2>1, Alone
  <2>3. AgreesWith(d, tenant', payments')
    BY <1>1, <1>7
  <2>4. OneEach' /\ AllAgree'
    BY <1>1, <2>1, <2>2, <2>3, AgreementStands
  <2>5. LedgerBefore(month + 1)' = LedgerBefore(month + 1) + x
    <3>1. LedgerBefore(month + 1)' = start' + unbooked' + NetBefore(tenant', logs', payments', month' + 1)
      BY DEF LedgerBefore, NetBefore, Before, Months
    <3>2. LedgerBefore(month + 1) = start + unbooked + NetBefore(tenant, logs, payments, month + 1)
      BY LedgerIs
    <3>3. NetBefore(tenant, logs, payments, month + 1) \in Int
      BY <1>3, NetType
    <3> QED
      BY <1>1, <1>2, <1>3, <3>1, <3>2, <3>3
  <2>6. tenant'.balance + UnsettledOf(d) = tenant.balance + UnsettledOf(doing[h]) + x
    BY <1>1, <1>2, <1>3 DEF TenantRows
  <2>7. x \in Int
    BY <1>2
  <2>8. faithful' # {} => start' = start /\ unbooked' = unbooked
    BY <1>1, <1>3
  <2>9. faithful' \subseteq faithful /\ month' >= month
    BY <1>1, <1>3 DEF Months
  <2> HIDE DEF x
  <2>10. Balanced'
    BY <1>1, <2>1, <2>5, <2>6, <2>7, BalanceStands
  <2>11. FaithfulInv'
    BY <1>1, <2>1, <2>8, <2>9, FaithfulStands
  <2> QED
    BY <2>4, <2>10, <2>11
<1> QED
  BY <1>1, <1>5, <1>6, <1>7 DEF WalletInv

LEMMA FailsStep ==
  ASSUME WalletTypeOK, WalletTypeOK', WalletInv, NEW h \in Hands, Fails(h)
  PROVE  WalletInv'
<1>1. Sets(h, Idle) /\ Skips(h, Idle)
  BY FailsSets DEF Fails
<1> QED
  BY <1>1, AboutIdle, IdleAgrees, SkipStep

LEMMA OverlooksStep ==
  ASSUME WalletTypeOK, WalletTypeOK', WalletInv, NEW h \in Hands, Overlooks(h)
  PROVE  WalletInv'
<1>1. PICK d : Skips(h, d) /\ Sets(h, d) /\ Further(doing[h], d)
  BY OverlooksSets
<1>2. CASE /\ doing[h] \in MessageHands /\ d \in MessageHands
           /\ d.at = "log" /\ d.plan = doing[h].plan /\ d.price = doing[h].price
  <2>1. ~HasSeen(d) /\ \A r : ~About(d, r)
    BY <1>2, ApartIs
  <2>2. ~disturbed => AgreesWith(d, tenant, payments)
    BY <1>2, MessageHere, MessageAgrees
  <2> QED
    BY <1>1, <2>1, <2>2, SkipStep
<1>3. CASE doing[h] \in CreateHands /\ d \in CreateHands /\ d.of = doing[h].of
  <2>1. ~HasSeen(d) /\ \A r : About(d, r) => About(doing[h], r)
    BY <1>3, CreateFacts
  <2>2. ~disturbed => AgreesWith(doing[h], tenant, payments)
    BY DEF WalletInv, AllAgree
  <2>3. ~disturbed => AgreesWith(d, tenant, payments)
    BY <1>3, <2>2, CreateFacts
  <2> QED
    BY <1>1, <2>1, <2>3, SkipStep
<1>4. CASE /\ doing[h] \in NoticeHands /\ doing[h].at # "credit"
           /\ d \in NoticeHands /\ d.of = doing[h].of /\ d.seen = doing[h].seen
  <2>1. doing[h] \in SeenHands /\ d \in SeenHands
    BY <1>4 DEF SeenHands
  <2>2. \A r : About(d, r) => About(doing[h], r)
    BY <1>4, <2>1, SeenFacts
  <2>3. RowOK(d.seen, month) /\ d.seen.status # "none"
    BY <1>4, <2>1, SeenHere
  <2>4. ~disturbed => AgreesWith(d, tenant, payments)
    BY <1>4, <2>1, SeenHere, SeenAgrees
  <2> QED
    BY <1>1, <2>2, <2>3, <2>4, SkipStep
<1> QED
  BY <1>1, <1>2, <1>3, <1>4 DEF Further

---------------------------------------------------------------------------
(* saves, the page, the months *)

LEMMA SaveStep ==
  ASSUME WalletTypeOK, WalletTypeOK', WalletInv, NEW h \in Hands, UpdateWallet(h) \/ UpdateTenant(h) \/ SaveSettings(h)
  PROVE  WalletInv'
<1>1. doing[h] \in SaveHands /\ Sets(h, Idle)
  BY SaveSets
<1>2. PICK grant \in {0, 1}, row \in TenantRows :
        row.balance = doing[h].row.balance + grant /\ SaveTenant(h, row, grant)
  BY SaveSets
<1> DEFINE upset == \/ doing[h].row.balance # tenant.balance
                    \/ row.plan # tenant.plan
                    \/ row.price # tenant.price
<1>3. /\ tenant' = row /\ unbooked' = unbooked + grant /\ start' = start
      /\ UNCHANGED <<logs, payments, provider, cycles, month>>
      /\ (disturbed' <=> disturbed \/ upset)
      /\ faithful' = IF upset \/ grant # 0 THEN {} ELSE faithful
  BY <1>2 DEF SaveTenant
<1>4. disturbed => faithful = {}
  BY DEF WalletInv
<1>5. DatesInv'
  BY <1>1, <1>3, AboutIdle, DatesStand DEF WalletInv, DatesInv
<1>6. disturbed' => faithful' = {}
  BY <1>3, <1>4
<1>7. ASSUME ~disturbed' PROVE OneEach' /\ AllAgree' /\ Balanced' /\ FaithfulInv'
  <2>1. ~disturbed /\ ~upset
    BY <1>3, <1>7
  <2>2. OneEach /\ AllAgree /\ Balanced /\ FaithfulInv
    BY <2>1 DEF WalletInv
  <2>3. /\ tenant'.plan = tenant.plan /\ tenant'.price = tenant.price
        /\ tenant'.balance = tenant.balance + grant
    BY <1>2, <1>3, <2>1
  <2>4. OneEach' /\ AllAgree'
    BY <1>1, <1>3, <2>2, <2>3, AboutIdle, IdleAgrees, AgreementStands
  <2>5. /\ tenant \in TenantRows /\ logs \in [Months -> Nat] /\ month \in Months
        /\ tenant' \in TenantRows /\ logs' \in [Months -> Nat]
        /\ start \in Int /\ unbooked \in Int
    BY DEF WalletTypeOK
  <2>6. LedgerBefore(month + 1)' = LedgerBefore(month + 1) + grant
    <3>1. NetBefore(tenant', logs', payments', month + 1) = NetBefore(tenant, logs, payments, month + 1)
      BY <1>3, <2>3, <2>5, NetSame
    <3>2. LedgerBefore(month + 1)' = start' + unbooked' + NetBefore(tenant', logs', payments', month' + 1)
      BY DEF LedgerBefore, NetBefore, Before, Months
    <3>3. LedgerBefore(month + 1) = start + unbooked + NetBefore(tenant, logs, payments, month + 1)
      BY LedgerIs
    <3>4. NetBefore(tenant, logs, payments, month + 1) \in Int
      BY <2>5, NetType
    <3> QED
      BY <1>3, <2>5, <3>1, <3>2, <3>3, <3>4
  <2>7. UnsettledOf(Idle) = 0 /\ UnsettledOf(doing[h]) = 0 /\ Apart(doing[h])
    BY <1>1, ApartIs
  <2>8. tenant'.balance + UnsettledOf(Idle) = tenant.balance + UnsettledOf(doing[h]) + grant
    BY <2>3, <2>5, <2>7 DEF TenantRows
  <2>9. Balanced'
    <3>1. grant \in Int
      OBVIOUS
    <3> QED
      BY <1>1, <1>3, <2>2, <2>6, <2>8, <3>1, BalanceStands
  <2>10. faithful' # {} => start' = start /\ unbooked' = unbooked
    BY <1>3, <2>5
  <2>11. FaithfulInv'
    <3>1. month' >= month /\ faithful' \subseteq faithful
      BY <1>3, <2>5 DEF Months
    <3> QED
      BY <1>3, <2>2, <2>3, <2>10, <3>1, FaithfulStands
  <2> QED
    BY <2>4, <2>9, <2>11
<1> QED
  BY <1>5, <1>6, <1>7 DEF WalletInv

\* When nothing is under way the balance is the ledger.
LEMMA QuietBalance ==
  ASSUME WalletTypeOK, WalletInv, Quiet, ~disturbed
  PROVE  tenant.balance = LedgerBefore(month + 1)
<1> DEFINE v == Unsettled(doing)
<1>1. \A h \in Hands : v[h] = 0
  BY DEF Quiet, Unsettled, UnsettledOf, IsMessage
<1> HIDE DEF v
<1>2. SumFunctionOnSet(v, Hands) = 0
  BY <1>1, SumZero, WalletAssumption
<1>3. tenant.balance + SumFunctionOnSet(v, Hands) = LedgerBefore(month + 1)
  BY DEF WalletInv, Balanced, v
<1>4. tenant.balance \in Int
  BY DEF WalletTypeOK, TenantRows
<1> QED
  BY <1>2, <1>3, <1>4

\* The page's figures are then those of the months.
LEMMA CyclesAreTrue ==
  ASSUME WalletTypeOK, WalletInv, Quiet, ~disturbed, NEW m \in ReferenceMonths(month)
  PROVE  CyclesNow[m] = TrueCycle(m)
<1>1. /\ tenant \in TenantRows /\ logs \in [Months -> Nat] /\ month \in Months
  BY DEF WalletTypeOK
<1>2. m \in Months /\ m <= month
  BY DEF ReferenceMonths
<1> DEFINE S == {k \in ReferenceMonths(month) : k >= m}
           net == NetOf(tenant.price, logs, payments)
           opening == tenant.balance - SumFunctionOnSet(net, S)
<1>3. CyclesNow[m] = Cycle(tenant.plan, opening, logs[m] * tenant.price, ReceivedIn(payments, m))
  BY DEF CyclesNow, buildWalletBillingCycles
<1>4. CASE tenant.plan # "pre_paid"
  BY <1>3, <1>4 DEF TrueCycle, Cycle
<1>5. CASE tenant.plan = "pre_paid"
  <2>1. opening = LedgerBefore(m)
    <3> DEFINE nets == Nets(tenant, logs, payments)
    <3>1. \A k \in Months : nets[k] \in Int /\ nets[k] = ReceivedIn(payments, k) - logs[k] * tenant.price
      BY <1>1, <1>5, NetsType DEF Prepaid
    <3>2. \A k \in Months : net[k] = nets[k]
      <4>1. tenant.price \in Int
        BY <1>1 DEF TenantRows
      <4> QED
        BY <1>1, <3>1, <4>1, NetOfType
    <3>3. S \subseteq Months /\ Before(m) \subseteq Months
      BY DEF ReferenceMonths, Before
    <3>4. IsFiniteSet(S) /\ IsFiniteSet(Before(m))
      BY <3>3, MonthsFinite
    <3>5. Before(m) \cap S = {} /\ Before(m) \cup S = Before(month + 1)
      <4>1. m > month - Window /\ Window \in Nat
        BY WalletAssumption DEF ReferenceMonths
      <4> QED
        BY <1>1, <1>2, <4>1, WalletAssumption DEF Before, ReferenceMonths, Months
    <3>12. opening = tenant.balance - SumFunctionOnSet(net, S)
      OBVIOUS
    <3>13. tenant.balance \in Int
      BY <1>1 DEF TenantRows
    <3> HIDE DEF S, nets, net, opening
    <3>6. SumFunctionOnSet(nets, Before(m) \cup S) = SumFunctionOnSet(nets, Before(m)) + SumFunctionOnSet(nets, S)
      BY <3>1, <3>3, <3>4, <3>5, SumDisjoint
    <3>7. SumFunctionOnSet(net, S) = SumFunctionOnSet(nets, S)
      BY <3>1, <3>2, <3>3, <3>4, SumSame
    <3>8. SumFunctionOnSet(nets, Before(m)) \in Int /\ SumFunctionOnSet(nets, S) \in Int
      BY <3>1, <3>3, <3>4, SumType
    <3>9. /\ LedgerBefore(m) = start + unbooked + SumFunctionOnSet(nets, Before(m))
          /\ LedgerBefore(month + 1) = start + unbooked + SumFunctionOnSet(nets, Before(month + 1))
      BY LedgerIs DEF NetBefore, nets
    <3>10. tenant.balance = LedgerBefore(month + 1)
      BY QuietBalance
    <3>11. start \in Int /\ unbooked \in Int
      BY DEF WalletTypeOK
    <3>14. SumFunctionOnSet(nets, Before(month + 1)) = SumFunctionOnSet(nets, Before(m)) + SumFunctionOnSet(nets, S)
      BY <3>5, <3>6
    <3> QED
      BY <3>7, <3>8, <3>9, <3>10, <3>11, <3>12, <3>13, <3>14
  <2> HIDE DEF opening
  <2> QED
    BY <1>3, <2>1 DEF TrueCycle
<1> QED
  BY <1>4, <1>5

\* What a page stores, and which months it leaves true.
LEMMA SyncFacts ==
  ASSUME WalletTypeOK, WalletInv, NEW h \in Hands, syncWalletBillingCycles(h)
  PROVE  LET page == doing[h].rows
         IN /\ UNCHANGED <<tenant, logs, payments, month, start, unbooked, disturbed>>
            /\ DOMAIN page \subseteq Months
            /\ \A m \in Months : cycles'[m] = IF m \in DOMAIN page THEN page[m] ELSE cycles[m]
            /\ \/ /\ ~disturbed /\ faithful' = faithful \cup {m \in DOMAIN page : m < month}
                  /\ \A m \in DOMAIN page : page[m] = TrueCycle(m)
               \/ faithful' = faithful \ DOMAIN page
<1> DEFINE page == doing[h].rows
<1>1. DOMAIN page \subseteq Months
  BY SyncSets
<1>2. /\ UNCHANGED <<tenant, logs, payments, month, start, unbooked, disturbed>>
      /\ cycles' = [m \in Months |-> IF m \in DOMAIN page THEN page[m] ELSE cycles[m]]
  BY DEF syncWalletBillingCycles
<1>3. \/ /\ Quiet /\ ~disturbed /\ page = CyclesNow
         /\ faithful' = faithful \cup {m \in DOMAIN page : m < month}
      \/ faithful' = faithful \ DOMAIN page
  BY DEF syncWalletBillingCycles
<1>4. DOMAIN CyclesNow = ReferenceMonths(month)
  BY DEF CyclesNow, buildWalletBillingCycles
<1>5. Quiet /\ ~disturbed /\ page = CyclesNow => \A m \in DOMAIN page : page[m] = TrueCycle(m)
  BY <1>4, CyclesAreTrue
<1> HIDE DEF page
<1>6. \A m \in Months : cycles'[m] = IF m \in DOMAIN page THEN page[m] ELSE cycles[m]
  BY <1>2
<1> QED
  BY <1>1, <1>2, <1>3, <1>5, <1>6 DEF page

LEMMA SyncStep ==
  ASSUME WalletTypeOK, WalletTypeOK', WalletInv, NEW h \in Hands, syncWalletBillingCycles(h)
  PROVE  WalletInv'
<1> DEFINE page == doing[h].rows
<1>1. /\ UNCHANGED <<tenant, logs, payments, month, start, unbooked, disturbed>>
      /\ DOMAIN page \subseteq Months
      /\ \A m \in Months : cycles'[m] = IF m \in DOMAIN page THEN page[m] ELSE cycles[m]
      /\ \/ /\ ~disturbed /\ faithful' = faithful \cup {m \in DOMAIN page : m < month}
            /\ \A m \in DOMAIN page : page[m] = TrueCycle(m)
         \/ faithful' = faithful \ DOMAIN page
  BY SyncFacts
<1>2. doing[h].op = "page" /\ Sets(h, Idle)
  BY SyncSets
<1> HIDE DEF page
<1>3. disturbed => faithful = {}
  BY DEF WalletInv
<1>4. DatesInv'
  BY <1>1, <1>2, AboutIdle, DatesStand DEF WalletInv, DatesInv
<1>5. disturbed' => faithful' = {}
  BY <1>1, <1>3
<1>6. ASSUME ~disturbed PROVE OneEach' /\ AllAgree' /\ Balanced' /\ FaithfulInv'
  <2>1. OneEach /\ AllAgree /\ Balanced /\ FaithfulInv
    BY <1>6 DEF WalletInv
  <2>2. OneEach' /\ AllAgree'
    BY <1>1, <1>2, <2>1, AboutIdle, IdleAgrees, AgreementStands
  <2>3. \A n : LedgerBefore(n)' = LedgerBefore(n)
    BY <1>1 DEF LedgerBefore, Months
  <2>4. LedgerBefore(month + 1)' = LedgerBefore(month + 1) + 0
    <3>1. LedgerBefore(month + 1)' = LedgerBefore(month + 1)
      BY <1>1 DEF LedgerBefore, Months
    <3> QED
      BY <3>1, LedgerType
  <2>5. tenant'.balance + UnsettledOf(Idle) = tenant.balance + UnsettledOf(doing[h]) + 0
    <3>1. UnsettledOf(doing[h]) = 0 /\ UnsettledOf(Idle) = 0
      BY <1>2, ApartIs
    <3> QED
      BY <1>1, <3>1 DEF WalletTypeOK, TenantRows
  <2>6. Balanced'
    BY <1>1, <1>2, <2>1, <2>4, <2>5, 0 \in Int, BalanceStands
  <2>7. \A m : TrueCycle(m)' = TrueCycle(m)
    BY <1>1 DEF TrueCycle, Cycle, ReceivedIn, LedgerBefore, Months
  <2>8. ASSUME NEW m \in faithful' PROVE m < month /\ cycles'[m] = TrueCycle(m)
    <3>1. m \in Months
      BY DEF WalletTypeOK
    <3>2. m \in faithful => m < month /\ cycles[m] = TrueCycle(m)
      BY <2>1 DEF FaithfulInv
    <3> QED
      BY <1>1, <3>1, <3>2, <2>8
  <2>9. FaithfulInv'
    BY <1>1, <2>7, <2>8 DEF FaithfulInv
  <2> QED
    BY <2>2, <2>6, <2>9
<1> QED
  BY <1>1, <1>4, <1>5, <1>6 DEF WalletInv

LEMMA MonthStep ==
  ASSUME WalletTypeOK, WalletTypeOK', WalletInv, MonthEnds
  PROVE  WalletInv'
<1>1. /\ month' = month + 1 /\ month < MaxMonth
      /\ UNCHANGED <<tenant, logs, payments, provider, cycles, doing, disturbed, faithful, start, unbooked>>
  BY DEF MonthEnds, ghosts
<1>2. /\ month \in Months /\ month + 1 \in Months
      /\ tenant \in TenantRows /\ logs \in [Months -> Nat] /\ payments \in [Recharges -> PaymentRows]
  BY <1>1, WalletAssumption DEF WalletTypeOK, Months
<1>3. DatesInv
  BY DEF WalletInv
<1>4. DatesInv'
  <2>1. \A k \in Months : k > month' => logs'[k] = 0
    BY <1>1, <1>2, <1>3 DEF DatesInv, Months
  <2>2. \A p : p \in PaymentRows /\ RowOK(p, month) => RowOK(p, month')
    BY <1>1, <1>2 DEF RowOK, PaymentRows, Months
  <2>3. \A r \in Recharges : RowOK(payments'[r], month')
    BY <1>1, <1>2, <1>3, <2>2 DEF DatesInv
  <2>4. \A h \in Hands : HasSeen(doing[h]) => doing[h].seen \in PaymentRows
    BY HandHere, HandOf, SeenFacts DEF HasSeen, SeenHands
  <2>5. \A h \in Hands : HasSeen(doing'[h]) => RowOK(doing'[h].seen, month') /\ doing'[h].seen.status # "none"
    BY <1>1, <1>3, <2>2, <2>4 DEF DatesInv
  <2>6. \A h \in Hands : \A r \in Recharges : About(doing'[h], r) => payments'[r].status # "none"
    BY <1>1, <1>3 DEF DatesInv
  <2> QED
    BY <2>1, <2>3, <2>5, <2>6 DEF DatesInv, Months
<1>5. disturbed' => faithful' = {}
  BY <1>1 DEF WalletInv
<1>6. ASSUME ~disturbed PROVE OneEach' /\ AllAgree' /\ Balanced' /\ FaithfulInv'
  <2>1. OneEach /\ AllAgree /\ Balanced /\ FaithfulInv
    BY <1>6 DEF WalletInv
  <2>2. OneEach' /\ AllAgree'
    BY <1>1, <2>1 DEF OneEach, AllAgree
  <2>3. ReceivedIn(payments, month + 1) = 0
    <3> DEFINE R == {r \in Recharges : payments[r].status = "CONFIRMED" /\ payments[r].paid = month + 1}
    <3>1. R = {}
      BY <1>2, <1>3 DEF DatesInv, RowOK, PaymentRows, Months
    <3>2. ReceivedIn(payments, month + 1) = Amount * Cardinality(R)
      BY DEF ReceivedIn
    <3> HIDE DEF R
    <3> QED
      BY <3>1, <3>2, FS_EmptySet, WalletAssumption
  <2>4. logs[month + 1] = 0
    BY <1>2, <1>3 DEF DatesInv, Months
  <2>5. Nets(tenant, logs, payments)[month + 1] = 0
    <3>1. logs[month + 1] * tenant.price = 0
      BY <1>2, <2>4 DEF TenantRows
    <3>2. Nets(tenant, logs, payments)[month + 1]
            = ReceivedIn(payments, month + 1) - (IF Prepaid(tenant) THEN logs[month + 1] * tenant.price ELSE 0)
      BY <1>2, NetsType
    <3> QED
      BY <2>3, <3>1, <3>2
  <2>6. NetBefore(tenant, logs, payments, (month + 1) + 1) = NetBefore(tenant, logs, payments, month + 1)
    <3>1. NetBefore(tenant, logs, payments, month + 1) \in Int
      BY <1>2, NetType
    <3>2. NetBefore(tenant, logs, payments, (month + 1) + 1)
            = NetBefore(tenant, logs, payments, month + 1) + Nets(tenant, logs, payments)[month + 1]
      BY <1>2, NetNext
    <3> QED
      BY <2>5, <3>1, <3>2
  <2>7. Balanced'
    <3>1. Balanced' <=> tenant'.balance + SumFunctionOnSet(Unsettled(doing'), Hands)
                          = start' + unbooked' + NetBefore(tenant', logs', payments', month' + 1)
      BY DEF Balanced, Unsettled, UnsettledOf, LedgerBefore, NetBefore, Before, Months
    <3>2. Balanced <=> tenant.balance + SumFunctionOnSet(Unsettled(doing), Hands)
                         = start + unbooked + NetBefore(tenant, logs, payments, month + 1)
      BY LedgerIs DEF Balanced
    <3> QED
      BY <1>1, <2>1, <2>6, <3>1, <3>2
  <2>8. FaithfulInv'
    <3>1. month' >= month
      BY <1>1, <1>2 DEF Months
    <3> QED
      BY <1>1, <2>1, <3>1, FaithfulStands
  <2> QED
    BY <2>2, <2>7, <2>8
<1> QED
  BY <1>1, <1>4, <1>5, <1>6 DEF WalletInv

---------------------------------------------------------------------------
(* the theorems about the wallet *)

\* Every step keeps the types and the invariant.
LEMMA WalletStep ==
  ASSUME WalletTypeOK, WalletInv, [WalletNext]_walletVars
  PROVE  WalletTypeOK' /\ WalletInv'
<1>0. WalletTypeOK'
  BY TypeStep
<1>1. ASSUME NEW h \in Hands, Hand(h) PROVE WalletInv'
  <2>1. CASE StartText(h) \/ StartInteractive(h) \/ Inbound(h)
    BY <1>0, <2>1, StartsStep
  <2>2. CASE Send(h) \/ Reload(h) \/ DeductWalletBalance(h) \/ SaveLog(h)
    BY <1>0, <2>2, SendStep, ReloadStep, DebitStep, LogStep
  <2>3. CASE \E r \in Recharges : CreatePixPayment(h, r) \/ HandleWebhook(h, r) \/ GetPaymentStatus(h, r)
    BY <1>0, <2>3, CreatePixStep, NoticeStep, PollStep
  <2>4. CASE CallProvider(h) \/ ApplyAttempt(h) \/ ApplyPayment(h)
    BY <1>0, <2>4, CallStep, AttemptStep, ApplyStep
  <2>5. CASE NamePayment(h) \/ ConfirmRecharge(h) \/ Credit(h)
    BY <1>0, <2>5, NameStep, ConfirmStep, CreditStep
  <2>6. CASE Ask(h) \/ RefreshPaymentStatus(h)
    BY <1>0, <2>6, AskStep, RefreshStep
  <2>7. CASE UpdateWallet(h) \/ UpdateTenant(h) \/ SaveSettings(h)
    BY <1>0, <2>7, SaveStep
  <2>8. CASE LoadTenant(h) \/ GetBalance(h) \/ ReadTables(h)
    BY <1>0, <2>8, ReadsStep
  <2>9. CASE syncWalletBillingCycles(h)
    BY <1>0, <2>9, SyncStep
  <2>10. CASE Fails(h) \/ Overlooks(h)
    BY <1>0, <2>10, FailsStep, OverlooksStep
  <2> QED
    BY <1>1, <2>1, <2>2, <2>3, <2>4, <2>5, <2>6, <2>7, <2>8, <2>9, <2>10 DEF Hand
<1>2. ASSUME NEW r \in Recharges, ProviderDecides(r) PROVE WalletInv'
  BY <1>2, WalletInvSame DEF ProviderDecides, ghosts
<1>3. CASE MonthEnds
  BY <1>0, <1>3, MonthStep
<1>4. CASE UNCHANGED walletVars
  <2>1. UNCHANGED <<tenant, logs, payments, cycles, month, doing, disturbed, faithful, start, unbooked>>
    BY <1>4 DEF walletVars
  <2> QED
    BY <1>0, <2>1, WalletInvSame
<1> QED
  BY <1>0, <1>1, <1>2, <1>3, <1>4 DEF WalletNext

\* A restaurant starts with its balance as its ledger and no month shown.
LEMMA WalletStarts ==
  ASSUME WalletInit
  PROVE  WalletTypeOK /\ WalletInv
<1>1. WalletTypeOK
  BY TypeInit
<1>2. /\ doing = [h \in Hands |-> Idle] /\ logs = [m \in Months |-> 0] /\ month = 1
      /\ payments = [r \in Recharges |-> [status |-> "none", paid |-> 0, found |-> "no"]]
      /\ faithful = {} /\ unbooked = 0 /\ tenant.balance = start
  BY DEF WalletInit
<1>3. \A h \in Hands : doing[h] = Idle
  BY <1>2
<1>4. DatesInv
  BY <1>2, <1>3, AboutIdle DEF DatesInv, RowOK
<1>5. OneEach /\ AllAgree
  BY <1>3, AboutIdle, IdleAgrees DEF OneEach, AllAgree
<1>6. Balanced
  <2>1. tenant \in TenantRows /\ logs \in [Months -> Nat] /\ start \in Int /\ unbooked = 0 /\ tenant.balance = start
    BY <1>1, <1>2 DEF WalletTypeOK
  <2> DEFINE v == Unsettled(doing)
             nets == Nets(tenant, logs, payments)
  <2>2. \A h \in Hands : v[h] = 0
    BY <1>3, AboutIdle DEF Unsettled
  <2>3. \A k \in Months : ReceivedIn(payments, k) = 0
    <3> TAKE k \in Months
    <3> DEFINE R == {r \in Recharges : payments[r].status = "CONFIRMED" /\ payments[r].paid = k}
    <3>1. R = {}
      BY <1>2
    <3>2. ReceivedIn(payments, k) = Amount * Cardinality(R)
      BY DEF ReceivedIn
    <3> HIDE DEF R
    <3> QED
      BY <3>1, <3>2, FS_EmptySet, WalletAssumption
  <2>4. \A k \in Months : nets[k] = 0
    <3> TAKE k \in Months
    <3>1. logs[k] * tenant.price = 0
      BY <1>2, <2>1 DEF TenantRows
    <3>2. nets[k] = ReceivedIn(payments, k) - (IF Prepaid(tenant) THEN logs[k] * tenant.price ELSE 0)
      BY <2>1, NetsType
    <3> QED
      BY <2>3, <3>1, <3>2
  <2> HIDE DEF v, nets
  <2>5. SumFunctionOnSet(v, Hands) = 0
    BY <2>2, SumZero, WalletAssumption
  <2>6. SumFunctionOnSet(nets, Before(month + 1)) = 0
    <3>1. IsFiniteSet(Before(month + 1)) /\ \A k \in Before(month + 1) : nets[k] = 0
      BY <2>4, MonthsFinite DEF Before
    <3> QED
      BY <3>1, SumZero
  <2>7. LedgerBefore(month + 1) = start + unbooked + SumFunctionOnSet(nets, Before(month + 1))
    BY LedgerIs DEF NetBefore, nets
  <2> QED
    BY <2>1, <2>5, <2>6, <2>7 DEF Balanced, v
<1>7. FaithfulInv /\ faithful = {}
  BY <1>2 DEF FaithfulInv
<1> QED
  BY <1>1, <1>4, <1>5, <1>6, <1>7 DEF WalletInv

LEMMA WalletInvariant == WalletSpec => [](WalletTypeOK /\ WalletInv)
<1>1. WalletInit => WalletTypeOK /\ WalletInv
  BY WalletStarts
<1>2. WalletTypeOK /\ WalletInv /\ [WalletNext]_walletVars => (WalletTypeOK /\ WalletInv)'
  BY WalletStep
<1> QED
  BY <1>1, <1>2, PTL DEF WalletSpec

(* Restaurant's row, log, payments, stored months and all that is under way keep their types. *)
THEOREM WalletTypeCorrect == WalletSpec => []WalletTypeOK
  BY WalletInvariant, PTL

LEMMA LedgerHolds ==
  ASSUME WalletTypeOK, WalletInv
  PROVE  BalanceIsTheLedger
<1> SUFFICES ASSUME Quiet, ~disturbed
             PROVE  /\ tenant.balance = LedgerBefore(month + 1)
                    /\ Prepaid(tenant) =>
                         FinancialOverview(tenant.balance, tenant.price, logs, payments, month).opening
                           = LedgerBefore(month)
  BY DEF BalanceIsTheLedger
<1>1. tenant.balance = LedgerBefore(month + 1)
  BY QuietBalance
<1>2. ASSUME Prepaid(tenant)
      PROVE  FinancialOverview(tenant.balance, tenant.price, logs, payments, month).opening = LedgerBefore(month)
  <2>1. /\ tenant \in TenantRows /\ logs \in [Months -> Nat] /\ month \in Months
        /\ start \in Int /\ unbooked \in Int
    BY DEF WalletTypeOK
  <2> DEFINE charged == logs[month] * tenant.price
             received == ReceivedIn(payments, month)
             before == NetBefore(tenant, logs, payments, month)
  <2>2. FinancialOverview(tenant.balance, tenant.price, logs, payments, month).opening
          = tenant.balance + charged - received
    BY DEF FinancialOverview, currentMonthSummary
  <2>3. charged \in Int
    <3>1. logs[month] \in Int /\ tenant.price \in Int
      BY <2>1 DEF TenantRows
    <3> QED
      BY <3>1
  <2>4. received \in Int /\ before \in Int
    BY <2>1, ReceivedType, NetType
  <2>5. NetBefore(tenant, logs, payments, month + 1) = before + (received - charged)
    BY <1>2, <2>1, NetNext, NetsType
  <2>6. /\ LedgerBefore(month + 1) = start + unbooked + NetBefore(tenant, logs, payments, month + 1)
        /\ LedgerBefore(month) = start + unbooked + before
    BY LedgerIs
  <2> HIDE DEF charged, received, before
  <2> QED
    BY <1>1, <2>1, <2>2, <2>3, <2>4, <2>5, <2>6
<1> QED
  BY <1>1, <1>2

(* Whenever nothing is under way, and nothing disturbed the history, the balance is the   *)
(* start, the grants, the recharges confirmed and, before payment, the messages logged,   *)
(* with every debit, log, confirmation and credit that failed or died accounted for.      *)
THEOREM BalanceAddsUp == WalletSpec => []BalanceIsTheLedger
<1>1. WalletTypeOK /\ WalletInv => BalanceIsTheLedger
  BY LedgerHolds
<1> QED
  BY <1>1, WalletInvariant, PTL

LEMMA ClosedMonthsStep ==
  ASSUME WalletTypeOK, WalletInv, [WalletNext]_walletVars
  PROVE  /\ \A m \in faithful \cap faithful' : cycles'[m] = cycles[m]
         /\ Prepaid(tenant) => \A m \in faithful : cycles[m].opening = LedgerBefore(m)
<1>1. faithful \subseteq Months /\ (faithful # {} => FaithfulInv)
  BY DEF WalletTypeOK, WalletInv
<1>2. ASSUME NEW m \in faithful \cap faithful' PROVE cycles'[m] = cycles[m]
  <2>1. CASE UNCHANGED cycles
    BY <2>1
  <2>2. ASSUME NEW h \in Hands, syncWalletBillingCycles(h) PROVE cycles'[m] = cycles[m]
    <3>1. cycles[m] = TrueCycle(m) /\ m \in Months
      BY <1>1 DEF FaithfulInv
    <3> QED
      BY <2>2, <3>1, SyncFacts
  <2>3. UNCHANGED cycles \/ \E h \in Hands : syncWalletBillingCycles(h)
    <3>1. ASSUME NEW h \in Hands, Hand(h) PROVE UNCHANGED cycles \/ syncWalletBillingCycles(h)
      <4>1. CASE StartText(h) \/ StartInteractive(h) \/ Inbound(h) \/ Send(h) \/ Reload(h)
                 \/ DeductWalletBalance(h) \/ SaveLog(h)
        BY <4>1 DEF StartText, StartInteractive, Inbound, Send, Reload, DeductWalletBalance, SaveLog
      <4>2. CASE \E r \in Recharges : CreatePixPayment(h, r) \/ HandleWebhook(h, r) \/ GetPaymentStatus(h, r)
        BY <4>2 DEF CreatePixPayment, HandleWebhook, GetPaymentStatus
      <4>3. CASE CallProvider(h) \/ ApplyAttempt(h) \/ ApplyPayment(h)
                 \/ NamePayment(h) \/ ConfirmRecharge(h) \/ Credit(h)
        BY <4>3 DEF CallProvider, ApplyAttempt, ApplyPayment, NamePayment, ConfirmRecharge, Credit
      <4>4. CASE Ask(h) \/ RefreshPaymentStatus(h) \/ LoadTenant(h) \/ GetBalance(h) \/ ReadTables(h)
        BY <4>4 DEF Ask, RefreshPaymentStatus, LoadTenant, GetBalance, ReadTables
      <4>5. CASE UpdateWallet(h) \/ UpdateTenant(h) \/ SaveSettings(h)
        BY <4>5 DEF UpdateWallet, UpdateTenant, SaveSettings, SaveTenant
      <4>6. CASE Fails(h) \/ Overlooks(h)
        BY <4>6 DEF Fails, Overlooks, Skips
      <4> QED
        BY <3>1, <4>1, <4>2, <4>3, <4>4, <4>5, <4>6 DEF Hand
    <3> QED
      BY <3>1 DEF WalletNext, walletVars, ProviderDecides, MonthEnds
  <2> QED
    BY <2>1, <2>2, <2>3
<1>3. ASSUME Prepaid(tenant), NEW m \in faithful PROVE cycles[m].opening = LedgerBefore(m)
  <2>1. cycles[m] = TrueCycle(m)
    BY <1>1 DEF FaithfulInv
  <2> QED
    BY <1>3, <2>1 DEF TrueCycle, Cycle, PrePaidCycle, Prepaid
<1> QED
  BY <1>2, <1>3

(* The stored figures of a month that is over stand once pages found them, and they open  *)
(* with the balance the restaurant had then, however far back the page looks.             *)
THEOREM ClosedMonthsAreHistory == WalletSpec => ClosedMonthsStand
<1>1. WalletTypeOK /\ WalletInv /\ [WalletNext]_walletVars =>
        [/\ \A m \in faithful \cap faithful' : cycles'[m] = cycles[m]
         /\ Prepaid(tenant) => \A m \in faithful : cycles[m].opening = LedgerBefore(m)]_walletVars
  BY ClosedMonthsStep
<1> QED
  BY <1>1, WalletInvariant, PTL DEF WalletSpec, ClosedMonthsStand

USE CheckoutTimeAssumption, NobodyAssumption, SlotAssumption, ModesAssumption

---------------------------------------------------------------------------
(* the capacity service, as a checkout uses it *)

\* What the service does for a checkout.
CapStep ==
  \/ \E k \in Keys : Cap!HoldBegin(k) \/ Cap!Release(k)
  \/ \E k \in Keys, d \in Deliveries \cup {NoDelivery} : Cap!Confirm(k, d)
  \/ Cap!HoldCount \/ Cap!HoldReuse \/ Cap!HoldGrant \/ Cap!HoldRefuse \/ Cap!HoldAbort
  \/ Cap!Expire
  \/ \E c \in Capacities : Cap!SetCapacity(c)
  \/ Cap!Tick
  \/ UNCHANGED capVars

\* The open hold expires rows that are HELD and due; once it has counted, the
\* row it will take over is not within the window of a confirmed reservation.
HoldSafe ==
  /\ hold.pc # "idle" => hold.key \in Keys /\ hold.at <= now
  /\ \A k \in hold.expiring : hold.pc # "idle" => rows[k].status = "HELD"
  /\ hold.pc = "counted" /\ rows[hold.key].status = "CONFIRMED" => rows[hold.key].expiresAt <= now

SlotsOK == Cap!TypeOK /\ HoldSafe

\* The rows after some of them expired.
LEMMA ExpiredRows ==
  ASSUME Cap!TypeOK, NEW S
  PROVE  /\ Cap!WithExpired(S) \in [Keys -> Cap!Row]
         /\ \A k \in Keys : IF k \in S THEN Cap!WithExpired(S)[k].status = "EXPIRED"
                            ELSE Cap!WithExpired(S)[k] = rows[k]
<1>1. ASSUME NEW k \in Keys PROVE [rows[k] EXCEPT !.status = "EXPIRED"] \in Cap!Row
  BY DEF Cap!TypeOK, Cap!Row, Cap!Status
<1>2. ASSUME NEW k \in Keys PROVE [rows[k] EXCEPT !.status = "EXPIRED"].status = "EXPIRED"
  BY DEF Cap!TypeOK, Cap!Row
<1> QED BY <1>1, <1>2 DEF Cap!WithExpired, Cap!TypeOK

\* Every step of the service keeps its tables well-typed and a hold's knowledge
\* true.
LEMMA SlotsStep ==
  ASSUME SlotsOK, CapStep
  PROVE  SlotsOK'
<1>0. Cap!TypeOK /\ HoldSafe
  BY DEF SlotsOK
<1>1. ASSUME NEW k \in Keys, Cap!HoldBegin(k) PROVE SlotsOK'
  <2>1. Cap!DueHolds \subseteq Keys /\ \A j \in Cap!DueHolds : rows[j].status = "HELD"
    BY DEF Cap!DueHolds
  <2>2. hold' \in Cap!Transaction
    BY <1>0, <1>1, <2>1 DEF Cap!HoldBegin, Cap!TypeOK, Cap!Transaction
  <2> QED BY <1>0, <1>1, <2>1, <2>2 DEF Cap!HoldBegin, SlotsOK, Cap!TypeOK, HoldSafe
<1>2. ASSUME NEW k \in Keys, Cap!Release(k) PROVE SlotsOK'
  <2>1. rows' \in [Keys -> Cap!Row]
    BY <1>0, <1>2 DEF Cap!Release, Cap!TypeOK, Cap!Row, Cap!Status
  <2>2. HoldSafe'
    BY <1>0, <1>2 DEF Cap!Release, HoldSafe, Cap!Locked, Cap!TypeOK, Cap!Row, Cap!Transaction
  <2> QED BY <1>0, <1>2, <2>1, <2>2 DEF Cap!Release, SlotsOK, Cap!TypeOK
<1>3. ASSUME NEW k \in Keys, NEW d \in Deliveries \cup {NoDelivery}, Cap!Confirm(k, d) PROVE SlotsOK'
  <2>1. rows' \in [Keys -> Cap!Row]
    BY <1>0, <1>3 DEF Cap!Confirm, Cap!TypeOK, Cap!Row, Cap!Status
  <2>2. HoldSafe'
    BY <1>0, <1>3 DEF Cap!Confirm, HoldSafe, Cap!Locked, Cap!TypeOK, Cap!Row, Cap!Transaction
  <2> QED BY <1>0, <1>3, <2>1, <2>2 DEF Cap!Confirm, SlotsOK, Cap!TypeOK
<1>4. ASSUME hold' = Cap!NoTransaction, UNCHANGED <<now, capacity>>, rows' \in [Keys -> Cap!Row]
      PROVE  SlotsOK'
  BY <1>0, <1>4 DEF SlotsOK, HoldSafe, Cap!TypeOK, Cap!NoTransaction, Cap!Transaction
<1>5. CASE Cap!HoldReuse \/ Cap!HoldRefuse \/ Cap!HoldAbort
  BY <1>0, <1>4, <1>5, ExpiredRows DEF Cap!HoldReuse, Cap!HoldRefuse, Cap!HoldAbort, Cap!TypeOK
<1>6. CASE Cap!HoldGrant
  <2>1. [status |-> "HELD", delivery |-> NoDelivery, expiresAt |-> hold.at + HoldTime] \in Cap!Row
    BY <1>0 DEF Cap!TypeOK, Cap!Row, Cap!Status, Cap!Transaction
  <2>2. rows' \in [Keys -> Cap!Row]
    BY <1>0, <1>6, <2>1, ExpiredRows DEF Cap!HoldGrant
  <2> QED BY <1>4, <1>6, <2>2 DEF Cap!HoldGrant
<1>7. CASE Cap!HoldCount
  <2>1. Cap!Active \ hold.expiring \subseteq Keys
    BY DEF Cap!Active
  <2>2. hold' \in Cap!Transaction
    BY <1>0, <1>7, <2>1 DEF Cap!HoldCount, Cap!TypeOK, Cap!Transaction
  <2>3. /\ hold'.key = hold.key /\ hold'.at = hold.at /\ hold'.expiring = hold.expiring
        /\ hold.pc = "locked"
    BY <1>0, <1>7 DEF Cap!HoldCount, Cap!TypeOK, Cap!Transaction
  <2>4. rows[hold.key].status = "CONFIRMED" => rows[hold.key].expiresAt <= now
    BY <1>0, <1>7, <2>3 DEF Cap!HoldCount, Cap!Reusable, Cap!ActiveRow, HoldSafe, Cap!TypeOK,
                            Cap!Row, Cap!Transaction
  <2>5. HoldSafe'
    BY <1>0, <1>7, <2>3, <2>4 DEF Cap!HoldCount, HoldSafe
  <2> QED BY <1>0, <1>7, <2>2, <2>5 DEF Cap!HoldCount, SlotsOK, Cap!TypeOK
<1>8. CASE Cap!Expire
  <2>1. rows' \in [Keys -> Cap!Row] /\ UNCHANGED <<now, capacity, hold>>
    BY <1>0, <1>8, ExpiredRows DEF Cap!Expire
  <2>2. \A k \in Keys : rows'[k] # rows[k] => k \notin Cap!Locked /\ rows'[k].status = "EXPIRED"
    BY <1>0, <1>8, ExpiredRows DEF Cap!Expire
  <2>3. HoldSafe'
    BY <1>0, <2>1, <2>2 DEF HoldSafe, Cap!Locked, Cap!TypeOK, Cap!Transaction
  <2> QED BY <1>0, <2>1, <2>3 DEF SlotsOK, Cap!TypeOK
<1>9. ASSUME NEW c \in Capacities, Cap!SetCapacity(c) PROVE SlotsOK'
  BY <1>0, <1>9 DEF Cap!SetCapacity, SlotsOK, HoldSafe, Cap!TypeOK
<1>10. CASE Cap!Tick
  <2>1. HoldSafe'
    BY <1>0, <1>10 DEF Cap!Tick, HoldSafe, Cap!TypeOK, Cap!Row, Cap!Transaction
  <2> QED BY <1>0, <1>10, <2>1 DEF Cap!Tick, SlotsOK, Cap!TypeOK
<1>11. CASE UNCHANGED capVars
  BY <1>0, <1>11 DEF capVars, SlotsOK, HoldSafe, Cap!TypeOK
<1> QED
  BY <1>1, <1>2, <1>3, <1>5, <1>6, <1>7, <1>8, <1>9, <1>10, <1>11 DEF CapStep

\* While its window lasts, a confirmed slot is only given up by a release.
LEMMA ConfirmedKept ==
  ASSUME SlotsOK, CapStep, NEW k \in Keys,
         rows[k].status = "CONFIRMED", rows[k].expiresAt > now, ~Cap!Release(k)
  PROVE  rows'[k].status = "CONFIRMED" /\ rows'[k].expiresAt = rows[k].expiresAt
<1>0. Cap!TypeOK /\ HoldSafe
  BY DEF SlotsOK
<1>1. ASSUME NEW j \in Keys, Cap!HoldBegin(j) \/ (j # k /\ Cap!Release(j)) PROVE rows'[k] = rows[k]
  BY <1>0, <1>1 DEF Cap!HoldBegin, Cap!Release, Cap!TypeOK
<1>2. ASSUME NEW j \in Keys, NEW d, Cap!Confirm(j, d) PROVE rows'[k] = rows[k]
  BY <1>0, <1>2 DEF Cap!Confirm, Cap!TypeOK
<1>3. CASE Cap!HoldReuse
  <2>1. k \notin hold.expiring
    BY <1>0, <1>3 DEF Cap!HoldReuse, HoldSafe
  <2> QED BY <1>0, <1>3, <2>1, ExpiredRows DEF Cap!HoldReuse
<1>4. CASE Cap!HoldGrant
  <2>1. k \notin hold.expiring /\ k # hold.key
    BY <1>0, <1>4 DEF Cap!HoldGrant, HoldSafe, Cap!TypeOK, Cap!Row
  <2> QED BY <1>0, <1>4, <2>1, ExpiredRows DEF Cap!HoldGrant
<1>5. CASE Cap!Expire
  <2>1. k \notin Cap!DueHolds
    BY DEF Cap!DueHolds
  <2> QED BY <1>0, <1>5, <2>1, ExpiredRows DEF Cap!Expire
<1>6. ASSUME UNCHANGED rows PROVE rows'[k] = rows[k]
  BY <1>6
<1> QED
  BY <1>1, <1>2, <1>3, <1>4, <1>5, <1>6
     DEF CapStep, Cap!HoldCount, Cap!HoldRefuse, Cap!HoldAbort, Cap!SetCapacity, Cap!Tick, capVars

---------------------------------------------------------------------------
(* what requests know, and type correctness *)

\* A creator has a key and, in external mode, a quote.
CreatorsOK ==
  \A c \in Creators : creators[c].pc # "idle" =>
    creators[c].key \in Keys /\ (creators[c].mode = "EXTERNAL" => creators[c].quote \in Quotes)

\* An external checkout has its quote.
CheckoutsOK ==
  \A k \in Keys : checkouts[k].status # "NONE" /\ checkouts[k].mode = "EXTERNAL"
                  => checkouts[k].quote \in Quotes

\* A payer has locked a pending checkout, and is the only one.
PayersOK ==
  /\ \A p \in Payers : payers[p].pc # "idle" =>
       payers[p].key \in Keys /\ checkouts[payers[p].key].status = "PENDING_PAYMENT"
  /\ \A p, q \in Payers :
       payers[p].pc # "idle" /\ payers[q].pc # "idle" /\ payers[p].key = payers[q].key => p = q

\* Maintenance releases the slot of an expired checkout, and expires real ones.
ExpirerOK ==
  /\ expirer.releasing # NoKey => checkouts[expirer.releasing].status = "EXPIRED"
  /\ \A k \in expirer.todo : checkouts[k].status # "NONE"

\* The open hold is that of a creator that waits for it.
HolderWaits == hold.pc # "idle" => holder \in Creators /\ creators[holder].pc = "hold"

CheckoutInv ==
  TypeOK /\ HoldSafe /\ CreatorsOK /\ CheckoutsOK /\ PayersOK /\ ExpirerOK /\ HolderWaits

\* Whatever a request does with slots, the capacity service makes one step.
LEMMA EveryCapStep ==
  ASSUME CheckoutInv, [Next]_vars
  PROVE  CapStep
<1>1. ASSUME NEW k \in Keys, ReleaseSlot(k) PROVE CapStep
  BY <1>1 DEF ReleaseSlot, CapStep
<1>2. ASSUME NEW c \in Creators, CreateHold(c) PROVE CapStep
  <2>1. creators[c].key \in Keys
    BY <1>2 DEF CreateHold, CheckoutInv, CreatorsOK
  <2> QED BY <1>2, <2>1 DEF CreateHold, CapStep
<1>3. CASE HoldCount \/ HoldGranted \/ HoldFailed
  BY <1>3 DEF HoldCount, HoldGranted, HoldFailed, CapStep
<1>4. ASSUME NEW c \in Creators, CreateUndo(c) PROVE CapStep
  <2>1. creators[c].key \in Keys
    BY <1>4 DEF CreateUndo, CheckoutInv, CreatorsOK
  <2> QED BY <1>1, <1>4, <2>1 DEF CreateUndo
<1>5. ASSUME NEW p \in Payers, PayReserve(p) PROVE CapStep
  <2>1. payers[p].key \in Keys /\ payers[p].delivery \in Deliveries \cup {NoDelivery}
    BY <1>5 DEF PayReserve, CheckoutInv, PayersOK, TypeOK, Payer
  <2> QED BY <1>5, <2>1 DEF PayReserve, ConfirmSlot, CapStep
<1>6. CASE ExpireRelease
  <2>1. expirer.releasing \in Keys
    BY <1>6 DEF ExpireRelease, CheckoutInv, TypeOK, Expirer
  <2> QED BY <1>1, <1>6, <2>1 DEF ExpireRelease
<1>7. CASE CapacityExpire \/ (\E c \in Capacities : SetCapacity(c)) \/ Tick
  BY <1>7 DEF CapacityExpire, SetCapacity, Tick, CapStep
<1>8. CASE UNCHANGED capVars
  BY <1>8 DEF CapStep
<1> QED
  BY <1>2, <1>3, <1>4, <1>5, <1>6, <1>7, <1>8
     DEF Next, QuoteCreate, QuoteExpire, CreateBegin, CreateSave, CreateSaveFails, CreateDies,
         PayBegin, PayCommit, PayRollback, ExpireScan, ExpireWrite, ExpireDies, vars

\* The table of quotes stays well-typed.
LEMMA QuoteType ==
  ASSUME TypeOK, NEW q, NEW d \in Deliveries \cup {NoDelivery},
         QuoteCreate(q) \/ QuoteExpire \/ UseQuote(q, d)
  PROVE  quotes' \in [Quotes -> Quote]
<1>1. CASE QuoteCreate(q)
  <2>1. now + QuoteTime \in Nat
    BY DEF TypeOK, Cap!TypeOK
  <2>2. [status |-> "VALID", expiresAt |-> now + QuoteTime, delivery |-> NoDelivery] \in Quote
    BY <2>1 DEF Quote
  <2> QED BY <1>1, <2>2 DEF QuoteCreate, TypeOK
<1>2. CASE QuoteExpire
  <2>1. ASSUME NEW r \in Quote PROVE [r EXCEPT !.status = "EXPIRED"] \in Quote
    BY DEF Quote
  <2> QED BY <1>2, <2>1 DEF QuoteExpire, TypeOK
<1>3. CASE UseQuote(q, d)
  <2>1. ASSUME NEW r \in Quote PROVE [r EXCEPT !.status = "USED", !.delivery = d] \in Quote
    BY DEF Quote
  <2>2. CASE quotes' = [quotes EXCEPT ![q].status = "USED", ![q].delivery = d]
    <3>1. \A r \in Quotes : quotes[r] \in Quote
      BY DEF TypeOK
    <3>2. quotes' = [r \in Quotes |-> IF r = q THEN [quotes[r] EXCEPT !.status = "USED", !.delivery = d]
                                     ELSE quotes[r]]
      BY <2>2 DEF TypeOK, Quote
    <3> QED BY <2>1, <3>1, <3>2
  <2>3. CASE UNCHANGED quotes
    BY <2>3 DEF TypeOK
  <2> QED BY <1>3, <2>2, <2>3 DEF UseQuote
<1> QED BY <1>1, <1>2, <1>3

\* The steps of creators keep all of this.
LEMMA CreatorStep ==
  ASSUME CheckoutInv, SlotsOK', NEW c \in Creators,
         \/ \E k \in Keys, mode \in Modes, q \in Quotes \cup {NoQuote} : CreateBegin(c, k, mode, q)
         \/ CreateHold(c) \/ CreateSave(c) \/ CreateSaveFails(c) \/ CreateUndo(c) \/ CreateDies(c)
  PROVE  CheckoutInv'
<1>0. /\ TypeOK /\ CreatorsOK /\ CheckoutsOK /\ PayersOK /\ ExpirerOK /\ HolderWaits
      /\ creators[c] \in Creator /\ Cap!TypeOK' /\ HoldSafe'
  BY DEF CheckoutInv, TypeOK, SlotsOK
<1>a. ASSUME UNCHANGED <<holder, quotes, payers, expirer, checkouts>>,
             NEW r \in Creator, creators' = [creators EXCEPT ![c] = r],
             r.pc # "idle" => r.key \in Keys /\ (r.mode = "EXTERNAL" => r.quote \in Quotes),
             HolderWaits'
      PROVE  CheckoutInv'
  BY <1>0, <1>a DEF CheckoutInv, TypeOK, CreatorsOK, CheckoutsOK, PayersOK, ExpirerOK
<1>b. NoCreation \in Creator /\ NoCreation.pc = "idle"
  BY DEF NoCreation, Creator
<1>1. ASSUME NEW k \in Keys, NEW mode \in Modes, NEW q \in Quotes \cup {NoQuote},
             CreateBegin(c, k, mode, q)
      PROVE  CheckoutInv'
  <2> DEFINE r == [pc |-> IF mode = "OWN" THEN "hold" ELSE "save",
                   key |-> k, mode |-> mode, quote |-> q, since |-> now]
  <2>1. r \in Creator
    BY <1>0 DEF Creator, TypeOK, Cap!TypeOK
  <2>2. HolderWaits'
    BY <1>0, <1>1 DEF CreateBegin, HolderWaits, capVars, TypeOK
  <2> QED BY <1>1, <1>a, <2>1, <2>2 DEF CreateBegin
<1>2. CASE CreateHold(c)
  <2>1. HolderWaits'
    BY <1>2 DEF CreateHold, HolderWaits, requests
  <2>2. UNCHANGED <<checkouts, quotes, creators, payers, expirer>> /\ holder' \in Creators
    BY <1>2 DEF CreateHold, requests
  <2> QED BY <1>0, <2>1, <2>2
          DEF CheckoutInv, TypeOK, CreatorsOK, CheckoutsOK, PayersOK, ExpirerOK
<1>3. CASE CreateSave(c)
  <2>1. creators[c].pc = "save" /\ creators[c].key \in Keys
    BY <1>0, <1>3 DEF CreateSave, CreatorsOK
  <2>2. [status |-> "PENDING_PAYMENT", mode |-> creators[c].mode, quote |-> creators[c].quote,
         expiresAt |-> now + CheckoutTime, payment |-> NoOne] \in Checkout
    BY <1>0 DEF Creator, Checkout, TypeOK, Cap!TypeOK
  <2>3. checkouts' \in [Keys -> Checkout]
    BY <1>0, <1>3, <2>1, <2>2 DEF CreateSave, TypeOK
  <2>4. \A k \in Keys : \/ checkouts'[k] = checkouts[k]
                       \/ /\ checkouts[k].status = "NONE" /\ k = creators[c].key
                          /\ checkouts'[k].mode = creators[c].mode
                          /\ checkouts'[k].quote = creators[c].quote
    BY <1>0, <1>3, <2>1 DEF CreateSave, TypeOK
  <2>5. UNCHANGED <<holder, quotes, payers, expirer, hold>> /\ creators' = [creators EXCEPT ![c] = NoCreation]
    BY <1>3 DEF CreateSave, capVars
  <2>6. CreatorsOK' /\ HolderWaits'
    BY <1>0, <1>b, <2>1, <2>5 DEF CreatorsOK, HolderWaits, TypeOK
  <2>7. CheckoutsOK'
    BY <1>0, <2>1, <2>4 DEF CheckoutsOK, CreatorsOK
  <2>8. PayersOK'
    BY <1>0, <2>4, <2>5 DEF PayersOK
  <2>9. ExpirerOK'
    BY <1>0, <2>4, <2>5 DEF ExpirerOK, TypeOK, Expirer
  <2> QED BY <1>0, <1>b, <2>3, <2>5, <2>6, <2>7, <2>8, <2>9 DEF CheckoutInv, TypeOK
<1>4. CASE CreateSaveFails(c)
  <2>1. creators[c].pc = "save"
    BY <1>4 DEF CreateSaveFails
  <2>2. HolderWaits'
    BY <1>0, <1>4, <2>1 DEF CreateSaveFails, HolderWaits, capVars, TypeOK
  <2>3. /\ [creators[c] EXCEPT !.pc = "undo"] \in Creator
        /\ [creators[c] EXCEPT !.pc = "undo"].key = creators[c].key
        /\ [creators[c] EXCEPT !.pc = "undo"].mode = creators[c].mode
        /\ [creators[c] EXCEPT !.pc = "undo"].quote = creators[c].quote
    BY <1>0 DEF Creator
  <2>4. creators[c].key \in Keys /\ (creators[c].mode = "EXTERNAL" => creators[c].quote \in Quotes)
    BY <1>0, <2>1 DEF CreatorsOK
  <2>5. CASE creators[c].mode = "OWN"
    BY <1>4, <1>a, <2>2, <2>3, <2>4, <2>5 DEF CreateSaveFails
  <2>6. CASE creators[c].mode # "OWN"
    BY <1>4, <1>a, <1>b, <2>2, <2>6 DEF CreateSaveFails
  <2> QED BY <2>5, <2>6
<1>5. CASE CreateUndo(c)
  <2>1. HolderWaits'
    BY <1>0, <1>5 DEF CreateUndo, ReleaseSlot, Cap!Release, HolderWaits, capVars, TypeOK
  <2> QED BY <1>5, <1>a, <1>b, <2>1 DEF CreateUndo
<1>6. CASE CreateDies(c)
  <2>1. HolderWaits'
    BY <1>0, <1>6 DEF CreateDies, HolderWaits, capVars, TypeOK
  <2> QED BY <1>6, <1>a, <1>b, <2>1 DEF CreateDies
<1> QED
  BY <1>1, <1>2, <1>3, <1>4, <1>5, <1>6

\* The steps of payers keep all of this: the row lock makes each the only one.
LEMMA PayerStep ==
  ASSUME CheckoutInv, SlotsOK', NEW p \in Payers,
         \/ \E k \in Keys, d \in Deliveries \cup {NoDelivery} : PayBegin(p, k, d)
         \/ PayReserve(p) \/ PayCommit(p) \/ PayRollback(p)
  PROVE  CheckoutInv'
<1>0. /\ TypeOK /\ CreatorsOK /\ CheckoutsOK /\ PayersOK /\ ExpirerOK /\ HolderWaits
      /\ payers[p] \in Payer /\ Cap!TypeOK' /\ HoldSafe'
  BY DEF CheckoutInv, TypeOK, SlotsOK
<1>a. NoPayment \in Payer /\ NoPayment.pc = "idle"
  BY DEF NoPayment, Payer
<1>b. ASSUME UNCHANGED <<holder, hold, creators, expirer, checkouts>>,
             quotes' \in [Quotes -> Quote], payers' \in [Payers -> Payer], PayersOK'
      PROVE  CheckoutInv'
  BY <1>0, <1>b DEF CheckoutInv, TypeOK, CreatorsOK, CheckoutsOK, ExpirerOK, HolderWaits
<1>1. ASSUME NEW k \in Keys, NEW d \in Deliveries \cup {NoDelivery}, PayBegin(p, k, d) PROVE CheckoutInv'
  <2> DEFINE r == [NoPayment EXCEPT !.pc = "reserve", !.key = k, !.delivery = d, !.since = now]
  <2>1. r \in Payer /\ r.pc = "reserve" /\ r.key = k
    BY <1>0 DEF NoPayment, Payer, TypeOK, Cap!TypeOK
  <2>2. payers' = [payers EXCEPT ![p] = r]
    BY <1>1 DEF PayBegin
  <2>3. PayersOK'
    <3>1. \A q \in Payers : payers[q].pc # "idle" => payers[q].key # k
      BY <1>1 DEF PayBegin, PaymentLocked
    <3>2. checkouts'[k].status = "PENDING_PAYMENT" /\ UNCHANGED checkouts
      BY <1>1 DEF PayBegin
    <3>3. \A q \in Payers : payers'[q] = IF q = p THEN r ELSE payers[q]
      BY <1>0, <2>2 DEF TypeOK
    <3> HIDE DEF r
    <3> QED BY <1>0, <2>1, <3>1, <3>2, <3>3 DEF PayersOK
  <2>4. payers' \in [Payers -> Payer]
    BY <1>0, <2>1, <2>2 DEF TypeOK
  <2> QED BY <1>0, <1>1, <1>b, <2>3, <2>4 DEF PayBegin, TypeOK, capVars
<1>2. CASE PayReserve(p)
  <2>1. payers[p].pc = "reserve" /\ payers[p].key \in Keys
    BY <1>0, <1>2 DEF PayReserve, PayersOK
  <2>2. ASSUME NEW u \in Nat
        PROVE  LET r == [payers[p] EXCEPT !.pc = "commit", !.until = u]
               IN  r \in Payer /\ r.pc = "commit" /\ r.key = payers[p].key
    BY <1>0 DEF Payer
  <2>3. PICK u \in Nat : payers' = [payers EXCEPT ![p] = [payers[p] EXCEPT !.pc = "commit", !.until = u]]
    <3>1. rows[payers[p].key].expiresAt \in Nat
      BY <1>0, <2>1 DEF TypeOK, Cap!TypeOK, Cap!Row
    <3> DEFINE u == IF checkouts[payers[p].key].mode = "OWN" THEN rows[payers[p].key].expiresAt ELSE 0
    <3>2. u \in Nat
      BY <3>1
    <3>3. payers' = [payers EXCEPT ![p] = [payers[p] EXCEPT !.pc = "commit", !.until = u]]
      BY <1>0, <1>2 DEF PayReserve, TypeOK, Payer
    <3> QED BY <3>2, <3>3
  <2>4. PayersOK' /\ payers' \in [Payers -> Payer]
    <3>1. \A q \in Payers : q # p => payers'[q] = payers[q]
      BY <1>0, <2>3 DEF TypeOK
    <3>2. payers'[p].pc = "commit" /\ payers'[p].key = payers[p].key /\ payers' \in [Payers -> Payer]
      BY <1>0, <2>2, <2>3 DEF TypeOK
    <3>3. UNCHANGED checkouts
      BY <1>2 DEF PayReserve
    <3> QED BY <1>0, <2>1, <3>1, <3>2, <3>3 DEF PayersOK
  <2>5. UNCHANGED <<holder, hold, creators, expirer, checkouts>>
    BY <1>2 DEF PayReserve, ConfirmSlot, Cap!Confirm, capVars
  <2>6. quotes' \in [Quotes -> Quote]
    <3>1. payers[p].delivery \in Deliveries \cup {NoDelivery}
      BY <1>0 DEF Payer
    <3> QED BY <1>0, <1>2, <3>1, QuoteType DEF PayReserve, TypeOK
  <2> QED BY <1>b, <2>4, <2>5, <2>6
<1>3. CASE PayCommit(p)
  <2>1. payers[p].pc = "commit" /\ payers[p].key \in Keys
    BY <1>0, <1>3 DEF PayCommit, PayersOK
  <2>2. ASSUME NEW r \in Checkout
        PROVE  LET s == [r EXCEPT !.status = "PAID", !.payment = p]
               IN  /\ s \in Checkout /\ s.status = "PAID" /\ s.mode = r.mode /\ s.quote = r.quote
    BY DEF Checkout
  <2>3. checkouts' = [k \in Keys |-> IF k = payers[p].key
                                    THEN [checkouts[k] EXCEPT !.status = "PAID", !.payment = p]
                                    ELSE checkouts[k]]
    BY <1>0, <1>3, <2>1 DEF PayCommit, TypeOK, Checkout
  <2>4. \A k \in Keys : checkouts[k] \in Checkout
    BY <1>0 DEF TypeOK
  <2>5. checkouts' \in [Keys -> Checkout]
    <3>1. ASSUME NEW k \in Keys PROVE checkouts'[k] \in Checkout
      <4>1. [checkouts[k] EXCEPT !.status = "PAID", !.payment = p] \in Checkout
        BY <2>2, <2>4
      <4> QED BY <2>3, <2>4, <4>1
    <3> QED BY <2>3, <3>1
  <2>6. /\ UNCHANGED <<holder, hold, quotes, creators, expirer>>
        /\ payers' = [payers EXCEPT ![p] = NoPayment]
    BY <1>3 DEF PayCommit, capVars
  <2>7. CheckoutsOK'
    <3>1. ASSUME NEW k \in Keys
          PROVE  checkouts'[k].mode = checkouts[k].mode /\ checkouts'[k].quote = checkouts[k].quote
      <4>1. CASE k = payers[p].key
        BY <2>2, <2>3, <2>4, <4>1
      <4>2. CASE k # payers[p].key
        BY <2>3, <4>2
      <4> QED BY <4>1, <4>2
    <3>2. \A k \in Keys : checkouts'[k].status # "NONE" => checkouts[k].status # "NONE"
      BY <1>0, <2>1, <2>3 DEF PayersOK
    <3> QED BY <1>0, <3>1, <3>2 DEF CheckoutsOK
  <2>8. PayersOK' /\ payers' \in [Payers -> Payer]
    <3>1. \A q \in Payers : payers'[q] = IF q = p THEN NoPayment ELSE payers[q]
      BY <1>0, <2>6 DEF TypeOK
    <3>2. \A q \in Payers : q # p /\ payers[q].pc # "idle" => payers[q].key # payers[p].key
      BY <1>0, <2>1 DEF PayersOK
    <3> QED BY <1>0, <1>a, <2>3, <2>6, <3>1, <3>2 DEF PayersOK, TypeOK
  <2>9. ExpirerOK'
    <3>1. checkouts[payers[p].key].status = "PENDING_PAYMENT"
      BY <1>0, <2>1 DEF PayersOK
    <3>2. checkouts'[payers[p].key].status = "PAID"
      BY <2>1, <2>2, <2>3, <2>4
    <3>3. \A k \in Keys : k # payers[p].key => checkouts'[k] = checkouts[k]
      BY <2>3
    <3>4. UNCHANGED expirer /\ expirer.todo \subseteq Keys /\ expirer.releasing \in Keys \cup {NoKey}
      BY <1>0, <2>6 DEF TypeOK, Expirer
    <3>5. expirer.releasing # payers[p].key
      BY <1>0, <2>1, <3>1 DEF ExpirerOK
    <3> QED BY <1>0, <3>2, <3>3, <3>4, <3>5 DEF ExpirerOK
  <2> QED BY <1>0, <2>5, <2>6, <2>7, <2>8, <2>9 DEF CheckoutInv, TypeOK, CreatorsOK, HolderWaits
<1>4. CASE PayRollback(p)
  <2>1. \A q \in Payers : payers'[q] = IF q = p THEN NoPayment ELSE payers[q]
    BY <1>0, <1>4 DEF PayRollback, TypeOK
  <2>2. UNCHANGED <<holder, hold, quotes, creators, expirer, checkouts>>
    BY <1>4 DEF PayRollback, capVars
  <2>3. PayersOK'
    BY <1>0, <1>a, <2>1, <2>2 DEF PayersOK
  <2>4. payers' \in [Payers -> Payer]
    BY <1>0, <1>4, <1>a DEF PayRollback, TypeOK
  <2> QED BY <1>0, <1>b, <2>2, <2>3, <2>4 DEF TypeOK
<1> QED BY <1>1, <1>2, <1>3, <1>4

\* The hold transaction of a creator moves only its own creator.
LEMMA HoldStepOK ==
  ASSUME CheckoutInv, SlotsOK', HoldCount \/ HoldGranted \/ HoldFailed
  PROVE  CheckoutInv'
<1>0. /\ TypeOK /\ CreatorsOK /\ CheckoutsOK /\ PayersOK /\ ExpirerOK /\ HolderWaits
      /\ Cap!TypeOK' /\ HoldSafe'
  BY DEF CheckoutInv, SlotsOK
<1>1. CASE HoldCount
  <2>1. UNCHANGED <<holder, checkouts, quotes, creators, payers, expirer>> /\ hold.pc = "locked"
    BY <1>1 DEF HoldCount, Cap!HoldCount, requests
  <2>2. TypeOK'
    BY <1>0, <2>1 DEF TypeOK
  <2>3. CreatorsOK' /\ CheckoutsOK' /\ PayersOK' /\ ExpirerOK' /\ HolderWaits'
    BY <1>0, <2>1 DEF CreatorsOK, CheckoutsOK, PayersOK, ExpirerOK, HolderWaits
  <2> QED BY <1>0, <2>2, <2>3 DEF CheckoutInv
<1>2. CASE HoldGranted \/ HoldFailed
  <2>1. hold.pc # "idle" /\ hold'.pc = "idle"
    BY <1>2 DEF HoldGranted, HoldFailed, Cap!HoldReuse, Cap!HoldGrant, Cap!HoldRefuse,
                Cap!HoldAbort, Cap!NoTransaction
  <2>2. holder \in Creators /\ creators[holder].pc = "hold" /\ creators[holder] \in Creator
    BY <1>0, <2>1 DEF HolderWaits, TypeOK
  <2>3. UNCHANGED <<checkouts, quotes, payers, expirer>> /\ holder' = NoOne
    BY <1>2 DEF HoldGranted, HoldFailed
  <2>4. /\ NoCreation \in Creator /\ NoCreation.pc = "idle"
        /\ [creators[holder] EXCEPT !.pc = "save"] \in Creator
        /\ [creators[holder] EXCEPT !.pc = "save"].key = creators[holder].key
        /\ [creators[holder] EXCEPT !.pc = "save"].mode = creators[holder].mode
        /\ [creators[holder] EXCEPT !.pc = "save"].quote = creators[holder].quote
    BY <2>2 DEF NoCreation, Creator
  <2>5. \/ creators' = [creators EXCEPT ![holder] = NoCreation]
        \/ creators' = [creators EXCEPT ![holder] = [creators[holder] EXCEPT !.pc = "save"]]
    BY <1>2 DEF HoldGranted, HoldFailed
  <2>6. creators' \in [Creators -> Creator] /\ CreatorsOK'
    BY <1>0, <2>2, <2>4, <2>5 DEF TypeOK, CreatorsOK
  <2> QED BY <1>0, <2>1, <2>3, <2>6
          DEF CheckoutInv, TypeOK, CheckoutsOK, PayersOK, ExpirerOK, HolderWaits
<1> QED BY <1>1, <1>2

\* Maintenance keeps all of this: it waits for a payer's row lock.
LEMMA ExpirerStep ==
  ASSUME CheckoutInv, SlotsOK',
         ExpireScan \/ (\E k \in Keys : ExpireWrite(k)) \/ ExpireRelease \/ ExpireDies
  PROVE  CheckoutInv'
<1>0. /\ TypeOK /\ CreatorsOK /\ CheckoutsOK /\ PayersOK /\ ExpirerOK /\ HolderWaits
      /\ Cap!TypeOK' /\ HoldSafe'
  BY DEF CheckoutInv, SlotsOK
<1>a. ASSUME UNCHANGED <<holder, hold, quotes, creators, payers, checkouts>>,
             expirer' \in Expirer, expirer'.releasing \in {NoKey, expirer.releasing},
             \A k \in expirer'.todo : checkouts[k].status # "NONE"
      PROVE  CheckoutInv'
  <2>1. TypeOK'
    BY <1>0, <1>a DEF TypeOK
  <2>2. CreatorsOK' /\ CheckoutsOK' /\ PayersOK' /\ ExpirerOK' /\ HolderWaits'
    BY <1>0, <1>a DEF CreatorsOK, CheckoutsOK, PayersOK, ExpirerOK, HolderWaits
  <2> QED BY <1>0, <2>1, <2>2 DEF CheckoutInv
<1>1. CASE ExpireScan
  <2>1. DueCheckouts \subseteq Keys /\ \A k \in DueCheckouts : checkouts[k].status # "NONE"
    BY DEF DueCheckouts
  <2>2. /\ expirer' \in Expirer /\ expirer'.releasing = expirer.releasing
        /\ expirer'.todo = DueCheckouts
    BY <1>0, <1>1, <2>1 DEF ExpireScan, TypeOK, Expirer
  <2> QED BY <1>1, <1>a, <2>1, <2>2 DEF ExpireScan, capVars
<1>2. ASSUME NEW k \in Keys, ExpireWrite(k) PROVE CheckoutInv'
  <2>1. \A j \in Keys : checkouts'[j] = IF j = k THEN [checkouts[k] EXCEPT !.status = "EXPIRED"]
                                        ELSE checkouts[j]
    BY <1>0, <1>2 DEF ExpireWrite, TypeOK
  <2>2. ASSUME NEW r \in Checkout
        PROVE  /\ [r EXCEPT !.status = "EXPIRED"] \in Checkout
               /\ [r EXCEPT !.status = "EXPIRED"].status = "EXPIRED"
               /\ [r EXCEPT !.status = "EXPIRED"].mode = r.mode
               /\ [r EXCEPT !.status = "EXPIRED"].quote = r.quote
    BY DEF Checkout
  <2>3. checkouts' \in [Keys -> Checkout]
    BY <1>0, <1>2, <2>2 DEF ExpireWrite, TypeOK
  <2>4. /\ expirer' = [todo |-> expirer.todo \ {k},
                       releasing |-> IF checkouts[k].mode = "OWN" THEN k ELSE NoKey]
        /\ UNCHANGED <<holder, hold, quotes, creators, payers>>
    BY <1>2 DEF ExpireWrite, capVars
  <2>5. expirer' \in Expirer /\ expirer'.releasing \in {k, NoKey}
    BY <1>0, <2>4 DEF TypeOK, Expirer
  <2>6. ExpirerOK'
    <3>1. checkouts'[k].status = "EXPIRED" /\ \A j \in Keys : j # k => checkouts'[j] = checkouts[j]
      <4>1. checkouts[k] \in Checkout
        BY <1>0 DEF TypeOK
      <4> QED BY <2>1, <2>2, <4>1
    <3>2. expirer'.todo \subseteq expirer.todo /\ expirer.todo \subseteq Keys /\ k # NoKey
      BY <1>0, <2>4 DEF TypeOK, Expirer
    <3> QED BY <1>0, <2>5, <3>1, <3>2 DEF ExpirerOK
  <2>7. \A p \in Payers : payers[p].pc # "idle" => payers[p].key # k
    BY <1>2 DEF ExpireWrite, PaymentLocked
  <2>8. PayersOK'
    BY <1>0, <2>1, <2>4, <2>7 DEF PayersOK
  <2>9. CheckoutsOK'
    <3>1. checkouts[k].status # "NONE"
      BY <1>0, <1>2 DEF ExpireWrite, ExpirerOK
    <3>2. checkouts[k] \in Checkout
      BY <1>0 DEF TypeOK
    <3>3. checkouts'[k].mode = checkouts[k].mode /\ checkouts'[k].quote = checkouts[k].quote
      BY <2>1, <2>2, <3>2
    <3>4. \A j \in Keys : j # k => checkouts'[j] = checkouts[j]
      BY <2>1
    <3> QED BY <1>0, <3>1, <3>3, <3>4 DEF CheckoutsOK
  <2> QED BY <1>0, <2>3, <2>4, <2>5, <2>6, <2>8, <2>9 DEF CheckoutInv, TypeOK, CreatorsOK, HolderWaits
<1>3. CASE ExpireRelease
  <2>1. expirer' \in Expirer /\ expirer'.releasing = NoKey /\ expirer'.todo = expirer.todo
    BY <1>0, <1>3 DEF ExpireRelease, TypeOK, Expirer
  <2>2. UNCHANGED hold
    BY <1>3 DEF ExpireRelease, ReleaseSlot, Cap!Release, capVars
  <2> QED BY <1>0, <1>3, <1>a, <2>1, <2>2 DEF ExpireRelease, ExpirerOK
<1>4. CASE ExpireDies
  <2>1. expirer' \in Expirer /\ expirer'.releasing = NoKey /\ expirer'.todo = {}
    BY <1>4 DEF ExpireDies, NoExpiry, Expirer
  <2> QED BY <1>4, <1>a, <2>1 DEF ExpireDies, capVars
<1> QED BY <1>1, <1>2, <1>3, <1>4

\* All that requests know is inductive.
LEMMA CheckoutStep ==
  ASSUME CheckoutInv, [Next]_vars
  PROVE  CheckoutInv'
<1>0. /\ TypeOK /\ CreatorsOK /\ CheckoutsOK /\ PayersOK /\ ExpirerOK /\ HolderWaits
      /\ SlotsOK
  BY DEF CheckoutInv, SlotsOK, TypeOK
<1>1. SlotsOK' /\ Cap!TypeOK' /\ HoldSafe'
  BY <1>0, EveryCapStep, SlotsStep DEF SlotsOK
<1>2. ASSUME UNCHANGED <<holder, checkouts, creators, payers, expirer, hold>>, quotes' \in [Quotes -> Quote]
      PROVE  CheckoutInv'
  <2>1. TypeOK'
    BY <1>0, <1>1, <1>2 DEF TypeOK
  <2>2. CreatorsOK' /\ CheckoutsOK' /\ PayersOK' /\ ExpirerOK' /\ HolderWaits'
    BY <1>0, <1>2 DEF CreatorsOK, CheckoutsOK, PayersOK, ExpirerOK, HolderWaits
  <2> QED BY <1>1, <2>1, <2>2 DEF CheckoutInv
<1>3. ASSUME NEW q \in Quotes, QuoteCreate(q) \/ QuoteExpire PROVE CheckoutInv'
  <2>1. quotes' \in [Quotes -> Quote]
    BY <1>0, <1>3, QuoteType
  <2> QED BY <1>2, <1>3, <2>1 DEF QuoteCreate, QuoteExpire, capVars, requests
<1>4. CASE QuoteExpire
  BY <1>3, <1>4 DEF QuoteExpire
<1>5. CASE CapacityExpire \/ (\E c \in Capacities : SetCapacity(c)) \/ Tick \/ UNCHANGED vars
  BY <1>0, <1>2, <1>5 DEF CapacityExpire, SetCapacity, Tick, Cap!Expire, Cap!SetCapacity, Cap!Tick,
                          capVars, requests, vars, TypeOK
<1>6. ASSUME NEW c \in Creators,
             \/ \E k \in Keys, mode \in Modes, q \in Quotes \cup {NoQuote} : CreateBegin(c, k, mode, q)
             \/ CreateHold(c) \/ CreateSave(c) \/ CreateSaveFails(c) \/ CreateUndo(c) \/ CreateDies(c)
      PROVE  CheckoutInv'
  BY <1>1, <1>6, CreatorStep
<1>7. ASSUME NEW p \in Payers,
             \/ \E k \in Keys, d \in Deliveries \cup {NoDelivery} : PayBegin(p, k, d)
             \/ PayReserve(p) \/ PayCommit(p) \/ PayRollback(p)
      PROVE  CheckoutInv'
  BY <1>1, <1>7, PayerStep
<1> QED
  BY <1>1, <1>3, <1>4, <1>5, <1>6, <1>7, HoldStepOK, ExpirerStep DEF Next

\* Nothing is requested at first.
LEMMA CheckoutInit ==
  ASSUME Init
  PROVE  CheckoutInv
<1>1. NoCheckout \in Checkout /\ NoCreation \in Creator /\ NoPayment \in Payer /\ NoExpiry \in Expirer
  BY DEF NoCheckout, Checkout, NoCreation, Creator, NoPayment, Payer, NoExpiry, Expirer
<1>2. Cap!TypeOK /\ HoldSafe /\ hold.pc = "idle"
  BY DEF Init, Cap!Init, Cap!TypeOK, Cap!NoRow, Cap!Row, Cap!Status, Cap!NoTransaction,
         Cap!Transaction, HoldSafe
<1>3. TypeOK
  BY <1>1, <1>2 DEF Init, TypeOK, Quote
<1>4. CreatorsOK /\ CheckoutsOK /\ PayersOK /\ ExpirerOK /\ HolderWaits
  BY <1>2 DEF Init, CreatorsOK, CheckoutsOK, PayersOK, ExpirerOK, HolderWaits, NoCreation, NoCheckout,
              NoPayment, NoExpiry
<1> QED BY <1>2, <1>3, <1>4 DEF CheckoutInv

\* The type invariant of slots, checkouts, quotes and requests.
THEOREM TypeCorrect == Spec => []TypeOK
<1>1. CheckoutInv => TypeOK
  BY DEF CheckoutInv
<1> QED BY CheckoutInit, CheckoutStep, <1>1, PTL DEF Spec

---------------------------------------------------------------------------
(* paying: what was reserved in the first transaction lasts to the second *)

\* Without failing inserts no creator gives a hold back.
NoUndo == \A c \in Creators : creators[c].pc # "undo"

\* Between its two transactions a payer has its slot, confirmed until the end of
\* the window it was told, or its used quote.
PayersReserved ==
  \A p \in Payers : payers[p].pc = "commit" =>
    IF checkouts[payers[p].key].mode = "OWN"
    THEN \/ /\ rows[payers[p].key].status = "CONFIRMED"
            /\ rows[payers[p].key].expiresAt = payers[p].until
         \/ payers[p].until <= now
    ELSE quotes[checkouts[payers[p].key].quote].status = "USED"

PayInv == CheckoutInv /\ NoUndo /\ PayersReserved

\* A failed insert is the only way to give a hold back.
LEMMA NoUndoStep ==
  ASSUME SaveMayFail = FALSE, TypeOK, HolderWaits, NoUndo, [Next]_vars
  PROVE  NoUndo'
<1>1. NoCreation.pc = "idle" /\ creators \in [Creators -> Creator]
  BY DEF NoCreation, TypeOK
<1>2. ASSUME NEW c \in Creators, NEW r, r.pc # "undo", creators' = [creators EXCEPT ![c] = r]
      PROVE  NoUndo'
  BY <1>1, <1>2 DEF NoUndo
<1>3. ASSUME NEW c \in Creators, NEW k, NEW mode, NEW q, CreateBegin(c, k, mode, q) PROVE NoUndo'
  <2> DEFINE r == [pc |-> IF mode = "OWN" THEN "hold" ELSE "save",
                   key |-> k, mode |-> mode, quote |-> q, since |-> now]
  <2>1. r.pc # "undo" /\ creators' = [creators EXCEPT ![c] = r]
    BY <1>3 DEF CreateBegin
  <2> HIDE DEF r
  <2> QED BY <1>2, <2>1
<1>4. ASSUME NEW c \in Creators, CreateSave(c) \/ CreateUndo(c) \/ CreateDies(c) PROVE NoUndo'
  BY <1>1, <1>2, <1>4 DEF CreateSave, CreateUndo, CreateDies
<1>5. CASE HoldGranted \/ HoldFailed
  <2>1. hold.pc # "idle"
    BY <1>5 DEF HoldGranted, HoldFailed, Cap!HoldReuse, Cap!HoldGrant, Cap!HoldRefuse, Cap!HoldAbort
  <2>2. holder \in Creators
    BY <2>1 DEF HolderWaits
  <2>3. [creators[holder] EXCEPT !.pc = "save"].pc = "save"
    BY <1>1, <2>2 DEF Creator
  <2> QED BY <1>1, <1>2, <1>5, <2>2, <2>3 DEF HoldGranted, HoldFailed
<1>6. ASSUME UNCHANGED creators PROVE NoUndo'
  BY <1>6 DEF NoUndo
<1> QED
  BY <1>3, <1>4, <1>5, <1>6
     DEF Next, vars, requests, CreateHold, CreateSaveFails, QuoteCreate, QuoteExpire, HoldCount,
         PayBegin, PayReserve, PayCommit, PayRollback, ExpireScan, ExpireWrite, ExpireRelease,
         ExpireDies, CapacityExpire, SetCapacity, Tick

\* Nobody releases the confirmed slot of a pending checkout.
LEMMA PendingNotReleased ==
  ASSUME CheckoutInv, NoUndo, [Next]_vars, NEW k \in Keys,
         checkouts[k].status = "PENDING_PAYMENT", rows[k].status = "CONFIRMED"
  PROVE  ~Cap!Release(k)
<1>0. Cap!TypeOK /\ rows[k] \in Cap!Row
  BY DEF CheckoutInv, TypeOK, Cap!TypeOK
<1>1. rows'[k].status # "RELEASED"
  <2>1. CASE HoldCount \/ HoldGranted \/ HoldFailed
    <3>1. CASE UNCHANGED rows
      BY <3>1
    <3>2. CASE Cap!HoldReuse
      BY <1>0, <3>2, ExpiredRows DEF Cap!HoldReuse
    <3>3. CASE Cap!HoldGrant
      BY <1>0, <3>3, ExpiredRows DEF Cap!HoldGrant
    <3> QED BY <2>1, <3>1, <3>2, <3>3 DEF HoldCount, HoldGranted, HoldFailed, Cap!HoldCount,
                                          Cap!HoldRefuse, Cap!HoldAbort
  <2>2. ASSUME NEW c \in Creators, CreateUndo(c) PROVE FALSE
    BY <2>2 DEF CreateUndo, NoUndo
  <2>3. ASSUME NEW p \in Payers, PayReserve(p) PROVE rows'[k].status # "RELEASED"
    BY <1>0, <2>3 DEF PayReserve, ConfirmSlot, Cap!Confirm, Cap!TypeOK, Cap!Row, capVars
  <2>4. CASE ExpireRelease
    <3>1. expirer.releasing # k
      BY <2>4 DEF ExpireRelease, CheckoutInv, ExpirerOK
    <3> QED BY <1>0, <2>4, <3>1 DEF ExpireRelease, ReleaseSlot, Cap!Release, Cap!TypeOK, capVars
  <2>5. CASE CapacityExpire
    BY <1>0, <2>5, ExpiredRows DEF CapacityExpire, Cap!Expire
  <2>6. CASE UNCHANGED rows
    BY <2>6
  <2> QED
    BY <2>1, <2>2, <2>3, <2>4, <2>5, <2>6
       DEF Next, vars, capVars, CreateHold, Cap!HoldBegin, QuoteCreate, QuoteExpire, CreateBegin,
           CreateSave, CreateSaveFails, CreateDies, PayBegin, PayCommit, PayRollback, ExpireScan,
           ExpireWrite, ExpireDies, SetCapacity, Cap!SetCapacity, Tick, Cap!Tick
<1>2. Cap!Release(k) => rows'[k].status = "RELEASED"
  BY <1>0 DEF Cap!Release, Cap!TypeOK, Cap!Row
<1> QED BY <1>1, <1>2

\* A used quote stays used.
LEMMA UsedKept ==
  ASSUME TypeOK, [Next]_vars, NEW q \in Quotes, quotes[q].status = "USED"
  PROVE  quotes'[q].status = "USED"
<1>0. quotes \in [Quotes -> Quote]
  BY DEF TypeOK
<1>1. ASSUME NEW r \in Quotes, QuoteCreate(r) PROVE quotes'[q] = quotes[q]
  BY <1>0, <1>1 DEF QuoteCreate
<1>2. CASE QuoteExpire
  BY <1>0, <1>2 DEF QuoteExpire
<1>3. ASSUME NEW p \in Payers, PayReserve(p) PROVE quotes'[q].status = "USED"
  <2>1. CASE UNCHANGED quotes
    BY <2>1
  <2>2. ASSUME NEW r, NEW d, quotes' = [quotes EXCEPT ![r].status = "USED", ![r].delivery = d]
        PROVE  quotes'[q].status = "USED"
    <3>1. CASE r = q
      <4>1. quotes'[q] = [quotes[q] EXCEPT !.status = "USED", !.delivery = d]
        BY <1>0, <2>2, <3>1
      <4>2. quotes[q] \in Quote
        BY <1>0
      <4> QED BY <4>1, <4>2 DEF Quote
    <3>2. CASE r # q
      BY <1>0, <2>2, <3>2
    <3> QED BY <3>1, <3>2
  <2> QED BY <1>3, <2>1, <2>2 DEF PayReserve, UseQuote
<1>4. CASE UNCHANGED quotes
  BY <1>4
<1> QED
  BY <1>1, <1>2, <1>3, <1>4
     DEF Next, vars, requests, CreateBegin, CreateHold, CreateSave, CreateSaveFails, CreateUndo,
         CreateDies, HoldCount, HoldGranted, HoldFailed, PayBegin, PayCommit, PayRollback,
         ExpireScan, ExpireWrite, ExpireRelease, ExpireDies, CapacityExpire, SetCapacity, Tick

\* A checkout keeps its mode and quote; only its payer's commit makes it PAID.
LEMMA CheckoutKept ==
  ASSUME CheckoutInv, [Next]_vars, NEW k \in Keys, checkouts[k].status # "NONE"
  PROVE  /\ checkouts'[k].mode = checkouts[k].mode
         /\ checkouts'[k].quote = checkouts[k].quote
<1>0. checkouts \in [Keys -> Checkout] /\ checkouts[k] \in Checkout
  BY DEF CheckoutInv, TypeOK
<1>1. ASSUME NEW c \in Creators, CreateSave(c) PROVE checkouts'[k] = checkouts[k]
  BY <1>0, <1>1 DEF CreateSave
<1>2. ASSUME NEW p \in Payers, PayCommit(p)
      PROVE  checkouts'[k].mode = checkouts[k].mode /\ checkouts'[k].quote = checkouts[k].quote
  BY <1>0, <1>2 DEF PayCommit, Checkout
<1>3. ASSUME NEW j \in Keys, ExpireWrite(j)
      PROVE  checkouts'[k].mode = checkouts[k].mode /\ checkouts'[k].quote = checkouts[k].quote
  BY <1>0, <1>3 DEF ExpireWrite, Checkout
<1>4. CASE UNCHANGED checkouts
  BY <1>4
<1> QED
  BY <1>1, <1>2, <1>3, <1>4
     DEF Next, vars, requests, QuoteCreate, QuoteExpire, CreateBegin, CreateHold, CreateSaveFails,
         CreateUndo, CreateDies, HoldCount, HoldGranted, HoldFailed, PayBegin, PayReserve,
         PayRollback, ExpireScan, ExpireRelease, ExpireDies, CapacityExpire, SetCapacity, Tick

\* A payer about to commit was so before the step, or has just reserved.
LEMMA CommitReached ==
  ASSUME TypeOK, [Next]_vars, NEW p \in Payers, payers'[p].pc = "commit"
  PROVE  payers'[p] = payers[p] \/ PayReserve(p)
<1>0. payers \in [Payers -> Payer] /\ NoPayment.pc = "idle"
  BY DEF TypeOK, NoPayment
<1>1. ASSUME NEW q \in Payers, NEW k, NEW d, PayBegin(q, k, d) PROVE payers'[p] = payers[p]
  <2> DEFINE r == [NoPayment EXCEPT !.pc = "reserve", !.key = k, !.delivery = d, !.since = now]
  <2>1. r.pc = "reserve"
    BY DEF NoPayment
  <2>2. payers' = [payers EXCEPT ![q] = r]
    BY <1>1 DEF PayBegin
  <2> HIDE DEF r
  <2> QED BY <1>0, <2>1, <2>2
<1>2. ASSUME NEW q \in Payers, q # p, PayReserve(q) PROVE payers'[p] = payers[p]
  BY <1>0, <1>2 DEF PayReserve
<1>3. ASSUME NEW q \in Payers, PayCommit(q) \/ PayRollback(q) PROVE payers'[p] = payers[p]
  BY <1>0, <1>3 DEF PayCommit, PayRollback
<1>4. ASSUME UNCHANGED payers PROVE payers'[p] = payers[p]
  BY <1>4
<1> QED
  BY <1>1, <1>2, <1>3, <1>4
     DEF Next, vars, requests, QuoteCreate, QuoteExpire, CreateBegin, CreateHold, CreateSave,
         CreateSaveFails, CreateUndo, CreateDies, HoldCount, HoldGranted, HoldFailed, ExpireScan,
         ExpireWrite, ExpireRelease, ExpireDies, CapacityExpire, SetCapacity, Tick

\* What a payer reserved is still there, or its window has ended.
LEMMA ReservedStep ==
  ASSUME PayInv, [Next]_vars
  PROVE  PayersReserved'
<1>0. CheckoutInv /\ TypeOK /\ NoUndo /\ PayersReserved /\ SlotsOK /\ PayersOK /\ CheckoutsOK /\ CapStep
  BY EveryCapStep DEF PayInv, CheckoutInv, SlotsOK, TypeOK
<1> SUFFICES ASSUME NEW p \in Payers, payers'[p].pc = "commit"
             PROVE  IF checkouts'[payers'[p].key].mode = "OWN"
                    THEN \/ /\ rows'[payers'[p].key].status = "CONFIRMED"
                            /\ rows'[payers'[p].key].expiresAt = payers'[p].until
                         \/ payers'[p].until <= now'
                    ELSE quotes'[checkouts'[payers'[p].key].quote].status = "USED"
  BY DEF PayersReserved
<1> DEFINE k == payers[p].key
<1>1. CASE payers'[p] = payers[p]
  <2>1. k \in Keys /\ checkouts[k].status = "PENDING_PAYMENT"
    BY <1>0, <1>1 DEF PayersOK
  <2>2. checkouts'[k].mode = checkouts[k].mode /\ checkouts'[k].quote = checkouts[k].quote
    BY <1>0, <2>1, CheckoutKept
  <2>3. CASE checkouts[k].mode = "OWN"
    <3>1. payers[p].until \in Nat /\ now \in Nat /\ now' \in Nat /\ now <= now'
      <4>1. now \in Nat /\ payers[p].until \in Nat
        BY <1>0 DEF TypeOK, Payer, Cap!TypeOK
      <4>2. now' = now \/ now' = now + 1
        BY <1>0 DEF CapStep, Cap!HoldBegin, Cap!Release, Cap!Confirm, Cap!HoldCount, Cap!HoldReuse,
                    Cap!HoldGrant, Cap!HoldRefuse, Cap!HoldAbort, Cap!Expire, Cap!SetCapacity,
                    Cap!Tick, capVars
      <4> QED BY <4>1, <4>2
    <3>2. CASE payers[p].until <= now
      BY <1>1, <2>2, <2>3, <3>1, <3>2
    <3>3. CASE payers[p].until > now
      <4>1. rows[k].status = "CONFIRMED" /\ rows[k].expiresAt = payers[p].until
        BY <1>0, <1>1, <2>3, <3>1, <3>3 DEF PayersReserved
      <4>2. ~Cap!Release(k)
        BY <1>0, <2>1, <4>1, PendingNotReleased
      <4>3. rows'[k].status = "CONFIRMED" /\ rows'[k].expiresAt = rows[k].expiresAt
        BY <1>0, <2>1, <3>3, <4>1, <4>2, ConfirmedKept
      <4> QED BY <1>1, <2>2, <2>3, <4>1, <4>3
    <3> QED BY <3>1, <3>2, <3>3
  <2>4. CASE checkouts[k].mode # "OWN"
    <3>1. checkouts[k].mode = "EXTERNAL"
      BY <1>0, <2>1, <2>4 DEF TypeOK, Checkout
    <3>2. checkouts[k].quote \in Quotes /\ quotes[checkouts[k].quote].status = "USED"
      BY <1>0, <1>1, <2>1, <2>4, <3>1 DEF CheckoutsOK, PayersReserved
    <3>3. quotes'[checkouts[k].quote].status = "USED"
      BY <1>0, <3>2, UsedKept
    <3> QED BY <1>1, <2>2, <2>4, <3>3
  <2> QED BY <2>3, <2>4
<1>2. CASE PayReserve(p)
  <2>1. k \in Keys /\ payers[p].pc = "reserve" /\ checkouts[k].status = "PENDING_PAYMENT"
    BY <1>0, <1>2 DEF PayReserve, PayersOK
  <2>2. /\ payers'[p].key = k /\ UNCHANGED checkouts
        /\ checkouts[k].mode = "OWN" => payers'[p].until = rows[k].expiresAt
    BY <1>0, <1>2 DEF PayReserve, TypeOK, Payer
  <2>3. CASE checkouts[k].mode = "OWN"
    <3>1. ConfirmSlot(k, payers[p].delivery)
      BY <1>2, <2>3 DEF PayReserve
    <3>2. rows'[k].status = "CONFIRMED" /\ rows'[k].expiresAt = rows[k].expiresAt
      BY <1>0, <2>1, <3>1 DEF ConfirmSlot, Cap!Confirm, TypeOK, Cap!TypeOK, Cap!Row, capVars
    <3> QED BY <2>2, <2>3, <3>2
  <2>4. CASE checkouts[k].mode # "OWN"
    <3>1. checkouts[k].quote \in Quotes
      BY <1>0, <2>1, <2>4 DEF TypeOK, Checkout, CheckoutsOK
    <3>2. UseQuote(checkouts[k].quote, payers[p].delivery)
      BY <1>2, <2>4 DEF PayReserve
    <3>3. quotes'[checkouts[k].quote].status = "USED"
      BY <1>0, <3>1, <3>2 DEF UseQuote, TypeOK, Quote
    <3> QED BY <2>2, <2>4, <3>3
  <2> QED BY <2>3, <2>4
<1> QED BY <1>0, <1>1, <1>2, CommitReached

\* A checkout becomes PAID in its payer's commit alone, over what was reserved.
LEMMA PaidOver ==
  ASSUME PayInv, [Next]_vars
  PROVE  PaysOverReservation
<1>0. CheckoutInv /\ TypeOK /\ PayersReserved
  BY DEF PayInv, CheckoutInv
<1> SUFFICES ASSUME NEW k \in Keys, checkouts[k].status # "PAID", checkouts'[k].status = "PAID"
             PROVE  IF checkouts[k].mode = "OWN"
                    THEN \/ rows[k].status = "CONFIRMED"
                         \/ \E p \in Payers : payers[p].pc = "commit" /\ payers[p].key = k
                                              /\ payers[p].until <= now
                    ELSE quotes[checkouts[k].quote].status = "USED"
  BY DEF PaysOverReservation
<1>1. \E p \in Payers : PayCommit(p) /\ payers[p].key = k
  <2>1. ASSUME NEW c \in Creators, CreateSave(c) PROVE FALSE
    BY <1>0, <2>1 DEF CreateSave, TypeOK, Checkout
  <2>2. ASSUME NEW j \in Keys, ExpireWrite(j) PROVE FALSE
    BY <1>0, <2>2 DEF ExpireWrite, TypeOK, Checkout
  <2>3. ASSUME NEW p \in Payers, PayCommit(p) PROVE payers[p].key = k
    BY <1>0, <2>3 DEF PayCommit, TypeOK, Checkout
  <2>4. ~UNCHANGED checkouts
    OBVIOUS
  <2> QED
    BY <2>1, <2>2, <2>3, <2>4
       DEF Next, vars, requests, QuoteCreate, QuoteExpire, CreateBegin, CreateHold, CreateSaveFails,
           CreateUndo, CreateDies, HoldCount, HoldGranted, HoldFailed, PayBegin, PayReserve,
           PayRollback, ExpireScan, ExpireRelease, ExpireDies, CapacityExpire, SetCapacity, Tick
<1> QED BY <1>0, <1>1 DEF PayersReserved, PayCommit

\* A checkout becomes PAID only over a confirmed slot, whose window may have
\* ended in between, or a used quote, however requests interleave and die, as
\* long as no insert fails.
THEOREM PaidWithReservation ==
  ASSUME SaveMayFail = FALSE
  PROVE  Spec => [][PaysOverReservation]_vars
<1>1. Init => PayInv
  <2>1. Init => NoUndo /\ PayersReserved
    BY DEF Init, NoUndo, PayersReserved, NoCreation, NoPayment
  <2> QED BY <2>1, CheckoutInit DEF PayInv
<1>2. PayInv /\ [Next]_vars => PayInv'
  BY CheckoutStep, NoUndoStep, ReservedStep DEF PayInv, CheckoutInv
<1>3. PayInv /\ [Next]_vars => PaysOverReservation
  BY PaidOver
<1> QED BY <1>1, <1>2, <1>3, PTL DEF Spec

\* The same in the composition that TLC checks: the instance of the constants,
\* beside another one with faults.
THEOREM PaidOverReservationHolds ==
  ASSUME SaveMayFail = FALSE
  PROVE  MCSpec => PaidOverReservation
<1> DEFINE Kept == instance = "races" => PayInv
<1>1. MCInit => Kept
  <2>1. Init => PayInv
    <3>1. Init => NoUndo /\ PayersReserved
      BY DEF Init, NoUndo, PayersReserved, NoCreation, NoPayment
    <3> QED BY <3>1, CheckoutInit DEF PayInv
  <2> QED BY <2>1 DEF MCInit
<1>2. [MCNext]_mcVars /\ instance' = "races" => instance = "races" /\ [Next]_vars
  BY DEF MCNext, Follows, mcVars
<1>3. Kept /\ [MCNext]_mcVars => Kept'
  BY <1>2, CheckoutStep, NoUndoStep, ReservedStep DEF PayInv, CheckoutInv
<1>4. Kept /\ [MCNext]_mcVars => [instance = "races" => PaysOverReservation]_mcVars
  <2> SUFFICES ASSUME PayInv, MCNext, instance = "races" PROVE PaysOverReservation
    BY DEF mcVars
  <2>1. Next
    BY DEF MCNext, Follows
  <2> QED BY <2>1, PaidOver
<1> HIDE DEF Kept
<1>5. MCInit /\ [][MCNext]_mcVars => PaidOverReservation
  BY <1>1, <1>3, <1>4, PTL DEF PaidOverReservation
<1> QED BY <1>5, PTL DEF MCSpec

\* Checkouts, payments and maintenance use the capacity service and nothing
\* beside it: seen from its tables, every step is one of OwnCapacity, so what is
\* proved of that module holds of the slots of checkouts.
THEOREM UsesTheService == Spec => Cap!Spec
<1>1. Init => Cap!Init
  BY DEF Init
<1>2. CapStep => Cap!Next \/ UNCHANGED capVars
  BY Zenon DEF CapStep, Cap!Next
<1>3. capVars = Cap!vars
  BY DEF capVars, Cap!vars
<1>4. CheckoutInv /\ [Next]_vars => [Cap!Next]_(Cap!vars)
  BY <1>2, <1>3, EveryCapStep DEF capVars, Cap!vars
<1>5. CheckoutInv /\ [Next]_vars => CheckoutInv'
  BY CheckoutStep
<1> QED BY <1>1, <1>4, <1>5, CheckoutInit, PTL DEF Spec, Cap!Spec
=============================================================================
