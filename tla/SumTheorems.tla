------------------------------ MODULE SumTheorems -------------------------------
(***************************************************************************)
(* Facts about SumFunctionOnSet(f, S), the sum of f over a finite set S:   *)
(* how it changes with an element of S and with a value of f, and how sums *)
(* compare.  Induction over the size of S is done with WFMin: a            *)
(* counterexample of least size is refuted.                                *)
(***************************************************************************)
EXTENDS Functions, FiniteSetTheorems, TLAPS

Less == {p \in Nat \X Nat : p[1] < p[2]}

(* A set of natural numbers has a least element.                           *)
LEMMA LeastNat ==
    ASSUME NEW N \in SUBSET Nat, N # {}
    PROVE  \E n \in N : \A m \in N : n <= m
  <1>1. IsWellFoundedOn(Less, Nat)
    BY NatLessThanWellFounded DEF OpToRel, Less
  <1>2. PICK n \in N : \A m \in N : <<m, n>> \notin Less
    BY <1>1, WFMin
  <1>3. ASSUME NEW m \in N PROVE n <= m
    <2>1. m \in Nat /\ n \in Nat /\ ~(<<m, n>> \in Less)
      BY <1>2
    <2>2. m < n => <<m, n>> \in Less
      BY <2>1 DEF Less
    <2> QED BY <2>1, <2>2
  <1> QED BY <1>3

(* So has a set of finite sets a smallest one.                             *)
LEMMA LeastSet ==
    ASSUME NEW D, D # {}, \A s \in D : Cardinality(s) \in Nat
    PROVE  \E s \in D : \A r \in D : Cardinality(s) <= Cardinality(r)
  <1> DEFINE N == {Cardinality(s) : s \in D}
  <1>1. N \in SUBSET Nat /\ N # {}
    OBVIOUS
  <1>2. PICK n \in N : \A m \in N : n <= m
    BY <1>1, LeastNat
  <1>3. PICK s \in D : n = Cardinality(s)
    BY <1>2
  <1>4. \A r \in D : Cardinality(r) \in N
    OBVIOUS
  <1> QED BY <1>2, <1>3, <1>4

Pick(s) == CHOOSE x \in s : TRUE

(* g is defined at s as a sum has to be.                                   *)
At(f, g, s) == g[s] = IF s = {} THEN 0 ELSE f[Pick(s)] + g[s \ {Pick(s)}]

Recursive(f, S, g) == g = [s \in SUBSET S |->
    IF s = {} THEN 0 ELSE f[Pick(s)] + g[s \ {Pick(s)}]]
Recursion(f, S) == CHOOSE g : Recursive(f, S, g)

(* A sum is what the recursive function gives for the whole set.           *)
LEMMA SumIsRecursion ==
    ASSUME NEW f, NEW S
    PROVE  SumFunctionOnSet(f, S) = Recursion(f, S)[S]
  BY DEF SumFunctionOnSet, FoldFunctionOnSet, MapThenFoldSet, Recursion, Recursive,
     Pick

(* The set without the picked element is smaller.                          *)
LEMMA PickFacts ==
    ASSUME NEW s, IsFiniteSet(s), s # {}
    PROVE  /\ Pick(s) \in s /\ IsFiniteSet(s \ {Pick(s)})
           /\ Cardinality(s) \in Nat /\ Cardinality(s \ {Pick(s)}) = Cardinality(s) - 1
           /\ Cardinality(s) > 0
  <1>1. Pick(s) \in s
    BY DEF Pick
  <1>2. Cardinality(s) \in Nat /\ Cardinality(s) # 0
    BY FS_CardinalityType, FS_EmptySet
  <1> QED BY <1>1, <1>2, FS_RemoveElement

(* The recursive function exists.                                          *)
LEMMA RecursionExists ==
    ASSUME NEW f, NEW S, IsFiniteSet(S)
    PROVE  \E g : Recursive(f, S, g)
  <1> DEFINE Upto(n) == \E g : \A s \in SUBSET S : Cardinality(s) <= n => At(f, g, s)
             N == {n \in Nat : ~Upto(n)}
  <1>1. \A s \in SUBSET S : IsFiniteSet(s) /\ Cardinality(s) \in Nat
    BY FS_Subset, FS_CardinalityType
  <1>2. Upto(0)
    <2> DEFINE g == [s \in SUBSET S |-> 0]
    <2>1. \A s \in SUBSET S : Cardinality(s) <= 0 => s = {}
      BY <1>1, FS_EmptySet
    <2>2. \A s \in SUBSET S : Cardinality(s) <= 0 => At(f, g, s)
      BY <2>1 DEF At
    <2> QED BY <2>2
  <1>3. ASSUME NEW n \in Nat, Upto(n) PROVE Upto(n + 1)
    <2>1. PICK g : \A s \in SUBSET S : Cardinality(s) <= n => At(f, g, s)
      BY <1>3
    <2> DEFINE h == [s \in SUBSET S |->
                       IF s = {} THEN 0 ELSE f[Pick(s)] + g[s \ {Pick(s)}]]
    <2>2. ASSUME NEW s \in SUBSET S, Cardinality(s) <= n PROVE h[s] = g[s]
      BY <2>1, <2>2 DEF At
    <2>3. ASSUME NEW s \in SUBSET S, Cardinality(s) <= n + 1 PROVE At(f, h, s)
      <3>1. CASE s = {}
        BY <3>1 DEF At
      <3>2. CASE s # {}
        <4> DEFINE r == s \ {Pick(s)}
        <4>1. Cardinality(r) <= n
          BY <1>1, <2>3, <3>2, PickFacts
        <4>2. h[r] = g[r]
          BY <2>2, <4>1
        <4>3. h[s] = f[Pick(s)] + g[r]
          BY <3>2
        <4> QED BY <3>2, <4>2, <4>3 DEF At
      <3> QED BY <3>1, <3>2
    <2> HIDE DEF h
    <2> QED BY <2>3
  <1>4. \A n \in Nat : Upto(n)
    <2> HIDE DEF Upto
    <2>1. SUFFICES ASSUME N # {} PROVE FALSE
      OBVIOUS
    <2>2. PICK n \in N : \A m \in N : n <= m
      BY <2>1, LeastNat
    <2>3. n \in Nat /\ n # 0 /\ ~Upto(n)
      BY <1>2, <2>2
    <2>4. n - 1 \in Nat /\ n - 1 \notin N
      BY <2>2, <2>3
    <2>5. Upto(n - 1)
      BY <2>4
    <2>6. Upto((n - 1) + 1)
      BY <1>3, <2>4, <2>5
    <2>7. (n - 1) + 1 = n
      BY <2>3
    <2> QED BY <2>3, <2>6, <2>7
  <1>5. PICK g : \A s \in SUBSET S : Cardinality(s) <= Cardinality(S) => At(f, g, s)
    BY <1>1, <1>4
  <1>6. \A s \in SUBSET S : At(f, g, s)
    <2>1. \A s \in SUBSET S : Cardinality(s) <= Cardinality(S)
      BY FS_Subset
    <2> QED BY <1>5, <2>1
  <1> DEFINE h == [s \in SUBSET S |-> g[s]]
  <1>7. \A s \in SUBSET S :
           h[s] = IF s = {} THEN 0 ELSE f[Pick(s)] + h[s \ {Pick(s)}]
    BY <1>6 DEF At
  <1>8. h = [s \in SUBSET S |-> IF s = {} THEN 0 ELSE f[Pick(s)] + h[s \ {Pick(s)}]]
    BY <1>7
  <1> QED BY <1>8 DEF Recursive

(* Whatever set it is part of, the sum over s is built in the same way.    *)
LEMMA RecursionFacts ==
    ASSUME NEW f, NEW S, IsFiniteSet(S)
    PROVE  \A s \in SUBSET S : At(f, Recursion(f, S), s)
  <1>1. Recursive(f, S, Recursion(f, S))
    BY RecursionExists DEF Recursion
  <1> DEFINE g == Recursion(f, S)
  <1> HIDE DEF g
  <1>2. g = [s \in SUBSET S |->
               IF s = {} THEN 0 ELSE f[Pick(s)] + g[s \ {Pick(s)}]]
    BY <1>1 DEF g, Recursive
  <1>3. \A s \in SUBSET S : At(f, g, s)
    BY <1>2 DEF At
  <1> QED BY <1>3 DEF g

(* Two recursive functions agree where both are defined.                   *)
LEMMA RecursionUnique ==
    ASSUME NEW f, NEW S, IsFiniteSet(S), NEW T \in SUBSET S
    PROVE  Recursion(f, S)[T] = Recursion(f, T)[T]
  <1> DEFINE Differ == {s \in SUBSET T : Recursion(f, S)[s] # Recursion(f, T)[s]}
  <1>1. \A s \in SUBSET S : IsFiniteSet(s) /\ Cardinality(s) \in Nat
    BY FS_Subset, FS_CardinalityType
  <1>2. \A s \in SUBSET T : At(f, Recursion(f, S), s) /\ At(f, Recursion(f, T), s)
    BY <1>1, RecursionFacts
  <1>3. SUFFICES ASSUME Differ # {} PROVE FALSE
    OBVIOUS
  <1>5. PICK s \in Differ : \A r \in Differ : Cardinality(s) <= Cardinality(r)
    <2>1. Differ # {} /\ \A s \in Differ : Cardinality(s) \in Nat
      BY <1>1, <1>3
    <2> HIDE DEF Differ
    <2> QED BY <2>1, LeastSet
  <1>6. s # {}
    BY <1>2 DEF At
  <1> DEFINE r == s \ {Pick(s)}
  <1>7. ~(Cardinality(s) <= Cardinality(r))
    BY <1>1, <1>6, PickFacts
  <1>8. Recursion(f, S)[r] = Recursion(f, T)[r]
    BY <1>5, <1>7
  <1> QED BY <1>2, <1>5, <1>6, <1>8 DEF At

---------------------------------------------------------------------------
(* The sum over the empty set.                                             *)
LEMMA SumEmpty ==
    ASSUME NEW f
    PROVE  SumFunctionOnSet(f, {}) = 0
  <1>1. IsFiniteSet({})
    BY FS_EmptySet
  <1> QED BY <1>1, SumIsRecursion, RecursionFacts DEF At

(* The sum over any other set, one element taken out.                      *)
LEMMA SumPick ==
    ASSUME NEW f, NEW S, IsFiniteSet(S), S # {}
    PROVE  SumFunctionOnSet(f, S) =
               f[Pick(S)] + SumFunctionOnSet(f, S \ {Pick(S)})
  <1>1. At(f, Recursion(f, S), S)
    BY RecursionFacts
  <1>2. Recursion(f, S)[S \ {Pick(S)}] = Recursion(f, S \ {Pick(S)})[S \ {Pick(S)}]
    BY RecursionUnique
  <1> QED BY <1>1, <1>2, SumIsRecursion DEF At

(* A sum of integers is an integer, and any element may be taken first.    *)
LEMMA SumInt ==
    ASSUME NEW S, IsFiniteSet(S), NEW f, \A x \in S : f[x] \in Int
    PROVE  SumFunctionOnSet(f, S) \in Int
  <1> DEFINE Bad == {s \in SUBSET S : SumFunctionOnSet(f, s) \notin Int}
  <1>1. \A s \in SUBSET S : IsFiniteSet(s) /\ Cardinality(s) \in Nat
    BY FS_Subset, FS_CardinalityType
  <1>3. SUFFICES ASSUME Bad # {} PROVE FALSE
    OBVIOUS
  <1>5. PICK s \in Bad : \A r \in Bad : Cardinality(s) <= Cardinality(r)
    <2>1. Bad # {} /\ \A s \in Bad : Cardinality(s) \in Nat
      BY <1>1, <1>3
    <2> HIDE DEF Bad
    <2> QED BY <2>1, LeastSet
  <1>6. s # {}
    BY SumEmpty
  <1> DEFINE r == s \ {Pick(s)}
  <1>7. ~(Cardinality(s) <= Cardinality(r)) /\ Pick(s) \in s
    BY <1>1, <1>6, PickFacts
  <1>8. SumFunctionOnSet(f, r) \in Int
    BY <1>5, <1>7
  <1>9. SumFunctionOnSet(f, s) = f[Pick(s)] + SumFunctionOnSet(f, r)
    BY <1>1, <1>6, SumPick
  <1> QED BY <1>5, <1>7, <1>8, <1>9

(* The element taken out may be any.                                       *)
LEMMA SumRemove ==
    ASSUME NEW S, IsFiniteSet(S), NEW f, \A x \in S : f[x] \in Int, NEW e \in S
    PROVE  SumFunctionOnSet(f, S) = f[e] + SumFunctionOnSet(f, S \ {e})
  <1> DEFINE Odd(s) == \E x \in s :
                 SumFunctionOnSet(f, s) # f[x] + SumFunctionOnSet(f, s \ {x})
             Bad == {s \in SUBSET S : Odd(s)}
  <1>1. \A s \in SUBSET S : IsFiniteSet(s) /\ Cardinality(s) \in Nat
    BY FS_Subset, FS_CardinalityType
  <1>2. \A s \in SUBSET S : SumFunctionOnSet(f, s) \in Int
    BY <1>1, SumInt
  <1>3. SUFFICES ASSUME Bad # {} PROVE FALSE
    OBVIOUS
  <1>5. PICK s \in Bad : \A r \in Bad : Cardinality(s) <= Cardinality(r)
    <2>1. Bad # {} /\ \A s \in Bad : Cardinality(s) \in Nat
      BY <1>1, <1>3
    <2> HIDE DEF Bad
    <2> QED BY <2>1, LeastSet
  <1>6. PICK x \in s : SumFunctionOnSet(f, s) # f[x] + SumFunctionOnSet(f, s \ {x})
    BY <1>5
  <1> DEFINE p == Pick(s)
             r == s \ {p}
  <1>7. /\ p \in s /\ ~(Cardinality(s) <= Cardinality(r)) /\ r \notin Bad
    BY <1>1, <1>5, <1>6, PickFacts
  <1>8. SumFunctionOnSet(f, s) = f[p] + SumFunctionOnSet(f, r)
    BY <1>1, <1>6, SumPick
  <1>9. x # p
    BY <1>6, <1>8
  <1>10. SumFunctionOnSet(f, r) = f[x] + SumFunctionOnSet(f, r \ {x})
    BY <1>7, <1>9
  <1> DEFINE q == s \ {x}
  <1>11. q \notin Bad /\ q \in SUBSET S
    <2>1. s \in SUBSET S /\ IsFiniteSet(s) /\ Cardinality(s) \in Nat /\ x \in s
      BY <1>1, <1>5, <1>6
    <2>2. Cardinality(q) = Cardinality(s) - 1
      BY <2>1, FS_RemoveElement
    <2>3. ~(Cardinality(s) <= Cardinality(q))
      BY <2>1, <2>2
    <2> HIDE DEF q
    <2>4. q \notin Bad
      BY <1>5, <2>3
    <2> QED BY <2>1, <2>4 DEF q
  <1>12. SumFunctionOnSet(f, q) = f[p] + SumFunctionOnSet(f, q \ {p})
    BY <1>7, <1>9, <1>11
  <1>13. q \ {p} = r \ {x}
    OBVIOUS
  <1>14. /\ f[p] \in Int /\ f[x] \in Int /\ SumFunctionOnSet(f, r \ {x}) \in Int
    BY <1>2, <1>6, <1>7
  <1>15. SumFunctionOnSet(f, s) # f[x] + SumFunctionOnSet(f, q)
    BY <1>6
  <1> HIDE DEF q, r, p
  <1>16. SumFunctionOnSet(f, q) = f[p] + SumFunctionOnSet(f, r \ {x})
    BY <1>12, <1>13
  <1> QED BY <1>8, <1>10, <1>14, <1>15, <1>16

---------------------------------------------------------------------------
(* One element more.                                                       *)
LEMMA SumAdd ==
    ASSUME NEW S, IsFiniteSet(S), NEW f, NEW e, e \notin S,
           \A x \in S \cup {e} : f[x] \in Int
    PROVE  SumFunctionOnSet(f, S \cup {e}) = f[e] + SumFunctionOnSet(f, S)
  <1>1. IsFiniteSet(S \cup {e})
    BY FS_AddElement
  <1>2. (S \cup {e}) \ {e} = S
    OBVIOUS
  <1> QED BY <1>1, <1>2, SumRemove

(* A sum grows with its terms.                                             *)
LEMMA SumLeq ==
    ASSUME NEW S, IsFiniteSet(S), NEW f, NEW g,
           \A x \in S : f[x] \in Int /\ g[x] \in Int /\ f[x] <= g[x]
    PROVE  SumFunctionOnSet(f, S) <= SumFunctionOnSet(g, S)
  <1> DEFINE Bad == {s \in SUBSET S :
                        ~(SumFunctionOnSet(f, s) <= SumFunctionOnSet(g, s))}
  <1>1. \A s \in SUBSET S : IsFiniteSet(s) /\ Cardinality(s) \in Nat
    BY FS_Subset, FS_CardinalityType
  <1>2. \A s \in SUBSET S : SumFunctionOnSet(f, s) \in Int /\ SumFunctionOnSet(g, s) \in Int
    BY <1>1, SumInt
  <1>3. SUFFICES ASSUME Bad # {} PROVE FALSE
    OBVIOUS
  <1>5. PICK s \in Bad : \A r \in Bad : Cardinality(s) <= Cardinality(r)
    <2>1. Bad # {} /\ \A s \in Bad : Cardinality(s) \in Nat
      BY <1>1, <1>3
    <2> HIDE DEF Bad
    <2> QED BY <2>1, LeastSet
  <1>6. s # {}
    BY <1>2, SumEmpty
  <1> DEFINE p == Pick(s)
             r == s \ {p}
  <1>7. p \in s /\ ~(Cardinality(s) <= Cardinality(r)) /\ r \in SUBSET S /\ r \notin Bad
    BY <1>1, <1>5, <1>6, PickFacts
  <1>8. SumFunctionOnSet(f, s) = f[p] + SumFunctionOnSet(f, r)
    BY <1>1, <1>6, SumPick
  <1>9. SumFunctionOnSet(g, s) = g[p] + SumFunctionOnSet(g, r)
    BY <1>1, <1>6, SumPick
  <1>10. SumFunctionOnSet(f, r) <= SumFunctionOnSet(g, r)
    BY <1>7
  <1>11. ~(SumFunctionOnSet(f, s) <= SumFunctionOnSet(g, s))
    BY <1>5
  <1>12. f[p] \in Int /\ g[p] \in Int /\ f[p] <= g[p]
    BY <1>7
  <1>13. SumFunctionOnSet(f, r) \in Int /\ SumFunctionOnSet(g, r) \in Int
    BY <1>2, <1>7
  <1> HIDE DEF r, p
  <1> QED BY <1>8, <1>9, <1>10, <1>11, <1>12, <1>13

(* It depends on nothing but its terms.                                    *)
LEMMA SumSame ==
    ASSUME NEW S, IsFiniteSet(S), NEW f, NEW g,
           \A x \in S : f[x] \in Int /\ f[x] = g[x]
    PROVE  SumFunctionOnSet(f, S) = SumFunctionOnSet(g, S)
  <1>1. SumFunctionOnSet(f, S) \in Int /\ SumFunctionOnSet(g, S) \in Int
    BY SumInt
  <1>2. SumFunctionOnSet(f, S) <= SumFunctionOnSet(g, S)
    BY SumLeq
  <1>3. SumFunctionOnSet(g, S) <= SumFunctionOnSet(f, S)
    <2>1. \A x \in S : g[x] \in Int /\ f[x] \in Int /\ g[x] <= f[x]
      OBVIOUS
    <2> QED BY <2>1, SumLeq
  <1> QED BY <1>1, <1>2, <1>3

(* Where only one value changes, the sum changes by as much.               *)
LEMMA SumChange ==
    ASSUME NEW S, IsFiniteSet(S), NEW f, NEW g, \A x \in S : f[x] \in Int /\ g[x] \in Int,
           NEW e \in S, \A x \in S : x # e => f[x] = g[x]
    PROVE  SumFunctionOnSet(g, S) = SumFunctionOnSet(f, S) + (g[e] - f[e])
  <1> DEFINE R == S \ {e}
  <1>1. IsFiniteSet(R) /\ \A x \in R : f[x] \in Int /\ f[x] = g[x]
    BY FS_Subset
  <1>2. SumFunctionOnSet(f, R) = SumFunctionOnSet(g, R) /\ SumFunctionOnSet(f, R) \in Int
    <2> HIDE DEF R
    <2>1. SumFunctionOnSet(f, R) = SumFunctionOnSet(g, R)
      BY <1>1, SumSame
    <2>2. SumFunctionOnSet(f, R) \in Int
      BY <1>1, SumInt
    <2> QED BY <2>1, <2>2
  <1>3. /\ SumFunctionOnSet(f, S) = f[e] + SumFunctionOnSet(f, R)
        /\ SumFunctionOnSet(g, S) = g[e] + SumFunctionOnSet(g, R)
    BY SumRemove
  <1>4. f[e] \in Int /\ g[e] \in Int
    OBVIOUS
  <1> HIDE DEF R
  <1> QED BY <1>2, <1>3, <1>4

(* A sum of natural numbers is one, and does not shrink with more terms.   *)
LEMMA SumSubset ==
    ASSUME NEW S, IsFiniteSet(S), NEW T \in SUBSET S, NEW f, \A x \in S : f[x] \in Nat
    PROVE  /\ SumFunctionOnSet(f, T) \in Nat
           /\ SumFunctionOnSet(f, T) <= SumFunctionOnSet(f, S)
  <1>1. \A s \in SUBSET S : IsFiniteSet(s) /\ Cardinality(s) \in Nat
    BY FS_Subset, FS_CardinalityType
  <1>0. \A x \in S : f[x] \in Int
    OBVIOUS
  <1>2. \A s \in SUBSET S : SumFunctionOnSet(f, s) \in Int
    BY <1>0, <1>1, SumInt
  <1>3. ASSUME NEW s \in SUBSET S, NEW r \in SUBSET s
        PROVE  SumFunctionOnSet(f, r) <= SumFunctionOnSet(f, s)
    <2> DEFINE Bad == {t \in SUBSET s : /\ r \subseteq t
                          /\ ~(SumFunctionOnSet(f, r) <= SumFunctionOnSet(f, t))}
    <2>1. SUFFICES ASSUME Bad # {} PROVE FALSE
      BY <1>1
    <2>2. PICK t \in Bad : \A u \in Bad : Cardinality(t) <= Cardinality(u)
      <3>1. Bad # {} /\ \A t \in Bad : Cardinality(t) \in Nat
        BY <1>1, <2>1
      <3> HIDE DEF Bad
      <3> QED BY <3>1, LeastSet
    <2>3. /\ t \in SUBSET S /\ r \subseteq t
          /\ ~(SumFunctionOnSet(f, r) <= SumFunctionOnSet(f, t))
          /\ SumFunctionOnSet(f, r) \in Int /\ SumFunctionOnSet(f, t) \in Int
      BY <1>2, <2>2
    <2>4. PICK e \in t : e \notin r
      BY <2>3
    <2>5. /\ SumFunctionOnSet(f, t) = f[e] + SumFunctionOnSet(f, t \ {e})
          /\ SumFunctionOnSet(f, t \ {e}) \in Int /\ f[e] \in Nat
      <3>1. IsFiniteSet(t) /\ \A x \in t : f[x] \in Int
        BY <1>0, <1>1, <2>3
      <3>2. SumFunctionOnSet(f, t) = f[e] + SumFunctionOnSet(f, t \ {e})
        BY <3>1, SumRemove
      <3>3. t \ {e} \in SUBSET S /\ e \in S
        BY <2>3
      <3> QED BY <1>2, <3>2, <3>3
    <2>6. Cardinality(t \ {e}) = Cardinality(t) - 1 /\ Cardinality(t) \in Nat
      BY <1>1, <2>3, FS_RemoveElement
    <2>7. ~(Cardinality(t) <= Cardinality(t \ {e}))
      BY <2>6
    <2>8. t \ {e} \notin Bad
      BY <2>2, <2>7
    <2>9. t \ {e} \in SUBSET s /\ r \subseteq t \ {e}
      BY <2>2, <2>3, <2>4
    <2>10. SumFunctionOnSet(f, r) <= SumFunctionOnSet(f, t \ {e})
      BY <2>8, <2>9
    <2> QED BY <2>3, <2>5, <2>10
  <1>4. 0 <= SumFunctionOnSet(f, T)
    BY <1>3, SumEmpty
  <1> QED BY <1>2, <1>3, <1>4
=================================================================================
