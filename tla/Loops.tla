------------------------------- MODULE Loops -------------------------------
(***************************************************************************)
(* Facts about sums, loops over a finite set and loops over a sequence,    *)
(* for the proofs about the models that have them.                         *)
(***************************************************************************)
EXTENDS Integers, SequencesExt, FiniteSetsExt, Functions, Folds,
        FiniteSetTheorems, WellFoundedInduction, TLAPS

-----------------------------------------------------------------------------
(* Sums.  SumFunctionOnSet takes the elements in the order of CHOOSE; the  *)
(* lemmas that the other proofs cite say that the order does not matter.   *)
(* A claim about all finite sets is proved by its least counterexample.    *)

LEMMA NoLeast ==
    ASSUME NEW S \in SUBSET Nat, 0 \notin S, \A n \in Nat : n + 1 \in S => n \in S
    PROVE  S = {}
<1> DEFINE R == OpToRel(<, Nat)
<1>1. \A x, y \in Nat : <<y, x>> \in R <=> y < x
  BY DEF OpToRel
<1>2. IsWellFoundedOn(R, Nat)
  BY NatLessThanWellFounded
<1> HIDE DEF R
<1>3. SUFFICES ASSUME S # {} PROVE FALSE
  OBVIOUS
<1>4. PICK n \in S : \A m \in S : ~(<<m, n>> \in R)
  BY <1>2, <1>3, WFMin
<1>5. n \in Nat /\ n # 0 /\ n - 1 \in Nat /\ n - 1 + 1 = n
  BY <1>4
<1>6. n - 1 \in S
  BY <1>4, <1>5
<1>7. n - 1 < n
  BY <1>5
<1> QED BY <1>1, <1>4, <1>5, <1>6, <1>7

\* The recursive function behind a sum: the elements are taken in the order of CHOOSE.
Picked(s) == CHOOSE x \in s : TRUE
IsSum(g, S, f) ==
    g = [s \in SUBSET S |-> IF s = {} THEN 0 ELSE f[Picked(s)] + g[s \ {Picked(s)}]]

LEMMA SumIsLoop ==
    ASSUME NEW S, NEW f
    PROVE  SumFunctionOnSet(f, S) = (CHOOSE g : IsSum(g, S, f))[S]
BY DEF SumFunctionOnSet, FoldFunctionOnSet, MapThenFoldSet, IsSum, Picked

LEMMA FirstOut ==
    ASSUME NEW S, IsFiniteSet(S), NEW s \in SUBSET S, s # {}
    PROVE  /\ Picked(s) \in s /\ s \ {Picked(s)} \in SUBSET S
           /\ IsFiniteSet(s) /\ Cardinality(s) \in Nat
           /\ \A x \in s : Cardinality(s \ {x}) = Cardinality(s) - 1 /\ Cardinality(s) - 1 \in Nat
<1>1. Picked(s) \in s
  BY DEF Picked
<1>2. IsFiniteSet(s)
  BY FS_Subset
<1>3. Cardinality(s) \in Nat /\ Cardinality(s) # 0
  BY <1>2, FS_CardinalityType, FS_EmptySet
<1>4. \A x \in s : Cardinality(s \ {x}) = Cardinality(s) - 1
  BY <1>2, FS_RemoveElement
<1> QED BY <1>1, <1>2, <1>3, <1>4

LEMMA SumExists ==
    ASSUME NEW S, IsFiniteSet(S), NEW f
    PROVE  \E g : IsSum(g, S, f)
<1> DEFINE Small(n) == {s \in SUBSET S : Cardinality(s) <= n}
           Upto(g, n) == g = [s \in Small(n) |-> IF s = {} THEN 0 ELSE f[Picked(s)] + g[s \ {Picked(s)}]]
           Bad == {n \in Nat : ~ \E g : Upto(g, n)}
<1>1. \A s \in SUBSET S : Cardinality(s) \in Nat /\ (s = {} <=> Cardinality(s) = 0)
  BY FS_Subset, FS_CardinalityType, FS_EmptySet
<1>2. 0 \notin Bad
  <2>1. Small(0) = {{}}
    BY <1>1
  <2> DEFINE g == [s \in Small(0) |-> 0]
  <2>2. Upto(g, 0)
    BY <2>1
  <2> QED BY <2>2
<1>3. ASSUME NEW n \in Nat, n + 1 \in Bad PROVE n \in Bad
  <2>1. SUFFICES ASSUME NEW g, Upto(g, n) PROVE FALSE
    OBVIOUS
  <2> DEFINE h == [s \in Small(n + 1) |-> IF s = {} THEN 0 ELSE f[Picked(s)] + g[s \ {Picked(s)}]]
  <2>2. \A s \in Small(n + 1) : s # {} => s \ {Picked(s)} \in Small(n)
    BY FirstOut
  <2>3. \A s \in Small(n) : s \in Small(n + 1)
    BY <1>1
  <2>4. \A s \in Small(n) : g[s] = IF s = {} THEN 0 ELSE f[Picked(s)] + g[s \ {Picked(s)}]
    BY <2>1
  <2> HIDE DEF Small
  <2>5. \A s \in Small(n) : h[s] = g[s]
    BY <2>3, <2>4
  <2>6. \A s \in Small(n + 1) :
            h[s] = IF s = {} THEN 0 ELSE f[Picked(s)] + h[s \ {Picked(s)}]
    BY <2>2, <2>5
  <2>7. Upto(h, n + 1)
    BY <2>6
  <2> QED BY <1>3, <2>7
<1> HIDE DEF Upto
<1>4. Bad = {}
  BY <1>2, <1>3, NoLeast
<1>5. Cardinality(S) \in Nat
  BY FS_CardinalityType
<1>6. PICK g : Upto(g, Cardinality(S))
  BY <1>4, <1>5
<1>7. Small(Cardinality(S)) = SUBSET S
  BY FS_Subset
<1> HIDE DEF Small
<1> QED BY <1>6, <1>7 DEF Upto, IsSum

\* Sums over a set and over a part of it agree.
LEMMA SameSums ==
    ASSUME NEW S, IsFiniteSet(S), NEW T \in SUBSET S, NEW f, NEW h, \A x \in T : f[x] = h[x],
           NEW g, IsSum(g, S, f), NEW k, IsSum(k, T, h)
    PROVE  \A s \in SUBSET T : g[s] = k[s]
<1> DEFINE Bad == {n \in Nat : \E s \in SUBSET T : Cardinality(s) = n /\ g[s] # k[s]}
<1>1. \A s \in SUBSET T : Cardinality(s) \in Nat /\ (s = {} <=> Cardinality(s) = 0)
  BY FS_Subset, FS_CardinalityType, FS_EmptySet
<1>2. \A s \in SUBSET T :
        /\ g[s] = IF s = {} THEN 0 ELSE f[Picked(s)] + g[s \ {Picked(s)}]
        /\ k[s] = IF s = {} THEN 0 ELSE h[Picked(s)] + k[s \ {Picked(s)}]
  BY DEF IsSum
<1>3. 0 \notin Bad
  BY <1>1, <1>2
<1>4. ASSUME NEW n \in Nat, n + 1 \in Bad PROVE n \in Bad
  <2>1. PICK s \in SUBSET T : Cardinality(s) = n + 1 /\ g[s] # k[s]
    BY <1>4
  <2>2. s # {} /\ IsFiniteSet(T)
    BY <1>1, <2>1, FS_Subset
  <2>3. PICK x : x = Picked(s)
    OBVIOUS
  <2>4. x \in s /\ s \ {x} \in SUBSET T /\ Cardinality(s \ {x}) = Cardinality(s) - 1
    BY <2>2, <2>3, FirstOut
  <2>6. Cardinality(s \ {x}) = n
    BY <2>1, <2>4
  <2>5. g[s \ {x}] # k[s \ {x}]
    BY <1>2, <2>1, <2>2, <2>3, <2>4
  <2> QED BY <2>4, <2>5, <2>6
<1>5. Bad = {}
  BY <1>3, <1>4, NoLeast
<1> QED BY <1>1, <1>5

LEMMA SumInt ==
    ASSUME NEW S, IsFiniteSet(S), NEW f, \A x \in S : f[x] \in Int, NEW g, IsSum(g, S, f)
    PROVE  \A s \in SUBSET S : g[s] \in Int
<1> DEFINE Bad == {n \in Nat : \E s \in SUBSET S : Cardinality(s) = n /\ g[s] \notin Int}
<1>1. \A s \in SUBSET S : Cardinality(s) \in Nat /\ (s = {} <=> Cardinality(s) = 0)
  BY FS_Subset, FS_CardinalityType, FS_EmptySet
<1>2. \A s \in SUBSET S : g[s] = IF s = {} THEN 0 ELSE f[Picked(s)] + g[s \ {Picked(s)}]
  BY DEF IsSum
<1>3. 0 \notin Bad
  <2>1. g[{}] = 0
    BY <1>2
  <2> QED BY <1>1, <2>1
<1>4. ASSUME NEW n \in Nat, n + 1 \in Bad PROVE n \in Bad
  <2>1. PICK s \in SUBSET S : Cardinality(s) = n + 1 /\ g[s] \notin Int
    BY <1>4
  <2>2. s # {}
    BY <1>1, <2>1
  <2>3. PICK x : x = Picked(s)
    OBVIOUS
  <2>4. x \in s /\ s \ {x} \in SUBSET S /\ Cardinality(s \ {x}) = n
    BY <2>1, <2>2, <2>3, FirstOut
  <2>5. g[s] = f[x] + g[s \ {x}] /\ f[x] \in Int
    BY <1>2, <2>2, <2>3, <2>4
  <2>6. g[s \ {x}] \notin Int
    BY <2>1, <2>5
  <2> QED BY <2>4, <2>6
<1>5. Bad = {}
  BY <1>3, <1>4, NoLeast
<1> QED BY <1>1, <1>5

LEMMA SumTakesAny ==
    ASSUME NEW S, IsFiniteSet(S), NEW f, \A x \in S : f[x] \in Int, NEW g, IsSum(g, S, f)
    PROVE  \A s \in SUBSET S, q \in S : q \in s => g[s] = f[q] + g[s \ {q}]
<1> DEFINE Bad == {n \in Nat : \E s \in SUBSET S, q \in S : q \in s /\ Cardinality(s) = n /\ g[s] # f[q] + g[s \ {q}]}
<1>1. \A s \in SUBSET S : Cardinality(s) \in Nat /\ (s = {} <=> Cardinality(s) = 0)
  BY FS_Subset, FS_CardinalityType, FS_EmptySet
<1>2. \A s \in SUBSET S : g[s] \in Int /\ g[s] = IF s = {} THEN 0 ELSE f[Picked(s)] + g[s \ {Picked(s)}]
  BY SumInt DEF IsSum
<1>3. 0 \notin Bad
  BY <1>1
<1>4. ASSUME NEW n \in Nat, n + 1 \in Bad PROVE n \in Bad
  <2>1. PICK s \in SUBSET S, q \in S : q \in s /\ Cardinality(s) = n + 1 /\ g[s] # f[q] + g[s \ {q}]
    BY <1>4
  <2>2. PICK x : x = Picked(s)
    OBVIOUS
  <2>12. s # {}
    BY <2>1
  <2>13. /\ x \in s /\ s \ {x} \in SUBSET S
         /\ \A y \in s : Cardinality(s \ {y}) = Cardinality(s) - 1
    BY <2>2, <2>12, FirstOut
  <2>3. /\ x \in s /\ s \ {x} \in SUBSET S /\ Cardinality(s \ {x}) = n
        /\ s \ {q} \in SUBSET S /\ Cardinality(s \ {q}) = n
    BY <2>1, <2>13
  <2>4. g[s] = f[x] + g[s \ {x}]
    BY <1>2, <2>1, <2>2
  <2>5. x # q
    BY <2>1, <2>4
  <2>6. SUFFICES ASSUME n \notin Bad PROVE FALSE
    OBVIOUS
  <2>7. q \in s \ {x} /\ x \in s \ {q} /\ x \in S
    BY <2>1, <2>3, <2>5
  <2>8. g[s \ {x}] = f[q] + g[(s \ {x}) \ {q}]
    BY <2>3, <2>6, <2>7
  <2>9. g[s \ {q}] = f[x] + g[(s \ {q}) \ {x}]
    BY <2>3, <2>6, <2>7
  <2>10. (s \ {x}) \ {q} = (s \ {q}) \ {x}
    OBVIOUS
  <2>11. g[(s \ {x}) \ {q}] \in Int /\ f[x] \in Int /\ f[q] \in Int
    BY <1>2, <2>7
  <2>14. PICK r : r = g[(s \ {x}) \ {q}]
    OBVIOUS
  <2>15. g[s \ {x}] = f[q] + r /\ g[s \ {q}] = f[x] + r /\ r \in Int
    BY ONLY <2>8, <2>9, <2>10, <2>11, <2>14
  <2>16. g[s] = f[q] + g[s \ {q}]
    BY ONLY <2>4, <2>11, <2>15
  <2> QED BY <2>1, <2>16
<1>5. Bad = {}
  BY <1>3, <1>4, NoLeast
<1> QED BY <1>1, <1>5

\* What the proofs use of a sum.
LEMMA SumLoop ==
    ASSUME NEW S, IsFiniteSet(S), NEW f
    PROVE  \E g : IsSum(g, S, f) /\ g[S] = SumFunctionOnSet(f, S)
<1> DEFINE g == CHOOSE k : IsSum(k, S, f)
<1>1. IsSum(g, S, f)
  BY SumExists
<1> QED BY <1>1, SumIsLoop

LEMMA SumEmpty == ASSUME NEW f PROVE SumFunctionOnSet(f, {}) = 0
<1>1. IsFiniteSet({})
  BY FS_EmptySet
<1>2. PICK g : IsSum(g, {}, f) /\ g[{}] = SumFunctionOnSet(f, {})
  BY <1>1, SumLoop
<1> QED BY <1>2 DEF IsSum

LEMMA SumType ==
    ASSUME NEW S, IsFiniteSet(S), NEW f, \A x \in S : f[x] \in Int
    PROVE  SumFunctionOnSet(f, S) \in Int
<1>1. PICK g : IsSum(g, S, f) /\ g[S] = SumFunctionOnSet(f, S)
  BY SumLoop
<1> QED BY <1>1, SumInt

LEMMA SumSame ==
    ASSUME NEW S, IsFiniteSet(S), NEW f, NEW h, \A x \in S : f[x] = h[x]
    PROVE  SumFunctionOnSet(f, S) = SumFunctionOnSet(h, S)
<1>1. PICK g : IsSum(g, S, f) /\ g[S] = SumFunctionOnSet(f, S)
  BY SumLoop
<1>2. PICK k : IsSum(k, S, h) /\ k[S] = SumFunctionOnSet(h, S)
  BY SumLoop
<1> QED BY <1>1, <1>2, SameSums

LEMMA SumWithout ==
    ASSUME NEW S, IsFiniteSet(S), NEW f, \A x \in S : f[x] \in Int, NEW q \in S
    PROVE  SumFunctionOnSet(f, S) = f[q] + SumFunctionOnSet(f, S \ {q})
<1> DEFINE T == S \ {q}
<1>0. IsFiniteSet(T) /\ T \in SUBSET S
  BY FS_Subset
<1> HIDE DEF T
<1>1. PICK g : IsSum(g, S, f) /\ g[S] = SumFunctionOnSet(f, S)
  BY SumLoop
<1>2. PICK k : IsSum(k, T, f) /\ k[T] = SumFunctionOnSet(f, T)
  BY <1>0, SumLoop
<1>3. g[T] = k[T]
  BY <1>0, <1>1, <1>2, SameSums
<1>4. g[S] = f[q] + g[S \ {q}]
  BY <1>1, SumTakesAny
<1> QED BY <1>1, <1>2, <1>3, <1>4 DEF T

\* One part of a sum changes.
LEMMA SumChanged ==
    ASSUME NEW S, IsFiniteSet(S), NEW f, \A x \in S : f[x] \in Int, NEW h, NEW q \in S,
           h[q] \in Int, \A x \in S : x # q => h[x] = f[x]
    PROVE  SumFunctionOnSet(h, S) = SumFunctionOnSet(f, S) - f[q] + h[q]
<1>1. SumFunctionOnSet(f, S) = f[q] + SumFunctionOnSet(f, S \ {q})
  BY SumWithout
<1>2. SumFunctionOnSet(h, S) = h[q] + SumFunctionOnSet(h, S \ {q})
  <2>1. \A x \in S : h[x] \in Int
    OBVIOUS
  <2> QED BY <2>1, SumWithout
<1>3. IsFiniteSet(S \ {q}) /\ \A x \in S \ {q} : h[x] = f[x] /\ f[x] \in Int
  BY FS_Subset
<1>4. SumFunctionOnSet(h, S \ {q}) = SumFunctionOnSet(f, S \ {q})
  BY <1>3, SumSame
<1>5. SumFunctionOnSet(f, S \ {q}) \in Int
  BY <1>3, SumType
<1> QED BY <1>1, <1>2, <1>4, <1>5
-----------------------------------------------------------------------------
LEMMA SumNothing ==
    ASSUME NEW S, IsFiniteSet(S), NEW f, \A x \in S : f[x] = 0
    PROVE  SumFunctionOnSet(f, S) = 0
<1>1. PICK g : IsSum(g, S, f) /\ g[S] = SumFunctionOnSet(f, S)
  BY SumLoop
<1> DEFINE Bad == {n \in Nat : \E s \in SUBSET S : Cardinality(s) = n /\ g[s] # 0}
<1>2. \A s \in SUBSET S : Cardinality(s) \in Nat /\ (s = {} <=> Cardinality(s) = 0)
  BY FS_Subset, FS_CardinalityType, FS_EmptySet
<1>3. \A s \in SUBSET S : g[s] = IF s = {} THEN 0 ELSE f[Picked(s)] + g[s \ {Picked(s)}]
  BY <1>1 DEF IsSum
<1>4. 0 \notin Bad
  BY <1>2, <1>3
<1>5. ASSUME NEW n \in Nat, n + 1 \in Bad PROVE n \in Bad
  <2>1. PICK s \in SUBSET S : Cardinality(s) = n + 1 /\ g[s] # 0
    BY <1>5
  <2>2. s # {}
    BY <1>3, <2>1
  <2>3. /\ s \ {Picked(s)} \in SUBSET S /\ Picked(s) \in s
        /\ \A x \in s : Cardinality(s \ {x}) = Cardinality(s) - 1
    BY <2>2, FirstOut
  <2>4. Cardinality(s \ {Picked(s)}) = n
    BY <2>1, <2>3
  <2>5. g[s \ {Picked(s)}] # 0
    BY <1>3, <2>1, <2>2, <2>3
  <2> QED BY <2>3, <2>4, <2>5
<1>6. Bad = {}
  BY <1>4, <1>5, NoLeast
<1> QED BY <1>1, <1>2, <1>6

\* What holds of the empty set and of a set with one more, holds of a finite set.
LEMMA SetGrows ==
    ASSUME NEW S, IsFiniteSet(S), NEW Good, {} \in Good,
           \A s \in SUBSET S, x \in S : x \notin s /\ s \in Good => s \union {x} \in Good
    PROVE  S \in Good
<1> DEFINE Bad == {n \in Nat : \E s \in SUBSET S : Cardinality(s) = n /\ s \notin Good}
<1>1. \A s \in SUBSET S : Cardinality(s) \in Nat /\ (s = {} <=> Cardinality(s) = 0)
  BY FS_Subset, FS_CardinalityType, FS_EmptySet
<1>2. 0 \notin Bad
  BY <1>1
<1>3. ASSUME NEW n \in Nat, n + 1 \in Bad PROVE n \in Bad
  <2>1. PICK s \in SUBSET S : Cardinality(s) = n + 1 /\ s \notin Good
    BY <1>3
  <2>2. s # {}
    BY <2>1
  <2>3. PICK x : x = Picked(s)
    OBVIOUS
  <2>4. x \in s /\ s \ {x} \in SUBSET S /\ Cardinality(s \ {x}) = Cardinality(s) - 1
    BY <2>2, <2>3, FirstOut
  <2>5. Cardinality(s \ {x}) = n
    BY <2>1, <2>4
  <2>6. (s \ {x}) \union {x} = s /\ x \notin s \ {x} /\ x \in S
    BY <2>4
  <2>7. s \ {x} \notin Good
    BY <2>1, <2>4, <2>6
  <2> QED BY <2>4, <2>5, <2>7
<1>4. Bad = {}
  BY <1>2, <1>3, NoLeast
<1> QED BY <1>1, <1>4

LEMMA SumOneMore ==
    ASSUME NEW S, IsFiniteSet(S), NEW q, q \notin S, NEW f, \A x \in S \union {q} : f[x] \in Int
    PROVE  SumFunctionOnSet(f, S \union {q}) = SumFunctionOnSet(f, S) + f[q]
<1>1. IsFiniteSet(S \union {q}) /\ (S \union {q}) \ {q} = S /\ q \in S \union {q}
  BY FS_AddElement
<1>2. SumFunctionOnSet(f, S \union {q}) = f[q] + SumFunctionOnSet(f, (S \union {q}) \ {q})
  BY <1>1, SumWithout
<1>3. SumFunctionOnSet(f, S) \in Int /\ f[q] \in Int
  <2>1. \A x \in S : f[x] \in Int
    OBVIOUS
  <2> QED BY <2>1, SumType
<1>4. SumFunctionOnSet(f, S \union {q}) = f[q] + SumFunctionOnSet(f, S)
  BY <1>1, <1>2
<1> QED BY <1>3, <1>4

LEMMA SumApart ==
    ASSUME NEW S, IsFiniteSet(S), NEW T, IsFiniteSet(T), S \intersect T = {},
           NEW f, \A x \in S \union T : f[x] \in Int
    PROVE  SumFunctionOnSet(f, S \union T) = SumFunctionOnSet(f, S) + SumFunctionOnSet(f, T)
<1> DEFINE Good == {t \in SUBSET T :
            SumFunctionOnSet(f, S \union t) = SumFunctionOnSet(f, S) + SumFunctionOnSet(f, t)}
<1>1. {} \in Good
  <2>1. SumFunctionOnSet(f, {}) = 0 /\ S \union {} = S /\ SumFunctionOnSet(f, S) \in Int
    BY SumEmpty, SumType
  <2> QED BY <2>1
<1>2. ASSUME NEW t \in SUBSET T, NEW x \in T, x \notin t, t \in Good PROVE t \union {x} \in Good
  <2>1. IsFiniteSet(t)
    BY FS_Subset
  <2>2. IsFiniteSet(S \union t) /\ x \notin S \union t /\ (S \union t) \union {x} = S \union (t \union {x})
    BY <1>2, <2>1, FS_Union
  <2>3. SumFunctionOnSet(f, t \union {x}) = SumFunctionOnSet(f, t) + f[x]
    <3>1. \A y \in t \union {x} : f[y] \in Int
      OBVIOUS
    <3> QED BY <1>2, <2>1, <3>1, SumOneMore
  <2>4. SumFunctionOnSet(f, S \union (t \union {x})) = SumFunctionOnSet(f, S \union t) + f[x]
    <3>1. \A y \in (S \union t) \union {x} : f[y] \in Int
      OBVIOUS
    <3>2. SumFunctionOnSet(f, (S \union t) \union {x}) = SumFunctionOnSet(f, S \union t) + f[x]
      BY <2>2, <3>1, SumOneMore
    <3> QED BY <2>2, <3>2
  <2>5. SumFunctionOnSet(f, S) \in Int /\ SumFunctionOnSet(f, t) \in Int /\ f[x] \in Int
    BY <2>1, SumType
  <2>6. SumFunctionOnSet(f, S \union t) = SumFunctionOnSet(f, S) + SumFunctionOnSet(f, t)
    BY <1>2
  <2> QED BY <2>3, <2>4, <2>5, <2>6
<1> HIDE DEF Good
<1>3. T \in Good
  BY <1>1, <1>2, SetGrows
<1> QED BY <1>3 DEF Good

LEMMA SumNat ==
    ASSUME NEW S, IsFiniteSet(S), NEW f, \A x \in S : f[x] \in Nat
    PROVE  SumFunctionOnSet(f, S) \in Nat
<1> DEFINE Good == {t \in SUBSET S : SumFunctionOnSet(f, t) \in Nat}
<1>1. {} \in Good
  BY SumEmpty
<1>2. ASSUME NEW t \in SUBSET S, NEW x \in S, x \notin t, t \in Good PROVE t \union {x} \in Good
  <2>1. IsFiniteSet(t) /\ \A y \in t \union {x} : f[y] \in Int
    BY FS_Subset
  <2>2. SumFunctionOnSet(f, t \union {x}) = SumFunctionOnSet(f, t) + f[x]
    BY <1>2, <2>1, SumOneMore
  <2> QED BY <1>2, <2>2
<1> HIDE DEF Good
<1>3. S \in Good
  BY <1>1, <1>2, SetGrows
<1> QED BY <1>3 DEF Good

LEMMA SumPart ==
    ASSUME NEW T, IsFiniteSet(T), NEW S \in SUBSET T, NEW f, \A x \in T : f[x] \in Nat
    PROVE  SumFunctionOnSet(f, S) <= SumFunctionOnSet(f, T)
<1>1. IsFiniteSet(S) /\ IsFiniteSet(T \ S) /\ S \intersect (T \ S) = {} /\ S \union (T \ S) = T
  BY FS_Subset
<1>2. \A x \in S \union (T \ S) : f[x] \in Int
  OBVIOUS
<1>3. SumFunctionOnSet(f, S \union (T \ S)) = SumFunctionOnSet(f, S) + SumFunctionOnSet(f, T \ S)
  BY <1>1, <1>2, SumApart
<1>4. SumFunctionOnSet(f, S) \in Nat /\ SumFunctionOnSet(f, T \ S) \in Nat
  <2>1. (\A x \in S : f[x] \in Nat) /\ (\A x \in T \ S : f[x] \in Nat)
    OBVIOUS
  <2> QED BY <1>1, <2>1, SumNat
<1>5. SumFunctionOnSet(f, T) = SumFunctionOnSet(f, S) + SumFunctionOnSet(f, T \ S)
  BY <1>1, <1>3
<1> QED BY <1>4, <1>5

\* What holds of the parts in proportion, holds of the sums.
LEMMA SumShares ==
    ASSUME NEW S, IsFiniteSet(S), NEW f, NEW d, NEW a \in Nat, NEW w \in Nat,
           \A x \in S : f[x] \in Nat /\ d[x] \in Nat /\ a * f[x] <= w * d[x]
    PROVE  a * SumFunctionOnSet(f, S) <= w * SumFunctionOnSet(d, S)
<1> DEFINE Good == {t \in SUBSET S : a * SumFunctionOnSet(f, t) <= w * SumFunctionOnSet(d, t)}
<1>1. {} \in Good
  <2>1. SumFunctionOnSet(f, {}) = 0 /\ SumFunctionOnSet(d, {}) = 0
    BY SumEmpty
  <2>2. a * 0 = 0 /\ w * 0 = 0
    OBVIOUS
  <2> QED BY <2>1, <2>2
<1>2. ASSUME NEW t \in SUBSET S, NEW x \in S, x \notin t, t \in Good PROVE t \union {x} \in Good
  <2>1. IsFiniteSet(t) /\ (\A y \in t \union {x} : f[y] \in Int) /\ (\A y \in t \union {x} : d[y] \in Int)
    BY FS_Subset
  <2>2. SumFunctionOnSet(f, t \union {x}) = SumFunctionOnSet(f, t) + f[x]
    BY <1>2, <2>1, SumOneMore
  <2>3. SumFunctionOnSet(d, t \union {x}) = SumFunctionOnSet(d, t) + d[x]
    BY <1>2, <2>1, SumOneMore
  <2>4. SumFunctionOnSet(f, t) \in Nat /\ SumFunctionOnSet(d, t) \in Nat
    BY <2>1, SumNat
  <2>5. PICK p, q : p = SumFunctionOnSet(f, t) /\ q = SumFunctionOnSet(d, t)
    OBVIOUS
  <2>6. a * p <= w * q /\ a * f[x] <= w * d[x] /\ p \in Nat /\ q \in Nat /\ f[x] \in Nat /\ d[x] \in Nat
    BY <1>2, <2>4, <2>5
  <2>7. a * (p + f[x]) <= w * (q + d[x])
    <3>1. a * (p + f[x]) = a * p + a * f[x] /\ w * (q + d[x]) = w * q + w * d[x]
      BY <2>6
    <3>2. a * p \in Int /\ a * f[x] \in Int /\ w * q \in Int /\ w * d[x] \in Int
      BY <2>6
    <3> QED BY <2>6, <3>1, <3>2
  <2> QED BY <2>2, <2>3, <2>5, <2>7
<1> HIDE DEF Good
<1>3. S \in Good
  BY <1>1, <1>2, SetGrows
<1> QED BY <1>3 DEF Good

\* A loop over a finite set, one element at a time: g[s] is what it has come to after s.
IsFold(g, S, base, step) ==
    g = [s \in SUBSET S |-> IF s = {} THEN base ELSE step[<<Picked(s), g[s \ {Picked(s)}]>>]]

LEMMA FoldExists ==
    ASSUME NEW S, IsFiniteSet(S), NEW base, NEW step
    PROVE  \E g : IsFold(g, S, base, step)
<1> DEFINE Small(n) == {s \in SUBSET S : Cardinality(s) <= n}
           Upto(g, n) == g = [s \in Small(n) |-> IF s = {} THEN base ELSE step[<<Picked(s), g[s \ {Picked(s)}]>>]]
           Bad == {n \in Nat : ~ \E g : Upto(g, n)}
<1>1. \A s \in SUBSET S : Cardinality(s) \in Nat /\ (s = {} <=> Cardinality(s) = 0)
  BY FS_Subset, FS_CardinalityType, FS_EmptySet
<1>2. 0 \notin Bad
  <2>1. Small(0) = {{}}
    BY <1>1
  <2> DEFINE g == [s \in Small(0) |-> base]
  <2>2. Upto(g, 0)
    BY <2>1
  <2> QED BY <2>2
<1>3. ASSUME NEW n \in Nat, n + 1 \in Bad PROVE n \in Bad
  <2>1. SUFFICES ASSUME NEW g, Upto(g, n) PROVE FALSE
    OBVIOUS
  <2> DEFINE h == [s \in Small(n + 1) |-> IF s = {} THEN base ELSE step[<<Picked(s), g[s \ {Picked(s)}]>>]]
  <2>2. \A s \in Small(n + 1) : s # {} => s \ {Picked(s)} \in Small(n)
    BY FirstOut
  <2>3. \A s \in Small(n) : s \in Small(n + 1)
    BY <1>1
  <2>4. \A s \in Small(n) : g[s] = IF s = {} THEN base ELSE step[<<Picked(s), g[s \ {Picked(s)}]>>]
    BY <2>1
  <2> HIDE DEF Small
  <2>5. \A s \in Small(n) : h[s] = g[s]
    BY <2>3, <2>4
  <2>6. \A s \in Small(n + 1) :
            h[s] = IF s = {} THEN base ELSE step[<<Picked(s), h[s \ {Picked(s)}]>>]
    BY <2>2, <2>5
  <2>7. Upto(h, n + 1)
    BY <2>6
  <2> QED BY <1>3, <2>7
<1> HIDE DEF Upto
<1>4. Bad = {}
  BY <1>2, <1>3, NoLeast
<1>5. Cardinality(S) \in Nat
  BY FS_CardinalityType
<1>6. PICK g : Upto(g, Cardinality(S))
  BY <1>4, <1>5
<1>7. Small(Cardinality(S)) = SUBSET S
  BY FS_Subset
<1> HIDE DEF Small
<1> QED BY <1>6, <1>7 DEF Upto, IsFold

\* Two functions of sets that go on alike are alike.
LEMMA LoopsAgree ==
    ASSUME NEW S, IsFiniteSet(S), NEW g, NEW h, g[{}] = h[{}],
           \A s \in SUBSET S : s # {} /\ g[s \ {Picked(s)}] = h[s \ {Picked(s)}] => g[s] = h[s]
    PROVE  \A s \in SUBSET S : g[s] = h[s]
<1> DEFINE Bad == {n \in Nat : \E s \in SUBSET S : Cardinality(s) = n /\ g[s] # h[s]}
<1>1. \A s \in SUBSET S : Cardinality(s) \in Nat /\ (s = {} <=> Cardinality(s) = 0)
  BY FS_Subset, FS_CardinalityType, FS_EmptySet
<1>2. 0 \notin Bad
  BY <1>1
<1>3. ASSUME NEW n \in Nat, n + 1 \in Bad PROVE n \in Bad
  <2>1. PICK s \in SUBSET S : Cardinality(s) = n + 1 /\ g[s] # h[s]
    BY <1>3
  <2>2. s # {}
    BY <1>1, <2>1
  <2>3. /\ s \ {Picked(s)} \in SUBSET S /\ Picked(s) \in s
        /\ \A x \in s : Cardinality(s \ {x}) = Cardinality(s) - 1
    BY <2>2, FirstOut
  <2>4. Cardinality(s \ {Picked(s)}) = n
    BY <2>1, <2>3
  <2>5. g[s \ {Picked(s)}] # h[s \ {Picked(s)}]
    BY <2>1, <2>2
  <2> QED BY <2>3, <2>4, <2>5
<1>4. Bad = {}
  BY <1>2, <1>3, NoLeast
<1> QED BY <1>1, <1>4

\* What a loop comes to is in the set for what it has gone through.
LEMMA FoldRuns ==
    ASSUME NEW S, IsFiniteSet(S), NEW base, NEW step, NEW g, IsFold(g, S, base, step),
           NEW W, base \in W[{}],
           \A s \in SUBSET S : s # {} => \A v \in W[s \ {Picked(s)}] : step[<<Picked(s), v>>] \in W[s]
    PROVE  \A s \in SUBSET S : g[s] \in W[s]
<1> DEFINE Bad == {n \in Nat : \E s \in SUBSET S : Cardinality(s) = n /\ g[s] \notin W[s]}
<1>1. \A s \in SUBSET S : Cardinality(s) \in Nat /\ (s = {} <=> Cardinality(s) = 0)
  BY FS_Subset, FS_CardinalityType, FS_EmptySet
<1>2. \A s \in SUBSET S : g[s] = IF s = {} THEN base ELSE step[<<Picked(s), g[s \ {Picked(s)}]>>]
  BY DEF IsFold
<1>3. 0 \notin Bad
  <2>1. g[{}] \in W[{}]
    BY <1>2
  <2>2. ASSUME NEW s \in SUBSET S, Cardinality(s) = 0 PROVE g[s] \in W[s]
    <3>1. s = {}
      BY <1>1, <2>2
    <3> QED BY <2>1, <3>1
  <2> QED BY <2>2
<1>4. ASSUME NEW n \in Nat, n + 1 \in Bad PROVE n \in Bad
  <2>1. PICK s \in SUBSET S : Cardinality(s) = n + 1 /\ g[s] \notin W[s]
    BY <1>4
  <2>2. s # {}
    <3>1. Cardinality(s) # 0
      BY ONLY <2>1
    <3> QED BY <1>1, <3>1
  <2>3. /\ s \ {Picked(s)} \in SUBSET S /\ Picked(s) \in s
        /\ \A x \in s : Cardinality(s \ {x}) = Cardinality(s) - 1
    BY <2>2, FirstOut
  <2>4. Cardinality(s \ {Picked(s)}) = n
    <3>1. Cardinality(s \ {Picked(s)}) = Cardinality(s) - 1
      BY <2>3
    <3> QED BY ONLY <2>1, <3>1
  <2>5. g[s \ {Picked(s)}] \notin W[s \ {Picked(s)}]
    BY <1>2, <2>1, <2>2
  <2> QED BY <2>3, <2>4, <2>5
<1>5. Bad = {}
  BY <1>3, <1>4, NoLeast
<1> QED BY <1>1, <1>5
-----------------------------------------------------------------------------
(* Loops over a sequence: FoldLeft takes the last position of those left,  *)
(* so that g[1..i] is what the loop has come to after i of them.           *)

Latest(s) == CHOOSE x \in s : \A y \in s : x >= y

LEMMA LatestIs ==
    ASSUME NEW n \in Nat, NEW s \in SUBSET (1..n), s # {}
    PROVE  Latest(s) \in s /\ \A y \in s : Latest(s) >= y
<1> DEFINE Bad == {m \in Nat : \E t \in SUBSET (1..m) : t # {} /\ ~ \E x \in t : \A y \in t : x >= y}
<1>1. 0 \notin Bad
  <2>1. \A t \in SUBSET (1..0) : t = {}
    OBVIOUS
  <2> QED BY <2>1
<1>2. ASSUME NEW m \in Nat, m + 1 \in Bad PROVE m \in Bad
  <2>1. PICK t \in SUBSET (1..(m + 1)) : t # {} /\ ~ \E x \in t : \A y \in t : x >= y
    BY <1>2
  <2>2. m + 1 \notin t
    BY <2>1
  <2>3. t \in SUBSET (1..m)
    BY <2>2
  <2> QED BY <2>1, <2>3
<1>3. Bad = {}
  BY <1>1, <1>2, NoLeast
<1>4. \E x \in s : \A y \in s : x >= y
  BY <1>3
<1> QED BY <1>4 DEF Latest

LEMMA LatestOf ==
    ASSUME NEW n \in Nat, NEW i \in 1..n
    PROVE  Latest(1..i) = i /\ (1..i) \ {i} = 1..(i - 1) /\ 1..i # {} /\ 1..i \in SUBSET (1..n)
<1>1. i \in Nat /\ 1..i \in SUBSET (1..i) /\ 1..i # {} /\ i \in 1..i
  OBVIOUS
<1>2. Latest(1..i) \in 1..i /\ \A y \in 1..i : Latest(1..i) >= y
  BY <1>1, LatestIs
<1>3. Latest(1..i) = i
  BY <1>1, <1>2
<1> QED BY <1>3

LEMMA LatestOut ==
    ASSUME NEW n \in Nat, NEW s \in SUBSET (1..n), s # {}
    PROVE  /\ Latest(s) \in s /\ s \ {Latest(s)} \in SUBSET (1..n)
           /\ Cardinality(s) \in Nat /\ Cardinality(s \ {Latest(s)}) = Cardinality(s) - 1
<1>0. IsFiniteSet(1..n)
  <2>1. 1 \in Int /\ n \in Int
    OBVIOUS
  <2> QED BY <2>1, FS_Interval
<1>1. IsFiniteSet(s)
  BY <1>0, FS_Subset
<1> QED BY <1>1, LatestIs, FS_CardinalityType, FS_RemoveElement

LEMMA SmallFacts ==
    ASSUME NEW n \in Nat
    PROVE  /\ \A s \in SUBSET (1..n) : /\ Cardinality(s) \in Nat /\ (s = {} <=> Cardinality(s) = 0)
                                       /\ Cardinality(s) <= n
<1>1. IsFiniteSet(1..n) /\ Cardinality(1..n) = n
  BY FS_Interval
<1>2. ASSUME NEW s \in SUBSET (1..n) PROVE IsFiniteSet(s) /\ Cardinality(s) <= n
  <2>1. s \subseteq 1..n
    OBVIOUS
  <2> QED BY <1>1, <2>1, FS_Subset
<1> QED BY <1>2, FS_CardinalityType, FS_EmptySet

IsLeft(g, n, base, step) ==
    g = [s \in SUBSET (1..n) |-> IF s = {} THEN base ELSE step[<<g[s \ {Latest(s)}], Latest(s)>>]]

LEMMA LeftExists ==
    ASSUME NEW n \in Nat, NEW base, NEW step
    PROVE  \E g : IsLeft(g, n, base, step)
<1> DEFINE Small(m) == {s \in SUBSET (1..n) : Cardinality(s) <= m}
           Upto(g, m) == g = [s \in Small(m) |-> IF s = {} THEN base ELSE step[<<g[s \ {Latest(s)}], Latest(s)>>]]
           Bad == {m \in Nat : ~ \E g : Upto(g, m)}
<1>1. \A s \in SUBSET (1..n) : Cardinality(s) \in Nat /\ (s = {} <=> Cardinality(s) = 0)
  BY SmallFacts
<1>2. 0 \notin Bad
  <2>1. Small(0) = {{}}
    BY <1>1
  <2> DEFINE g == [s \in Small(0) |-> base]
  <2>2. Upto(g, 0)
    BY <2>1
  <2> QED BY <2>2
<1>3. ASSUME NEW m \in Nat, m + 1 \in Bad PROVE m \in Bad
  <2>1. SUFFICES ASSUME NEW g, Upto(g, m) PROVE FALSE
    OBVIOUS
  <2> DEFINE h == [s \in Small(m + 1) |-> IF s = {} THEN base ELSE step[<<g[s \ {Latest(s)}], Latest(s)>>]]
  <2>2. \A s \in Small(m + 1) : s # {} => s \ {Latest(s)} \in Small(m)
    BY LatestOut
  <2>3. \A s \in Small(m) : s \in Small(m + 1)
    BY <1>1
  <2>4. \A s \in Small(m) : g[s] = IF s = {} THEN base ELSE step[<<g[s \ {Latest(s)}], Latest(s)>>]
    BY <2>1
  <2> HIDE DEF Small
  <2>5. \A s \in Small(m) : h[s] = g[s]
    BY <2>3, <2>4
  <2>6. \A s \in Small(m + 1) :
            h[s] = IF s = {} THEN base ELSE step[<<h[s \ {Latest(s)}], Latest(s)>>]
    BY <2>2, <2>5
  <2>7. Upto(h, m + 1)
    BY <2>6
  <2> QED BY <1>3, <2>7
<1> HIDE DEF Upto
<1>4. Bad = {}
  BY <1>2, <1>3, NoLeast
<1>5. PICK g : Upto(g, n)
  BY <1>4
<1>6. Small(n) = SUBSET (1..n)
  BY SmallFacts
<1> HIDE DEF Small
<1> QED BY <1>5, <1>6 DEF Upto, IsLeft

\* Two functions that go on alike are alike.
GoOnAlike(g, h, n) ==
    /\ g[{}] = h[{}]
    /\ \A s \in SUBSET (1..n) :
            s # {} /\ g[s \ {Latest(s)}] = h[s \ {Latest(s)}] => g[s] = h[s]
AreAlike(g, h, n) == \A s \in SUBSET (1..n) : g[s] = h[s]

LEMMA LeftsAgree ==
    ASSUME NEW n \in Nat, NEW g, NEW h, GoOnAlike(g, h, n)
    PROVE  AreAlike(g, h, n)
<1> USE DEF GoOnAlike, AreAlike
<1> DEFINE Bad == {m \in Nat : \E s \in SUBSET (1..n) : Cardinality(s) = m /\ g[s] # h[s]}
<1>1. \A s \in SUBSET (1..n) : Cardinality(s) \in Nat /\ (s = {} <=> Cardinality(s) = 0)
  BY SmallFacts
<1>2. 0 \notin Bad
  BY <1>1
<1>3. ASSUME NEW m \in Nat, m + 1 \in Bad PROVE m \in Bad
  <2>1. PICK s \in SUBSET (1..n) : Cardinality(s) = m + 1 /\ g[s] # h[s]
    BY <1>3
  <2>2. s # {}
    BY <1>1, <2>1
  <2>3. s \ {Latest(s)} \in SUBSET (1..n) /\ Cardinality(s \ {Latest(s)}) = m
    BY <2>1, <2>2, LatestOut
  <2>4. g[s \ {Latest(s)}] # h[s \ {Latest(s)}]
    BY <2>1, <2>2
  <2> QED BY <2>3, <2>4
<1>4. Bad = {}
  BY <1>2, <1>3, NoLeast
<1> QED BY <1>1, <1>4

\* The loop as a function of the number of turns.
IsTurns(h, n, V, base, step) ==
    h \in [0..n -> V] /\ h[0] = base /\ \A i \in 1..n : h[i] = step[<<h[i - 1], i>>]

IsStep(step, n, V) == step \in [V \X (1..n) -> V]
HasTurns(g, n, V, base, step) ==
    /\ \A s \in SUBSET (1..n) : g[s] \in V
    /\ \E h : IsTurns(h, n, V, base, step) /\ h[n] = g[1..n]

LEMMA LeftTurns ==
    ASSUME NEW n \in Nat, NEW V, NEW base \in V, NEW step, IsStep(step, n, V),
           NEW g, IsLeft(g, n, base, step)
    PROVE  HasTurns(g, n, V, base, step)
<1>0. step \in [V \X (1..n) -> V]
  BY DEF IsStep
<1>1. \A s \in SUBSET (1..n) :
        g[s] = IF s = {} THEN base ELSE step[<<g[s \ {Latest(s)}], Latest(s)>>]
  BY DEF IsLeft
<1>2. \A s \in SUBSET (1..n) : g[s] \in V
  <2> DEFINE Bad == {m \in Nat : \E s \in SUBSET (1..n) : Cardinality(s) = m /\ g[s] \notin V}
  <2>1. \A s \in SUBSET (1..n) : Cardinality(s) \in Nat /\ (s = {} <=> Cardinality(s) = 0)
    BY SmallFacts
  <2>2. 0 \notin Bad
    <3>1. g[{}] \in V
      BY <1>1
    <3> QED BY <2>1, <3>1
  <2>3. ASSUME NEW m \in Nat, m + 1 \in Bad PROVE m \in Bad
    <3>1. PICK s \in SUBSET (1..n) : Cardinality(s) = m + 1 /\ g[s] \notin V
      BY <2>3
    <3>2. s # {}
      BY <2>1, <3>1
    <3>5. s \ {Latest(s)} \in SUBSET (1..n) /\ Cardinality(s \ {Latest(s)}) = Cardinality(s) - 1 /\ Latest(s) \in s
      BY <3>2, LatestOut
    <3>3. s \ {Latest(s)} \in SUBSET (1..n) /\ Cardinality(s \ {Latest(s)}) = m /\ Latest(s) \in 1..n
      <4>1. Cardinality(s \ {Latest(s)}) = m
        BY ONLY <2>3, <3>1, <3>5
      <4> QED BY <3>5, <4>1
    <3>4. g[s \ {Latest(s)}] \notin V
      BY <1>0, <1>1, <3>1, <3>2, <3>3
    <3> QED BY <3>3, <3>4
  <2>4. Bad = {}
    BY <2>2, <2>3, NoLeast
  <2> QED BY <2>1, <2>4
<1> DEFINE h == [i \in 0..n |-> g[1..i]]
<1>3. \A i \in 0..n : 1..i \in SUBSET (1..n)
  OBVIOUS
<1>4. h[0] = base
  <2>1. 1..0 = {} /\ 0 \in 0..n
    OBVIOUS
  <2>2. g[{}] = base
    BY <1>1
  <2> QED BY <2>1, <2>2
<1>5. ASSUME NEW i \in 1..n PROVE h[i] = step[<<h[i - 1], i>>]
  <2>1. i \in 0..n /\ i - 1 \in 0..n
    OBVIOUS
  <2>2. Latest(1..i) = i /\ (1..i) \ {i} = 1..(i - 1) /\ 1..i # {} /\ 1..i \in SUBSET (1..n)
    BY LatestOf
  <2>3. g[1..i] = step[<<g[1..(i - 1)], i>>]
    BY <1>1, <2>2
  <2> QED BY <2>1, <2>3
<1>6. h \in [0..n -> V]
  BY <1>2, <1>3
<1>7. h[n] = g[1..n]
  OBVIOUS
<1> HIDE DEF h
<1> QED BY <1>2, <1>4, <1>5, <1>6, <1>7 DEF IsTurns, HasTurns

\* The loop of n turns with a step that is a function has its function of turns.
LEMMA TurnsExist ==
    ASSUME NEW n \in Nat, NEW V, NEW base \in V, NEW step, IsStep(step, n, V)
    PROVE  \E h : IsTurns(h, n, V, base, step)
<1>1. PICK g : IsLeft(g, n, base, step)
  BY LeftExists
<1>2. HasTurns(g, n, V, base, step)
  BY <1>1, LeftTurns
<1> QED BY <1>2 DEF HasTurns

\* Two functions of turns that go on alike are alike.
GoAlong(g, h, n) == g[0] = h[0] /\ \A i \in 1..n : g[i - 1] = h[i - 1] => g[i] = h[i]

LEMMA TurnsAgree ==
    ASSUME NEW n \in Nat, NEW g, NEW h, GoAlong(g, h, n)
    PROVE  g[n] = h[n]
<1> USE DEF GoAlong
<1> DEFINE Bad == {m \in Nat : m <= n /\ g[m] # h[m]}
<1>1. 0 \notin Bad
  OBVIOUS
<1>2. ASSUME NEW m \in Nat, m + 1 \in Bad PROVE m \in Bad
  <2>1. m + 1 \in 1..n /\ (m + 1) - 1 = m /\ m <= n
    BY <1>2
  <2>2. g[m + 1] # h[m + 1]
    BY <1>2
  <2>3. g[(m + 1) - 1] # h[(m + 1) - 1]
    BY <2>1, <2>2
  <2> QED BY <2>1, <2>3
<1>3. Bad = {}
  BY <1>1, <1>2, NoLeast
<1> QED BY <1>3

=============================================================================
