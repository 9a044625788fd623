----------------------------- MODULE SumTheorems ------------------------------
(***************************************************************************)
(* What the sums of Functions add up to: SumFunctionOnSet is a fold, and a *)
(* fold picks its elements in an order nobody knows.  Each fact is proved  *)
(* by way of a smallest set for which it would fail.                       *)
(***************************************************************************)
EXTENDS Functions, FiniteSetTheorems, WellFoundedInduction, TLAPS

\* The element a fold takes from s, and what it does with the rest.
Picked(s) == CHOOSE x \in s : TRUE
Step(f, g, s) == IF s = {} THEN 0 ELSE f[Picked(s)] + g[s \ {Picked(s)}]

\* The sums over the subsets of I.
Sums(f, I) == CHOOSE g : g = [s \in SUBSET I |-> Step(f, g, s)]

LEMMA LeastNumber ==
  ASSUME NEW S \in SUBSET Nat, S # {}
  PROVE  \E u \in S : \A v \in S : u <= v
<1> DEFINE R == OpToRel(<, Nat)
<1>1. R = {ss \in Nat \X Nat : ss[1] < ss[2]}
  BY DEF OpToRel
<1>2. IsWellFoundedOn(R, Nat)
  BY NatLessThanWellFounded, Zenon
<1> HIDE DEF R
<1>3. PICK u \in S : \A v \in S : <<v, u>> \notin R
  BY <1>2, WFMin
<1>4. ASSUME NEW v \in S PROVE u <= v
  <2>1. u \in Nat /\ v \in Nat /\ <<v, u>> \notin R
    BY <1>3
  <2>2. ~(v < u)
    BY <1>1, <2>1
  <2>. QED  BY <2>1, <2>2
<1>. QED  BY <1>4

\* Among finite sets, one of those with the fewest elements.
LEMMA LeastSet ==
  ASSUME NEW C, C # {}, \A s \in C : IsFiniteSet(s)
  PROVE  \E s \in C : \A t \in C : Cardinality(s) <= Cardinality(t)
<1> DEFINE N == {Cardinality(s) : s \in C}
<1>1. N \in SUBSET Nat /\ N # {}
  BY FS_CardinalityType
<1>2. PICK n \in N : \A m \in N : n <= m
  BY <1>1, LeastNumber
<1>. QED  BY <1>2

------------------------------------------------------------------------------
(* The recursion has a solution.                                           *)

LEMMA PickedIn ==
  ASSUME NEW s, s # {}
  PROVE  Picked(s) \in s
BY DEF Picked

LEMMA Smaller ==
  ASSUME NEW s, IsFiniteSet(s), NEW x \in s
  PROVE  /\ IsFiniteSet(s \ {x}) /\ s \ {x} \subseteq s
         /\ Cardinality(s \ {x}) = Cardinality(s) - 1
         /\ Cardinality(s) \in Nat /\ Cardinality(s \ {x}) \in Nat
         /\ Cardinality(s \ {x}) < Cardinality(s)
<1>1. /\ IsFiniteSet(s \ {x})
      /\ Cardinality(s \ {x}) = Cardinality(s) - 1
  BY FS_RemoveElement
<1>2. Cardinality(s) \in Nat /\ Cardinality(s \ {x}) \in Nat
  BY <1>1, FS_CardinalityType
<1>. QED  BY <1>1, <1>2

LEMMA SumsExist ==
  ASSUME NEW f, NEW I, IsFiniteSet(I)
  PROVE  \E g : g = [s \in SUBSET I |-> Step(f, g, s)]
<1> DEFINE Up(n) == {s \in SUBSET I : Cardinality(s) <= n}
           Solved(n) == \E g : g = [s \in Up(n) |-> Step(f, g, s)]
           Unsolved == {n \in Nat : ~Solved(n)}
<1>1. \A s \in SUBSET I : IsFiniteSet(s) /\ Cardinality(s) \in Nat
                          /\ Cardinality(s) <= Cardinality(I)
  BY FS_Subset, FS_CardinalityType
<1>2. Solved(0)
  <2>1. Up(0) = {{}}
    BY <1>1, FS_EmptySet
  <2> DEFINE zero == [s \in {{}} |-> 0]
  <2>2. zero = [s \in Up(0) |-> Step(f, zero, s)]
    BY <2>1 DEF Step
  <2>. QED  BY <2>2
<1>3. ASSUME NEW n \in Nat, Solved(n) PROVE Solved(n + 1)
  <2>1. PICK g : g = [s \in Up(n) |-> Step(f, g, s)]
    BY <1>3
  <2> DEFINE h == [s \in Up(n + 1) |-> Step(f, g, s)]
  <2>2. ASSUME NEW s \in Up(n + 1) PROVE Step(f, g, s) = Step(f, h, s)
    <3>1. CASE s = {}
      BY <3>1 DEF Step
    <3>2. CASE s # {}
      <4> DEFINE t == s \ {Picked(s)}
      <4>1. Picked(s) \in s
        BY <3>2, PickedIn
      <4>2. /\ Cardinality(t) = Cardinality(s) - 1
            /\ Cardinality(s) \in Nat /\ t \in SUBSET I
        BY <1>1, <4>1, Smaller
      <4>3. t \in Up(n) /\ t \in Up(n + 1)
        BY <4>2
      <4>4. g[t] = Step(f, g, t) /\ h[t] = Step(f, g, t)
        <5> HIDE DEF t, Up
        <5>1. g[t] = Step(f, g, t)
          BY <2>1, <4>3
        <5>2. h[t] = Step(f, g, t)
          BY <4>3
        <5>. QED  BY <5>1, <5>2
      <4>. QED  BY <3>2, <4>4 DEF Step
    <3>. QED  BY <3>1, <3>2
  <2>3. h = [s \in Up(n + 1) |-> Step(f, h, s)]
    <3> HIDE DEF Up
    <3>. QED  BY <2>2
  <2> HIDE DEF h
  <2>. QED  BY <2>3
<1>4. Unsolved = {}
  <2>1. SUFFICES ASSUME Unsolved # {} PROVE FALSE
    OBVIOUS
  <2> HIDE DEF Solved
  <2>2. PICK n \in Unsolved : \A m \in Unsolved : n <= m
    BY <2>1, LeastNumber
  <2>3. n \in Nat /\ n # 0
    BY <1>2, <2>2
  <2>4. n - 1 \in Nat /\ n - 1 \notin Unsolved
    BY <2>2, <2>3
  <2>5. Solved(n - 1)
    BY <2>4
  <2>6. Solved((n - 1) + 1)
    BY <1>3, <2>4, <2>5
  <2>. QED  BY <2>2, <2>3, <2>6
<1>5. Cardinality(I) \in Nat
  BY FS_CardinalityType
<1>6. Solved(Cardinality(I))
  BY <1>4, <1>5
<1>7. Up(Cardinality(I)) = SUBSET I
  BY <1>1
<1>. QED  BY <1>6, <1>7

LEMMA SumsAre ==
  ASSUME NEW f, NEW I, IsFiniteSet(I)
  PROVE  \A s \in SUBSET I : Sums(f, I)[s] = Step(f, Sums(f, I), s)
<1> DEFINE g == Sums(f, I)
<1>1. \E h : h = [s \in SUBSET I |-> Step(f, h, s)]
  BY SumsExist
<1>2. g = [s \in SUBSET I |-> Step(f, g, s)]
  BY <1>1, Zenon DEF Sums
<1> HIDE DEF g
<1>3. \A s \in SUBSET I : g[s] = Step(f, g, s)
  BY <1>2
<1>. QED  BY <1>3 DEF g

LEMMA SumIs ==
  ASSUME NEW f, NEW I
  PROVE  SumFunctionOnSet(f, I) = Sums(f, I)[I]
BY Zenon DEF SumFunctionOnSet, FoldFunctionOnSet, MapThenFoldSet, Sums, Step, Picked

\* The sums over the subsets of J are the same whether J is part of a larger
\* set or not.
LEMMA SumsAgree ==
  ASSUME NEW f, NEW I, IsFiniteSet(I), NEW J \in SUBSET I
  PROVE  Sums(f, J)[J] = Sums(f, I)[J]
<1> DEFINE C == {s \in SUBSET J : Sums(f, J)[s] # Sums(f, I)[s]}
<1>1. IsFiniteSet(J) /\ \A s \in C : IsFiniteSet(s)
  BY FS_Subset
<1>2. SUFFICES ASSUME C # {} PROVE FALSE
  OBVIOUS
<1>3. PICK s \in C : \A t \in C : Cardinality(s) <= Cardinality(t)
  BY <1>1, <1>2, LeastSet
<1>4. s \in SUBSET J /\ s \in SUBSET I /\ IsFiniteSet(s)
  BY <1>1
<1>5. /\ Sums(f, J)[s] = Step(f, Sums(f, J), s)
      /\ Sums(f, I)[s] = Step(f, Sums(f, I), s)
  <2>1. \A r \in SUBSET J : Sums(f, J)[r] = Step(f, Sums(f, J), r)
    BY <1>1, SumsAre
  <2>2. \A r \in SUBSET I : Sums(f, I)[r] = Step(f, Sums(f, I), r)
    BY SumsAre
  <2>. QED  BY <1>4, <2>1, <2>2
<1>6. s # {}
  BY <1>5 DEF Step
<1> DEFINE t == s \ {Picked(s)}
<1>7. /\ t \in SUBSET J /\ Cardinality(t) < Cardinality(s)
      /\ Cardinality(s) \in Nat /\ Cardinality(t) \in Nat
  BY <1>4, <1>6, PickedIn, Smaller
<1>8. t \notin C
  BY <1>3, <1>7
<1>9. Sums(f, J)[t] = Sums(f, I)[t]
  BY <1>7, <1>8
<1>. QED  BY <1>5, <1>6, <1>9 DEF Step

------------------------------------------------------------------------------
(* Sums.                                                                   *)

\* The sum over no index is 0.
THEOREM SumEmpty ==
  ASSUME NEW f
  PROVE  SumFunctionOnSet(f, {}) = 0
<1>1. Sums(f, {})[{}] = Step(f, Sums(f, {}), {})
  BY SumsAre, FS_EmptySet
<1>. QED  BY <1>1, SumIs DEF Step

\* Over others it is the value at the one picked and the sum over the rest.
LEMMA SumUnfolds ==
  ASSUME NEW f, NEW I, IsFiniteSet(I), I # {}
  PROVE  SumFunctionOnSet(f, I) =
           f[Picked(I)] + SumFunctionOnSet(f, I \ {Picked(I)})
<1> DEFINE t == I \ {Picked(I)}
<1>1. Sums(f, I)[I] = f[Picked(I)] + Sums(f, I)[t]
  <2>1. Sums(f, I)[I] = Step(f, Sums(f, I), I)
    BY SumsAre
  <2>. QED  BY <2>1 DEF Step
<1>2. Sums(f, t)[t] = Sums(f, I)[t]
  BY SumsAgree
<1>3. SumFunctionOnSet(f, I) = Sums(f, I)[I] /\ SumFunctionOnSet(f, t) = Sums(f, t)[t]
  BY SumIs
<1>. QED  BY <1>1, <1>2, <1>3

\* Natural numbers add up to one.
THEOREM SumNatural ==
  ASSUME NEW f, NEW I, IsFiniteSet(I), \A x \in I : f[x] \in Nat
  PROVE  SumFunctionOnSet(f, I) \in Nat
<1> DEFINE C == {s \in SUBSET I : SumFunctionOnSet(f, s) \notin Nat}
<1>1. \A s \in C : IsFiniteSet(s)
  BY FS_Subset
<1>2. SUFFICES ASSUME C # {} PROVE FALSE
  OBVIOUS
<1>3. PICK s \in C : \A t \in C : Cardinality(s) <= Cardinality(t)
  BY <1>1, <1>2, LeastSet
<1>4. s \in SUBSET I /\ IsFiniteSet(s) /\ SumFunctionOnSet(f, s) \notin Nat
  BY <1>1
<1>5. s # {}
  <2>1. SumFunctionOnSet(f, {}) \in Nat
    BY SumEmpty
  <2>2. CASE s = {}
    BY <1>4, <2>1, <2>2, Zenon
  <2>. QED  BY <2>2
<1> DEFINE t == s \ {Picked(s)}
<1>6. Picked(s) \in s
  BY <1>5, PickedIn
<1>7. /\ t \in SUBSET I /\ Cardinality(t) < Cardinality(s)
      /\ Cardinality(s) \in Nat /\ Cardinality(t) \in Nat
  BY <1>4, <1>6, Smaller
<1>8. SumFunctionOnSet(f, t) \in Nat
  <2>1. t \notin C
    BY <1>3, <1>7
  <2>. QED  BY <1>7, <2>1
<1>9. SumFunctionOnSet(f, s) = f[Picked(s)] + SumFunctionOnSet(f, t)
  BY <1>4, <1>5, SumUnfolds
<1>. QED  BY <1>4, <1>6, <1>8, <1>9

\* Any index may be taken out first.
THEOREM SumRemove ==
  ASSUME NEW f, NEW I, IsFiniteSet(I), \A x \in I : f[x] \in Nat, NEW x \in I
  PROVE  SumFunctionOnSet(f, I) = f[x] + SumFunctionOnSet(f, I \ {x})
<1> DEFINE S(s) == SumFunctionOnSet(f, s)
           C == {s \in SUBSET I : \E y \in s : S(s) # f[y] + S(s \ {y})}
<1>1. \A s \in C : IsFiniteSet(s)
  BY FS_Subset
<1>2. SUFFICES ASSUME C # {} PROVE FALSE
  OBVIOUS
<1>3. PICK s \in C : \A t \in C : Cardinality(s) <= Cardinality(t)
  BY <1>1, <1>2, LeastSet
<1>4. s \in SUBSET I /\ IsFiniteSet(s)
  BY <1>1
<1>5. PICK y \in s : S(s) # f[y] + S(s \ {y})
  BY <1>3
<1>6. \A t \in SUBSET I : Cardinality(t) < Cardinality(s) =>
        \A z \in t : S(t) = f[z] + S(t \ {z})
  <2> SUFFICES ASSUME NEW t \in SUBSET I, Cardinality(t) < Cardinality(s)
               PROVE  \A z \in t : S(t) = f[z] + S(t \ {z})
    OBVIOUS
  <2>1. Cardinality(t) \in Nat /\ Cardinality(s) \in Nat
    BY <1>4, FS_Subset, FS_CardinalityType
  <2>2. t \notin C
    BY <1>3, <2>1
  <2>. QED  BY <2>2
<1> DEFINE p == Picked(s)
<1>7. p \in s /\ S(s) = f[p] + S(s \ {p})
  BY <1>4, <1>5, PickedIn, SumUnfolds
<1>8. p # y
  BY <1>5, <1>7
<1>9. S(s \ {p}) = f[y] + S((s \ {p}) \ {y})
  <2>1. s \ {p} \in SUBSET I /\ Cardinality(s \ {p}) < Cardinality(s)
    BY <1>4, <1>7, Smaller
  <2>. QED  BY <1>5, <1>6, <1>8, <2>1
<1>10. S(s \ {y}) = f[p] + S((s \ {y}) \ {p})
  <2>1. s \ {y} \in SUBSET I /\ Cardinality(s \ {y}) < Cardinality(s)
    BY <1>4, <1>5, Smaller
  <2>. QED  BY <1>6, <1>7, <1>8, <2>1
<1>11. (s \ {y}) \ {p} = (s \ {p}) \ {y}
  OBVIOUS
<1>12. f[p] \in Nat /\ f[y] \in Nat /\ S((s \ {p}) \ {y}) \in Nat
  <2>1. IsFiniteSet((s \ {p}) \ {y}) /\ (s \ {p}) \ {y} \in SUBSET I
    BY <1>4, FS_Subset
  <2>2. S((s \ {p}) \ {y}) \in Nat
    BY <2>1, SumNatural
  <2>. QED  BY <1>4, <1>5, <1>7, <2>2
<1> DEFINE u == S((s \ {p}) \ {y})
<1>13. S(s) = f[p] + (f[y] + u) /\ S(s \ {y}) = f[p] + u
  BY <1>7, <1>9, <1>10, <1>11
<1> HIDE DEF u, p, S
<1>. QED  BY <1>5, <1>12, <1>13 DEF u

\* An index may be added.
LEMMA SumAdd ==
  ASSUME NEW f, NEW I, IsFiniteSet(I), NEW x, x \notin I,
         \A y \in I \union {x} : f[y] \in Nat
  PROVE  SumFunctionOnSet(f, I \union {x}) = f[x] + SumFunctionOnSet(f, I)
<1> DEFINE J == I \union {x}
<1>1. IsFiniteSet(J) /\ x \in J /\ J \ {x} = I
  BY FS_AddElement
<1>2. \A y \in J : f[y] \in Nat
  OBVIOUS
<1> HIDE DEF J
<1>3. SumFunctionOnSet(f, J) = f[x] + SumFunctionOnSet(f, J \ {x})
  BY <1>1, <1>2, SumRemove
<1>. QED  BY <1>1, <1>3 DEF J

\* The sum over two disjoint sets is that of their sums.
THEOREM SumUnion ==
  ASSUME NEW f, NEW I, NEW J, IsFiniteSet(I), IsFiniteSet(J),
         I \intersect J = {}, \A x \in I \union J : f[x] \in Nat
  PROVE  SumFunctionOnSet(f, I \union J) =
           SumFunctionOnSet(f, I) + SumFunctionOnSet(f, J)
<1> DEFINE S(s) == SumFunctionOnSet(f, s)
           C == {s \in SUBSET J : S(I \union s) # S(I) + S(s)}
<1>1. \A s \in SUBSET J : IsFiniteSet(s) /\ IsFiniteSet(I \union s)
  BY FS_Subset, FS_Union
<1>2. SUFFICES ASSUME C # {} PROVE FALSE
  OBVIOUS
<1>3. PICK s \in C : \A t \in C : Cardinality(s) <= Cardinality(t)
  BY <1>1, <1>2, LeastSet
<1>4. s \in SUBSET J /\ IsFiniteSet(s) /\ S(I \union s) # S(I) + S(s)
  BY <1>1, <1>3
<1>5. S(I) \in Nat
  BY SumNatural
<1>6. s # {}
  <2>1. S({}) = 0 /\ S(I \union {}) = S(I)
    BY SumEmpty
  <2>2. S(I \union {}) = S(I) + S({})
    <3> HIDE DEF S
    <3>. QED  BY <1>5, <2>1
  <2>3. CASE s = {}
    <3>1. S(I \union s) = S(I) + S(s)
      BY <2>2, <2>3, Zenon
    <3>. QED  BY <1>4, <3>1
  <2>. QED  BY <2>3
<1> DEFINE x == Picked(s)
           t == s \ {x}
<1>7. x \in s
  BY <1>6, PickedIn
<1>8. /\ t \in SUBSET J /\ Cardinality(t) < Cardinality(s)
      /\ Cardinality(s) \in Nat /\ Cardinality(t) \in Nat /\ IsFiniteSet(t)
  BY <1>4, <1>7, Smaller
<1>9. S(I \union t) = S(I) + S(t)
  <2>1. t \notin C
    BY <1>3, <1>8
  <2>. QED  BY <1>8, <2>1
<1>10. S(s) = f[x] + S(t)
  BY <1>4, <1>7, SumRemove
<1>11. S(I \union s) = f[x] + S(I \union t)
  <2>1. I \union s = (I \union t) \union {x} /\ x \notin I \union t
    BY <1>4, <1>7
  <2>2. \A y \in (I \union t) \union {x} : f[y] \in Nat
    BY <1>4, <1>7
  <2>3. IsFiniteSet(I \union t)
    BY <1>1, <1>8
  <2> HIDE DEF t, x
  <2>4. S((I \union t) \union {x}) = f[x] + S(I \union t)
    BY <2>1, <2>2, <2>3, SumAdd
  <2>. QED  BY <2>1, <2>4
<1>12. f[x] \in Nat /\ S(t) \in Nat
  BY <1>4, <1>7, <1>8, SumNatural
<1> HIDE DEF S, t, x
<1>. QED  BY <1>4, <1>5, <1>9, <1>10, <1>11, <1>12

\* More indices do not make it less.
THEOREM SumMonotone ==
  ASSUME NEW f, NEW J, IsFiniteSet(J), NEW I \in SUBSET J, \A x \in J : f[x] \in Nat
  PROVE  /\ SumFunctionOnSet(f, I) \in Nat /\ SumFunctionOnSet(f, J) \in Nat
         /\ SumFunctionOnSet(f, I) <= SumFunctionOnSet(f, J)
<1>1. IsFiniteSet(I) /\ IsFiniteSet(J \ I) /\ J = I \union (J \ I)
  BY FS_Subset
<1> DEFINE S(s) == SumFunctionOnSet(f, s)
<1>2. S(I) \in Nat /\ S(J) \in Nat /\ S(J \ I) \in Nat
  BY <1>1, SumNatural
<1>3. S(I \union (J \ I)) = S(I) + S(J \ I)
  BY <1>1, SumUnion
<1>4. S(J) = S(I) + S(J \ I)
  BY <1>1, <1>3, Zenon
<1> HIDE DEF S
<1>5. S(I) \in Nat /\ S(J) \in Nat /\ S(I) <= S(J)
  BY <1>2, <1>4
<1>. QED  BY <1>5 DEF S

\* Grouped by at, the values of f add up to what the groups add up to.
THEOREM SumGrouped ==
  ASSUME NEW f, NEW I, IsFiniteSet(I), \A x \in I : f[x] \in Nat,
         NEW R, IsFiniteSet(R), NEW at, \A x \in I : at[x] \in R,
         NEW h, \A r \in R : h[r] = SumFunctionOnSet(f, {x \in I : at[x] = r})
  PROVE  SumFunctionOnSet(h, R) = SumFunctionOnSet(f, I)
<1> DEFINE Of(s) == {x \in I : at[x] \in s}
           At(r) == {x \in I : at[x] = r}
           F(s) == SumFunctionOnSet(f, s)
           H(s) == SumFunctionOnSet(h, s)
           C == {s \in SUBSET R : H(s) # F(Of(s))}
<1>1. \A s \in SUBSET R : IsFiniteSet(s)
  BY FS_Subset
<1>2. \A s : IsFiniteSet(Of(s)) /\ IsFiniteSet(At(s)) /\ F(Of(s)) \in Nat /\ F(At(s)) \in Nat
  <2> SUFFICES ASSUME NEW J \in SUBSET I
               PROVE  IsFiniteSet(J) /\ F(J) \in Nat
    OBVIOUS
  <2>1. IsFiniteSet(J)
    BY FS_Subset
  <2>. QED  BY <2>1, SumNatural
<1>3. \A r \in R : h[r] = F(At(r)) /\ h[r] \in Nat
  BY <1>2
<1>4. H(R) = F(Of(R))
  <2>1. SUFFICES ASSUME C # {} PROVE FALSE
    OBVIOUS
  <2>2. PICK s \in C : \A t \in C : Cardinality(s) <= Cardinality(t)
    BY <1>1, <2>1, LeastSet
  <2>3. s \in SUBSET R /\ IsFiniteSet(s) /\ H(s) # F(Of(s))
    BY <1>1, <2>2
  <2>4. s # {}
    <3>1. H({}) = 0 /\ F({}) = 0 /\ Of({}) = {}
      BY SumEmpty
    <3>2. H({}) = F(Of({}))
      BY <3>1, Zenon
    <3>3. CASE s = {}
      BY <2>3, <3>2, <3>3, Zenon
    <3>. QED  BY <3>3
  <2> DEFINE r == Picked(s)
             t == s \ {r}
  <2>5. r \in s /\ r \in R
    BY <2>3, <2>4, PickedIn
  <2>6. /\ t \in SUBSET R /\ Cardinality(t) < Cardinality(s)
        /\ Cardinality(s) \in Nat /\ Cardinality(t) \in Nat /\ IsFiniteSet(t)
    BY <2>3, <2>5, Smaller
  <2>7. H(t) = F(Of(t))
    <3>1. t \notin C
      BY <2>2, <2>6
    <3>. QED  BY <2>6, <3>1
  <2>8. H(s) = h[r] + H(t)
    <3>1. \A q \in s : h[q] \in Nat
      BY <1>3, <2>3
    <3> HIDE DEF r
    <3>. QED  BY <2>3, <2>5, <3>1, SumRemove
  <2>9. F(Of(s)) = F(Of(t)) + F(At(r))
    <3>1. Of(s) = Of(t) \union At(r) /\ Of(t) \intersect At(r) = {}
      BY <2>5
    <3>2. \A x \in Of(t) \union At(r) : f[x] \in Nat
      OBVIOUS
    <3>3. IsFiniteSet(Of(t)) /\ IsFiniteSet(At(r))
      BY <1>2
    <3> HIDE DEF Of, At, t, r
    <3>4. F(Of(t) \union At(r)) = F(Of(t)) + F(At(r))
      BY <3>1, <3>2, <3>3, SumUnion
    <3>. QED  BY <3>1, <3>4
  <2>10. h[r] = F(At(r)) /\ h[r] \in Nat /\ F(Of(t)) \in Nat
    BY <1>2, <1>3, <2>5
  <2> HIDE DEF H, F, Of, At, r, t, C
  <2>. QED  BY <2>3, <2>7, <2>8, <2>9, <2>10
<1>5. Of(R) = I
  OBVIOUS
<1>. QED  BY <1>4, <1>5
==============================================================================
