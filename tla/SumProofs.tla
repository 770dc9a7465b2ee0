------------------------------ MODULE SumProofs ------------------------------
(***************************************************************************)
(* Facts about the sum of a function over a finite domain.  The community  *)
(* modules define it by a fold with operators as parameters, so what a     *)
(* fold computes is first put into first-order terms (IsSum).              *)
(***************************************************************************)
EXTENDS FiniteSetsExt, Functions, Integers, FiniteSetTheorems, WellFoundedInduction, TLAPS

\* A nonempty set of naturals has a least element: induction, with the set of
\* counterexamples for T.
LEMMA NatHasLeast ==
  ASSUME NEW T \in SUBSET Nat, T # {}
  PROVE  \E x \in T : \A y \in T : x <= y
<1> DEFINE R == {ss \in Nat \X Nat : ss[1] < ss[2]}
<1>1. IsWellFoundedOn(R, Nat)
  BY NatLessThanWellFounded DEF OpToRel
<1>2. \E x \in T : \A y \in T : ~ (<<y, x>> \in R)
  <2> HIDE DEF R
  <2> QED BY <1>1, WFMin
<1>3. PICK x \in T : \A y \in T : ~ (<<y, x>> \in R)
  BY <1>2
<1>4. \A y \in T : ~(y < x)
  BY <1>3
<1>. QED BY <1>4

\* The greatest of a nonempty set of positions.
LEMMA MaxIsIn ==
  ASSUME NEW n \in Nat, NEW S \in SUBSET (1 .. n), S # {}
  PROVE  Max(S) \in S /\ \A y \in S : Max(S) >= y
<1> DEFINE T == {n - x : x \in S}
<1>1. T \in SUBSET Nat /\ T # {}
  <2>1. \A x \in S : n - x \in Nat
    OBVIOUS
  <2>. QED BY <2>1
<1>2. PICK t \in T : \A y \in T : t <= y
  <2> HIDE DEF T
  <2>. QED BY <1>1, NatHasLeast
<1>3. PICK x \in S : t = n - x
  BY <1>2
<1>4. \A y \in S : x >= y
  <2> SUFFICES ASSUME NEW y \in S PROVE x >= y
    OBVIOUS
  <2>1. n - y \in T
    OBVIOUS
  <2>2. n - x <= n - y
    <3> HIDE DEF T
    <3>. QED BY <1>2, <1>3, <2>1
  <2>. QED BY <2>2
<1>. QED BY <1>4 DEF Max

(***************************************************************************)
(* The sums of f over all subsets of S.                                    *)
(***************************************************************************)
Chosen(s) == CHOOSE x \in s : TRUE
SumStep(g, f, s) == IF s = {} THEN 0 ELSE f[Chosen(s)] + g[s \ {Chosen(s)}]
IsSum(g, f, S) == g = [s \in SUBSET S |-> SumStep(g, f, s)]

LEMMA ChosenIsIn ==
  ASSUME NEW s, s # {}
  PROVE  Chosen(s) \in s
BY DEF Chosen

\* A finite set loses one element at a time.
LEMMA OneLess ==
  ASSUME NEW s, IsFiniteSet(s), NEW x \in s
  PROVE  /\ IsFiniteSet(s \ {x})
         /\ Cardinality(s) \in Nat /\ Cardinality(s \ {x}) \in Nat
         /\ Cardinality(s \ {x}) = Cardinality(s) - 1
BY FS_RemoveElement, FS_CardinalityType

Small(S, k) == {s \in SUBSET S : Cardinality(s) <= k}

LEMMA SmallSumsExist ==
  ASSUME NEW f, NEW S, IsFiniteSet(S), NEW k \in Nat
  PROVE  \E g : g = [s \in Small(S, k) |-> SumStep(g, f, s)]
<1> DEFINE Good(n) == \E g : g = [s \in Small(S, n) |-> SumStep(g, f, s)]
           T == {n \in Nat : ~Good(n)}
<1> SUFFICES ASSUME T # {} PROVE FALSE
  OBVIOUS
<1>1. PICK n \in T : \A y \in T : n <= y
  <2>1. T \in SUBSET Nat  OBVIOUS
  <2> HIDE DEF T
  <2> QED BY <2>1, NatHasLeast
<1>2. \A s \in SUBSET S : IsFiniteSet(s) /\ Cardinality(s) \in Nat
  BY FS_Subset, FS_CardinalityType
<1>3. n # 0
  <2> SUFFICES ASSUME n = 0 PROVE Good(0)
    BY <1>1
  <2>1. \A s \in Small(S, 0) : s = {}
    BY <1>2, FS_EmptySet DEF Small
  <2>2. \A g : \A s \in Small(S, 0) : SumStep(g, f, s) = 0
    BY <2>1 DEF SumStep
  <2> WITNESS [s \in Small(S, 0) |-> 0]
  <2>. QED BY <2>2
<1>4. PICK g : g = [s \in Small(S, n - 1) |-> SumStep(g, f, s)]
  <2>1. n - 1 \in Nat /\ n - 1 \notin T
    BY <1>1, <1>3
  <2>. QED BY <2>1
<1> DEFINE h == [s \in Small(S, n) |-> SumStep(g, f, s)]
<1>5. \A t \in Small(S, n - 1) : t \in Small(S, n) /\ h[t] = g[t]
  <2>1. \A t \in Small(S, n - 1) : t \in Small(S, n)
    BY <1>1, <1>2 DEF Small
  <2>. QED BY <1>4, <2>1
<1>6. ASSUME NEW s \in Small(S, n)
      PROVE  SumStep(g, f, s) = SumStep(h, f, s)
  <2>1. CASE s = {}
    BY <2>1 DEF SumStep
  <2>2. CASE s # {}
    <3>1. Chosen(s) \in s
      BY <2>2, ChosenIsIn
    <3>2. s \ {Chosen(s)} \in Small(S, n - 1)
      BY <1>1, <1>2, <3>1, OneLess DEF Small
    <3>. QED BY <1>5, <2>2, <3>2 DEF SumStep
  <2>. QED BY <2>1, <2>2
<1>7. h = [s \in Small(S, n) |-> SumStep(h, f, s)]
  BY <1>6
<1>8. Good(n)
  <2> HIDE DEF h
  <2>. QED BY <1>7
<1>. QED BY <1>1, <1>8

LEMMA SumExists ==
  ASSUME NEW f, NEW S, IsFiniteSet(S)
  PROVE  \E g : IsSum(g, f, S)
<1> DEFINE k == Cardinality(S)
<1>1. k \in Nat
  BY FS_CardinalityType
<1>2. Small(S, k) = SUBSET S
  <2>1. \A s \in SUBSET S : Cardinality(s) <= k
    BY FS_Subset
  <2>. QED BY <2>1 DEF Small
<1> HIDE DEF k
<1>3. PICK g : g = [s \in Small(S, k) |-> SumStep(g, f, s)]
  BY <1>1, SmallSumsExist
<1>. QED BY <1>2, <1>3 DEF IsSum

LEMMA SumReads ==
  ASSUME NEW f, IsFiniteSet(DOMAIN f)
  PROVE  \E g : IsSum(g, f, DOMAIN f) /\ SumFunction(f) = g[DOMAIN f]
<1> DEFINE m == CHOOSE g : IsSum(g, f, DOMAIN f)
<1>1. IsSum(m, f, DOMAIN f)
  BY SumExists
<1>2. SumFunction(f) = m[DOMAIN f]
  BY DEF SumFunction, SumFunctionOnSet, FoldFunctionOnSet, MapThenFoldSet, IsSum,
         SumStep, Chosen
<1>. QED BY <1>1, <1>2

(***************************************************************************)
(* Every element of a set may be taken out first.                          *)
(***************************************************************************)
LEMMA SumIsInt ==
  ASSUME NEW S, IsFiniteSet(S), NEW f, \A x \in S : f[x] \in Int,
         NEW g, IsSum(g, f, S)
  PROVE  \A s \in SUBSET S : g[s] \in Int
<1> DEFINE T == {n \in Nat : \E s \in SUBSET S : Cardinality(s) = n /\ g[s] \notin Int}
<1>1. \A s \in SUBSET S : IsFiniteSet(s) /\ Cardinality(s) \in Nat
  BY FS_Subset, FS_CardinalityType
<1> SUFFICES ASSUME T # {} PROVE FALSE
  BY <1>1
<1>2. PICK n \in T : \A y \in T : n <= y
  <2>1. T \in SUBSET Nat  OBVIOUS
  <2> HIDE DEF T
  <2> QED BY <2>1, NatHasLeast
<1>3. PICK s \in SUBSET S : Cardinality(s) = n /\ g[s] \notin Int
  BY <1>2
<1>4. g[s] = SumStep(g, f, s)
  BY DEF IsSum
<1>5. s # {}
  BY <1>3, <1>4 DEF SumStep
<1> DEFINE c == Chosen(s)
<1>6. c \in s /\ g[s] = f[c] + g[s \ {c}]
  BY <1>4, <1>5, ChosenIsIn DEF SumStep
<1> HIDE DEF c
<1>7. /\ s \ {c} \in SUBSET S
      /\ Cardinality(s \ {c}) \in Nat /\ Cardinality(s \ {c}) = n - 1
  BY <1>1, <1>3, <1>6, OneLess
<1>8. g[s \ {c}] \in Int
  <2>1. n - 1 \notin T /\ n \in Nat
    BY <1>2
  <2>. QED BY <1>7, <2>1
<1>. QED BY <1>3, <1>6, <1>8

LEMMA SumIsNat ==
  ASSUME NEW S, IsFiniteSet(S), NEW f, \A x \in S : f[x] \in Nat,
         NEW g, IsSum(g, f, S)
  PROVE  \A s \in SUBSET S : g[s] \in Nat
<1> DEFINE T == {n \in Nat : \E s \in SUBSET S : Cardinality(s) = n /\ g[s] \notin Nat}
<1>1. \A s \in SUBSET S : IsFiniteSet(s) /\ Cardinality(s) \in Nat
  BY FS_Subset, FS_CardinalityType
<1> SUFFICES ASSUME T # {} PROVE FALSE
  BY <1>1
<1>2. PICK n \in T : \A y \in T : n <= y
  <2>1. T \in SUBSET Nat  OBVIOUS
  <2> HIDE DEF T
  <2> QED BY <2>1, NatHasLeast
<1>3. PICK s \in SUBSET S : Cardinality(s) = n /\ g[s] \notin Nat
  BY <1>2
<1>4. g[s] = SumStep(g, f, s)
  BY DEF IsSum
<1>5. s # {}
  BY <1>3, <1>4 DEF SumStep
<1> DEFINE c == Chosen(s)
<1>6. c \in s /\ g[s] = f[c] + g[s \ {c}]
  BY <1>4, <1>5, ChosenIsIn DEF SumStep
<1> HIDE DEF c
<1>7. /\ s \ {c} \in SUBSET S
      /\ Cardinality(s \ {c}) \in Nat /\ Cardinality(s \ {c}) = n - 1
  BY <1>1, <1>3, <1>6, OneLess
<1>8. g[s \ {c}] \in Nat
  <2>1. n - 1 \notin T /\ n \in Nat
    BY <1>2
  <2>. QED BY <1>7, <2>1
<1>. QED BY <1>3, <1>6, <1>8

LEMMA TakenOut ==
  ASSUME NEW S, IsFiniteSet(S), NEW f, \A x \in S : f[x] \in Int,
         NEW g, IsSum(g, f, S)
  PROVE  \A s \in SUBSET S : \A x \in s : g[s] = f[x] + g[s \ {x}]
<1> DEFINE T == {n \in Nat : \E s \in SUBSET S :
                    Cardinality(s) = n /\ \E x \in s : g[s] # f[x] + g[s \ {x}]}
<1>1. \A s \in SUBSET S : IsFiniteSet(s) /\ Cardinality(s) \in Nat
  BY FS_Subset, FS_CardinalityType
<1> SUFFICES ASSUME T # {} PROVE FALSE
  BY <1>1
<1>2. PICK n \in T : \A y \in T : n <= y
  <2>1. T \in SUBSET Nat  OBVIOUS
  <2> HIDE DEF T
  <2> QED BY <2>1, NatHasLeast
<1>3. PICK s \in SUBSET S : Cardinality(s) = n /\ \E x \in s : g[s] # f[x] + g[s \ {x}]
  BY <1>2
<1>4. PICK x \in s : g[s] # f[x] + g[s \ {x}]
  BY <1>3
<1> DEFINE c == Chosen(s)
<1>5. c \in s /\ g[s] = f[c] + g[s \ {c}]
  <2>1. g[s] = SumStep(g, f, s) /\ s # {}
    BY <1>4 DEF IsSum
  <2>. QED BY <2>1, ChosenIsIn DEF SumStep
<1> HIDE DEF c
<1>6. c # x
  BY <1>4, <1>5
<1>7. ASSUME NEW y \in s
      PROVE  /\ s \ {y} \in SUBSET S
             /\ Cardinality(s \ {y}) \in Nat /\ Cardinality(s \ {y}) = n - 1
  BY <1>1, <1>3, OneLess
<1>8. ASSUME NEW y \in s
      PROVE  \A z \in s \ {y} : g[s \ {y}] = f[z] + g[(s \ {y}) \ {z}]
  <2>1. n - 1 \notin T /\ n \in Nat
    BY <1>2
  <2>. QED BY <1>7, <2>1
<1>9. g[s \ {c}] = f[x] + g[(s \ {c}) \ {x}]
  BY <1>5, <1>6, <1>8
<1>10. g[s \ {x}] = f[c] + g[(s \ {x}) \ {c}]
  BY <1>5, <1>6, <1>8
<1>11. (s \ {c}) \ {x} = (s \ {x}) \ {c} /\ (s \ {c}) \ {x} \in SUBSET S
  BY <1>3
<1>12. g[(s \ {c}) \ {x}] \in Int /\ f[c] \in Int /\ f[x] \in Int
  BY <1>3, <1>5, <1>11, SumIsInt
<1> DEFINE rest == g[(s \ {c}) \ {x}]
<1>13. g[s] = f[c] + (f[x] + rest) /\ g[s \ {x}] = f[c] + rest
  BY <1>5, <1>9, <1>10, <1>11
<1> HIDE DEF rest
<1>14. rest \in Int
  BY <1>12 DEF rest
<1>. QED BY <1>4, <1>12, <1>13, <1>14

\* Sums of functions that agree on R, whatever their domains, agree on R.
LEMMA SumsAgree ==
  ASSUME NEW R, NEW S, NEW S2, R \subseteq S, R \subseteq S2, IsFiniteSet(R),
         NEW f, NEW h, \A x \in R : f[x] = h[x],
         NEW g, IsSum(g, f, S), NEW g2, IsSum(g2, h, S2)
  PROVE  g[R] = g2[R]
<1> DEFINE T == {n \in Nat : \E s \in SUBSET R : Cardinality(s) = n /\ g[s] # g2[s]}
<1>1. \A s \in SUBSET R : IsFiniteSet(s) /\ Cardinality(s) \in Nat
  BY FS_Subset, FS_CardinalityType
<1> SUFFICES ASSUME T # {} PROVE FALSE
  BY <1>1
<1>2. PICK n \in T : \A y \in T : n <= y
  <2>1. T \in SUBSET Nat  OBVIOUS
  <2> HIDE DEF T
  <2> QED BY <2>1, NatHasLeast
<1>3. PICK s \in SUBSET R : Cardinality(s) = n /\ g[s] # g2[s]
  BY <1>2
<1>4. g[s] = SumStep(g, f, s) /\ g2[s] = SumStep(g2, h, s)
  BY <1>3 DEF IsSum
<1>5. s # {}
  BY <1>3, <1>4 DEF SumStep
<1> DEFINE c == Chosen(s)
<1>6. c \in s /\ g[s] = f[c] + g[s \ {c}] /\ g2[s] = h[c] + g2[s \ {c}]
  BY <1>4, <1>5, ChosenIsIn DEF SumStep
<1> HIDE DEF c
<1>7. /\ s \ {c} \in SUBSET R
      /\ Cardinality(s \ {c}) \in Nat /\ Cardinality(s \ {c}) = n - 1
  BY <1>1, <1>3, <1>6, OneLess
<1>8. g[s \ {c}] = g2[s \ {c}]
  <2>1. n - 1 \notin T /\ n \in Nat
    BY <1>2
  <2>. QED BY <1>7, <2>1
<1>. QED BY <1>3, <1>6, <1>8

(***************************************************************************)
(* The lemmas the proofs about money cite.                                 *)
(***************************************************************************)
LEMMA SumEmpty ==
  ASSUME NEW f, DOMAIN f = {}
  PROVE  SumFunction(f) = 0
<1>1. PICK g : IsSum(g, f, DOMAIN f) /\ SumFunction(f) = g[DOMAIN f]
  BY SumReads, FS_EmptySet
<1>. QED BY <1>1 DEF IsSum, SumStep

LEMMA SumType ==
  ASSUME NEW f, IsFiniteSet(DOMAIN f), \A x \in DOMAIN f : f[x] \in Int
  PROVE  SumFunction(f) \in Int
<1>1. PICK g : IsSum(g, f, DOMAIN f) /\ SumFunction(f) = g[DOMAIN f]
  BY SumReads
<1>. QED BY <1>1, SumIsInt

LEMMA SumNat ==
  ASSUME NEW f, IsFiniteSet(DOMAIN f), \A x \in DOMAIN f : f[x] \in Nat
  PROVE  SumFunction(f) \in Nat
<1>1. PICK g : IsSum(g, f, DOMAIN f) /\ SumFunction(f) = g[DOMAIN f]
  BY SumReads
<1>. QED BY <1>1, SumIsNat

\* One more element in the domain.
LEMMA SumAdd ==
  ASSUME NEW f, IsFiniteSet(DOMAIN f), NEW x, x \notin DOMAIN f,
         NEW h, DOMAIN h = DOMAIN f \cup {x}, \A y \in DOMAIN f : h[y] = f[y],
         \A y \in DOMAIN h : h[y] \in Int
  PROVE  SumFunction(h) = SumFunction(f) + h[x]
<1>0. IsFiniteSet(DOMAIN h)
  BY FS_AddElement
<1>1. PICK g : IsSum(g, f, DOMAIN f) /\ SumFunction(f) = g[DOMAIN f]
  BY SumReads
<1>2. PICK g2 : IsSum(g2, h, DOMAIN h) /\ SumFunction(h) = g2[DOMAIN h]
  BY <1>0, SumReads
<1> DEFINE D == DOMAIN f
           E == DOMAIN h
<1>3. g2[E] = h[x] + g2[E \ {x}]
  <2>1. x \in E /\ E \in SUBSET E /\ IsFiniteSet(E) /\ IsSum(g2, h, E)
        /\ \A y \in E : h[y] \in Int
    BY <1>0, <1>2
  <2> HIDE DEF E
  <2>. QED BY <2>1, TakenOut, SMTT(30)
<1>4. E \ {x} = D
  OBVIOUS
<1>5. g[D] = g2[D]
  <2>1. D \subseteq D /\ D \subseteq E /\ \A y \in D : f[y] = h[y]
    OBVIOUS
  <2>2. IsFiniteSet(D) /\ IsSum(g, f, D) /\ IsSum(g2, h, E)
    BY <1>1, <1>2
  <2> HIDE DEF D, E
  <2>3. \A y \in D : f[y] = h[y]
    BY <2>1
  <2>. QED BY <2>1, <2>2, <2>3, SumsAgree, SMTT(30)
<1>6. SumFunction(f) \in Int /\ h[x] \in Int
  BY SumType
<1>. QED BY <1>1, <1>2, <1>3, <1>4, <1>5, <1>6

\* Another value at one element.
LEMMA SumChange ==
  ASSUME NEW f, IsFiniteSet(DOMAIN f), NEW x \in DOMAIN f,
         NEW h, DOMAIN h = DOMAIN f, \A y \in DOMAIN f \ {x} : h[y] = f[y],
         \A y \in DOMAIN f : f[y] \in Int, h[x] \in Int
  PROVE  SumFunction(h) = SumFunction(f) - f[x] + h[x]
<1> DEFINE r == [y \in DOMAIN f \ {x} |-> f[y]]
<1>1. IsFiniteSet(DOMAIN r) /\ x \notin DOMAIN r /\ DOMAIN f = DOMAIN r \cup {x}
  BY FS_Subset
<1>2. SumFunction(f) = SumFunction(r) + f[x]
  <2>1. \A y \in DOMAIN r : f[y] = r[y]
    OBVIOUS
  <2> HIDE DEF r
  <2>. QED BY <1>1, <2>1, SumAdd
<1>3. SumFunction(h) = SumFunction(r) + h[x]
  <2>1. \A y \in DOMAIN r : h[y] = r[y]
    OBVIOUS
  <2>2. \A y \in DOMAIN h : h[y] \in Int
    OBVIOUS
  <2> HIDE DEF r
  <2>. QED BY <1>1, <2>1, <2>2, SumAdd
<1>4. SumFunction(r) \in Int
  <2>1. \A y \in DOMAIN r : r[y] \in Int
    OBVIOUS
  <2> HIDE DEF r
  <2>. QED BY <1>1, <2>1, SumType
<1>. QED BY <1>2, <1>3, <1>4

\* Nothing anywhere.
LEMMA SumZero ==
  ASSUME NEW f, IsFiniteSet(DOMAIN f), \A x \in DOMAIN f : f[x] = 0
  PROVE  SumFunction(f) = 0
<1> DEFINE S == DOMAIN f
<1>1. PICK g : IsSum(g, f, S) /\ SumFunction(f) = g[S]
  BY SumReads
<1>2. IsFiniteSet(S) /\ \A x \in S : f[x] = 0
  OBVIOUS
<1> HIDE DEF S
<1>3. g[S] = 0
  <2>1. \A n \in S : f[n] \in Int
    BY <1>2
  <2>2. \A s \in SUBSET S : g[s] \in Int
    BY <1>1, <1>2, <2>1, SumIsInt
  <2> DEFINE T == {n \in Nat : \E s \in SUBSET S : Cardinality(s) = n /\ g[s] # 0}
  <2>3. \A s \in SUBSET S : IsFiniteSet(s) /\ Cardinality(s) \in Nat
    BY <1>2, FS_Subset, FS_CardinalityType
  <2> SUFFICES ASSUME T # {} PROVE FALSE
    BY <2>3
  <2>4. PICK n \in T : \A y \in T : n <= y
    <3>1. T \in SUBSET Nat  OBVIOUS
    <3> HIDE DEF T
    <3> QED BY <3>1, NatHasLeast
  <2>5. PICK s \in SUBSET S : Cardinality(s) = n /\ g[s] # 0
    BY <2>4
  <2>6. g[s] = SumStep(g, f, s)
    BY <1>1 DEF IsSum
  <2>7. s # {}
    BY <2>5, <2>6 DEF SumStep
  <2>8. PICK c \in s : TRUE
    BY <2>7
  <2>9. g[s] = f[c] + g[s \ {c}]
    BY <1>1, <1>2, <2>1, TakenOut
  <2>10. /\ s \ {c} \in SUBSET S
         /\ Cardinality(s \ {c}) \in Nat /\ Cardinality(s \ {c}) = n - 1
    BY <2>3, <2>5, OneLess
  <2>11. g[s \ {c}] = 0
    <3>1. n - 1 \notin T /\ n \in Nat
      BY <2>4
    <3>. QED BY <2>10, <3>1
  <2>. QED BY <1>2, <2>5, <2>9, <2>11
<1>. QED BY <1>1, <1>3

\* Nothing but at one element.
LEMMA SumSingle ==
  ASSUME NEW f, IsFiniteSet(DOMAIN f), NEW x \in DOMAIN f, f[x] \in Int,
         \A y \in DOMAIN f \ {x} : f[y] = 0
  PROVE  SumFunction(f) = f[x]
<1> DEFINE z == [y \in DOMAIN f |-> 0]
<1>1. DOMAIN z = DOMAIN f /\ \A y \in DOMAIN z : z[y] = 0
  OBVIOUS
<1> HIDE DEF z
<1>2. SumFunction(z) = 0
  BY <1>1, SumZero
<1>3. SumFunction(f) = SumFunction(z) - z[x] + f[x]
  BY <1>1, SumChange
<1>. QED BY <1>1, <1>2, <1>3

=============================================================================
