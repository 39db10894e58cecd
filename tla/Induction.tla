----------------------------- MODULE Induction -----------------------------
(***************************************************************************)
(* Lemmas by induction over the natural numbers and over finite sets.  The *)
(* hypothesis is a set, not an operator: induction then follows from < on  *)
(* the natural numbers being well-founded.  And what the sums of a         *)
(* function over finite sets are, which are defined by recursion.          *)
(***************************************************************************)
EXTENDS Integers, Functions, FiniteSets, FiniteSetTheorems, WellFoundedInduction, TLAPS

LessNat == {p \in Nat \X Nat : p[1] < p[2]}

LEMMA LessNatWellFounded == IsWellFoundedOn(LessNat, Nat)
BY NatLessThanWellFounded DEF OpToRel, LessNat

LEMMA SetInduction ==
  ASSUME NEW T, 0 \in T, \A n \in Nat : n \in T => n + 1 \in T
  PROVE  Nat \subseteq T
<1> DEFINE S == Nat \ T
<1> SUFFICES ASSUME S # {} PROVE FALSE
  OBVIOUS
<1>1. S \subseteq Nat
  OBVIOUS
<1> HIDE DEF S
<1>2. PICK x \in S : \A y \in S : ~ (<<y, x>> \in LessNat)
  BY <1>1, LessNatWellFounded, WFMin
<1> USE DEF S
<1>3. x # 0 /\ x - 1 \in Nat /\ <<x - 1, x>> \in LessNat
  BY DEF LessNat
<1>4. x - 1 \in T
  BY <1>2, <1>3
<1> QED BY <1>3, <1>4

-----------------------------------------------------------------------------
(* Sums of the values f[x] over the x in a set.                            *)

Chosen(s) == CHOOSE x \in s : TRUE

\* g gives the sums of f over the subsets of S in the set D.
Sums(g, f, D) == g = [s \in D |-> IF s = {} THEN 0 ELSE f[Chosen(s)] + g[s \ {Chosen(s)}]]

LEMMA SumsValue ==
  ASSUME NEW g, NEW f, NEW D, Sums(g, f, D), NEW s \in D
  PROVE  g[s] = IF s = {} THEN 0 ELSE f[Chosen(s)] + g[s \ {Chosen(s)}]
<1> DEFINE v(t) == IF t = {} THEN 0 ELSE f[Chosen(t)] + g[t \ {Chosen(t)}]
<1>1. g = [t \in D |-> v(t)]
  BY DEF Sums
<1> HIDE DEF v
<1>2. g[s] = v(s)
  BY <1>1
<1> QED BY <1>2 DEF v

LEMMA ChosenElement ==
  ASSUME NEW s, s # {}, IsFiniteSet(s)
  PROVE  /\ Chosen(s) \in s /\ IsFiniteSet(s \ {Chosen(s)}) 
         /\ Cardinality(s) \in Nat /\ Cardinality(s \ {Chosen(s)}) = Cardinality(s) - 1
<1>1. Chosen(s) \in s
  BY DEF Chosen
<1> QED BY <1>1, FS_RemoveElement, FS_CardinalityType

LEMMA SumsExist ==
  ASSUME NEW f, NEW S, IsFiniteSet(S)
  PROVE  \E g : Sums(g, f, SUBSET S)
<1> DEFINE Small(n) == {s \in SUBSET S : Cardinality(s) <= n}
           T == {n \in Nat : \E g : Sums(g, f, Small(n))}
<1>0. \A s \in SUBSET S : IsFiniteSet(s) /\ Cardinality(s) \in Nat /\ Cardinality(s) <= Cardinality(S)
  BY FS_Subset, FS_CardinalityType
<1>1. 0 \in T
  <2>1. \A s \in Small(0) : s = {}
    BY <1>0, FS_EmptySet
  <2>2. Sums([s \in Small(0) |-> 0], f, Small(0))
    BY <2>1 DEF Sums
  <2> QED BY <2>2
<1>2. ASSUME NEW n \in Nat, n \in T PROVE n + 1 \in T
  <2>1. PICK g : Sums(g, f, Small(n))
    BY <1>2
  <2> DEFINE value(s) == IF s = {} THEN 0 ELSE f[Chosen(s)] + g[s \ {Chosen(s)}]
             h == [s \in Small(n + 1) |-> value(s)]
  <2>2. \A s \in Small(n) : g[s] = value(s)
    <3> HIDE DEF Small
    <3> QED BY <2>1 DEF Sums
  <2>2a. \A s \in Small(n) : s \in Small(n + 1)
    BY <1>0
  <2>3. \A s \in Small(n + 1) : s # {} => s \ {Chosen(s)} \in Small(n)
    BY <1>0, ChosenElement
  <2>4. \A s \in Small(n) : h[s] = g[s]
    BY <2>2, <2>2a
  <2>5. \A s \in Small(n + 1) : h[s] = IF s = {} THEN 0 ELSE f[Chosen(s)] + h[s \ {Chosen(s)}]
    BY <2>3, <2>4
  <2>6. h = [s \in Small(n + 1) |-> h[s]]
    OBVIOUS
  <2> HIDE DEF h, Small
  <2>7. Sums(h, f, Small(n + 1))
    BY <2>5, <2>6 DEF Sums
  <2> QED BY <2>7
<1> HIDE DEF T
<1>3. Nat \subseteq T
  BY <1>1, <1>2, SetInduction
<1>4. Cardinality(S) \in T
  BY <1>3, FS_CardinalityType
<1>5. Small(Cardinality(S)) = SUBSET S
  BY <1>0
<1> QED BY <1>4, <1>5 DEF T

LEMMA SumIsSums ==
  ASSUME NEW f, NEW S, IsFiniteSet(S)
  PROVE  \E g : Sums(g, f, SUBSET S) /\ SumFunctionOnSet(f, S) = g[S]
<1> DEFINE g == CHOOSE g : Sums(g, f, SUBSET S)
<1>1. Sums(g, f, SUBSET S)
  BY SumsExist
<1>2. SumFunctionOnSet(f, S) = g[S]
  BY DEF SumFunctionOnSet, FoldFunctionOnSet, MapThenFoldSet, Sums, Chosen
<1> QED BY <1>1, <1>2

\* Two ways to sum agree on the subsets of both.
LEMMA SumsAgree ==
  ASSUME NEW f, NEW S, IsFiniteSet(S), NEW T, T \subseteq S,
         NEW g, Sums(g, f, SUBSET S), NEW h, Sums(h, f, SUBSET T)
  PROVE  h[T] = g[T]
<1> DEFINE N == {n \in Nat : \A s \in SUBSET T : Cardinality(s) = n => h[s] = g[s]}
<1>1. \A s \in SUBSET T : IsFiniteSet(s) /\ Cardinality(s) \in Nat
  BY FS_Subset, FS_CardinalityType
<1>2. \A s \in SUBSET T : /\ h[s] = (IF s = {} THEN 0 ELSE f[Chosen(s)] + h[s \ {Chosen(s)}])
                           /\ g[s] = (IF s = {} THEN 0 ELSE f[Chosen(s)] + g[s \ {Chosen(s)}])
  <2> TAKE s \in SUBSET T
  <2>1. s \in SUBSET S
    OBVIOUS
  <2>2. h[s] = (IF s = {} THEN 0 ELSE f[Chosen(s)] + h[s \ {Chosen(s)}])
    BY SumsValue
  <2>3. g[s] = (IF s = {} THEN 0 ELSE f[Chosen(s)] + g[s \ {Chosen(s)}])
    BY <2>1, SumsValue
  <2> QED BY <2>2, <2>3
<1>3. 0 \in N
  <2> SUFFICES ASSUME NEW s \in SUBSET T, Cardinality(s) = 0 PROVE h[s] = g[s]
    OBVIOUS
  <2>1. s = {}
    BY <1>1, FS_EmptySet
  <2>2. {} \in SUBSET S /\ {} \in SUBSET T
    OBVIOUS
  <2> QED BY <1>2, <2>1, <2>2
<1>4. ASSUME NEW n \in Nat, n \in N PROVE n + 1 \in N
  <2> SUFFICES ASSUME NEW s \in SUBSET T, Cardinality(s) = n + 1 PROVE h[s] = g[s]
    OBVIOUS
  <2>1. s # {}
    BY SMTT(40), FS_EmptySet
  <2>2. s \ {Chosen(s)} \in SUBSET T /\ Cardinality(s \ {Chosen(s)}) = n
    BY <1>1, <2>1, ChosenElement
  <2>3. h[s \ {Chosen(s)}] = g[s \ {Chosen(s)}]
    BY <1>4, <2>2
  <2> QED BY <1>2, <2>1, <2>3
<1> HIDE DEF N
<1>5. Nat \subseteq N
  BY <1>3, <1>4, SetInduction
<1>6. \A s \in SUBSET T : h[s] = g[s]
  BY <1>1, <1>5 DEF N
<1> QED BY <1>6

LEMMA SumOfSubset ==
  ASSUME NEW f, NEW S, IsFiniteSet(S), NEW g, Sums(g, f, SUBSET S)
  PROVE  \A s \in SUBSET S : SumFunctionOnSet(f, s) = g[s]
<1> SUFFICES ASSUME NEW s \in SUBSET S PROVE SumFunctionOnSet(f, s) = g[s]
  OBVIOUS
<1>1. IsFiniteSet(s)
  BY FS_Subset
<1>2. PICK h : Sums(h, f, SUBSET s) /\ SumFunctionOnSet(f, s) = h[s]
  BY <1>1, SumIsSums
<1>3. s \subseteq S
  OBVIOUS
<1>4. h[s] = g[s]
  BY ZenonT(40), <1>2, <1>3, SumsAgree
<1>5. SumFunctionOnSet(f, s) = h[s]
  BY <1>2
<1> QED BY <1>4, <1>5

LEMMA SumsTyped ==
  ASSUME NEW f, NEW S, IsFiniteSet(S), \A x \in S : f[x] \in Int, NEW g, Sums(g, f, SUBSET S)
  PROVE  \A s \in SUBSET S : g[s] \in Int
<1> DEFINE N == {n \in Nat : \A s \in SUBSET S : Cardinality(s) = n => g[s] \in Int}
<1>1. \A s \in SUBSET S : IsFiniteSet(s) /\ Cardinality(s) \in Nat
  BY FS_Subset, FS_CardinalityType
<1>2. \A s \in SUBSET S : g[s] = IF s = {} THEN 0 ELSE f[Chosen(s)] + g[s \ {Chosen(s)}]
  BY SumsValue
<1>3. 0 \in N
  <2> SUFFICES ASSUME NEW s \in SUBSET S, Cardinality(s) = 0 PROVE g[s] \in Int
    OBVIOUS
  <2>1. s = {}
    BY <1>1, FS_EmptySet
  <2>2. g[{}] = 0
    BY <1>2
  <2> QED BY <2>1, <2>2
<1>4. ASSUME NEW n \in Nat, n \in N PROVE n + 1 \in N
  <2> SUFFICES ASSUME NEW s \in SUBSET S, Cardinality(s) = n + 1 PROVE g[s] \in Int
    OBVIOUS
  <2>1. s # {}
    BY FS_EmptySet
  <2>2. Chosen(s) \in S /\ s \ {Chosen(s)} \in SUBSET S /\ Cardinality(s \ {Chosen(s)}) = n
    BY <1>1, <2>1, ChosenElement
  <2>3. g[s \ {Chosen(s)}] \in Int /\ f[Chosen(s)] \in Int
    BY <1>4, <2>2
  <2> QED BY <1>2, <2>1, <2>3
<1> HIDE DEF N
<1>5. Nat \subseteq N
  BY <1>3, <1>4, SetInduction
<1> QED BY <1>1, <1>5 DEF N

\* The order of the elements makes no difference.
LEMMA SumsInAnyOrder ==
  ASSUME NEW f, NEW S, IsFiniteSet(S), \A x \in S : f[x] \in Int, NEW g, Sums(g, f, SUBSET S),
         NEW T, T \subseteq S
  PROVE  g[T] \in Int /\ \A y \in T : g[T] = f[y] + g[T \ {y}]
<1> DEFINE Good(s) == \A y \in s : g[s] = f[y] + g[s \ {y}]
           N == {n \in Nat : \A s \in SUBSET S : Cardinality(s) = n => Good(s)}
<1>1. \A s \in SUBSET S : IsFiniteSet(s) /\ Cardinality(s) \in Nat /\ g[s] \in Int
  BY FS_Subset, FS_CardinalityType, SumsTyped
<1>2. \A s \in SUBSET S : g[s] = IF s = {} THEN 0 ELSE f[Chosen(s)] + g[s \ {Chosen(s)}]
  BY SumsValue
<1>3. 0 \in N
  <2> SUFFICES ASSUME NEW s \in SUBSET S, Cardinality(s) = 0 PROVE Good(s)
    OBVIOUS
  <2>1. s = {}
    BY <1>1, FS_EmptySet
  <2> QED BY <2>1
<1>4. ASSUME NEW n \in Nat, n \in N PROVE n + 1 \in N
  <2> SUFFICES ASSUME NEW s \in SUBSET S, Cardinality(s) = n + 1 PROVE Good(s)
    OBVIOUS
  <2> DEFINE c == Chosen(s)
             r == s \ {c}
  <2>1. s # {}
    BY FS_EmptySet
  <2>2. c \in s /\ r \in SUBSET S /\ Cardinality(r) = n
    BY <1>1, <2>1, ChosenElement
  <2>3. Good(r)
    BY <1>4, <2>2
  <2>4. g[s] = f[c] + g[r] /\ f[c] \in Int
    BY <1>2, <2>1, <2>2
  <2> HIDE DEF c
  <2>5. ASSUME NEW y \in s, y # c PROVE g[s] = f[y] + g[s \ {y}]
    <3> DEFINE t == s \ {y}
               u == r \ {y}
    <3>1. t \in SUBSET S /\ Cardinality(t) = n /\ c \in t /\ y \in r /\ f[y] \in Int
      BY <1>1, <2>2, <2>5, FS_RemoveElement
    <3>2. Good(t)
      BY <1>4, <3>1
    <3>3. t \ {c} = u /\ u \in SUBSET S
      BY <2>2
    <3>4. g[t] = f[c] + g[u]
      BY <3>1, <3>2, <3>3
    <3>5. g[r] = f[y] + g[u]
      BY <2>3, <3>1
    <3>6. g[u] \in Int
      BY <1>1, <3>3
    <3> HIDE DEF t, u, r
    <3>7. g[s] = f[y] + g[t]
      BY <2>4, <3>1, <3>4, <3>5, <3>6
    <3> QED BY <3>7 DEF t
  <2> QED BY <2>4, <2>5
<1> HIDE DEF N
<1>5. Nat \subseteq N
  BY <1>3, <1>4, SetInduction
<1>6. \A s \in SUBSET S : Good(s)
  BY <1>1, <1>5 DEF N
<1> QED BY <1>1, <1>6

-----------------------------------------------------------------------------
(* The laws of sums.                                                       *)

LEMMA SumEmpty == ASSUME NEW f PROVE SumFunctionOnSet(f, {}) = 0
<1>0. PICK none : none = {}
  OBVIOUS
<1>1. PICK g : Sums(g, f, SUBSET {}) /\ SumFunctionOnSet(f, {}) = g[{}]
  <2>1. IsFiniteSet(none)
    BY <1>0, FS_EmptySet
  <2>2. PICK g : Sums(g, f, SUBSET none) /\ SumFunctionOnSet(f, none) = g[none]
    BY <2>1, SumIsSums
  <2> QED BY <1>0, <2>2
<1>2. {} \in SUBSET {}
  OBVIOUS
<1>3. g[{}] = IF {} = {} THEN 0 ELSE f[Chosen({})] + g[{} \ {Chosen({})}]
  BY <1>1, <1>2, SumsValue
<1> QED BY <1>1, <1>3

LEMMA SumElement ==
  ASSUME NEW f, NEW S, IsFiniteSet(S), \A x \in S : f[x] \in Int
  PROVE  /\ SumFunctionOnSet(f, S) \in Int
         /\ \A y \in S : SumFunctionOnSet(f, S) = f[y] + SumFunctionOnSet(f, S \ {y})
<1>1. PICK g : Sums(g, f, SUBSET S)
  BY SumsExist
<1>2. ASSUME NEW s, s \subseteq S PROVE g[s] \in Int /\ (\A y \in s : g[s] = f[y] + g[s \ {y}])
  BY SMTT(40), <1>1, <1>2, SumsInAnyOrder
<1>3. \A s \in SUBSET S : SumFunctionOnSet(f, s) = g[s]
  BY <1>1, SumOfSubset
<1>4. S \in SUBSET S /\ \A y \in S : S \ {y} \in SUBSET S
  OBVIOUS
<1> QED BY <1>2, <1>3, <1>4

\* Induction over a finite set, element by element.
LEMMA FiniteInduction ==
  ASSUME NEW S, IsFiniteSet(S), NEW N, {} \in N,
         \A s \in SUBSET S : \A x \in s : s \ {x} \in N => s \in N
  PROVE  S \in N
<1> DEFINE T == {n \in Nat : \A s \in SUBSET S : Cardinality(s) = n => s \in N}
<1>1. \A s \in SUBSET S : IsFiniteSet(s) /\ Cardinality(s) \in Nat
  BY FS_Subset, FS_CardinalityType
<1>2. 0 \in T
  <2> SUFFICES ASSUME NEW s \in SUBSET S, Cardinality(s) = 0 PROVE s \in N
    OBVIOUS
  <2>1. s = {}
    BY <1>1, FS_EmptySet
  <2> QED BY <2>1
<1>3. ASSUME NEW n \in Nat, n \in T PROVE n + 1 \in T
  <2> SUFFICES ASSUME NEW s \in SUBSET S, Cardinality(s) = n + 1 PROVE s \in N
    OBVIOUS
  <2>1. s # {}
    BY FS_EmptySet
  <2>2. PICK x \in s : TRUE
    BY <2>1
  <2>3. IsFiniteSet(s)
    BY <1>1
  <2>4. Cardinality(s \ {x}) = Cardinality(s) - 1
    BY <2>3, FS_RemoveElement
  <2>5. s \ {x} \in SUBSET S /\ Cardinality(s \ {x}) = n
    BY <2>4
  <2> QED BY <1>3, <2>5
<1> HIDE DEF T
<1>4. Nat \subseteq T
  BY <1>2, <1>3, SetInduction
<1> QED BY <1>1, <1>4 DEF T

\* The sum is in every set of integers that is closed under addition.
LEMMA SumIn ==
  ASSUME NEW f, NEW S, IsFiniteSet(S), NEW C, C \subseteq Int, 0 \in C,
         \A a, b \in C : a + b \in C, \A x \in S : f[x] \in C
  PROVE  SumFunctionOnSet(f, S) \in C
<1> DEFINE sum(s) == SumFunctionOnSet(f, s)
           N == {s \in SUBSET S : sum(s) \in C}
<1>1. {} \in N
  BY SumEmpty
<1>2. \A s \in SUBSET S : \A x \in s : s \ {x} \in N => s \in N
  <2> SUFFICES ASSUME NEW s \in SUBSET S, NEW x \in s, s \ {x} \in N PROVE sum(s) \in C
    OBVIOUS
  <2>1. IsFiniteSet(s) /\ \A y \in s : f[y] \in Int
    BY FS_Subset
  <2>2. sum(s \ {x}) \in C /\ f[x] \in C
    OBVIOUS
  <2> HIDE DEF N
  <2>3. \A y \in s : SumFunctionOnSet(f, s) = f[y] + SumFunctionOnSet(f, s \ {y})
    BY <2>1, SumElement
  <2>4. sum(s) = f[x] + sum(s \ {x})
    BY <2>3
  <2> HIDE DEF sum
  <2> QED BY <2>2, <2>4
<1> HIDE DEF N
<1>3. S \in N
  BY <1>1, <1>2, FiniteInduction
<1> QED BY <1>3 DEF N

\* Only the values in the set count.
LEMMA SumSame ==
  ASSUME NEW f, NEW e, NEW S, IsFiniteSet(S), \A x \in S : f[x] \in Int /\ e[x] = f[x]
  PROVE  SumFunctionOnSet(e, S) = SumFunctionOnSet(f, S)
<1> DEFINE N == {s \in SUBSET S : SumFunctionOnSet(e, s) = SumFunctionOnSet(f, s)}
<1>1. {} \in N
  BY SumEmpty
<1>2. \A s \in SUBSET S : \A x \in s : s \ {x} \in N => s \in N
  <2> SUFFICES ASSUME NEW s \in SUBSET S, NEW x \in s, s \ {x} \in N
               PROVE  SumFunctionOnSet(e, s) = SumFunctionOnSet(f, s)
    OBVIOUS
  <2>1. IsFiniteSet(s) /\ \A y \in s : f[y] \in Int /\ e[y] \in Int
    BY FS_Subset
  <2>2. /\ SumFunctionOnSet(f, s) = f[x] + SumFunctionOnSet(f, s \ {x})
        /\ SumFunctionOnSet(e, s) = e[x] + SumFunctionOnSet(e, s \ {x})
    BY <2>1, SumElement
  <2> QED BY <2>2
<1> HIDE DEF N
<1>3. S \in N
  BY <1>1, <1>2, FiniteInduction
<1> QED BY <1>3 DEF N

\* The sum over two sets with no common element.
LEMMA SumUnion ==
  ASSUME NEW f, NEW S, NEW T, IsFiniteSet(S), IsFiniteSet(T), S \cap T = {},
         \A x \in S \cup T : f[x] \in Int
  PROVE  SumFunctionOnSet(f, S \cup T) = SumFunctionOnSet(f, S) + SumFunctionOnSet(f, T)
<1> DEFINE sum(s) == SumFunctionOnSet(f, s)
           N == {s \in SUBSET S : sum(s \cup T) = sum(s) + sum(T)}
<1>0. ASSUME NEW s, s \subseteq S
      PROVE  /\ IsFiniteSet(s) /\ IsFiniteSet(s \cup T) /\ sum(s) \in Int
             /\ \A y \in s : sum(s) = f[y] + sum(s \ {y})
             /\ \A y \in s : sum(s \cup T) = f[y] + sum((s \cup T) \ {y})
  <2>1. IsFiniteSet(s) /\ IsFiniteSet(s \cup T)
    BY <1>0, FS_Subset, FS_Union
  <2>2. \A x \in s \cup T : f[x] \in Int
    BY <1>0
  <2>3. sum(s) \in Int /\ \A y \in s : sum(s) = f[y] + sum(s \ {y})
    BY <2>1, <2>2, SumElement
  <2> DEFINE u == s \cup T
  <2>4. \A y \in u : sum(u) = f[y] + sum(u \ {y})
    <3> HIDE DEF u
    <3>1. IsFiniteSet(u) /\ \A x \in u : f[x] \in Int
      BY <2>1, <2>2 DEF u
    <3> QED BY <3>1, SumElement
  <2> HIDE DEF sum
  <2> QED BY <2>1, <2>3, <2>4
<1>1. {} \in N
  <2>1. sum(T) \in Int /\ {} \cup T = T
    BY SumElement
  <2> HIDE DEF sum
  <2>2. sum({}) = 0
    BY SumEmpty DEF sum
  <2> QED BY <2>1, <2>2
<1>2. \A s \in SUBSET S : \A x \in s : s \ {x} \in N => s \in N
  <2> SUFFICES ASSUME NEW s \in SUBSET S, NEW x \in s, s \ {x} \in N PROVE sum(s \cup T) = sum(s) + sum(T)
    OBVIOUS
  <2>1. (s \cup T) \ {x} = (s \ {x}) \cup T
    OBVIOUS
  <2>2. sum((s \ {x}) \cup T) = sum(s \ {x}) + sum(T)
    OBVIOUS
  <2>3. sum(T) \in Int /\ sum(s \ {x}) \in Int /\ f[x] \in Int
    BY <1>0, SumElement
  <2>4. sum(s) = f[x] + sum(s \ {x})
    BY <1>0
  <2>5. sum(s \cup T) = f[x] + sum((s \cup T) \ {x})
    BY <1>0
  <2> HIDE DEF sum
  <2>6. sum(s \cup T) = f[x] + sum((s \ {x}) \cup T)
    BY <2>1, <2>5, Zenon
  <2> QED BY <2>2, <2>3, <2>4, <2>6
<1> HIDE DEF N
<1>3. S \in N
  BY <1>1, <1>2, FiniteInduction
<1> QED BY <1>3 DEF N
=============================================================================
