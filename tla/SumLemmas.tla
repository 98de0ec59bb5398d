----------------------------- MODULE SumLemmas -----------------------------
(***************************************************************************)
(* Induction over the naturals and over finite sets, with the property     *)
(* stated as a set and not as an operator, and what the sum over a finite  *)
(* set is: the recursion of MapThenSumSet defines it, it does not depend   *)
(* on the order in which the elements are taken, and it changes by the     *)
(* change of one summand.                                                  *)
(***************************************************************************)
EXTENDS Sums, FiniteSets, FiniteSetTheorems, WellFoundedInduction, TLAPS

\* Induction over the naturals: a set that holds zero and is closed under the
\* successor holds every natural number, because the least number outside it
\* would have its predecessor in it.
LEMMA NatSetInduction ==
  ASSUME NEW P, 0 \in P, \A n \in Nat : n \in P => n + 1 \in P
  PROVE  Nat \subseteq P
<1> DEFINE T == {n \in Nat : n \notin P}
           R == OpToRel(<, Nat)
<1>1. IsWellFoundedOn(R, Nat)
  BY NatLessThanWellFounded
<1>2. SUFFICES ASSUME T # {} PROVE FALSE
  OBVIOUS
<1>3. PICK x \in T : \A y \in T : <<y, x>> \notin R
  <2> HIDE DEF R
  <2> QED BY <1>1, <1>2, WFMin
<1>4. x - 1 \in Nat /\ x - 1 < x
  OBVIOUS
<1>5. <<x - 1, x>> \in R
  BY <1>4 DEF OpToRel
<1>6. x - 1 \in P
  BY <1>3, <1>4, <1>5
<1> QED BY <1>4, <1>6

\* Induction over the subsets of a finite set: a set of sets that holds the
\* empty set, and T with each one element less, holds every subset of S.
LEMMA FiniteSetInduction ==
  ASSUME NEW S, IsFiniteSet(S), NEW C, {} \in C,
         \A T \in SUBSET S : (T # {} /\ \A x \in T : T \ {x} \in C) => T \in C
  PROVE  SUBSET S \subseteq C
<1> DEFINE P == {n \in Nat : \A T \in SUBSET S : Cardinality(T) = n => T \in C}
<1>1. \A T \in SUBSET S : IsFiniteSet(T) /\ Cardinality(T) \in Nat
  BY FS_Subset, FS_CardinalityType
<1>2. 0 \in P
  BY <1>1, FS_EmptySet
<1>3. ASSUME NEW n \in Nat, n \in P PROVE n + 1 \in P
  <2> SUFFICES ASSUME NEW T \in SUBSET S, Cardinality(T) = n + 1 PROVE T \in C
    OBVIOUS
  <2>1. T # {}
    BY FS_EmptySet
  <2>2. ASSUME NEW x \in T PROVE T \ {x} \in C
    <3>1. Cardinality(T \ {x}) = n
      BY <1>1, FS_RemoveElement
    <3> QED BY <3>1, <1>3
  <2> QED BY <2>1, <2>2
<1>4. Nat \subseteq P
  <2> HIDE DEF P
  <2> QED BY <1>2, <1>3, NatSetInduction
<1> QED BY <1>1, <1>4

\* g solves the equation of the recursion of MapThenSumSet on a set D of sets.
Any(s) == CHOOSE x \in s : TRUE
SumsOn(f, D, g) ==
  g = [s \in D |-> IF s = {} THEN 0 ELSE f[Any(s)] + g[s \ {Any(s)}]]

\* The recursion has a solution on the subsets of a finite set.
LEMMA SumsExist ==
  ASSUME NEW f, NEW S, IsFiniteSet(S)
  PROVE  \E g : SumsOn(f, SUBSET S, g)
<1> DEFINE D(n) == {T \in SUBSET S : Cardinality(T) <= n}
           P == {n \in Nat : \E g : SumsOn(f, D(n), g)}
<1>1. \A T \in SUBSET S : IsFiniteSet(T) /\ Cardinality(T) \in Nat
  BY FS_Subset, FS_CardinalityType
<1>2. 0 \in P
  <2>1. D(0) = {{}}
    BY <1>1, FS_EmptySet
  <2>2. SumsOn(f, {{}}, [s \in {{}} |-> 0])
    BY DEF SumsOn
  <2> QED BY <2>1, <2>2
<1>3. ASSUME NEW n \in Nat, n \in P PROVE n + 1 \in P
  <2>1. PICK g : SumsOn(f, D(n), g)
    BY <1>3
  <2> DEFINE h == [s \in D(n + 1) |-> IF s = {} THEN 0 ELSE f[Any(s)] + g[s \ {Any(s)}]]
  <2>2. ASSUME NEW s \in D(n + 1), s # {} PROVE s \ {Any(s)} \in D(n) /\ s \ {Any(s)} \in D(n + 1)
    <3>1. Any(s) \in s
      BY <2>2 DEF Any
    <3>2. Cardinality(s \ {Any(s)}) = Cardinality(s) - 1
      BY <1>1, <3>1, FS_RemoveElement
    <3> QED BY <1>1, <3>2
  <2>3. ASSUME NEW s \in D(n), s \in D(n + 1) PROVE h[s] = g[s]
    BY <2>1, <2>3 DEF SumsOn
  <2>4. \A s \in D(n + 1) : s # {} => h[s \ {Any(s)}] = g[s \ {Any(s)}]
    BY <2>2, <2>3
  <2>5. SumsOn(f, D(n + 1), h)
    <3> HIDE DEF D
    <3> QED BY <2>4 DEF SumsOn
  <2>6. \E k : SumsOn(f, D(n + 1), k)
    <3> HIDE DEF D, h
    <3> QED BY <2>5
  <2> QED BY <2>6
<1>4. Nat \subseteq P
  <2> HIDE DEF P
  <2> QED BY <1>2, <1>3, NatSetInduction
<1>5. Cardinality(S) \in Nat /\ D(Cardinality(S)) = SUBSET S
  BY <1>1, FS_Subset
<1>6. Cardinality(S) \in P
  BY <1>4, <1>5
<1> QED BY <1>5, <1>6

\* Two solutions agree on the sets both are defined on.
LEMMA SumsAgree ==
  ASSUME NEW f, NEW S, IsFiniteSet(S), NEW T \in SUBSET S
  PROVE  \A g, h : SumsOn(f, SUBSET S, g) /\ SumsOn(f, SUBSET T, h) => g[T] = h[T]
<1> SUFFICES ASSUME NEW g, SumsOn(f, SUBSET S, g), NEW h, SumsOn(f, SUBSET T, h)
             PROVE  g[T] = h[T]
  OBVIOUS
<1> DEFINE C == {s \in SUBSET T : g[s] = h[s]}
<1>1. IsFiniteSet(T)
  BY FS_Subset
<1>2. {} \in C
  BY DEF SumsOn
<1>3. ASSUME NEW s \in SUBSET T, s # {}, \A x \in s : s \ {x} \in C PROVE s \in C
  <2>1. Any(s) \in s
    BY <1>3 DEF Any
  <2>2. s \in SUBSET S
    OBVIOUS
  <2>3. g[s] = f[Any(s)] + g[s \ {Any(s)}]
    BY <2>2, <1>3 DEF SumsOn
  <2>4. h[s] = f[Any(s)] + h[s \ {Any(s)}]
    BY <1>3 DEF SumsOn
  <2> QED BY <2>1, <2>3, <2>4, <1>3
<1>4. SUBSET T \subseteq C
  <2> HIDE DEF C
  <2> QED BY <1>1, <1>2, <1>3, FiniteSetInduction
<1> QED BY <1>4

\* SumOver is what every solution of the recursion gives for the whole set.
LEMMA SumOverIsSum ==
  ASSUME NEW f, NEW S, IsFiniteSet(S)
  PROVE  \E g : SumsOn(f, SUBSET S, g) /\ SumOver(f, S) = g[S]
<1> DEFINE it == CHOOSE g : SumsOn(f, SUBSET S, g)
<1>1. SumsOn(f, SUBSET S, it)
  BY SumsExist
<1>2. SumOver(f, S) = it[S]
  BY DEF SumOver, MapThenSumSet, MapThenFoldSet, SumsOn, Any
<1> QED BY <1>1, <1>2

\* The sum over no elements is zero.
LEMMA SumEmpty ==
  ASSUME NEW f
  PROVE  SumOver(f, {}) = 0
<1>1. PICK g : SumsOn(f, SUBSET {}, g) /\ SumOver(f, {}) = g[{}]
  BY SumOverIsSum, FS_EmptySet
<1> QED BY <1>1 DEF SumsOn

\* The recursion takes one element out, the one that Any names.
LEMMA SumAny ==
  ASSUME NEW f, NEW S, IsFiniteSet(S), S # {}
  PROVE  Any(S) \in S /\ SumOver(f, S) = f[Any(S)] + SumOver(f, S \ {Any(S)})
<1> DEFINE T == S \ {Any(S)}
<1>1. Any(S) \in S
  BY DEF Any
<1>2. IsFiniteSet(T) /\ T \in SUBSET S
  BY FS_Subset
<1>3. PICK g : SumsOn(f, SUBSET S, g) /\ SumOver(f, S) = g[S]
  BY SumOverIsSum
<1>4. PICK h : SumsOn(f, SUBSET T, h) /\ SumOver(f, T) = h[T]
  <2> HIDE DEF T
  <2> QED BY <1>2, SumOverIsSum
<1>5. g[T] = h[T]
  <2> HIDE DEF T
  <2>1. SumsOn(f, SUBSET S, g) /\ SumsOn(f, SUBSET T, h)
    BY <1>3, <1>4
  <2>2. T \in SUBSET S
    BY <1>2
  <2>3. \A k, m : SumsOn(f, SUBSET S, k) /\ SumsOn(f, SUBSET T, m) => k[T] = m[T]
    BY <2>2, SumsAgree
  <2> QED BY <2>1, <2>3, Zenon
<1>6. g[S] = f[Any(S)] + g[T]
  BY <1>3 DEF SumsOn
<1> QED BY <1>1, <1>3, <1>4, <1>5, <1>6

\* A sum of integers is an integer.
LEMMA SumType ==
  ASSUME NEW f, NEW S, IsFiniteSet(S), \A x \in S : f[x] \in Int
  PROVE  SumOver(f, S) \in Int
<1> DEFINE C == {T \in SUBSET S : SumOver(f, T) \in Int}
<1>1. {} \in C
  BY SumEmpty
<1>2. ASSUME NEW T \in SUBSET S, T # {}, \A x \in T : T \ {x} \in C PROVE T \in C
  <2>1. IsFiniteSet(T)
    BY FS_Subset
  <2>2. Any(T) \in T /\ SumOver(f, T) = f[Any(T)] + SumOver(f, T \ {Any(T)})
    BY <1>2, <2>1, SumAny
  <2> QED BY <1>2, <2>2
<1>3. SUBSET S \subseteq C
  <2> HIDE DEF C
  <2> QED BY <1>1, <1>2, FiniteSetInduction
<1> QED BY <1>3

\* Functions that agree on a set have the same sum over it.
LEMMA SumEqual ==
  ASSUME NEW f, NEW g, NEW S, IsFiniteSet(S), \A x \in S : f[x] = g[x]
  PROVE  SumOver(f, S) = SumOver(g, S)
<1> DEFINE C == {T \in SUBSET S : SumOver(f, T) = SumOver(g, T)}
<1>1. {} \in C
  BY SumEmpty
<1>2. ASSUME NEW T \in SUBSET S, T # {}, \A x \in T : T \ {x} \in C PROVE T \in C
  <2>1. IsFiniteSet(T)
    BY FS_Subset
  <2>2. SumOver(f, T) = f[Any(T)] + SumOver(f, T \ {Any(T)}) /\ Any(T) \in T
    BY <1>2, <2>1, SumAny
  <2>3. SumOver(g, T) = g[Any(T)] + SumOver(g, T \ {Any(T)})
    BY <1>2, <2>1, SumAny
  <2> QED BY <1>2, <2>2, <2>3
<1>3. SUBSET S \subseteq C
  <2> HIDE DEF C
  <2> QED BY <1>1, <1>2, FiniteSetInduction
<1> QED BY <1>3

\* Whichever element is taken out, the sum is its value and the sum of the
\* rest: addition does not care for the order.
LEMMA SumTakeOut ==
  ASSUME NEW f, NEW S, IsFiniteSet(S), \A x \in S : f[x] \in Int, NEW e \in S
  PROVE  SumOver(f, S) = f[e] + SumOver(f, S \ {e})
<1> DEFINE C == {T \in SUBSET S : \A x \in T : SumOver(f, T) = f[x] + SumOver(f, T \ {x})}
<1>1. {} \in C
  OBVIOUS
<1>2. ASSUME NEW T \in SUBSET S, T # {}, \A x \in T : T \ {x} \in C PROVE T \in C
  <2> DEFINE c == Any(T)
  <2>1. IsFiniteSet(T)
    BY FS_Subset
  <2>2. c \in T /\ SumOver(f, T) = f[c] + SumOver(f, T \ {c})
    BY <1>2, <2>1, SumAny
  <2> HIDE DEF c
  <2>3. ASSUME NEW x \in T, x # c PROVE SumOver(f, T) = f[x] + SumOver(f, T \ {x})
    <3>1. SumOver(f, T \ {c}) = f[x] + SumOver(f, (T \ {c}) \ {x})
      BY <1>2, <2>2, <2>3
    <3>2. SumOver(f, T \ {x}) = f[c] + SumOver(f, (T \ {x}) \ {c})
      BY <1>2, <2>2, <2>3
    <3>3. (T \ {c}) \ {x} = (T \ {x}) \ {c}
      OBVIOUS
    <3>4. IsFiniteSet((T \ {c}) \ {x})
      BY <2>1, FS_Subset
    <3>5. SumOver(f, (T \ {c}) \ {x}) \in Int
      BY <3>4, SumType
    <3>6. f[x] \in Int /\ f[c] \in Int
      BY <2>2
    <3>7. SumOver(f, (T \ {x}) \ {c}) = SumOver(f, (T \ {c}) \ {x})
      BY <3>3, Zenon
    <3> QED BY <2>2, <3>1, <3>2, <3>5, <3>6, <3>7
  <2> QED BY <2>2, <2>3
<1>3. SUBSET S \subseteq C
  <2> HIDE DEF C
  <2> QED BY <1>1, <1>2, FiniteSetInduction
<1> QED BY <1>3

\* The sum over a set with one element more.
LEMMA SumAdd ==
  ASSUME NEW f, NEW S, IsFiniteSet(S), \A x \in S : f[x] \in Int, NEW e, e \notin S, f[e] \in Int
  PROVE  SumOver(f, S \cup {e}) = SumOver(f, S) + f[e]
<1>1. IsFiniteSet(S \cup {e}) /\ (S \cup {e}) \ {e} = S
  BY FS_AddElement
<1>2. \A x \in S \cup {e} : f[x] \in Int
  OBVIOUS
<1>3. SumOver(f, S \cup {e}) = f[e] + SumOver(f, (S \cup {e}) \ {e})
  BY <1>1, <1>2, SumTakeOut
<1>4. SumOver(f, S) \in Int
  BY SumType
<1>5. SumOver(f, (S \cup {e}) \ {e}) = SumOver(f, S)
  BY <1>1, Zenon
<1> QED BY <1>3, <1>4, <1>5

\* A function that changes at one argument changes its sum by as much.
LEMMA SumChange ==
  ASSUME NEW f, NEW g, NEW S, IsFiniteSet(S), \A x \in S : f[x] \in Int, NEW e \in S,
         g[e] \in Int, \A x \in S \ {e} : g[x] = f[x]
  PROVE  SumOver(g, S) = SumOver(f, S) + (g[e] - f[e])
<1>1. IsFiniteSet(S \ {e})
  BY FS_Subset
<1>2. SumOver(f, S \ {e}) = SumOver(g, S \ {e})
  BY <1>1, SumEqual
<1>3. SumOver(f, S) = f[e] + SumOver(f, S \ {e})
  BY SumTakeOut
<1>4. SumOver(g, S) = g[e] + SumOver(g, S \ {e})
  BY SumTakeOut
<1>5. SumOver(f, S \ {e}) \in Int
  BY <1>1, SumType
<1> QED BY <1>2, <1>3, <1>4, <1>5

\* The sum of zeros is zero.
LEMMA SumZero ==
  ASSUME NEW f, NEW S, IsFiniteSet(S), \A x \in S : f[x] = 0
  PROVE  SumOver(f, S) = 0
<1> DEFINE C == {T \in SUBSET S : SumOver(f, T) = 0}
<1>1. {} \in C
  BY SumEmpty
<1>2. ASSUME NEW T \in SUBSET S, T # {}, \A x \in T : T \ {x} \in C PROVE T \in C
  <2>1. IsFiniteSet(T)
    BY FS_Subset
  <2>2. Any(T) \in T /\ SumOver(f, T) = f[Any(T)] + SumOver(f, T \ {Any(T)})
    BY <1>2, <2>1, SumAny
  <2> QED BY <1>2, <2>2
<1>3. SUBSET S \subseteq C
  <2> HIDE DEF C
  <2> QED BY <1>1, <1>2, FiniteSetInduction
<1> QED BY <1>3
=============================================================================
