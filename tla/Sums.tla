-------------------------------- MODULE Sums --------------------------------
(***************************************************************************)
(* Sums of the values of a function over a finite set: what the ledgers of *)
(* paid calls and of tool quota are of the reservations behind them.       *)
(*                                                                         *)
(* SumFunctionOnSet is a fold.  That its recursion has a solution, and what*)
(* it adds up to, is shown by taking the smallest number for which it would*)
(* fail: the induction theorems of the library, which take the induction   *)
(* hypothesis as an operator, are not needed.                              *)
(***************************************************************************)
EXTENDS Functions, FiniteSetTheorems, WellFoundedInduction, TLAPS

\* Every set of natural numbers has a least element.
LEMMA LeastExists ==
    ASSUME NEW T \in SUBSET Nat, T # {}
    PROVE  \E x \in T : \A y \in T : x <= y
<1> DEFINE R == {ss \in Nat \X Nat : ss[1] < ss[2]}
<1>1. R = OpToRel(<, Nat)
    BY DEF OpToRel
<1>2. IsWellFoundedOn(R, Nat)
    BY <1>1, NatLessThanWellFounded
<1>3. PICK x \in T : \A y \in T : <<y, x>> \notin R
    <2> HIDE DEF R
    <2> QED BY <1>2, WFMin
<1>4. ASSUME NEW y \in T
      PROVE  x <= y
    <2>1. <<y, x>> \in Nat \X Nat /\ <<y, x>>[1] = y /\ <<y, x>>[2] = x
        OBVIOUS
    <2>2. ~(<<y, x>>[1] < <<y, x>>[2])
        BY <1>3, <2>1
    <2> QED BY <2>1, <2>2
<1> QED
    BY <1>4

\* What holds of zero, and of a number when it holds of the one before, holds
\* of every number: the numbers of which it holds are a set G.
LEMMA Climb ==
    ASSUME NEW G, 0 \in G, \A n \in Nat : n \in G => n + 1 \in G
    PROVE  Nat \subseteq G
<1> SUFFICES ASSUME NEW k \in Nat, k \notin G PROVE FALSE
    OBVIOUS
<1>1. Nat \ G \in SUBSET Nat /\ Nat \ G # {}
    OBVIOUS
<1>2. PICK m \in Nat \ G : \A y \in Nat \ G : m <= y
    BY <1>1, LeastExists
<1>3. m # 0 /\ m - 1 \in Nat
    BY <1>2
<1>4. m - 1 \in G
    BY <1>2, <1>3
<1>5. (m - 1) + 1 \in G
    BY <1>3, <1>4
<1> QED
    BY <1>2, <1>5

-----------------------------------------------------------------------------
(* The recursion of the fold *)

\* The element the fold takes next.
First(s) == CHOOSE x \in s : TRUE

Unfolds(iter, f, D) ==
    iter = [s \in D |-> IF s = {} THEN 0 ELSE f[First(s)] + iter[s \ {First(s)}]]

\* iter is the recursive function of a fold over S.
Solves(iter, f, S) == Unfolds(iter, f, SUBSET S)

Small(S, n) == {s \in SUBSET S : Cardinality(s) <= n}

LEMMA SumUnfolds ==
    ASSUME NEW f, NEW S
    PROVE  SumFunctionOnSet(f, S) = (CHOOSE iter : Solves(iter, f, S))[S]
BY DEF SumFunctionOnSet, FoldFunctionOnSet, MapThenFoldSet, Solves, Unfolds, First

LEMMA FirstOf ==
    ASSUME NEW S, IsFiniteSet(S), NEW s \in SUBSET S, s # {}
    PROVE  /\ First(s) \in s /\ s \ {First(s)} \in SUBSET S
           /\ IsFiniteSet(s) /\ Cardinality(s) \in Nat \ {0}
           /\ Cardinality(s \ {First(s)}) = Cardinality(s) - 1
<1>1. First(s) \in s
    BY DEF First
<1>2. IsFiniteSet(s) /\ Cardinality(s) \in Nat
    BY FS_Subset, FS_CardinalityType
<1>3. Cardinality(s \ {First(s)}) = Cardinality(s) - 1
    BY <1>1, <1>2, FS_RemoveElement
<1>4. Cardinality(s) # 0
    BY <1>2, FS_EmptySet
<1> QED
    BY <1>1, <1>2, <1>3, <1>4

LEMMA NoneOf ==
    ASSUME NEW S, IsFiniteSet(S), NEW s \in SUBSET S, Cardinality(s) <= 0
    PROVE  s = {}
<1> SUFFICES ASSUME s # {} PROVE FALSE
    OBVIOUS
<1>1. Cardinality(s) \in Nat \ {0}
    BY FirstOf
<1> QED
    BY <1>1

\* The recursion has a solution.
LEMMA Solvable ==
    ASSUME NEW f, NEW S, IsFiniteSet(S)
    PROVE  \E iter : Solves(iter, f, S)
<1> DEFINE G == {n \in Nat : \E iter : Unfolds(iter, f, Small(S, n))}
<1>1. 0 \in G
    <2> DEFINE g == [s \in Small(S, 0) |-> 0]
    <2>1. \A s \in Small(S, 0) : s = {}
        BY NoneOf DEF Small
    <2>2. g = [s \in Small(S, 0) |-> IF s = {} THEN 0 ELSE f[First(s)] + g[s \ {First(s)}]]
        BY <2>1
    <2>3. Unfolds(g, f, Small(S, 0))
        <3> HIDE DEF g
        <3> QED BY <2>2 DEF Unfolds
    <2> QED BY <2>3
<1>2. ASSUME NEW n \in Nat, n \in G
      PROVE  n + 1 \in G
    <2>1. PICK g : Unfolds(g, f, Small(S, n))
        BY <1>2
    <2> DEFINE h == [s \in Small(S, n + 1) |->
                        IF s = {} THEN 0 ELSE f[First(s)] + g[s \ {First(s)}]]
    <2>2. ASSUME NEW s \in Small(S, n + 1), s # {}
          PROVE  h[s \ {First(s)}] = g[s \ {First(s)}]
        <3> DEFINE t == s \ {First(s)}
        <3>1. /\ s \in SUBSET S /\ Cardinality(s) <= n + 1
            BY DEF Small
        <3>2. t \in SUBSET S /\ Cardinality(t) = Cardinality(s) - 1 /\ Cardinality(s) \in Nat
            BY <2>2, <3>1, FirstOf
        <3> HIDE DEF t
        <3>3. t \in Small(S, n) /\ t \in Small(S, n + 1)
            BY <3>1, <3>2 DEF Small
        <3>4. g[t] = IF t = {} THEN 0 ELSE f[First(t)] + g[t \ {First(t)}]
            BY <2>1, <3>3 DEF Unfolds
        <3>5. h[t] = IF t = {} THEN 0 ELSE f[First(t)] + g[t \ {First(t)}]
            BY <3>3
        <3> QED BY <3>4, <3>5 DEF t
    <2>3. h = [s \in Small(S, n + 1) |->
                  IF s = {} THEN 0 ELSE f[First(s)] + h[s \ {First(s)}]]
        BY <2>2
    <2>4. Unfolds(h, f, Small(S, n + 1))
        <3> HIDE DEF h
        <3> QED BY <2>3 DEF Unfolds
    <2> HIDE DEF h
    <2> QED BY <2>4
<1>3. Cardinality(S) \in G
    <2>1. Cardinality(S) \in Nat
        BY FS_CardinalityType
    <2> HIDE DEF G
    <2> QED BY <1>1, <1>2, <2>1, Climb
<1>4. Small(S, Cardinality(S)) = SUBSET S
    <2>1. ASSUME NEW s \in SUBSET S
          PROVE  Cardinality(s) <= Cardinality(S)
        BY FS_Subset
    <2> QED BY <2>1 DEF Small
<1> QED
    BY <1>3, <1>4 DEF Solves

\* ... and only one.
LEMMA Unique ==
    ASSUME NEW f, NEW g, NEW S, NEW T, IsFiniteSet(S), T \subseteq S,
           \A x \in T : f[x] = g[x],
           NEW a, Solves(a, f, S), NEW b, Solves(b, g, T)
    PROVE  a[T] = b[T]
<1> DEFINE G == {n \in Nat : \A s \in SUBSET T : Cardinality(s) = n => a[s] = b[s]}
<1>0. \A s \in SUBSET T : /\ s \in SUBSET S
                          /\ a[s] = IF s = {} THEN 0 ELSE f[First(s)] + a[s \ {First(s)}]
                          /\ b[s] = IF s = {} THEN 0 ELSE g[First(s)] + b[s \ {First(s)}]
    BY DEF Solves, Unfolds
<1>1. 0 \in G
    <2> SUFFICES ASSUME NEW s \in SUBSET T, Cardinality(s) = 0 PROVE a[s] = b[s]
        OBVIOUS
    <2>0. Cardinality(s) <= 0
        OBVIOUS
    <2>1. s = {}
        BY <1>0, <2>0, NoneOf
    <2> QED BY <1>0, <2>1
<1>2. ASSUME NEW n \in Nat, n \in G
      PROVE  n + 1 \in G
    <2> SUFFICES ASSUME NEW s \in SUBSET T, Cardinality(s) = n + 1 PROVE a[s] = b[s]
        OBVIOUS
    <2>1. s # {}
        BY FS_EmptySet
    <2>2. First(s) \in s /\ Cardinality(s \ {First(s)}) = n
        BY <1>0, <2>1, FirstOf
    <2>3. a[s \ {First(s)}] = b[s \ {First(s)}]
        BY <1>2, <2>2
    <2>4. f[First(s)] = g[First(s)]
        BY <2>2
    <2> QED BY <1>0, <2>1, <2>3, <2>4
<1>3. Cardinality(T) \in G
    <2>1. Cardinality(T) \in Nat
        BY FS_Subset, FS_CardinalityType
    <2> HIDE DEF G
    <2> QED BY <1>1, <1>2, <2>1, Climb
<1> QED
    BY <1>3

-----------------------------------------------------------------------------
(* Sums *)

\* Only the values over the set count.
LEMMA SumSame ==
    ASSUME NEW f, NEW g, NEW S, IsFiniteSet(S), \A x \in S : f[x] = g[x]
    PROVE  SumFunctionOnSet(f, S) = SumFunctionOnSet(g, S)
<1> DEFINE a == CHOOSE iter : Solves(iter, f, S)
           b == CHOOSE iter : Solves(iter, g, S)
<1>1. Solves(a, f, S) /\ Solves(b, g, S)
    BY Solvable
<1>2. SumFunctionOnSet(f, S) = a[S] /\ SumFunctionOnSet(g, S) = b[S]
    BY SumUnfolds
<1>3. a[S] = b[S]
    <2> HIDE DEF a, b
    <2>1. S \subseteq S
        OBVIOUS
    <2> QED BY <1>1, <2>1, Unique
<1> QED
    BY <1>2, <1>3

LEMMA SumOfNone ==
    ASSUME NEW f
    PROVE  SumFunctionOnSet(f, {}) = 0
<1> DEFINE a == CHOOSE iter : Solves(iter, f, {})
<1>1. Solves(a, f, {})
    BY FS_EmptySet, Solvable
<1>2. SumFunctionOnSet(f, {}) = a[{}]
    BY SumUnfolds
<1>3. a[{}] = 0
    <2> HIDE DEF a
    <2> QED BY <1>1 DEF Solves, Unfolds
<1> QED
    BY <1>2, <1>3

\* The first element and the others.
LEMMA SumFirst ==
    ASSUME NEW f, NEW S, IsFiniteSet(S), S # {}
    PROVE  SumFunctionOnSet(f, S) =
               f[First(S)] + SumFunctionOnSet(f, S \ {First(S)})
<1> DEFINE T == S \ {First(S)}
           a == CHOOSE iter : Solves(iter, f, S)
           b == CHOOSE iter : Solves(iter, f, T)
<1>0. T \subseteq S /\ IsFiniteSet(T)
    BY FS_Subset
<1>1. Solves(a, f, S)
    BY Solvable
<1>2. Solves(b, f, T)
    <2> HIDE DEF T
    <2> QED BY <1>0, Solvable
<1>3. SumFunctionOnSet(f, S) = a[S]
    BY SumUnfolds
<1>4. SumFunctionOnSet(f, T) = b[T]
    <2> HIDE DEF T
    <2> QED BY SumUnfolds
<1>5. a[T] = b[T]
    <2> HIDE DEF a, b, T
    <2>1. \A x \in T : f[x] = f[x]
        OBVIOUS
    <2> QED BY <1>0, <1>1, <1>2, <2>1, Unique
<1>6. a[S] = f[First(S)] + a[T]
    <2> HIDE DEF a
    <2> QED BY <1>1 DEF Solves, Unfolds
<1> QED
    BY <1>3, <1>4, <1>5, <1>6

\* A sum of integers is one.
LEMMA SumType ==
    ASSUME NEW f, NEW S, IsFiniteSet(S), \A x \in S : f[x] \in Int
    PROVE  SumFunctionOnSet(f, S) \in Int
<1> DEFINE G == {n \in Nat : \A s \in SUBSET S : Cardinality(s) = n => SumFunctionOnSet(f, s) \in Int}
<1>1. 0 \in G
    <2> SUFFICES ASSUME NEW s \in SUBSET S, Cardinality(s) = 0
                 PROVE  SumFunctionOnSet(f, s) \in Int
        OBVIOUS
    <2>0. Cardinality(s) <= 0
        OBVIOUS
    <2>1. s = {}
        BY <2>0, NoneOf
    <2> QED BY <2>1, SumOfNone
<1>2. ASSUME NEW n \in Nat, n \in G
      PROVE  n + 1 \in G
    <2> SUFFICES ASSUME NEW s \in SUBSET S, Cardinality(s) = n + 1
                 PROVE  SumFunctionOnSet(f, s) \in Int
        OBVIOUS
    <2>1. s # {}
        BY FS_EmptySet
    <2>2. /\ First(s) \in s /\ s \ {First(s)} \in SUBSET S
          /\ Cardinality(s \ {First(s)}) = n /\ IsFiniteSet(s)
        BY <2>1, FirstOf
    <2>3. SumFunctionOnSet(f, s \ {First(s)}) \in Int
        BY <1>2, <2>2
    <2>4. SumFunctionOnSet(f, s) = f[First(s)] + SumFunctionOnSet(f, s \ {First(s)})
        BY <2>1, <2>2, SumFirst
    <2> QED BY <2>2, <2>3, <2>4
<1>3. Cardinality(S) \in G
    <2>1. Cardinality(S) \in Nat
        BY FS_CardinalityType
    <2> HIDE DEF G
    <2> QED BY <1>1, <1>2, <2>1, Climb
<1> QED
    BY <1>3

\* Any element and the others.
LEMMA SumSplit ==
    ASSUME NEW f, NEW S, IsFiniteSet(S), \A x \in S : f[x] \in Int, NEW x \in S
    PROVE  SumFunctionOnSet(f, S) = f[x] + SumFunctionOnSet(f, S \ {x})
<1> DEFINE Splits(s) == \A y \in s : SumFunctionOnSet(f, s) = f[y] + SumFunctionOnSet(f, s \ {y})
           G == {n \in Nat : \A s \in SUBSET S : Cardinality(s) = n => Splits(s)}
<1>1. 0 \in G
    <2> SUFFICES ASSUME NEW s \in SUBSET S, Cardinality(s) = 0 PROVE Splits(s)
        OBVIOUS
    <2>0. Cardinality(s) <= 0
        OBVIOUS
    <2>1. s = {}
        BY <2>0, NoneOf
    <2> QED BY <2>1
<1>2. ASSUME NEW n \in Nat, n \in G
      PROVE  n + 1 \in G
    <2> SUFFICES ASSUME NEW s \in SUBSET S, Cardinality(s) = n + 1, NEW y \in s
                 PROVE  SumFunctionOnSet(f, s) = f[y] + SumFunctionOnSet(f, s \ {y})
        OBVIOUS
    <2> DEFINE c == First(s)
    <2>1. /\ c \in s /\ s \ {c} \in SUBSET S /\ IsFiniteSet(s)
          /\ Cardinality(s \ {c}) = n
          /\ SumFunctionOnSet(f, s) = f[c] + SumFunctionOnSet(f, s \ {c})
        BY FirstOf, SumFirst
    <2> HIDE DEF c
    <2>2. CASE y = c
        BY <2>1, <2>2
    <2>3. CASE y # c
        <3>1. SumFunctionOnSet(f, s \ {c}) = f[y] + SumFunctionOnSet(f, (s \ {c}) \ {y})
            BY <1>2, <2>1, <2>3
        <3>2. s \ {y} \in SUBSET S /\ c \in s \ {y}
            BY <2>1, <2>3
        <3>3. Cardinality(s \ {y}) = n
            BY <2>1, FS_RemoveElement
        <3>4. SumFunctionOnSet(f, s \ {y}) = f[c] + SumFunctionOnSet(f, (s \ {y}) \ {c})
            BY <1>2, <3>2, <3>3
        <3>5. (s \ {y}) \ {c} = (s \ {c}) \ {y}
            OBVIOUS
        <3>6. SumFunctionOnSet(f, (s \ {c}) \ {y}) \in Int
            <4> DEFINE r == (s \ {c}) \ {y}
            <4>1. r \subseteq S
                OBVIOUS
            <4> HIDE DEF r
            <4>2. IsFiniteSet(r)
                BY <4>1, FS_Subset
            <4>3. SumFunctionOnSet(f, r) \in Int
                BY <4>1, <4>2, SumType
            <4> QED BY <4>3 DEF r
        <3>7. f[c] \in Int /\ f[y] \in Int
            BY <2>1
        <3> DEFINE rest == SumFunctionOnSet(f, (s \ {c}) \ {y})
        <3>8. /\ SumFunctionOnSet(f, s) = f[c] + (f[y] + rest)
              /\ SumFunctionOnSet(f, s \ {y}) = f[c] + rest
            BY <2>1, <3>1, <3>4, <3>5
        <3>9. rest \in Int
            BY <3>6
        <3> HIDE DEF rest
        <3> QED BY <3>7, <3>8, <3>9
    <2> QED BY <2>2, <2>3
<1>3. Cardinality(S) \in G
    <2>1. Cardinality(S) \in Nat
        BY FS_CardinalityType
    <2> HIDE DEF G
    <2> QED BY <1>1, <1>2, <2>1, Climb
<1> QED
    BY <1>3

\* One more index adds its value.
LEMMA SumGrows ==
    ASSUME NEW f, NEW S, IsFiniteSet(S), NEW x, x \notin S,
           \A y \in S \cup {x} : f[y] \in Int
    PROVE  SumFunctionOnSet(f, S \cup {x}) = SumFunctionOnSet(f, S) + f[x]
<1>1. IsFiniteSet(S \cup {x})
    BY FS_AddElement
<1>2. (S \cup {x}) \ {x} = S
    OBVIOUS
<1>3. SumFunctionOnSet(f, S \cup {x}) = f[x] + SumFunctionOnSet(f, (S \cup {x}) \ {x})
    <2> DEFINE T == S \cup {x}
    <2>1. x \in T /\ IsFiniteSet(T) /\ \A y \in T : f[y] \in Int
        BY <1>1
    <2> HIDE DEF T
    <2>2. SumFunctionOnSet(f, T) = f[x] + SumFunctionOnSet(f, T \ {x})
        BY <2>1, SumSplit
    <2> QED BY <2>2 DEF T
<1>4. SumFunctionOnSet(f, S) \in Int /\ f[x] \in Int
    BY SumType
<1>5. SumFunctionOnSet(f, S \cup {x}) = f[x] + SumFunctionOnSet(f, S)
    BY <1>2, <1>3, Zenon
<1> QED
    BY <1>4, <1>5

\* What holds of the empty set, and of a set when it holds of the others than
\* one of its elements, holds of a finite set: the sets are members of G.
LEMMA ClimbSets ==
    ASSUME NEW S, IsFiniteSet(S), NEW G, {} \in G,
           \A s \in SUBSET S, x \in S : s \in G /\ x \notin s => s \cup {x} \in G
    PROVE  S \in G
<1> DEFINE N == {n \in Nat : \A s \in SUBSET S : Cardinality(s) = n => s \in G}
<1>1. 0 \in N
    <2> SUFFICES ASSUME NEW s \in SUBSET S, Cardinality(s) = 0 PROVE s \in G
        OBVIOUS
    <2>1. Cardinality(s) <= 0
        OBVIOUS
    <2> QED BY <2>1, NoneOf
<1>2. ASSUME NEW n \in Nat, n \in N
      PROVE  n + 1 \in N
    <2> SUFFICES ASSUME NEW s \in SUBSET S, Cardinality(s) = n + 1 PROVE s \in G
        OBVIOUS
    <2> DEFINE x == First(s)
               t == s \ {x}
    <2>1. s # {}
        BY FS_EmptySet
    <2>2. x \in s /\ t \in SUBSET S /\ Cardinality(t) = n
        BY <2>1, FirstOf
    <2>3. t \in G
        BY <1>2, <2>2
    <2>4. s = t \cup {x} /\ x \notin t /\ x \in S
        BY <2>2
    <2> HIDE DEF t, x
    <2>5. t \cup {x} \in G
        BY <2>2, <2>3, <2>4
    <2> QED BY <2>4, <2>5
<1>3. Cardinality(S) \in N
    <2>1. Cardinality(S) \in Nat
        BY FS_CardinalityType
    <2> HIDE DEF N
    <2> QED BY <1>1, <1>2, <2>1, Climb
<1> QED
    BY <1>3

\* A sum of smaller values is smaller; one of natural numbers is one.
LEMMA SumLess ==
    ASSUME NEW f, NEW g, NEW S, IsFiniteSet(S),
           \A x \in S : f[x] \in Int /\ g[x] \in Int /\ f[x] <= g[x]
    PROVE  SumFunctionOnSet(f, S) <= SumFunctionOnSet(g, S)
<1> DEFINE G == {s \in SUBSET S : SumFunctionOnSet(f, s) <= SumFunctionOnSet(g, s)}
<1>1. {} \in G
    BY SumOfNone
<1>2. ASSUME NEW s \in SUBSET S, NEW x \in S, s \in G, x \notin s
      PROVE  s \cup {x} \in G
    <2>1. /\ IsFiniteSet(s)
          /\ \A y \in s \cup {x} : f[y] \in Int
          /\ \A y \in s \cup {x} : g[y] \in Int
        BY FS_Subset
    <2>2. /\ SumFunctionOnSet(f, s \cup {x}) = SumFunctionOnSet(f, s) + f[x]
          /\ SumFunctionOnSet(g, s \cup {x}) = SumFunctionOnSet(g, s) + g[x]
        BY <1>2, <2>1, SumGrows
    <2>3. SumFunctionOnSet(f, s) \in Int /\ SumFunctionOnSet(g, s) \in Int
        BY <2>1, SumType
    <2>4. SumFunctionOnSet(f, s) + f[x] <= SumFunctionOnSet(g, s) + g[x]
        BY <1>2, <2>3
    <2> QED BY <2>2, <2>4
<1>3. S \in G
    <2> HIDE DEF G
    <2> QED BY <1>1, <1>2, ClimbSets
<1> QED
    BY <1>3

LEMMA SumNat ==
    ASSUME NEW f, NEW S, IsFiniteSet(S), \A x \in S : f[x] \in Nat
    PROVE  SumFunctionOnSet(f, S) \in Nat
<1> DEFINE G == {s \in SUBSET S : SumFunctionOnSet(f, s) \in Nat}
<1>1. {} \in G
    BY SumOfNone
<1>2. ASSUME NEW s \in SUBSET S, NEW x \in S, s \in G, x \notin s
      PROVE  s \cup {x} \in G
    <2>1. /\ IsFiniteSet(s)
          /\ \A y \in s \cup {x} : f[y] \in Int
        BY FS_Subset
    <2>2. SumFunctionOnSet(f, s \cup {x}) = SumFunctionOnSet(f, s) + f[x]
        BY <1>2, <2>1, SumGrows
    <2> QED BY <1>2, <2>2
<1>3. S \in G
    <2> HIDE DEF G
    <2> QED BY <1>1, <1>2, ClimbSets
<1> QED
    BY <1>3

\* A value is at most the sum it belongs to.
LEMMA SumCovers ==
    ASSUME NEW f, NEW S, IsFiniteSet(S), \A x \in S : f[x] \in Nat, NEW x \in S
    PROVE  f[x] <= SumFunctionOnSet(f, S)
<1>1. SumFunctionOnSet(f, S) = f[x] + SumFunctionOnSet(f, S \ {x})
    BY SumSplit
<1>2. SumFunctionOnSet(f, S \ {x}) \in Nat
    <2> DEFINE T == S \ {x}
    <2>1. IsFiniteSet(T) /\ \A y \in T : f[y] \in Nat
        BY FS_Subset
    <2> HIDE DEF T
    <2>2. SumFunctionOnSet(f, T) \in Nat
        BY <2>1, SumNat
    <2> QED BY <2>2 DEF T
<1>3. f[x] \in Nat
    OBVIOUS
<1> QED
    BY <1>1, <1>2, <1>3

\* Changing one value changes the sum by the difference.
LEMMA SumChange ==
    ASSUME NEW f, NEW g, NEW S, IsFiniteSet(S), NEW x \in S,
           \A y \in S : f[y] \in Int /\ g[y] \in Int,
           \A y \in S \ {x} : f[y] = g[y]
    PROVE  SumFunctionOnSet(g, S) = SumFunctionOnSet(f, S) - f[x] + g[x]
<1> DEFINE T == S \ {x}
<1>1. /\ SumFunctionOnSet(f, S) = f[x] + SumFunctionOnSet(f, T)
      /\ SumFunctionOnSet(g, S) = g[x] + SumFunctionOnSet(g, T)
    BY SumSplit
<1>2. IsFiniteSet(T) /\ (\A y \in T : f[y] = g[y]) /\ \A y \in T : f[y] \in Int
    BY FS_Subset
<1>3. f[x] \in Int /\ g[x] \in Int
    OBVIOUS
<1> HIDE DEF T
<1>4. SumFunctionOnSet(f, T) = SumFunctionOnSet(g, T) /\ SumFunctionOnSet(f, T) \in Int
    BY <1>2, SumSame, SumType
<1> QED
    BY <1>1, <1>3, <1>4

\* The sum of the sums of two values.
LEMMA SumPlus ==
    ASSUME NEW f, NEW g, NEW h, NEW S, IsFiniteSet(S),
           \A x \in S : f[x] \in Int /\ g[x] \in Int /\ h[x] = f[x] + g[x]
    PROVE  SumFunctionOnSet(h, S) = SumFunctionOnSet(f, S) + SumFunctionOnSet(g, S)
<1> DEFINE G == {s \in SUBSET S :
                    SumFunctionOnSet(h, s) = SumFunctionOnSet(f, s) + SumFunctionOnSet(g, s)}
<1>1. {} \in G
    BY SumOfNone
<1>2. ASSUME NEW s \in SUBSET S, NEW x \in S, s \in G, x \notin s
      PROVE  s \cup {x} \in G
    <2>1. /\ IsFiniteSet(s)
          /\ \A y \in s \cup {x} : f[y] \in Int
          /\ \A y \in s \cup {x} : g[y] \in Int
          /\ \A y \in s \cup {x} : h[y] \in Int
        BY FS_Subset
    <2>2. /\ SumFunctionOnSet(f, s \cup {x}) = SumFunctionOnSet(f, s) + f[x]
          /\ SumFunctionOnSet(g, s \cup {x}) = SumFunctionOnSet(g, s) + g[x]
          /\ SumFunctionOnSet(h, s \cup {x}) = SumFunctionOnSet(h, s) + h[x]
        BY <1>2, <2>1, SumGrows
    <2>3. SumFunctionOnSet(f, s) \in Int /\ SumFunctionOnSet(g, s) \in Int
        BY <2>1, SumType
    <2>4. /\ SumFunctionOnSet(h, s) = SumFunctionOnSet(f, s) + SumFunctionOnSet(g, s)
          /\ h[x] = f[x] + g[x] /\ f[x] \in Int /\ g[x] \in Int
        BY <1>2
    <2>5. SumFunctionOnSet(h, s \cup {x})
             = SumFunctionOnSet(f, s \cup {x}) + SumFunctionOnSet(g, s \cup {x})
        BY <2>2, <2>3, <2>4
    <2> QED BY <2>5
<1>3. S \in G
    <2> HIDE DEF G
    <2> QED BY <1>1, <1>2, ClimbSets
<1> QED
    BY <1>3

\* The sum over a part is the sum over the whole of what the part contributes.
LEMMA SumOfPart ==
    ASSUME NEW f, NEW g, NEW S, IsFiniteSet(S), NEW T \in SUBSET S,
           \A x \in T : f[x] \in Int,
           \A x \in S : g[x] = IF x \in T THEN f[x] ELSE 0
    PROVE  SumFunctionOnSet(f, T) = SumFunctionOnSet(g, S)
<1> DEFINE G == {s \in SUBSET S : SumFunctionOnSet(f, s \cap T) = SumFunctionOnSet(g, s)}
<1>1. {} \in G
    <2>1. {} \cap T = {}
        OBVIOUS
    <2> QED BY <2>1, SumOfNone
<1>2. ASSUME NEW s \in SUBSET S, NEW x \in S, s \in G, x \notin s
      PROVE  s \cup {x} \in G
    <2>1. /\ IsFiniteSet(s) /\ IsFiniteSet(s \cap T)
          /\ \A y \in s \cup {x} : g[y] \in Int
        <3>1. IsFiniteSet(s) /\ IsFiniteSet(s \cap T)
            BY FS_Subset
        <3> QED BY <3>1
    <2>2. SumFunctionOnSet(g, s \cup {x}) = SumFunctionOnSet(g, s) + g[x]
        BY <1>2, <2>1, SumGrows
    <2>3. SumFunctionOnSet(g, s) \in Int
        BY <2>1, SumType
    <2>4. SumFunctionOnSet(f, s \cap T) = SumFunctionOnSet(g, s)
        BY <1>2
    <2>5. CASE x \in T
        <3>1. (s \cup {x}) \cap T = (s \cap T) \cup {x}
            BY <2>5
        <3>2. SumFunctionOnSet(f, (s \cap T) \cup {x}) = SumFunctionOnSet(f, s \cap T) + f[x]
            <4> DEFINE u == s \cap T
            <4>1. IsFiniteSet(u) /\ x \notin u /\ \A y \in u \cup {x} : f[y] \in Int
                BY <1>2, <2>1, <2>5
            <4> HIDE DEF u
            <4>2. SumFunctionOnSet(f, u \cup {x}) = SumFunctionOnSet(f, u) + f[x]
                BY <4>1, SumGrows
            <4> QED BY <4>2 DEF u
        <3>3. g[x] = f[x]
            BY <2>5
        <3>4. SumFunctionOnSet(f, (s \cup {x}) \cap T) = SumFunctionOnSet(g, s \cup {x})
            BY <2>2, <2>4, <3>1, <3>2, <3>3
        <3> QED BY <3>4
    <2>6. CASE x \notin T
        <3>1. (s \cup {x}) \cap T = s \cap T
            BY <2>6
        <3>2. g[x] = 0
            BY <2>6
        <3>3. SumFunctionOnSet(f, (s \cup {x}) \cap T) = SumFunctionOnSet(g, s \cup {x})
            <4>1. SumFunctionOnSet(f, (s \cup {x}) \cap T) = SumFunctionOnSet(f, s \cap T)
                BY <3>1, Zenon
            <4> QED BY <2>2, <2>3, <2>4, <3>2, <4>1
        <3> QED BY <3>3
    <2> QED BY <2>5, <2>6
<1>3. S \in G
    <2> HIDE DEF G
    <2> QED BY <1>1, <1>2, ClimbSets
<1>4. S \cap T = T
    OBVIOUS
<1> QED
    BY <1>3, <1>4

\* A finite set of integers that is not empty has a largest element.
LEMMA LargestExists ==
    ASSUME NEW S \in SUBSET Int, IsFiniteSet(S), S # {}
    PROVE  \E x \in S : \A y \in S : x >= y
<1> DEFINE G == {s \in SUBSET S : s # {} => \E x \in s : \A y \in s : x >= y}
<1>1. {} \in G
    OBVIOUS
<1>2. ASSUME NEW s \in SUBSET S, NEW z \in S, s \in G, z \notin s
      PROVE  s \cup {z} \in G
    <2>1. CASE s = {}
        <3>1. s \cup {z} = {z} /\ z >= z
            BY <2>1
        <3> QED BY <3>1
    <2>2. CASE s # {}
        <3>1. PICK x \in s : \A y \in s : x >= y
            BY <1>2, <2>2
        <3>2. CASE x >= z
            <4>1. \A y \in s \cup {z} : x >= y
                BY <3>1, <3>2
            <4>2. \E m \in s \cup {z} : \A y \in s \cup {z} : m >= y
                BY <4>1
            <4> QED BY <4>2
        <3>3. CASE ~(x >= z)
            <4>1. \A y \in s \cup {z} : z >= y
                BY <3>1, <3>3
            <4>2. \E m \in s \cup {z} : \A y \in s \cup {z} : m >= y
                BY <4>1
            <4> QED BY <4>2
        <3> QED BY <3>2, <3>3
    <2> QED BY <2>1, <2>2
<1>3. S \in G
    <2> HIDE DEF G
    <2> QED BY <1>1, <1>2, ClimbSets
<1> QED
    BY <1>3
=============================================================================
