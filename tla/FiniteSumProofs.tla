--------------------------- MODULE FiniteSumProofs ---------------------------
(***************************************************************************)
(* Induction without a rule of induction, by a smallest counterexample;    *)
(* that a sum is what its recursive definition says, for every finite set; *)
(* the laws of sums that follow; and the same for loops over a sequence.   *)
(***************************************************************************)
EXTENDS FiniteSums, FiniteSetTheorems, SequenceTheorems, WellFoundedInduction,
        TLAPS

\* A nonempty set of natural numbers has a smallest element.
LEMMA LeastElement ==
    ASSUME NEW T, T \subseteq Nat, T # {}
    PROVE  \E x \in T : \A y \in T : x <= y
<1>1. PICK x \in T : \A y \in T : ~(<<y, x>> \in OpToRel(<, Nat))
  BY NatLessThanWellFounded, WFMin
<1>2. \A y \in T : ~(y < x)
  BY <1>1 DEF OpToRel
<1> QED
  BY <1>2

\* What holds at the start of a loop, and after each step if it did before.
LEMMA CountsUp ==
    ASSUME NEW n \in Nat, NEW S, 0 \in S,
           \A k \in 1..n : k - 1 \in S => k \in S
    PROVE  0..n \subseteq S
<1> DEFINE Wrong == (0..n) \ S
<1> SUFFICES ASSUME Wrong # {} PROVE FALSE
  OBVIOUS
<1>1. PICK k \in Wrong : \A j \in Wrong : k <= j
  <2> Wrong \subseteq Nat
    OBVIOUS
  <2> HIDE DEF Wrong
  <2> QED
    BY LeastElement
<1>2. k \in 1..n /\ k - 1 \in 0..n /\ k - 1 \notin Wrong
  BY <1>1
<1> QED
  BY <1>1, <1>2

\* A sequence that is written down is the function it is written from.
LEMMA WrittenDown ==
    ASSUME NEW n \in Nat, NEW f, f = [i \in 1..n |-> f[i]]
    PROVE  /\ <<>> \o f = f /\ Len(f) = n /\ DOMAIN f = 1..n
           /\ \A S : (\A i \in 1..n : f[i] \in S) => f \in Seq(S)
<1>1. f \in Seq({f[i] : i \in 1..n})
  OBVIOUS
<1>2. <<>> \o f = f /\ Len(f) = n
  BY <1>1
<1>3. ASSUME NEW S, \A i \in 1..n : f[i] \in S PROVE f \in Seq(S)
  BY <1>3
<1> QED
  BY <1>2, <1>3

\* Of the subsets of a finite set that have some property, there is one of
\* which no proper subset has it.
LEMMA SmallestSubset ==
    ASSUME NEW S, IsFiniteSet(S), NEW A, A \subseteq SUBSET S, A # {}
    PROVE  \E T \in A : \A U \in SUBSET T : U \in A => U = T
<1> DEFINE C == {Cardinality(T) : T \in A}
<1>1. \A T \in SUBSET S : IsFiniteSet(T) /\ Cardinality(T) \in Nat
  BY FS_Subset, FS_CardinalityType
<1>2. C \subseteq Nat /\ C # {}
  BY <1>1
<1>3. PICK n \in C : \A m \in C : n <= m
  BY <1>2, LeastElement
<1>4. PICK T \in A : n = Cardinality(T)
  BY <1>3
<1>5. ASSUME NEW U \in SUBSET T, U \in A PROVE U = T
  <2>1. IsFiniteSet(T) /\ Cardinality(T) \in Nat /\ Cardinality(U) \in Nat
    BY <1>1, <1>5
  <2>2. Cardinality(U) <= Cardinality(T)
    BY <2>1, FS_Subset
  <2>3. Cardinality(T) <= Cardinality(U)
    BY <1>3, <1>4, <1>5
  <2>4. Cardinality(T) = Cardinality(U)
    BY <2>1, <2>2, <2>3
  <2> QED
    BY <2>1, <2>4, FS_Subset
<1> QED
  BY <1>4, <1>5

\* What holds of the empty set, and of a set if it holds without one of the
\* elements, holds of every finite set.
LEMMA SubsetInduction ==
    ASSUME NEW S, IsFiniteSet(S), NEW A, {} \in A,
           \A T \in SUBSET S : \A x \in T : T \ {x} \in A => T \in A
    PROVE  S \in A
<1> DEFINE Wrong == {T \in SUBSET S : T \notin A}
<1> SUFFICES ASSUME Wrong # {} PROVE FALSE
  OBVIOUS
<1>1. PICK T \in Wrong : \A U \in SUBSET T : U \in Wrong => U = T
  <2> Wrong \subseteq SUBSET S
    OBVIOUS
  <2> HIDE DEF Wrong
  <2> QED
    BY SmallestSubset
<1>2. PICK x \in T : TRUE
  <2> T \notin A
    BY <1>1
  <2> T # {}
    OBVIOUS
  <2> QED
    OBVIOUS
<1>3. T \ {x} \in SUBSET T /\ T \ {x} # T
  BY <1>2
<1>4. T \ {x} \in A
  BY <1>1, <1>3
<1> QED
  BY <1>1, <1>2, <1>4

\* G computes the value at d from those at arguments of a smaller rank, of which
\* there are K.
Determined(D, V, rank, K, G) ==
    /\ K \in Nat /\ rank \in [D -> Nat] /\ \A d \in D : rank[d] < K
    /\ G \in [[D -> V] -> [D -> V]]
    /\ \A f, g \in [D -> V] : \A d \in D :
          (\A e \in D : rank[e] < rank[d] => f[e] = g[e]) => G[f][d] = G[g][d]

\* Then there is a function that G maps to itself: a recursive definition
\* defines what it says.
LEMMA RecursionExists ==
    ASSUME NEW D, NEW V, NEW rank, NEW K, NEW G, V # {},
           Determined(D, V, rank, K, G)
    PROVE  \E f \in [D -> V] : f = G[f]
<1> USE DEF Determined
<1> DEFINE Upto(k) == \E f \in [D -> V] :
                         \A d \in D : rank[d] < k => f[d] = G[f][d]
           Wrong == {k \in Nat : ~Upto(k)}
<1>1. Wrong = {}
  <2> SUFFICES ASSUME Wrong # {} PROVE FALSE
    OBVIOUS
  <2>1. PICK k \in Wrong : \A j \in Wrong : k <= j
    <3> Wrong \subseteq Nat
      OBVIOUS
    <3> HIDE DEF Wrong
    <3> QED
      BY LeastElement
  <2>2. k \in Nat /\ ~Upto(k)
    BY <2>1
  <2>3. k # 0
    <3>1. PICK v \in V : TRUE
      OBVIOUS
    <3>2. PICK f \in [D -> V] : TRUE
      <4> [d \in D |-> v] \in [D -> V]
        OBVIOUS
      <4> QED
        OBVIOUS
    <3>3. \A d \in D : ~(rank[d] < 0)
      OBVIOUS
    <3>4. Upto(0)
      BY <3>2, <3>3
    <3> QED
      BY <2>2, <3>4
  <2>4. Upto(k - 1)
    BY <2>1, <2>2, <2>3
  <2>5. PICK f \in [D -> V] : \A d \in D : rank[d] < k - 1 => f[d] = G[f][d]
    BY <2>4
  <2> DEFINE g == G[f]
  <2>6. g \in [D -> V]
    OBVIOUS
  <2>7. \A d \in D : rank[d] < k - 1 => f[d] = g[d]
    BY <2>5
  <2> HIDE DEF g
  <2>8. ASSUME NEW d \in D, rank[d] < k PROVE g[d] = G[g][d]
    <3>1. \A e \in D : rank[e] < rank[d] => f[e] = g[e]
      BY <2>2, <2>7, <2>8
    <3>2. G[f][d] = G[g][d]
      BY <2>6, <3>1
    <3> QED
      BY <3>2 DEF g
  <2>9. Upto(k)
    BY <2>6, <2>8
  <2> QED
    BY <2>2, <2>9
<1>2. Upto(K)
  BY <1>1
<1>3. PICK f \in [D -> V] : \A d \in D : f[d] = G[f][d]
  BY <1>2
<1>4. G[f] \in [D -> V]
  OBVIOUS
<1> QED
  BY <1>3, <1>4

-----------------------------------------------------------------------------
(***************************************************************************)
(* The recursive definition of a sum.                                      *)
(***************************************************************************)
Chosen(T) == CHOOSE x \in T : TRUE

\* g gives the sums over the subsets of S.
IsSum(f, S, g) ==
    g = [T \in SUBSET S |->
            IF T = {} THEN 0 ELSE f[Chosen(T)] + g[T \ {Chosen(T)}]]

LEMMA SumIsChosen ==
    \A f, S : SumOver(f, S) = (CHOOSE g : IsSum(f, S, g))[S]
BY DEF SumOver, MapThenSumSet, MapThenFoldSet, IsSum, Chosen

\* What a sum takes off one element after the other.
LEMMA SumByChoice ==
    ASSUME NEW f, NEW S, IsFiniteSet(S)
    PROVE  SumOver(f, S) = IF S = {} THEN 0
                           ELSE f[Chosen(S)] + SumOver(f, S \ {Chosen(S)})
<1> DEFINE Next(T) == IF T = {} THEN 0
                      ELSE f[Chosen(T)] + SumOver(f, T \ {Chosen(T)})
           Wrong == {T \in SUBSET S : SumOver(f, T) # Next(T)}
<1> SUFFICES ASSUME Wrong # {} PROVE FALSE
  OBVIOUS
<1>1. PICK T \in Wrong : \A U \in SUBSET T : U \in Wrong => U = T
  <2> Wrong \subseteq SUBSET S
    OBVIOUS
  <2> HIDE DEF Wrong
  <2> QED
    BY SmallestSubset
<1>2. T \in SUBSET S /\ SumOver(f, T) # Next(T)
  BY <1>1
<1>3. \A U \in SUBSET T : U # T => SumOver(f, U) = Next(U)
  BY <1>1, <1>2
<1>4. \A U \in SUBSET T : U # {} => /\ Chosen(U) \in U
                                    /\ U \ {Chosen(U)} \in SUBSET T
                                    /\ U \ {Chosen(U)} # T
  BY DEF Chosen
<1> DEFINE g == [U \in SUBSET T |-> Next(U)]
<1>5. IsSum(f, T, g)
  <2>1. \A U \in SUBSET T : U # {} =>
           g[U \ {Chosen(U)}] = SumOver(f, U \ {Chosen(U)})
    BY <1>3, <1>4
  <2>2. \A U \in SUBSET T :
           g[U] = IF U = {} THEN 0 ELSE f[Chosen(U)] + g[U \ {Chosen(U)}]
    BY <2>1
  <2> QED
    BY <2>2 DEF IsSum
<1> DEFINE h == CHOOSE i : IsSum(f, T, i)
<1>6. IsSum(f, T, h)
  <2> HIDE DEF g
  <2> QED
    BY <1>5
<1>7. SumOver(f, T) = h[T]
  BY SumIsChosen
<1> HIDE DEF h, g
<1>8. \A U \in SUBSET T : g[U] = h[U]
  <2> DEFINE Differ == {U \in SUBSET T : g[U] # h[U]}
  <2> SUFFICES ASSUME Differ # {} PROVE FALSE
    OBVIOUS
  <2>1. IsFiniteSet(T)
    BY <1>2, FS_Subset
  <2>2. PICK U \in Differ : \A V \in SUBSET U : V \in Differ => V = U
    <3> Differ \subseteq SUBSET T
      OBVIOUS
    <3> HIDE DEF Differ
    <3> QED
      BY <2>1, SmallestSubset
  <2>3. U \in SUBSET T /\ g[U] # h[U]
    BY <2>2
  <2>4. U # {}
    BY <2>3, <1>5, <1>6 DEF IsSum
  <2>5. g[U \ {Chosen(U)}] = h[U \ {Chosen(U)}]
    BY <2>2, <2>3, <2>4, <1>4
  <2> QED
    BY <2>3, <2>4, <2>5, <1>5, <1>6 DEF IsSum
<1>9. h[T] = g[T]
  BY <1>8
<1>10. g[T] = Next(T)
  BY DEF g
<1> QED
  BY <1>2, <1>7, <1>9, <1>10

LEMMA SumEmpty ==
    \A f : SumOver(f, {}) = 0
BY SumByChoice, FS_EmptySet

\* A sum of integers is an integer.
LEMMA SumInteger ==
    ASSUME NEW f, NEW S, IsFiniteSet(S), \A x \in S : f[x] \in Int
    PROVE  SumOver(f, S) \in Int
<1> DEFINE Wrong == {T \in SUBSET S : SumOver(f, T) \notin Int}
<1> SUFFICES ASSUME Wrong # {} PROVE FALSE
  OBVIOUS
<1>1. PICK T \in Wrong : \A U \in SUBSET T : U \in Wrong => U = T
  <2> Wrong \subseteq SUBSET S
    OBVIOUS
  <2> HIDE DEF Wrong
  <2> QED
    BY SmallestSubset
<1>2. T \in SUBSET S /\ SumOver(f, T) \notin Int /\ IsFiniteSet(T)
  BY <1>1, FS_Subset
<1>3. T # {}
  BY <1>2, SumEmpty
<1>4. Chosen(T) \in T
  BY <1>3 DEF Chosen
<1>5. SumOver(f, T \ {Chosen(T)}) \in Int /\ f[Chosen(T)] \in Int
  BY <1>1, <1>2, <1>4
<1> QED
  BY <1>2, <1>3, <1>5, SumByChoice

\* Any element may be taken off first.
LEMMA SumTakeOff ==
    ASSUME NEW f, NEW S, IsFiniteSet(S), \A y \in S : f[y] \in Int, NEW x \in S
    PROVE  SumOver(f, S) = f[x] + SumOver(f, S \ {x})
<1> DEFINE Wrong == {T \in SUBSET S : \E y \in T :
                        SumOver(f, T) # f[y] + SumOver(f, T \ {y})}
<1> SUFFICES ASSUME Wrong # {} PROVE FALSE
  OBVIOUS
<1>1. PICK T \in Wrong : \A U \in SUBSET T : U \in Wrong => U = T
  <2> Wrong \subseteq SUBSET S
    OBVIOUS
  <2> HIDE DEF Wrong
  <2> QED
    BY SmallestSubset
<1>2. PICK y \in T : SumOver(f, T) # f[y] + SumOver(f, T \ {y})
  BY <1>1
<1>3. \A U \in SUBSET T : U # T =>
         \A z \in U : SumOver(f, U) = f[z] + SumOver(f, U \ {z})
  BY <1>1
<1>4. T \in SUBSET S /\ \A U \in SUBSET T : IsFiniteSet(U)
  BY <1>1, FS_Subset
<1> DEFINE c == Chosen(T)
<1>5. c \in T
  BY <1>2 DEF Chosen
<1>6. SumOver(f, T) = f[c] + SumOver(f, T \ {c})
  BY <1>2, <1>4, SumByChoice
<1> HIDE DEF c
<1>7. c # y
  BY <1>2, <1>6
<1>8. SumOver(f, T \ {c}) = f[y] + SumOver(f, (T \ {c}) \ {y})
  BY <1>2, <1>3, <1>5, <1>7
<1>9. SumOver(f, T \ {y}) = f[c] + SumOver(f, (T \ {c}) \ {y})
  <2>1. (T \ {y}) \ {c} = (T \ {c}) \ {y}
    OBVIOUS
  <2> QED
    BY <1>2, <1>3, <1>5, <1>7, <2>1
<1> DEFINE rest == SumOver(f, (T \ {c}) \ {y})
<1>10. f[c] \in Int /\ f[y] \in Int /\ rest \in Int
  BY <1>2, <1>4, <1>5, SumInteger
<1>11. SumOver(f, T) = f[c] + (f[y] + rest) /\ SumOver(f, T \ {y}) = f[c] + rest
  BY <1>6, <1>8, <1>9
<1> HIDE DEF rest
<1>12. f[c] + (f[y] + rest) = f[y] + (f[c] + rest)
  BY <1>10
<1> QED
  BY <1>2, <1>11, <1>12

LEMMA SumAdd ==
    ASSUME NEW f, NEW S, IsFiniteSet(S), NEW x, x \notin S,
           \A y \in S \cup {x} : f[y] \in Int
    PROVE  SumOver(f, S \cup {x}) = f[x] + SumOver(f, S)
<1>1. IsFiniteSet(S \cup {x}) /\ (S \cup {x}) \ {x} = S
  BY FS_AddElement
<1> QED
  BY <1>1, SumTakeOff

LEMMA SumNatural ==
    ASSUME NEW f, NEW S, IsFiniteSet(S), \A x \in S : f[x] \in Nat
    PROVE  SumOver(f, S) \in Nat
<1> DEFINE A == {T \in SUBSET S : SumOver(f, T) \in Nat}
<1>1. {} \in A
  BY SumEmpty
<1>2. ASSUME NEW T \in SUBSET S, NEW x \in T, T \ {x} \in A PROVE T \in A
  <2>1. SumOver(f, T) = f[x] + SumOver(f, T \ {x})
    BY FS_Subset, SumTakeOff
  <2> QED
    BY <1>2, <2>1
<1> HIDE DEF A
<1>3. S \in A
  BY <1>1, <1>2, SubsetInduction
<1> QED
  BY <1>3 DEF A

\* A sum depends on the values at its elements only.
LEMMA SumAgrees ==
    ASSUME NEW f, NEW g, NEW S, IsFiniteSet(S),
           \A x \in S : f[x] \in Int /\ g[x] = f[x]
    PROVE  SumOver(f, S) = SumOver(g, S)
<1> DEFINE A == {T \in SUBSET S : SumOver(f, T) = SumOver(g, T)}
<1>1. {} \in A
  BY SumEmpty
<1>2. ASSUME NEW T \in SUBSET S, NEW x \in T, T \ {x} \in A PROVE T \in A
  <2>1. /\ SumOver(f, T) = f[x] + SumOver(f, T \ {x})
        /\ SumOver(g, T) = g[x] + SumOver(g, T \ {x})
    BY FS_Subset, SumTakeOff
  <2> QED
    BY <1>2, <2>1
<1> HIDE DEF A
<1>3. S \in A
  BY <1>1, <1>2, SubsetInduction
<1> QED
  BY <1>3 DEF A

\* No term exceeds a sum of natural numbers.
LEMMA TermAtMostSum ==
    ASSUME NEW f, NEW S, IsFiniteSet(S), \A y \in S : f[y] \in Nat, NEW x \in S
    PROVE  f[x] <= SumOver(f, S)
<1>1. SumOver(f, S) = f[x] + SumOver(f, S \ {x})
  BY SumTakeOff
<1>2. SumOver(f, S \ {x}) \in Nat
  BY FS_Subset, SumNatural
<1> QED
  BY <1>1, <1>2

LEMMA SumZero ==
    ASSUME NEW f, NEW S, IsFiniteSet(S), \A x \in S : f[x] = 0
    PROVE  SumOver(f, S) = 0
<1> DEFINE A == {T \in SUBSET S : SumOver(f, T) = 0}
<1>1. {} \in A
  BY SumEmpty
<1>2. ASSUME NEW T \in SUBSET S, NEW x \in T, T \ {x} \in A PROVE T \in A
  <2>1. SumOver(f, T) = f[x] + SumOver(f, T \ {x})
    BY FS_Subset, SumTakeOff
  <2> QED
    BY <1>2, <2>1
<1> HIDE DEF A
<1>3. S \in A
  BY <1>1, <1>2, SubsetInduction
<1> QED
  BY <1>3 DEF A

\* A sum of which all terms but one are zero.
LEMMA SumOfOne ==
    ASSUME NEW f, NEW S, IsFiniteSet(S), NEW x \in S, f[x] \in Int,
           \A y \in S \ {x} : f[y] = 0
    PROVE  SumOver(f, S) = f[x]
<1>1. SumOver(f, S) = f[x] + SumOver(f, S \ {x})
  BY SumTakeOff
<1>2. SumOver(f, S \ {x}) = 0
  BY FS_Subset, SumZero
<1> QED
  BY <1>1, <1>2

\* Sums over sets that have nothing in common add up.
LEMMA SumJoin ==
    ASSUME NEW f, NEW S, NEW T, IsFiniteSet(S), IsFiniteSet(T),
           S \cap T = {}, \A x \in S \cup T : f[x] \in Int
    PROVE  SumOver(f, S \cup T) = SumOver(f, S) + SumOver(f, T)
<1> DEFINE A == {U \in SUBSET S :
                    SumOver(f, U \cup T) = SumOver(f, U) + SumOver(f, T)}
<1>1. {} \in A
  <2>1. {} \cup T = T /\ SumOver(f, T) \in Int
    BY SumInteger
  <2> QED
    BY <2>1, SumEmpty
<1>2. ASSUME NEW U \in SUBSET S, NEW x \in U, U \ {x} \in A PROVE U \in A
  <2>1. IsFiniteSet(U) /\ IsFiniteSet(U \cup T) /\ IsFiniteSet(U \ {x})
    BY FS_Subset, FS_Union
  <2>2. SumOver(f, U) = f[x] + SumOver(f, U \ {x})
    BY <2>1, SumTakeOff
  <2>3. SumOver(f, U \cup T) = f[x] + SumOver(f, (U \cup T) \ {x})
    BY <2>1, SumTakeOff
  <2>4. (U \cup T) \ {x} = (U \ {x}) \cup T
    OBVIOUS
  <2>5. SumOver(f, (U \ {x}) \cup T) = SumOver(f, U \ {x}) + SumOver(f, T)
    BY <1>2
  <2>6. /\ f[x] \in Int /\ SumOver(f, U \ {x}) \in Int
        /\ SumOver(f, T) \in Int
    BY <2>1, SumInteger
  <2>7. SumOver(f, U \cup T) = f[x] + (SumOver(f, U \ {x}) + SumOver(f, T))
    BY <2>3, <2>4, <2>5
  <2>8. SumOver(f, U \cup T) = SumOver(f, U) + SumOver(f, T)
    BY <2>2, <2>6, <2>7
  <2> QED
    BY <2>8
<1> HIDE DEF A
<1>3. S \in A
  BY <1>1, <1>2, SubsetInduction
<1> QED
  BY <1>3 DEF A

-----------------------------------------------------------------------------
(***************************************************************************)
(* Loops over a sequence.                                                  *)
(***************************************************************************)
\* The next value of a loop from the last one and the next element.
IsStep(step, V, E) == step \in [V \X E -> V]

\* f gives what a loop over s has come to after each of its elements.
IsLoop(f, s, first, step) ==
    f = [k \in 0..Len(s) |-> IF k = 0 THEN first ELSE step[<<f[k - 1], s[k]>>]]
Loop(s, first, step) == (CHOOSE f : IsLoop(f, s, first, step))[Len(s)]

LEMMA LoopExists ==
    ASSUME NEW E, NEW s \in Seq(E), NEW V, NEW first \in V,
           NEW step, IsStep(step, V, E)
    PROVE  \E f \in [0..Len(s) -> V] : IsLoop(f, s, first, step)
<1> USE DEF IsStep
<1> DEFINE n == Len(s)
           D == 0..n
           Body(f) == [k \in D |-> IF k = 0 THEN first
                                   ELSE step[<<f[k - 1], s[k]>>]]
           G == [f \in [D -> V] |-> Body(f)]
           rank == [k \in D |-> k]
           K == n + 1
<1>1. n \in Nat /\ \A k \in D : k # 0 => s[k] \in E /\ k - 1 \in D
  OBVIOUS
<1>2. K \in Nat /\ rank \in [D -> Nat] /\ \A k \in D : rank[k] < K
  OBVIOUS
<1>3. \A k \in D : k # 0 => rank[k - 1] < rank[k]
  BY <1>1
<1> HIDE DEF n, D, rank, K
<1>4. G \in [[D -> V] -> [D -> V]]
  <2>1. ASSUME NEW f \in [D -> V], NEW k \in D
        PROVE  (IF k = 0 THEN first ELSE step[<<f[k - 1], s[k]>>]) \in V
    BY <1>1
  <2> QED
    BY <2>1
<1>5. ASSUME NEW f \in [D -> V], NEW g \in [D -> V], NEW i \in D,
             \A j \in D : rank[j] < rank[i] => f[j] = g[j]
      PROVE  G[f][i] = G[g][i]
  <2>1. i # 0 => f[i - 1] = g[i - 1]
    BY <1>1, <1>3, <1>5
  <2> QED
    BY <2>1
<1>6. PICK f \in [D -> V] : f = G[f]
  <2> HIDE DEF G
  <2>1. Determined(D, V, rank, K, G)
    BY <1>2, <1>4, <1>5 DEF Determined
  <2> QED
    BY <2>1, RecursionExists
<1> QED
  BY <1>6 DEF IsLoop, D, n

\* As long as its values are in V, g takes the steps of the loop.
Follows(g, s, first, step, V) ==
    /\ g[0] = first
    /\ \A k \in 1..Len(s) :
           g[k - 1] \in V => g[k] = step[<<g[k - 1], s[k]>>]

\* Whatever is defined like a loop, where its values are as they should be, is
\* the loop.
LEMMA LoopIsFound ==
    ASSUME NEW E, NEW s \in Seq(E), NEW V, NEW first \in V,
           NEW step, IsStep(step, V, E), NEW g,
           Follows(g, s, first, step, V)
    PROVE  Loop(s, first, step) \in V /\ g[Len(s)] = Loop(s, first, step)
<1> DEFINE n == Len(s)
           f == CHOOSE f : IsLoop(f, s, first, step)
<1>1. n \in Nat /\ \A k \in 1..n : s[k] \in E /\ k - 1 \in 0..n
  OBVIOUS
<1>2. IsLoop(f, s, first, step)
  BY LoopExists
<1> HIDE DEF f
<1>3. f[0] = first /\ \A k \in 1..n : f[k] = step[<<f[k - 1], s[k]>>]
  BY <1>1, <1>2 DEF IsLoop
<1> USE DEF Follows, IsStep
<1>4. \A k \in 0..n : f[k] \in V /\ f[k] = g[k]
  <2> DEFINE Wrong == {k \in 0..n : ~(f[k] \in V /\ f[k] = g[k])}
  <2> SUFFICES ASSUME Wrong # {} PROVE FALSE
    OBVIOUS
  <2>1. PICK k \in Wrong : \A j \in Wrong : k <= j
    <3> Wrong \subseteq Nat
      BY <1>1
    <3> HIDE DEF Wrong
    <3> QED
      BY LeastElement
  <2>2. k # 0
    BY <1>3, <2>1
  <2>3. k \in 1..n /\ k - 1 \in 0..n /\ k - 1 \notin Wrong
    BY <1>1, <2>1, <2>2
  <2>4. f[k - 1] \in V /\ g[k - 1] = f[k - 1]
    BY <2>3
  <2>5. f[k] = step[<<f[k - 1], s[k]>>] /\ g[k] = f[k]
    BY <1>3, <2>3, <2>4
  <2>6. f[k] \in V
    BY <1>1, <2>3, <2>4, <2>5
  <2> QED
    BY <2>1, <2>5, <2>6
<1> QED
  BY <1>1, <1>4 DEF Loop, f

\* A loop over one more element does one more step.
LEMMA LoopAppend ==
    ASSUME NEW E, NEW V, NEW first \in V, NEW step, IsStep(step, V, E)
    PROVE  /\ Loop(<<>>, first, step) = first
           /\ \A s \in Seq(E) : Loop(s, first, step) \in V
           /\ \A s \in Seq(E), e \in E :
                  Loop(Append(s, e), first, step)
                      = step[<<Loop(s, first, step), e>>]
<1>0. \A s \in Seq(E) : \A g :
          Follows(g, s, first, step, V) => g[Len(s)] = Loop(s, first, step)
  <2> SUFFICES ASSUME NEW s \in Seq(E), NEW g, Follows(g, s, first, step, V)
               PROVE  g[Len(s)] = Loop(s, first, step)
    OBVIOUS
  <2> QED
    BY LoopIsFound
<1>1. ASSUME NEW s \in Seq(E)
      PROVE  \E f \in [0..Len(s) -> V] :
                 /\ f[0] = first /\ f[Len(s)] = Loop(s, first, step)
                 /\ \A k \in 1..Len(s) : f[k] = step[<<f[k - 1], s[k]>>]
  <2>1. PICK f \in [0..Len(s) -> V] : IsLoop(f, s, first, step)
    BY LoopExists
  <2>2. /\ f[0] = first
        /\ \A k \in 1..Len(s) : f[k] = step[<<f[k - 1], s[k]>>]
    BY <2>1 DEF IsLoop, IsStep
  <2>3. f[Len(s)] = Loop(s, first, step)
    <3>1. Follows(f, s, first, step, V)
      BY <2>2 DEF Follows
    <3> QED
      BY <3>1, LoopIsFound
  <2> QED
    BY <2>2, <2>3
<1>2. Loop(<<>>, first, step) = first
  <2>1. <<>> \in Seq(E) /\ Len(<<>>) = 0
    OBVIOUS
  <2> QED
    BY <1>1, <2>1
<1>3. ASSUME NEW s \in Seq(E) PROVE Loop(s, first, step) \in V
  <2>1. Len(s) \in 0..Len(s)
    OBVIOUS
  <2> QED
    BY <1>1, <2>1
<1>4. ASSUME NEW s \in Seq(E), NEW e \in E
      PROVE  Loop(Append(s, e), first, step) = step[<<Loop(s, first, step), e>>]
  <2> DEFINE n == Len(s)
             t == Append(s, e)
  <2>1. /\ t \in Seq(E) /\ Len(t) = n + 1 /\ n \in Nat
        /\ \A k \in 1..n : t[k] = s[k] /\ k \in 1..(n + 1)
        /\ t[n + 1] = e /\ n + 1 \in 1..(n + 1)
    OBVIOUS
  <2> HIDE DEF t
  <2>2. PICK f \in [0..Len(t) -> V] :
                 /\ f[0] = first /\ f[Len(t)] = Loop(t, first, step)
                 /\ \A k \in 1..Len(t) : f[k] = step[<<f[k - 1], t[k]>>]
    BY <1>1, <2>1
  <2>3. f[n + 1] = step[<<f[n], e>>]
    <3>1. n + 1 - 1 = n
      BY <2>1
    <3> QED
      BY <2>1, <2>2, <3>1
  <2>4. f[n] = Loop(s, first, step)
    <3>1. Follows(f, s, first, step, V)
      BY <2>1, <2>2 DEF Follows
    <3> HIDE DEF n
    <3>2. f[Len(s)] = Loop(s, first, step)
      BY <1>0, <3>1
    <3> QED
      BY <3>2 DEF n
  <2> QED
    BY <2>1, <2>2, <2>3, <2>4 DEF t
<1> QED
  BY <1>2, <1>3, <1>4

\* What holds of the empty sequence, and of a sequence when it holds without
\* the last element, holds of every sequence.
LEMMA SequenceInduction ==
    ASSUME NEW E, NEW T, <<>> \in T,
           \A s \in Seq(E), e \in E : s \in T => Append(s, e) \in T
    PROVE  Seq(E) \subseteq T
<1> DEFINE Lengths == {Len(s) : s \in Seq(E) \ T}
<1> SUFFICES ASSUME Seq(E) \ T # {} PROVE FALSE
  OBVIOUS
<1>1. PICK n \in Lengths : \A m \in Lengths : n <= m
  <2> Lengths \subseteq Nat /\ Lengths # {}
    OBVIOUS
  <2> HIDE DEF Lengths
  <2> QED
    BY LeastElement
<1>2. PICK s \in Seq(E) \ T : Len(s) = n
  BY <1>1
<1>3. s # <<>> /\ n \in Nat /\ n # 0
  <2>1. s # <<>> /\ Len(s) \in Nat
    BY <1>2
  <2> QED
    BY <1>2, <2>1, EmptySeq
<1> DEFINE r == SubSeq(s, 1, n - 1)
           e == s[n]
<1>4. r \in Seq(E) /\ Len(r) = n - 1 /\ e \in E
  BY <1>2, <1>3
<1>5. s = Append(r, e)
  <2>1. Append(r, e) \in Seq(E) /\ Len(Append(r, e)) = n
    BY <1>3, <1>4
  <2>2. \A k \in 1..n : Append(r, e)[k] = s[k]
    BY <1>2, <1>3, <1>4
  <2> HIDE DEF r, e
  <2> QED
    BY <1>2, <2>1, <2>2, SeqEqual
<1>6. r \in T
  <2>1. Len(r) \notin Lengths
    BY <1>1, <1>3, <1>4
  <2> QED
    BY <1>4, <2>1
<1> QED
  BY <1>2, <1>4, <1>5, <1>6
=============================================================================
