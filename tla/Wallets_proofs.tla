---------------------------- MODULE Wallets_proofs ----------------------------
(***************************************************************************)
(* The two halves of a session's wallet, SpotLedger and FuturesBook, are   *)
(* sound for any finite sets of orders and symbols, any quantities, prices *)
(* and fees.                                                               *)
(*                                                                         *)
(* Balances, locked pools and margins are compared with sums over orders   *)
(* and symbols.  The first part establishes what such a sum does when one  *)
(* summand changes or is taken out: by looking at a smallest subset for    *)
(* which the claim fails, which exists since the proper subsets of a       *)
(* finite set are well founded.                                            *)
(***************************************************************************)
EXTENDS SpotLedger, FuturesBook, TLAPS, FiniteSetTheorems,
        WellFoundedInduction

-----------------------------------------------------------------------------
(* Arithmetic *)

\* What division by a positive number means.
LEMMA Division ==
  ASSUME NEW a \in Int, NEW n \in Nat \ {0}
  PROVE  a \div n \in Int /\ n * (a \div n) <= a /\ a < n * (a \div n) + n
OBVIOUS

\* A quotient is above a bound if the dividend reaches its multiple.
LEMMA Quotient ==
  ASSUME NEW a \in Int, NEW n \in Nat \ {0}, NEW m \in Int
  PROVE  /\ a < n * m + n => a \div n <= m
         /\ n * m <= a => m <= a \div n
<1>1. PICK x \in Int : x = a \div n /\ n * x <= a /\ a < n * x + n
  BY Division
<1>2. ASSUME a < n * m + n, x > m PROVE FALSE
  <2>1. x >= m + 1
    BY <1>2
  <2>2. n * x >= n * (m + 1)
    BY <2>1
  <2> QED
    BY <1>1, <1>2, <2>2
<1>3. ASSUME n * m <= a, x < m PROVE FALSE
  <2>1. x + 1 <= m
    BY <1>3
  <2>2. n * (x + 1) <= n * m
    BY <2>1
  <2> QED
    BY <1>1, <1>3, <2>2
<1> QED
  BY <1>1, <1>2, <1>3

\* The share of c out of q parts of an amount lies between nothing and all of
\* it, whatever its sign.
LEMMA Share ==
  ASSUME NEW b \in Int, NEW q \in Nat \ {0}, NEW c \in 0..q
  PROVE  /\ (b * c) \div q \in Int
         /\ b >= 0 => 0 <= (b * c) \div q /\ (b * c) \div q <= b
         /\ b <= 0 => b <= (b * c) \div q /\ (b * c) \div q <= 0
         /\ c = q => (b * c) \div q = b
<1>1. b * c \in Int /\ c \in Int /\ q \in Int /\ q > 0 /\ 0 <= c /\ c <= q
  OBVIOUS
<1>2. (b * c) \div q \in Int
  BY <1>1, Division
<1>3. ASSUME b >= 0 PROVE 0 <= b * c /\ b * c <= q * b
  <2>1. 0 <= b * c
    BY <1>1, <1>3
  <2>2. b * (q - c) >= 0
    BY <1>1, <1>3
  <2>3. b * (q - c) = q * b - b * c
    BY <1>1
  <2> QED
    BY <1>1, <2>1, <2>2, <2>3
<1>4. ASSUME b <= 0 PROVE b * c <= 0 /\ q * b <= b * c
  <2>1. (-b) * c >= 0
    BY <1>1, <1>4
  <2>2. (-b) * (q - c) >= 0
    BY <1>1, <1>4
  <2>3. (-b) * (q - c) = b * c - q * b /\ (-b) * c = -(b * c)
    BY <1>1
  <2> QED
    BY <1>1, <2>1, <2>2, <2>3
<1>5. /\ b * c < q * b + q => (b * c) \div q <= b
      /\ q * b <= b * c => b <= (b * c) \div q
  BY <1>1, Quotient
<1>6. /\ b * c < q * 0 + q => (b * c) \div q <= 0
      /\ q * 0 <= b * c => 0 <= (b * c) \div q
  <2>1. 0 \in Int
    OBVIOUS
  <2> QED
    BY <1>1, <2>1, Quotient, Zenon
<1>7. q * b \in Int /\ q * 0 = 0
  BY <1>1
<1>8. ASSUME c = q PROVE b * c = q * b
  BY <1>1, <1>8
<1> QED
  BY <1>1, <1>2, <1>3, <1>4, <1>5, <1>6, <1>7, <1>8

\* The margin of two amounts is covered by the margin of the first and what
\* covers the second with the same leverage.
LEMMA MarginOfSum ==
  ASSUME NEW a \in Nat, NEW b \in Nat, NEW n \in Nat \ {0}, NEW h \in Nat,
         h * n >= b
  PROVE  (a + b) \div n <= a \div n + h
<1>1. a \div n \in Int /\ a < n * (a \div n) + n
  BY Division
<1>2. PICK x \in Int : x = a \div n
  BY <1>1
<1>3. n * (x + h) = n * x + h * n
  BY <1>2
<1>4. h * n \in Int /\ n * x \in Int /\ n * (x + h) \in Int /\ x + h \in Int
  BY <1>2
<1>5. a + b < n * (x + h) + n
  BY <1>1, <1>2, <1>3, <1>4
<1> QED
  BY <1>2, <1>4, <1>5, Quotient

\* A smaller amount needs no more margin.
LEMMA MarginMonotonic ==
  ASSUME NEW a \in Nat, NEW b \in Nat, a <= b, NEW n \in Nat \ {0}
  PROVE  a \div n <= b \div n
<1>1. PICK x \in Int : x = b \div n /\ b < n * x + n
  BY Division
<1>2. n * x \in Int
  OBVIOUS
<1>3. a < n * x + n
  BY <1>1, <1>2
<1> QED
  BY <1>1, <1>3, Quotient

\* Margins are not negative.
LEMMA MarginNat ==
  ASSUME NEW a \in Nat, NEW n \in Nat \ {0}
  PROVE  a \div n \in Nat
<1>1. n * 0 = 0 /\ 0 \in Int /\ a \in Int
  OBVIOUS
<1>2. a \div n \in Int
  BY <1>1, Division
<1>3. n * 0 <= a => 0 <= a \div n
  BY <1>1, Quotient, Zenon
<1> QED
  BY <1>1, <1>2, <1>3

-----------------------------------------------------------------------------
(* Sums over finite sets *)

Pick(s) == CHOOSE x \in s : TRUE

\* The equation of the recursive function that MapThenSumSet is defined by.
IsSums(f, g, S) ==
  g = [s \in SUBSET S |->
         IF s = {} THEN 0 ELSE f[Pick(s)] + g[s \ {Pick(s)}]]

\* Among some subsets of a finite set there is one with no other of them
\* inside it.
LEMMA SmallestSet ==
  ASSUME NEW S, IsFiniteSet(S), NEW T \in SUBSET (SUBSET S), T # {}
  PROVE  \E s \in T : \A u \in T : u \subseteq s => u = s
<1>1. FiniteSubsetsOf(S) = SUBSET S
  BY FS_FiniteSubsetsOfFinite
<1>2. IsWellFoundedOn(StrictSubsetOrdering(S), SUBSET S)
  BY <1>1, FS_StrictSubsetOrderingWellFounded
<1>3. PICK s \in T : \A u \in T : ~(<<u, s>> \in StrictSubsetOrdering(S))
  BY <1>2, WFMin
<1> QED
  BY <1>3 DEF StrictSubsetOrdering

\* The least of some natural numbers.
LEMMA LeastNumber ==
  ASSUME NEW T \in SUBSET Nat, T # {}
  PROVE  \E n \in T : \A m \in T : n <= m
<1>1. PICK n \in T : \A m \in T : ~(<<m, n>> \in OpToRel(<, Nat))
  BY NatLessThanWellFounded, WFMin
<1>2. \A m \in T : ~(m < n)
  BY <1>1 DEF OpToRel
<1> QED
  BY <1>2

\* Picking an element leaves a smaller set.
LEMMA PickIn ==
  ASSUME NEW S, NEW s \in SUBSET S, s # {}
  PROVE  /\ Pick(s) \in s /\ s \ {Pick(s)} \in SUBSET S
         /\ s \ {Pick(s)} \subseteq s /\ s \ {Pick(s)} # s
BY DEF Pick

\* The recursive function exists: it is built up by the size of the sets.
LEMMA SumsExist ==
  ASSUME NEW f, NEW S, IsFiniteSet(S)
  PROVE  \E g : IsSums(f, g, S)
<1> DEFINE Small(n) == {s \in SUBSET S : Cardinality(s) <= n}
           Part(n, g) == g = [s \in Small(n) |->
                 IF s = {} THEN 0 ELSE f[Pick(s)] + g[s \ {Pick(s)}]]
           Bad == {n \in Nat : ~\E g : Part(n, g)}
<1>1. \A s \in SUBSET S : IsFiniteSet(s) /\ Cardinality(s) \in Nat
  BY FS_Subset, FS_CardinalityType
<1>2. ASSUME Bad # {} PROVE FALSE
  <2>1. PICK n \in Bad : \A m \in Bad : n <= m
    BY <1>2, LeastNumber
  <2>2. CASE n = 0
    <3> DEFINE g == [s \in Small(0) |-> 0]
    <3>1. \A s \in Small(0) : s = {}
      BY <1>1, FS_EmptySet
    <3>2. \A s \in Small(0) :
             g[s] = IF s = {} THEN 0 ELSE f[Pick(s)] + g[s \ {Pick(s)}]
      BY <3>1
    <3>3. Part(0, g)
      <4>1. g = [s \in Small(0) |-> g[s]]
        OBVIOUS
      <4> HIDE DEF g, Small
      <4> QED
        BY <3>2, <4>1
    <3> QED
      <4> HIDE DEF g, Part
      <4>1. \E z : Part(0, z)
        BY <3>3
      <4> QED
        BY <2>1, <2>2, <4>1
  <2>3. CASE n # 0
    <3>1. n - 1 \in Nat /\ n - 1 \notin Bad
      <4>1. n \in Nat /\ Bad \subseteq Nat
        BY <2>1
      <4> HIDE DEF Bad
      <4> QED
        BY <2>1, <2>3, <4>1
    <3>2. PICK g : Part(n - 1, g)
      BY <3>1
    <3> DEFINE h == [s \in Small(n) |->
                 IF s = {} THEN 0 ELSE f[Pick(s)] + g[s \ {Pick(s)}]]
    <3>3. ASSUME NEW s \in Small(n), s # {}
          PROVE  s \ {Pick(s)} \in Small(n - 1)
      <4>1. Cardinality(s \ {Pick(s)}) = Cardinality(s) - 1
        BY <1>1, <3>3, PickIn, FS_RemoveElement
      <4> QED
        BY <1>1, <3>3, <4>1, PickIn
    <3>4. ASSUME NEW s \in Small(n - 1) PROVE s \in Small(n) /\ g[s] = h[s]
      <4>1. s \in Small(n)
        BY <1>1, <2>1
      <4> QED
        BY <3>2, <4>1
    <3>5. \A s \in Small(n) : s # {} => g[s \ {Pick(s)}] = h[s \ {Pick(s)}]
      BY <3>3, <3>4
    <3>6. Part(n, h)
      BY <3>5
    <3> QED
      BY <2>1, <3>6
  <2> QED
    BY <2>2, <2>3
<1>3. Cardinality(S) \in Nat
  BY <1>1
<1>4. PICK g : Part(Cardinality(S), g)
  BY <1>2, <1>3
<1>5. Small(Cardinality(S)) = SUBSET S
  BY FS_Subset
<1>6. IsSums(f, g, S)
  BY <1>4, <1>5 DEF IsSums
<1> QED
  BY <1>6

\* So a sum is the value of such a function for the whole set.
LEMMA SumBySums ==
  ASSUME NEW f, NEW S, IsFiniteSet(S)
  PROVE  \E g : IsSums(f, g, S) /\ Sum(f, S) = g[S]
<1>1. Sum(f, S) = (CHOOSE g : IsSums(f, g, S))[S]
  BY DEF Sum, MapThenSumSet, MapThenFoldSet, IsSums, Pick
<1>2. PICK g : g = (CHOOSE h : IsSums(f, h, S)) /\ IsSums(f, g, S)
  BY SumsExist
<1> QED
  BY <1>1, <1>2

\* What such a function is for the empty set and for any other.
LEMMA SumsEquation ==
  ASSUME NEW f, NEW S, NEW g, IsSums(f, g, S), NEW s \in SUBSET S
  PROVE  /\ s = {} => g[s] = 0
         /\ s # {} => g[s] = f[Pick(s)] + g[s \ {Pick(s)}]
BY DEF IsSums

\* A sum lies in every set that has 0 and the summands and is closed under
\* addition: here the integers and the natural numbers.
LEMMA SumsType ==
  ASSUME NEW S, IsFiniteSet(S), NEW f, NEW g, IsSums(f, g, S),
         NEW R, 0 \in R, \A x \in S : f[x] \in R, \A x, y \in R : x + y \in R
  PROVE  \A s \in SUBSET S : g[s] \in R
<1> DEFINE Bad == {s \in SUBSET S : g[s] \notin R}
<1>1. ASSUME Bad # {} PROVE FALSE
  <2>1. PICK s \in Bad : \A u \in Bad : u \subseteq s => u = s
    <3>1. Bad \in SUBSET (SUBSET S)
      OBVIOUS
    <3> HIDE DEF Bad
    <3> QED
      BY <1>1, <3>1, SmallestSet
  <2>2. s \in SUBSET S /\ g[s] \notin R
    BY <2>1
  <2>3. s # {}
    <3>1. ASSUME s = {} PROVE g[s] = 0
      BY <2>2, <3>1, SumsEquation
    <3> QED
      BY <2>2, <3>1
  <2>4. s \ {Pick(s)} \in SUBSET S /\ s \ {Pick(s)} \notin Bad /\ Pick(s) \in S
    BY <2>1, <2>2, <2>3, PickIn
  <2>5. g[s \ {Pick(s)}] \in R /\ f[Pick(s)] \in R
    BY <2>4
  <2>6. g[s] = f[Pick(s)] + g[s \ {Pick(s)}]
    BY <2>2, <2>3, SumsEquation
  <2> QED
    BY <2>2, <2>5, <2>6
<1> QED
  BY <1>1

\* Sums of integers are integers, and of natural numbers natural numbers.
LEMMA SumType ==
  ASSUME NEW S, IsFiniteSet(S), NEW f
  PROVE  /\ (\A x \in S : f[x] \in Int) => Sum(f, S) \in Int
         /\ (\A x \in S : f[x] \in Nat) => Sum(f, S) \in Nat
<1>1. PICK g : IsSums(f, g, S) /\ Sum(f, S) = g[S]
  BY SumBySums
<1>2. 0 \in Int /\ (\A x, y \in Int : x + y \in Int) /\ S \in SUBSET S
  OBVIOUS
<1>3. 0 \in Nat /\ \A x, y \in Nat : x + y \in Nat
  OBVIOUS
<1>4. ASSUME \A x \in S : f[x] \in Int PROVE Sum(f, S) \in Int
  <2>1. \A s \in SUBSET S : g[s] \in Int
    BY <1>1, <1>2, <1>4, SumsType
  <2> QED
    BY <1>1, <1>2, <2>1
<1>5. ASSUME \A x \in S : f[x] \in Nat PROVE Sum(f, S) \in Nat
  <2>1. \A s \in SUBSET S : g[s] \in Nat
    BY <1>1, <1>3, <1>5, SumsType
  <2> QED
    BY <1>1, <1>2, <2>1
<1> QED
  BY <1>4, <1>5

\* Functions that agree on a set have the same sums over its subsets.
LEMMA SumsAgree ==
  ASSUME NEW S, IsFiniteSet(S), NEW f, NEW g, IsSums(f, g, S),
         NEW T, S \subseteq T, NEW k, NEW h, IsSums(k, h, T),
         \A x \in S : k[x] = f[x]
  PROVE  \A s \in SUBSET S : h[s] = g[s]
<1> DEFINE Bad == {s \in SUBSET S : h[s] # g[s]}
<1>1. ASSUME Bad # {} PROVE FALSE
  <2>1. PICK s \in Bad : \A u \in Bad : u \subseteq s => u = s
    <3>1. Bad \in SUBSET (SUBSET S)
      OBVIOUS
    <3> HIDE DEF Bad
    <3> QED
      BY <1>1, <3>1, SmallestSet
  <2>2. s \in SUBSET S /\ s \in SUBSET T /\ h[s] # g[s]
    BY <2>1
  <2>3. s # {}
    <3>1. ASSUME s = {} PROVE g[s] = 0 /\ h[s] = 0
      BY <2>2, <3>1, SumsEquation
    <3> QED
      BY <2>2, <3>1
  <2>4. s \ {Pick(s)} \in SUBSET S /\ s \ {Pick(s)} \notin Bad /\ Pick(s) \in S
    BY <2>1, <2>2, <2>3, PickIn
  <2>5. h[s \ {Pick(s)}] = g[s \ {Pick(s)}] /\ k[Pick(s)] = f[Pick(s)]
    BY <2>4
  <2>6. g[s] = f[Pick(s)] + g[s \ {Pick(s)}]
    BY <2>2, <2>3, SumsEquation
  <2>7. h[s] = k[Pick(s)] + h[s \ {Pick(s)}]
    BY <2>2, <2>3, SumsEquation
  <2> QED
    BY <2>2, <2>5, <2>6, <2>7
<1> QED
  BY <1>1

\* Equal summands have equal sums.
LEMMA SumAgree ==
  ASSUME NEW S, IsFiniteSet(S), NEW f, NEW k, \A x \in S : k[x] = f[x]
  PROVE  Sum(k, S) = Sum(f, S)
<1>1. PICK g : IsSums(f, g, S) /\ Sum(f, S) = g[S]
  BY SumBySums
<1>2. PICK h : IsSums(k, h, S) /\ Sum(k, S) = h[S]
  BY SumBySums
<1>3. \A s \in SUBSET S : h[s] = g[s]
  BY <1>1, <1>2, SumsAgree
<1> QED
  BY <1>1, <1>2, <1>3

\* Any element can be taken out first, not only the one that is picked.
LEMMA SumsAnyFirst ==
  ASSUME NEW S, IsFiniteSet(S), NEW f, NEW g, IsSums(f, g, S),
         \A x \in S : f[x] \in Int
  PROVE  \A s \in SUBSET S : \A y \in s : g[s] = f[y] + g[s \ {y}]
<1> DEFINE Bad == {s \in SUBSET S : \E y \in s : g[s] # f[y] + g[s \ {y}]}
<1>0. \A s \in SUBSET S : g[s] \in Int
  <2>1. 0 \in Int /\ \A x, y \in Int : x + y \in Int
    OBVIOUS
  <2> QED
    BY <2>1, SumsType
<1>1. ASSUME Bad # {} PROVE FALSE
  <2>1. PICK s \in Bad : \A u \in Bad : u \subseteq s => u = s
    <3>1. Bad \in SUBSET (SUBSET S)
      OBVIOUS
    <3> HIDE DEF Bad
    <3> QED
      BY <1>1, <3>1, SmallestSet
  <2>2. PICK y \in s : g[s] # f[y] + g[s \ {y}]
    BY <2>1
  <2>3. PICK x : x = Pick(s)
    OBVIOUS
  <2>4. s \in SUBSET S /\ s # {}
    BY <2>1, <2>2
  <2>5. x \in s /\ g[s] = f[x] + g[s \ {x}]
    BY <2>3, <2>4, PickIn, SumsEquation
  <2>6. x # y
    BY <2>2, <2>5
  <2>7. s \ {x} \notin Bad /\ s \ {y} \notin Bad
    BY <2>1, <2>2, <2>5
  <2>8. g[s \ {x}] = f[y] + g[(s \ {x}) \ {y}]
    BY <2>2, <2>4, <2>6, <2>7
  <2>9. g[s \ {y}] = f[x] + g[(s \ {y}) \ {x}]
    BY <2>4, <2>5, <2>6, <2>7
  <2>10. (s \ {x}) \ {y} = (s \ {y}) \ {x} /\ (s \ {x}) \ {y} \in SUBSET S
    BY <2>4
  <2>11. f[x] \in Int /\ f[y] \in Int /\ g[(s \ {x}) \ {y}] \in Int
    BY <1>0, <2>2, <2>4, <2>5, <2>10
  <2>12. PICK a, b, c : a = f[x] /\ b = f[y] /\ c = g[(s \ {x}) \ {y}]
    OBVIOUS
  <2>13. g[s] = a + (b + c) /\ g[s \ {y}] = a + c
    BY <2>5, <2>8, <2>9, <2>10, <2>12
  <2>14. a + (b + c) = b + (a + c)
    BY <2>11, <2>12
  <2> QED
    BY <2>2, <2>12, <2>13, <2>14
<1> QED
  BY <1>1

\* A summand taken out of a sum.
LEMMA SumSplit ==
  ASSUME NEW S, IsFiniteSet(S), NEW f, \A x \in S : f[x] \in Int, NEW y \in S
  PROVE  /\ Sum(f, S) = f[y] + Sum(f, S \ {y})
         /\ Sum(f, S) \in Int /\ Sum(f, S \ {y}) \in Int
<1>1. IsFiniteSet(S \ {y}) /\ S \ {y} \subseteq S
  BY FS_Subset
<1>2. PICK g : IsSums(f, g, S) /\ Sum(f, S) = g[S]
  BY SumBySums
<1>3. PICK h : IsSums(f, h, S \ {y}) /\ Sum(f, S \ {y}) = h[S \ {y}]
  BY <1>1, SumBySums
<1>4. g[S] = f[y] + g[S \ {y}]
  <2>1. S \in SUBSET S
    OBVIOUS
  <2> QED
    BY <1>2, <2>1, SumsAnyFirst
<1>5. g[S \ {y}] = h[S \ {y}]
  <2>1. \A s \in SUBSET (S \ {y}) : g[s] = h[s]
    <3>1. PICK U : U = S \ {y}
      OBVIOUS
    <3>2. IsFiniteSet(U) /\ U \subseteq S /\ IsSums(f, h, U)
      BY <1>1, <1>3, <3>1
    <3>3. \A s \in SUBSET U : g[s] = h[s]
      BY <1>2, <3>2, SumsAgree
    <3> QED
      BY <3>1, <3>3
  <2> QED
    BY <2>1
<1>6. Sum(f, S) \in Int /\ Sum(f, S \ {y}) \in Int
  BY <1>1, SumType
<1> QED
  BY <1>2, <1>3, <1>4, <1>5, <1>6

\* A sum after a change of one summand.
LEMMA SumUpdate ==
  ASSUME NEW S, IsFiniteSet(S), NEW f, \A x \in S : f[x] \in Int, NEW y \in S,
         NEW k, k[y] \in Int, \A x \in S \ {y} : k[x] = f[x]
  PROVE  /\ Sum(f, S) \in Int /\ Sum(k, S) \in Int
         /\ Sum(k, S) = Sum(f, S) + k[y] - f[y]
<1>1. \A x \in S : k[x] \in Int
  OBVIOUS
<1>2. IsFiniteSet(S \ {y})
  BY FS_Subset
<1>3. Sum(k, S \ {y}) = Sum(f, S \ {y})
  BY <1>2, SumAgree
<1>4. /\ Sum(f, S) = f[y] + Sum(f, S \ {y})
      /\ Sum(f, S) \in Int /\ Sum(f, S \ {y}) \in Int
  BY SumSplit
<1>5. Sum(k, S) = k[y] + Sum(k, S \ {y}) /\ Sum(k, S) \in Int
  BY <1>1, SumSplit
<1>6. f[y] \in Int /\ k[y] \in Int
  OBVIOUS
<1> QED
  BY <1>3, <1>4, <1>5, <1>6

\* A summand is no more than a sum of amounts that are not negative.
LEMMA SumBound ==
  ASSUME NEW S, IsFiniteSet(S), NEW f, \A x \in S : f[x] \in Nat, NEW y \in S
  PROVE  Sum(f, S) \in Nat /\ f[y] <= Sum(f, S)
<1>1. IsFiniteSet(S \ {y})
  BY FS_Subset
<1>2. Sum(f, S) \in Nat /\ Sum(f, S \ {y}) \in Nat
  BY <1>1, SumType
<1>3. \A x \in S : f[x] \in Int
  OBVIOUS
<1>4. Sum(f, S) = f[y] + Sum(f, S \ {y})
  BY <1>3, SumSplit
<1>5. f[y] \in Nat
  OBVIOUS
<1> QED
  BY <1>2, <1>4, <1>5

\* Nothing adds up to nothing.
LEMMA SumZero ==
  ASSUME NEW S, IsFiniteSet(S), NEW f, \A x \in S : f[x] = 0
  PROVE  Sum(f, S) = 0
<1>1. PICK g : IsSums(f, g, S) /\ Sum(f, S) = g[S]
  BY SumBySums
<1>2. 0 \in {0} /\ (\A x \in S : f[x] \in {0}) /\ \A x, y \in {0} : x + y \in {0}
  OBVIOUS
<1>3. \A s \in SUBSET S : g[s] \in {0}
  BY <1>1, <1>2, SumsType
<1>4. g[S] \in {0}
  BY <1>3
<1> QED
  BY <1>1, <1>4

\* The total over the spot orders is such a sum.
LEMMA TotalIsSum == \A f : Total(f) = Sum(f, Orders)
BY DEF Total, Sum

\* The total after a change of one order's amount.
LEMMA TotalUpdate ==
  ASSUME NEW o \in Orders, NEW f \in [Orders -> Int], NEW v \in Int
  PROVE  /\ Total(f) \in Int
         /\ Total([f EXCEPT ![o] = v]) = Total(f) + v - f[o]
<1>1. PICK k : k = [f EXCEPT ![o] = v]
  OBVIOUS
<1>2. k[o] = v /\ \A x \in Orders \ {o} : k[x] = f[x]
  BY <1>1
<1>3. k[o] \in Int /\ (\A x \in Orders : f[x] \in Int) /\ IsFiniteSet(Orders)
  BY <1>2, SpotAssumption
<1>4. Sum(f, Orders) \in Int /\ Sum(k, Orders) = Sum(f, Orders) + k[o] - f[o]
  BY <1>2, <1>3, SumUpdate
<1> QED
  BY <1>1, <1>2, <1>4, TotalIsSum

\* An order's amount is no more than the total of amounts that are not
\* negative.
LEMMA TotalBound ==
  ASSUME NEW o \in Orders, NEW f \in [Orders -> Nat]
  PROVE  Total(f) \in Nat /\ f[o] <= Total(f)
<1>1. (\A x \in Orders : f[x] \in Nat) /\ IsFiniteSet(Orders)
  BY SpotAssumption
<1> QED
  BY <1>1, SumBound, TotalIsSum

LEMMA TotalZero ==
  ASSUME NEW f, \A o \in Orders : f[o] = 0
  PROVE  Total(f) = 0
BY SpotAssumption, SumZero, TotalIsSum

-----------------------------------------------------------------------------
(* The operations of the wallet *)

Balances == [free : Nat, locked : Nat, qty : Nat, held : Nat, booked : Int]

\* No amount is negative, and no more base is locked than there is.
Sound(x) == x \in Balances /\ x.held <= x.qty

\* The fields of a sound wallet.
LEMMA Fields ==
  ASSUME NEW x, Sound(x)
  PROVE  /\ x.free \in Nat /\ x.locked \in Nat /\ x.qty \in Nat
         /\ x.held \in Nat /\ x.booked \in Int /\ x.held <= x.qty
BY DEF Sound, Balances

\* A fill leaves a sound wallet; one that did not raise has changed the money
\* by what it booked, and left these pools locked.
FillEffect(x, r, change, locked, baseHeld) ==
  /\ Sound(r.w)
  /\ r.ok => /\ r.w.free + r.w.locked = x.free + x.locked + change
             /\ r.w.booked = x.booked + change
             /\ r.w.locked = locked /\ r.w.held = baseHeld

\* The fill of a buy: locked money pays first.
LEMMA BuyFillOutcome ==
  ASSUME NEW x, Sound(x), NEW q \in Nat, NEW price \in Nat
  PROVE  FillEffect(x, ApplyBuyFill(x, q, price), 0 - (q * price + Fee),
                    AtLeast0(x.locked - (q * price + Fee)), x.held)
<1>0. PICK cost, r : cost = q * price + Fee /\ r = ApplyBuyFill(x, q, price)
  OBVIOUS
<1>1. q * price \in Nat
  OBVIOUS
<1>2. cost \in Nat
  BY <1>0, <1>1, SpotAssumption
<1>3. AtLeast0(cost - x.locked) \in Nat
  BY <1>2 DEF AtLeast0, Sound, Balances
<1>4. CASE x.free < AtLeast0(cost - x.locked)
  <2>1. ~r.ok /\ r.w = x
    BY <1>0, <1>4 DEF ApplyBuyFill, Raise
  <2> QED
    BY <1>0, <2>1 DEF FillEffect
<1>5. CASE ~(x.free < AtLeast0(cost - x.locked))
  <2>1. r.ok /\ r.w = [x EXCEPT !.free = @ - AtLeast0(cost - x.locked),
                                !.locked = @ + AtLeast0(cost - x.locked) - cost,
                                !.qty = @ + q, !.booked = @ - cost]
    BY <1>0, <1>5 DEF ApplyBuyFill, Done
  <2> DEFINE short == AtLeast0(cost - x.locked)
  <2>2. /\ r.w.free = x.free - short /\ r.w.locked = x.locked + short - cost
        /\ r.w.qty = x.qty + q /\ r.w.held = x.held
        /\ r.w.booked = x.booked - cost
    BY <2>1 DEF Sound, Balances
  <2>3. /\ x.free - short \in Nat /\ x.locked + short - cost \in Nat
        /\ x.qty + q \in Nat /\ x.booked - cost \in Int
        /\ x.held <= x.qty + q
        /\ x.locked + short - cost = AtLeast0(x.locked - cost)
        /\ (x.free - short) + (x.locked + short - cost)
              = x.free + x.locked + (0 - cost)
        /\ x.booked - cost = x.booked + (0 - cost)
    BY <1>2, <1>5, Fields DEF AtLeast0
  <2> HIDE DEF short
  <2>4. r.w \in Balances
    BY <2>1, <2>3 DEF Sound, Balances, short
  <2>5. FillEffect(x, r, 0 - cost, AtLeast0(x.locked - cost), x.held)
    BY <2>1, <2>2, <2>3, <2>4 DEF Sound, FillEffect
  <2> QED
    BY <1>0, <2>5
<1> QED
  BY <1>4, <1>5

\* The fill of a sale: locked base is sold first.
LEMMA SellFillOutcome ==
  ASSUME NEW x, Sound(x), NEW q \in Nat, NEW price \in Nat
  PROVE  FillEffect(x, ApplySellFill(x, q, price), q * price - Fee,
                    x.locked, AtLeast0(x.held - q))
<1>0. PICK gain, r : gain = q * price - Fee /\ r = ApplySellFill(x, q, price)
  OBVIOUS
<1>1. q * price \in Nat
  OBVIOUS
<1>2. gain \in Int
  BY <1>0, <1>1, SpotAssumption
<1> DEFINE short == AtLeast0(q - x.held)
           sold  == [x EXCEPT !.held = @ + short - q, !.qty = @ - q]
<1>3. short \in Nat
  BY DEF AtLeast0, Sound, Balances
<1>4. CASE x.qty - x.held < short
  <2>1. ~r.ok /\ r.w = x
    BY <1>0, <1>4 DEF ApplySellFill, Raise
  <2> QED
    BY <1>0, <2>1 DEF FillEffect
<1>5. ASSUME ~(x.qty - x.held < short)
      PROVE  Sound(sold) /\ sold.held = AtLeast0(x.held - q)
             /\ sold.free = x.free /\ sold.locked = x.locked
             /\ sold.booked = x.booked
  <2>1. /\ sold.held = x.held + short - q /\ sold.qty = x.qty - q
        /\ sold.free = x.free /\ sold.locked = x.locked
        /\ sold.booked = x.booked
    BY DEF Sound, Balances
  <2>2. /\ x.held + short - q \in Nat /\ x.qty - q \in Nat
        /\ x.held + short - q <= x.qty - q
        /\ x.held + short - q = AtLeast0(x.held - q)
    BY <1>5, Fields DEF AtLeast0
  <2> HIDE DEF short
  <2>3. sold \in Balances
    BY <2>2 DEF Sound, Balances
  <2> QED
    BY <2>1, <2>2, <2>3 DEF Sound
<1>6. CASE ~(x.qty - x.held < short) /\ x.free + gain < 0
  <2>1. ~r.ok /\ r.w = sold
    BY <1>0, <1>6 DEF ApplySellFill, Raise
  <2> QED
    BY <1>0, <1>5, <1>6, <2>1 DEF FillEffect
<1>7. CASE ~(x.qty - x.held < short) /\ ~(x.free + gain < 0)
  <2>1. r.ok /\ r.w = [sold EXCEPT !.free = @ + gain, !.booked = @ + gain]
    BY <1>0, <1>7 DEF ApplySellFill, Done
  <2>2. Sound(sold)
    BY <1>5, <1>7
  <2>3. sold.free + gain \in Nat /\ sold.booked + gain \in Int
    BY <1>2, <1>5, <1>7, Fields
  <2>4. r.w \in Balances
    <3> HIDE DEF sold
    <3> QED
      BY <2>1, <2>2, <2>3 DEF Sound, Balances
  <2>5. /\ r.w.free = sold.free + gain /\ r.w.booked = sold.booked + gain
        /\ r.w.locked = sold.locked /\ r.w.held = sold.held
        /\ r.w.qty = sold.qty
    <3> HIDE DEF sold
    <3> QED
      BY <2>1, <2>2 DEF Sound, Balances
  <2>6. Sound(r.w)
    BY <2>2, <2>4, <2>5 DEF Sound
  <2>7. FillEffect(x, r, gain, x.locked, AtLeast0(x.held - q))
    <3> HIDE DEF sold
    <3> QED
      BY <1>2, <1>5, <1>7, <2>1, <2>2, <2>5, <2>6, Fields DEF FillEffect
  <2> QED
    BY <1>0, <2>7
<1> QED
  BY <1>4, <1>6, <1>7

\* The fill of an order that was filled at once.
LEMMA DirectFillOutcome ==
  ASSUME NEW x, Sound(x), NEW q \in Nat, NEW price \in Nat, NEW o,
         o \notin Buys => q * price - Fee >= 0
  PROVE  FillEffect(x, ApplyDirectFill(x, o \in Buys, q, price),
                    IF o \in Buys THEN 0 - (q * price + Fee)
                                  ELSE q * price - Fee,
                    x.locked, x.held)
<1>0. PICK change, r :
        /\ change = IF o \in Buys THEN 0 - (q * price + Fee) ELSE q * price - Fee
        /\ r = ApplyDirectFill(x, o \in Buys, q, price)
  OBVIOUS
<1>1. q * price \in Nat
  OBVIOUS
<1>2. CASE o \in Buys
  <2>1. change = 0 - (q * price + Fee)
    BY <1>0, <1>2
  <2>2. CASE x.free < q * price + Fee
    <3>1. ~r.ok /\ r.w = x
      BY <1>0, <1>2, <2>2 DEF ApplyDirectFill, Raise
    <3> QED
      BY <1>0, <3>1 DEF FillEffect
  <2>3. CASE ~(x.free < q * price + Fee)
    <3>1. r.ok /\ r.w = [x EXCEPT !.free = @ - (q * price + Fee), !.qty = @ + q,
                                  !.booked = @ - (q * price + Fee)]
      BY <1>0, <1>2, <2>3 DEF ApplyDirectFill, Done
    <3>2. /\ r.w.free = x.free - (q * price + Fee) /\ r.w.qty = x.qty + q
          /\ r.w.booked = x.booked - (q * price + Fee)
          /\ r.w.locked = x.locked /\ r.w.held = x.held
      BY <3>1 DEF Sound, Balances
    <3>3. PICK cost : cost = q * price + Fee
      OBVIOUS
    <3>4. cost \in Nat
      BY <1>1, <3>3, SpotAssumption
    <3>5. /\ x.free - cost \in Nat /\ x.qty + q \in Nat
          /\ x.booked - cost \in Int /\ x.held <= x.qty + q
      BY <2>3, <3>3, <3>4, Fields
    <3>6. r.w \in Balances
      BY <3>1, <3>3, <3>5 DEF Sound, Balances
    <3>7. r.ok /\ change = 0 - cost /\ r.w.free = x.free - cost
          /\ r.w.booked = x.booked - cost
      BY <2>1, <3>1, <3>2, <3>3
    <3>8. /\ (x.free - cost) + x.locked = x.free + x.locked + (0 - cost)
          /\ x.booked - cost = x.booked + (0 - cost)
      BY <3>4, Fields
    <3>9. FillEffect(x, r, change, x.locked, x.held)
      BY <3>2, <3>5, <3>6, <3>7, <3>8 DEF Sound, FillEffect
    <3> QED
      BY <1>0, <3>9
  <2> QED
    BY <2>2, <2>3
<1>3. CASE o \notin Buys
  <2>1. change = q * price - Fee /\ change \in Nat
    BY <1>0, <1>1, <1>3, SpotAssumption
  <2>2. CASE q > x.qty - x.held
    <3>1. ~r.ok /\ r.w = x
      BY <1>0, <1>3, <2>2 DEF ApplyDirectFill, Raise
    <3> QED
      BY <1>0, <3>1 DEF FillEffect
  <2>3. CASE ~(q > x.qty - x.held)
    <3>1. r.ok /\ r.w = [x EXCEPT !.free = @ + change, !.qty = @ - q,
                                  !.booked = @ + change]
      BY <1>0, <1>3, <2>1, <2>3 DEF ApplyDirectFill, Done
    <3>2. /\ r.w.free = x.free + change /\ r.w.qty = x.qty - q
          /\ r.w.booked = x.booked + change
          /\ r.w.locked = x.locked /\ r.w.held = x.held
      BY <3>1 DEF Sound, Balances
    <3>3. /\ x.free + change \in Nat /\ x.qty - q \in Nat
          /\ x.booked + change \in Int /\ x.held <= x.qty - q
          /\ (x.free + change) + x.locked = x.free + x.locked + change
      BY <2>1, <2>3, Fields
    <3>4. r.w \in Balances
      BY <3>1, <3>3 DEF Sound, Balances
    <3>5. FillEffect(x, r, change, x.locked, x.held)
      BY <3>1, <3>2, <3>3, <3>4 DEF Sound, FillEffect
    <3> QED
      BY <1>0, <3>5
  <2> QED
    BY <2>2, <2>3
<1> QED
  BY <1>2, <1>3

\* A lock on quote money goes from what the order has to what it needs.
QuoteLockEffect(x, r, has, desired) ==
  /\ Sound(r.w)
  /\ r.w.booked = x.booked /\ r.w.held = x.held
  /\ r.ok /\ has <= x.locked =>
       /\ r.w.locked = x.locked + desired - has
       /\ r.w.free + r.w.locked = x.free + x.locked

LEMMA QuoteLockOutcome ==
  ASSUME NEW x, Sound(x), NEW has \in Nat, NEW desired \in Nat
  PROVE  QuoteLockEffect(x, SyncQuoteLock(x, has, desired), has, desired)
<1>0. PICK r : r = SyncQuoteLock(x, has, desired)
  OBVIOUS
<1>1. CASE desired - has > 0 /\ x.free < desired - has
  <2>1. ~r.ok /\ r.w = x
    BY <1>0, <1>1 DEF SyncQuoteLock, Raise
  <2> QED
    BY <1>0, <2>1 DEF QuoteLockEffect
<1>2. CASE desired - has > 0 /\ ~(x.free < desired - has)
  <2>1. r.ok /\ r.w = [x EXCEPT !.free = @ - (desired - has),
                                !.locked = @ + (desired - has)]
    BY <1>0, <1>2 DEF SyncQuoteLock, Done
  <2>2. /\ r.w.free = x.free - (desired - has)
        /\ r.w.locked = x.locked + (desired - has) /\ r.w.qty = x.qty
        /\ r.w.held = x.held /\ r.w.booked = x.booked
    BY <2>1 DEF Sound, Balances
  <2>3. /\ x.free - (desired - has) \in Nat
        /\ x.locked + (desired - has) \in Nat
    BY <1>2, Fields
  <2>4. r.w \in Balances
    BY <2>1, <2>3 DEF Sound, Balances
  <2> QED
    BY <1>0, <1>2, <2>1, <2>2, <2>3, <2>4, Fields DEF Sound, QuoteLockEffect
<1>3. CASE ~(desired - has > 0)
  <2>1. r.ok /\ r.w = [x EXCEPT !.free = @ - (desired - has),
                                !.locked = AtLeast0(@ + (desired - has))]
    BY <1>0, <1>3 DEF SyncQuoteLock, Done
  <2>2. /\ r.w.free = x.free - (desired - has)
        /\ r.w.locked = AtLeast0(x.locked + (desired - has))
        /\ r.w.qty = x.qty /\ r.w.held = x.held /\ r.w.booked = x.booked
    BY <2>1 DEF Sound, Balances
  <2>3. /\ x.free - (desired - has) \in Nat
        /\ AtLeast0(x.locked + (desired - has)) \in Nat
        /\ has <= x.locked => AtLeast0(x.locked + (desired - has))
                                = x.locked + (desired - has)
    BY <1>3, Fields DEF AtLeast0
  <2>4. r.w \in Balances
    BY <2>1, <2>3 DEF Sound, Balances
  <2> QED
    BY <1>0, <1>3, <2>1, <2>2, <2>3, <2>4, Fields DEF Sound, QuoteLockEffect
<1> QED
  BY <1>1, <1>2, <1>3

\* The same for base.
BaseLockEffect(x, r, has, desired) ==
  /\ Sound(r.w)
  /\ r.w.booked = x.booked /\ r.w.locked = x.locked /\ r.w.free = x.free
  /\ r.ok /\ has <= x.held => r.w.held = x.held + desired - has

LEMMA BaseLockOutcome ==
  ASSUME NEW x, Sound(x), NEW has \in Nat, NEW desired \in Nat
  PROVE  BaseLockEffect(x, SyncBaseLock(x, has, desired), has, desired)
<1>0. PICK r : r = SyncBaseLock(x, has, desired)
  OBVIOUS
<1>1. CASE desired - has > 0 /\ x.qty - x.held < desired - has
  <2>1. ~r.ok /\ r.w = x
    BY <1>0, <1>1 DEF SyncBaseLock, Raise
  <2> QED
    BY <1>0, <2>1 DEF BaseLockEffect
<1>2. CASE ~(desired - has > 0 /\ x.qty - x.held < desired - has)
  <2>1. r.ok /\ r.w = [x EXCEPT !.held = AtLeast0(@ + (desired - has))]
    BY <1>0, <1>2 DEF SyncBaseLock, Done
  <2> QED
    BY <1>0, <1>2, <2>1 DEF Sound, Balances, AtLeast0, BaseLockEffect
<1> QED
  BY <1>1, <1>2

-----------------------------------------------------------------------------
(* The inductive invariant *)

\* The fill events: a sale is never cheaper than its fee.
Events ==
  {e \in [order : Orders, cum : 0..Qty, price : 1..MaxPrice,
          status : {"none", "live"} \cup Statuses, rem : 0..Qty,
          lockPrice : Nat] : e.order \notin Buys => Fee <= e.price}

\* What the exchange has and tells.
ExchangeType ==
  /\ st \in [Orders -> {"none", "live"} \cup Terminal]
  /\ exec \in [Orders -> 0..Qty]
  /\ \A o \in Orders : /\ st[o] = "live" => exec[o] < Qty
                       /\ st[o] = "none" => exec[o] = 0
  /\ unseen \in [Orders -> Seq(1..MaxPrice)]
  /\ \A o \in Orders : unseen[o] \in Seq(Prices(o)) /\ Len(unseen[o]) <= exec[o]
  /\ spent \in [Orders -> Nat]
  /\ xFree \in Nat /\ xBase \in Nat
  /\ log \in Seq(Events)

EngineType ==
  /\ answer \in Seq(Events)
  /\ settled \in [Orders -> 0..Qty]

\* An order that is not open has nothing; a buy locks no base and a sale no
\* money.
OpenType ==
  /\ open \in [Orders -> [exec : 0..Qty, quote : Nat, base : Nat, in : BOOLEAN]]
  /\ \A o \in Orders : /\ ~open[o].in => open[o] = NoOrder
                       /\ o \in Buys => open[o].base = 0
                       /\ o \notin Buys => open[o].quote = 0

HistoryType == mixed \in BOOLEAN /\ torn \in BOOLEAN

Ledger == MoneyConserved /\ LocksBelongToOrders

LedgerInv ==
  ExchangeType /\ EngineType /\ OpenType /\ HistoryType /\ Sound(w) /\ Ledger

-----------------------------------------------------------------------------
(* One event *)

\* The parts of an event, and how much of it is new.
LEMMA EventParts ==
  ASSUME NEW e \in Events, OpenType
  PROVE  /\ e.order \in Orders /\ e.cum \in 0..Qty /\ e.price \in Nat
         /\ e.rem \in 0..Qty /\ e.lockPrice \in Nat
         /\ e.rem \in Nat /\ e.rem * e.lockPrice \in Nat
         /\ e.order \notin Buys => Fee <= e.price
         /\ Delta(e) \in Nat /\ Delta(e) * e.price \in Nat
         /\ open[e.order].quote \in Nat /\ open[e.order].base \in Nat
         /\ open[e.order].in \in BOOLEAN
<1>1. /\ e.order \in Orders /\ e.cum \in 0..Qty /\ e.price \in 1..MaxPrice
      /\ e.rem \in 0..Qty /\ e.lockPrice \in Nat
      /\ e.order \notin Buys => Fee <= e.price
  BY DEF Events
<1>2. /\ open[e.order].quote \in Nat /\ open[e.order].base \in Nat
      /\ open[e.order].in \in BOOLEAN /\ open[e.order].exec \in 0..Qty
  BY <1>1 DEF OpenType
<1>3. Delta(e) \in Nat
  BY <1>1, <1>2, SpotAssumption DEF Delta, AtLeast0
<1>4. \A a \in Nat, b \in Nat : a * b \in Nat
  OBVIOUS
<1>5. e.price \in Nat /\ e.lockPrice \in Nat /\ e.rem \in Nat
  BY <1>1, SpotAssumption
<1>6. Delta(e) * e.price \in Nat /\ e.rem * e.lockPrice \in Nat
  BY <1>3, <1>4, <1>5
<1> QED
  BY <1>1, <1>2, <1>3, <1>5, <1>6

\* The fill of an event.  What its order leaves locked after it is what the
\* pool has left of it, unless the fill borrows from another order.
LEMMA FillOutcome ==
  ASSUME NEW e \in Events, OpenType, Sound(w), NEW r, r = Fill(w, e)
  PROVE  /\ Sound(r.w)
         /\ QuoteLeft(e) \in Nat /\ BaseLeft(e) \in Nat
         /\ r.ok => (r.w.free + r.w.locked) - r.w.booked
                      = (w.free + w.locked) - w.booked
         /\ r.ok /\ ~Borrows(e) /\ open[e.order].quote <= w.locked
              /\ open[e.order].base <= w.held
            => /\ r.w.locked = w.locked - open[e.order].quote + QuoteLeft(e)
               /\ r.w.held = w.held - open[e.order].base + BaseLeft(e)
<1>0. PICK d, p, own :
        d = Delta(e) /\ p = e.price /\ own = open[e.order]
  OBVIOUS
<1>1. /\ d \in Nat /\ p \in Nat /\ own.quote \in Nat /\ own.base \in Nat
      /\ own.in \in BOOLEAN /\ d * p \in Nat /\ e.order \in Orders
      /\ e.order \notin Buys => Fee <= p
  BY <1>0, EventParts
<1>2. /\ ~own.in => own = NoOrder
      /\ e.order \in Buys => own.base = 0
      /\ e.order \notin Buys => own.quote = 0
  BY <1>0, <1>1 DEF OpenType
<1>3. /\ QuoteLeft(e) = IF e.order \in Buys /\ d > 0 THEN AtLeast0(own.quote - (d * p + Fee))
                        ELSE own.quote
      /\ BaseLeft(e) = IF e.order \notin Buys /\ d > 0 THEN AtLeast0(own.base - d) ELSE own.base
  BY <1>0 DEF QuoteLeft, BaseLeft
<1>4. Fee \in Nat /\ d * p + Fee \in Nat
  BY <1>1, SpotAssumption
<1>5. QuoteLeft(e) \in Nat /\ BaseLeft(e) \in Nat
  BY <1>1, <1>3, <1>4 DEF AtLeast0
<1>6. PICK cost : cost = d * p + Fee
  OBVIOUS
<1>7. PICK gain : gain = d * p - Fee
  OBVIOUS
<1>8. cost \in Nat /\ gain \in Int
  BY <1>1, <1>4, <1>6, <1>7
<1>9. CASE d = 0
  <2>1. r = Done(w)
    BY <1>0, <1>9 DEF Fill
  <2>2. r.ok /\ r.w = w
    BY <2>1 DEF Done
  <2>3. QuoteLeft(e) = own.quote /\ BaseLeft(e) = own.base
    BY <1>3, <1>9
  <2> QED
    BY <1>0, <1>1, <1>5, <2>2, <2>3, Fields
<1>10. CASE d > 0 /\ ~own.in /\ e.status = "FILLED"
  <2>1. r = ApplyDirectFill(w, e.order \in Buys, d, p)
    BY <1>0, <1>1, <1>10 DEF Fill
  <2>2. PICK change : change = IF e.order \in Buys THEN 0 - (d * p + Fee)
                                                  ELSE d * p - Fee
    OBVIOUS
  <2>3. e.order \notin Buys => d * p - Fee >= 0
    <3>1. d - 1 \in Nat
      BY <1>1, <1>10
    <3>2. (d - 1) * p \in Nat
      BY <1>1, <3>1
    <3>3. d * p = (d - 1) * p + p
      BY <1>1
    <3> QED
      BY <1>1, <1>4, <3>2, <3>3
  <2>5. FillEffect(w, r, change, w.locked, w.held)
    BY <1>1, <2>1, <2>2, <2>3, DirectFillOutcome
  <2>6. own.quote = 0 /\ own.base = 0
    BY <1>2, <1>10 DEF NoOrder
  <2>7. QuoteLeft(e) = 0 /\ BaseLeft(e) = 0
    BY <1>1, <1>3, <1>4, <2>6 DEF AtLeast0
  <2>8. change \in Int
    BY <1>6, <1>7, <1>8, <2>2
  <2> QED
    BY <1>0, <1>5, <2>5, <2>6, <2>7, <2>8, Fields DEF FillEffect
<1>11. CASE d > 0 /\ (own.in \/ e.status # "FILLED") /\ e.order \in Buys
  <2>1. r = ApplyBuyFill(w, d, p)
    BY <1>0, <1>1, <1>11 DEF Fill
  <2>2. FillEffect(w, r, 0 - cost, AtLeast0(w.locked - cost), w.held)
    BY <1>1, <1>6, <2>1, BuyFillOutcome
  <2>3. QuoteLeft(e) = AtLeast0(own.quote - cost) /\ BaseLeft(e) = own.base
    BY <1>3, <1>6, <1>11
  <2>4. ~Borrows(e) => cost <= own.quote \/ w.locked <= own.quote
    BY <1>0, <1>1, <1>6, <1>8, <1>11, Fields DEF Borrows
  <2>5. ~Borrows(e) /\ own.quote <= w.locked =>
          AtLeast0(w.locked - cost)
            = w.locked - own.quote + AtLeast0(own.quote - cost)
    BY <1>1, <1>8, <2>4, Fields DEF AtLeast0
  <2>6. r.ok => (r.w.free + r.w.locked) - r.w.booked
                  = (w.free + w.locked) - w.booked
    <3>1. Sound(r.w)
      BY <2>2 DEF FillEffect
    <3> QED
      BY <1>8, <2>2, <3>1, Fields DEF FillEffect
  <2>7. ASSUME r.ok, ~Borrows(e), own.quote <= w.locked, own.base <= w.held
        PROVE  /\ r.w.locked = w.locked - own.quote + QuoteLeft(e)
               /\ r.w.held = w.held - own.base + BaseLeft(e)
    <3>1. r.w.locked = AtLeast0(w.locked - cost) /\ r.w.held = w.held
      BY <2>2, <2>7 DEF FillEffect
    <3>2. AtLeast0(w.locked - cost) = w.locked - own.quote + QuoteLeft(e)
      BY <2>3, <2>5, <2>7
    <3>3. w.held = w.held - own.base + BaseLeft(e)
      BY <1>1, <2>3, Fields
    <3> QED
      BY <3>1, <3>2, <3>3
  <2> QED
    BY <1>0, <1>5, <2>2, <2>6, <2>7 DEF FillEffect
<1>12. CASE d > 0 /\ (own.in \/ e.status # "FILLED") /\ e.order \notin Buys
  <2>1. r = ApplySellFill(w, d, p)
    BY <1>0, <1>1, <1>12 DEF Fill
  <2>2. FillEffect(w, r, gain, w.locked, AtLeast0(w.held - d))
    BY <1>1, <1>7, <2>1, SellFillOutcome
  <2>3. QuoteLeft(e) = own.quote /\ BaseLeft(e) = AtLeast0(own.base - d)
    BY <1>3, <1>12
  <2>4. ~Borrows(e) => d <= own.base \/ w.held <= own.base
    BY <1>0, <1>1, <1>12, Fields DEF Borrows
  <2>5. ~Borrows(e) /\ own.base <= w.held =>
          AtLeast0(w.held - d) = w.held - own.base + AtLeast0(own.base - d)
    BY <1>1, <2>4, Fields DEF AtLeast0
  <2>6. r.ok => (r.w.free + r.w.locked) - r.w.booked
                  = (w.free + w.locked) - w.booked
    <3>1. Sound(r.w)
      BY <2>2 DEF FillEffect
    <3> QED
      BY <1>8, <2>2, <3>1, Fields DEF FillEffect
  <2>7. ASSUME r.ok, ~Borrows(e), own.quote <= w.locked, own.base <= w.held
        PROVE  /\ r.w.locked = w.locked - own.quote + QuoteLeft(e)
               /\ r.w.held = w.held - own.base + BaseLeft(e)
    <3>1. r.w.locked = w.locked /\ r.w.held = AtLeast0(w.held - d)
      BY <2>2, <2>7 DEF FillEffect
    <3>2. AtLeast0(w.held - d) = w.held - own.base + BaseLeft(e)
      BY <2>3, <2>5, <2>7
    <3>3. w.locked = w.locked - own.quote + QuoteLeft(e)
      BY <1>1, <2>3, Fields
    <3> QED
      BY <3>1, <3>2, <3>3
  <2> QED
    BY <1>0, <1>5, <2>2, <2>6, <2>7 DEF FillEffect
<1> QED
  BY <1>1, <1>9, <1>10, <1>11, <1>12

\* What on_order does to the wallet and what the order has locked after it.
OrderEffect(e, r, quote, base) ==
  /\ Sound(r.w)
  /\ r.ok /\ ~Borrows(e) /\ open[e.order].quote <= w.locked
       /\ open[e.order].base <= w.held
     => /\ (r.w.free + r.w.locked) - r.w.booked = (w.free + w.locked) - w.booked
        /\ r.w.locked = w.locked - open[e.order].quote + quote
        /\ r.w.held = w.held - open[e.order].base + base

\* on_order as a whole: the fill, the lock of what remains and, when the
\* order ends, the release of that lock.
LEMMA OnOrderOutcome ==
  ASSUME NEW e \in Events, OpenType, Sound(w)
  PROVE  OrderEffect(e, OnOrder(e),
           IF Ends(e) \/ e.order \notin Buys THEN 0 ELSE e.rem * e.lockPrice,
           IF Ends(e) \/ e.order \in Buys THEN 0 ELSE e.rem)
<1>0. PICK f, k, u, r, need, own :
        /\ f = Fill(w, e) /\ k = Lock(f.w, e) /\ u = Unlock(k.w, e)
        /\ r = OnOrder(e) /\ need = e.rem * e.lockPrice /\ own = open[e.order]
  OBVIOUS
<1>1. r = IF ~f.ok THEN f ELSE IF ~k.ok \/ ~Ends(e) THEN k ELSE u
  BY <1>0 DEF OnOrder
<1>2. /\ e.order \in Orders /\ e.rem \in Nat /\ need \in Nat
      /\ own.quote \in Nat /\ own.base \in Nat
  BY <1>0, EventParts
<1>3. PICK ql, bl : ql = QuoteLeft(e) /\ bl = BaseLeft(e)
  OBVIOUS
<1>4. /\ Sound(f.w) /\ ql \in Nat /\ bl \in Nat
      /\ f.ok => (f.w.free + f.w.locked) - f.w.booked
                   = (w.free + w.locked) - w.booked
      /\ f.ok /\ ~Borrows(e) /\ own.quote <= w.locked /\ own.base <= w.held
         => /\ f.w.locked = w.locked - own.quote + ql
            /\ f.w.held = w.held - own.base + bl
  BY <1>0, <1>3, FillOutcome
<1>5. CASE ~f.ok
  BY <1>0, <1>1, <1>4, <1>5 DEF OrderEffect
<1>6. CASE f.ok /\ e.order \in Buys
  <2>1. own.base = 0 /\ bl = 0
    BY <1>0, <1>2, <1>3, <1>6 DEF OpenType, BaseLeft
  <2>2. k = SyncQuoteLock(f.w, ql, need) /\ u = SyncQuoteLock(k.w, need, 0)
    BY <1>0, <1>3, <1>6 DEF Lock, Unlock
  <2>3. QuoteLockEffect(f.w, k, ql, need)
    BY <1>2, <1>4, <2>2, QuoteLockOutcome
  <2>4. Sound(k.w)
    BY <2>3 DEF QuoteLockEffect
  <2>5. QuoteLockEffect(k.w, u, need, 0)
    BY <1>2, <2>2, <2>4, QuoteLockOutcome
  <2>6. Sound(u.w)
    BY <2>5 DEF QuoteLockEffect
  <2>7. Sound(r.w)
    BY <1>1, <1>4, <2>4, <2>6
  <2>8. ASSUME k.ok, ~Borrows(e), own.quote <= w.locked, own.base <= w.held
        PROVE  /\ (k.w.free + k.w.locked) - k.w.booked
                    = (w.free + w.locked) - w.booked
               /\ k.w.locked = w.locked - own.quote + need
               /\ k.w.held = w.held - own.base
               /\ (u.w.free + u.w.locked) - u.w.booked
                    = (w.free + w.locked) - w.booked
               /\ u.ok => u.w.locked = w.locked - own.quote
               /\ u.w.held = w.held - own.base
    <3>1. /\ f.w.locked = w.locked - own.quote + ql
          /\ f.w.held = w.held - own.base
          /\ (f.w.free + f.w.locked) - f.w.booked = (w.free + w.locked) - w.booked
      BY <1>4, <1>6, <2>1, <2>8, Fields
    <3>2. ql <= f.w.locked
      BY <1>2, <1>4, <2>8, <3>1, Fields
    <3>3. /\ k.w.locked = f.w.locked + need - ql
          /\ k.w.free + k.w.locked = f.w.free + f.w.locked
          /\ k.w.booked = f.w.booked /\ k.w.held = f.w.held
      BY <2>3, <2>8, <3>2 DEF QuoteLockEffect
    <3>4. /\ k.w.locked = w.locked - own.quote + need
          /\ (k.w.free + k.w.locked) - k.w.booked = (w.free + w.locked) - w.booked
      <4>1. k.w.locked = w.locked - own.quote + need
        BY <1>2, <1>4, <3>1, <3>3, Fields
      <4>2. (k.w.free + k.w.locked) - k.w.booked
              = (f.w.free + f.w.locked) - f.w.booked
        BY <3>3
      <4> QED
        BY <3>1, <4>1, <4>2, Zenon
    <3>5. need <= k.w.locked
      BY <1>2, <2>8, <3>4, Fields
    <3>6. u.ok
      BY <1>2, <2>2 DEF SyncQuoteLock, Done
    <3>7. /\ u.w.locked = k.w.locked + 0 - need
          /\ u.w.free + u.w.locked = k.w.free + k.w.locked
          /\ u.w.booked = k.w.booked /\ u.w.held = k.w.held
      BY <2>5, <3>5, <3>6 DEF QuoteLockEffect
    <3>8. u.w.locked = w.locked - own.quote
      BY <1>2, <2>8, <3>4, <3>7, Fields
    <3>9. (u.w.free + u.w.locked) - u.w.booked
            = (k.w.free + k.w.locked) - k.w.booked
      BY <3>7
    <3> QED
      BY <3>1, <3>3, <3>4, <3>7, <3>8, <3>9, Zenon
  <2>9. CASE k.ok /\ Ends(e)
    <3>1. r = u
      BY <1>1, <1>6, <2>9
    <3>2. ASSUME r.ok, ~Borrows(e), own.quote <= w.locked, own.base <= w.held
          PROVE  /\ (r.w.free + r.w.locked) - r.w.booked
                      = (w.free + w.locked) - w.booked
                 /\ r.w.locked = w.locked - own.quote + 0
                 /\ r.w.held = w.held - own.base + 0
      BY <1>2, <2>8, <2>9, <3>1, <3>2, Fields
    <3> QED
      BY <1>0, <1>6, <2>7, <2>9, <3>2 DEF OrderEffect
  <2>10. CASE ~(k.ok /\ Ends(e))
    <3>1. r = k
      BY <1>1, <1>6, <2>10
    <3>2. ASSUME r.ok, ~Borrows(e), own.quote <= w.locked, own.base <= w.held
          PROVE  /\ (r.w.free + r.w.locked) - r.w.booked
                      = (w.free + w.locked) - w.booked
                 /\ r.w.locked = w.locked - own.quote + need
                 /\ r.w.held = w.held - own.base + 0
                 /\ ~Ends(e)
      BY <1>2, <2>8, <2>10, <3>1, <3>2, Fields
    <3> QED
      BY <1>0, <1>6, <2>7, <2>10, <3>2 DEF OrderEffect
  <2> QED
    BY <2>9, <2>10
<1>7. CASE f.ok /\ e.order \notin Buys
  <2>1. own.quote = 0 /\ ql = 0
    BY <1>0, <1>2, <1>3, <1>7 DEF OpenType, QuoteLeft
  <2>2. k = SyncBaseLock(f.w, bl, e.rem) /\ u = SyncBaseLock(k.w, e.rem, 0)
    BY <1>0, <1>3, <1>7 DEF Lock, Unlock
  <2>3. BaseLockEffect(f.w, k, bl, e.rem)
    BY <1>2, <1>4, <2>2, BaseLockOutcome
  <2>4. Sound(k.w)
    BY <2>3 DEF BaseLockEffect
  <2>5. BaseLockEffect(k.w, u, e.rem, 0)
    BY <1>2, <2>2, <2>4, BaseLockOutcome
  <2>6. Sound(u.w)
    BY <2>5 DEF BaseLockEffect
  <2>7. Sound(r.w)
    BY <1>1, <1>4, <2>4, <2>6
  <2>8. ASSUME k.ok, ~Borrows(e), own.quote <= w.locked, own.base <= w.held
        PROVE  /\ (k.w.free + k.w.locked) - k.w.booked
                    = (w.free + w.locked) - w.booked
               /\ k.w.held = w.held - own.base + e.rem
               /\ k.w.locked = w.locked - own.quote
               /\ (u.w.free + u.w.locked) - u.w.booked
                    = (w.free + w.locked) - w.booked
               /\ u.ok => u.w.held = w.held - own.base
               /\ u.w.locked = w.locked - own.quote
    <3>1. /\ f.w.held = w.held - own.base + bl
          /\ f.w.locked = w.locked - own.quote
          /\ (f.w.free + f.w.locked) - f.w.booked = (w.free + w.locked) - w.booked
      BY <1>4, <1>7, <2>1, <2>8, Fields
    <3>2. bl <= f.w.held
      BY <1>2, <1>4, <2>8, <3>1, Fields
    <3>3. /\ k.w.held = f.w.held + e.rem - bl /\ k.w.free = f.w.free
          /\ k.w.booked = f.w.booked /\ k.w.locked = f.w.locked
      BY <2>3, <2>8, <3>2 DEF BaseLockEffect
    <3>4. k.w.held = w.held - own.base + e.rem
      BY <1>2, <1>4, <3>1, <3>3, Fields
    <3>5. e.rem <= k.w.held
      BY <1>2, <2>8, <3>4, Fields
    <3>6. u.ok => u.w.held = k.w.held + 0 - e.rem
      BY <2>5, <3>5 DEF BaseLockEffect
    <3>7. u.w.free = k.w.free /\ u.w.booked = k.w.booked
          /\ u.w.locked = k.w.locked
      BY <2>5 DEF BaseLockEffect
    <3>8. u.ok => u.w.held = w.held - own.base
      BY <1>2, <2>8, <3>4, <3>6, Fields
    <3> QED
      BY <3>1, <3>3, <3>4, <3>7, <3>8
  <2>9. CASE k.ok /\ Ends(e)
    <3>1. r = u
      BY <1>1, <1>7, <2>9
    <3>2. ASSUME r.ok, ~Borrows(e), own.quote <= w.locked, own.base <= w.held
          PROVE  /\ (r.w.free + r.w.locked) - r.w.booked
                      = (w.free + w.locked) - w.booked
                 /\ r.w.locked = w.locked - own.quote + 0
                 /\ r.w.held = w.held - own.base + 0
      BY <1>2, <2>8, <2>9, <3>1, <3>2, Fields
    <3> QED
      BY <1>0, <1>7, <2>7, <2>9, <3>2 DEF OrderEffect
  <2>10. CASE ~(k.ok /\ Ends(e))
    <3>1. r = k
      BY <1>1, <1>7, <2>10
    <3>2. ASSUME r.ok, ~Borrows(e), own.quote <= w.locked, own.base <= w.held
          PROVE  /\ (r.w.free + r.w.locked) - r.w.booked
                      = (w.free + w.locked) - w.booked
                 /\ r.w.locked = w.locked - own.quote + 0
                 /\ r.w.held = w.held - own.base + e.rem
                 /\ ~Ends(e)
      BY <1>2, <2>8, <2>10, <3>1, <3>2, Fields
    <3> QED
      BY <1>0, <1>7, <2>7, <2>10, <3>2 DEF OrderEffect
  <2> QED
    BY <2>9, <2>10
<1> QED
  BY <1>5, <1>6, <1>7

-----------------------------------------------------------------------------
(* Booking an event keeps the ledger *)

QuoteOf(t) == [o \in Orders |-> t[o].quote]
BaseOf(t)  == [o \in Orders |-> t[o].base]

\* The locks are totals of amounts that are not negative.
LEMMA LocksAreTotals ==
  ASSUME OpenType
  PROVE  /\ QuoteOf(open) \in [Orders -> Nat] /\ BaseOf(open) \in [Orders -> Nat]
         /\ QuoteLocks = Total(QuoteOf(open)) /\ BaseLocks = Total(BaseOf(open))
<1>1. \A o \in Orders : open[o].quote \in Nat /\ open[o].base \in Nat
  BY DEF OpenType
<1> QED
  BY <1>1 DEF QuoteOf, BaseOf, QuoteLocks, BaseLocks

\* The orders t have the locks of open, but o has these.
Relocked(t, o, q, b) ==
  \A x \in Orders : /\ t[x].quote = IF x = o THEN q ELSE open[x].quote
                    /\ t[x].base = IF x = o THEN b ELSE open[x].base

\* The totals when one order changes its locks.
LEMMA LocksChange ==
  ASSUME OpenType, NEW o \in Orders, NEW t, NEW q \in Nat, NEW b \in Nat,
         Relocked(t, o, q, b)
  PROVE  /\ Total(QuoteOf(t)) = QuoteLocks + q - open[o].quote
         /\ Total(BaseOf(t)) = BaseLocks + b - open[o].base
<1>1. /\ QuoteOf(open) \in [Orders -> Nat] /\ BaseOf(open) \in [Orders -> Nat]
      /\ QuoteLocks = Total(QuoteOf(open)) /\ BaseLocks = Total(BaseOf(open))
  BY LocksAreTotals
<1>2. PICK f, g : f = QuoteOf(open) /\ g = BaseOf(open)
  OBVIOUS
<1>3. /\ f \in [Orders -> Int] /\ g \in [Orders -> Int]
      /\ \A x \in Orders : f[x] = open[x].quote /\ g[x] = open[x].base
  BY <1>1, <1>2 DEF QuoteOf, BaseOf
<1>4. /\ QuoteOf(t) = [x \in Orders |-> IF x = o THEN q ELSE f[x]]
      /\ BaseOf(t) = [x \in Orders |-> IF x = o THEN b ELSE g[x]]
  BY <1>3 DEF QuoteOf, BaseOf, Relocked
<1>5. /\ [f EXCEPT ![o] = q] = [x \in Orders |-> IF x = o THEN q ELSE f[x]]
      /\ [g EXCEPT ![o] = b] = [x \in Orders |-> IF x = o THEN b ELSE g[x]]
  BY <1>3
<1>6. q \in Int /\ b \in Int
  OBVIOUS
<1>7. Total([f EXCEPT ![o] = q]) = Total(f) + q - f[o]
  BY <1>3, <1>6, TotalUpdate, Zenon
<1>8. Total([g EXCEPT ![o] = b]) = Total(g) + b - g[o]
  BY <1>3, <1>6, TotalUpdate, Zenon
<1> QED
  BY <1>1, <1>2, <1>3, <1>4, <1>5, <1>7, <1>8, Zenon

\* An order that is open as on_order leaves it.
LEMMA OpenedOutcome ==
  ASSUME NEW e \in Events, OpenType
  PROVE  \E new \in [exec : 0..Qty, quote : Nat, base : Nat, in : BOOLEAN] :
           /\ Opened(e) = [open EXCEPT ![e.order] = new]
           /\ new.quote = (IF Ends(e) \/ e.order \notin Buys THEN 0
                           ELSE e.rem * e.lockPrice)
           /\ new.base = (IF Ends(e) \/ e.order \in Buys THEN 0 ELSE e.rem)
           /\ ~new.in => new = NoOrder
<1>1. /\ e.order \in Orders /\ e.cum \in 0..Qty /\ e.rem \in Nat
      /\ e.rem * e.lockPrice \in Nat
  BY EventParts
<1>2. PICK need : need = e.rem * e.lockPrice /\ need \in Nat
  BY <1>1
<1>3. CASE Ends(e)
  <2>1. NoOrder \in [exec : 0..Qty, quote : Nat, base : Nat, in : BOOLEAN]
    BY SpotAssumption DEF NoOrder
  <2>2. Opened(e) = [open EXCEPT ![e.order] = NoOrder]
    BY <1>3 DEF Opened
  <2> QED
    BY <1>3, <2>1, <2>2 DEF NoOrder
<1>4. CASE ~Ends(e)
  <2> DEFINE new == [exec |-> e.cum, in |-> TRUE,
                     quote |-> IF e.order \in Buys THEN need ELSE 0,
                     base  |-> IF e.order \in Buys THEN 0 ELSE e.rem]
  <2>1. new \in [exec : 0..Qty, quote : Nat, base : Nat, in : BOOLEAN]
    BY <1>1, <1>2
  <2>2. Opened(e) = [open EXCEPT ![e.order] = new]
    BY <1>2, <1>4 DEF Opened
  <2>3. new.in /\ new.quote = (IF e.order \in Buys THEN need ELSE 0)
        /\ new.base = (IF e.order \in Buys THEN 0 ELSE e.rem)
    OBVIOUS
  <2> HIDE DEF new
  <2> QED
    BY <1>2, <1>4, <2>1, <2>2, <2>3
<1> QED
  BY <1>3, <1>4

\* Booking an event: a sound wallet, well-formed orders, and the pools still
\* the locks of the orders.
LEMMA BookKeeps ==
  ASSUME OpenType, HistoryType, Sound(w), Ledger,
         NEW e \in Events, NEW cum, Book(e, cum)
  PROVE  OpenType' /\ HistoryType' /\ Sound(w)' /\ Ledger'
<1>0. PICK r, q, b, own :
        /\ r = OnOrder(e) /\ own = open[e.order]
        /\ q = (IF Ends(e) \/ e.order \notin Buys THEN 0 ELSE e.rem * e.lockPrice)
        /\ b = (IF Ends(e) \/ e.order \in Buys THEN 0 ELSE e.rem)
  OBVIOUS
<1>1. /\ w' = r.w
      /\ open' = IF r.ok THEN Opened(e) ELSE open
      /\ mixed' = (mixed \/ Borrows(e))
      /\ torn' = (torn \/ (~r.ok /\ r.w # w))
  BY <1>0 DEF Book
<1>2. OrderEffect(e, r, q, b)
  BY <1>0, OnOrderOutcome
<1>3. Sound(w')
  BY <1>1, <1>2 DEF OrderEffect
<1>4. HistoryType'
  BY <1>1, Zenon DEF HistoryType
<1>5. /\ e.order \in Orders /\ q \in Nat /\ b \in Nat
      /\ own.quote \in Nat /\ own.base \in Nat
  BY <1>0, EventParts
<1>6. CASE ~r.ok
  <2>1. open' = open
    BY <1>1, <1>6
  <2>2. OpenType'
    BY <2>1 DEF OpenType
  <2>3. ASSUME ~mixed', ~torn'
        PROVE  w' = w /\ ~mixed /\ ~torn
    BY <1>1, <1>6, <2>3
  <2>4. Ledger'
    BY <2>1, <2>3 DEF Ledger, MoneyConserved, LocksBelongToOrders, QuoteLocks, BaseLocks
  <2> QED
    BY <1>3, <1>4, <2>2, <2>4
<1>7. CASE r.ok
  <2>1. PICK new \in [exec : 0..Qty, quote : Nat, base : Nat, in : BOOLEAN] :
           /\ Opened(e) = [open EXCEPT ![e.order] = new]
           /\ new.quote = q /\ new.base = b /\ (~new.in => new = NoOrder)
    BY <1>0, OpenedOutcome
  <2>2. open' = [open EXCEPT ![e.order] = new]
    BY <1>1, <1>7, <2>1
  <2>3. e.order \in Buys => b = 0
    BY <1>0
  <2>4. e.order \notin Buys => q = 0
    BY <1>0
  <2>5. OpenType'
    BY <1>5, <2>1, <2>2, <2>3, <2>4 DEF OpenType
  <2>6. /\ Total(QuoteOf(open')) = QuoteLocks + q - own.quote
        /\ Total(BaseOf(open')) = BaseLocks + b - own.base
    <3>1. Relocked(open', e.order, q, b)
      BY <2>1, <2>2 DEF OpenType, Relocked
    <3> QED
      BY <1>0, <1>5, <3>1, LocksChange
  <2>7. QuoteLocks' = Total(QuoteOf(open')) /\ BaseLocks' = Total(BaseOf(open'))
    BY DEF QuoteLocks, BaseLocks, QuoteOf, BaseOf
  <2>8. ASSUME ~mixed', ~torn'
        PROVE  /\ w'.free + w'.locked = Free0 + w'.booked
               /\ w'.locked = QuoteLocks' /\ w'.held = BaseLocks'
    <3>1. ~mixed /\ ~torn /\ ~Borrows(e)
      BY <1>1, <2>8
    <3>2. /\ w.free + w.locked = Free0 + w.booked
          /\ w.locked = QuoteLocks /\ w.held = BaseLocks
      BY <3>1 DEF Ledger, MoneyConserved, LocksBelongToOrders
    <3>3. own.quote <= w.locked /\ own.base <= w.held
      <4>1. PICK f, g : f = QuoteOf(open) /\ g = BaseOf(open)
        OBVIOUS
      <4>2. f \in [Orders -> Nat] /\ g \in [Orders -> Nat]
            /\ QuoteLocks = Total(f) /\ BaseLocks = Total(g)
        BY <4>1, LocksAreTotals
      <4>3. f[e.order] <= Total(f) /\ g[e.order] <= Total(g)
        BY <1>5, <4>2, TotalBound
      <4>4. f[e.order] = own.quote /\ g[e.order] = own.base
        BY <1>0, <1>5, <4>1 DEF QuoteOf, BaseOf
      <4> QED
        BY <3>2, <4>2, <4>3, <4>4
    <3>4. /\ (w'.free + w'.locked) - w'.booked = (w.free + w.locked) - w.booked
          /\ w'.locked = w.locked - own.quote + q
          /\ w'.held = w.held - own.base + b
      BY <1>0, <1>1, <1>2, <1>7, <3>1, <3>3 DEF OrderEffect
    <3>5. /\ w.free \in Nat /\ w.locked \in Nat /\ w.held \in Nat
          /\ w.booked \in Int /\ w'.free \in Nat /\ w'.locked \in Nat
          /\ w'.held \in Nat /\ w'.booked \in Int
      BY <1>3, Fields
    <3>6. w'.free + w'.locked = Free0 + w'.booked
      BY <3>2, <3>4, <3>5, SpotAssumption
    <3>7. w'.locked = QuoteLocks' /\ w'.held = BaseLocks'
      BY <1>5, <2>6, <2>7, <3>2, <3>4, <3>5
    <3> QED
      BY <3>6, <3>7
  <2>9. Ledger'
    BY <2>8 DEF Ledger, MoneyConserved, LocksBelongToOrders
  <2> QED
    BY <1>3, <1>4, <2>5, <2>9
<1> QED
  BY <1>6, <1>7

-----------------------------------------------------------------------------
(* The exchange keeps its types *)

\* A trade is within the limit of its order, and a sale brings its fee.
LEMMA PricesType ==
  ASSUME NEW o \in Orders, NEW p \in Prices(o)
  PROVE  /\ p \in 1..MaxPrice /\ p \in Nat /\ Limit[o] \in Nat
         /\ o \in Buys /\ ~IsMarket(o) => p <= Limit[o]
         /\ o \notin Buys => Fee <= p
<1>1. Limit[o] \in 0..MaxPrice /\ MaxPrice \in Nat /\ Fee \in Nat
  BY SpotAssumption
<1>2. CASE IsMarket(o)
  <2>1. p \in 1..MaxPrice
    BY <1>2 DEF Prices
  <2>2. o \notin Buys => Fee <= 1
    BY <1>2, SpotAssumption DEF IsMarket
  <2> QED
    BY <1>1, <1>2, <2>1, <2>2
<1>3. CASE ~IsMarket(o)
  <2>1. Limit[o] \in 1..MaxPrice
    BY <1>1, <1>3 DEF IsMarket
  <2>2. o \notin Buys => Fee <= Limit[o]
    BY <1>3, SpotAssumption DEF IsMarket
  <2>3. p \in IF o \in Buys THEN 1..Limit[o] ELSE Limit[o]..MaxPrice
    BY <1>3 DEF Prices
  <2> QED
    BY <1>1, <2>1, <2>2, <2>3
<1> QED
  BY <1>2, <1>3

\* A reserve is an amount, and a trade changes the money by an integer.
LEMMA ReserveType ==
  ASSUME NEW o \in Orders, NEW q \in Nat
  PROVE  Reserve(o, q) \in Nat
<1>1. Limit[o] + Fee \in Nat
  BY SpotAssumption
<1>2. q * (Limit[o] + Fee) \in Nat
  BY <1>1
<1> QED
  BY <1>2 DEF Reserve

LEMMA ProceedsType ==
  ASSUME NEW o \in Orders, NEW n \in Nat, NEW p \in Prices(o)
  PROVE  /\ Proceeds(o, n, p) \in Int
         /\ o \notin Buys => Proceeds(o, n, p) \in Nat
<1>1. /\ p \in Nat /\ Limit[o] \in Nat /\ Fee \in Nat
      /\ o \notin Buys => p - Fee \in Nat
  BY PricesType, SpotAssumption
<1>2. /\ n * (p - Fee) \in Int /\ -(n * (p + Fee)) \in Int
      /\ n * (Limit[o] - p) \in Int
  BY <1>1
<1>3. o \notin Buys => n * (p - Fee) \in Nat
  BY <1>1
<1> QED
  BY <1>2, <1>3 DEF Proceeds

\* The exchange reports events.
LEMMA EventType ==
  ASSUME NEW o \in Orders, NEW cum \in 0..Qty, NEW p \in Prices(o),
         NEW lockPrice \in Nat, NEW status \in {"none", "live"} \cup Statuses
  PROVE  Event(o, cum, p, lockPrice, status) \in Events
<1>1. Qty - cum \in 0..Qty
  BY SpotAssumption
<1>2. p \in 1..MaxPrice /\ (o \notin Buys => Fee <= p)
  BY PricesType
<1> QED
  BY <1>1, <1>2 DEF Event, Events

\* So does the answer to an order.
LEMMA AnswerType ==
  ASSUME NEW o \in Orders, NEW n \in 0..Qty, NEW p \in Prices(o),
         NEW status \in Statuses
  PROVE  AnswerEvents(o, n, p, status) \in Seq(Events)
<1> DEFINE Kind(i)  == IF status = "FILLED" /\ i < n THEN "PARTIALLY_FILLED"
                                                     ELSE status
           Own(i)   == IF i = 0 THEN Limit[o] ELSE CheckPrice(o, p)
           Fills(i) == Event(o, i, p, Own(i), Kind(i))
<1>0. CheckPrice(o, p) \in Nat /\ Limit[o] \in Nat
  BY PricesType DEF CheckPrice
<1>1. ASSUME NEW i \in 0..Qty PROVE Fills(i) \in Events
  <2>1. Kind(i) \in {"none", "live"} \cup Statuses
    BY DEF Statuses
  <2>2. Own(i) \in Nat
    BY <1>0
  <2> HIDE DEF Kind, Own
  <2> QED
    BY <2>1, <2>2, EventType
<1>2. n \in Nat /\ \A i \in 1..n : i \in 0..Qty
  BY SpotAssumption
<1>3. << Fills(0) >> \in Seq(Events)
  <2>1. 0 \in 0..Qty
    BY SpotAssumption
  <2>2. Fills(0) \in Events
    BY <1>1, <2>1
  <2> HIDE DEF Fills
  <2> QED
    BY <2>2
<1>4. [i \in 1..n |-> Fills(i)] \in Seq(Events)
  <2>1. \A i \in 1..n : Fills(i) \in Events
    BY <1>1, <1>2
  <2> HIDE DEF Fills
  <2> QED
    BY <1>2, <2>1
<1>5. AnswerEvents(o, n, p, status) =
        IF n = 0 /\ status = "CANCELED" THEN << Fills(0) >>
        ELSE [i \in 1..n |-> Fills(i)]
  BY DEF AnswerEvents
<1> HIDE DEF Fills
<1> QED
  BY <1>3, <1>4, <1>5

\* The head and the tail of a sequence that is not empty.
LEMMA HeadTail ==
  ASSUME NEW S, NEW s \in Seq(S), s # <<>>
  PROVE  /\ Head(s) \in S /\ Tail(s) \in Seq(S) /\ Len(s) \in Nat \ {0}
         /\ Len(Tail(s)) = Len(s) - 1
OBVIOUS

\* A trade of a resting order.
LEMMA TradeKeeps ==
  ASSUME ExchangeType, NEW o \in Orders, Trade(o)
  PROVE  ExchangeType'
<1>1. PICK p \in Prices(o) :
        /\ exec' = [exec EXCEPT ![o] = @ + 1]
        /\ st' = [st EXCEPT ![o] = IF exec[o] + 1 = Qty THEN "FILLED" ELSE @]
        /\ unseen' = [unseen EXCEPT ![o] = Append(@, p)]
        /\ xFree + Proceeds(o, 1, p) >= 0
        /\ xFree' = xFree + Proceeds(o, 1, p)
        /\ xBase' = xBase + (IF o \in Buys THEN 1 ELSE 0)
  BY DEF Trade
<1>2. st[o] = "live" /\ log' = log /\ spent' = spent
  BY DEF Trade
<1>3. exec[o] \in 0..Qty /\ exec[o] < Qty /\ Qty \in Nat
  BY <1>2, SpotAssumption DEF ExchangeType
<1>4. exec[o] + 1 \in 0..Qty /\ (exec[o] + 1 # Qty => exec[o] + 1 < Qty)
  BY <1>3
<1>5. exec' \in [Orders -> 0..Qty]
  BY <1>1, <1>4 DEF ExchangeType
<1>6. st' \in [Orders -> {"none", "live"} \cup Terminal]
  BY <1>1 DEF ExchangeType, Terminal
<1>7. \A x \in Orders : /\ st'[x] = "live" => exec'[x] < Qty
                        /\ st'[x] = "none" => exec'[x] = 0
  BY <1>1, <1>2, <1>4 DEF ExchangeType
<1>8. p \in 1..MaxPrice /\ Proceeds(o, 1, p) \in Int
  BY PricesType, ProceedsType
<1>9. xFree' \in Nat /\ xBase' \in Nat
  BY <1>1, <1>8 DEF ExchangeType
<1>10. unseen' \in [Orders -> Seq(1..MaxPrice)]
  BY <1>1, <1>8 DEF ExchangeType
<1>11. ASSUME NEW x \in Orders
       PROVE  unseen'[x] \in Seq(Prices(x)) /\ Len(unseen'[x]) <= exec'[x]
  <2>1. unseen[x] \in Seq(Prices(x)) /\ Len(unseen[x]) <= exec[x]
        /\ exec[x] \in 0..Qty
    BY DEF ExchangeType
  <2>2. CASE x = o
    <3>1. unseen'[x] = Append(unseen[x], p) /\ exec'[x] = exec[x] + 1
      BY <1>1, <2>2 DEF ExchangeType
    <3>2. p \in Prices(x)
      BY <2>2
    <3> QED
      BY <1>3, <2>1, <3>1, <3>2
  <2>3. CASE x # o
    BY <1>1, <2>1, <2>3 DEF ExchangeType
  <2> QED
    BY <2>2, <2>3
<1>12. log' \in Seq(Events) /\ spent' \in [Orders -> Nat]
  BY <1>2 DEF ExchangeType
<1> QED
  BY <1>5, <1>6, <1>7, <1>9, <1>10, <1>11, <1>12 DEF ExchangeType

\* A cancellation.
LEMMA CancelKeeps ==
  ASSUME ExchangeType, NEW o \in Orders, Cancel(o)
  PROVE  ExchangeType'
<1>1. /\ st' = [st EXCEPT ![o] = "CANCELED"]
      /\ exec' = exec /\ unseen' = unseen /\ log' = log /\ spent' = spent
  BY DEF Cancel
<1>2. Qty - exec[o] \in Nat
  BY SpotAssumption DEF ExchangeType
<1>3. Reserve(o, Qty - exec[o]) \in Nat
  BY <1>2, ReserveType
<1>4. xFree' \in Nat /\ xBase' \in Nat
  <2>1. PICK back \in Nat : back = Reserve(o, Qty - exec[o])
    BY <1>3
  <2>2. IF o \in Buys THEN xFree' = xFree + back /\ xBase' = xBase
                      ELSE xBase' = xBase + back /\ xFree' = xFree
    BY <2>1 DEF Cancel
  <2> QED
    BY <2>2 DEF ExchangeType
<1>5. st' \in [Orders -> {"none", "live"} \cup Terminal]
  BY <1>1 DEF ExchangeType, Terminal
<1>6. \A x \in Orders : /\ st'[x] = "live" => exec'[x] < Qty
                        /\ st'[x] = "none" => exec'[x] = 0
  BY <1>1 DEF ExchangeType
<1> QED
  BY <1>1, <1>4, <1>5, <1>6 DEF ExchangeType

\* A report of the oldest trade.
LEMMA ReportKeeps ==
  ASSUME ExchangeType, NEW o \in Orders, Report(o)
  PROVE  ExchangeType'
<1>0. PICK cum, all :
        /\ cum = exec[o] - Len(unseen[o]) + 1
        /\ all = spent[o] + Head(unseen[o])
  OBVIOUS
<1>1. PICK now :
        /\ now = IF st[o] = "live" \/ (st[o] = "FILLED" /\ cum < Qty)
                   THEN "PARTIALLY_FILLED" ELSE st[o]
        /\ log' = Append(log, Event(o, cum, Head(unseen[o]), all \div cum, now))
        /\ spent' = [spent EXCEPT ![o] = all]
  BY <1>0 DEF Report
<1>2. /\ unseen[o] # <<>> /\ unseen' = [unseen EXCEPT ![o] = Tail(@)]
      /\ st' = st /\ exec' = exec /\ xFree' = xFree /\ xBase' = xBase
  BY DEF Report
<1>3. /\ unseen[o] \in Seq(Prices(o)) /\ unseen[o] \in Seq(1..MaxPrice)
      /\ Len(unseen[o]) <= exec[o] /\ exec[o] \in 0..Qty
      /\ st[o] \in {"none", "live"} \cup Terminal
  BY DEF ExchangeType
<1>4. /\ Head(unseen[o]) \in Prices(o) /\ Len(unseen[o]) \in Nat \ {0}
      /\ Tail(unseen[o]) \in Seq(Prices(o))
      /\ Tail(unseen[o]) \in Seq(1..MaxPrice)
      /\ Len(Tail(unseen[o])) = Len(unseen[o]) - 1
  BY <1>2, <1>3, HeadTail, Zenon
<1>5. cum \in 0..Qty /\ cum \in Nat \ {0}
  BY <1>0, <1>3, <1>4, SpotAssumption
<1>5a. all \in Nat
  BY <1>0, <1>4, PricesType DEF ExchangeType
<1>5b. all \div cum \in Nat
  BY <1>5, <1>5a, Division
<1>6. now \in {"none", "live"} \cup Statuses
  BY <1>1, <1>3 DEF Statuses
<1>7. PICK ev \in Events : log' = Append(log, ev)
  BY <1>1, <1>4, <1>5, <1>5b, <1>6, EventType
<1>8. log' \in Seq(Events) /\ spent' \in [Orders -> Nat]
  BY <1>1, <1>5a, <1>7 DEF ExchangeType
<1>9. unseen' \in [Orders -> Seq(1..MaxPrice)]
  BY <1>2, <1>4 DEF ExchangeType
<1>10. ASSUME NEW x \in Orders
       PROVE  unseen'[x] \in Seq(Prices(x)) /\ Len(unseen'[x]) <= exec'[x]
  <2>1. unseen[x] \in Seq(Prices(x)) /\ Len(unseen[x]) <= exec[x]
    BY DEF ExchangeType
  <2>2. CASE x = o
    <3>1. unseen'[x] = Tail(unseen[x]) /\ exec'[x] = exec[x]
      BY <1>2, <2>2 DEF ExchangeType
    <3> QED
      BY <1>3, <1>4, <2>1, <2>2, <3>1
  <2>3. CASE x # o
    BY <1>2, <2>1, <2>3 DEF ExchangeType
  <2> QED
    BY <2>2, <2>3
<1> QED
  BY <1>2, <1>8, <1>9, <1>10 DEF ExchangeType

\* How the exchange takes an order: n units are traded at price p before the
\* answer, the order is now in this state, and so much of its reserve is free.
Taken(o, n, p, now, back, told) ==
  /\ now = "FILLED" <=> n = Qty
  /\ back = IF now = "CANCELED" THEN Reserve(o, Qty - n) ELSE 0
  /\ told = IF now = "live" THEN "PARTIALLY_FILLED" ELSE now
  /\ st' = [st EXCEPT ![o] = now]
  /\ exec' = [exec EXCEPT ![o] = n] /\ spent' = [spent EXCEPT ![o] = n * p]
  /\ IF o \in Buys
       THEN /\ xFree' = xFree - Reserve(o, Qty) + back + Proceeds(o, n, p)
            /\ xFree' >= 0 /\ xBase' = xBase + n
       ELSE /\ xFree' = xFree + Proceeds(o, n, p)
            /\ xBase' = xBase - Reserve(o, Qty) + back
  /\ answer' = AnswerEvents(o, n, p, told)

\* Every order that is placed is taken in one of these ways.
LEMMA PlaceTaken ==
  ASSUME NEW o \in Orders, Place(o)
  PROVE  \E n \in 0..Qty, p \in Prices(o), now \in {"live"} \cup Terminal,
            back \in Nat, told \in Statuses : Taken(o, n, p, now, back, told)
<1>1. PICK n \in 0..Qty, p \in Prices(o), mark \in 1..MaxPrice,
           rests \in BOOLEAN :
      LET now  == IF n = Qty THEN "FILLED"
                  ELSE IF rests THEN "live" ELSE "CANCELED"
          back == IF now = "CANCELED" THEN Reserve(o, Qty - n) ELSE 0
          told == IF now = "live" THEN "PARTIALLY_FILLED" ELSE now
          price == CheckPrice(o, mark)
      IN  /\ BalanceGuard(o, price)
          /\ st' = [st EXCEPT ![o] = now]
          /\ exec' = [exec EXCEPT ![o] = n]
          /\ spent' = [spent EXCEPT ![o] = n * p]
          /\ IF o \in Buys
               THEN /\ xFree' = xFree - Reserve(o, Qty) + back
                                      + Proceeds(o, n, p)
                    /\ xFree' >= 0
                    /\ xBase' = xBase + n
               ELSE /\ xFree' = xFree + Proceeds(o, n, p)
                    /\ xBase' = xBase - Reserve(o, Qty) + back
          /\ answer' = AnswerEvents(o, n, p, told)
          /\ checked' =
               IF AllSettled
                 THEN [order |-> o, price |-> price,
                       kept |-> (o \in Buys /\ n > 0 => p <= price)]
                 ELSE Unchecked
  BY Zenon DEF Place
<1>2. PICK now : now = IF n = Qty THEN "FILLED"
                       ELSE IF rests THEN "live" ELSE "CANCELED"
  OBVIOUS
<1>3. now \in {"live"} \cup Terminal /\ (now = "FILLED" <=> n = Qty)
  BY <1>2 DEF Terminal
<1>4. PICK back, told :
        /\ back = IF now = "CANCELED" THEN Reserve(o, Qty - n) ELSE 0
        /\ told = IF now = "live" THEN "PARTIALLY_FILLED" ELSE now
  OBVIOUS
<1>5. /\ st' = [st EXCEPT ![o] = now]
      /\ exec' = [exec EXCEPT ![o] = n] /\ spent' = [spent EXCEPT ![o] = n * p]
      /\ IF o \in Buys
           THEN /\ xFree' = xFree - Reserve(o, Qty) + back
                                  + Proceeds(o, n, p)
                /\ xFree' >= 0 /\ xBase' = xBase + n
           ELSE /\ xFree' = xFree + Proceeds(o, n, p)
                /\ xBase' = xBase - Reserve(o, Qty) + back
      /\ answer' = AnswerEvents(o, n, p, told)
  BY <1>1, <1>2, <1>4, Zenon
<1>6. told \in Statuses
  BY <1>3, <1>4 DEF Statuses, Terminal
<1>7. Qty - n \in Nat
  BY SpotAssumption
<1>8. back \in Nat
  BY <1>4, <1>7, ReserveType
<1> QED
  BY <1>3, <1>4, <1>5, <1>6, <1>8, Zenon DEF Taken

\* An order is placed and answered.
LEMMA PlaceKeeps ==
  ASSUME ExchangeType, NEW o \in Orders, Place(o)
  PROVE  ExchangeType' /\ answer' \in Seq(Events)
<1>1. PICK n \in 0..Qty, p \in Prices(o), now \in {"live"} \cup Terminal,
           back \in Nat, told \in Statuses :
        /\ now = "FILLED" <=> n = Qty
        /\ back = IF now = "CANCELED" THEN Reserve(o, Qty - n) ELSE 0
        /\ told = IF now = "live" THEN "PARTIALLY_FILLED" ELSE now
        /\ st' = [st EXCEPT ![o] = now]
        /\ exec' = [exec EXCEPT ![o] = n] /\ spent' = [spent EXCEPT ![o] = n * p]
        /\ IF o \in Buys
             THEN /\ xFree' = xFree - Reserve(o, Qty) + back
                                    + Proceeds(o, n, p)
                  /\ xFree' >= 0 /\ xBase' = xBase + n
             ELSE /\ xFree' = xFree + Proceeds(o, n, p)
                  /\ xBase' = xBase - Reserve(o, Qty) + back
        /\ answer' = AnswerEvents(o, n, p, told)
  BY PlaceTaken, Zenon DEF Taken
<1>2. /\ st[o] = "none" /\ unseen' = unseen /\ log' = log
      /\ IF o \in Buys THEN xFree >= Reserve(o, Qty) ELSE xBase >= Reserve(o, Qty)
  BY DEF Place
<1>4. answer' \in Seq(Events)
  BY <1>1, AnswerType
<1>5. Qty \in Nat /\ Qty - n \in Nat /\ n \in Nat
  BY SpotAssumption
<1>6. Reserve(o, Qty) \in Nat /\ back \in Nat
  BY <1>1, <1>5, ReserveType
<1>7. Proceeds(o, n, p) \in Int /\ (o \notin Buys => Proceeds(o, n, p) \in Nat)
  BY <1>5, ProceedsType
<1>8. xFree' \in Nat /\ xBase' \in Nat
  <2>1. PICK gain \in Int : gain = Proceeds(o, n, p)
                            /\ (o \notin Buys => gain \in Nat)
    BY <1>7
  <2>2. CASE o \in Buys
    <3>1. /\ xFree' = xFree - Reserve(o, Qty) + back + gain
          /\ xFree' >= 0 /\ xBase' = xBase + n
      BY <1>1, <2>1, <2>2
    <3> QED
      BY <1>5, <1>6, <2>1, <3>1 DEF ExchangeType
  <2>3. CASE o \notin Buys
    <3>1. xBase - Reserve(o, Qty) \in Nat
      BY <1>2, <1>6, <2>3 DEF ExchangeType
    <3>2. xFree' = xFree + gain /\ xBase' = xBase - Reserve(o, Qty) + back
      BY <1>1, <2>1, <2>3
    <3> QED
      BY <1>6, <2>1, <2>3, <3>1, <3>2 DEF ExchangeType
  <2> QED
    BY <2>2, <2>3
<1>9. st' \in [Orders -> {"none", "live"} \cup Terminal]
  BY <1>1 DEF ExchangeType
<1>10. exec' \in [Orders -> 0..Qty]
  BY <1>1 DEF ExchangeType
<1>11. \A x \in Orders : /\ st'[x] = "live" => exec'[x] < Qty
                         /\ st'[x] = "none" => exec'[x] = 0
  <2>1. now = "live" => n < Qty
    BY <1>1, <1>5
  <2>2. now # "none"
    BY <1>1 DEF Terminal
  <2> QED
    BY <1>1, <2>1, <2>2 DEF ExchangeType
<1>12. ASSUME NEW x \in Orders
       PROVE  unseen'[x] \in Seq(Prices(x)) /\ Len(unseen'[x]) <= exec'[x]
  <2>1. /\ unseen'[x] \in Seq(Prices(x)) /\ Len(unseen'[x]) <= exec[x]
        /\ Len(unseen'[x]) \in Nat /\ (x = o => exec[x] = 0)
    BY <1>2 DEF ExchangeType
  <2>2. exec'[x] = IF x = o THEN n ELSE exec[x]
    BY <1>1 DEF ExchangeType
  <2> QED
    BY <1>5, <2>1, <2>2
<1>13. unseen' \in [Orders -> Seq(1..MaxPrice)] /\ log' \in Seq(Events)
  BY <1>2 DEF ExchangeType
<1>14. spent' \in [Orders -> Nat]
  <2>1. n * p \in Nat
    BY <1>5, PricesType
  <2> QED
    BY <1>1, <2>1 DEF ExchangeType
<1> QED
  BY <1>4, <1>8, <1>9, <1>10, <1>11, <1>12, <1>13, <1>14 DEF ExchangeType


-----------------------------------------------------------------------------
(* The ledger is sound *)

\* A recorded settlement stays within the order.
LEMMA RecordKeeps ==
  ASSUME EngineType, NEW o \in Orders, NEW cum \in 0..Qty, Record(o, cum)
  PROVE  settled' \in [Orders -> 0..Qty]
BY DEF EngineType, Record

\* What an adjusted event is: the same with no more than its new quantity.
LEMMA AdjustedType ==
  ASSUME EngineType, NEW e \in Events, ~(e.cum <= settled[e.order])
  PROVE  Adjusted(e) \in Events
<1>1. e.order \in Orders /\ e.cum \in 0..Qty
  BY DEF Events
<1>2. settled[e.order] \in 0..Qty
  BY <1>1 DEF EngineType
<1>3. e.cum - settled[e.order] \in 0..Qty
  BY <1>1, <1>2, SpotAssumption
<1>4. [e EXCEPT !.cum = @ - settled[e.order]] \in Events
  BY <1>3 DEF Events
<1> QED
  BY <1>4 DEF Adjusted

LEMMA LedgerInit == Init => LedgerInv
<1> SUFFICES ASSUME Init PROVE LedgerInv
  OBVIOUS
<1>1. ExchangeType
  BY SpotAssumption DEF Init, ExchangeType
<1>2. EngineType
  BY SpotAssumption DEF Init, EngineType
<1>3. OpenType
  <2>1. NoOrder \in [exec : 0..Qty, quote : Nat, base : Nat, in : BOOLEAN]
    BY SpotAssumption DEF NoOrder
  <2> QED
    BY <2>1 DEF Init, OpenType, NoOrder
<1>4. HistoryType
  BY DEF Init, HistoryType
<1>5. Sound(w)
  BY SpotAssumption DEF Init, Sound, Balances, Wallet0
<1>6. Ledger
  <2>1. \A o \in Orders : QuoteOf(open)[o] = 0 /\ BaseOf(open)[o] = 0
    BY DEF Init, NoOrder, QuoteOf, BaseOf
  <2>2. PICK f, g : f = QuoteOf(open) /\ g = BaseOf(open)
    OBVIOUS
  <2>3. Total(f) = 0 /\ Total(g) = 0
    BY <2>1, <2>2, TotalZero
  <2>4. QuoteLocks = 0 /\ BaseLocks = 0
    BY <1>3, <2>2, <2>3, LocksAreTotals
  <2>5. w.free = Free0 /\ w.locked = 0 /\ w.held = 0 /\ w.booked = 0
    BY DEF Init, Wallet0
  <2> QED
    BY <2>4, <2>5, SpotAssumption DEF Ledger, MoneyConserved, LocksBelongToOrders
<1> QED
  BY <1>1, <1>2, <1>3, <1>4, <1>5, <1>6 DEF LedgerInv

\* The wallet, its orders and the history stay as they are.
Rest == <<walletVars, mixed, torn>>

LEMMA RestKeeps ==
  ASSUME OpenType, HistoryType, Sound(w), Ledger, UNCHANGED Rest
  PROVE  OpenType' /\ HistoryType' /\ Sound(w)' /\ Ledger'
BY DEF Rest, walletVars, OpenType, HistoryType, Sound, Ledger, MoneyConserved,
       LocksBelongToOrders, QuoteLocks, BaseLocks

LEMMA LedgerStep == LedgerInv /\ [Next]_vars => LedgerInv'
<1> SUFFICES ASSUME LedgerInv, [Next]_vars PROVE LedgerInv'
  OBVIOUS
<1> USE DEF LedgerInv
<1>1. ASSUME NEW o \in Orders, Place(o) PROVE LedgerInv'
  <2>1. ExchangeType' /\ answer' \in Seq(Events)
    BY <1>1, PlaceKeeps
  <2>2. settled' = settled /\ UNCHANGED Rest
    BY <1>1 DEF Place, Rest
  <2> QED
    BY <2>1, <2>2, RestKeeps DEF EngineType
<1>2. ASSUME NEW o \in Orders, Trade(o) PROVE LedgerInv'
  <2>1. ExchangeType'
    BY <1>2, TradeKeeps
  <2>2. settled' = settled /\ answer' = answer /\ UNCHANGED Rest
    BY <1>2 DEF Trade, Rest, engineVars, historyVars
  <2> QED
    BY <2>1, <2>2, RestKeeps DEF EngineType
<1>3. ASSUME NEW o \in Orders, Cancel(o) PROVE LedgerInv'
  <2>1. ExchangeType'
    BY <1>3, CancelKeeps
  <2>2. settled' = settled /\ answer' = answer /\ UNCHANGED Rest
    BY <1>3 DEF Cancel, Rest, engineVars, historyVars
  <2> QED
    BY <2>1, <2>2, RestKeeps DEF EngineType
<1>4. ASSUME NEW o \in Orders, Report(o) PROVE LedgerInv'
  <2>1. ExchangeType'
    BY <1>4, ReportKeeps
  <2>2. settled' = settled /\ answer' = answer /\ UNCHANGED Rest
    BY <1>4 DEF Report, Rest, engineVars, historyVars
  <2> QED
    BY <2>1, <2>2, RestKeeps DEF EngineType
<1>5. ASSUME SettleAnswer PROVE LedgerInv'
  <2>1. answer # <<>> /\ answer \in Seq(Events)
    BY <1>5 DEF SettleAnswer, EngineType
  <2>2. PICK e : e = Head(answer)
    OBVIOUS
  <2>3. e \in Events /\ Tail(answer) \in Seq(Events)
    BY <2>1, <2>2, HeadTail
  <2>4. Book(e, e.cum)
    BY <1>5, <2>2 DEF SettleAnswer
  <2>5. OpenType' /\ HistoryType' /\ Sound(w)' /\ Ledger'
    BY <2>3, <2>4, BookKeeps
  <2>6. \/ Record(e.order, e.cum) /\ answer' = Tail(answer)
        \/ settled' = settled /\ answer' = <<>>
    BY <1>5, <2>2 DEF SettleAnswer
  <2>7. e.order \in Orders /\ e.cum \in 0..Qty
    BY <2>3 DEF Events
  <2>8. settled' \in [Orders -> 0..Qty]
    BY <2>6, <2>7, RecordKeeps DEF EngineType
  <2>9. answer' \in Seq(Events)
    <3>1. <<>> \in Seq(Events)
      OBVIOUS
    <3> QED
      BY <2>3, <2>6, <3>1
  <2>10. ExchangeType'
    BY <1>5 DEF SettleAnswer, exchangeVars, ExchangeType
  <2> QED
    BY <2>5, <2>8, <2>9, <2>10 DEF EngineType
<1>6. ASSUME HandleUpdate PROVE LedgerInv'
  <2>1. /\ log # <<>> /\ log \in Seq(Events) /\ log' = Tail(log)
        /\ UNCHANGED <<st, exec, unseen, spent, xFree, xBase, answer>>
    BY <1>6 DEF HandleUpdate, ExchangeType
  <2>2. PICK e, a : e = Head(log) /\ a = Adjusted(e)
    OBVIOUS
  <2>3. e \in Events /\ Tail(log) \in Seq(Events)
    BY <2>1, <2>2, HeadTail
  <2>4. ExchangeType'
    BY <2>1, <2>3 DEF ExchangeType
  <2>5. e.order \in Orders /\ e.cum \in 0..Qty
    BY <2>3 DEF Events
  <2>6. CASE e.cum <= settled[e.order]
    <3>1. settled' = settled /\ UNCHANGED Rest
      BY <1>6, <2>2, <2>6 DEF HandleUpdate, Rest
    <3> QED
      BY <2>1, <2>4, <3>1, RestKeeps DEF EngineType
  <2>7. CASE ~(e.cum <= settled[e.order])
    <3>1. Book(a, e.cum) /\ (Record(e.order, e.cum) \/ settled' = settled)
      BY <1>6, <2>2, <2>7 DEF HandleUpdate
    <3>2. a \in Events
      BY <2>2, <2>3, <2>7, AdjustedType
    <3>3. OpenType' /\ HistoryType' /\ Sound(w)' /\ Ledger'
      BY <3>1, <3>2, BookKeeps
    <3>4. settled' \in [Orders -> 0..Qty]
      BY <2>5, <3>1, RecordKeeps DEF EngineType
    <3> QED
      BY <2>1, <2>4, <3>3, <3>4 DEF EngineType
  <2> QED
    BY <2>6, <2>7
<1>7. CASE UNCHANGED vars
  <2>1. UNCHANGED Rest /\ UNCHANGED <<st, exec, unseen, spent, xFree, xBase, log,
                                          answer, settled>>
    BY <1>7 DEF vars, exchangeVars, engineVars, historyVars, Rest
  <2> QED
    BY <2>1, RestKeeps DEF ExchangeType, EngineType
<1> QED
  BY <1>1, <1>2, <1>3, <1>4, <1>5, <1>6, <1>7 DEF Next

\* For any finite set of orders and any quantities, prices and fees: the spot
\* wallet never has a negative balance nor more base locked than it holds, its
\* money is what it started with and what the fills brought, and its two
\* pools are the sums of the open orders' locks, whatever the order in which
\* answers and updates are settled.
THEOREM LedgerAlwaysSound == Spec => []LedgerSound
<1>1. LedgerInv => LedgerSound
  <2> SUFFICES ASSUME LedgerInv PROVE LedgerSound
    OBVIOUS
  <2>1. SpotTypeOK
    <3>1. /\ w.free \in Nat /\ w.locked \in Nat /\ w.qty \in Nat
          /\ w.held \in 0..w.qty /\ w.booked \in Int
      BY Fields DEF LedgerInv
    <3> QED
      BY <3>1 DEF LedgerInv, SpotTypeOK, OpenType, EngineType, ExchangeType
  <2> QED
    BY <2>1 DEF LedgerInv, LedgerSound, Ledger
<1> QED
  BY <1>1, LedgerInit, LedgerStep, PTL DEF Spec

-----------------------------------------------------------------------------
(* What the guard let through can be booked: one event *)

\* What an operation that raised lacked, or what it left.
LackAtMost(r, n) == r.lack \in Nat /\ 0 < r.lack /\ r.lack <= n

\* A lock of the order's own money pays first: the free money and the rest of
\* the lock have changed by the cost and no more.
LEMMA BuyFillCovered ==
  ASSUME NEW x, Sound(x), NEW q \in Nat, NEW price \in Nat, NEW own \in Nat,
         own <= x.locked, NEW cost, cost = q * price + Fee,
         NEW r, r = ApplyBuyFill(x, q, price)
  PROVE  /\ ~r.ok => LackAtMost(r, cost - (x.free + own))
         /\ r.ok => /\ r.lack = 0
                    /\ AtLeast0(own - cost) <= r.w.locked
                    /\ r.w.free + AtLeast0(own - cost) >= x.free + own - cost
<1>1. PICK f \in Nat, l \in Nat : f = x.free /\ l = x.locked
  BY Fields
<1>2. cost \in Nat
  <2>1. q * price \in Nat
    OBVIOUS
  <2> QED
    BY <2>1, SpotAssumption
<1>3. PICK short \in Nat : short = AtLeast0(cost - l)
  BY <1>1, <1>2 DEF AtLeast0
<1>4. CASE f < short
  <2>1. ~r.ok /\ r.lack = short - f
    BY <1>1, <1>3, <1>4 DEF ApplyBuyFill, Raise
  <2>2. short - f \in Nat /\ 0 < short - f /\ short - f <= cost - (f + own)
    BY <1>1, <1>2, <1>3, <1>4 DEF AtLeast0
  <2> QED
    BY <1>1, <2>1, <2>2 DEF LackAtMost
<1>5. CASE ~(f < short)
  <2>1. r.ok /\ r.lack = 0
        /\ r.w = [x EXCEPT !.free = @ - short, !.locked = @ + short - cost,
                           !.qty = @ + q, !.booked = @ - cost]
    BY <1>1, <1>3, <1>5 DEF ApplyBuyFill, Done
  <2>2. r.w.free = f - short /\ r.w.locked = l + short - cost
    BY <1>1, <2>1 DEF Sound, Balances
  <2>3. /\ AtLeast0(own - cost) <= l + short - cost
        /\ (f - short) + AtLeast0(own - cost) >= f + own - cost
    BY <1>1, <1>2, <1>3, <1>5 DEF AtLeast0
  <2> QED
    BY <1>1, <2>1, <2>2, <2>3
<1> QED
  BY <1>4, <1>5

\* A buy that is filled at once pays with free money.
LEMMA DirectBuyCovered ==
  ASSUME NEW x, Sound(x), NEW q \in Nat, NEW price \in Nat,
         NEW cost, cost = q * price + Fee,
         NEW r, r = ApplyDirectFill(x, TRUE, q, price)
  PROVE  /\ ~r.ok => LackAtMost(r, cost - x.free)
         /\ r.ok => r.lack = 0 /\ 0 <= r.w.locked /\ r.w.free >= x.free - cost
<1>1. PICK f \in Nat, l \in Nat : f = x.free /\ l = x.locked
  BY Fields
<1>2. cost \in Nat
  <2>1. q * price \in Nat
    OBVIOUS
  <2> QED
    BY <2>1, SpotAssumption
<1>3. CASE f < cost
  <2>1. ~r.ok /\ r.lack = cost - f
    BY <1>1, <1>3 DEF ApplyDirectFill, Raise
  <2>2. cost - f \in Nat /\ 0 < cost - f /\ cost - f <= cost - f
    BY <1>1, <1>2, <1>3
  <2> QED
    BY <1>1, <2>1, <2>2 DEF LackAtMost
<1>4. CASE ~(f < cost)
  <2>1. r.ok /\ r.lack = 0
        /\ r.w = [x EXCEPT !.free = @ - cost, !.qty = @ + q, !.booked = @ - cost]
    BY <1>1, <1>4 DEF ApplyDirectFill, Done
  <2>2. r.w.free = f - cost /\ r.w.locked = l
    BY <1>1, <2>1 DEF Sound, Balances
  <2>3. f - cost >= f - cost /\ 0 <= l
    BY <1>1, <1>2
  <2> QED
    BY <1>1, <2>1, <2>2, <2>3
<1> QED
  BY <1>3, <1>4

\* What the fill part of on_order takes for a buy.
CostOf(e) == IF Delta(e) = 0 THEN 0 ELSE Delta(e) * e.price + Fee

LEMMA FillOfBuyCovered ==
  ASSUME NEW e \in Events, OpenType, Sound(w), e.order \in Buys,
         NEW own, own = open[e.order].quote, own <= w.locked,
         NEW r, r = Fill(w, e)
  PROVE  /\ ~r.ok => LackAtMost(r, CostOf(e) - (w.free + own))
         /\ r.ok => /\ r.lack = 0 /\ QuoteLeft(e) <= r.w.locked
                    /\ r.w.free + QuoteLeft(e) >= w.free + own - CostOf(e)
<1>1. /\ e.order \in Orders /\ e.price \in Nat /\ Delta(e) \in Nat
      /\ own \in Nat /\ open[e.order].in \in BOOLEAN
  BY EventParts
<1>2. w.free \in Nat /\ w.locked \in Nat
  BY Fields
<1>3. CASE Delta(e) = 0
  <2>1. r = Done(w) /\ CostOf(e) = 0 /\ QuoteLeft(e) = own
    BY <1>3 DEF Fill, CostOf, QuoteLeft
  <2> QED
    BY <1>1, <1>2, <2>1 DEF Done
<1>4. CASE Delta(e) # 0
  <2>1. PICK q, cost : q = Delta(e) /\ cost = q * e.price + Fee
    OBVIOUS
  <2>2. /\ q \in Nat /\ q > 0 /\ CostOf(e) = cost
        /\ QuoteLeft(e) = AtLeast0(own - cost)
    BY <1>1, <1>4, <2>1 DEF CostOf, QuoteLeft
  <2>3. CASE ~open[e.order].in /\ e.status = "FILLED"
    <3>1. r = ApplyDirectFill(w, TRUE, q, e.price)
      <4>1. r = ApplyDirectFill(w, e.order \in Buys, q, e.price)
        BY <1>1, <2>1, <2>2, <2>3 DEF Fill
      <4> QED
        BY <4>1 DEF ApplyDirectFill
    <3>2. own = 0
      BY <1>1, <2>3 DEF OpenType, NoOrder
    <3>3. cost \in Nat
      <4>1. q * e.price \in Nat
        BY <1>1, <2>2
      <4> QED
        BY <2>1, <4>1, SpotAssumption
    <3>4. AtLeast0(own - cost) = 0
      BY <3>2, <3>3 DEF AtLeast0
    <3>5. /\ ~r.ok => LackAtMost(r, cost - w.free)
          /\ r.ok => r.lack = 0 /\ 0 <= r.w.locked /\ r.w.free >= w.free - cost
      BY <1>1, <2>1, <2>2, <3>1, DirectBuyCovered
    <3>6. r.ok => r.w.free \in Nat
      <4>1. Sound(r.w)
        BY FillOutcome
      <4> QED
        BY <4>1, Fields
    <3>7. cost - (w.free + own) = cost - w.free /\ w.free + own - cost = w.free - cost
      BY <1>2, <3>2, <3>3
    <3> QED
      BY <2>2, <3>4, <3>5, <3>6, <3>7
  <2>4. CASE ~(~open[e.order].in /\ e.status = "FILLED")
    <3>1. r = ApplyBuyFill(w, q, e.price)
      BY <1>1, <2>1, <2>2, <2>4 DEF Fill
    <3> QED
      BY <1>1, <2>1, <2>2, <3>1, BuyFillCovered
  <2> QED
    BY <2>3, <2>4
<1> QED
  BY <1>3, <1>4

\* A lock that is moved: free money and lock together stay what they are.
LEMMA QuoteLockCovered ==
  ASSUME NEW x, Sound(x), NEW has \in Nat, NEW desired \in Nat, has <= x.locked,
         NEW r, r = SyncQuoteLock(x, has, desired)
  PROVE  /\ ~r.ok => LackAtMost(r, desired - (x.free + has)) /\ desired > 0
         /\ r.ok => /\ r.lack = 0 /\ r.w.locked = x.locked + desired - has
                    /\ desired <= r.w.locked
                    /\ r.w.free + desired = x.free + has
<1>1. PICK f \in Nat, l \in Nat : f = x.free /\ l = x.locked
  BY Fields
<1>2. CASE desired - has > 0 /\ f < desired - has
  <2>1. ~r.ok /\ r.lack = desired - has - f
    BY <1>1, <1>2 DEF SyncQuoteLock, Raise
  <2> QED
    BY <1>1, <1>2, <2>1 DEF LackAtMost
<1>3. CASE desired - has > 0 /\ ~(f < desired - has)
  <2>1. r.ok /\ r.lack = 0 /\ r.w = [x EXCEPT !.free = @ - (desired - has),
                                              !.locked = @ + (desired - has)]
    BY <1>1, <1>3 DEF SyncQuoteLock, Done
  <2>2. r.w.free = f - (desired - has) /\ r.w.locked = l + (desired - has)
    BY <1>1, <2>1 DEF Sound, Balances
  <2> QED
    BY <1>1, <1>3, <2>1, <2>2
<1>4. CASE ~(desired - has > 0)
  <2>1. r.ok /\ r.lack = 0
        /\ r.w = [x EXCEPT !.free = @ - (desired - has),
                           !.locked = AtLeast0(@ + (desired - has))]
    BY <1>4 DEF SyncQuoteLock, Done
  <2>2. r.w.free = f - (desired - has)
        /\ r.w.locked = AtLeast0(l + (desired - has))
    BY <1>1, <2>1 DEF Sound, Balances
  <2>3. AtLeast0(l + (desired - has)) = l + (desired - has)
    BY <1>1, <1>4 DEF AtLeast0
  <2> QED
    BY <1>1, <1>4, <2>1, <2>2, <2>3
<1> QED
  BY <1>2, <1>3, <1>4

\* The money, or the base, that the wallet has for the rest of an order that
\* has s units settled and own locked: but for the fees of these units it can
\* pay the rest at price p.
QuoteCovers(x, own, s, p) ==
  own <= x.locked /\ x.free + own >= (Qty - s) * p - s * Fee
BaseCovers(x, own, s) ==
  own <= x.held /\ (x.qty - x.held) + own >= Qty - s

\* The event of at most one new unit of a buy: what is lacked are fees, and
\* the money for the rest is still there.
LEMMA BuyBooked ==
  ASSUME NEW e \in Events, OpenType, Sound(w), e.order \in Buys,
         NEW own, own = open[e.order].quote,
         NEW s \in Nat, NEW p \in Nat, NEW d \in {0, 1}, d = Delta(e),
         e.rem + s + d <= Qty, d = 1 => e.price <= p, e.lockPrice <= p,
         QuoteCovers(w, own, s, p), NEW r, r = OnOrder(e)
  PROVE  /\ ~r.ok => LackAtMost(r, Qty * Fee)
         /\ r.ok => /\ r.lack = 0
                    /\ QuoteCovers(r.w, IF Ends(e) THEN 0 ELSE e.rem * e.lockPrice,
                                   s + d, p)
<1>1. PICK f, k, u, need, left, cost :
        /\ f = Fill(w, e) /\ k = Lock(f.w, e) /\ u = Unlock(k.w, e)
        /\ need = e.rem * e.lockPrice /\ left = QuoteLeft(e) /\ cost = CostOf(e)
  OBVIOUS
<1>2. r = IF ~f.ok THEN f ELSE IF ~k.ok \/ ~Ends(e) THEN k ELSE u
  BY <1>1 DEF OnOrder
<1>3. /\ e.rem \in Nat /\ e.lockPrice \in Nat /\ e.price \in Nat /\ need \in Nat
      /\ own \in Nat
  BY <1>1, EventParts
<1>4. Qty \in Nat /\ Fee \in Nat
  BY SpotAssumption
<1>5. PICK rest, fees, rest2, fees2 :
        /\ rest = (Qty - s) * p /\ fees = s * Fee
        /\ rest2 = (Qty - (s + d)) * p /\ fees2 = (s + d) * Fee
  OBVIOUS
<1>6. /\ rest \in Int /\ fees \in Nat /\ rest2 \in Nat /\ fees2 \in Nat
      /\ fees2 <= Qty * Fee
  <2>1. Qty - (s + d) \in Nat /\ s + d \in Nat
    BY <1>3, <1>4
  <2>2. \A a \in Nat, b \in Nat : a * b \in Nat
    OBVIOUS
  <2>3. \A a \in Int, b \in Nat : a * b \in Int
    OBVIOUS
  <2>4. (Qty - (s + d)) * Fee \in Nat
    BY <1>4, <2>1, <2>2
  <2>5. Qty * Fee = (s + d) * Fee + (Qty - (s + d)) * Fee
    BY <1>4, <2>1
  <2>6. fees2 \in Nat /\ rest2 \in Nat /\ fees \in Nat /\ rest \in Int
    BY <1>4, <1>5, <2>1, <2>2, <2>3
  <2> QED
    BY <1>5, <2>4, <2>5, <2>6
<1>7. cost \in Nat /\ rest - fees - cost >= rest2 - fees2
  <2>1. CASE d = 0
    <3>1. cost = 0
      BY <1>1, <2>1 DEF CostOf
    <3>2. rest2 = rest /\ fees2 = fees
      BY <1>4, <1>5, <2>1
    <3> QED
      BY <1>6, <3>1, <3>2
  <2>2. CASE d = 1
    <3>1. cost = 1 * e.price + Fee
      BY <1>1, <2>2 DEF CostOf
    <3>2. cost = e.price + Fee /\ e.price <= p
      BY <1>3, <2>2, <3>1
    <3>3. rest = rest2 + p
      BY <1>4, <1>5, <2>2
    <3>4. fees2 = fees + Fee
      BY <1>4, <1>5, <2>2
    <3> QED
      BY <1>3, <1>4, <1>6, <3>2, <3>3, <3>4
  <2> QED
    BY <2>1, <2>2
<1>8. need <= rest2
  <2>1. PICK m, c : m = e.rem /\ c = Qty - (s + d) - m
    OBVIOUS
  <2>2. m \in Nat /\ c \in Nat /\ Qty - (s + d) = m + c
    BY <1>3, <1>4, <2>1
  <2>3. p - e.lockPrice \in Nat
    BY <1>3
  <2>4. m * (p - e.lockPrice) \in Nat /\ c * p \in Nat
    <3>1. \A a \in Nat, b \in Nat : a * b \in Nat
      OBVIOUS
    <3> QED
      BY <2>2, <2>3, <3>1
  <2>5. (m + c) * p = m * e.lockPrice + m * (p - e.lockPrice) + c * p
    BY <1>3, <2>2
  <2>6. rest2 = need + m * (p - e.lockPrice) + c * p
    BY <1>1, <1>5, <2>1, <2>2, <2>5
  <2> QED
    BY <1>3, <1>6, <2>4, <2>6
<1>9. own <= w.locked /\ w.free + own >= rest - fees
  BY <1>5 DEF QuoteCovers
<1>10. /\ ~f.ok => LackAtMost(f, cost - (w.free + own))
       /\ f.ok => /\ f.lack = 0 /\ left <= f.w.locked
                  /\ f.w.free + left >= w.free + own - cost
  BY <1>1, <1>9, FillOfBuyCovered
<1>11. Sound(f.w) /\ left \in Nat
  BY <1>1, FillOutcome
<1>12. /\ w.free \in Nat /\ w.locked \in Nat
       /\ f.w.free \in Nat /\ f.w.locked \in Nat
  BY <1>11, Fields
<1>13. CASE ~f.ok
  <2>1. cost - (w.free + own) <= Qty * Fee
    BY <1>3, <1>4, <1>6, <1>7, <1>9, <1>12
  <2>2. Qty * Fee \in Nat /\ cost - (w.free + own) \in Int
    BY <1>3, <1>4, <1>7, <1>12
  <2>3. LackAtMost(f, Qty * Fee)
    BY <1>10, <1>13, <2>1, <2>2 DEF LackAtMost
  <2> QED
    BY <1>2, <1>13, <2>3
<1>14. CASE f.ok
  <2>1. left <= f.w.locked /\ f.w.free + left >= rest2 - fees2
    BY <1>3, <1>6, <1>7, <1>9, <1>10, <1>11, <1>12, <1>14
  <2>2. k = SyncQuoteLock(f.w, left, need) /\ u = SyncQuoteLock(k.w, need, 0)
    BY <1>1 DEF Lock, Unlock
  <2>3. /\ ~k.ok => LackAtMost(k, need - (f.w.free + left))
        /\ k.ok => /\ k.lack = 0 /\ need <= k.w.locked
                   /\ k.w.free + need = f.w.free + left
    BY <1>3, <1>11, <2>1, <2>2, QuoteLockCovered
  <2>4. CASE ~k.ok
    <3>1. need - (f.w.free + left) <= Qty * Fee
      BY <1>3, <1>4, <1>6, <1>8, <1>11, <1>12, <2>1
    <3>2. Qty * Fee \in Nat /\ need - (f.w.free + left) \in Int
      BY <1>3, <1>4, <1>11, <1>12
    <3>3. LackAtMost(k, Qty * Fee)
      BY <2>3, <2>4, <3>1, <3>2 DEF LackAtMost
    <3> QED
      BY <1>2, <1>14, <2>4, <3>3
  <2>5. CASE k.ok
    <3>1. Sound(k.w)
      BY <1>3, <1>11, <2>2, QuoteLockOutcome DEF QuoteLockEffect
    <3>2. k.w.free \in Nat /\ k.w.locked \in Nat
      BY <3>1, Fields
    <3>3. k.w.free + need >= rest2 - fees2
      BY <1>3, <1>6, <1>11, <1>12, <2>1, <2>3, <2>5, <3>2
    <3>4. CASE ~Ends(e)
      <4>1. r = k
        BY <1>2, <1>14, <3>4
      <4>2. QuoteCovers(k.w, need, s + d, p)
        BY <1>5, <2>3, <2>5, <3>3 DEF QuoteCovers
      <4> QED
        BY <1>1, <2>3, <2>5, <3>4, <4>1, <4>2
    <3>5. CASE Ends(e)
      <4>1. r = u
        BY <1>2, <1>14, <2>5, <3>5
      <4>2. /\ ~u.ok => 0 > 0
            /\ u.ok => /\ u.lack = 0 /\ 0 <= u.w.locked
                       /\ u.w.free + 0 = k.w.free + need
        BY <1>3, <2>2, <2>3, <2>5, <3>1, QuoteLockCovered
      <4>3. u.ok
        BY <4>2
      <4>4. u.w.free + 0 >= rest2 - fees2
        BY <3>3, <4>2, <4>3
      <4>5. QuoteCovers(u.w, 0, s + d, p)
        BY <1>5, <4>2, <4>3, <4>4 DEF QuoteCovers
      <4> QED
        BY <3>5, <4>1, <4>2, <4>3, <4>5
    <3> QED
      BY <3>4, <3>5
  <2> QED
    BY <2>4, <2>5
<1> QED
  BY <1>13, <1>14

\* The same for a sale: the order's own base is sold first.
LEMMA SellFillCovered ==
  ASSUME NEW x, Sound(x), NEW q \in Nat, NEW price \in Nat, NEW own \in Nat,
         own <= x.held, q * price - Fee >= 0,
         NEW r, r = ApplySellFill(x, q, price)
  PROVE  /\ ~r.ok => LackAtMost(r, q - ((x.qty - x.held) + own))
         /\ r.ok => /\ r.lack = 0
                    /\ AtLeast0(own - q) <= r.w.held
                    /\ (r.w.qty - r.w.held) + AtLeast0(own - q)
                         >= (x.qty - x.held) + own - q
<1>1. PICK f \in Nat, n \in Nat, h \in Nat :
        f = x.free /\ n = x.qty /\ h = x.held /\ h <= n
  BY Fields
<1>2. PICK gain : gain = q * price - Fee
  OBVIOUS
<1>3. gain \in Int /\ gain >= 0
  <2>1. q * price \in Nat
    OBVIOUS
  <2> QED
    BY <1>2, <2>1, SpotAssumption
<1>4. PICK short \in Nat : short = AtLeast0(q - h)
  BY <1>1 DEF AtLeast0
<1>5. CASE n - h < short
  <2>1. ~r.ok /\ r.lack = short - (n - h)
    BY <1>1, <1>4, <1>5 DEF ApplySellFill, Raise
  <2>2. /\ short - (n - h) \in Nat /\ 0 < short - (n - h)
        /\ short - (n - h) <= q - ((n - h) + own)
    BY <1>1, <1>4, <1>5 DEF AtLeast0
  <2> QED
    BY <1>1, <2>1, <2>2 DEF LackAtMost
<1>6. CASE ~(n - h < short)
  <2> DEFINE sold == [x EXCEPT !.held = @ + short - q, !.qty = @ - q]
  <2>1. ~(f + gain < 0)
    BY <1>1, <1>3
  <2>2. r.ok /\ r.lack = 0
        /\ r.w = [sold EXCEPT !.free = @ + gain, !.booked = @ + gain]
    BY <1>1, <1>2, <1>4, <1>6, <2>1 DEF ApplySellFill, Done
  <2>3. r.w.held = h + short - q /\ r.w.qty = n - q
    BY <1>1, <2>2 DEF Sound, Balances
  <2>4. /\ AtLeast0(own - q) <= h + short - q
        /\ ((n - q) - (h + short - q)) + AtLeast0(own - q) >= (n - h) + own - q
    BY <1>1, <1>4, <1>6 DEF AtLeast0
  <2> QED
    BY <1>1, <2>2, <2>3, <2>4
<1> QED
  BY <1>5, <1>6

\* A sale that is filled at once takes base that is not locked.
LEMMA DirectSellCovered ==
  ASSUME NEW x, Sound(x), NEW q \in Nat, NEW price \in Nat,
         NEW r, r = ApplyDirectFill(x, FALSE, q, price)
  PROVE  /\ ~r.ok => LackAtMost(r, q - (x.qty - x.held))
         /\ r.ok => /\ r.lack = 0 /\ 0 <= r.w.held
                    /\ r.w.qty - r.w.held >= (x.qty - x.held) - q
<1>1. PICK n \in Nat, h \in Nat : n = x.qty /\ h = x.held /\ h <= n
  BY Fields
<1>2. CASE q > n - h
  <2>1. ~r.ok /\ r.lack = q - (n - h)
    BY <1>1, <1>2 DEF ApplyDirectFill, Raise
  <2>2. q - (n - h) \in Nat /\ 0 < q - (n - h) /\ q - (n - h) <= q - (n - h)
    BY <1>1, <1>2
  <2> QED
    BY <1>1, <2>1, <2>2 DEF LackAtMost
<1>3. CASE ~(q > n - h)
  <2>1. r.ok /\ r.lack = 0
        /\ r.w = [x EXCEPT !.free = @ + (q * price - Fee), !.qty = @ - q,
                           !.booked = @ + (q * price - Fee)]
    BY <1>1, <1>3 DEF ApplyDirectFill, Done
  <2>2. r.w.qty = n - q /\ r.w.held = h
    BY <1>1, <2>1 DEF Sound, Balances
  <2>3. (n - q) - h >= (n - h) - q /\ 0 <= h
    BY <1>1
  <2> QED
    BY <1>1, <2>1, <2>2, <2>3
<1> QED
  BY <1>2, <1>3

LEMMA FillOfSellCovered ==
  ASSUME NEW e \in Events, OpenType, Sound(w), e.order \notin Buys,
         NEW own, own = open[e.order].base, own <= w.held,
         NEW r, r = Fill(w, e), NEW d, d = Delta(e)
  PROVE  /\ ~r.ok => LackAtMost(r, d - ((w.qty - w.held) + own))
         /\ r.ok => /\ r.lack = 0 /\ BaseLeft(e) <= r.w.held
                    /\ (r.w.qty - r.w.held) + BaseLeft(e)
                         >= (w.qty - w.held) + own - d
<1>1. /\ e.order \in Orders /\ e.price \in Nat /\ d \in Nat
      /\ own \in Nat /\ open[e.order].in \in BOOLEAN /\ Fee <= e.price
      /\ d * e.price \in Nat
  BY EventParts
<1>2. w.qty \in Nat /\ w.held \in Nat
  BY Fields
<1>3. CASE d = 0
  <2>1. r = Done(w) /\ BaseLeft(e) = own
    BY <1>3 DEF Fill, BaseLeft
  <2>2. r.ok /\ r.lack = 0 /\ r.w = w
    BY <2>1 DEF Done
  <2>3. (w.qty - w.held) + own >= (w.qty - w.held) + own - d
    BY <1>1, <1>2, <1>3
  <2> QED
    BY <2>1, <2>2, <2>3
<1>4. CASE d # 0
  <2>1. d > 0 /\ BaseLeft(e) = AtLeast0(own - d)
    BY <1>1, <1>4 DEF BaseLeft
  <2>2. d * e.price - Fee >= 0
    <3>1. (d - 1) * e.price \in Nat
      <4>1. d - 1 \in Nat
        BY <1>1, <2>1
      <4> QED
        BY <1>1, <4>1
    <3>2. d * e.price = (d - 1) * e.price + e.price
      <4>1. \A a \in Nat, b \in Nat : a * b = (a - 1) * b + b
        OBVIOUS
      <4> QED
        BY <1>1, <4>1
    <3> QED
      BY <1>1, <3>1, <3>2, SpotAssumption
  <2>3. CASE ~open[e.order].in /\ e.status = "FILLED"
    <3>1. r = ApplyDirectFill(w, FALSE, d, e.price)
      <4>1. r = ApplyDirectFill(w, e.order \in Buys, d, e.price)
        BY <1>1, <2>1, <2>3 DEF Fill
      <4> QED
        BY <4>1 DEF ApplyDirectFill
    <3>2. own = 0
      BY <1>1, <2>3 DEF OpenType, NoOrder
    <3>3. AtLeast0(own - d) = 0
      BY <1>1, <3>2 DEF AtLeast0
    <3>4. /\ ~r.ok => LackAtMost(r, d - (w.qty - w.held))
          /\ r.ok => /\ r.lack = 0 /\ 0 <= r.w.held
                     /\ r.w.qty - r.w.held >= (w.qty - w.held) - d
      BY <1>1, <3>1, DirectSellCovered
    <3>5. r.w.qty \in Nat /\ r.w.held \in Nat
      <4>1. Sound(r.w)
        BY FillOutcome
      <4> QED
        BY <4>1, Fields
    <3>6. /\ d - ((w.qty - w.held) + own) = d - (w.qty - w.held)
          /\ (w.qty - w.held) + own - d = (w.qty - w.held) - d
          /\ (r.w.qty - r.w.held) + 0 = r.w.qty - r.w.held
      BY <1>1, <1>2, <3>2, <3>5
    <3> QED
      BY <2>1, <3>3, <3>4, <3>6
  <2>4. CASE ~(~open[e.order].in /\ e.status = "FILLED")
    <3>1. r = ApplySellFill(w, d, e.price)
      BY <1>1, <2>1, <2>4 DEF Fill
    <3> QED
      BY <1>1, <2>1, <2>2, <3>1, SellFillCovered
  <2> QED
    BY <2>3, <2>4
<1> QED
  BY <1>3, <1>4

LEMMA BaseLockCovered ==
  ASSUME NEW x, Sound(x), NEW has \in Nat, NEW desired \in Nat, has <= x.held,
         NEW r, r = SyncBaseLock(x, has, desired)
  PROVE  /\ ~r.ok => /\ LackAtMost(r, desired - ((x.qty - x.held) + has))
                     /\ desired > 0
         /\ r.ok => /\ r.lack = 0 /\ desired <= r.w.held
                    /\ (r.w.qty - r.w.held) + desired = (x.qty - x.held) + has
<1>1. PICK n \in Nat, h \in Nat : n = x.qty /\ h = x.held /\ h <= n
  BY Fields
<1>2. CASE desired - has > 0 /\ n - h < desired - has
  <2>1. ~r.ok /\ r.lack = desired - has - (n - h)
    BY <1>1, <1>2 DEF SyncBaseLock, Raise
  <2> QED
    BY <1>1, <1>2, <2>1 DEF LackAtMost
<1>3. CASE ~(desired - has > 0 /\ n - h < desired - has)
  <2>1. r.ok /\ r.lack = 0 /\ r.w = [x EXCEPT !.held = AtLeast0(@ + (desired - has))]
    BY <1>1, <1>3 DEF SyncBaseLock, Done
  <2>2. r.w.held = AtLeast0(h + (desired - has)) /\ r.w.qty = n
    BY <1>1, <2>1 DEF Sound, Balances
  <2>3. AtLeast0(h + (desired - has)) = h + (desired - has)
    BY <1>1 DEF AtLeast0
  <2> QED
    BY <1>1, <2>1, <2>2, <2>3
<1> QED
  BY <1>2, <1>3

\* The event of new units of a sale never raises, and the base for the rest is
\* still there.
LEMMA SellBooked ==
  ASSUME NEW e \in Events, OpenType, Sound(w), e.order \notin Buys,
         NEW own, own = open[e.order].base,
         NEW s \in Nat, NEW d, d = Delta(e), e.rem + s + d <= Qty,
         BaseCovers(w, own, s), NEW r, r = OnOrder(e)
  PROVE  /\ r.ok /\ r.lack = 0
         /\ BaseCovers(r.w, IF Ends(e) THEN 0 ELSE e.rem, s + d)
<1>1. PICK f, k, u, left :
        /\ f = Fill(w, e) /\ k = Lock(f.w, e) /\ u = Unlock(k.w, e)
        /\ left = BaseLeft(e)
  OBVIOUS
<1>2. r = IF ~f.ok THEN f ELSE IF ~k.ok \/ ~Ends(e) THEN k ELSE u
  BY <1>1 DEF OnOrder
<1>3. e.rem \in Nat /\ own \in Nat /\ d \in Nat /\ Qty \in Nat
  BY EventParts, SpotAssumption
<1>4. own <= w.held /\ (w.qty - w.held) + own >= Qty - s
  BY DEF BaseCovers
<1>5. /\ ~f.ok => LackAtMost(f, d - ((w.qty - w.held) + own))
      /\ f.ok => /\ f.lack = 0 /\ left <= f.w.held
                 /\ (f.w.qty - f.w.held) + left >= (w.qty - w.held) + own - d
  BY <1>1, <1>4, FillOfSellCovered
<1>6. Sound(f.w) /\ left \in Nat
  BY <1>1, FillOutcome
<1>7. /\ w.qty \in Nat /\ w.held \in Nat
      /\ f.w.qty \in Nat /\ f.w.held \in Nat
  BY <1>6, Fields
<1>8. f.ok
  <2>1. d - ((w.qty - w.held) + own) <= 0
    BY <1>3, <1>4, <1>7
  <2>2. d - ((w.qty - w.held) + own) \in Int
    BY <1>3, <1>7
  <2> QED
    BY <1>5, <2>1, <2>2 DEF LackAtMost
<1>9. left <= f.w.held /\ (f.w.qty - f.w.held) + left >= Qty - (s + d)
  BY <1>3, <1>4, <1>5, <1>6, <1>7, <1>8
<1>10. k = SyncBaseLock(f.w, left, e.rem) /\ u = SyncBaseLock(k.w, e.rem, 0)
  BY <1>1 DEF Lock, Unlock
<1>11. /\ ~k.ok => LackAtMost(k, e.rem - ((f.w.qty - f.w.held) + left))
       /\ k.ok => /\ k.lack = 0 /\ e.rem <= k.w.held
                  /\ (k.w.qty - k.w.held) + e.rem = (f.w.qty - f.w.held) + left
  BY <1>3, <1>6, <1>9, <1>10, BaseLockCovered
<1>12. k.ok
  <2>1. e.rem - ((f.w.qty - f.w.held) + left) <= 0
    BY <1>3, <1>6, <1>7, <1>9
  <2>2. e.rem - ((f.w.qty - f.w.held) + left) \in Int
    BY <1>3, <1>6, <1>7
  <2> QED
    BY <1>11, <2>1, <2>2 DEF LackAtMost
<1>13. Sound(k.w)
  BY <1>3, <1>6, <1>10, BaseLockOutcome DEF BaseLockEffect
<1>14. (k.w.qty - k.w.held) + e.rem >= Qty - (s + d)
  BY <1>9, <1>11, <1>12
<1>15. CASE ~Ends(e)
  <2>1. r = k
    BY <1>2, <1>8, <1>15
  <2> QED
    BY <1>11, <1>12, <1>14, <1>15, <2>1 DEF BaseCovers
<1>16. CASE Ends(e)
  <2>1. r = u
    BY <1>2, <1>8, <1>12, <1>16
  <2>2. /\ ~u.ok => 0 > 0
        /\ u.ok => /\ u.lack = 0 /\ 0 <= u.w.held
                   /\ (u.w.qty - u.w.held) + 0 = (k.w.qty - k.w.held) + e.rem
    BY <1>3, <1>10, <1>11, <1>12, <1>13, BaseLockCovered
  <2>3. u.ok
    BY <2>2
  <2>4. (u.w.qty - u.w.held) + 0 >= Qty - (s + d)
    BY <1>14, <2>2, <2>3
  <2> QED
    BY <1>16, <2>1, <2>2, <2>3, <2>4 DEF BaseCovers
<1> QED
  BY <1>15, <1>16

-----------------------------------------------------------------------------
(* What the guard let through can be booked: the invariant *)

\* What the wallet may lack for a fill of an order: the fees of a buy.
FeesOf(o) == IF o \in Buys THEN Qty * Fee ELSE 0

\* The order was checked at price p, and nothing of it was refused.
Watched(o, p) ==
  /\ checked.kept /\ checked.order = o /\ checked.price = p
  /\ o \notin twice /\ lack[o] = 0

\* The wallet covers what is not settled of the order.
CoverInv(o, p) ==
  IF o \in Buys THEN QuoteCovers(w, open[o].quote, settled[o], p)
                ELSE BaseCovers(w, open[o].base, settled[o])

\* An event of the order up to the unit cum, within the price of the check.
Within(e, o, p, cum) ==
  /\ e.order = o /\ e.cum = cum /\ e.rem = Qty - cum
  /\ o \in Buys => e.price <= p /\ e.lockPrice <= p

\* The events on their way are those of the order, one unit after the other.
FlowInv(o, p) ==
  /\ \A i \in 1 .. Len(answer) : Within(answer[i], o, p, settled[o] + i)
  /\ \A i \in 1 .. Len(log) :
       Within(log[i], o, p, settled[o] + Len(answer) + i)
  /\ exec[o] = settled[o] + Len(answer) + Len(log) + Len(unseen[o])

\* An order that ended without a trade is told of once.
VoidInv(o, p) ==
  /\ Len(answer) = 1 /\ log = <<>>
  /\ answer[1].order = o /\ answer[1].cum = 0 /\ answer[1].rem = Qty
  /\ o \in Buys => answer[1].lockPrice <= p
  /\ settled[o] = 0 /\ exec[o] = 0 /\ st[o] # "live"

\* No trade was dearer than the check.
PriceInv(o, p) ==
  o \in Buys =>
    /\ \A i \in 1 .. Len(unseen[o]) : unseen[o][i] <= p
    /\ spent[o] <= (exec[o] - Len(unseen[o])) * p

\* No other order has anything to tell.
AloneInv(o) == \A x \in Orders \ {o} : st[x] # "live" /\ unseen[x] = <<>>

OrderInv(o, p) ==
  /\ AloneInv(o) /\ PriceInv(o, p) /\ CoverInv(o, p)
  /\ FlowInv(o, p) \/ VoidInv(o, p)

WatchInv == \A o \in Orders, p \in Nat : Watched(o, p) => OrderInv(o, p)

\* An order that was not placed has left no trace.
FreshInv ==
  \A o \in Orders : st[o] = "none" =>
    /\ settled[o] = 0 /\ open[o] = NoOrder /\ lack[o] = 0 /\ o \notin twice
    /\ \A i \in 1 .. Len(log) : log[i].order # o
    /\ \A i \in 1 .. Len(answer) : answer[i].order # o

LackType == lack = [o \in Orders |-> lack[o]]

KeptType ==
  /\ checked = [order |-> checked.order, price |-> checked.price,
                kept |-> checked.kept]
  /\ checked.kept => checked.order \in Orders /\ checked.price \in Nat

BookedInv ==
  \A o \in Orders :
    checked.kept /\ checked.order = o /\ o \notin twice => lack[o] <= FeesOf(o)

CheckInv == LackType /\ KeptType /\ FreshInv /\ WatchInv /\ BookedInv

\* What booking an event leaves alone.
LEMMA BookFrame ==
  ASSUME LackType, OpenType, NEW e \in Events, NEW cum, Book(e, cum),
         NEW x \in Orders
  PROVE  /\ LackType'
         /\ x # e.order => /\ open'[x] = open[x] /\ lack'[x] = lack[x]
                           /\ x \in twice' <=> x \in twice
         /\ lack[x] # 0 => lack'[x] = lack[x]
         /\ x \notin twice' =>
              /\ x \notin twice
              /\ x = e.order => Delta(e) = AtLeast0(cum - settled[x])
<1>1. e.order \in Orders
  BY DEF Events
<1>2. PICK r : r = OnOrder(e)
  OBVIOUS
<1>3. /\ open' = IF r.ok THEN Opened(e) ELSE open
      /\ lack' = IF lack[e.order] = 0 THEN [lack EXCEPT ![e.order] = r.lack]
                 ELSE lack
      /\ twice' = IF Delta(e) = AtLeast0(cum - settled[e.order]) THEN twice
                  ELSE twice \cup {e.order}
  BY <1>2 DEF Book
<1>4. LackType'
  BY <1>1, <1>3 DEF LackType
<1>5. x # e.order => open'[x] = open[x]
  <2>1. PICK new : Opened(e) = [open EXCEPT ![e.order] = new]
    BY OpenedOutcome
  <2> QED
    BY <1>1, <1>3, <2>1 DEF OpenType
<1>6. /\ x # e.order => lack'[x] = lack[x]
      /\ lack[x] # 0 => lack'[x] = lack[x]
  BY <1>1, <1>3 DEF LackType
<1> QED
  BY <1>3, <1>4, <1>5, <1>6

\* Booking an event of at most one new unit of the watched order.
LEMMA BookWatched ==
  ASSUME LackType, OpenType, EngineType, Sound(w), NEW e \in Events, NEW cum,
         Book(e, cum), NEW o \in Orders, e.order = o, NEW p \in Nat,
         lack[o] = 0, CoverInv(o, p), NEW d \in {0, 1}, d = Delta(e),
         e.rem + settled[o] + d <= Qty,
         o \in Buys => (d = 1 => e.price <= p) /\ e.lockPrice <= p
  PROVE  /\ lack'[o] <= FeesOf(o)
         /\ lack'[o] = 0 => OnOrder(e).ok
         /\ lack'[o] = 0 /\ settled'[o] = settled[o] + d => CoverInv(o, p)'
<1>1. PICK r, s : r = OnOrder(e) /\ s = settled[o]
  OBVIOUS
<1>2. s \in Nat
  BY <1>1, SpotAssumption DEF EngineType
<1>3. w' = r.w /\ open' = (IF r.ok THEN Opened(e) ELSE open) /\ lack'[o] = r.lack
  <2>1. /\ w' = r.w /\ open' = (IF r.ok THEN Opened(e) ELSE open)
        /\ lack' = [lack EXCEPT ![o] = r.lack]
    BY <1>1 DEF Book
  <2> QED
    BY <2>1 DEF LackType
<1>4. PICK new : /\ Opened(e) = [open EXCEPT ![o] = new]
                 /\ new.quote = (IF Ends(e) \/ o \notin Buys THEN 0
                                 ELSE e.rem * e.lockPrice)
                 /\ new.base = (IF Ends(e) \/ o \in Buys THEN 0 ELSE e.rem)
  BY OpenedOutcome
<1>5. r.ok => open'[o] = new
  BY <1>3, <1>4 DEF OpenType
<1>6. CASE o \in Buys
  <2>1. QuoteCovers(w, open[o].quote, s, p)
    BY <1>1, <1>6 DEF CoverInv
  <2>2. /\ ~r.ok => LackAtMost(r, Qty * Fee)
        /\ r.ok => /\ r.lack = 0
                   /\ QuoteCovers(r.w, IF Ends(e) THEN 0 ELSE e.rem * e.lockPrice,
                                  s + d, p)
    BY <1>1, <1>2, <1>6, <2>1, BuyBooked
  <2>3. Qty * Fee \in Nat
    BY SpotAssumption
  <2>4. /\ r.lack <= Qty * Fee
        /\ r.lack = 0 => r.ok
    BY <2>2, <2>3 DEF LackAtMost
  <2>5. r.ok => new.quote = IF Ends(e) THEN 0 ELSE e.rem * e.lockPrice
    BY <1>4, <1>6
  <2>6. ASSUME r.lack = 0, settled'[o] = s + d PROVE CoverInv(o, p)'
    <3>1. r.ok
      BY <2>4, <2>6
    <3>2. QuoteCovers(w', open'[o].quote, settled'[o], p)
      BY <1>3, <1>5, <2>2, <2>5, <2>6, <3>1
    <3> QED
      BY <1>6, <3>2 DEF CoverInv, QuoteCovers
  <2> QED
    BY <1>1, <1>3, <1>6, <2>4, <2>6 DEF FeesOf
<1>7. CASE o \notin Buys
  <2>1. BaseCovers(w, open[o].base, s)
    BY <1>1, <1>7 DEF CoverInv
  <2>2. /\ r.ok /\ r.lack = 0
        /\ BaseCovers(r.w, IF Ends(e) THEN 0 ELSE e.rem, s + d)
    BY <1>1, <1>2, <1>7, <2>1, SellBooked
  <2>3. new.base = IF Ends(e) THEN 0 ELSE e.rem
    BY <1>4, <1>7
  <2>4. ASSUME settled'[o] = s + d PROVE CoverInv(o, p)'
    <3>1. BaseCovers(w', open'[o].base, settled'[o])
      BY <1>3, <1>5, <2>2, <2>3, <2>4
    <3> QED
      BY <1>7, <3>1 DEF CoverInv, BaseCovers
  <2>5. r.lack <= FeesOf(o)
    BY <1>7, <2>2 DEF FeesOf
  <2> QED
    BY <1>1, <1>3, <2>2, <2>4, <2>5
<1> QED
  BY <1>6, <1>7

-----------------------------------------------------------------------------
(* What the guard let through can be booked: the exchange *)

\* A step that leaves the engine, the wallet and its history alone and places
\* no order keeps what is not about the trades under way.
LEMMA EngineRests ==
  ASSUME CheckInv, UNCHANGED <<answer, settled, w, open, lack, twice>>,
         \A x \in Orders : st'[x] = "none" => st[x] = "none",
         \A x \in Orders : st'[x] = "none" =>
           \A i \in 1 .. Len(log') : log'[i].order # x,
         checked' = checked \/ checked' = [checked EXCEPT !.kept = FALSE]
  PROVE  /\ LackType' /\ KeptType' /\ FreshInv' /\ BookedInv'
         /\ \A o \in Orders, p \in Nat :
              Watched(o, p)' => Watched(o, p) /\ checked' = checked
<1>1. checked'.kept => checked' = checked
  BY DEF CheckInv, KeptType
<1>2. LackType'
  BY DEF CheckInv, LackType
<1>3. KeptType'
  BY DEF CheckInv, KeptType
<1>4. FreshInv'
  BY DEF CheckInv, FreshInv
<1>5. BookedInv'
  BY <1>1 DEF CheckInv, BookedInv, FeesOf
<1>6. ASSUME NEW o \in Orders, NEW p \in Nat, Watched(o, p)'
      PROVE  Watched(o, p) /\ checked' = checked
  BY <1>1, <1>6 DEF Watched
<1> QED
  BY <1>2, <1>3, <1>4, <1>5, <1>6

\* A trade: of the watched order, and not dearer than its check.
LEMMA TradeChecked ==
  ASSUME LedgerInv, CheckInv, NEW x \in Orders, Trade(x)
  PROVE  CheckInv'
<1>1. PICK q \in Prices(x) :
        /\ exec' = [exec EXCEPT ![x] = @ + 1]
        /\ st' = [st EXCEPT ![x] = IF exec[x] + 1 = Qty THEN "FILLED" ELSE @]
        /\ unseen' = [unseen EXCEPT ![x] = Append(@, q)]
        /\ checked' = Dearer(x, q)
  BY DEF Trade
<1>2. /\ st[x] = "live"
      /\ UNCHANGED <<spent, log, answer, settled, w, open, lack, twice>>
  BY DEF Trade, engineVars, walletVars
<1>3. ExchangeType /\ EngineType /\ OpenType
  BY DEF LedgerInv
<1>4. \A y \in Orders : st'[y] = "none" => st[y] = "none"
  BY <1>1, <1>2, <1>3 DEF ExchangeType
<1>5. \A y \in Orders : st'[y] = "none" => \A i \in 1 .. Len(log') : log'[i].order # y
  BY <1>2, <1>4 DEF CheckInv, FreshInv
<1>6. /\ checked' = checked \/ checked' = [checked EXCEPT !.kept = FALSE]
      /\ checked' = checked /\ checked.kept =>
           (x \in Buys /\ checked.order = x => q <= checked.price)
  <2>1. q \in Nat /\ (checked.kept => checked.price \in Nat)
    BY PricesType DEF CheckInv, KeptType
  <2>2. checked = [order |-> checked.order, price |-> checked.price,
                   kept |-> checked.kept]
    BY DEF CheckInv, KeptType
  <2>3. [checked EXCEPT !.kept = FALSE].kept = FALSE
    BY <2>2
  <2>4. CASE x \in Buys /\ checked.order = x /\ q > checked.price
    <3>1. checked' = [checked EXCEPT !.kept = FALSE]
      BY <1>1, <2>4 DEF Dearer
    <3> QED
      BY <2>3, <3>1
  <2>5. CASE ~(x \in Buys /\ checked.order = x /\ q > checked.price)
    <3>1. checked' = checked
      BY <1>1, <2>5 DEF Dearer
    <3> QED
      BY <2>1, <2>5, <3>1
  <2> QED
    BY <2>4, <2>5
<1>7. /\ LackType' /\ KeptType' /\ FreshInv' /\ BookedInv'
      /\ \A o \in Orders, p \in Nat :
           Watched(o, p)' => Watched(o, p) /\ checked' = checked
  BY <1>2, <1>4, <1>5, <1>6, EngineRests
<1>8. ASSUME NEW o \in Orders, NEW p \in Nat, Watched(o, p)'
      PROVE  OrderInv(o, p)'
  <2>1. Watched(o, p) /\ checked' = checked
    BY <1>7, <1>8
  <2>2. OrderInv(o, p)
    BY <2>1 DEF CheckInv, WatchInv
  <2>3. x = o
    BY <1>2, <2>2 DEF OrderInv, AloneInv
  <2>4. o \in Buys => q <= p
    BY <1>6, <2>1, <2>3 DEF Watched
  <2>5. PICK n \in Nat : n = Len(unseen[o])
    BY <1>3 DEF ExchangeType
  <2>6. /\ exec[o] \in Nat /\ exec'[o] = exec[o] + 1
        /\ unseen'[o] = Append(unseen[o], q) /\ Len(unseen'[o]) = n + 1
        /\ unseen'[o][n + 1] = q /\ \A i \in 1 .. n : unseen'[o][i] = unseen[o][i]
    <3>1. exec[o] \in 0..Qty /\ unseen[o] \in Seq(1..MaxPrice) /\ q \in 1..MaxPrice
      BY <1>3, <2>3, PricesType DEF ExchangeType
    <3>2. exec'[o] = exec[o] + 1 /\ unseen'[o] = Append(unseen[o], q)
      BY <1>1, <1>3, <2>3 DEF ExchangeType
    <3> QED
      BY <2>5, <3>1, <3>2
  <2>7. AloneInv(o)'
    <3>1. AloneInv(o)
      BY <2>2 DEF OrderInv
    <3>2. \A y \in Orders \ {o} : st'[y] = st[y] /\ unseen'[y] = unseen[y]
      BY <1>1, <1>3, <2>3 DEF ExchangeType
    <3> QED
      BY <3>1, <3>2 DEF AloneInv
  <2>8. PriceInv(o, p)'
    <3> SUFFICES ASSUME o \in Buys
                 PROVE  /\ \A i \in 1 .. Len(unseen'[o]) : unseen'[o][i] <= p
                        /\ spent'[o] <= (exec'[o] - Len(unseen'[o])) * p
      BY DEF PriceInv
    <3>1. /\ \A i \in 1 .. n : unseen[o][i] <= p
          /\ spent[o] <= (exec[o] - n) * p
      BY <2>2, <2>5 DEF OrderInv, PriceInv
    <3>2. \A i \in 1 .. n + 1 : unseen'[o][i] <= p
      <4> TAKE i \in 1 .. n + 1
      <4>1. i \in 1 .. n \/ i = n + 1
        BY <2>5
      <4> QED
        BY <2>4, <2>6, <3>1, <4>1
    <3>3. (exec[o] + 1) - (n + 1) = exec[o] - n
      BY <2>5, <2>6
    <3> QED
      BY <1>2, <2>6, <3>1, <3>2, <3>3
  <2>9. CoverInv(o, p)'
    BY <1>2, <2>2 DEF OrderInv, CoverInv, QuoteCovers, BaseCovers
  <2>10. FlowInv(o, p)
    BY <1>2, <2>2, <2>3 DEF OrderInv, VoidInv
  <2>11. FlowInv(o, p)'
    <3>1. Len(answer) \in Nat /\ Len(log) \in Nat /\ settled[o] \in Nat
      BY <1>3 DEF ExchangeType, EngineType
    <3>2. exec'[o] = settled[o] + Len(answer) + Len(log) + Len(unseen'[o])
      BY <2>5, <2>6, <2>10, <3>1 DEF FlowInv
    <3> QED
      BY <1>2, <2>10, <3>2 DEF FlowInv, Within
  <2> QED
    BY <2>7, <2>8, <2>9, <2>11 DEF OrderInv
<1> QED
  BY <1>7, <1>8 DEF CheckInv, WatchInv

\* A cancellation.
LEMMA CancelChecked ==
  ASSUME LedgerInv, CheckInv, NEW x \in Orders, Cancel(x)
  PROVE  CheckInv'
<1>1. /\ st' = [st EXCEPT ![x] = "CANCELED"]
      /\ UNCHANGED <<exec, unseen, spent, log, answer, settled, w, open, lack,
                     twice, checked>>
  BY DEF Cancel, engineVars, walletVars, historyVars
<1>2. ExchangeType
  BY DEF LedgerInv
<1>3. \A y \in Orders : /\ st'[y] = "none" => st[y] = "none"
                        /\ st'[y] = "live" => st[y] = "live"
  BY <1>1, <1>2 DEF ExchangeType
<1>4. \A y \in Orders : st'[y] = "none" => \A i \in 1 .. Len(log') : log'[i].order # y
  BY <1>1, <1>3 DEF CheckInv, FreshInv
<1>5. /\ LackType' /\ KeptType' /\ FreshInv' /\ BookedInv'
      /\ \A o \in Orders, p \in Nat :
           Watched(o, p)' => Watched(o, p) /\ checked' = checked
  BY <1>1, <1>3, <1>4, EngineRests
<1>6. ASSUME NEW o \in Orders, NEW p \in Nat, Watched(o, p)'
      PROVE  OrderInv(o, p)'
  <2>1. OrderInv(o, p)
    BY <1>5, <1>6 DEF CheckInv, WatchInv
  <2>2. AloneInv(o)'
    BY <1>1, <1>3, <2>1 DEF OrderInv, AloneInv
  <2>3. PriceInv(o, p)'
    BY <1>1, <2>1 DEF OrderInv, PriceInv
  <2>4. CoverInv(o, p)'
    BY <1>1, <2>1 DEF OrderInv, CoverInv, QuoteCovers, BaseCovers
  <2>5. FlowInv(o, p)' \/ VoidInv(o, p)'
    BY <1>1, <1>3, <2>1 DEF OrderInv, FlowInv, VoidInv, Within
  <2> QED
    BY <2>2, <2>3, <2>4, <2>5 DEF OrderInv
<1> QED
  BY <1>5, <1>6 DEF CheckInv, WatchInv

\* A report: the next event of the watched order, at an average price that is
\* within the check.
LEMMA ReportChecked ==
  ASSUME LedgerInv, CheckInv, NEW x \in Orders, Report(x)
  PROVE  CheckInv'
<1>1. PICK cum, all :
        /\ cum = exec[x] - Len(unseen[x]) + 1
        /\ all = spent[x] + Head(unseen[x])
  OBVIOUS
<1>2. PICK now, ev :
        /\ ev = Event(x, cum, Head(unseen[x]), all \div cum, now)
        /\ log' = Append(log, ev) /\ spent' = [spent EXCEPT ![x] = all]
  BY <1>1 DEF Report
<1>3. /\ unseen[x] # <<>> /\ unseen' = [unseen EXCEPT ![x] = Tail(@)]
      /\ UNCHANGED <<st, exec, answer, settled, w, open, lack, twice, checked>>
  BY DEF Report, engineVars, walletVars, historyVars
<1>4. ExchangeType /\ EngineType
  BY DEF LedgerInv
<1>5. PICK u \in Seq(Prices(x)) : u = unseen[x]
  BY <1>4 DEF ExchangeType
<1>6. /\ Head(u) \in Prices(x) /\ Head(u) = u[1] /\ Len(u) \in Nat \ {0}
      /\ Len(Tail(u)) = Len(u) - 1 /\ unseen'[x] = Tail(u)
      /\ \A i \in 1 .. Len(u) - 1 : Tail(u)[i] = u[i + 1]
  <2>1. unseen'[x] = Tail(u)
    BY <1>3, <1>4, <1>5 DEF ExchangeType
  <2>2. u # <<>>
    BY <1>3, <1>5
  <2> QED
    BY <2>1, <2>2
<1>7. PICK n \in Nat, k \in Nat : n = Len(log) /\ k = Len(u) /\ k > 0
  <2>1. Len(log) \in Nat
    BY <1>4 DEF ExchangeType
  <2>2. Len(u) \in Nat /\ Len(u) > 0
    BY <1>6
  <2> QED
    BY <2>1, <2>2
<1>8. /\ Len(log') = n + 1 /\ log'[n + 1] = ev
      /\ \A i \in 1 .. n : log'[i] = log[i]
  <2>1. log \in Seq(Events)
    BY <1>4 DEF ExchangeType
  <2>2. ev.order = x
    BY <1>2 DEF Event
  <2> QED
    BY <1>2, <1>7, <2>1
<1>9. ev.order = x /\ ev.cum = cum /\ ev.rem = Qty - cum /\ ev.price = Head(u)
      /\ ev.lockPrice = all \div cum
  BY <1>2, <1>5 DEF Event
<1>10. exec[x] \in Nat /\ k <= exec[x] /\ st[x] # "none"
  BY <1>4, <1>5, <1>7 DEF ExchangeType
<1>11. \A y \in Orders : st'[y] = "none" => \A i \in 1 .. Len(log') : log'[i].order # y
  <2> SUFFICES ASSUME NEW y \in Orders, st[y] = "none", NEW i \in 1 .. n + 1
               PROVE  log'[i].order # y
    BY <1>3, <1>8
  <2>1. CASE i = n + 1
    BY <1>8, <1>9, <1>10, <2>1
  <2>2. CASE i \in 1 .. n
    BY <1>7, <1>8, <2>2 DEF CheckInv, FreshInv
  <2> QED
    BY <1>7, <2>1, <2>2
<1>12. /\ LackType' /\ KeptType' /\ FreshInv' /\ BookedInv'
       /\ \A o \in Orders, p \in Nat :
            Watched(o, p)' => Watched(o, p) /\ checked' = checked
  BY <1>3, <1>11, EngineRests
<1>13. ASSUME NEW o \in Orders, NEW p \in Nat, Watched(o, p)'
       PROVE  OrderInv(o, p)'
  <2>1. OrderInv(o, p)
    BY <1>12, <1>13 DEF CheckInv, WatchInv
  <2>2. x = o
    BY <1>3, <2>1 DEF OrderInv, AloneInv
  <2>3. FlowInv(o, p)
    BY <1>7, <1>10, <2>1, <2>2 DEF OrderInv, VoidInv
  <2>4. AloneInv(o)'
    <3>1. AloneInv(o)
      BY <2>1 DEF OrderInv
    <3>2. \A y \in Orders \ {o} : st'[y] = st[y] /\ unseen'[y] = unseen[y]
      BY <1>3, <1>4, <2>2 DEF ExchangeType
    <3> QED
      BY <3>1, <3>2 DEF AloneInv
  <2>5. CoverInv(o, p)'
    BY <1>3, <2>1 DEF OrderInv, CoverInv, QuoteCovers, BaseCovers
  <2>6. cum \in Nat \ {0} /\ cum = exec[o] - k + 1
    BY <1>1, <1>5, <1>7, <1>10, <2>2
  <2>7. ASSUME o \in Buys
        PROVE  /\ Head(u) <= p /\ all <= cum * p /\ all \in Nat
               /\ \A i \in 1 .. k - 1 : Tail(u)[i] <= p
    <3>1. /\ \A i \in 1 .. k : u[i] <= p
          /\ spent[o] <= (exec[o] - k) * p
      BY <1>5, <1>7, <2>1, <2>2, <2>7 DEF OrderInv, PriceInv
    <3>2. Head(u) <= p /\ \A i \in 1 .. k - 1 : Tail(u)[i] <= p
      <4>1. 1 \in 1 .. k /\ \A i \in 1 .. k - 1 : i + 1 \in 1 .. k
        BY <1>7
      <4> QED
        BY <1>6, <1>7, <3>1, <4>1
    <3>3. spent[o] \in Nat /\ Head(u) \in Nat
      BY <1>4, <1>6, PricesType DEF ExchangeType
    <3>4. all = spent[o] + Head(u)
      BY <1>1, <1>5, <2>2
    <3>5. PICK m : m = (exec[o] - k) * p
      OBVIOUS
    <3>6. m \in Int /\ cum * p = m + p
      <4>1. exec[o] - k \in Nat
        BY <1>7, <1>10, <2>2
      <4>2. PICK j \in Nat : j = exec[o] - k /\ cum = j + 1
        BY <2>6, <4>1
      <4> QED
        BY <3>5, <4>2
    <3>7. all \in Nat /\ all <= cum * p
      <4>1. PICK c, h : c = spent[o] /\ h = Head(u)
        OBVIOUS
      <4>2. c \in Nat /\ h \in Nat /\ c <= m /\ h <= p /\ all = c + h
        BY <3>1, <3>2, <3>3, <3>4, <3>5, <4>1
      <4> QED
        BY <3>6, <4>2
    <3> QED
      BY <3>2, <3>7
  <2>8. o \in Buys => ev.price <= p /\ ev.lockPrice <= p
    <3> SUFFICES ASSUME o \in Buys PROVE ev.price <= p /\ ev.lockPrice <= p
      OBVIOUS
    <3>1. cum * p \in Int /\ all < cum * p + cum
      BY <2>6, <2>7
    <3>2. all \div cum <= p
      BY <2>6, <2>7, <3>1, Quotient
    <3> QED
      BY <1>9, <2>7, <3>2
  <2>9. PriceInv(o, p)'
    <3> SUFFICES ASSUME o \in Buys
                 PROVE  /\ \A i \in 1 .. Len(unseen'[o]) : unseen'[o][i] <= p
                        /\ spent'[o] <= (exec'[o] - Len(unseen'[o])) * p
      BY DEF PriceInv
    <3>1. spent'[o] = all
      BY <1>2, <1>4, <2>2 DEF ExchangeType
    <3>2. exec[o] - (k - 1) = cum
      BY <1>7, <1>10, <2>2, <2>6
    <3> QED
      BY <1>3, <1>6, <1>7, <2>2, <2>7, <3>1, <3>2
  <2>10. FlowInv(o, p)'
    <3>1. PICK s \in Nat, a \in Nat : s = settled[o] /\ a = Len(answer)
      BY <1>4 DEF EngineType
    <3>2. exec[o] = s + a + n + k
      BY <1>5, <1>7, <2>2, <2>3, <3>1 DEF FlowInv
    <3>3. Within(ev, o, p, s + a + (n + 1))
      <4>1. cum = s + a + (n + 1)
        <5>1. cum = (s + a + n + k) - k + 1
          BY <2>6, <3>2
        <5> QED
          BY <5>1
      <4> QED
        BY <1>9, <2>2, <2>8, <4>1 DEF Within
    <3>4. \A i \in 1 .. n + 1 : Within(log'[i], o, p, s + a + i)
      <4> TAKE i \in 1 .. n + 1
      <4>1. CASE i = n + 1
        BY <1>8, <3>3, <4>1
      <4>2. CASE i \in 1 .. n
        BY <1>7, <1>8, <2>3, <3>1, <4>2 DEF FlowInv
      <4> QED
        BY <1>7, <4>1, <4>2
    <3>5. exec[o] = s + a + (n + 1) + (k - 1)
      <4>1. s + a + n + k = s + a + (n + 1) + (k - 1)
        OBVIOUS
      <4> QED
        BY <3>2, <4>1
    <3>6. \A i \in 1 .. Len(answer) : Within(answer[i], o, p, settled[o] + i)
      BY <2>3 DEF FlowInv
    <3>7. /\ answer' = answer /\ settled' = settled /\ exec' = exec
          /\ Len(log') = n + 1 /\ Len(unseen'[o]) = k - 1
      BY <1>3, <1>6, <1>7, <1>8, <2>2
    <3>8. \A i \in 1 .. Len(answer') : Within(answer'[i], o, p, settled'[o] + i)
      BY <3>6, <3>7
    <3>9. \A i \in 1 .. Len(log') :
            Within(log'[i], o, p, settled'[o] + Len(answer') + i)
      BY <3>1, <3>4, <3>7
    <3>10. exec'[o] = settled'[o] + Len(answer') + Len(log') + Len(unseen'[o])
      BY <3>1, <3>5, <3>7
    <3> QED
      BY <3>8, <3>9, <3>10 DEF FlowInv, Within
  <2> QED
    BY <2>4, <2>5, <2>9, <2>10 DEF OrderInv
<1> QED
  BY <1>12, <1>13 DEF CheckInv, WatchInv

-----------------------------------------------------------------------------
(* What the guard let through can be booked: the engine *)

\* The events of an answer.
LEMMA AnswerParts ==
  ASSUME NEW o \in Orders, NEW n \in 0..Qty, NEW p, NEW told
  PROVE  /\ n = 0 /\ told = "CANCELED" =>
              \E e : /\ AnswerEvents(o, n, p, told) = <<e>>
                     /\ e.order = o /\ e.cum = 0 /\ e.rem = Qty
                     /\ e.lockPrice = Limit[o]
         /\ ~(n = 0 /\ told = "CANCELED") =>
              /\ Len(AnswerEvents(o, n, p, told)) = n
              /\ \A i \in 1 .. n :
                   LET e == AnswerEvents(o, n, p, told)[i] IN
                     /\ e.order = o /\ e.cum = i /\ e.rem = Qty - i
                     /\ e.price = p /\ e.lockPrice = CheckPrice(o, p)
<1> DEFINE Kind(i)  == IF told = "FILLED" /\ i < n THEN "PARTIALLY_FILLED"
                                                   ELSE told
           Own(i)   == IF i = 0 THEN Limit[o] ELSE CheckPrice(o, p)
           Fills(i) == Event(o, i, p, Own(i), Kind(i))
<1>1. AnswerEvents(o, n, p, told) =
        IF n = 0 /\ told = "CANCELED" THEN << Fills(0) >>
        ELSE [i \in 1..n |-> Fills(i)]
  BY Zenon DEF AnswerEvents
<1>2. n \in Nat /\ Qty \in Nat
  BY SpotAssumption
<1>3. \A i \in 0..n : /\ Fills(i).order = o /\ Fills(i).cum = i
                      /\ Fills(i).rem = Qty - i /\ Fills(i).price = p
                      /\ Fills(i).lockPrice = IF i = 0 THEN Limit[o]
                                                       ELSE CheckPrice(o, p)
  BY DEF Event
<1> HIDE DEF Fills
<1>4. CASE n = 0 /\ told = "CANCELED"
  <2>1. PICK e : e = Fills(0)
    OBVIOUS
  <2>2. e.order = o /\ e.cum = 0 /\ e.rem = Qty /\ e.lockPrice = Limit[o]
    BY <1>2, <1>3, <2>1
  <2> QED
    BY <1>1, <1>4, <2>1, <2>2
<1>5. CASE ~(n = 0 /\ told = "CANCELED")
  <2>1. PICK A : A = [i \in 1..n |-> Fills(i)]
    OBVIOUS
  <2>2. AnswerEvents(o, n, p, told) = A
    BY <1>1, <1>5, <2>1
  <2>3. Len(A) = n
    BY <1>2, <2>1
  <2>4. \A i \in 1 .. n : /\ A[i].order = o /\ A[i].cum = i /\ A[i].rem = Qty - i
                          /\ A[i].price = p /\ A[i].lockPrice = CheckPrice(o, p)
    <3> TAKE i \in 1 .. n
    <3>1. A[i] = Fills(i) /\ i \in 0..n /\ i # 0
      BY <1>2, <2>1
    <3> QED
      BY <1>3, <3>1
  <2> QED
    BY <1>5, <2>2, <2>3, <2>4
<1> QED
  BY <1>4, <1>5

\* A new order: the guard covers it.
LEMMA PlaceChecked ==
  ASSUME LedgerInv, CheckInv, NEW o \in Orders, Place(o)
  PROVE  CheckInv'
<1>1. PICK n \in 0..Qty, p \in Prices(o), mark \in 1..MaxPrice,
           now \in {"FILLED", "live", "CANCELED"}, told \in Statuses,
           price \in Nat :
        /\ now = "FILLED" <=> n = Qty
        /\ told = IF now = "live" THEN "PARTIALLY_FILLED" ELSE now
        /\ price = CheckPrice(o, mark)
        /\ BalanceGuard(o, price)
        /\ st' = [st EXCEPT ![o] = now]
        /\ exec' = [exec EXCEPT ![o] = n]
        /\ spent' = [spent EXCEPT ![o] = n * p]
        /\ answer' = AnswerEvents(o, n, p, told)
        /\ checked' =
             IF AllSettled
               THEN [order |-> o, price |-> price,
                     kept |-> (o \in Buys /\ n > 0 => p <= price)]
               ELSE Unchecked
  <2>1. PICK n \in 0..Qty, p \in Prices(o), mark \in 1..MaxPrice,
             rests \in BOOLEAN :
        LET now  == IF n = Qty THEN "FILLED"
                    ELSE IF rests THEN "live" ELSE "CANCELED"
            back == IF now = "CANCELED" THEN Reserve(o, Qty - n) ELSE 0
            told == IF now = "live" THEN "PARTIALLY_FILLED" ELSE now
            price == CheckPrice(o, mark)
        IN  /\ BalanceGuard(o, price)
            /\ st' = [st EXCEPT ![o] = now]
            /\ exec' = [exec EXCEPT ![o] = n]
            /\ spent' = [spent EXCEPT ![o] = n * p]
            /\ IF o \in Buys
                 THEN /\ xFree' = xFree - Reserve(o, Qty) + back
                                        + Proceeds(o, n, p)
                      /\ xFree' >= 0
                      /\ xBase' = xBase + n
                 ELSE /\ xFree' = xFree + Proceeds(o, n, p)
                      /\ xBase' = xBase - Reserve(o, Qty) + back
            /\ answer' = AnswerEvents(o, n, p, told)
            /\ checked' =
                 IF AllSettled
                   THEN [order |-> o, price |-> price,
                         kept |-> (o \in Buys /\ n > 0 => p <= price)]
                   ELSE Unchecked
    BY Zenon DEF Place
  <2>2. PICK now : now = IF n = Qty THEN "FILLED"
                         ELSE IF rests THEN "live" ELSE "CANCELED"
    OBVIOUS
  <2>3. now \in {"FILLED", "live", "CANCELED"} /\ (now = "FILLED" <=> n = Qty)
    BY <2>2
  <2>4. PICK told, price :
          /\ told = IF now = "live" THEN "PARTIALLY_FILLED" ELSE now
          /\ price = CheckPrice(o, mark)
    OBVIOUS
  <2>5. /\ BalanceGuard(o, price)
        /\ st' = [st EXCEPT ![o] = now]
        /\ exec' = [exec EXCEPT ![o] = n]
        /\ spent' = [spent EXCEPT ![o] = n * p]
        /\ answer' = AnswerEvents(o, n, p, told)
        /\ checked' =
             IF AllSettled
               THEN [order |-> o, price |-> price,
                     kept |-> (o \in Buys /\ n > 0 => p <= price)]
               ELSE Unchecked
    BY <2>1, <2>2, <2>4, Zenon
  <2>6. told \in Statuses /\ price \in Nat
    BY <2>3, <2>4, PricesType DEF CheckPrice, Statuses, Terminal
  <2> QED
    BY <2>3, <2>4, <2>5, <2>6, Zenon
<1>2. /\ st[o] = "none" /\ answer = <<>>
      /\ UNCHANGED <<unseen, log, settled, w, open, lack, twice>>
  BY DEF Place, Idle, walletVars
<1>3. ExchangeType /\ EngineType /\ OpenType /\ Sound(w)
  BY DEF LedgerInv
<1>4. /\ settled[o] = 0 /\ open[o] = NoOrder /\ lack[o] = 0 /\ o \notin twice
      /\ exec[o] = 0
  BY <1>2, <1>3 DEF CheckInv, FreshInv, ExchangeType
<1>5. n \in Nat /\ Qty \in Nat /\ Qty # 0 /\ p \in Nat /\ price \in Nat
      /\ Limit[o] \in Nat /\ Fee \in Nat
  BY <1>1, PricesType, SpotAssumption DEF CheckPrice
<1>6. /\ st'[o] = now /\ exec'[o] = n /\ spent'[o] = n * p
      /\ \A y \in Orders \ {o} : st'[y] = st[y]
  BY <1>1, <1>3 DEF ExchangeType
<1>7. LackType'
  BY <1>2 DEF CheckInv, LackType
<1>8. KeptType'
  <2>1. CASE AllSettled
    <3>1. checked' = [order |-> o, price |-> price,
                      kept |-> (o \in Buys /\ n > 0 => p <= price)]
      BY <1>1, <2>1
    <3> QED
      BY <1>5, <3>1 DEF KeptType
  <2>2. CASE ~AllSettled
    <3>1. checked' = Unchecked
      BY <1>1, <2>2
    <3> QED
      BY <3>1 DEF KeptType, Unchecked
  <2> QED
    BY <2>1, <2>2
<1>9. PICK A : A = answer'
  OBVIOUS
<1>10. /\ n = 0 /\ told = "CANCELED" =>
              /\ Len(A) = 1 /\ A[1].order = o /\ A[1].cum = 0 /\ A[1].rem = Qty
              /\ A[1].lockPrice = Limit[o]
       /\ ~(n = 0 /\ told = "CANCELED") =>
              /\ Len(A) = n
              /\ \A i \in 1 .. n :
                     /\ A[i].order = o /\ A[i].cum = i /\ A[i].rem = Qty - i
                     /\ A[i].price = p /\ A[i].lockPrice = CheckPrice(o, p)
  <2>1. A = AnswerEvents(o, n, p, told)
    BY <1>1, <1>9
  <2>2. CASE n = 0 /\ told = "CANCELED"
    <3>1. PICK e : /\ A = <<e>> /\ e.order = o /\ e.cum = 0 /\ e.rem = Qty
                   /\ e.lockPrice = Limit[o]
      BY <2>1, <2>2, AnswerParts
    <3>2. Len(A) = 1 /\ A[1] = e
      BY <3>1
    <3> QED
      BY <2>2, <3>1, <3>2
  <2>3. CASE ~(n = 0 /\ told = "CANCELED")
    BY <2>1, <2>3, AnswerParts
  <2> QED
    BY <2>2, <2>3
<1>11. \A i \in 1 .. Len(A) : A[i].order = o
  <2>1. CASE n = 0 /\ told = "CANCELED"
    <3>1. \A i \in 1 .. 1 : i = 1
      OBVIOUS
    <3> QED
      BY <1>10, <2>1, <3>1
  <2>2. CASE ~(n = 0 /\ told = "CANCELED")
    BY <1>10, <2>2
  <2> QED
    BY <2>1, <2>2
<1>12. FreshInv'
  <2> SUFFICES ASSUME NEW y \in Orders, st'[y] = "none"
               PROVE  /\ settled'[y] = 0 /\ open'[y] = NoOrder /\ lack'[y] = 0
                      /\ y \notin twice'
                      /\ \A i \in 1 .. Len(log') : log'[i].order # y
                      /\ \A i \in 1 .. Len(answer') : answer'[i].order # y
    BY DEF FreshInv, NoOrder
  <2>1. y # o /\ st[y] = "none"
    BY <1>1, <1>6
  <2> QED
    BY <1>2, <1>9, <1>11, <2>1 DEF CheckInv, FreshInv
<1>13. BookedInv'
  <2>1. Qty * Fee \in Nat
    BY <1>5
  <2>2. checked'.kept => checked'.order = o
    BY <1>1 DEF Unchecked
  <2>3. lack'[o] <= FeesOf(o)
    BY <1>2, <1>4, <2>1 DEF FeesOf
  <2> QED
    BY <2>2, <2>3 DEF BookedInv, FeesOf
<1>14. ASSUME NEW x \in Orders, NEW q \in Nat, Watched(x, q)'
       PROVE  OrderInv(x, q)'
  <2>1. checked'.kept /\ checked'.order = x /\ checked'.price = q
    BY <1>14 DEF Watched
  <2>2. AllSettled
    BY <1>1, <2>1 DEF Unchecked
  <2>3. x = o /\ q = price /\ (o \in Buys /\ n > 0 => p <= price)
    BY <1>1, <2>1, <2>2
  <2>4. log = <<>> /\ \A y \in Orders : st[y] # "live" /\ unseen[y] = <<>>
    BY <2>2 DEF AllSettled
  <2>5. AloneInv(o)'
    BY <1>2, <1>6, <2>4 DEF AloneInv
  <2>6. unseen'[o] = <<>> /\ log' = <<>> /\ settled'[o] = 0
    BY <1>2, <1>4, <2>4
  <2>7. PriceInv(o, price)'
    <3>1. o \in Buys => n * p <= n * price
      <4>1. CASE n = 0
        BY <1>5, <4>1
      <4>2. CASE n > 0
        BY <1>5, <2>3, <4>2
      <4> QED
        BY <1>5, <4>1, <4>2
    <3>2. n - 0 = n
      BY <1>5
    <3> QED
      BY <1>6, <2>6, <3>1, <3>2 DEF PriceInv
  <2>8. CoverInv(o, price)'
    <3>1. /\ w.free \in Nat /\ w.locked \in Nat /\ w.qty \in Nat /\ w.held \in Nat
      BY <1>3, Fields
    <3>2. open[o].quote = 0 /\ open[o].base = 0
      BY <1>4 DEF NoOrder
    <3>3. CASE o \in Buys
      <4>1. w.free >= Qty * price
        BY <1>1, <3>3 DEF BalanceGuard
      <4>2. (Qty - 0) * price - 0 * Fee = Qty * price
        BY <1>5
      <4>3. w'.free + 0 >= (Qty - 0) * price - 0 * Fee
        BY <1>2, <3>1, <4>1, <4>2
      <4> QED
        BY <1>2, <1>4, <3>1, <3>2, <3>3, <4>3 DEF CoverInv, QuoteCovers
    <3>4. CASE o \notin Buys
      <4>1. w.qty - w.held >= Qty
        BY <1>1, <3>4 DEF BalanceGuard
      <4> QED
        BY <1>2, <1>4, <1>5, <3>1, <3>2, <3>4, <4>1 DEF CoverInv, BaseCovers
    <3> QED
      BY <3>3, <3>4
  <2>9. CASE n = 0 /\ told = "CANCELED"
    <3>1. o \in Buys => A[1].lockPrice <= price
      <4>1. Limit[o] <= price
        BY <1>1, <1>5 DEF CheckPrice, IsMarket
      <4> QED
        BY <1>10, <2>9, <4>1
    <3>2. st'[o] # "live"
      BY <1>1, <1>6, <2>9
    <3>3. VoidInv(o, price)'
      BY <1>6, <1>9, <1>10, <2>6, <2>9, <3>1, <3>2 DEF VoidInv
    <3> QED
      BY <2>3, <2>5, <2>7, <2>8, <3>3 DEF OrderInv
  <2>10. CASE ~(n = 0 /\ told = "CANCELED")
    <3>1. \A i \in 1 .. n : Within(A[i], o, price, i)
      <4> TAKE i \in 1 .. n
      <4>1. o \in Buys => p <= price /\ CheckPrice(o, p) <= price
        BY <1>1, <1>5, <2>3 DEF CheckPrice
      <4> QED
        BY <1>10, <2>10, <4>1 DEF Within
    <3>2. \A i \in 1 .. Len(answer') : Within(answer'[i], o, price, settled'[o] + i)
      <4> TAKE i \in 1 .. Len(answer')
      <4>1. i \in 1 .. n /\ settled'[o] + i = i
        BY <1>5, <1>9, <1>10, <2>6, <2>10
      <4> QED
        BY <1>9, <3>1, <4>1
    <3>3. Len(log') = 0 /\ Len(unseen'[o]) = 0 /\ Len(answer') = n
      BY <1>9, <1>10, <2>6, <2>10
    <3>4. exec'[o] = settled'[o] + Len(answer') + Len(log') + Len(unseen'[o])
      BY <1>5, <1>6, <2>6, <3>3
    <3>5. FlowInv(o, price)'
      BY <3>2, <3>3, <3>4 DEF FlowInv, Within
    <3> QED
      BY <2>3, <2>5, <2>7, <2>8, <3>5 DEF OrderInv
  <2> QED
    BY <2>9, <2>10
<1> QED
  BY <1>7, <1>8, <1>12, <1>13, <1>14 DEF CheckInv, WatchInv

\* The event is the next of the order, or tells of nothing new.
Due(e, o, p) ==
  /\ e.order = o /\ Delta(e) \in {0, 1} /\ e.rem + settled[o] + Delta(e) <= Qty
  /\ o \in Buys => (Delta(e) = 1 => e.price <= p) /\ e.lockPrice <= p

\* An event is booked that is the next of the watched order, if there is one.
LEMMA BookChecked ==
  ASSUME LedgerInv, CheckInv, NEW e \in Events, NEW cum, Book(e, cum),
         st[e.order] # "none", UNCHANGED <<st, checked>>,
         \A x \in Orders : x # e.order => settled'[x] = settled[x],
         \A i \in 1 .. Len(log') : \E j \in 1 .. Len(log) : log'[i] = log[j],
         \A i \in 1 .. Len(answer') :
           \E j \in 1 .. Len(answer) : answer'[i] = answer[j],
         \A o \in Orders, p \in Nat :
           Watched(o, p) /\ o \notin twice' => Due(e, o, p)
  PROVE  /\ LackType' /\ KeptType' /\ FreshInv' /\ BookedInv'
         /\ \A o \in Orders, p \in Nat : Watched(o, p)' =>
              /\ Watched(o, p) /\ o \notin twice' /\ OnOrder(e).ok
              /\ settled'[o] = settled[o] + Delta(e) => CoverInv(o, p)'
<1>1. LackType /\ OpenType /\ EngineType /\ Sound(w) /\ e.order \in Orders
  BY DEF LedgerInv, CheckInv, Events
<1>2. ASSUME NEW x \in Orders
      PROVE  /\ LackType'
             /\ x # e.order => /\ open'[x] = open[x] /\ lack'[x] = lack[x]
                               /\ x \in twice' <=> x \in twice
             /\ lack[x] # 0 => lack'[x] = lack[x]
             /\ x \notin twice' => x \notin twice
  BY <1>1, BookFrame
<1>3. LackType'
  BY <1>1, <1>2
<1>4. KeptType'
  BY DEF CheckInv, KeptType
<1>5. FreshInv'
  <2> SUFFICES ASSUME NEW y \in Orders, st[y] = "none"
               PROVE  /\ settled'[y] = 0 /\ open'[y] = NoOrder /\ lack'[y] = 0
                      /\ y \notin twice'
                      /\ \A i \in 1 .. Len(log') : log'[i].order # y
                      /\ \A i \in 1 .. Len(answer') : answer'[i].order # y
    BY DEF FreshInv, NoOrder
  <2>1. y # e.order
    OBVIOUS
  <2>2. /\ settled[y] = 0 /\ open[y] = NoOrder /\ lack[y] = 0 /\ y \notin twice
        /\ \A i \in 1 .. Len(log) : log[i].order # y
        /\ \A i \in 1 .. Len(answer) : answer[i].order # y
    BY DEF CheckInv, FreshInv
  <2>3. /\ \A i \in 1 .. Len(log') : log'[i].order # y
        /\ \A i \in 1 .. Len(answer') : answer'[i].order # y
    BY <2>2
  <2> QED
    BY <1>2, <2>1, <2>2, <2>3
<1>6. ASSUME NEW o \in Orders, NEW p \in Nat, Watched(o, p), o \notin twice'
      PROVE  /\ lack'[o] <= FeesOf(o)
             /\ lack'[o] = 0 => OnOrder(e).ok
             /\ lack'[o] = 0 /\ settled'[o] = settled[o] + Delta(e)
                  => CoverInv(o, p)'
  <2>1. Due(e, o, p)
    BY <1>6
  <2>2. lack[o] = 0 /\ CoverInv(o, p)
    BY <1>6 DEF CheckInv, WatchInv, OrderInv, Watched
  <2>3. PICK d \in {0, 1} : d = Delta(e)
    BY <2>1 DEF Due
  <2>4. /\ e.order = o /\ e.rem + settled[o] + d <= Qty
        /\ o \in Buys => (d = 1 => e.price <= p) /\ e.lockPrice <= p
    BY <2>1, <2>3 DEF Due
  <2> QED
    BY <1>1, <2>2, <2>3, <2>4, BookWatched
<1>7. BookedInv'
  <2> SUFFICES ASSUME NEW o \in Orders, checked.kept, checked.order = o,
                      o \notin twice'
               PROVE  lack'[o] <= FeesOf(o)
    BY DEF BookedInv, FeesOf
  <2>1. o \notin twice
    BY <1>2
  <2>2. CASE lack[o] # 0
    BY <1>2, <2>1, <2>2 DEF CheckInv, BookedInv
  <2>3. CASE lack[o] = 0
    <3>1. PICK p \in Nat : checked.price = p
      BY DEF CheckInv, KeptType
    <3>2. Watched(o, p)
      BY <2>1, <2>3, <3>1 DEF Watched
    <3> QED
      BY <1>6, <3>2
  <2> QED
    BY <2>2, <2>3
<1>8. ASSUME NEW o \in Orders, NEW p \in Nat, Watched(o, p)'
      PROVE  /\ Watched(o, p) /\ o \notin twice' /\ OnOrder(e).ok
             /\ settled'[o] = settled[o] + Delta(e) => CoverInv(o, p)'
  <2>1. /\ checked.kept /\ checked.order = o /\ checked.price = p
        /\ o \notin twice' /\ lack'[o] = 0
    BY <1>8 DEF Watched
  <2>2. o \notin twice /\ lack[o] = 0
    BY <1>2, <2>1
  <2>3. Watched(o, p)
    BY <2>1, <2>2 DEF Watched
  <2> QED
    BY <1>6, <2>1, <2>3
<1> QED
  BY <1>3, <1>4, <1>5, <1>7, <1>8

\* What is left of a sequence of events when the first is handled.
LEMMA TailParts ==
  ASSUME NEW s \in Seq(Events), s # <<>>
  PROVE  /\ Head(s) = s[1] /\ Len(s) \in Nat /\ Len(s) >= 1
         /\ Len(Tail(s)) = Len(s) - 1
         /\ \A i \in 1 .. Len(s) - 1 : Tail(s)[i] = s[i + 1]
         /\ \A i \in 1 .. Len(Tail(s)) : \E j \in 1 .. Len(s) : Tail(s)[i] = s[j]
<1>1. /\ Head(s) = s[1] /\ Len(s) \in Nat /\ Len(s) >= 1
      /\ Len(Tail(s)) = Len(s) - 1
      /\ \A i \in 1 .. Len(s) - 1 : Tail(s)[i] = s[i + 1]
  OBVIOUS
<1>2. ASSUME NEW i \in 1 .. Len(Tail(s))
      PROVE  \E j \in 1 .. Len(s) : Tail(s)[i] = s[j]
  <2>1. i \in 1 .. Len(s) - 1 /\ i + 1 \in 1 .. Len(s)
    BY <1>1
  <2> QED
    BY <1>1, <2>1
<1> QED
  BY <1>1, <1>2

\* The watched order when its event is booked: the exchange has not changed.
LEMMA ExchangeRests ==
  ASSUME NEW o \in Orders, NEW p \in Nat, OrderInv(o, p),
         UNCHANGED <<st, exec, unseen, spent>>
  PROVE  AloneInv(o)' /\ PriceInv(o, p)'
BY DEF OrderInv, AloneInv, PriceInv

\* An event of the answer.
LEMMA AnswerChecked ==
  ASSUME LedgerInv, CheckInv, SettleAnswer
  PROVE  CheckInv'
<1>1. ExchangeType /\ EngineType /\ answer \in Seq(Events) /\ answer # <<>>
  BY DEF LedgerInv, EngineType, SettleAnswer
<1>2. PICK e : e = Head(answer)
  OBVIOUS
<1>3. /\ e = answer[1] /\ Len(answer) \in Nat /\ Len(answer) >= 1
      /\ Len(Tail(answer)) = Len(answer) - 1
      /\ \A i \in 1 .. Len(answer) - 1 : Tail(answer)[i] = answer[i + 1]
      /\ \A i \in 1 .. Len(Tail(answer)) :
           \E j \in 1 .. Len(answer) : Tail(answer)[i] = answer[j]
  BY <1>1, <1>2, TailParts
<1>4. e \in Events /\ e.order \in Orders /\ e.cum \in 0..Qty
  BY <1>1, <1>2, HeadTail DEF Events
<1>5. /\ Book(e, e.cum) /\ UNCHANGED <<st, exec, unseen, spent, log, checked>>
      /\ IF OnOrder(e).ok
           THEN Record(e.order, e.cum) /\ answer' = Tail(answer)
           ELSE answer' = <<>> /\ settled' = settled
  BY <1>2 DEF SettleAnswer, exchangeVars
<1>6. st[e.order] # "none"
  <2>1. 1 \in 1 .. Len(answer)
    BY <1>3
  <2> QED
    BY <1>3, <1>4, <2>1 DEF CheckInv, FreshInv
<1>7. \A x \in Orders : x # e.order => settled'[x] = settled[x]
  BY <1>1, <1>5 DEF Record, EngineType
<1>8. \A i \in 1 .. Len(answer') :
        \E j \in 1 .. Len(answer) : answer'[i] = answer[j]
  <2>1. CASE answer' = Tail(answer)
    BY <1>3, <2>1
  <2>2. CASE answer' = <<>>
    BY <2>2
  <2> QED
    BY <1>5, <2>1, <2>2
<1>9. ASSUME NEW o \in Orders, NEW p \in Nat, Watched(o, p), o \notin twice'
      PROVE  /\ Due(e, o, p)
             /\ FlowInv(o, p) => e.cum = settled[o] + 1 /\ Delta(e) = 1
             /\ VoidInv(o, p) => e.cum = settled[o] /\ Delta(e) = 0
  <2>1. FlowInv(o, p) \/ VoidInv(o, p)
    BY <1>9 DEF CheckInv, WatchInv, OrderInv
  <2>2. PICK s \in Nat : s = settled[o] /\ s <= Qty
    BY <1>1, SpotAssumption DEF EngineType
  <2>3. e.order = o => Delta(e) = AtLeast0(e.cum - s)
    BY <1>1, <1>4, <1>5, <1>9, <2>2, BookFrame DEF LedgerInv, CheckInv
  <2>4. ASSUME FlowInv(o, p)
        PROVE  Due(e, o, p) /\ e.cum = s + 1 /\ Delta(e) = 1
    <3>1. Within(e, o, p, s + 1)
      <4>1. 1 \in 1 .. Len(answer)
        BY <1>3
      <4> QED
        BY <1>3, <2>2, <2>4, <4>1 DEF FlowInv
    <3>2. /\ e.order = o /\ e.cum = s + 1 /\ e.rem = Qty - (s + 1)
          /\ o \in Buys => e.price <= p /\ e.lockPrice <= p
      BY <3>1 DEF Within
    <3>3. Delta(e) = 1
      BY <2>2, <2>3, <3>2 DEF AtLeast0
    <3>4. e.rem + s + 1 <= Qty
      BY <2>2, <3>2, SpotAssumption
    <3> QED
      BY <2>2, <3>2, <3>3, <3>4 DEF Due
  <2>5. ASSUME VoidInv(o, p)
        PROVE  Due(e, o, p) /\ e.cum = s /\ Delta(e) = 0
    <3>1. /\ e.order = o /\ e.cum = 0 /\ e.rem = Qty /\ s = 0
          /\ o \in Buys => e.lockPrice <= p
      BY <1>3, <2>2, <2>5 DEF VoidInv
    <3>2. Delta(e) = 0
      BY <2>3, <3>1 DEF AtLeast0
    <3>3. e.rem + s + 0 <= Qty
      BY <3>1, SpotAssumption
    <3> QED
      BY <2>2, <3>1, <3>2, <3>3 DEF Due
  <2> QED
    BY <2>1, <2>2, <2>4, <2>5
<1>10. /\ LackType' /\ KeptType' /\ FreshInv' /\ BookedInv'
       /\ \A o \in Orders, p \in Nat : Watched(o, p)' =>
            /\ Watched(o, p) /\ o \notin twice' /\ OnOrder(e).ok
            /\ settled'[o] = settled[o] + Delta(e) => CoverInv(o, p)'
  <2>1. \A i \in 1 .. Len(log') : \E j \in 1 .. Len(log) : log'[i] = log[j]
    BY <1>5
  <2> QED
    BY <1>4, <1>5, <1>6, <1>7, <1>8, <1>9, <2>1, BookChecked
<1>11. ASSUME NEW o \in Orders, NEW p \in Nat, Watched(o, p)'
       PROVE  OrderInv(o, p)'
  <2>1. /\ Watched(o, p) /\ o \notin twice' /\ OnOrder(e).ok
        /\ settled'[o] = settled[o] + Delta(e) => CoverInv(o, p)'
    BY <1>10, <1>11
  <2>2. OrderInv(o, p)
    BY <2>1 DEF CheckInv, WatchInv
  <2>3. AloneInv(o)' /\ PriceInv(o, p)'
    BY <1>5, <2>2, ExchangeRests
  <2>4. Due(e, o, p)
    BY <1>9, <2>1
  <2>5. /\ e.order = o /\ Record(o, e.cum) /\ answer' = Tail(answer)
    BY <1>5, <2>1, <2>4 DEF Due
  <2>6. PICK s \in Nat, n \in Nat : s = settled[o] /\ n = Len(answer) /\ n >= 1
    <3>1. settled[o] \in Nat
      BY <1>1, SpotAssumption DEF EngineType
    <3> QED
      BY <1>3, <3>1
  <2>7. CASE FlowInv(o, p)
    <3>1. e.cum = s + 1 /\ Delta(e) = 1
      BY <1>9, <2>1, <2>6, <2>7
    <3>2. settled'[o] = s + 1
      BY <1>1, <2>5, <2>6, <3>1 DEF Record, EngineType
    <3>3. CoverInv(o, p)'
      BY <2>1, <2>6, <3>1, <3>2
    <3>4. Len(answer') = n - 1
      BY <1>3, <2>5, <2>6
    <3>5. \A i \in 1 .. Len(answer') : Within(answer'[i], o, p, settled'[o] + i)
      <4> SUFFICES ASSUME NEW i \in 1 .. n - 1
                   PROVE  Within(answer'[i], o, p, (s + 1) + i)
        BY <3>2, <3>4
      <4>1. i + 1 \in 1 .. n /\ (s + 1) + i = s + (i + 1)
        BY <2>6
      <4>2. answer'[i] = answer[i + 1]
        BY <1>3, <2>5, <2>6
      <4>3. Within(answer[i + 1], o, p, s + (i + 1))
        BY <2>6, <2>7, <4>1 DEF FlowInv
      <4> QED
        BY <4>1, <4>2, <4>3
    <3>6. PICK m \in Nat, k \in Nat : m = Len(log) /\ k = Len(unseen[o])
      BY <1>1 DEF ExchangeType
    <3>7. \A i \in 1 .. Len(log') :
            Within(log'[i], o, p, settled'[o] + Len(answer') + i)
      <4> SUFFICES ASSUME NEW i \in 1 .. m
                   PROVE  Within(log[i], o, p, (s + 1) + (n - 1) + i)
        BY <1>5, <3>2, <3>4, <3>6
      <4>1. (s + 1) + (n - 1) + i = s + n + i
        BY <2>6
      <4>2. Within(log[i], o, p, s + n + i)
        BY <2>6, <2>7, <3>6 DEF FlowInv
      <4> QED
        BY <4>1, <4>2
    <3>8. exec'[o] = settled'[o] + Len(answer') + Len(log') + Len(unseen'[o])
      <4>1. exec[o] = s + n + m + k
        BY <2>6, <2>7, <3>6 DEF FlowInv
      <4>2. s + n + m + k = (s + 1) + (n - 1) + m + k
        OBVIOUS
      <4> QED
        BY <1>5, <3>2, <3>4, <3>6, <4>1, <4>2
    <3>9. FlowInv(o, p)'
      BY <3>5, <3>7, <3>8 DEF FlowInv, Within
    <3> QED
      BY <2>3, <3>3, <3>9 DEF OrderInv
  <2>8. CASE VoidInv(o, p)
    <3>1. /\ n = 1 /\ log = <<>> /\ s = 0 /\ exec[o] = 0
          /\ e.cum = s /\ Delta(e) = 0
      BY <1>9, <2>1, <2>6, <2>8 DEF VoidInv
    <3>2. settled' = settled /\ settled'[o] = 0
      <4>1. e.cum = 0 /\ settled[o] = 0 /\ ~(0 > 0)
        BY <2>6, <3>1
      <4>2. ~(e.cum > settled[o])
        BY <4>1
      <4> QED
        BY <2>5, <4>1, <4>2 DEF Record
    <3>3. CoverInv(o, p)'
      BY <2>1, <2>6, <3>1, <3>2
    <3>4. Len(answer') = 0
      BY <1>3, <2>5, <2>6, <3>1
    <3>5. Len(unseen[o]) = 0 /\ Len(log) = 0
      <4>1. Len(unseen[o]) \in Nat /\ Len(unseen[o]) <= 0
        BY <1>1, <3>1 DEF ExchangeType
      <4> QED
        BY <3>1, <4>1
    <3>6. FlowInv(o, p)'
      <4>1. exec'[o] = settled'[o] + Len(answer') + Len(log') + Len(unseen'[o])
        BY <1>5, <3>1, <3>2, <3>4, <3>5
      <4>2. Len(log') = 0
        BY <1>5, <3>5
      <4> QED
        BY <3>4, <4>1, <4>2 DEF FlowInv, Within
    <3> QED
      BY <2>3, <3>3, <3>6 DEF OrderInv
  <2> QED
    BY <2>2, <2>7, <2>8 DEF OrderInv
<1> QED
  BY <1>10, <1>11 DEF CheckInv, WatchInv

\* An event of the log; the watched order waits for no answer.
LEMMA UpdateChecked ==
  ASSUME LedgerInv, CheckInv, HandleUpdate
  PROVE  CheckInv'
<1>1. /\ ExchangeType /\ EngineType /\ OpenType /\ log \in Seq(Events)
      /\ log # <<>> /\ log' = Tail(log) /\ answer = <<>>
      /\ UNCHANGED <<st, exec, unseen, spent, answer, checked>>
  BY DEF LedgerInv, ExchangeType, HandleUpdate, Idle
<1>2. PICK e, a : e = Head(log) /\ a = Adjusted(e)
  OBVIOUS
<1>3. /\ e = log[1] /\ Len(log) \in Nat /\ Len(log) >= 1
      /\ Len(Tail(log)) = Len(log) - 1
      /\ \A i \in 1 .. Len(log) - 1 : Tail(log)[i] = log[i + 1]
      /\ \A i \in 1 .. Len(Tail(log)) :
           \E j \in 1 .. Len(log) : Tail(log)[i] = log[j]
  BY <1>1, <1>2, TailParts
<1>4. e \in Events /\ e.order \in Orders /\ e.cum \in 0..Qty
  BY <1>1, <1>2, HeadTail DEF Events
<1>5. st[e.order] # "none"
  <2>1. 1 \in 1 .. Len(log)
    BY <1>3
  <2> QED
    BY <1>3, <1>4, <2>1 DEF CheckInv, FreshInv
<1>6. ASSUME NEW o \in Orders, NEW p \in Nat, Watched(o, p)
      PROVE  OrderInv(o, p) /\ FlowInv(o, p) /\ Within(e, o, p, settled[o] + 1)
  <2>1. OrderInv(o, p)
    BY <1>6 DEF CheckInv, WatchInv
  <2>2. Len(answer) = 0
    BY <1>1
  <2>3. FlowInv(o, p)
    BY <2>1, <2>2 DEF OrderInv, VoidInv
  <2>4. settled[o] \in Nat /\ 1 \in 1 .. Len(log)
    BY <1>1, <1>3, SpotAssumption DEF EngineType
  <2>5. settled[o] + Len(answer) + 1 = settled[o] + 1
    BY <2>2, <2>4
  <2>6. Within(log[1], o, p, settled[o] + Len(answer) + 1)
    BY <2>3, <2>4 DEF FlowInv
  <2> QED
    BY <1>3, <2>1, <2>3, <2>5, <2>6
<1>7. CASE e.cum <= settled[e.order]
  <2>1. UNCHANGED <<settled, w, open, lack, twice>>
    BY <1>2, <1>7 DEF HandleUpdate, walletVars
  <2>2. \A y \in Orders : st'[y] = "none" => \A i \in 1 .. Len(log') : log'[i].order # y
    BY <1>1, <1>3 DEF CheckInv, FreshInv
  <2>3. /\ LackType' /\ KeptType' /\ FreshInv' /\ BookedInv'
        /\ \A o \in Orders, p \in Nat : Watched(o, p)' => Watched(o, p)
    BY <1>1, <2>1, <2>2, EngineRests
  <2>4. ASSUME NEW o \in Orders, NEW p \in Nat, Watched(o, p)'
        PROVE  FALSE
    <3>1. e.order = o /\ e.cum = settled[o] + 1
      BY <1>6, <2>3, <2>4 DEF Within
    <3>2. settled[o] \in Nat
      BY <1>1, SpotAssumption DEF EngineType
    <3> QED
      BY <1>7, <3>1, <3>2
  <2> QED
    BY <2>3, <2>4 DEF CheckInv, WatchInv
<1>8. CASE ~(e.cum <= settled[e.order])
  <2>1. /\ Book(a, e.cum)
        /\ IF OnOrder(a).ok \/ a # e THEN Record(e.order, e.cum)
                                     ELSE settled' = settled
    BY <1>2, <1>8 DEF HandleUpdate
  <2>2. a \in Events
    BY <1>1, <1>2, <1>4, <1>8, AdjustedType
  <2>3. /\ a.order = e.order /\ a.rem = e.rem /\ a.price = e.price
        /\ a.lockPrice = e.lockPrice
    BY <1>2, <1>4 DEF Adjusted, Events
  <2>4. \A x \in Orders : x # a.order => settled'[x] = settled[x]
    BY <1>1, <2>1, <2>3 DEF Record, EngineType
  <2>5. ASSUME NEW o \in Orders, NEW p \in Nat, Watched(o, p), o \notin twice'
        PROVE  Due(a, o, p) /\ Delta(a) = 1
    <3>1. PICK s \in Nat : s = settled[o] /\ s <= Qty
      BY <1>1, SpotAssumption DEF EngineType
    <3>2. /\ e.order = o /\ e.cum = s + 1 /\ e.rem = Qty - (s + 1)
          /\ o \in Buys => e.price <= p /\ e.lockPrice <= p
      BY <1>6, <2>5, <3>1 DEF Within
    <3>3. Delta(a) = AtLeast0(e.cum - s)
      BY <1>1, <2>1, <2>2, <2>3, <2>5, <3>1, <3>2, BookFrame DEF CheckInv
    <3>4. Delta(a) = 1
      BY <3>1, <3>2, <3>3 DEF AtLeast0
    <3>5. a.rem + s + 1 <= Qty
      BY <2>3, <3>1, <3>2, SpotAssumption
    <3> QED
      BY <2>3, <3>1, <3>2, <3>4, <3>5 DEF Due
  <2>6. /\ LackType' /\ KeptType' /\ FreshInv' /\ BookedInv'
        /\ \A o \in Orders, p \in Nat : Watched(o, p)' =>
             /\ Watched(o, p) /\ o \notin twice' /\ OnOrder(a).ok
             /\ settled'[o] = settled[o] + Delta(a) => CoverInv(o, p)'
    <3>1. /\ \A i \in 1 .. Len(log') : \E j \in 1 .. Len(log) : log'[i] = log[j]
          /\ \A i \in 1 .. Len(answer') :
               \E j \in 1 .. Len(answer) : answer'[i] = answer[j]
      BY <1>1, <1>3
    <3> QED
      BY <1>1, <1>5, <2>1, <2>2, <2>3, <2>4, <2>5, <3>1, BookChecked
  <2>7. ASSUME NEW o \in Orders, NEW p \in Nat, Watched(o, p)'
        PROVE  OrderInv(o, p)'
    <3>1. /\ Watched(o, p) /\ o \notin twice' /\ OnOrder(a).ok
          /\ settled'[o] = settled[o] + Delta(a) => CoverInv(o, p)'
      BY <2>6, <2>7
    <3>2. OrderInv(o, p) /\ FlowInv(o, p) /\ Within(e, o, p, settled[o] + 1)
      BY <1>6, <3>1
    <3>3. AloneInv(o)' /\ PriceInv(o, p)'
      BY <1>1, <3>2, ExchangeRests
    <3>4. PICK s \in Nat : s = settled[o]
      BY <1>1, SpotAssumption DEF EngineType
    <3>5. e.order = o /\ e.cum = s + 1 /\ Delta(a) = 1
      BY <2>5, <3>1, <3>2, <3>4 DEF Within
    <3>6. settled'[o] = s + 1
      BY <1>1, <2>1, <3>1, <3>4, <3>5 DEF Record, EngineType
    <3>7. CoverInv(o, p)'
      BY <3>1, <3>4, <3>5, <3>6
    <3>8. PICK m \in Nat, k \in Nat : m = Len(log) /\ k = Len(unseen[o]) /\ m >= 1
      <4>1. Len(unseen[o]) \in Nat
        BY <1>1 DEF ExchangeType
      <4> QED
        BY <1>3, <4>1
    <3>9. Len(log') = m - 1 /\ Len(answer) = 0 /\ Len(answer') = 0
      BY <1>1, <1>3, <3>8
    <3>10. \A i \in 1 .. Len(log') :
             Within(log'[i], o, p, settled'[o] + Len(answer') + i)
      <4> SUFFICES ASSUME NEW i \in 1 .. m - 1
                   PROVE  Within(log'[i], o, p, (s + 1) + 0 + i)
        BY <3>6, <3>9
      <4>1. i + 1 \in 1 .. m /\ (s + 1) + 0 + i = s + 0 + (i + 1)
        BY <3>8
      <4>2. log'[i] = log[i + 1]
        BY <1>1, <1>3, <3>8
      <4>3. Within(log[i + 1], o, p, s + 0 + (i + 1))
        BY <3>2, <3>4, <3>8, <3>9, <4>1 DEF FlowInv
      <4> QED
        BY <4>1, <4>2, <4>3
    <3>11. exec'[o] = settled'[o] + Len(answer') + Len(log') + Len(unseen'[o])
      <4>1. exec[o] = s + 0 + m + k
        BY <3>2, <3>4, <3>8, <3>9 DEF FlowInv
      <4>2. s + 0 + m + k = (s + 1) + 0 + (m - 1) + k
        OBVIOUS
      <4> QED
        BY <1>1, <3>6, <3>8, <3>9, <4>1, <4>2
    <3>12. FlowInv(o, p)'
      BY <3>9, <3>10, <3>11 DEF FlowInv, Within
    <3> QED
      BY <3>3, <3>7, <3>12 DEF OrderInv
  <2> QED
    BY <2>6, <2>7 DEF CheckInv, WatchInv
<1> QED
  BY <1>7, <1>8

LEMMA CheckInit == Init => CheckInv
<1> SUFFICES ASSUME Init PROVE CheckInv
  OBVIOUS
<1>1. checked.kept = FALSE /\ KeptType
  BY DEF Init, Unchecked, KeptType
<1>2. LackType /\ FreshInv
  BY DEF Init, LackType, FreshInv
<1> QED
  BY <1>1, <1>2 DEF CheckInv, WatchInv, Watched, BookedInv

LEMMA CheckStep == LedgerInv /\ CheckInv /\ [Next]_vars => CheckInv'
<1> SUFFICES ASSUME LedgerInv, CheckInv, [Next]_vars PROVE CheckInv'
  OBVIOUS
<1>1. ASSUME NEW o \in Orders, Place(o) \/ Trade(o) \/ Cancel(o) \/ Report(o)
      PROVE  CheckInv'
  BY <1>1, PlaceChecked, TradeChecked, CancelChecked, ReportChecked
<1>2. CASE SettleAnswer
  BY <1>2, AnswerChecked
<1>3. CASE HandleUpdate
  BY <1>3, UpdateChecked
<1>4. CASE UNCHANGED vars
  BY <1>4 DEF vars, exchangeVars, engineVars, walletVars, historyVars, CheckInv,
       LackType, KeptType, FreshInv, WatchInv, BookedInv, Watched, OrderInv,
       AloneInv, PriceInv, CoverInv, QuoteCovers, BaseCovers, FlowInv, VoidInv,
       Within, FeesOf
<1> QED
  BY <1>1, <1>2, <1>3, <1>4 DEF Next

\* For any finite set of orders, with a limit or without, and any quantities,
\* prices and fees: an order that the balance guard let through, when the
\* wallet had every trade and no other order was live, lacks nothing but the
\* fees of a buy when its fills are booked, in whatever parts they come, if
\* no trade is dearer than the price of the check, none of its fills is booked
\* twice and no other order is placed meanwhile.
THEOREM CheckedAlwaysBooked == Spec => []CheckedIsBooked
<1>1. CheckInv => CheckedIsBooked
  BY DEF CheckInv, KeptType, BookedInv, CheckedIsBooked, FeesOf
<1> QED
  BY <1>1, LedgerInit, LedgerStep, CheckInit, CheckStep, PTL DEF Spec

-----------------------------------------------------------------------------
(* The invariant of the futures book *)

Positions == [qty : Int, basis : Int, carry : Int, wallet : Int, mark : Nat,
              initial : Nat, told : Nat, maint : Nat, liq : Fractions,
              in : BOOLEAN]

\* A position without quantity costs nothing and carries nothing, its basis
\* has the sign of its quantity, and an open one is marked.
SoundPosition(p) ==
  /\ p \in Positions
  /\ p.qty = 0 => p.basis = 0 /\ p.carry = 0
  /\ p.qty > 0 => p.basis >= 0
  /\ p.qty < 0 => p.basis <= 0
  /\ p.qty # 0 => p.mark # 0

SoundPositions(p) ==
  /\ p \in [Symbols -> Positions]
  /\ \A s \in Symbols : SoundPosition(p[s]) /\ (~p[s].in => p[s] = Flat)

Histories == [cash : [Symbols -> Int], held : [Symbols -> Int],
              paid : [Symbols -> Int], net : [Symbols -> Int]]

AccountType ==
  /\ account \in [isolated : BOOLEAN, initial : Nat,
                   mode : [Symbols -> BOOLEAN]]
  /\ origin \in [balance : Int, wallet : [Symbols -> Int]]
  /\ zeroed \in BOOLEAN

BookType ==
  /\ AccountType
  /\ balance \in Int
  /\ SoundPositions(pos)
  /\ cash \in [Symbols -> Int] /\ held \in [Symbols -> Int]
  /\ paid \in [Symbols -> Int] /\ net \in [Symbols -> Int]
  /\ last \in [Symbols -> Nat]

Entries == [in : BOOLEAN, exec : Nat, rem : Nat, price : Nat]

\* An order is open in the book while it is live and partly filled.
EntriesSound ==
  /\ entries \in [FuturesOrders -> Entries]
  /\ stage \in [FuturesOrders -> {"none", "live", "ended"}]
  /\ \A o \in FuturesOrders :
       IF entries[o].in
         THEN /\ stage[o] = "live"
              /\ entries[o].exec + entries[o].rem = Size[o]
              /\ pos[SymbolOf[o]].in
         ELSE entries[o] = NoEntry

\* The order that was placed alone and waits for its fill: the guard holds in
\* this very state, and no order is open.
Waiting ==
  \E o \in FuturesOrders, p \in Nat \ {0} :
    /\ lone = [order |-> o, price |-> p, filled |-> FALSE,
               low |-> Min({0, Headroom})]
    /\ MarginGuard(o, p)
    /\ OpenOrders = {}

LoneSound == lone = None \/ Waiting \/ (lone.filled /\ Headroom >= lone.low)

\* What is said of the book that a session runs, said of positions p and
\* balance b with history h: the quantities are the ones filled, and unless a
\* zero was read as missing the money is accounted for.
EarnedOf(p, h, s) == h.cash[s] + p[s].basis - h.paid[s]

Accounted(p, b, h) ==
  /\ b = origin.balance + Sum([s \in Symbols |-> EarnedOf(p, h, s)], Symbols)
  /\ \A s \in Symbols : account.mode[s] =>
       p[s].wallet = origin.wallet[s] + EarnedOf(p, h, s)
  /\ \A s \in Symbols : p[s].carry = -h.net[s]

SoundBook(p, b, h) ==
  /\ SoundPositions(p) /\ b \in Int /\ h \in Histories
  /\ \A s \in Symbols : p[s].qty = h.held[s]
  /\ ~zeroed => Accounted(p, b, h)

\* A wallet state tells of positions p and balance b: what from_canonical reads
\* of what _serialize_future_wallet wrote.
Tells(r, p) ==
  /\ r.qty = p.qty /\ r.entry = Abs(p.basis)
  /\ r.even = (IF p.qty = 0 THEN 0 ELSE BreakEven(p))
  /\ r.wallet = p.wallet /\ r.mark = p.mark /\ r.initial = p.initial
  /\ r.margin \in Nat /\ r.orders \in Nat /\ r.maint \in Nat
  /\ r.liq \in Fractions

StateOf(state, p, b) ==
  /\ DOMAIN state.positions = {s \in Symbols : p[s].in}
  /\ \A s \in Symbols : p[s].in => Tells(state.positions[s], p[s])
  /\ state.totals.wallet = b

\* The wallet of the start is kept as the state of a sound book.
RestoreSound ==
  \E p, b : SoundBook(p, b, began) /\ StateOf(ReadWallet(restore), p, b)

BookInv ==
  /\ BookType /\ EntriesSound /\ BooksBalance /\ BreakEvenRecovers
  /\ RestoreSound /\ LoneSound

\* The lesser of two numbers.
LEMMA MinOfTwo ==
  ASSUME NEW a \in Int, NEW b \in Int
  PROVE  Min({a, b}) = IF a <= b THEN a ELSE b
<1>1. PICK m : m = IF a <= b THEN a ELSE b
  OBVIOUS
<1>2. m \in {a, b} /\ \A y \in {a, b} : m <= y
  BY <1>1
<1>3. \A x \in {a, b} : (\A y \in {a, b} : x <= y) => x = m
  BY <1>1
<1>4. Min({a, b}) = m
  BY <1>2, <1>3 DEF Min
<1> QED
  BY <1>1, <1>4

-----------------------------------------------------------------------------
(* A fill of a position *)

\* The profit that _apply_fill books, and the position after it.
ProfitOf(p, d, price) == IF Adds(p, d) THEN 0 ELSE Realized(p, d, price)

AfterFill(p, d, price, fee, mode) ==
  [Filled(p, d, price) EXCEPT
     !.carry  = Carry(p, d, ProfitOf(p, d, price), fee),
     !.mark   = MarkAfter(p, d, price),
     !.wallet = IF mode THEN @ + ProfitOf(p, d, price) - fee ELSE @]

LEMMA PositionFields ==
  ASSUME NEW p, SoundPosition(p)
  PROVE  /\ p.qty \in Int /\ p.basis \in Int /\ p.carry \in Int
         /\ p.wallet \in Int /\ p.mark \in Nat /\ p.told \in Nat
         /\ p.initial \in Nat /\ p.maint \in Nat /\ p.liq \in Fractions
         /\ p.in \in BOOLEAN
         /\ p.qty = 0 => p.basis = 0 /\ p.carry = 0
         /\ p.qty > 0 => p.basis >= 0
         /\ p.qty < 0 => p.basis <= 0
         /\ p.qty # 0 => p.mark # 0
<1>1. p.in \in BOOLEAN
  BY DEF SoundPosition, Positions
<1> QED
  BY <1>1 DEF SoundPosition, Positions

LEMMA Signs ==
  ASSUME NEW n \in Int
  PROVE  /\ Abs(n) \in Nat /\ (Abs(n) = 0 <=> n = 0)
         /\ n > 0 => Abs(n) = n /\ SignOf(n) = 1
         /\ n < 0 => Abs(n) = -n /\ SignOf(n) = -1
         /\ n = 0 => Abs(n) = 0 /\ SignOf(n) = 0
         /\ Abs(n) >= n /\ Abs(n) >= -n
BY DEF Abs, SignOf

\* What a fill does to quantity and basis.  The profit is what the basis has
\* grown less what the fill has cost: this is why fills in any order balance.
LEMMA FillBasis ==
  ASSUME NEW p, SoundPosition(p), NEW d \in Int \ {0}, NEW price \in Quotes
  PROVE  \E b \in Int :
           /\ Filled(p, d, price) = [p EXCEPT !.qty = p.qty + d, !.basis = b]
           /\ ProfitOf(p, d, price) = b - p.basis - d * price
           /\ p.qty + d = 0 => b = 0
           /\ p.qty + d > 0 => b >= 0
           /\ p.qty + d < 0 => b <= 0
<1>1. price \in Nat /\ price > 0
  BY FuturesAssumption
<1>2. PICK q \in Int, c \in Int : q = p.qty /\ c = p.basis
  BY PositionFields
<1>3. /\ q = 0 => c = 0
      /\ q > 0 => c >= 0
      /\ q < 0 => c <= 0
  BY <1>2, PositionFields
<1>4. PICK v \in Int : v = d * price /\ (d > 0 => v >= 0) /\ (d < 0 => v <= 0)
  BY <1>1
<1>5. CASE Adds(p, d)
  <2>1. q = 0 \/ (q > 0 /\ d > 0) \/ (q < 0 /\ d < 0)
    BY <1>2, <1>5, Signs DEF Adds
  <2>2. Filled(p, d, price) = [p EXCEPT !.qty = q + d, !.basis = c + v]
    BY <1>2, <1>4, <1>5 DEF Filled
  <2>3. ProfitOf(p, d, price) = 0
    BY <1>5 DEF ProfitOf
  <2>4. /\ c + v \in Int
        /\ 0 = (c + v) - c - v
        /\ q + d = 0 => c + v = 0
        /\ q + d > 0 => c + v >= 0
        /\ q + d < 0 => c + v <= 0
    <3>1. d \in Int /\ d # 0
      OBVIOUS
    <3>2. CASE q = 0
      BY <1>3, <1>4, <3>1, <3>2
    <3>3. CASE q > 0 /\ d > 0
      BY <1>3, <1>4, <3>1, <3>3
    <3>4. CASE q < 0 /\ d < 0
      BY <1>3, <1>4, <3>1, <3>4
    <3> QED
      BY <2>1, <3>2, <3>3, <3>4
  <2> QED
    BY <1>2, <1>4, <2>2, <2>3, <2>4
<1>6. CASE ~Adds(p, d)
  <2>1. (q > 0 /\ d < 0) \/ (q < 0 /\ d > 0)
    BY <1>2, <1>6, Signs DEF Adds
  <2>2. /\ Abs(q) \in Nat \ {0} /\ Abs(d) \in Nat \ {0}
        /\ Min({Abs(q), Abs(d)}) = IF Abs(q) <= Abs(d) THEN Abs(q) ELSE Abs(d)
    BY <2>1, Signs, MinOfTwo
  <2>3. PICK m \in 0..Abs(q) : m = Min({Abs(q), Abs(d)})
    BY <2>2
  <2>4. PICK x \in Int :
          /\ x = (c * m) \div Abs(q)
          /\ c >= 0 => 0 <= x /\ x <= c
          /\ c <= 0 => c <= x /\ x <= 0
          /\ m = Abs(q) => x = c
    BY <2>2, <2>3, Share
  <2>5. ProfitOf(p, d, price) = SignOf(q) * m * price - x
    BY <1>2, <1>6, <2>3, <2>4 DEF ProfitOf, Realized
  <2>6. CASE Abs(d) <= Abs(q)
    <3>1. m = Abs(d)
      BY <2>2, <2>3, <2>6
    <3>2. Filled(p, d, price) = [p EXCEPT !.qty = q + d, !.basis = c - x]
      BY <1>2, <1>6, <2>4, <2>6, <3>1 DEF Filled
    <3>3. SignOf(q) * m = -d
      BY <2>1, <3>1, Signs
    <3>4. SignOf(q) * m * price = -v
      BY <1>1, <1>4, <3>3
    <3>5. /\ q > 0 => q + d >= 0
          /\ q < 0 => q + d <= 0
          /\ q + d = 0 => m = Abs(q)
      BY <2>1, <2>6, <3>1, Signs
    <3>6. /\ c - x \in Int
          /\ -v - x = (c - x) - c - v
          /\ q + d = 0 => c - x = 0
          /\ q + d > 0 => c - x >= 0
          /\ q + d < 0 => c - x <= 0
      BY <1>3, <2>1, <2>4, <3>5
    <3> QED
      BY <1>2, <1>4, <2>5, <3>2, <3>4, <3>6
  <2>7. CASE ~(Abs(d) <= Abs(q))
    <3>1. m = Abs(q) /\ x = c
      BY <2>2, <2>3, <2>4, <2>7
    <3>2. Filled(p, d, price) = [p EXCEPT !.qty = q + d,
                                          !.basis = (q + d) * price]
      BY <1>2, <1>6, <2>7 DEF Filled
    <3>3. SignOf(q) * m = q
      BY <2>1, <3>1, Signs
    <3>4. PICK u \in Int : u = q * price
      BY <1>1
    <3>5. (q + d) * price = u + v /\ SignOf(q) * m * price = u
      BY <1>1, <1>4, <3>3, <3>4
    <3>6. /\ q > 0 => q + d < 0
          /\ q < 0 => q + d > 0
      BY <2>1, <2>7, Signs
    <3>7. /\ q + d < 0 => (q + d) * price <= 0
          /\ q + d > 0 => (q + d) * price >= 0
      BY <1>1
    <3>8. /\ u + v \in Int
          /\ u - c = (u + v) - c - v
          /\ q + d = 0 => u + v = 0
          /\ q + d > 0 => u + v >= 0
          /\ q + d < 0 => u + v <= 0
      BY <2>1, <3>5, <3>6, <3>7
    <3> QED
      BY <1>2, <1>4, <2>5, <3>1, <3>2, <3>5, <3>8
  <2> QED
    BY <2>6, <2>7
<1> QED
  BY <1>5, <1>6

\* The position after a fill.
LEMMA FilledOutcome ==
  ASSUME NEW p, SoundPosition(p), NEW d \in Int \ {0}, NEW price \in Quotes,
         NEW fee \in Fees, NEW mode \in BOOLEAN,
         NEW r, r = AfterFill(p, d, price, fee, mode)
  PROVE  /\ SoundPosition(r)
         /\ ProfitOf(p, d, price) \in Int
         /\ ProfitOf(p, d, price) = r.basis - p.basis - d * price
         /\ r.qty = p.qty + d /\ r.in = p.in /\ r.told = p.told
         /\ r.mark = MarkAfter(p, d, price)
         /\ r.carry = Carry(p, d, ProfitOf(p, d, price), fee)
         /\ r.wallet = p.wallet +
              (IF mode THEN ProfitOf(p, d, price) - fee ELSE 0)
<1>1. price \in Nat /\ price > 0 /\ fee \in Nat
  BY FuturesAssumption
<1>2. /\ p.qty \in Int /\ p.basis \in Int /\ p.carry \in Int
      /\ p.wallet \in Int /\ p.mark \in Nat /\ p.told \in Nat
      /\ p.in \in BOOLEAN
      /\ p.qty = 0 => p.carry = 0
  BY PositionFields
<1>3. PICK b \in Int :
        /\ Filled(p, d, price) = [p EXCEPT !.qty = p.qty + d, !.basis = b]
        /\ ProfitOf(p, d, price) = b - p.basis - d * price
        /\ p.qty + d = 0 => b = 0
        /\ p.qty + d > 0 => b >= 0
        /\ p.qty + d < 0 => b <= 0
  BY FillBasis
<1>4. PICK profit \in Int : profit = ProfitOf(p, d, price)
  <2>1. d * price \in Int
    BY <1>1
  <2> QED
    BY <1>2, <1>3, <2>1
<1>5. PICK carry : carry = Carry(p, d, profit, fee)
  OBVIOUS
<1>6. carry \in Int /\ (p.qty + d = 0 => carry = 0)
  <2>1. Abs(d) \in Nat \ {0} /\ Abs(p.qty) \in Nat
    BY <1>2, Signs
  <2>2. CASE Adds(p, d)
    <3>1. carry = p.carry + fee
      BY <1>5, <2>2 DEF Carry
    <3>2. p.qty + d # 0
      BY <1>2, <2>2, Signs DEF Adds
    <3> QED
      BY <1>1, <1>2, <3>1, <3>2
  <2>3. CASE ~Adds(p, d) /\ Abs(d) <= Abs(p.qty)
    <3>1. carry = IF Abs(d) = Abs(p.qty) THEN 0 ELSE p.carry - profit + fee
      BY <1>5, <2>1, <2>3 DEF Carry
    <3>2. p.qty + d = 0 => Abs(d) = Abs(p.qty)
      BY <1>2, Signs
    <3> QED
      BY <1>1, <1>2, <1>4, <3>1, <3>2
  <2>4. CASE ~Adds(p, d) /\ ~(Abs(d) <= Abs(p.qty))
    <3>1. carry = (fee * (Abs(d) - Abs(p.qty))) \div Abs(d)
      BY <1>5, <2>1, <2>4 DEF Carry
    <3>2. Abs(d) - Abs(p.qty) \in 0..Abs(d)
      BY <2>1, <2>4
    <3>3. carry \in Int
      BY <1>1, <2>1, <3>1, <3>2, Share
    <3>4. p.qty + d = 0 => Abs(d) = Abs(p.qty)
      BY <1>2, Signs
    <3> QED
      BY <2>1, <2>4, <3>3, <3>4
  <2> QED
    BY <2>2, <2>3, <2>4
<1>7. PICK mark : mark = MarkAfter(p, d, price)
  OBVIOUS
<1>8. mark \in Nat /\ (p.qty + d # 0 => mark # 0)
  BY <1>1, <1>2, <1>7 DEF MarkAfter
<1>9. PICK wallet \in Int :
        wallet = IF mode THEN p.wallet + profit - fee ELSE p.wallet
  BY <1>1, <1>2, <1>4
<1>10. r = [p EXCEPT !.qty = p.qty + d, !.basis = b, !.carry = carry,
                     !.mark = mark, !.wallet = wallet]
  <2>1. p \in Positions
    BY DEF SoundPosition
  <2>2. Filled(p, d, price).wallet = p.wallet
    BY <1>3, <2>1 DEF Positions
  <2>3. r = [[p EXCEPT !.qty = p.qty + d, !.basis = b] EXCEPT
               !.carry = carry, !.mark = mark, !.wallet = wallet]
    BY <1>3, <1>4, <1>5, <1>7, <1>9, <2>2 DEF AfterFill
  <2> QED
    BY <2>1, <2>3 DEF Positions
<1>11. p \in Positions
  BY DEF SoundPosition
<1>12. /\ r.qty = p.qty + d /\ r.basis = b /\ r.carry = carry /\ r.mark = mark
       /\ r.wallet = wallet /\ r.in = p.in /\ r.told = p.told
  BY <1>10, <1>11 DEF Positions
<1>13. r \in Positions
  <2>1. p.qty + d \in Int
    BY <1>2
  <2> QED
    BY <1>6, <1>8, <1>10, <1>11, <2>1 DEF Positions
<1>14. SoundPosition(r)
  BY <1>3, <1>6, <1>8, <1>12, <1>13 DEF SoundPosition
<1>15. r.wallet = p.wallet + (IF mode THEN profit - fee ELSE 0)
  BY <1>1, <1>2, <1>4, <1>9, <1>12
<1> QED
  BY <1>3, <1>4, <1>5, <1>7, <1>12, <1>14, <1>15

\* The position that a fill is booked on.
LEMMA Ensured ==
  ASSUME NEW s \in Symbols, BookType
  PROVE  /\ SoundPosition(EnsurePosition(s)) /\ EnsurePosition(s).in
         /\ EnsurePosition(s).qty = pos[s].qty
         /\ EnsurePosition(s).basis = pos[s].basis
         /\ EnsurePosition(s).carry = pos[s].carry
         /\ EnsurePosition(s).wallet = pos[s].wallet
         /\ EnsurePosition(s).mark = pos[s].mark
         /\ EnsurePosition(s).told = pos[s].told
<1>1. PICK p, e : p = pos[s] /\ e = EnsurePosition(s)
  OBVIOUS
<1>2. e = [p EXCEPT !.in = TRUE] /\ SoundPosition(p)
  BY <1>1 DEF EnsurePosition, BookType, SoundPositions
<1>3. p \in Positions
  BY <1>2 DEF SoundPosition
<1>4. /\ e \in Positions /\ e.in /\ e.qty = p.qty /\ e.basis = p.basis
      /\ e.carry = p.carry /\ e.wallet = p.wallet /\ e.mark = p.mark
      /\ e.told = p.told
  BY <1>2, <1>3 DEF Positions
<1>5. SoundPosition(e)
  BY <1>2, <1>4 DEF SoundPosition
<1> QED
  BY <1>1, <1>4, <1>5

\* The fill of a symbol, with the names used here.
LEMMA FillStep ==
  ASSUME NEW s \in Symbols, NEW d, NEW price, NEW fee, BookType,
         ApplyFill(s, d, price, fee), NEW p, p = EnsurePosition(s)
  PROVE  /\ pos' = [pos EXCEPT ![s] = AfterFill(p, d, price, fee, account.mode[s])]
         /\ balance' = balance + ProfitOf(p, d, price) - fee
         /\ cash' = [cash EXCEPT ![s] = @ - d * price]
         /\ held' = [held EXCEPT ![s] = @ + d]
         /\ paid' = [paid EXCEPT ![s] = @ + fee]
         /\ net' = [net EXCEPT ![s] =
              IF p.qty + d = 0 THEN 0
              ELSE IF ~Adds(p, d) /\ Abs(d) > Abs(p.qty)
                THEN -((fee * (Abs(d) - Abs(p.qty))) \div Abs(d))
              ELSE @ + ProfitOf(p, d, price) - fee]
BY DEF ApplyFill, AfterFill, ProfitOf

\* A fill changes one position; the types remain.
LEMMA FillKeepsType ==
  ASSUME NEW s \in Symbols, NEW d \in Int \ {0}, NEW price \in Quotes,
         NEW fee \in Fees, BookType, ApplyFill(s, d, price, fee),
         UNCHANGED <<account, origin, last, zeroed>>
  PROVE  /\ BookType'
         /\ \A x \in Symbols : /\ x # s => pos'[x] = pos[x]
                               /\ pos'[x].told = pos[x].told
                               /\ pos[x].in => pos'[x].in
         /\ pos'[s] = AfterFill(EnsurePosition(s), d, price, fee,
                                     account.mode[s]) /\ pos'[s].in
         /\ ProfitOf(EnsurePosition(s), d, price) \in Int
         /\ balance' = balance + ProfitOf(EnsurePosition(s), d, price) - fee
         /\ fee \in Nat
<1>1. PICK p, r : p = EnsurePosition(s) /\ r = AfterFill(p, d, price, fee, account.mode[s])
  OBVIOUS
<1>2. SoundPosition(p) /\ p.in /\ p.qty = pos[s].qty /\ p.told = pos[s].told
  BY <1>1, Ensured
<1>3. price \in Nat /\ fee \in Nat /\ account.mode[s] \in BOOLEAN
  BY FuturesAssumption DEF BookType, AccountType
<1>4. /\ SoundPosition(r) /\ ProfitOf(p, d, price) \in Int
      /\ r.in = p.in /\ r.told = p.told
  BY <1>1, <1>2, <1>3, FilledOutcome
<1>5. /\ pos' = [pos EXCEPT ![s] = r]
      /\ balance' = balance + ProfitOf(p, d, price) - fee
      /\ cash' = [cash EXCEPT ![s] = @ - d * price]
      /\ held' = [held EXCEPT ![s] = @ + d]
      /\ paid' = [paid EXCEPT ![s] = @ + fee]
  BY <1>1, FillStep
<1>6. pos'[s] = r /\ \A x \in Symbols : x # s => pos'[x] = pos[x]
  BY <1>5 DEF BookType, SoundPositions
<1>7. balance' \in Int
  BY <1>3, <1>4, <1>5 DEF BookType
<1>8. /\ cash' \in [Symbols -> Int] /\ held' \in [Symbols -> Int]
      /\ paid' \in [Symbols -> Int]
  <2>1. d * price \in Int
    BY <1>3
  <2> QED
    BY <1>3, <1>5, <2>1 DEF BookType
<1>9. net' \in [Symbols -> Int]
  <2>1. PICK v : net' = [net EXCEPT ![s] = v] /\
          v = IF p.qty + d = 0 THEN 0
              ELSE IF ~Adds(p, d) /\ Abs(d) > Abs(p.qty)
                THEN -((fee * (Abs(d) - Abs(p.qty))) \div Abs(d))
              ELSE net[s] + ProfitOf(p, d, price) - fee
    BY <1>1, FillStep DEF BookType
  <2>2. p.qty \in Int
    BY <1>2, PositionFields
  <2>3. Abs(d) \in Nat \ {0} /\ Abs(p.qty) \in Nat
    BY <2>2, Signs
  <2>4. fee * (Abs(d) - Abs(p.qty)) \in Int
    BY <1>3, <2>3
  <2>5. (fee * (Abs(d) - Abs(p.qty))) \div Abs(d) \in Int
    BY <2>3, <2>4, Division
  <2>6. net[s] + ProfitOf(p, d, price) - fee \in Int
    BY <1>3, <1>4 DEF BookType
  <2>7. v \in Int
    BY <2>1, <2>5, <2>6
  <2> QED
    BY <2>1, <2>7 DEF BookType
<1>10. r \in Positions /\ r.in
  BY <1>2, <1>4 DEF SoundPosition
<1>11. pos' \in [Symbols -> Positions]
  BY <1>5, <1>10 DEF BookType, SoundPositions
<1>12. \A x \in Symbols : SoundPosition(pos'[x]) /\ (~pos'[x].in => pos'[x] = Flat)
  BY <1>4, <1>6, <1>10 DEF BookType, SoundPositions
<1>13. AccountType' /\ last' \in [Symbols -> Nat]
  BY DEF BookType, AccountType
<1>14. BookType'
  BY <1>7, <1>8, <1>9, <1>11, <1>12, <1>13 DEF BookType, SoundPositions
<1> QED
  BY <1>1, <1>2, <1>3, <1>4, <1>5, <1>6, <1>10, <1>14

\* Whatever the fill, positions and balance still account for every fill.
LEMMA FillKeepsBalance ==
  ASSUME NEW s \in Symbols, NEW d \in Int \ {0}, NEW price \in Quotes,
         NEW fee \in Fees, BookType, ApplyFill(s, d, price, fee),
         UNCHANGED <<account, origin, last, zeroed>>, BooksBalance
  PROVE  BooksBalance'
<1>1. PICK p, r : p = EnsurePosition(s) /\ r = AfterFill(p, d, price, fee, account.mode[s])
  OBVIOUS
<1>2. /\ SoundPosition(p) /\ p.qty = pos[s].qty /\ p.basis = pos[s].basis
      /\ p.wallet = pos[s].wallet
  BY <1>1, Ensured
<1>3. price \in Nat /\ fee \in Nat /\ account.mode[s] \in BOOLEAN
  BY FuturesAssumption DEF BookType, AccountType
<1>4. PICK profit \in Int :
        /\ profit = ProfitOf(p, d, price) /\ SoundPosition(r)
        /\ profit = r.basis - p.basis - d * price
        /\ r.qty = p.qty + d
        /\ r.wallet = p.wallet + (IF account.mode[s] THEN profit - fee ELSE 0)
  BY <1>1, <1>2, <1>3, FilledOutcome
<1>5. /\ pos' = [pos EXCEPT ![s] = r]
      /\ balance' = balance + profit - fee
      /\ cash' = [cash EXCEPT ![s] = @ - d * price]
      /\ held' = [held EXCEPT ![s] = @ + d]
      /\ paid' = [paid EXCEPT ![s] = @ + fee]
  <2>1. /\ pos' = [pos EXCEPT ![s] = AfterFill(p, d, price, fee, account.mode[s])]
        /\ balance' = balance + ProfitOf(p, d, price) - fee
        /\ cash' = [cash EXCEPT ![s] = @ - d * price]
        /\ held' = [held EXCEPT ![s] = @ + d]
        /\ paid' = [paid EXCEPT ![s] = @ + fee]
    BY <1>1, FillStep
  <2> QED
    BY <1>1, <1>4, <2>1
<1>6. /\ pos'[s] = r /\ cash'[s] = cash[s] - d * price /\ held'[s] = held[s] + d
      /\ paid'[s] = paid[s] + fee
      /\ \A x \in Symbols \ {s} : /\ pos'[x] = pos[x] /\ cash'[x] = cash[x]
                                  /\ held'[x] = held[x] /\ paid'[x] = paid[x]
  BY <1>5 DEF BookType, SoundPositions
<1>7. \A x \in Symbols : pos'[x].qty = held'[x]
  BY <1>2, <1>4, <1>6 DEF BooksBalance
<1>8. /\ IsFiniteSet(Symbols) /\ balance \in Int /\ p.basis \in Int
      /\ r.basis \in Int /\ p.wallet \in Int /\ cash[s] \in Int /\ d * price \in Int
      /\ \A x \in Symbols : /\ cash[x] \in Int /\ pos[x].basis \in Int
                            /\ paid[x] \in Int
  <2>1. IsFiniteSet(Symbols)
    BY FuturesAssumption
  <2>2. /\ p.basis \in Int /\ r.basis \in Int /\ p.wallet \in Int
        /\ d * price \in Int
    BY <1>2, <1>3, <1>4, PositionFields
  <2>3. /\ balance \in Int /\ cash[s] \in Int
        /\ \A x \in Symbols : cash[x] \in Int /\ paid[x] \in Int
    BY DEF BookType
  <2>4. \A x \in Symbols : pos[x].basis \in Int
    BY PositionFields DEF BookType, SoundPositions
  <2> QED
    BY <2>1, <2>2, <2>3, <2>4
<1>9. \A x \in Symbols : Earned(x) \in Int
  BY <1>8 DEF Earned
<1>10. PICK f, k : /\ f = [x \in Symbols |-> Earned(x)]
                   /\ k = [x \in Symbols |-> Earned(x)']
  OBVIOUS
<1>11. /\ k[s] = cash[s] - d * price + r.basis - (paid[s] + fee)
       /\ f[s] = cash[s] + p.basis - paid[s]
  BY <1>2, <1>6, <1>10 DEF Earned
<1>12. k[s] = f[s] + profit - fee /\ k[s] \in Int
  BY <1>3, <1>4, <1>8, <1>11
<1>13. \A x \in Symbols \ {s} : k[x] = f[x]
  BY <1>6, <1>10 DEF Earned
<1>14. origin.balance \in Int /\ \A x \in Symbols : origin.wallet[x] \in Int
  BY DEF BookType, AccountType
<1>15. ASSUME ~zeroed
       PROVE  balance' = origin.balance + Sum(k, Symbols)
  <2>1. \A x \in Symbols : f[x] \in Int
    BY <1>9, <1>10
  <2>2. /\ Sum(f, Symbols) \in Int
        /\ Sum(k, Symbols) = Sum(f, Symbols) + k[s] - f[s]
    BY <1>8, <1>12, <1>13, <2>1, SumUpdate
  <2>3. balance = origin.balance + Sum(f, Symbols)
    BY <1>10, <1>15 DEF BooksBalance
  <2> QED
    BY <1>3, <1>5, <1>12, <1>14, <2>1, <2>2, <2>3
<1>16. ASSUME ~zeroed, NEW x \in Symbols, account.mode[x]
       PROVE  pos'[x].wallet = origin.wallet[x] + k[x]
  <2>1. pos[x].wallet = origin.wallet[x] + f[x]
    BY <1>10, <1>16 DEF BooksBalance
  <2>2. CASE x = s
    <3>1. r.wallet = p.wallet + (profit - fee)
      BY <1>4, <1>16, <2>2
    <3>2. f[s] \in Int
      BY <1>9, <1>10
    <3> QED
      BY <1>2, <1>3, <1>4, <1>6, <1>8, <1>12, <1>14, <2>1, <2>2, <3>1, <3>2
  <2>3. CASE x # s
    BY <1>6, <1>13, <2>1, <2>3
  <2> QED
    BY <2>2, <2>3
<1>17. ASSUME ~zeroed
       PROVE  /\ balance' = origin'.balance
                              + Sum([x \in Symbols |-> Earned(x)'], Symbols)
              /\ \A x \in Symbols : account'.mode[x] =>
                   pos'[x].wallet = origin'.wallet[x] + Earned(x)'
  BY <1>10, <1>15, <1>16, <1>17
<1> QED
  BY <1>7, <1>17 DEF BooksBalance

\* The carried cost still is the fees less the profit since the position was
\* opened.
LEMMA FillKeepsCarry ==
  ASSUME NEW s \in Symbols, NEW d \in Int \ {0}, NEW price \in Quotes,
         NEW fee \in Fees, BookType, ApplyFill(s, d, price, fee),
         UNCHANGED <<account, origin, last, zeroed>>, BreakEvenRecovers
  PROVE  BreakEvenRecovers'
<1> SUFFICES ASSUME ~zeroed PROVE \A x \in Symbols : pos'[x].carry = -net'[x]
  BY DEF BreakEvenRecovers
<1>1. PICK p, r : p = EnsurePosition(s) /\ r = AfterFill(p, d, price, fee, account.mode[s])
  OBVIOUS
<1>2. SoundPosition(p) /\ p.qty = pos[s].qty /\ p.carry = pos[s].carry
  BY <1>1, Ensured
<1>3. price \in Nat /\ fee \in Nat /\ account.mode[s] \in BOOLEAN
  BY FuturesAssumption DEF BookType, AccountType
<1>4. PICK profit \in Int :
        /\ profit = ProfitOf(p, d, price) /\ SoundPosition(r)
        /\ r.qty = p.qty + d /\ r.carry = Carry(p, d, profit, fee)
  BY <1>1, <1>2, <1>3, FilledOutcome
<1>5. pos' = [pos EXCEPT ![s] = r]
  BY <1>1, FillStep
<1>6. PICK v : net' = [net EXCEPT ![s] = v] /\
        v = IF p.qty + d = 0 THEN 0
            ELSE IF ~Adds(p, d) /\ Abs(d) > Abs(p.qty)
              THEN -((fee * (Abs(d) - Abs(p.qty))) \div Abs(d))
            ELSE net[s] + profit - fee
  BY <1>1, <1>4, FillStep DEF BookType
<1>7. /\ pos'[s] = r /\ net'[s] = v
      /\ \A x \in Symbols : x # s => pos'[x] = pos[x] /\ net'[x] = net[x]
  BY <1>5, <1>6 DEF BookType, SoundPositions
<1>8. /\ \A x \in Symbols : pos[x].carry = -net[x]
      /\ net[s] \in Int /\ p.carry \in Int /\ p.qty \in Int
  BY <1>2, PositionFields DEF BreakEvenRecovers, BookType
<1>9. r.carry = -v
  <2>1. Abs(d) \in Nat \ {0} /\ Abs(p.qty) \in Nat
    BY <1>8, Signs
  <2>2. CASE p.qty + d = 0
    BY <1>4, <1>6, <2>2, PositionFields
  <2>3. CASE p.qty + d # 0 /\ ~Adds(p, d) /\ Abs(d) > Abs(p.qty)
    <3>1. r.carry = (fee * (Abs(d) - Abs(p.qty))) \div Abs(d)
      BY <1>4, <2>1, <2>3 DEF Carry
    <3>2. fee * (Abs(d) - Abs(p.qty)) \in Int
      BY <1>3, <2>1
    <3>3. PICK z \in Int : z = (fee * (Abs(d) - Abs(p.qty))) \div Abs(d)
      BY <2>1, <3>2, Division
    <3>4. v = -z
      BY <1>6, <2>3, <3>3
    <3> QED
      BY <3>1, <3>3, <3>4
  <2>4. CASE p.qty + d # 0 /\ (Adds(p, d) \/ ~(Abs(d) > Abs(p.qty)))
    <3>1. v = net[s] + profit - fee
      BY <1>6, <2>4
    <3>2. r.carry = p.carry - profit + fee
      <4>1. CASE Adds(p, d)
        <5>1. profit = 0
          BY <1>4, <4>1 DEF ProfitOf
        <5>2. r.carry = p.carry + fee
          BY <1>4, <4>1 DEF Carry
        <5> QED
          BY <1>3, <1>8, <5>1, <5>2
      <4>2. CASE ~Adds(p, d)
        <5>1. Abs(d) # Abs(p.qty)
          BY <1>8, <2>4, <4>2, Signs DEF Adds
        <5>2. Abs(d) < Abs(p.qty)
          BY <2>1, <2>4, <4>2, <5>1
        <5> QED
          BY <1>4, <4>2, <5>1, <5>2 DEF Carry
      <4> QED
        BY <4>1, <4>2
    <3>3. p.carry = -net[s]
      BY <1>2, <1>8
    <3> QED
      BY <1>3, <1>8, <3>1, <3>2, <3>3
  <2> QED
    BY <2>2, <2>3, <2>4
<1> QED
  BY <1>7, <1>8, <1>9

-----------------------------------------------------------------------------
(* Derived fields *)

LEMMA PnlType ==
  ASSUME BookType, NEW s \in Symbols
  PROVE  UnrealizedPnl(s) \in Int
<1>1. PICK p : p = pos[s] /\ SoundPosition(p)
  BY DEF BookType, SoundPositions
<1>2. p.qty \in Int /\ p.mark \in Int /\ p.basis \in Int
  BY <1>1, PositionFields
<1>3. p.qty * p.mark - p.basis \in Int
  BY <1>2
<1> QED
  BY <1>1, <1>3 DEF UnrealizedPnl

LEMMA PositionMarginType ==
  ASSUME BookType, NEW s \in Symbols
  PROVE  PositionMargin(s) \in Nat /\ Notional(s) \in Nat
<1>1. PICK p : p = pos[s] /\ SoundPosition(p)
  BY DEF BookType, SoundPositions
<1>2. p.qty * p.mark \in Int
  BY <1>1, PositionFields
<1>3. Abs(p.qty * p.mark) \in Nat
  BY <1>2, Signs
<1>4. Leverage[s] \in Nat \ {0}
  BY FuturesAssumption
<1> QED
  BY <1>1, <1>3, <1>4, MarginNat DEF PositionMargin, Notional

LEMMA OrderMarginType ==
  ASSUME BookType, EntriesSound, NEW o \in FuturesOrders
  PROVE  OrderOpenMargin(o) \in Nat
<1>1. SymbolOf[o] \in Symbols /\ Leverage[SymbolOf[o]] \in Nat \ {0}
      /\ Sign[o] \in Int
  BY FuturesAssumption
<1>2. PICK p : p = pos[SymbolOf[o]] /\ SoundPosition(p)
  BY <1>1 DEF BookType, SoundPositions
<1>3. p.qty \in Int /\ p.mark \in Nat
  BY <1>2, PositionFields
<1>4. entries[o].rem \in Nat /\ entries[o].price \in Nat
  BY DEF EntriesSound, Entries
<1>5. -Sign[o] * p.qty \in Int
  BY <1>1, <1>3
<1>6. OpeningRemainingQty(o) \in Nat
  BY <1>2, <1>4, <1>5 DEF OpeningRemainingQty, Plus
<1>7. PICK price \in Nat :
        price = IF p.mark # 0 THEN p.mark ELSE entries[o].price
  BY <1>3, <1>4
<1>8. OpeningRemainingQty(o) * price \in Nat
  BY <1>6, <1>7
<1> QED
  BY <1>1, <1>2, <1>7, <1>8, MarginNat DEF OrderOpenMargin

LEMMA SymbolMarginType ==
  ASSUME BookType, EntriesSound, NEW s \in Symbols
  PROVE  SymbolOrderMargin(s) \in Nat
<1>1. PICK orders : orders = {o \in OpenOrders : SymbolOf[o] = s}
  OBVIOUS
<1>2. orders \subseteq FuturesOrders
  BY <1>1 DEF OpenOrders
<1>3. IsFiniteSet(orders)
  BY <1>2, FuturesAssumption, FS_Subset
<1>4. PICK f : f = [o \in orders |-> OrderOpenMargin(o)]
  OBVIOUS
<1>5. \A o \in orders : f[o] \in Nat
  BY <1>2, <1>4, OrderMarginType
<1>6. Sum(f, orders) \in Nat
  BY <1>3, <1>5, SumType
<1>7. pos[s].told \in Nat
  BY PositionFields DEF BookType, SoundPositions
<1> QED
  BY <1>1, <1>4, <1>6, <1>7 DEF SymbolOrderMargin

-----------------------------------------------------------------------------
(* Maintenance margin and liquidation price *)

\* One of the brackets is selected, where there are any.
LEMMA BracketType ==
  ASSUME BookType, NEW s \in Symbols, ~NoBrackets(s)
  PROVE  SelectBracket(s) \in [floor : Nat, cap : Nat, ratio : Nat, cum : Nat]
<1>1. PICK R, table : /\ R = [floor : Nat, cap : Nat, ratio : Nat, cum : Nat]
                      /\ table = Brackets[s]
  OBVIOUS
<1>2. table \in Seq(R) /\ table # <<>>
  BY <1>1, FuturesAssumption DEF NoBrackets
<1>3. \A i \in DOMAIN table : table[i] \in R
  BY <1>2
<1>4. Len(table) \in DOMAIN table /\ DOMAIN table \subseteq Nat
  BY <1>2
<1>5. PICK fits :
        /\ fits = {i \in DOMAIN table :
                     /\ Notional(s) >= table[i].floor
                     /\ table[i].cap = 0 \/ Notional(s) <= table[i].cap}
        /\ fits \subseteq DOMAIN table
  OBVIOUS
<1>6. fits # {} => Min(fits) \in fits
  <2>1. ASSUME fits # {} PROVE \E i \in fits : \A j \in fits : i <= j
    <3>1. fits \in SUBSET Nat
      BY <1>4, <1>5
    <3> QED
      BY <2>1, <3>1, LeastNumber
  <2> QED
    BY <2>1 DEF Min
<1>7. SelectBracket(s) = IF fits = {} THEN table[Len(table)]
                                      ELSE table[Min(fits)]
  BY <1>1, <1>5 DEF SelectBracket
<1> QED
  BY <1>1, <1>3, <1>4, <1>5, <1>6, <1>7

LEMMA MaintMarginType ==
  ASSUME BookType, NEW s \in Symbols
  PROVE  MaintMargin(s) \in Nat
<1>1. pos[s].maint \in Nat
  BY PositionFields DEF BookType, SoundPositions
<1>2. CASE NoBrackets(s)
  BY <1>1, <1>2 DEF MaintMargin
<1>3. CASE ~NoBrackets(s)
  <2>1. PICK b : b = SelectBracket(s)
    OBVIOUS
  <2>2. b.ratio \in Nat /\ b.cum \in Nat
    BY <1>3, <2>1, BracketType
  <2>3. Notional(s) \in Nat /\ Scale \in Nat
    BY PositionMarginType, FuturesAssumption
  <2>4. Notional(s) * b.ratio \in Int /\ b.cum * Scale \in Int
    BY <2>2, <2>3
  <2>5. Plus(Notional(s) * b.ratio - b.cum * Scale) \in Nat
    BY <2>4 DEF Plus
  <2> QED
    BY <1>3, <2>1, <2>5 DEF MaintMargin
<1> QED
  BY <1>2, <1>3

LEMMA RiskType ==
  ASSUME BookType, NEW s \in Symbols
  PROVE  /\ Risk(s).ratio \in Nat /\ Risk(s).scale \in Nat \ {0}
         /\ Risk(s).cum \in Nat
<1>1. Scale \in Nat \ {0} /\ pos[s].maint \in Nat /\ Notional(s) \in Nat
  BY FuturesAssumption, PositionFields, PositionMarginType
  DEF BookType, SoundPositions
<1>2. CASE ~NoBrackets(s)
  <2>1. PICK b : b = SelectBracket(s) /\ b.ratio \in Nat /\ b.cum \in Nat
    BY <1>2, BracketType
  <2>2. Risk(s) = [ratio |-> b.ratio, scale |-> Scale, cum |-> b.cum]
    BY <1>2, <2>1 DEF Risk
  <2> QED
    BY <1>1, <2>1, <2>2
<1>3. CASE NoBrackets(s) /\ (Notional(s) = 0 \/ pos[s].maint = 0)
  <2>1. Risk(s) = [ratio |-> 0, scale |-> Scale, cum |-> 0]
    BY <1>3 DEF Risk
  <2> QED
    BY <1>1, <2>1
<1>4. CASE NoBrackets(s) /\ ~(Notional(s) = 0 \/ pos[s].maint = 0)
  <2>1. PICK c \in Nat \ {0} : c = Scale * Notional(s)
    BY <1>1, <1>4
  <2>2. Risk(s) = [ratio |-> pos[s].maint, scale |-> c, cum |-> 0]
    BY <1>4, <2>1 DEF Risk
  <2> QED
    BY <1>1, <2>1, <2>2
<1> QED
  BY <1>2, <1>3, <1>4

\* What backs a position with cross margin: the balance and the profit of the
\* others.
LEMMA OthersProfit ==
  ASSUME BookType, NEW s \in Symbols
  PROVE  /\ MarginBalance - UnrealizedPnl(s)
              = balance + TotalUnrealizedPnl(Symbols \ {s})
         /\ balance + TotalUnrealizedPnl(Symbols \ {s}) \in Int
         /\ TotalMaintMargin(Symbols \ {s}) \in Int
<1>1. IsFiniteSet(Symbols) /\ balance \in Int /\ UnrealizedPnl(s) \in Int
  BY FuturesAssumption, PnlType DEF BookType
<1>2. PICK T : T = Symbols \ {s} /\ IsFiniteSet(T)
  BY <1>1, FS_Subset
<1>3. PICK f, g, h : /\ f = [x \in Symbols |-> UnrealizedPnl(x)]
                     /\ g = [x \in T |-> UnrealizedPnl(x)]
                     /\ h = [x \in T |-> MaintMargin(x)]
  OBVIOUS
<1>4. \A x \in Symbols : f[x] \in Int
  BY <1>3, PnlType
<1>5. Sum(f, Symbols) = f[s] + Sum(f, T) /\ Sum(f, T) \in Int
  BY <1>1, <1>2, <1>4, SumSplit
<1>6. Sum(g, T) = Sum(f, T)
  <2>1. \A x \in T : g[x] = f[x]
    BY <1>2, <1>3
  <2> QED
    BY <1>2, <2>1, SumAgree
<1>7. Sum(h, T) \in Int
  <2>1. \A x \in T : h[x] \in Int
    BY <1>2, <1>3, MaintMarginType
  <2> QED
    BY <1>2, <2>1, SumType
<1>8. /\ TotalUnrealizedPnl(Symbols) = Sum(f, Symbols)
      /\ TotalUnrealizedPnl(T) = Sum(g, T)
      /\ TotalMaintMargin(T) = Sum(h, T)
  BY <1>3 DEF TotalUnrealizedPnl, TotalMaintMargin
<1>9. f[s] = UnrealizedPnl(s)
  BY <1>3
<1>10. MarginBalance = balance + (UnrealizedPnl(s) + Sum(f, T))
  BY <1>5, <1>8, <1>9 DEF MarginBalance
<1> QED
  BY <1>1, <1>2, <1>5, <1>6, <1>7, <1>8, <1>10

\* What backs a position, as the property reckons it, is what the formula
\* takes, unless an isolated wallet is zero.
LEMMA BackingType ==
  ASSUME BookType, NEW s \in Symbols
  PROVE  /\ LiquidationBalance(s) \in Int
         /\ (account.mode[s] => pos[s].wallet # 0) =>
              LiquidationBalance(s) =
                IF account.mode[s] THEN Scale * pos[s].wallet
                ELSE Scale * (MarginBalance - UnrealizedPnl(s))
                       - TotalMaintMargin(Symbols \ {s})
<1>1. Scale \in Int
  BY FuturesAssumption
<1>2. CASE account.mode[s]
  <2>1. /\ pos[s].wallet \in Int /\ pos[s].initial \in Int
        /\ PositionMargin(s) \in Int
    BY PositionFields, PositionMarginType DEF BookType, SoundPositions
  <2>2. IsolatedBacking(s) \in Int
    BY <2>1 DEF IsolatedBacking
  <2>3. LiquidationBalance(s) = Scale * IsolatedBacking(s)
    BY <1>2 DEF LiquidationBalance
  <2>4. pos[s].wallet # 0 => IsolatedBacking(s) = pos[s].wallet
    BY DEF IsolatedBacking
  <2> QED
    BY <1>1, <1>2, <2>2, <2>3, <2>4
<1>3. CASE ~account.mode[s]
  <2>1. /\ MarginBalance - UnrealizedPnl(s)
             = balance + TotalUnrealizedPnl(Symbols \ {s})
        /\ balance + TotalUnrealizedPnl(Symbols \ {s}) \in Int
        /\ TotalMaintMargin(Symbols \ {s}) \in Int
    BY OthersProfit
  <2>2. LiquidationBalance(s)
          = Scale * (balance + TotalUnrealizedPnl(Symbols \ {s}))
              - TotalMaintMargin(Symbols \ {s})
    BY <1>3 DEF LiquidationBalance, Others
  <2> QED
    BY <1>1, <1>3, <2>1, <2>2
<1> QED
  BY <1>2, <1>3

\* The formula's parts: the money that is missing or left, times the scale of
\* the risk, over the quantity.  A long position whose price is not told has
\* something to divide by.
LEMMA FormulaType ==
  ASSUME BookType, NEW s \in Symbols, pos[s].qty # 0, ~PriceIsTold(s),
         NEW k, k = Risk(s), NEW have,
         have = LiquidationBalance(s) + Scale * k.cum
  PROVE  \E raw \in Int, den \in Nat \ {0}, n \in Nat \ {0}, c \in Nat :
           /\ LiquidationFormula(s) = [num |-> Plus(raw), den |-> den]
           /\ n = Abs(pos[s].qty) /\ c = Abs(pos[s].basis)
           /\ pos[s].qty > 0 => /\ raw = (Scale * c - have) * k.scale
                                /\ den = Scale * n * (k.scale - k.ratio)
           /\ pos[s].qty < 0 => /\ raw = (Scale * c + have) * k.scale
                                /\ den = Scale * n * (k.scale + k.ratio)
<1>1. /\ k.ratio \in Nat /\ k.scale \in Nat \ {0} /\ k.cum \in Nat
      /\ Scale \in Nat \ {0}
  BY RiskType, FuturesAssumption
<1>2. have \in Int
  BY <1>1, BackingType
<1>3. PICK n \in Nat \ {0}, c \in Nat : n = Abs(pos[s].qty) /\ c = Abs(pos[s].basis)
  BY PositionFields, Signs DEF BookType, SoundPositions
<1>4. pos[s].qty \in Int
  BY PositionFields DEF BookType, SoundPositions
<1>5. PICK m \in Nat \ {0} : m = Scale * n
  BY <1>1, <1>3
<1>6. CASE pos[s].qty > 0
  <2>1. k.ratio < k.scale
    BY <1>1, <1>6 DEF PriceIsTold
  <2>2. PICK e \in Nat \ {0} : e = k.scale - k.ratio
    BY <1>1, <2>1
  <2>3. PICK den \in Nat \ {0} : den = m * e
    OBVIOUS
  <2>4. PICK raw \in Int : raw = (Scale * c - have) * k.scale
    BY <1>1, <1>2, <1>3
  <2>5. LiquidationFormula(s) = [num |-> Plus(raw), den |-> den]
    BY <1>3, <1>5, <1>6, <2>2, <2>3, <2>4 DEF LiquidationFormula
  <2>6. den = Scale * n * (k.scale - k.ratio)
    BY <1>5, <2>2, <2>3
  <2> QED
    BY <1>3, <1>4, <1>6, <2>4, <2>5, <2>6
<1>7. CASE pos[s].qty < 0
  <2>1. PICK e \in Nat \ {0} : e = k.scale + k.ratio
    <3>1. k.scale + k.ratio \in Nat \ {0}
      BY <1>1
    <3> QED
      BY <3>1
  <2>2. PICK den \in Nat \ {0} : den = m * e
    OBVIOUS
  <2>3. PICK raw \in Int : raw = (Scale * c + have) * k.scale
    BY <1>1, <1>2, <1>3
  <2>4. ~(pos[s].qty > 0)
    BY <1>4, <1>7
  <2>5. LiquidationFormula(s) = [num |-> Plus(raw), den |-> den]
    BY <1>3, <1>5, <2>1, <2>2, <2>3, <2>4 DEF LiquidationFormula
  <2>6. den = Scale * n * (k.scale + k.ratio)
    BY <1>5, <2>1, <2>2
  <2> QED
    BY <1>3, <1>4, <1>7, <2>3, <2>4, <2>5, <2>6
<1> QED
  BY <1>4, <1>6, <1>7

\* A liquidation price is an amount over a quantity.
LEMMA LiquidationPriceType ==
  ASSUME BookType, NEW s \in Symbols
  PROVE  LiquidationPrice(s) \in Fractions
<1>1. CASE pos[s].qty = 0
  BY <1>1 DEF LiquidationPrice, NoPrice, Fractions
<1>2. CASE pos[s].qty # 0 /\ PriceIsTold(s)
  <2>1. pos[s].liq \in Fractions
    BY PositionFields DEF BookType, SoundPositions
  <2> QED
    BY <1>2, <2>1 DEF LiquidationPrice
<1>3. CASE pos[s].qty # 0 /\ ~PriceIsTold(s)
  <2>1. PICK raw \in Int, den \in Nat \ {0} :
          LiquidationFormula(s) = [num |-> Plus(raw), den |-> den]
    BY <1>3, FormulaType
  <2>2. Plus(raw) \in Nat
    BY DEF Plus
  <2> QED
    BY <1>3, <2>1, <2>2 DEF LiquidationPrice, Fractions
<1> QED
  BY <1>1, <1>2, <1>3

-----------------------------------------------------------------------------
(* The wallet that is pushed, and the book built from it *)

\* The fields of a position of a wallet state.
StateFields(r) ==
  /\ r.qty \in Int /\ r.entry \in Nat /\ r.even \in Int /\ r.wallet \in Int
  /\ r.mark \in Nat /\ r.initial \in Nat /\ r.margin \in Nat /\ r.orders \in Nat
  /\ r.maint \in Nat /\ r.liq \in Fractions
  /\ r.qty # 0 => r.mark # 0

\* from_canonical makes a sound position of them.
LEMMA Canonical ==
  ASSUME NEW r, StateFields(r), NEW mode \in BOOLEAN,
         NEW c, c = FromCanonical(r, mode)
  PROVE  /\ SoundPosition(c) /\ c.in
         /\ c.qty = r.qty /\ c.basis = SignOf(r.qty) * r.entry
         /\ c.carry = CarryOf(r) /\ c.wallet = WalletOf(r, mode)
<1>1. /\ r.qty \in Int /\ r.entry \in Nat /\ r.even \in Int /\ r.wallet \in Int
      /\ r.mark \in Nat /\ r.initial \in Nat /\ r.margin \in Nat
      /\ r.orders \in Nat /\ r.maint \in Nat /\ r.liq \in Fractions
      /\ r.qty # 0 => r.mark # 0
  BY DEF StateFields
<1>2. PICK sign \in Int : sign = SignOf(r.qty)
  BY <1>1 DEF SignOf
<1>3. /\ r.qty = 0 => sign = 0
      /\ r.qty > 0 => sign = 1
      /\ r.qty < 0 => sign = -1
  BY <1>1, <1>2, Signs
<1>4. PICK b \in Int : b = sign * r.entry
  BY <1>1
<1>5. /\ r.qty = 0 => b = 0
      /\ r.qty > 0 => b >= 0
      /\ r.qty < 0 => b <= 0
  BY <1>1, <1>3, <1>4
<1>6. PICK e \in Int : e = CarryOf(r)
  <2>1. sign * (r.even - r.entry) \in Int
    BY <1>1
  <2> QED
    BY <1>2, <2>1 DEF CarryOf
<1>7. r.qty = 0 => e = 0
  BY <1>6 DEF CarryOf
<1>8. PICK v \in Int : v = WalletOf(r, mode)
  BY <1>1 DEF WalletOf
<1>9. c = [qty |-> r.qty, basis |-> b, carry |-> e, wallet |-> v,
           mark |-> r.mark, initial |-> r.initial, told |-> r.orders,
           maint |-> r.maint, liq |-> r.liq, in |-> TRUE]
  BY <1>2, <1>4, <1>6, <1>8 DEF FromCanonical
<1>10. c \in Positions
  BY <1>1, <1>9 DEF Positions
<1>11. SoundPosition(c)
  BY <1>1, <1>5, <1>7, <1>9, <1>10 DEF SoundPosition
<1> QED
  BY <1>2, <1>4, <1>6, <1>8, <1>9, <1>11

\* What is told of a position has its basis, and its carried cost unless the
\* break-even price is zero.
LEMMA Told ==
  ASSUME NEW p, SoundPosition(p), NEW r, Tells(r, p)
  PROVE  /\ StateFields(r) /\ SignOf(r.qty) * r.entry = p.basis
         /\ (r.qty # 0 /\ r.even = 0) \/ CarryOf(r) = p.carry
<1>1. /\ p.qty \in Int /\ p.basis \in Int /\ p.carry \in Int /\ p.wallet \in Int
      /\ p.mark \in Nat /\ p.initial \in Nat
      /\ p.qty = 0 => p.basis = 0 /\ p.carry = 0
      /\ p.qty > 0 => p.basis >= 0
      /\ p.qty < 0 => p.basis <= 0
      /\ p.qty # 0 => p.mark # 0
  BY PositionFields
<1>2. /\ r.qty = p.qty /\ r.entry = Abs(p.basis)
      /\ r.even = (IF p.qty = 0 THEN 0 ELSE BreakEven(p))
      /\ r.wallet = p.wallet /\ r.mark = p.mark /\ r.initial = p.initial
      /\ r.margin \in Nat /\ r.orders \in Nat /\ r.maint \in Nat
      /\ r.liq \in Fractions
  BY DEF Tells
<1>3. PICK a \in Nat : a = Abs(p.basis)
  BY <1>1, Signs
<1>4. CASE p.qty = 0
  <2>1. r.even = 0 /\ SignOf(r.qty) = 0 /\ CarryOf(r) = 0
    BY <1>2, <1>4 DEF SignOf, CarryOf
  <2>2. 0 * a = 0
    BY <1>3
  <2> QED
    BY <1>1, <1>2, <1>3, <1>4, <2>1, <2>2 DEF StateFields
<1>5. CASE p.qty > 0
  <2>1. SignOf(p.qty) = 1 /\ a = p.basis
    BY <1>1, <1>3, <1>5 DEF SignOf, Abs
  <2>2. BreakEven(p) = a + p.carry
    BY <1>1, <1>3, <2>1 DEF BreakEven
  <2>3. CarryOf(r) = IF r.even = 0 THEN 0 ELSE 1 * (r.even - a)
    BY <1>1, <1>2, <1>3, <1>5, <2>1 DEF CarryOf
  <2>4. r.even = a + p.carry
    BY <1>1, <1>2, <1>5, <2>2
  <2> QED
    BY <1>1, <1>2, <1>3, <1>5, <2>1, <2>3, <2>4 DEF StateFields
<1>6. CASE p.qty < 0
  <2>1. SignOf(p.qty) = -1 /\ a = -p.basis
    BY <1>1, <1>3, <1>6 DEF SignOf, Abs
  <2>2. BreakEven(p) = a - p.carry
    BY <1>1, <1>3, <2>1 DEF BreakEven
  <2>3. CarryOf(r) = IF r.even = 0 THEN 0 ELSE (-1) * (r.even - a)
    BY <1>1, <1>2, <1>3, <1>6, <2>1 DEF CarryOf
  <2>4. r.even = a - p.carry
    BY <1>1, <1>2, <1>6, <2>2
  <2> QED
    BY <1>1, <1>2, <1>3, <1>6, <2>1, <2>3, <2>4 DEF StateFields
<1> QED
  BY <1>1, <1>4, <1>5, <1>6

\* The flat position of a symbol that the book does not have.
LEMMA FlatSound == SoundPosition(Flat) /\ ~Flat.in
BY DEF Flat, SoundPosition, Positions, NoPrice, Fractions

\* The balance of a book that is built.
LEMMA BuildBalanceType ==
  ASSUME NEW state, NEW a, a.initial \in Nat, a.isolated \in BOOLEAN,
         state.totals.wallet \in Int, DOMAIN state.positions \subseteq Symbols,
         \A s \in DOMAIN state.positions : state.positions[s].initial \in Nat
  PROVE  /\ BuildBalance(state, a) \in Int
         /\ ~ShouldBootstrap(state, a) =>
              BuildBalance(state, a) = state.totals.wallet
<1>1. PICK D, f : /\ D = DOMAIN state.positions
                  /\ f = [s \in D |-> state.positions[s].initial]
  OBVIOUS
<1>2. IsFiniteSet(D)
  BY <1>1, FuturesAssumption, FS_Subset
<1>3. \A s \in D : f[s] \in Int
  BY <1>1
<1>4. Sum(f, D) \in Int
  BY <1>2, <1>3, SumType
<1>5. InitialSum(state) = Sum(f, D)
  BY <1>1 DEF InitialSum
<1>6. Bootstrap(state, a) \in Int
  BY <1>4, <1>5 DEF Bootstrap
<1> QED
  BY <1>6 DEF BuildBalance

\* The book built from a state that tells of a sound one is sound, and the
\* same but for what a zero hides.
LEMMA Rebuilt ==
  ASSUME AccountType, NEW p, NEW b, SoundPositions(p), b \in Int,
         NEW state, StateOf(state, p, b),
         NEW q, q = BuildPositions(state, account.mode),
         NEW c, c = BuildBalance(state, account)
  PROVE  /\ SoundPositions(q) /\ c \in Int
         /\ \A s \in Symbols : q[s].qty = p[s].qty /\ q[s].basis = p[s].basis
         /\ ~ZeroRead(state) =>
              /\ c = b
              /\ \A s \in Symbols : /\ q[s].carry = p[s].carry
                                    /\ q[s].wallet = p[s].wallet
<1>1. /\ DOMAIN state.positions = {s \in Symbols : p[s].in}
      /\ \A s \in Symbols : p[s].in => Tells(state.positions[s], p[s])
      /\ state.totals.wallet = b
  BY DEF StateOf
<1>2. ASSUME NEW s \in Symbols
      PROVE  /\ SoundPosition(q[s]) /\ (~q[s].in => q[s] = Flat)
             /\ q[s].qty = p[s].qty /\ q[s].basis = p[s].basis
             /\ ~ZeroRead(state) => /\ q[s].carry = p[s].carry
                                    /\ q[s].wallet = p[s].wallet
  <2>1. SoundPosition(p[s]) /\ (~p[s].in => p[s] = Flat)
    BY DEF SoundPositions
  <2>2. CASE p[s].in
    <3>1. PICK r, z : r = state.positions[s] /\ z = q[s]
      OBVIOUS
    <3>2. s \in DOMAIN state.positions /\ Tells(r, p[s])
      BY <1>1, <2>2, <3>1
    <3>3. z = FromCanonical(r, account.mode[s])
      BY <3>1, <3>2 DEF BuildPositions
    <3>4. /\ StateFields(r) /\ SignOf(r.qty) * r.entry = p[s].basis
          /\ (r.qty # 0 /\ r.even = 0) \/ CarryOf(r) = p[s].carry
      BY <2>1, <3>2, Told
    <3>5. account.mode[s] \in BOOLEAN
      BY DEF AccountType
    <3>6. /\ SoundPosition(z) /\ z.in
          /\ z.qty = r.qty /\ z.basis = SignOf(r.qty) * r.entry
          /\ z.carry = CarryOf(r) /\ z.wallet = WalletOf(r, account.mode[s])
      BY <3>3, <3>4, <3>5, Canonical
    <3>7. r.qty = p[s].qty /\ r.wallet = p[s].wallet
      BY <3>2 DEF Tells
    <3>8. ASSUME ~ZeroRead(state)
          PROVE  z.carry = p[s].carry /\ z.wallet = p[s].wallet
      <4>1. /\ WalletOf(r, account.mode[s]) = r.wallet
            /\ ~(r.qty # 0 /\ r.even = 0)
        BY <3>1, <3>2, <3>8, Zenon DEF ZeroRead
      <4> QED
        BY <3>4, <3>6, <3>7, <4>1
    <3> QED
      BY <3>1, <3>4, <3>6, <3>7, <3>8
  <2>3. CASE ~p[s].in
    <3>1. s \notin DOMAIN state.positions
      BY <1>1, <2>3
    <3>2. q[s] = Flat
      BY <3>1 DEF BuildPositions
    <3> QED
      BY <2>1, <2>3, <3>2, FlatSound
  <2> QED
    BY <2>2, <2>3
<1>3. SoundPositions(q)
  <2>1. q = [s \in Symbols |-> q[s]]
    BY DEF BuildPositions
  <2>2. \A s \in Symbols : q[s] \in Positions
    BY <1>2 DEF SoundPosition
  <2>3. q \in [Symbols -> Positions]
    BY <2>1, <2>2
  <2> QED
    BY <1>2, <2>3 DEF SoundPositions
<1>4. c \in Int /\ (~ShouldBootstrap(state, account) => c = b)
  <2>1. account.initial \in Nat /\ account.isolated \in BOOLEAN
    BY DEF AccountType
  <2>2. ASSUME NEW s \in DOMAIN state.positions
        PROVE  state.positions[s].initial \in Nat
    <3>1. s \in Symbols /\ Tells(state.positions[s], p[s])
      BY <1>1, <2>2
    <3>2. SoundPosition(p[s])
      BY <3>1 DEF SoundPositions
    <3>3. StateFields(state.positions[s])
      BY <3>1, <3>2, Told
    <3> QED
      BY <3>3 DEF StateFields
  <2>3. DOMAIN state.positions \subseteq Symbols
    BY <1>1
  <2> QED
    BY <1>1, <2>1, <2>2, <2>3, BuildBalanceType
<1>5. ~ZeroRead(state) => ~ShouldBootstrap(state, account)
  BY DEF ZeroRead
<1> QED
  BY <1>2, <1>3, <1>4, <1>5

\* The history of the running session.
History == [cash |-> cash, held |-> held, paid |-> paid, net |-> net]

\* The running book in the words for any book.
LEMMA RunningBook ==
  ASSUME BookType
  PROVE  SoundBook(pos, balance, History) <=> BooksBalance /\ BreakEvenRecovers
<1>1. /\ History \in Histories /\ History.cash = cash /\ History.held = held
      /\ History.paid = paid /\ History.net = net
  BY DEF BookType, History, Histories
<1>2. \A s \in Symbols : EarnedOf(pos, History, s) = Earned(s)
  BY <1>1 DEF EarnedOf, Earned
<1>3. [s \in Symbols |-> EarnedOf(pos, History, s)] = [s \in Symbols |-> Earned(s)]
  BY <1>2
<1>4. Accounted(pos, balance, History) <=>
        /\ balance = origin.balance + Sum([s \in Symbols |-> Earned(s)], Symbols)
        /\ \A s \in Symbols : account.mode[s] =>
             pos[s].wallet = origin.wallet[s] + Earned(s)
        /\ \A s \in Symbols : pos[s].carry = -net[s]
  BY <1>1, <1>2, <1>3, Zenon DEF Accounted
<1>5. SoundPositions(pos) /\ balance \in Int
  BY DEF BookType
<1> QED
  BY <1>1, <1>4, <1>5, Zenon DEF SoundBook, BooksBalance, BreakEvenRecovers

\* The wallet that is pushed tells of the running book.
LEMMA PushedState ==
  ASSUME BookType, EntriesSound
  PROVE  StateOf(ReadWallet(SerializeWallet), pos, balance)
<1>1. PICK state : state = ReadWallet(SerializeWallet)
  OBVIOUS
<1>2. /\ DOMAIN state.positions = {x \in Symbols : pos[x].in}
      /\ \A s \in Symbols : pos[s].in =>
           state.positions[s] = ReadPosition(SerializePosition(s))
      /\ state.totals.wallet = balance
  BY <1>1 DEF ReadWallet, SerializeWallet, Totals
<1>3. ASSUME NEW s \in Symbols, pos[s].in PROVE Tells(state.positions[s], pos[s])
  <2>1. PICK r : r = ReadPosition(SerializePosition(s))
    OBVIOUS
  <2>2. /\ r.qty = pos[s].qty /\ r.entry = Abs(pos[s].basis)
        /\ r.even = (IF pos[s].qty = 0 THEN 0 ELSE BreakEven(pos[s]))
        /\ r.wallet = pos[s].wallet /\ r.mark = pos[s].mark
        /\ r.initial = pos[s].initial /\ r.margin = PositionMargin(s)
        /\ r.orders = SymbolOrderMargin(s) /\ r.maint = MaintMargin(s)
        /\ r.liq = LiquidationPrice(s)
    BY <2>1 DEF ReadPosition, SerializePosition
  <2>3. /\ PositionMargin(s) \in Nat /\ SymbolOrderMargin(s) \in Nat
        /\ MaintMargin(s) \in Nat /\ LiquidationPrice(s) \in Fractions
    BY PositionMarginType, SymbolMarginType, MaintMarginType,
       LiquidationPriceType
  <2> QED
    BY <1>2, <1>3, <2>1, <2>2, <2>3 DEF Tells
<1> QED
  BY <1>1, <1>2, <1>3 DEF StateOf

\* A session that begins has its own wallet to restore.
LEMMA RestoreStarts ==
  /\ BookType /\ EntriesSound /\ BooksBalance /\ BreakEvenRecovers
  /\ restore = SerializeWallet /\ began = History
  => RestoreSound
<1> SUFFICES ASSUME BookType, EntriesSound, BooksBalance, BreakEvenRecovers,
                    restore = SerializeWallet, began = History
             PROVE  RestoreSound
  OBVIOUS
<1>1. SoundBook(pos, balance, began)
  BY RunningBook
<1>2. StateOf(ReadWallet(restore), pos, balance)
  BY PushedState
<1> QED
  BY <1>1, <1>2 DEF RestoreSound

\* It keeps it.
LEMMA RestoreKept ==
  ASSUME RestoreSound, UNCHANGED <<restore, began, origin, account>>,
         zeroed => zeroed'
  PROVE  RestoreSound'
<1>1. PICK p, b : SoundBook(p, b, began) /\ StateOf(ReadWallet(restore), p, b)
  BY DEF RestoreSound
<1>2. SoundBook(p, b, began)'
  BY <1>1 DEF SoundBook, Accounted, EarnedOf
<1>3. StateOf(ReadWallet(restore'), p, b)
  BY <1>1
<1> QED
  BY <1>2, <1>3 DEF RestoreSound

LEMMA ReloadKeeps ==
  ASSUME BookType, EntriesSound, BooksBalance, BreakEvenRecovers, RestoreSound,
         NEW kept \in BOOLEAN, Reload(kept)
  PROVE  /\ BookType' /\ EntriesSound' /\ BooksBalance' /\ BreakEvenRecovers'
         /\ restore' = SerializeWallet' /\ began' = History'
<1>1. PICK m, h :
        /\ m = LeftBehind(kept)
        /\ h = IF kept THEN History ELSE began
        /\ UNCHANGED <<account, origin>>
        /\ pos' = BuildPositions(ReadWallet(m), account.mode)
        /\ balance' = BuildBalance(ReadWallet(m), account)
        /\ entries' = [o \in FuturesOrders |-> NoEntry]
        /\ stage' = [o \in FuturesOrders |->
                       IF stage[o] = "live" THEN "ended" ELSE stage[o]]
        /\ last' = [s \in Symbols |-> 0]
        /\ cash' = h.cash /\ held' = h.held /\ paid' = h.paid /\ net' = h.net
        /\ began' = h
        /\ restore' = SerializeWallet'
        /\ zeroed' = (zeroed \/ ZeroRead(ReadWallet(m)))
  BY Zenon DEF Reload, History
<1>2. PICK p, b : SoundBook(p, b, h) /\ StateOf(ReadWallet(m), p, b)
  <2>1. CASE kept
    <3>1. m = SerializeWallet /\ h = History
      BY <1>1, <2>1 DEF LeftBehind
    <3>2. SoundBook(pos, balance, h)
      BY <3>1, RunningBook
    <3>3. StateOf(ReadWallet(m), pos, balance)
      BY <3>1, PushedState
    <3> QED
      BY <3>2, <3>3
  <2>2. CASE ~kept
    <3>1. m = restore /\ h = began
      BY <1>1, <2>2 DEF LeftBehind
    <3> QED
      BY <3>1 DEF RestoreSound
  <2> QED
    BY <2>1, <2>2
<1>3. PICK state, q, c : /\ state = ReadWallet(m) /\ q = pos' /\ c = balance'
  OBVIOUS
<1>4. /\ SoundPositions(p) /\ b \in Int /\ h \in Histories
      /\ \A s \in Symbols : p[s].qty = h.held[s]
      /\ ~zeroed => Accounted(p, b, h)
  BY <1>2 DEF SoundBook
<1>5. /\ SoundPositions(q) /\ c \in Int
      /\ \A s \in Symbols : q[s].qty = p[s].qty /\ q[s].basis = p[s].basis
      /\ ~ZeroRead(state) =>
           /\ c = b
           /\ \A s \in Symbols : /\ q[s].carry = p[s].carry
                                 /\ q[s].wallet = p[s].wallet
  <2>1. AccountType
    BY DEF BookType
  <2>2. q = BuildPositions(state, account.mode) /\ c = BuildBalance(state, account)
    BY <1>1, <1>3
  <2>3. StateOf(state, p, b)
    BY <1>2, <1>3
  <2> QED
    BY <1>4, <2>1, <2>2, <2>3, Rebuilt
<1>6. h = History' /\ h.cash = cash' /\ h.held = held' /\ h.paid = paid' /\ h.net = net'
  <2>1. h = [cash |-> h.cash, held |-> h.held, paid |-> h.paid, net |-> h.net]
    BY <1>4 DEF Histories
  <2> QED
    BY <1>1, <2>1 DEF History
<1>7. zeroed' \in BOOLEAN /\ (~zeroed' => ~zeroed /\ ~ZeroRead(state))
  BY <1>1, <1>3
<1>8. BookType'
  <2>1. AccountType'
    BY <1>1, <1>7 DEF BookType, AccountType
  <2>2. SoundPositions(pos)' /\ balance' \in Int
    BY <1>3, <1>5 DEF SoundPositions
  <2>3. /\ cash' \in [Symbols -> Int] /\ held' \in [Symbols -> Int]
        /\ paid' \in [Symbols -> Int] /\ net' \in [Symbols -> Int]
    BY <1>4, <1>6 DEF Histories
  <2>4. last' \in [Symbols -> Nat]
    BY <1>1
  <2> QED
    BY <2>1, <2>2, <2>3, <2>4 DEF BookType
<1>9. EntriesSound'
  <2>1. \A o \in FuturesOrders : entries'[o] = NoEntry
    BY <1>1
  <2>2. entries' \in [FuturesOrders -> Entries]
    BY <1>1 DEF Entries, NoEntry
  <2>3. stage' \in [FuturesOrders -> {"none", "live", "ended"}]
    BY <1>1 DEF EntriesSound
  <2>4. ~NoEntry.in
    BY DEF NoEntry
  <2> QED
    BY <2>1, <2>2, <2>3, <2>4 DEF EntriesSound
<1>10. \A s \in Symbols : Earned(s)' = EarnedOf(p, h, s)
  BY <1>3, <1>5, <1>6 DEF Earned, EarnedOf
<1>11. [s \in Symbols |-> Earned(s)'] = [s \in Symbols |-> EarnedOf(p, h, s)]
  BY <1>10
<1>12. \A s \in Symbols : pos'[s].qty = held'[s]
  BY <1>3, <1>4, <1>5, <1>6
<1>13. ASSUME ~zeroed'
       PROVE  /\ balance' = origin'.balance
                              + Sum([s \in Symbols |-> Earned(s)'], Symbols)
              /\ \A s \in Symbols : account'.mode[s] =>
                   pos'[s].wallet = origin'.wallet[s] + Earned(s)'
              /\ \A s \in Symbols : pos'[s].carry = -net'[s]
  <2>1. /\ b = origin.balance + Sum([s \in Symbols |-> EarnedOf(p, h, s)], Symbols)
        /\ \A s \in Symbols : account.mode[s] =>
             p[s].wallet = origin.wallet[s] + EarnedOf(p, h, s)
        /\ \A s \in Symbols : p[s].carry = -h.net[s]
    BY <1>4, <1>7, <1>13 DEF Accounted
  <2>2. c = b /\ \A s \in Symbols : /\ q[s].carry = p[s].carry
                                    /\ q[s].wallet = p[s].wallet
    BY <1>5, <1>7, <1>13
  <2>3. origin' = origin /\ account' = account
    BY <1>1
  <2> QED
    BY <1>3, <1>6, <1>10, <1>11, <2>1, <2>2, <2>3
<1>14. BooksBalance' /\ BreakEvenRecovers'
  BY <1>12, <1>13 DEF BooksBalance, BreakEvenRecovers
<1> QED
  BY <1>1, <1>6, <1>8, <1>9, <1>14

-----------------------------------------------------------------------------
(* Ticks, placed orders and fills *)

\* A mark changes nothing but the mark.
LEMMA MarkKeeps ==
  ASSUME BookType, NEW s \in Symbols, NEW price \in Nat \ {0},
         pos' = Marked(s, price), last' \in [Symbols -> Nat],
         UNCHANGED <<account, origin, balance, zeroed, cash, held, paid, net>>
  PROVE  /\ BookType'
         /\ BooksBalance => BooksBalance'
         /\ BreakEvenRecovers => BreakEvenRecovers'
         /\ \A x \in Symbols : pos'[x].in = pos[x].in
<1>1. ASSUME NEW x \in Symbols
      PROVE  /\ SoundPosition(pos'[x]) /\ (~pos'[x].in => pos'[x] = Flat)
             /\ pos'[x].qty = pos[x].qty /\ pos'[x].basis = pos[x].basis
             /\ pos'[x].carry = pos[x].carry /\ pos'[x].wallet = pos[x].wallet
             /\ pos'[x].in = pos[x].in
  <2>1. PICK p, r : p = pos[x] /\ r = pos'[x]
    OBVIOUS
  <2>2. SoundPosition(p) /\ (~p.in => p = Flat)
    BY <2>1 DEF BookType, SoundPositions
  <2>3. CASE x = s /\ pos[s].in
    <3>1. r = [p EXCEPT !.mark = price]
      BY <2>1, <2>3 DEF Marked, BookType, SoundPositions
    <3>2. p \in Positions
      BY <2>2 DEF SoundPosition
    <3>3. /\ r \in Positions /\ r.qty = p.qty /\ r.basis = p.basis
          /\ r.carry = p.carry /\ r.wallet = p.wallet /\ r.in = p.in
          /\ r.mark = price
      BY <3>1, <3>2 DEF Positions
    <3>4. SoundPosition(r)
      BY <2>2, <3>3 DEF SoundPosition
    <3> QED
      BY <2>1, <2>3, <3>3, <3>4
  <2>4. CASE ~(x = s /\ pos[s].in)
    <3>1. r = p
      BY <2>1, <2>4 DEF Marked, BookType, SoundPositions
    <3> QED
      BY <2>1, <2>2, <2>4, <3>1
  <2> QED
    BY <2>3, <2>4
<1>2. BookType'
  <2>1. pos' \in [Symbols -> Positions]
    <3>1. \A x \in Symbols : pos'[x] \in Positions
      BY <1>1 DEF SoundPosition
    <3>2. pos' = [x \in Symbols |-> pos'[x]]
      BY DEF Marked, BookType, SoundPositions
    <3> QED
      BY <3>1, <3>2
  <2>2. AccountType'
    BY DEF BookType, AccountType
  <2>3. /\ cash' \in [Symbols -> Int] /\ held' \in [Symbols -> Int]
        /\ net' \in [Symbols -> Int] /\ paid' \in [Symbols -> Int]
        /\ balance' \in Int
    BY DEF BookType
  <2>4. SoundPositions(pos)'
    BY <1>1, <2>1 DEF SoundPositions, SoundPosition
  <2> QED
    BY <2>2, <2>3, <2>4 DEF BookType
<1>3. ASSUME BooksBalance PROVE BooksBalance'
  <2>1. \A x \in Symbols : Earned(x)' = Earned(x)
    BY <1>1 DEF Earned
  <2>2. [x \in Symbols |-> Earned(x)'] = [x \in Symbols |-> Earned(x)]
    BY <2>1
  <2>3. \A x \in Symbols : pos'[x].qty = held'[x]
    BY <1>1, <1>3 DEF BooksBalance
  <2>4. ASSUME ~zeroed
        PROVE  /\ balance' = origin'.balance
                               + Sum([x \in Symbols |-> Earned(x)'], Symbols)
               /\ \A x \in Symbols : account'.mode[x] =>
                    pos'[x].wallet = origin'.wallet[x] + Earned(x)'
    BY <1>1, <1>3, <2>1, <2>2, <2>4 DEF BooksBalance
  <2> QED
    BY <2>3, <2>4 DEF BooksBalance
<1>4. ASSUME BreakEvenRecovers PROVE BreakEvenRecovers'
  BY <1>1, <1>4 DEF BreakEvenRecovers
<1> QED
  BY <1>1, <1>2, <1>3, <1>4

\* The book's open orders after a fill of one of them.
LEMMA FillKeepsEntries ==
  ASSUME BookType, EntriesSound, NEW o \in FuturesOrders, NEW price \in Quotes,
         NEW fee \in Fees, NEW ends \in BOOLEAN, NEW d \in 1..Size[o],
         OnFuturesOrder(o, d, price, fee, ends)
  PROVE  EntriesSound'
<1>1. price \in Nat /\ Size[o] \in Nat /\ SymbolOf[o] \in Symbols
      /\ Sign[o] \in {1, -1} /\ SymbolOf \in [FuturesOrders -> Symbols]
  BY FuturesAssumption
<1>2. PICK n : n = entries[o].exec
  OBVIOUS
<1>3. n \in Nat
  BY <1>2 DEF EntriesSound, Entries
<1>4. /\ stage[o] = "live" /\ Size[o] - n - d >= 0
      /\ ApplyFill(SymbolOf[o], Sign[o] * d, price, fee)
      /\ entries' = [entries EXCEPT ![o] = Entry(o, d, price, ends)]
      /\ stage' = [stage EXCEPT ![o] =
                     IF ends \/ Size[o] - n - d = 0 THEN "ended" ELSE @]
      /\ UNCHANGED <<account, origin, last, zeroed>>
  BY <1>2 DEF OnFuturesOrder, viewVars, startVars
<1>5. Sign[o] * d \in Int \ {0}
  BY <1>1
<1>6. /\ \A x \in Symbols : pos[x].in => pos'[x].in
      /\ pos'[SymbolOf[o]].in
  BY <1>1, <1>4, <1>5, FillKeepsType
<1>7. Entry(o, d, price, ends) =
        IF ends \/ Size[o] - n - d = 0 THEN NoEntry
        ELSE [in |-> TRUE, exec |-> n + d, rem |-> Size[o] - n - d,
              price |-> price]
  BY <1>2 DEF Entry
<1>8. PICK e : e = Entry(o, d, price, ends)
  OBVIOUS
<1>9. CASE ends \/ Size[o] - n - d = 0
  <2>1. e = NoEntry /\ e \in Entries /\ ~e.in
    BY <1>7, <1>8, <1>9 DEF NoEntry, Entries
  <2>2. entries' \in [FuturesOrders -> Entries] /\ entries'[o] = e
    BY <1>4, <1>8, <2>1 DEF EntriesSound
  <2>3. stage' \in [FuturesOrders -> {"none", "live", "ended"}]
    BY <1>4, <1>9 DEF EntriesSound
  <2>4. \A x \in FuturesOrders : x # o => /\ entries'[x] = entries[x]
                                          /\ stage'[x] = stage[x]
    BY <1>4 DEF EntriesSound
  <2>5. \A x \in FuturesOrders : pos[SymbolOf[x]].in => pos'[SymbolOf[x]].in
    BY <1>1, <1>6
  <2> QED
    BY <2>1, <2>2, <2>3, <2>4, <2>5 DEF EntriesSound
<1>10. CASE ~(ends \/ Size[o] - n - d = 0)
  <2>1. e = [in |-> TRUE, exec |-> n + d, rem |-> Size[o] - n - d,
             price |-> price]
    BY <1>7, <1>8, <1>10
  <2>2. /\ n + d \in Nat /\ Size[o] - n - d \in Nat
        /\ (n + d) + (Size[o] - n - d) = Size[o]
    BY <1>1, <1>3, <1>4
  <2>3. e \in Entries /\ e.in /\ e.exec + e.rem = Size[o]
    BY <1>1, <2>1, <2>2 DEF Entries
  <2>4. entries' \in [FuturesOrders -> Entries] /\ entries'[o] = e
    BY <1>4, <1>8, <2>3 DEF EntriesSound
  <2>5. stage' = stage
    BY <1>4, <1>10 DEF EntriesSound
  <2>6. \A x \in FuturesOrders : x # o => entries'[x] = entries[x]
    BY <1>4 DEF EntriesSound
  <2>7. \A x \in FuturesOrders : pos[SymbolOf[x]].in => pos'[SymbolOf[x]].in
    BY <1>1, <1>6
  <2> QED
    BY <1>4, <1>6, <2>3, <2>4, <2>5, <2>6, <2>7 DEF EntriesSound
<1> QED
  BY <1>9, <1>10

-----------------------------------------------------------------------------
(* The balance guard *)

LEMMA AbsTimes ==
  ASSUME NEW q \in Int, NEW m \in Nat
  PROVE  Abs(q * m) = Abs(q) * m /\ Abs(q) * m \in Nat
<1>1. CASE q >= 0
  <2>1. q * m >= 0 /\ q * m \in Int
    BY <1>1
  <2> QED
    BY <1>1, <2>1 DEF Abs
<1>2. CASE q < 0
  <2>1. (-q) * m \in Nat /\ (-q) * m = -(q * m) /\ q * m \in Int
    BY <1>2
  <2>2. Abs(q) = -q
    BY <1>2 DEF Abs
  <2>3. Abs(q * m) = -(q * m)
    BY <2>1 DEF Abs
  <2> QED
    BY <2>1, <2>2, <2>3
<1> QED
  BY <1>1, <1>2

\* The three sums that the headroom is made of.
LEMMA HeadroomParts ==
  ASSUME BookType, EntriesSound
  PROVE  /\ TotalUnrealizedPnl(Symbols) \in Int /\ TotalPositionMargin \in Int
         /\ OpenMargin \in Int /\ Headroom \in Int
         /\ Headroom = balance + TotalUnrealizedPnl(Symbols)
                         - TotalPositionMargin - OpenMargin
<1>1. IsFiniteSet(Symbols) /\ balance \in Int
  BY FuturesAssumption DEF BookType
<1>2. PICK f, g, h : /\ f = [s \in Symbols |-> UnrealizedPnl(s)]
                     /\ g = [s \in Symbols |-> PositionMargin(s)]
                     /\ h = [s \in Symbols |-> SymbolOrderMargin(s)]
  OBVIOUS
<1>3. \A s \in Symbols : f[s] \in Int
  BY <1>2, PnlType
<1>4. \A s \in Symbols : g[s] \in Nat
  BY <1>2, PositionMarginType
<1>5. \A s \in Symbols : h[s] \in Nat
  BY <1>2, SymbolMarginType
<1>6. Sum(f, Symbols) \in Int /\ Sum(g, Symbols) \in Nat /\ Sum(h, Symbols) \in Nat
  BY <1>1, <1>3, <1>4, <1>5, SumType
<1>7. /\ TotalUnrealizedPnl(Symbols) = Sum(f, Symbols)
      /\ TotalPositionMargin = Sum(g, Symbols)
      /\ OpenMargin = Sum(h, Symbols)
  BY <1>2 DEF TotalUnrealizedPnl, TotalPositionMargin, OpenMargin
<1> QED
  BY <1>1, <1>6, <1>7 DEF Headroom, MarginBalance

\* Without open orders, before and after, the order margin is what the
\* snapshot told.
LEMMA OrderMarginKept ==
  ASSUME OpenOrders = {}, OpenOrders' = {},
         \A s \in Symbols : pos'[s].told = pos[s].told
  PROVE  OpenMargin' = OpenMargin
<1>1. \A s \in Symbols : SymbolOrderMargin(s) = pos[s].told
  BY DEF SymbolOrderMargin
<1>2. \A s \in Symbols : SymbolOrderMargin(s)' = pos'[s].told
  BY DEF SymbolOrderMargin
<1>3. [s \in Symbols |-> SymbolOrderMargin(s)']
        = [s \in Symbols |-> SymbolOrderMargin(s)]
  BY <1>1, <1>2
<1> QED
  BY <1>3 DEF OpenMargin

\* The profit and the margin of a position.
PnlOf(p) == IF p.qty = 0 \/ p.mark = 0 THEN 0 ELSE p.qty * p.mark - p.basis

MarginOf(p, s) == Abs(p.qty * p.mark) \div Leverage[s]

LEMMA DerivedOf ==
  ASSUME NEW s \in Symbols
  PROVE  /\ UnrealizedPnl(s) = PnlOf(pos[s])
         /\ UnrealizedPnl(s)' = PnlOf(pos'[s])
         /\ PositionMargin(s) = MarginOf(pos[s], s)
         /\ PositionMargin(s)' = MarginOf(pos'[s], s)
BY DEF UnrealizedPnl, PnlOf, PositionMargin, Notional, MarginOf

LEMMA DerivedType ==
  ASSUME NEW p, SoundPosition(p), NEW s \in Symbols
  PROVE  PnlOf(p) \in Int /\ MarginOf(p, s) \in Nat
<1>1. p.qty \in Int /\ p.mark \in Nat /\ p.basis \in Int
  BY PositionFields
<1>2. p.qty * p.mark \in Int /\ p.qty * p.mark - p.basis \in Int
  BY <1>1
<1>3. Abs(p.qty * p.mark) \in Nat
  BY <1>2, Signs
<1>4. Leverage[s] \in Nat \ {0}
  BY FuturesAssumption
<1> QED
  BY <1>2, <1>3, <1>4, MarginNat DEF PnlOf, MarginOf

\* When one position changes, profit and margin of the others stay.
LEMMA OnePositionChanges ==
  ASSUME NEW s \in Symbols, \A x \in Symbols : SoundPosition(pos[x]),
         SoundPosition(pos'[s]), \A x \in Symbols : x # s => pos'[x] = pos[x]
  PROVE  /\ TotalUnrealizedPnl(Symbols)' = TotalUnrealizedPnl(Symbols)
                                   + PnlOf(pos'[s]) - PnlOf(pos[s])
         /\ TotalPositionMargin' = TotalPositionMargin
                                   + MarginOf(pos'[s], s) - MarginOf(pos[s], s)
<1>1. IsFiniteSet(Symbols)
  BY FuturesAssumption
<1>2. PICK f, k : /\ f = [x \in Symbols |-> PnlOf(pos[x])]
                  /\ k = [x \in Symbols |-> PnlOf(pos'[x])]
  OBVIOUS
<1>3. TotalUnrealizedPnl(Symbols) = Sum(f, Symbols)
  <2>1. f = [x \in Symbols |-> UnrealizedPnl(x)]
    BY <1>2, DerivedOf
  <2> QED
    BY <2>1 DEF TotalUnrealizedPnl
<1>4. TotalUnrealizedPnl(Symbols)' = Sum(k, Symbols)
  <2>1. k = [x \in Symbols |-> UnrealizedPnl(x)']
    BY <1>2, DerivedOf
  <2> QED
    BY <2>1 DEF TotalUnrealizedPnl
<1>5. Sum(k, Symbols) = Sum(f, Symbols) + k[s] - f[s]
  <2>1. \A x \in Symbols : f[x] \in Int
    BY <1>2, DerivedType
  <2>2. k[s] \in Int
    BY <1>2, DerivedType
  <2>3. \A x \in Symbols \ {s} : k[x] = f[x]
    BY <1>2
  <2> QED
    BY <1>1, <2>1, <2>2, <2>3, SumUpdate
<1>6. PICK g, h : /\ g = [x \in Symbols |-> MarginOf(pos[x], x)]
                  /\ h = [x \in Symbols |-> MarginOf(pos'[x], x)]
  OBVIOUS
<1>7. TotalPositionMargin = Sum(g, Symbols)
  <2>1. g = [x \in Symbols |-> PositionMargin(x)]
    BY <1>6, DerivedOf
  <2> QED
    BY <2>1 DEF TotalPositionMargin
<1>8. TotalPositionMargin' = Sum(h, Symbols)
  <2>1. h = [x \in Symbols |-> PositionMargin(x)']
    BY <1>6, DerivedOf
  <2> QED
    BY <2>1 DEF TotalPositionMargin
<1>9. Sum(h, Symbols) = Sum(g, Symbols) + h[s] - g[s]
  <2>1. \A x \in Symbols : g[x] \in Int
    BY <1>6, DerivedType
  <2>2. h[s] \in Int
    BY <1>6, DerivedType
  <2>3. \A x \in Symbols \ {s} : h[x] = g[x]
    BY <1>6
  <2> QED
    BY <1>1, <2>1, <2>2, <2>3, SumUpdate
<1> QED
  BY <1>2, <1>3, <1>4, <1>5, <1>6, <1>7, <1>8, <1>9

\* A fill changes what the position and the balance are worth together by its
\* distance from the mark, the fee apart.
LEMMA FillAgainstMark ==
  ASSUME NEW p, SoundPosition(p), NEW d \in Int \ {0}, NEW price \in Quotes,
         NEW fee \in Fees, NEW mode \in BOOLEAN,
         NEW r, r = AfterFill(p, d, price, fee, mode), NEW s \in Symbols,
         NEW m, m = MarkAfter(p, d, price)
  PROVE  /\ m \in Nat \ {0}
         /\ ProfitOf(p, d, price) + PnlOf(r) - PnlOf(p) = d * (m - price)
         /\ ProfitOf(p, d, price) \in Int
         /\ MarginOf(p, s) = (Abs(p.qty) * m) \div Leverage[s]
         /\ MarginOf(r, s) = (Abs(p.qty + d) * m) \div Leverage[s]
<1>1. price \in Nat /\ price # 0
  BY FuturesAssumption
<1>2. PICK q \in Int, c \in Int : q = p.qty /\ c = p.basis
  BY PositionFields
<1>3. (q = 0 => c = 0) /\ p.mark \in Nat /\ (q # 0 => p.mark # 0)
  BY <1>2, PositionFields
<1>4. PICK profit \in Int :
        /\ profit = ProfitOf(p, d, price)
        /\ SoundPosition(r)
        /\ profit = r.basis - c - d * price
        /\ r.qty = q + d
        /\ r.mark = m
  BY <1>2, FilledOutcome
<1>5. PICK b \in Int : b = r.basis /\ (q + d = 0 => b = 0)
  BY <1>4, PositionFields
<1>6. m \in Nat \ {0} /\ (q # 0 => p.mark = m)
  <2>1. CASE p.mark = 0
    BY <1>1, <1>2, <1>3, <2>1 DEF MarkAfter
  <2>2. CASE p.mark # 0
    BY <1>1, <1>2, <1>3, <2>2 DEF MarkAfter
  <2> QED
    BY <2>1, <2>2
<1>7. PICK u \in Int, v \in Int, z \in Int : u = q * m /\ v = d * m /\ z = d * price
  BY <1>1, <1>6
<1>8. (q + d) * m = u + v /\ d * (m - price) = v - z
  BY <1>1, <1>6, <1>7
<1>9. PnlOf(p) = u - c
  <2>1. CASE q = 0
    BY <1>2, <1>3, <1>6, <1>7, <2>1 DEF PnlOf
  <2>2. CASE q # 0
    BY <1>2, <1>3, <1>6, <1>7, <2>2 DEF PnlOf
  <2> QED
    BY <2>1, <2>2
<1>10. PnlOf(r) = u + v - b
  <2>1. CASE q + d = 0
    <3>1. PnlOf(r) = 0 /\ b = 0
      BY <1>4, <1>5, <2>1 DEF PnlOf
    <3>2. u + v = 0
      BY <1>6, <1>8, <2>1
    <3> QED
      BY <3>1, <3>2
  <2>2. CASE q + d # 0
    BY <1>4, <1>5, <1>6, <1>8, <2>2 DEF PnlOf
  <2> QED
    BY <2>1, <2>2
<1>11. profit + (u + v - b) - (u - c) = v - z
  BY <1>4, <1>5, <1>7
<1>12. Abs(p.qty * p.mark) = Abs(q) * m
  <2>1. CASE q = 0
    <3>1. p.qty * p.mark = 0 /\ Abs(q) = 0 /\ 0 * m = 0
      BY <1>2, <1>3, <1>6, <2>1 DEF Abs
    <3> QED
      BY <3>1 DEF Abs
  <2>2. CASE q # 0
    BY <1>2, <1>3, <1>6, <2>2, AbsTimes
  <2> QED
    BY <2>1, <2>2
<1>13. Abs(r.qty * r.mark) = Abs(q + d) * m
  BY <1>4, <1>6, AbsTimes
<1> QED
  BY <1>2, <1>4, <1>6, <1>8, <1>9, <1>10, <1>11, <1>12, <1>13 DEF MarginOf

\* A quotient that is rounded up covers its dividend.
LEMMA RoundedUp ==
  ASSUME NEW a \in Nat, NEW n \in Nat \ {0}, NEW x, x = (a + n - 1) \div n
  PROVE  x \in Nat /\ x * n >= a
<1>1. PICK c \in Nat : c = a + n - 1
  OBVIOUS
<1>2. x \in Nat
  BY <1>1, MarginNat
<1>3. c < n * x + n /\ n * x \in Int /\ x * n = n * x
  BY <1>1, <1>2, Division
<1> QED
  BY <1>1, <1>2, <1>3

\* An order that the guard let through needs no more margin than it releases,
\* is available, or the mark asks for beyond the price of the check.
LEMMA GuardedMargin ==
  ASSUME NEW q \in Int, NEW size \in Nat \ {0}, NEW sign \in {1, -1},
         NEW price \in Nat \ {0}, NEW check \in Nat \ {0},
         NEW n \in Nat \ {0}, NEW room \in Int,
         NEW lev \in Nat, lev = 1 \/ lev = n,
         \/ q * sign < 0 /\ size <= Abs(q)
         \/ Plus(room) * lev >= size * check,
         NEW x, x = (size * Plus(price - check) + n - 1) \div n
  PROVE  /\ x \in Nat
         /\ room - ((Abs(q + sign * size) * price) \div n
                      - (Abs(q) * price) \div n) >= Min({0, room}) - x
<1>1. PICK before, after :
        /\ before = (Abs(q) * price) \div n
        /\ after = (Abs(q + sign * size) * price) \div n
  OBVIOUS
<1>2. PICK over \in Nat : over = size * Plus(price - check)
  BY DEF Plus
<1>3. x \in Nat /\ x * n >= over
  BY <1>2, RoundedUp
<1> SUFFICES room - (after - before) >= Min({0, room}) - x
  BY <1>1, <1>3
<1>4. PICK d \in Int : d = sign * size /\ (d = size \/ d = -size)
  OBVIOUS
<1>5. Abs(q) \in Nat /\ Abs(q + d) \in Nat
  BY Signs
<1>6. Abs(q) * price \in Nat /\ Abs(q + d) * price \in Nat /\ size * price \in Nat
  BY <1>5
<1>7. before \in Nat /\ after \in Nat
  BY <1>4, <1>6, <1>1, MarginNat
<1>8. Min({0, room}) = IF 0 <= room THEN 0 ELSE room
  BY MinOfTwo
<1>9. CASE q * sign < 0 /\ size <= Abs(q)
  <2>1. (sign = 1 /\ q < 0) \/ (sign = -1 /\ q > 0)
    BY <1>9
  <2>2. Abs(q + d) <= Abs(q)
    BY <1>4, <1>9, <2>1 DEF Abs
  <2>3. Abs(q + d) * price <= Abs(q) * price
    BY <1>5, <2>2
  <2>4. after <= before
    BY <1>4, <1>6, <1>1, <2>3, MarginMonotonic
  <2> QED
    BY <1>7, <1>8, <1>3, <2>4
<1>10. CASE Plus(room) * lev >= size * check
  <2>1. size * check > 0 /\ size * check \in Nat
    OBVIOUS
  <2>2. room > 0 /\ Plus(room) = room
    <3>1. CASE room <= 0
      <4>1. Plus(room) * lev = 0
        BY <3>1 DEF Plus
      <4> QED
        BY <1>10, <2>1, <4>1
    <3> QED
      BY <3>1 DEF Plus
  <2>3. room \in Nat /\ room * n >= size * check
    <3>1. room * n >= room * lev
      <4>1. CASE lev = n
        BY <4>1
      <4>2. CASE lev = 1
        <5>1. room * (n - 1) >= 0
          BY <2>2
        <5>2. room * (n - 1) = room * n - room
          OBVIOUS
        <5>3. room * lev = room /\ room * n \in Int
          BY <4>2
        <5> QED
          BY <5>1, <5>2, <5>3
      <4> QED
        BY <4>1, <4>2
    <3>2. room * lev >= size * check
      BY <1>10, <2>2
    <3>3. room * n \in Int /\ room * lev \in Int
      OBVIOUS
    <3> QED
      BY <2>1, <2>2, <3>1, <3>2, <3>3
  <2>4. (Abs(q) * price + size * price) \div n <= before + (room + x)
    <3>1. size * price <= size * check + over
      <4>1. price <= check + Plus(price - check) /\ Plus(price - check) \in Nat
        BY DEF Plus
      <4>2. size * price <= size * (check + Plus(price - check))
        BY <4>1
      <4>3. size * (check + Plus(price - check))
              = size * check + size * Plus(price - check)
        BY <4>1
      <4> QED
        BY <1>2, <4>2, <4>3
    <3>2. (room + x) * n = room * n + x * n /\ room * n \in Int /\ x * n \in Int
      BY <1>3, <2>3
    <3>3. (room + x) * n >= size * price
      BY <1>6, <1>3, <1>2, <2>1, <2>3, <3>1, <3>2
    <3>4. room + x \in Nat
      BY <1>3, <2>3
    <3> QED
      BY <1>6, <1>1, <3>3, <3>4, MarginOfSum
  <2>5. Abs(q + d) <= Abs(q) + size
    BY <1>4 DEF Abs
  <2>6. Abs(q + d) * price <= (Abs(q) + size) * price
    BY <1>5, <2>5
  <2>7. (Abs(q) + size) * price = Abs(q) * price + size * price
    BY <1>5
  <2>8. Abs(q) * price + size * price \in Nat
    BY <1>6
  <2>9. Abs(q + d) * price <= Abs(q) * price + size * price
    BY <2>6, <2>7
  <2>10. after <= (Abs(q) * price + size * price) \div n
    BY <1>4, <1>6, <1>1, <2>8, <2>9, MarginMonotonic
  <2>11. (Abs(q) * price + size * price) \div n \in Nat
    BY <2>8, MarginNat
  <2> QED
    BY <1>7, <1>8, <1>3, <2>2, <2>4, <2>10, <2>11
<1> QED
  BY <1>9, <1>10

\* The order that was checked alone is filled at once: the account stays covered
\* but for the fee and the overrun.
LEMMA FilledAlone ==
  ASSUME BookType, EntriesSound, NEW o \in FuturesOrders, NEW price \in Quotes,
         NEW fee \in Fees, NEW ends \in BOOLEAN, NEW check \in Nat \ {0},
         MarginGuard(o, check), OpenOrders = {},
         OnFuturesOrder(o, Size[o], price, fee, ends),
         NEW mark, mark = MarkAfter(pos[SymbolOf[o]], Sign[o] * Size[o], price)
  PROVE  Headroom' >= Min({0, Headroom}) - fee - Overrun(o, check, price, mark)
<1>1. PICK s \in Symbols : s = SymbolOf[o]
  BY FuturesAssumption
<1>2. /\ price \in Nat \ {0} /\ fee \in Nat /\ Size[o] \in Nat \ {0}
      /\ Sign[o] \in {1, -1} /\ Leverage[s] \in Nat \ {0}
  BY <1>1, FuturesAssumption
<1>3. PICK d \in Int \ {0} : d = Sign[o] * Size[o]
  BY <1>2
<1>4. ApplyFill(s, d, price, fee) /\ UNCHANGED <<account, origin, last, zeroed>>
  BY <1>1, <1>3 DEF OnFuturesOrder, viewVars, startVars
<1>5. PICK p, r : /\ p = EnsurePosition(s)
                  /\ r = AfterFill(p, d, price, fee, account.mode[s])
  OBVIOUS
<1>6. /\ BookType' /\ pos'[s] = r
      /\ \A x \in Symbols : x # s => pos'[x] = pos[x]
      /\ \A x \in Symbols : pos'[x].told = pos[x].told
      /\ balance' = balance + ProfitOf(p, d, price) - fee
  BY <1>2, <1>4, <1>5, FillKeepsType
<1>7. EntriesSound'
  <2>1. Size[o] \in 1..Size[o]
    BY <1>2
  <2> QED
    BY <2>1, FillKeepsEntries
<1>8. OpenOrders' = {}
  <2>1. \A x \in FuturesOrders : entries[x] = NoEntry
    BY DEF OpenOrders, EntriesSound
  <2>2. Entry(o, Size[o], price, ends) = NoEntry
    <3>1. entries[o].exec = 0
      BY <2>1 DEF NoEntry
    <3>2. Size[o] - entries[o].exec - Size[o] = 0
      BY <1>2, <3>1
    <3> QED
      BY <3>2 DEF Entry
  <2>3. \A x \in FuturesOrders : entries'[x] = NoEntry
    BY <2>1, <2>2 DEF OnFuturesOrder, EntriesSound
  <2> QED
    BY <2>3 DEF OpenOrders, NoEntry
<1>9. OpenMargin' = OpenMargin
  BY <1>6, <1>8, OrderMarginKept
<1>10. /\ SoundPosition(p) /\ p.qty = pos[s].qty /\ p.basis = pos[s].basis
       /\ p.mark = pos[s].mark
  BY <1>5, Ensured
<1>11. mark = MarkAfter(p, d, price) /\ account.mode[s] \in BOOLEAN
  BY <1>1, <1>3, <1>10 DEF MarkAfter, BookType, AccountType
<1>12. /\ mark \in Nat \ {0}
       /\ ProfitOf(p, d, price) + PnlOf(r) - PnlOf(p) = d * (mark - price)
       /\ ProfitOf(p, d, price) \in Int
       /\ MarginOf(p, s) = (Abs(p.qty) * mark) \div Leverage[s]
       /\ MarginOf(r, s) = (Abs(p.qty + d) * mark) \div Leverage[s]
  BY <1>5, <1>10, <1>11, FillAgainstMark
<1>13. PnlOf(pos[s]) = PnlOf(p) /\ MarginOf(pos[s], s) = MarginOf(p, s)
  BY <1>10 DEF PnlOf, MarginOf
<1>14. \A x \in Symbols : SoundPosition(pos[x])
  BY DEF BookType, SoundPositions
<1>15. SoundPosition(r)
  BY <1>5, <1>10, <1>11, FilledOutcome
<1>16. /\ TotalUnrealizedPnl(Symbols)' = TotalUnrealizedPnl(Symbols)
                                            + PnlOf(r) - PnlOf(p)
       /\ TotalPositionMargin' = TotalPositionMargin
                                    + MarginOf(r, s) - MarginOf(p, s)
  BY <1>6, <1>13, <1>14, <1>15, OnePositionChanges
<1>17. /\ PnlOf(p) \in Int /\ PnlOf(r) \in Int
       /\ MarginOf(p, s) \in Nat /\ MarginOf(r, s) \in Nat
  BY <1>10, <1>15, DerivedType
<1>18. /\ TotalUnrealizedPnl(Symbols) \in Int /\ TotalPositionMargin \in Int
       /\ OpenMargin \in Int /\ Headroom \in Int /\ balance \in Int
       /\ Headroom = balance + TotalUnrealizedPnl(Symbols)
                       - TotalPositionMargin - OpenMargin
  BY HeadroomParts DEF BookType
<1>19. /\ Headroom' = MarginBalance' - TotalPositionMargin' - OpenMargin'
       /\ MarginBalance' = balance' + TotalUnrealizedPnl(Symbols)'
  BY Zenon DEF Headroom, MarginBalance
<1>20. PICK gain \in Int : gain = d * (mark - price)
  BY <1>2, <1>12
<1>21. Headroom' = Headroom - fee + gain - (MarginOf(r, s) - MarginOf(p, s))
  BY <1>2, <1>6, <1>9, <1>12, <1>16, <1>17, <1>18, <1>19, <1>20
<1>22. PICK x, loss :
         /\ x = (Size[o] * Plus(mark - check) + Leverage[s] - 1) \div Leverage[s]
         /\ loss = Size[o] * Plus(Sign[o] * (price - mark))
         /\ Overrun(o, check, price, mark) = x + loss
  BY <1>1 DEF Overrun
<1>23. loss \in Nat /\ gain >= -loss
  <2>1. PICK size \in Nat, g \in Int :
          size = Size[o] /\ g = Sign[o] * (price - mark)
    BY <1>2, <1>12
  <2>2. gain = -(size * g)
    <3>1. CASE Sign[o] = 1
      BY <1>2, <1>3, <1>12, <1>20, <2>1, <3>1
    <3>2. CASE Sign[o] = -1
      BY <1>2, <1>3, <1>12, <1>20, <2>1, <3>2
    <3> QED
      BY <1>2, <3>1, <3>2
  <2>3. loss = size * Plus(g)
    BY <1>22, <2>1
  <2>4. CASE g >= 0
    BY <2>1, <2>2, <2>3, <2>4 DEF Plus
  <2>5. CASE g < 0
    <3>1. loss = 0 /\ size * (-g) >= 0 /\ size * (-g) = -(size * g)
      BY <2>1, <2>3, <2>5 DEF Plus
    <3> QED
      BY <2>2, <3>1
  <2> QED
    BY <2>1, <2>4, <2>5
<1>24. /\ x \in Nat
       /\ Headroom - (MarginOf(r, s) - MarginOf(p, s)) >= Min({0, Headroom}) - x
  <2>1. PICK lev : lev = IF pos[s].in THEN Leverage[s] ELSE 1
    OBVIOUS
  <2>2. lev \in Nat /\ (lev = 1 \/ lev = Leverage[s])
    BY <1>2, <2>1
  <2>3. \/ p.qty * Sign[o] < 0 /\ Size[o] <= Abs(p.qty)
        \/ Plus(Headroom) * lev >= Size[o] * check
    BY <1>1, <1>10, <2>1 DEF MarginGuard, AvailableBalance
  <2>4. p.qty \in Int
    BY <1>10, PositionFields
  <2>5. MarginOf(r, s) = (Abs(p.qty + Sign[o] * Size[o]) * mark) \div Leverage[s]
    BY <1>3, <1>12
  <2>6. PICK q, size, sign, n, room, b, a :
          /\ q = p.qty /\ size = Size[o] /\ sign = Sign[o] /\ n = Leverage[s]
          /\ room = Headroom /\ b = MarginOf(p, s) /\ a = MarginOf(r, s)
    OBVIOUS
  <2>7. /\ q \in Int /\ size \in Nat \ {0} /\ sign \in {1, -1} /\ n \in Nat \ {0}
        /\ room \in Int /\ lev \in Nat /\ (lev = 1 \/ lev = n)
        /\ (q * sign < 0 /\ size <= Abs(q)) \/ Plus(room) * lev >= size * check
        /\ b = (Abs(q) * mark) \div n
        /\ a = (Abs(q + sign * size) * mark) \div n
        /\ x = (size * Plus(mark - check) + n - 1) \div n
    BY <1>2, <1>12, <1>18, <1>22, <2>2, <2>3, <2>4, <2>5, <2>6
  <2>8. /\ x \in Nat
        /\ room - ((Abs(q + sign * size) * mark) \div n
                     - (Abs(q) * mark) \div n) >= Min({0, room}) - x
    BY <1>12, <2>7, GuardedMargin
  <2> QED
    BY <2>6, <2>7, <2>8
<1>25. Min({0, Headroom}) \in Int
  BY <1>18, MinOfTwo
<1> QED
  BY <1>2, <1>17, <1>18, <1>21, <1>22, <1>23, <1>24, <1>25

-----------------------------------------------------------------------------
(* The invariant holds *)

LEMMA BookInit == FuturesInit => BookInv
<1> SUFFICES ASSUME FuturesInit PROVE BookInv
  OBVIOUS
<1>1. PICK m \in Snapshots :
        /\ account = m.account /\ balance = BuildBalance(m, m.account)
        /\ pos = BuildPositions(m, m.account.mode)
  BY Zenon DEF FuturesInit
<1>2. /\ cash = [s \in Symbols |-> -pos[s].basis]
      /\ held = [s \in Symbols |-> pos[s].qty]
      /\ paid = [s \in Symbols |-> 0]
      /\ net = [s \in Symbols |-> -pos[s].carry]
      /\ origin = [balance |-> balance,
                   wallet |-> [s \in Symbols |-> pos[s].wallet]]
      /\ began = History /\ restore = SerializeWallet
      /\ last = [s \in Symbols |-> 0] /\ zeroed = FALSE /\ lone = None
      /\ entries = [o \in FuturesOrders |-> NoEntry]
      /\ stage = [o \in FuturesOrders |-> "none"]
  BY Zenon DEF FuturesInit, History
<1>3. GoodSnapshot(m)
  BY <1>1, FuturesAssumption
<1>4. /\ account \in [isolated : BOOLEAN, initial : Nat,
                      mode : [Symbols -> BOOLEAN]]
      /\ m.totals.wallet \in Int
      /\ DOMAIN m.positions \subseteq Symbols
      /\ \A s \in DOMAIN m.positions : StateFields(m.positions[s])
  <2>1. ASSUME NEW s \in DOMAIN m.positions PROVE StateFields(m.positions[s])
    <3>1. PICK r : r = m.positions[s]
      OBVIOUS
    <3>2. r \in StatePositions
      BY <1>3, <3>1 DEF GoodSnapshot
    <3>3. StateFields(r)
      BY <3>2 DEF StatePositions, StateFields
    <3> QED
      BY <3>1, <3>3
  <2> QED
    BY <1>1, <1>3, <2>1 DEF GoodSnapshot
<1>5. ASSUME NEW s \in Symbols
      PROVE  SoundPosition(pos[s]) /\ (~pos[s].in => pos[s] = Flat)
  <2>1. CASE s \in DOMAIN m.positions
    <3>1. PICK r, c : r = m.positions[s] /\ c = pos[s]
      OBVIOUS
    <3>2. c = FromCanonical(r, account.mode[s])
      BY <1>1, <2>1, <3>1 DEF BuildPositions
    <3>3. StateFields(r) /\ account.mode[s] \in BOOLEAN
      BY <1>4, <2>1, <3>1
    <3>4. SoundPosition(c) /\ c.in
      BY <3>2, <3>3, Canonical
    <3> QED
      BY <3>1, <3>4
  <2>2. CASE s \notin DOMAIN m.positions
    <3>1. pos[s] = Flat
      BY <1>1, <2>2 DEF BuildPositions
    <3> QED
      BY <3>1, FlatSound
  <2> QED
    BY <2>1, <2>2
<1>6. SoundPositions(pos)
  <2>1. pos = [s \in Symbols |-> pos[s]]
    BY <1>1 DEF BuildPositions
  <2>2. \A s \in Symbols : pos[s] \in Positions
    BY <1>5 DEF SoundPosition
  <2>3. pos \in [Symbols -> Positions]
    BY <2>1, <2>2
  <2> QED
    BY <1>5, <2>3 DEF SoundPositions
<1>7. balance \in Int
  <2>1. account.initial \in Nat /\ account.isolated \in BOOLEAN
    BY <1>4
  <2>2. \A s \in DOMAIN m.positions : m.positions[s].initial \in Nat
    BY <1>4 DEF StateFields
  <2> QED
    BY <1>1, <1>4, <2>1, <2>2, BuildBalanceType
<1>8. \A s \in Symbols : /\ pos[s].qty \in Int /\ pos[s].basis \in Int
                         /\ pos[s].carry \in Int /\ pos[s].wallet \in Int
  BY <1>5, PositionFields
<1>9. BookType
  <2>1. /\ cash \in [Symbols -> Int] /\ held \in [Symbols -> Int]
        /\ net \in [Symbols -> Int] /\ paid \in [Symbols -> Int]
        /\ last \in [Symbols -> Nat]
    BY <1>2, <1>8
  <2>2. origin \in [balance : Int, wallet : [Symbols -> Int]] /\ zeroed \in BOOLEAN
    BY <1>2, <1>7, <1>8
  <2> QED
    BY <1>4, <1>6, <1>7, <2>1, <2>2 DEF BookType, AccountType
<1>10. EntriesSound
  <2>1. NoEntry \in Entries /\ ~NoEntry.in
    BY DEF NoEntry, Entries
  <2>2. \A o \in FuturesOrders : entries[o] = NoEntry
    BY <1>2
  <2>3. /\ entries \in [FuturesOrders -> Entries]
        /\ stage \in [FuturesOrders -> {"none", "live", "ended"}]
    BY <1>2, <2>1
  <2> QED
    BY <2>1, <2>2, <2>3 DEF EntriesSound
<1>11. BooksBalance
  <2>1. PICK f : f = [s \in Symbols |-> Earned(s)]
    OBVIOUS
  <2>2. \A s \in Symbols : Earned(s) = 0
    BY <1>2, <1>8 DEF Earned
  <2>3. Sum(f, Symbols) = 0
    BY <2>1, <2>2, FuturesAssumption, SumZero
  <2>4. \A s \in Symbols : pos[s].qty = held[s]
    BY <1>2
  <2>5. balance = origin.balance + Sum(f, Symbols)
    BY <1>2, <1>7, <2>3
  <2>6. \A s \in Symbols : pos[s].wallet = origin.wallet[s] + Earned(s)
    BY <1>2, <1>8, <2>2
  <2> QED
    BY <2>1, <2>4, <2>5, <2>6 DEF BooksBalance
<1>12. BreakEvenRecovers
  <2>1. ASSUME NEW s \in Symbols PROVE pos[s].carry = -net[s]
    BY <1>2, <1>8, <2>1
  <2> QED
    BY <2>1 DEF BreakEvenRecovers
<1>13. RestoreSound
  BY <1>2, <1>9, <1>10, <1>11, <1>12, RestoreStarts
<1>14. LoneSound
  BY <1>2 DEF LoneSound
<1> QED
  BY <1>9, <1>10, <1>11, <1>12, <1>13, <1>14 DEF BookInv

\* Placing an order keeps the entries of the book.
LEMMA PlaceKeepsEntries ==
  ASSUME BookType, EntriesSound, NEW o \in FuturesOrders, stage[o] = "none",
         stage' = [stage EXCEPT ![o] = "live"], UNCHANGED entries,
         \A x \in Symbols : pos'[x].in = pos[x].in
  PROVE  EntriesSound'
<1>1. SymbolOf \in [FuturesOrders -> Symbols]
  BY FuturesAssumption
<1>2. stage' \in [FuturesOrders -> {"none", "live", "ended"}]
  BY DEF EntriesSound
<1>3. \A x \in FuturesOrders : stage[x] = "live" => stage'[x] = "live"
  BY DEF EntriesSound
<1>4. entries' \in [FuturesOrders -> Entries]
  BY DEF EntriesSound
<1> QED
  BY <1>1, <1>2, <1>3, <1>4 DEF EntriesSound

LEMMA BookStep == BookInv /\ [FuturesNext]_futuresVars => BookInv'
<1> SUFFICES ASSUME BookInv, [FuturesNext]_futuresVars PROVE BookInv'
  OBVIOUS
<1>0. /\ BookType /\ EntriesSound /\ BooksBalance /\ BreakEvenRecovers
      /\ RestoreSound /\ LoneSound
  BY DEF BookInv
<1>1. ASSUME NEW kept \in BOOLEAN, Reload(kept) PROVE BookInv'
  <2>1. /\ BookType' /\ EntriesSound' /\ BooksBalance' /\ BreakEvenRecovers'
        /\ restore' = SerializeWallet' /\ began' = History'
    BY <1>0, <1>1, ReloadKeeps
  <2>2. RestoreSound'
    <3>1. (/\ BookType /\ EntriesSound /\ BooksBalance /\ BreakEvenRecovers
           /\ restore = SerializeWallet /\ began = History)'
      BY <2>1
    <3> QED
      BY <3>1, RestoreStarts, PTL
  <2>3. LoneSound'
    BY <1>1, Zenon DEF Reload, LoneSound
  <2> QED
    BY <2>1, <2>2, <2>3 DEF BookInv
<1>2. ASSUME NEW s \in Symbols, NEW p \in Quotes, OnMarketData(s, p)
      PROVE  BookInv'
  <2>1. /\ pos' = Marked(s, p) /\ last' = [last EXCEPT ![s] = p]
        /\ UNCHANGED <<account, origin, balance, zeroed, cash, held, paid, net>>
        /\ UNCHANGED <<entries, stage, restore, began>> /\ lone' = None
    BY <1>2 DEF OnMarketData, histVars, startVars
  <2>2. p \in Nat \ {0} /\ last' \in [Symbols -> Nat]
    BY <1>0, <2>1, FuturesAssumption DEF BookType
  <2>3. /\ BookType' /\ BooksBalance' /\ BreakEvenRecovers'
        /\ \A x \in Symbols : pos'[x].in = pos[x].in
    BY <1>0, <2>1, <2>2, MarkKeeps
  <2>4. EntriesSound'
    <3>1. SymbolOf \in [FuturesOrders -> Symbols]
      BY FuturesAssumption
    <3> QED
      BY <1>0, <2>1, <2>3, <3>1 DEF EntriesSound
  <2>5. RestoreSound'
    BY <1>0, <2>1, RestoreKept
  <2>6. LoneSound'
    BY <2>1 DEF LoneSound
  <2> QED
    BY <2>3, <2>4, <2>5, <2>6 DEF BookInv
<1>3. ASSUME NEW o \in FuturesOrders, PlaceOrder(o) PROVE BookInv'
  <2>1. PICK s, mark, check :
          /\ s = SymbolOf[o] /\ mark = ResolveMarkPrice(o)
          /\ check = BalanceCheckPrice(o) /\ s \in Symbols
    BY FuturesAssumption
  <2>2. /\ pos' = (IF trigger = s THEN pos ELSE Marked(s, mark))
        /\ mark # 0 /\ MarginGuard(o, check)
        /\ UNCHANGED <<account, origin, balance, zeroed, cash, held, paid, net>>
        /\ UNCHANGED <<entries, restore, began, last>> /\ stage[o] = "none"
        /\ stage' = [stage EXCEPT ![o] = "live"]
        /\ lone' = IF pos' = pos /\ \A x \in FuturesOrders : stage[x] # "live"
                     THEN [order |-> o, price |-> check, filled |-> FALSE,
                           low |-> Min({0, Headroom})]
                     ELSE None
    BY <1>3, <2>1 DEF PlaceOrder, histVars, startVars, viewVars
  <2>3. mark \in Nat \ {0} /\ check \in Nat \ {0}
    <3>1. last[s] \in Nat /\ LimitPrice[o] \in Nat
      BY <1>0, <2>1, FuturesAssumption DEF BookType
    <3> QED
      BY <2>1, <2>2, <3>1 DEF ResolveMarkPrice, BalanceCheckPrice
  <2>4. /\ BookType' /\ BooksBalance' /\ BreakEvenRecovers'
        /\ \A x \in Symbols : pos'[x].in = pos[x].in
    <3>1. CASE trigger = s
      <4>1. pos' = pos
        BY <2>2, <3>1
      <4>2. BookType' /\ BreakEvenRecovers'
        BY <1>0, <2>2, <4>1 DEF BookType, AccountType, SoundPositions,
           SoundPosition, BreakEvenRecovers
      <4>3. BooksBalance'
        BY <1>0, <2>2, <4>1 DEF BooksBalance, Earned
      <4> QED
        BY <4>1, <4>2, <4>3
    <3>2. CASE trigger # s
      <4>1. pos' = Marked(s, mark) /\ last' \in [Symbols -> Nat]
        BY <1>0, <2>2, <3>2 DEF BookType
      <4> QED
        BY <1>0, <2>1, <2>2, <2>3, <4>1, MarkKeeps
    <3> QED
      BY <3>1, <3>2
  <2>5. EntriesSound'
    BY <1>0, <2>2, <2>4, PlaceKeepsEntries
  <2>6. RestoreSound'
    BY <1>0, <2>2, RestoreKept
  <2>7. LoneSound'
    <3>1. CASE ~(pos' = pos /\ \A x \in FuturesOrders : stage[x] # "live")
      BY <2>2, <3>1 DEF LoneSound
    <3>2. CASE pos' = pos /\ \A x \in FuturesOrders : stage[x] # "live"
      <4>1. Headroom' = Headroom
        BY <2>2, <3>2 DEF Headroom, MarginBalance, TotalUnrealizedPnl,
             TotalPositionMargin, OpenMargin, UnrealizedPnl, PositionMargin,
             Notional, SymbolOrderMargin, OpenOrders, OrderOpenMargin,
             OpeningRemainingQty
      <4>2. MarginGuard(o, check)'
        BY <2>2, <3>2, <4>1 DEF MarginGuard, AvailableBalance
      <4>3. OpenOrders' = {}
        BY <1>0, <2>2, <3>2 DEF OpenOrders, EntriesSound
      <4>4. lone' = [order |-> o, price |-> check, filled |-> FALSE,
                     low |-> Min({0, Headroom'})]
        BY <2>2, <3>2, <4>1
      <4>5. Waiting'
        BY <2>3, <4>2, <4>3, <4>4 DEF Waiting
      <4> QED
        BY <4>5 DEF LoneSound
    <3> QED
      BY <3>1, <3>2
  <2> QED
    BY <2>4, <2>5, <2>6, <2>7 DEF BookInv
<1>4. ASSUME NEW o \in FuturesOrders, NEW p \in Quotes, NEW fee \in Fees,
             NEW ends \in BOOLEAN, NEW d \in 1..Size[o],
             OnFuturesOrder(o, d, p, fee, ends)
      PROVE  BookInv'
  <2>1. PICK s \in Symbols : s = SymbolOf[o]
    BY FuturesAssumption
  <2>2. Sign[o] \in {1, -1} /\ Size[o] \in Nat /\ p \in Nat \ {0} /\ fee \in Nat
    BY FuturesAssumption
  <2>3. Sign[o] * d \in Int \ {0}
    BY <2>2
  <2>4. PICK mark : mark = MarkAfter(pos[SymbolOf[o]], Sign[o] * d, p)
    OBVIOUS
  <2>5. /\ ApplyFill(s, Sign[o] * d, p, fee)
        /\ UNCHANGED <<account, origin, last, zeroed>> /\ UNCHANGED <<restore, began>>
        /\ lone' = IF lone.order = o /\ ~lone.filled /\ d = Size[o]
                     THEN [lone EXCEPT !.filled = TRUE,
                             !.low = @ - fee - Overrun(o, lone.price, p, mark)]
                     ELSE None
    BY <1>4, <2>1, <2>4 DEF OnFuturesOrder, viewVars, startVars
  <2>6. BookType' /\ BooksBalance' /\ BreakEvenRecovers'
    BY <1>0, <2>3, <2>5, FillKeepsType, FillKeepsBalance, FillKeepsCarry
  <2>7. EntriesSound'
    BY <1>0, <1>4, FillKeepsEntries
  <2>8. RestoreSound'
    BY <1>0, <2>5, RestoreKept
  <2>9. LoneSound'
    <3>1. CASE ~(lone.order = o /\ ~lone.filled /\ d = Size[o])
      BY <2>5, <3>1 DEF LoneSound
    <3>2. CASE lone.order = o /\ ~lone.filled /\ d = Size[o]
      <4>1. lone # None
        BY <3>2, FuturesAssumption DEF None
      <4>2. Waiting
        BY <1>0, <3>2, <4>1 DEF LoneSound
      <4>3. PICK x \in FuturesOrders, check \in Nat \ {0} :
              /\ lone = [order |-> x, price |-> check, filled |-> FALSE,
                         low |-> Min({0, Headroom})]
              /\ MarginGuard(x, check) /\ OpenOrders = {}
        BY <4>2 DEF Waiting
      <4>4. x = o
        BY <3>2, <4>3
      <4>5. Headroom' >= Min({0, Headroom}) - fee - Overrun(o, check, p, mark)
        BY <1>0, <1>4, <2>4, <3>2, <4>3, <4>4, FilledAlone
      <4>6. /\ lone'.filled
            /\ lone'.low = Min({0, Headroom}) - fee - Overrun(o, check, p, mark)
        BY <2>5, <3>2, <4>3
      <4> QED
        BY <4>5, <4>6 DEF LoneSound
    <3> QED
      BY <3>1, <3>2
  <2> QED
    BY <2>6, <2>7, <2>8, <2>9 DEF BookInv
<1>5. CASE UNCHANGED futuresVars
  <2>1. /\ UNCHANGED <<account, balance, pos, entries, stage, cash, held>>
        /\ UNCHANGED <<paid, net, lone, zeroed, last, restore, origin, began>>
    BY <1>5 DEF futuresVars, bookVars, histVars, viewVars, startVars
  <2>2. BookType' /\ EntriesSound' /\ BreakEvenRecovers'
    BY <1>0, <2>1 DEF BookType, AccountType, SoundPositions, SoundPosition,
       EntriesSound, BreakEvenRecovers
  <2>3. BooksBalance'
    BY <1>0, <2>1 DEF BooksBalance, Earned
  <2>4. Headroom' = Headroom /\ OpenOrders' = OpenOrders
    BY <2>1 DEF Headroom, MarginBalance, TotalUnrealizedPnl,
         TotalPositionMargin, OpenMargin, UnrealizedPnl, PositionMargin,
         Notional, SymbolOrderMargin, OpenOrders, OrderOpenMargin,
         OpeningRemainingQty
  <2>5. LoneSound'
    BY <1>0, <2>1, <2>4 DEF LoneSound, Waiting, MarginGuard, AvailableBalance
  <2>6. RestoreSound'
    BY <1>0, <2>1, RestoreKept
  <2> QED
    BY <2>2, <2>3, <2>5, <2>6 DEF BookInv
<1> QED
  BY <1>1, <1>2, <1>3, <1>4, <1>5 DEF FuturesNext
-----------------------------------------------------------------------------
(* Liquidation *)

\* What is left over the maintenance margin of a long and of a short position,
\* in the terms of the formula of its liquidation price.
LEMMA SurplusOfLong ==
  ASSUME NEW sc \in Int, NEW n \in Int, NEW c \in Int, NEW p \in Int,
         NEW scale \in Int, NEW ratio \in Int, NEW have \in Int
  PROVE  scale * (have + (sc * (n * p - c))) - sc * n * p * ratio
           = p * (sc * n * (scale - ratio)) - (sc * c - have) * scale
<1>1. PICK u \in Int, v \in Int : u = sc * n * p /\ v = sc * c
  OBVIOUS
<1>2. sc * (n * p - c) = u - v
  BY <1>1
<1>3. p * (sc * n * (scale - ratio)) = u * (scale - ratio)
  BY <1>1
<1>4. scale * (have + (u - v)) - u * ratio = u * (scale - ratio) - (v - have) * scale
  OBVIOUS
<1> QED
  BY <1>1, <1>2, <1>3, <1>4

LEMMA SurplusOfShort ==
  ASSUME NEW sc \in Int, NEW n \in Int, NEW c \in Int, NEW p \in Int,
         NEW scale \in Int, NEW ratio \in Int, NEW have \in Int
  PROVE  scale * (have + (sc * ((-n) * p - (-c)))) - sc * n * p * ratio
           = (sc * c + have) * scale - p * (sc * n * (scale + ratio))
<1>1. PICK u \in Int, v \in Int : u = sc * n * p /\ v = sc * c
  OBVIOUS
<1>2. sc * ((-n) * p - (-c)) = v - u
  BY <1>1
<1>3. p * (sc * n * (scale + ratio)) = u * (scale + ratio)
  BY <1>1
<1>4. scale * (have + (v - u)) - u * ratio = (v + have) * scale - u * (scale + ratio)
  OBVIOUS
<1> QED
  BY <1>1, <1>2, <1>3, <1>4

LEMMA Liquidation == BookInv => LiquidationAtMaintenance
<1> SUFFICES ASSUME BookInv, NEW s \in Symbols, pos[s].qty # 0,
                    account.mode[s] => pos[s].wallet # 0, ~PriceIsTold(s),
                    NEW l, l = LiquidationPrice(s), NEW p \in PricesAround(l)
             PROVE  /\ p * l.den > l.num => SignOf(pos[s].qty) * Surplus(s, p) > 0
                    /\ p * l.den < l.num => SignOf(pos[s].qty) * Surplus(s, p) < 0
  BY DEF LiquidationAtMaintenance
<1>1. BookType
  BY DEF BookInv
<1>2. PICK k, have, backing :
        /\ k = Risk(s) /\ backing = LiquidationBalance(s)
        /\ have = backing + Scale * k.cum
  OBVIOUS
<1>3. /\ k.ratio \in Nat /\ k.scale \in Nat \ {0} /\ k.cum \in Nat
      /\ Scale \in Nat \ {0}
  BY <1>1, <1>2, RiskType, FuturesAssumption
<1>4. backing \in Int /\ have \in Int
  <2>1. backing \in Int
    BY <1>1, <1>2, BackingType
  <2>2. Scale * k.cum \in Int
    BY <1>3
  <2> QED
    BY <1>2, <2>1, <2>2
<1>5. PICK raw \in Int, den \in Nat \ {0}, n \in Nat \ {0}, c \in Nat :
        /\ LiquidationFormula(s) = [num |-> Plus(raw), den |-> den]
        /\ n = Abs(pos[s].qty) /\ c = Abs(pos[s].basis)
        /\ pos[s].qty > 0 => /\ raw = (Scale * c - have) * k.scale
                             /\ den = Scale * n * (k.scale - k.ratio)
        /\ pos[s].qty < 0 => /\ raw = (Scale * c + have) * k.scale
                             /\ den = Scale * n * (k.scale + k.ratio)
  BY <1>1, <1>2, FormulaType
<1>6. l.num = Plus(raw) /\ l.den = den
  BY <1>5 DEF LiquidationPrice
<1>7. p \in Nat /\ p > 0
  <2>1. Plus(raw) \in Nat
    BY DEF Plus
  <2>2. l.num \div l.den \in Nat
    BY <1>6, <2>1, MarginNat
  <2> QED
    BY <2>2, FuturesAssumption DEF PricesAround
<1>8. PICK q \in Int, b \in Int : q = pos[s].qty /\ b = pos[s].basis
  BY <1>1, PositionFields DEF BookType, SoundPositions
<1>9. (q > 0 => b >= 0) /\ (q < 0 => b <= 0)
  BY <1>1, <1>8, PositionFields DEF BookType, SoundPositions
<1>10. Surplus(s, p) = k.scale * (have + (Scale * (q * p - b)))
                         - Scale * n * p * k.ratio
  <2>1. backing = IF account.mode[s] THEN Scale * pos[s].wallet
                  ELSE Scale * (MarginBalance - UnrealizedPnl(s))
                         - TotalMaintMargin(Symbols \ {s})
    BY <1>1, <1>2, BackingType
  <2>2. Surplus(s, p) = k.scale * (backing + Scale * (q * p - b) + Scale * k.cum)
                          - Scale * n * p * k.ratio
    BY <1>2, <1>5, <1>8, <2>1 DEF Surplus
  <2>3. PICK x \in Int, y \in Int : x = Scale * (q * p - b) /\ y = Scale * k.cum
    BY <1>3, <1>7
  <2>4. backing + x + y = have + x
    BY <1>2, <1>4, <2>3
  <2> QED
    BY <2>2, <2>3, <2>4
<1>11. p * den \in Nat
  BY <1>7
<1>12. SignOf(q) * Surplus(s, p) = p * den - raw
  <2>1. CASE q > 0
    <3>1. q = n /\ b = c /\ SignOf(q) = 1
      BY <1>5, <1>8, <1>9, <2>1 DEF Abs, SignOf
    <3>2. /\ raw = (Scale * c - have) * k.scale
          /\ den = Scale * n * (k.scale - k.ratio)
          /\ Surplus(s, p) = k.scale * (have + (Scale * (n * p - c)))
                               - Scale * n * p * k.ratio
      BY <1>5, <1>8, <1>10, <2>1, <3>1
    <3>3. /\ Scale \in Int /\ n \in Int /\ c \in Int /\ p \in Int
          /\ k.scale \in Int /\ k.ratio \in Int /\ have \in Int
      BY <1>3, <1>4, <1>5, <1>7
    <3>4. Surplus(s, p) = p * den - raw
      BY <3>2, <3>3, SurplusOfLong
    <3> QED
      BY <1>11, <3>1, <3>4
  <2>2. CASE q < 0
    <3>1. q = -n /\ b = -c /\ SignOf(q) = -1
      BY <1>5, <1>8, <1>9, <2>2 DEF Abs, SignOf
    <3>2. Surplus(s, p) = raw - p * den
      BY <1>3, <1>4, <1>5, <1>7, <1>8, <1>10, <2>2, <3>1, SurplusOfShort
    <3> QED
      BY <1>11, <3>1, <3>2
  <2> QED
    BY <1>8, <2>1, <2>2
<1> QED
  BY <1>6, <1>8, <1>11, <1>12 DEF Plus

-----------------------------------------------------------------------------
(* The theorems *)

LEMMA BookInvariance == FuturesSpec => []BookInv
<1> QED
  BY BookInit, BookStep, PTL DEF FuturesSpec

\* For any finite sets of symbols and orders, any sizes, signs, limits, prices,
\* fees and leverages, any wallet states of the platform with cross or isolated
\* margin, of the account and of every symbol apart: whatever the order of
\* fills, ticks, restores and reloads, positions, balance and isolated wallets
\* account for every fill, and the break-even price carries exactly the fees
\* less the profit since the position was opened, until a book takes a zero for
\* a missing value.
THEOREM BooksAlwaysSound == FuturesSpec => []BooksSound
<1>1. BookInv => BooksSound
  <2> SUFFICES ASSUME BookInv PROVE BooksSound
    OBVIOUS
  <2>1. BookType /\ EntriesSound /\ BooksBalance /\ BreakEvenRecovers
    BY DEF BookInv
  <2>2. ASSUME NEW s \in Symbols
        PROVE  /\ pos[s] \in Positions
               /\ pos[s].qty = 0 => pos[s].basis = 0 /\ pos[s].carry = 0
               /\ pos[s].qty * pos[s].basis >= 0
    <3>1. PICK p : p = pos[s] /\ SoundPosition(p)
      BY <2>1 DEF BookType, SoundPositions
    <3>2. /\ p.qty \in Int /\ p.basis \in Int
          /\ p.qty = 0 => p.basis = 0 /\ p.carry = 0
          /\ p.qty > 0 => p.basis >= 0
          /\ p.qty < 0 => p.basis <= 0
      BY <3>1, PositionFields
    <3>3. PICK q \in Int, c \in Int : q = p.qty /\ c = p.basis
      BY <3>2
    <3>4. q * c >= 0
      <4>1. CASE q = 0
        BY <4>1
      <4>2. CASE q > 0
        BY <3>2, <3>3, <4>2
      <4>3. CASE q < 0
        <5>1. (-q) * (-c) >= 0 /\ (-q) * (-c) = q * c
          BY <3>2, <3>3, <4>3
        <5> QED
          BY <5>1
      <4> QED
        BY <3>3, <4>1, <4>2, <4>3
    <3> QED
      BY <3>1, <3>2, <3>3, <3>4 DEF SoundPosition
  <2>3. \A o \in OpenOrders : /\ stage[o] = "live"
                              /\ entries[o].exec + entries[o].rem = Size[o]
                              /\ pos[SymbolOf[o]].in
    BY <2>1 DEF EntriesSound, OpenOrders
  <2>4. balance \in Int
    BY <2>1 DEF BookType
  <2>5. FuturesTypeOK
    BY <2>2, <2>3, <2>4 DEF FuturesTypeOK, Positions
  <2> QED
    BY <2>1, <2>5 DEF BooksSound
<1> QED
  BY <1>1, BookInvariance, PTL

\* For all of them too: an open position is always marked, and an order that
\* the balance guard let through while no other was live, and that is filled at
\* once, leaves the account covered but for the fee and for what its fill and
\* its mark are off the price of the check, or no worse than it was.
THEOREM MarginAlwaysSound == FuturesSpec => []MarginSound
<1>1. BookInv => MarginSound
  <2> SUFFICES ASSUME BookInv PROVE MarginSound
    OBVIOUS
  <2>1. OpenIsMarked
    BY PositionFields DEF BookInv, BookType, SoundPositions, OpenIsMarked
  <2>2. GuardCovers
    BY DEF BookInv, LoneSound, Waiting, None, GuardCovers
  <2> QED
    BY <2>1, <2>2 DEF MarginSound
<1> QED
  BY <1>1, BookInvariance, PTL

\* And for any table of risk brackets, or none: the liquidation price that is
\* computed parts the prices at which a position keeps its maintenance margin
\* from those at which it does not, whatever the other positions are.
THEOREM LiquidationAlwaysAtMaintenance == FuturesSpec => []LiquidationAtMaintenance
<1> QED
  BY Liquidation, BookInvariance, PTL

=============================================================================
