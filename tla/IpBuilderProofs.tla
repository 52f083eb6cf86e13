--------------------------- MODULE IpBuilderProofs ---------------------------
(***************************************************************************)
(* Proofs about IpBuilder.                                                 *)
(***************************************************************************)
EXTENDS IpBuilder, FiniteSetTheorems, WellFoundedInduction, TLAPS

------------------------------------------------------------------------------
(* Arithmetic                                                              *)

\* Induction over the naturals for a set of them.
LEMMA SetInduction ==
  ASSUME NEW P, 0 \in P, \A n \in Nat : n \in P => n + 1 \in P
  PROVE  Nat \subseteq P
<1> SUFFICES ASSUME Nat \ P # {}
    PROVE  FALSE
  OBVIOUS
<1>1. PICK m \in Nat \ P : \A y \in Nat \ P : ~ (<<y, m>> \in OpToRel(<, Nat))
  BY NatLessThanWellFounded, WFMin
<1>2. m - 1 \in Nat /\ m - 1 < m
  OBVIOUS
<1>3. m - 1 \in P
  BY <1>1, <1>2 DEF OpToRel
<1>4. QED
  BY <1>2, <1>3

\* The widths: a word is two bytes, and three flags and an offset.
LEMMA Widths ==
  Word \in Nat /\ Word >= 8 /\ Byte \in Nat \ {0} /\ OffsetBits \in Nat \ {0}
  BY IpBuilderAssumption

\* Quotient and remainder of a number.
LEMMA Divides ==
  ASSUME NEW b \in Nat \ {0}, NEW n \in Nat
  PROVE  n \div b \in Nat /\ n % b \in 0..b-1 /\ n = b * (n \div b) + (n % b)
  OBVIOUS

\* They are those it was put together from.
LEMMA DividesOnce ==
  ASSUME NEW b \in Nat \ {0}, NEW q \in Nat, NEW r \in 0..b-1
  PROVE  (b * q + r) \div b = q /\ (b * q + r) % b = r
  OBVIOUS

------------------------------------------------------------------------------
(* The sum with its carries added                                          *)

\* The sum of 16-bit words is kept modulo Word-1, and no number but 0 has the
\* sum 0: r is what is left of n.
Ones == Word - 1
IsLeft(n, r) == r \in 0..Ones /\ (r = 0 <=> n = 0) /\ \E k \in Nat : n = r + k * Ones

\* Nothing else is left of n.
LEMMA LeftIsOne ==
  ASSUME NEW n \in Nat, NEW r, NEW s, IsLeft(n, r), IsLeft(n, s)
  PROVE  r = s
<1>0. Ones \in Nat /\ Ones >= 7
  BY Widths DEF Ones
<1>1. PICK k \in Nat : n = r + k * Ones
  BY DEF IsLeft
<1>2. PICK j \in Nat : n = s + j * Ones
  BY DEF IsLeft
<1>3. r \in 0..Ones /\ s \in 0..Ones /\ (r = 0 <=> s = 0)
  BY DEF IsLeft
<1>4. r - s = (j - k) * Ones
  BY <1>0, <1>1, <1>2, <1>3
<1>5. r - s < Ones /\ s - r < Ones
  BY <1>0, <1>3
<1>6. CASE j - k >= 1
  <2>1. (j - k) * Ones >= Ones
    BY <1>0, <1>6
  <2>2. QED
    BY <1>0, <1>3, <1>4, <1>5, <2>1
<1>7. CASE k - j >= 1
  <2>1. (k - j) * Ones >= Ones
    BY <1>0, <1>7
  <2>2. s - r = (k - j) * Ones
    BY <1>0, <1>1, <1>2, <1>3
  <2>3. QED
    BY <1>0, <1>3, <1>5, <2>1, <2>2
<1>8. CASE j = k
  BY <1>0, <1>3, <1>4, <1>8
<1>9. QED
  BY <1>6, <1>7, <1>8

\* Adding the carries once leaves what was left.
LEMMA CarriesKeep ==
  ASSUME NEW n \in Nat, n >= Word
  PROVE  LET m == (n % Word) + (n \div Word)
         IN  m \in Nat /\ m < n /\ \A r : IsLeft(m, r) => IsLeft(n, r)
<1> DEFINE q == n \div Word
           c == n % Word
           m == c + q
<1>0. Word \in Nat \ {0} /\ Ones \in Nat /\ Ones >= 7 /\ Word = Ones + 1
  BY Widths DEF Ones
<1>1. q \in Nat /\ c \in 0..Ones /\ n = Word * q + c
  <2>1. q \in Nat /\ c \in 0..Word-1 /\ n = Word * q + c
    BY <1>0, Divides
  <2> HIDE DEF q, c
  <2>2. QED
    BY <1>0, <2>1
<1> HIDE DEF q, c
<1>2. q >= 1
  BY <1>0, <1>1
<1>3. Word * q = Ones * q + q
  BY <1>0, <1>1
<1>4. Ones * q >= 1 /\ Ones * q \in Nat
  BY <1>0, <1>1, <1>2
<1>5. m \in Nat /\ m < n /\ m > 0 /\ n = m + Ones * q
  BY <1>0, <1>1, <1>2, <1>3, <1>4
<1>6. ASSUME NEW r, IsLeft(m, r)
      PROVE  IsLeft(n, r)
  <2>1. PICK k \in Nat : m = r + k * Ones
    BY <1>6 DEF IsLeft
  <2>2. r \in 0..Ones /\ r # 0 /\ n # 0
    BY <1>0, <1>5, <1>6 DEF IsLeft
  <2>3. n = r + (k + q) * Ones /\ k + q \in Nat
    BY <1>0, <1>1, <1>5, <2>1, <2>2
  <2>4. QED
    BY <2>2, <2>3 DEF IsLeft
<1>7. QED
  BY <1>5, <1>6 DEF m, q, c

\* A number below Word is what is left of it.
LEMMA SmallIsLeft ==
  ASSUME NEW n \in Nat, n < Word
  PROVE  IsLeft(n, n)
<1>1. Ones \in Nat /\ n \in 0..Ones
  BY Widths DEF Ones
<1>2. n = n + 0 * Ones
  BY <1>1
<1>3. QED
  BY <1>1, <1>2 DEF IsLeft

\* Something is left of every number.
LEMMA SomethingIsLeft ==
  \A n \in Nat : \E r : IsLeft(n, r)
<1> DEFINE P == {n \in Nat : \A i \in 0..n : \E r : IsLeft(i, r)}
<1>1. 0 \in P
  BY SmallIsLeft, Widths
<1>2. ASSUME NEW n \in Nat, n \in P
      PROVE  n + 1 \in P
  <2>1. \E r : IsLeft(n + 1, r)
    <3>1. CASE n + 1 < Word
      BY <3>1, SmallIsLeft
    <3>2. CASE n + 1 >= Word
      <4> DEFINE m == ((n + 1) % Word) + ((n + 1) \div Word)
      <4>1. m \in Nat /\ m < n + 1 /\ \A r : IsLeft(m, r) => IsLeft(n + 1, r)
        BY <3>2, CarriesKeep
      <4>2. m \in 0..n
        BY <4>1
      <4>3. QED
        BY <1>2, <4>1, <4>2
    <3>3. QED
      BY <3>1, <3>2, Widths
  <2>2. QED
    BY <1>2, <2>1
<1>3. Nat \subseteq P
  <2> HIDE DEF P
  <2>1. QED
    BY <1>1, <1>2, SetInduction
<1>4. QED
  BY <1>3

\* EndAround is defined: some function adds the carries until there are none.
LEMMA EndAroundStep ==
  ASSUME NEW n \in Nat
  PROVE  EndAround[n] = IF n < Word THEN n ELSE EndAround[(n % Word) + (n \div Word)]
<1> DEFINE L == [i \in Nat |-> CHOOSE r : IsLeft(i, r)]
           Steps(f) == f = [i \in Nat |-> IF i < Word THEN i
                                          ELSE f[(i % Word) + (i \div Word)]]
<1>1. ASSUME NEW i \in Nat
      PROVE  IsLeft(i, L[i])
  BY SomethingIsLeft
<1>2. ASSUME NEW i \in Nat
      PROVE  L[i] = IF i < Word THEN i ELSE L[(i % Word) + (i \div Word)]
  <2>1. CASE i < Word
    BY <1>1, <2>1, SmallIsLeft, LeftIsOne
  <2>2. CASE i >= Word
    <3> DEFINE m == (i % Word) + (i \div Word)
    <3>1. m \in Nat /\ \A r : IsLeft(m, r) => IsLeft(i, r)
      BY <2>2, CarriesKeep
    <3>2. IsLeft(i, L[m])
      BY <1>1, <3>1
    <3>3. L[i] = L[m]
      <4> HIDE DEF L, m
      <4>1. QED
        BY <1>1, <3>2, LeftIsOne
    <3>4. QED
      BY <2>2, <3>3, Widths
  <2>3. QED
    BY <2>1, <2>2, Widths
<1>3. Steps(L)
  <2>1. DOMAIN L = Nat /\ L = [i \in Nat |-> L[i]]
    OBVIOUS
  <2> HIDE DEF L
  <2>2. QED
    BY <1>2, <2>1
<1>4. Steps(EndAround)
  <2>1. EndAround = CHOOSE f : Steps(f)
    BY DEF EndAround
  <2> HIDE DEF Steps, L
  <2>2. QED
    BY <1>3, <2>1
<1>5. QED
  BY <1>4

\* And what it leaves is what is left of the sum.
LEMMA EndAroundLeaves ==
  \A n \in Nat : IsLeft(n, EndAround[n])
<1> DEFINE P == {n \in Nat : \A i \in 0..n : IsLeft(i, EndAround[i])}
<1>0. ASSUME NEW n \in Nat, n < Word
      PROVE  IsLeft(n, EndAround[n])
  BY <1>0, SmallIsLeft, EndAroundStep
<1>1. 0 \in P
  BY <1>0, Widths
<1>2. ASSUME NEW n \in Nat, n \in P
      PROVE  n + 1 \in P
  <2>1. IsLeft(n + 1, EndAround[n + 1])
    <3>1. CASE n + 1 < Word
      BY <3>1, <1>0
    <3>2. CASE n + 1 >= Word
      <4> DEFINE m == ((n + 1) % Word) + ((n + 1) \div Word)
      <4>1. m \in Nat /\ m < n + 1 /\ \A r : IsLeft(m, r) => IsLeft(n + 1, r)
        BY <3>2, CarriesKeep
      <4>2. m \in 0..n
        BY <4>1
      <4>3. EndAround[n + 1] = EndAround[m]
        BY <3>2, EndAroundStep, Widths
      <4>4. QED
        BY <1>2, <4>1, <4>2, <4>3
    <3>3. QED
      BY <3>1, <3>2, Widths
  <2>2. QED
    BY <1>2, <2>1
<1>3. Nat \subseteq P
  <2> HIDE DEF P
  <2>1. QED
    BY <1>1, <1>2, SetInduction
<1>4. QED
  BY <1>3

------------------------------------------------------------------------------
(* The sum of a header's words                                             *)

\* How SumOfWords goes through the words: g is the sum of each set of them.
Pick(S) == CHOOSE w \in S : TRUE
NextSum(g, h, S) == IF S = {} THEN 0 ELSE h[Pick(S)] + g[S \ {Pick(S)}]
IsSum(g, h) == g = [S \in SUBSET Words |-> NextSum(g, h, S)]
Sums(h) == CHOOSE g : IsSum(g, h)

\* The words of a header are finitely many, and so are those of a part of it.
LEMMA WordsAreFinite ==
  ASSUME NEW S \in SUBSET Words
  PROVE  /\ IsFiniteSet(S) /\ Cardinality(S) \in Nat
         /\ \A w \in S : Cardinality(S \ {w}) = Cardinality(S) - 1 /\ Cardinality(S) > 0
         /\ Cardinality(S) = 0 => S = {}
<1>1. IsFiniteSet({"frag_off", "check"})
  <2>1. {"frag_off", "check"} = {"frag_off"} \union {"check"}
    OBVIOUS
  <2>2. IsFiniteSet({"frag_off"}) /\ IsFiniteSet({"check"})
    BY FS_Singleton, Zenon
  <2>3. IsFiniteSet({"frag_off"} \union {"check"})
    BY <2>2, FS_Union, Zenon
  <2>4. QED
    BY <2>1, <2>3, Zenon
<1>2. IsFiniteSet(Words)
  BY <1>1, IpBuilderAssumption, FS_Union DEF Words
<1>3. IsFiniteSet(S) /\ Cardinality(S) \in Nat
  BY <1>2, FS_Subset, FS_CardinalityType
<1>4. QED
  BY <1>3, FS_RemoveElement, FS_EmptySet

\* SumOfWords is the sum of all the words.
LEMMA SumOfWordsIs ==
  ASSUME NEW h, DOMAIN h = Words
  PROVE  SumOfWords(h) = Sums(h)[Words]
  BY DEF SumOfWords, FoldFunction, FoldFunctionOnSet, MapThenFoldSet, Sums, IsSum, NextSum, Pick

\* There is such a g: summing up sets of n words, for a greater and greater n.
LEMMA SumsExist ==
  ASSUME NEW h \in [Words -> Nat]
  PROVE  IsSum(Sums(h), h)
<1> DEFINE UpTo(g, n) == \A S \in SUBSET Words : Cardinality(S) <= n => g[S] = NextSum(g, h, S)
           P == {n \in Nat : \E g : UpTo(g, n)}
<1>1. 0 \in P
  <2>1. UpTo([S \in SUBSET Words |-> 0], 0)
    BY WordsAreFinite DEF NextSum
  <2>2. QED
    BY <2>1
<1>2. ASSUME NEW n \in Nat, n \in P
      PROVE  n + 1 \in P
  <2>1. PICK g : UpTo(g, n)
    BY <1>2
  <2> DEFINE f == [S \in SUBSET Words |-> NextSum(g, h, S)]
  <2>2. ASSUME NEW S \in SUBSET Words, Cardinality(S) <= n + 1
        PROVE  f[S] = NextSum(f, h, S)
    <3>1. CASE S = {}
      BY <3>1 DEF NextSum
    <3>2. CASE S # {}
      <4> DEFINE R == S \ {Pick(S)}
      <4>1. Pick(S) \in S
        BY <3>2 DEF Pick
      <4>2. R \in SUBSET Words /\ Cardinality(R) <= n
        BY <2>2, <4>1, WordsAreFinite
      <4>3. f[R] = g[R]
        BY <2>1, <4>2
      <4>4. f[S] = h[Pick(S)] + g[R] /\ NextSum(f, h, S) = h[Pick(S)] + f[R]
        BY <3>2 DEF NextSum
      <4>5. QED
        BY <4>3, <4>4
    <3>3. QED
      BY <3>1, <3>2
  <2>3. UpTo(f, n + 1)
    <3> HIDE DEF f
    <3>1. QED
      BY <2>2
  <2>4. \E e : UpTo(e, n + 1)
    <3> HIDE DEF f
    <3>1. QED
      BY <2>3
  <2>5. QED
    BY <2>4
<1>3. Nat \subseteq P
  <2> HIDE DEF P
  <2>1. QED
    BY <1>1, <1>2, SetInduction
<1>4. PICK g : UpTo(g, Cardinality(Words))
  BY <1>3, WordsAreFinite
<1> DEFINE f == [S \in SUBSET Words |-> g[S]]
<1>5. ASSUME NEW S \in SUBSET Words
      PROVE  f[S] = NextSum(f, h, S)
  <2>1. Cardinality(S) <= Cardinality(Words)
    BY WordsAreFinite, FS_Subset
  <2>2. g[S] = NextSum(g, h, S)
    BY <1>4, <2>1
  <2>3. NextSum(f, h, S) = NextSum(g, h, S)
    BY DEF NextSum
  <2>4. QED
    BY <2>2, <2>3
<1>6. IsSum(f, h)
  <2>1. f = [S \in SUBSET Words |-> f[S]]
    OBVIOUS
  <2> HIDE DEF f
  <2>2. QED
    BY <1>5, <2>1 DEF IsSum
<1>7. QED
  BY <1>6 DEF Sums

\* The sum of no words, and the sum of some.
LEMMA SumOfSome ==
  ASSUME NEW h \in [Words -> Nat], NEW S \in SUBSET Words
  PROVE  /\ S = {} => Sums(h)[S] = 0
         /\ S # {} => Sums(h)[S] = h[Pick(S)] + Sums(h)[S \ {Pick(S)}]
<1> DEFINE g == Sums(h)
<1>1. IsSum(g, h)
  BY SumsExist
<1> HIDE DEF g
<1>2. g[S] = NextSum(g, h, S)
  BY <1>1 DEF IsSum
<1>3. QED
  BY <1>2 DEF NextSum, g

\* It does not matter which word is summed up first.
Splits(h, S) ==
  Sums(h)[S] \in Nat /\ \A w \in S : Sums(h)[S] = h[w] + Sums(h)[S \ {w}]

\* If so of all sets of a word less, then of a set of words.
LEMMA SplitsStep ==
  ASSUME NEW h \in [Words -> Nat], NEW S \in SUBSET Words, S # {},
         \A w \in S : Splits(h, S \ {w}) /\ \A v \in S \ {w} : Splits(h, (S \ {w}) \ {v})
  PROVE  Splits(h, S)
<1> DEFINE g == Sums(h)
           x == Pick(S)
<1>1. x \in S
  BY DEF Pick
<1>2. g[S] = h[x] + g[S \ {x}]
  BY SumOfSome
<1>3. \A w \in S : /\ g[S \ {w}] \in Nat
                   /\ \A v \in S \ {w} : /\ g[(S \ {w}) \ {v}] \in Nat
                                         /\ g[S \ {w}] = h[v] + g[(S \ {w}) \ {v}]
  BY DEF Splits
<1> HIDE DEF g, x
<1>4. \A w \in S : h[w] \in Nat
  OBVIOUS
<1>5. g[S] \in Nat
  BY <1>1, <1>2, <1>3, <1>4
<1>6. ASSUME NEW w \in S
      PROVE  g[S] = h[w] + g[S \ {w}]
  <2>1. CASE w = x
    BY <1>2, <2>1, Zenon
  <2>2. CASE w # x
    <3>1. (S \ {x}) \ {w} = (S \ {w}) \ {x}
      OBVIOUS
    <3>2. g[(S \ {x}) \ {w}] = g[(S \ {w}) \ {x}]
      BY <3>1, Zenon
    <3>3. g[S \ {x}] = h[w] + g[(S \ {x}) \ {w}]
      BY <1>1, <1>3, <2>2
    <3>4. g[S \ {w}] = h[x] + g[(S \ {w}) \ {x}] /\ g[(S \ {w}) \ {x}] \in Nat
      BY <1>1, <1>3, <2>2
    <3>5. h[x] \in Nat /\ h[w] \in Nat
      BY <1>1, <1>4
    <3> DEFINE b == g[(S \ {w}) \ {x}]
    <3>6. g[S \ {x}] = h[w] + b /\ g[S \ {w}] = h[x] + b /\ b \in Nat
      BY <3>2, <3>3, <3>4, Zenon
    <3> HIDE DEF b
    <3>7. QED
      BY ONLY <1>2, <3>5, <3>6
  <2>3. QED
    BY <2>1, <2>2
<1>7. QED
  BY <1>5, <1>6 DEF Splits, g

\* It holds of every set of words.
LEMMA SumSplits ==
  ASSUME NEW h \in [Words -> Nat], NEW S \in SUBSET Words
  PROVE  Splits(h, S)
<1> DEFINE P == {n \in Nat : \A T \in SUBSET Words : Cardinality(T) <= n => Splits(h, T)}
<1>0. ASSUME NEW T \in SUBSET Words, T = {}
      PROVE  Splits(h, T)
  <2>1. Sums(h)[T] = 0
    BY <1>0, SumOfSome
  <2>2. \A w \in T : FALSE
    BY <1>0
  <2>3. QED
    BY ONLY <2>1, <2>2 DEF Splits
<1>1. 0 \in P
  <2>1. ASSUME NEW T \in SUBSET Words, Cardinality(T) <= 0
        PROVE  Splits(h, T)
    <3>1. T = {}
      BY <2>1, WordsAreFinite
    <3>2. QED
      BY <1>0, <3>1
  <2>2. QED
    BY <2>1
<1>2. ASSUME NEW n \in Nat, n \in P
      PROVE  n + 1 \in P
  <2>1. ASSUME NEW T \in SUBSET Words, Cardinality(T) <= n + 1
        PROVE  Splits(h, T)
    <3>1. ASSUME NEW w \in T
          PROVE  T \ {w} \in SUBSET Words /\ Cardinality(T \ {w}) <= n
      BY <2>1, WordsAreFinite
    <3>2. ASSUME NEW w \in T, NEW v \in T \ {w}
          PROVE  (T \ {w}) \ {v} \in SUBSET Words /\ Cardinality((T \ {w}) \ {v}) <= n
      <4> DEFINE R == T \ {w}
      <4>1. R \in SUBSET Words /\ Cardinality(R) <= n /\ v \in R
        BY <3>1
      <4> HIDE DEF R
      <4>2. Cardinality(R \ {v}) <= n
        BY <4>1, WordsAreFinite
      <4>3. QED
        BY <4>1, <4>2 DEF R
    <3>3. \A w \in T : /\ Splits(h, T \ {w})
                       /\ \A v \in T \ {w} : Splits(h, (T \ {w}) \ {v})
      BY <1>2, <3>1, <3>2
    <3>4. CASE T = {}
      BY <1>0, <3>4
    <3>5. CASE T # {}
      BY <3>3, <3>5, SplitsStep
    <3>6. QED
      BY <3>4, <3>5
  <2>2. QED
    BY <2>1
<1>3. Nat \subseteq P
  <2> HIDE DEF P
  <2>1. QED
    BY <1>1, <1>2, SetInduction
<1>4. Cardinality(S) \in P
  BY <1>3, WordsAreFinite
<1>5. Cardinality(S) <= Cardinality(S)
  BY WordsAreFinite
<1>6. QED
  BY <1>4, <1>5

\* A sum depends on the words that are summed up only.
LEMMA SumsAgree ==
  ASSUME NEW h \in [Words -> Nat], NEW k \in [Words -> Nat],
         NEW S \in SUBSET Words, \A w \in S : h[w] = k[w]
  PROVE  Sums(h)[S] = Sums(k)[S]
<1> DEFINE Agrees(T) == (\A w \in T : h[w] = k[w]) => Sums(h)[T] = Sums(k)[T]
           P == {n \in Nat : \A T \in SUBSET Words : Cardinality(T) <= n => Agrees(T)}
<1>0. ASSUME NEW T \in SUBSET Words, T = {}
      PROVE  Agrees(T)
  <2>1. Sums(h)[T] = 0 /\ Sums(k)[T] = 0
    BY <1>0, SumOfSome
  <2>2. QED
    BY <2>1
<1>1. 0 \in P
  <2>1. ASSUME NEW T \in SUBSET Words, Cardinality(T) <= 0
        PROVE  Agrees(T)
    <3>1. T = {}
      BY <2>1, WordsAreFinite
    <3> HIDE DEF Agrees
    <3>2. QED
      BY <1>0, <3>1
  <2>2. QED
    BY <2>1
<1>2. ASSUME NEW n \in Nat, n \in P
      PROVE  n + 1 \in P
  <2>1. ASSUME NEW T \in SUBSET Words, Cardinality(T) <= n + 1, NEW x \in T
        PROVE  Agrees(T)
    <3>1. T \ {x} \in SUBSET Words /\ Cardinality(T \ {x}) <= n
      BY <2>1, WordsAreFinite
    <3>2. Agrees(T \ {x})
      BY <1>2, <3>1
    <3>3. /\ Sums(h)[T] = h[x] + Sums(h)[T \ {x}]
          /\ Sums(k)[T] = k[x] + Sums(k)[T \ {x}]
      BY SumSplits DEF Splits
    <3>4. QED
      BY <3>2, <3>3
  <2>2. ASSUME NEW T \in SUBSET Words, Cardinality(T) <= n + 1
        PROVE  Agrees(T)
    <3> HIDE DEF Agrees
    <3>1. CASE T = {}
      BY <1>0, <3>1
    <3>2. CASE T # {}
      BY <2>1, <2>2, <3>2
    <3>3. QED
      BY <3>1, <3>2
  <2>3. QED
    BY <2>2
<1>3. Nat \subseteq P
  <2> HIDE DEF P
  <2>1. QED
    BY <1>1, <1>2, SetInduction
<1>4. Cardinality(S) \in P
  BY <1>3, WordsAreFinite
<1>5. Cardinality(S) <= Cardinality(S)
  BY WordsAreFinite
<1>6. Agrees(S)
  BY <1>4, <1>5
<1>7. QED
  BY <1>6

\* The sum of a header is a number.
LEMMA SumIsNat ==
  ASSUME NEW h \in [Words -> Nat]
  PROVE  SumOfWords(h) \in Nat
<1>1. Splits(h, Words)
  BY SumSplits
<1>2. QED
  BY <1>1, SumOfWordsIs DEF Splits

\* And it changes by what one word changes by.
LEMMA SumChanges ==
  ASSUME NEW h \in [Words -> Nat], NEW k \in [Words -> Nat], NEW w \in Words,
         \A x \in Words \ {w} : h[x] = k[x]
  PROVE  SumOfWords(h) + k[w] = SumOfWords(k) + h[w]
<1> DEFINE R == Words \ {w}
<1>1. Sums(h)[R] = Sums(k)[R]
  BY SumsAgree
<1>2. Splits(h, R) /\ Splits(h, Words) /\ Splits(k, Words)
  BY SumSplits
<1>3. SumOfWords(h) = Sums(h)[Words] /\ SumOfWords(k) = Sums(k)[Words]
  BY SumOfWordsIs
<1>4. Sums(h)[R] \in Nat /\ Sums(h)[Words] = h[w] + Sums(h)[R]
      /\ Sums(k)[Words] = k[w] + Sums(k)[R]
  BY <1>2 DEF Splits
<1> HIDE DEF R
<1>5. h[w] \in Nat /\ k[w] \in Nat
  OBVIOUS
<1>6. QED
  BY ONLY <1>1, <1>3, <1>4, <1>5

------------------------------------------------------------------------------
(* The checksum and the byte order                                         *)

\* The words of a header are numbers, of 16 bits.
LEMMA HeadersHaveNumbers == HeaderType \subseteq [Words -> Nat] /\ Ones \in Nat /\ Ones >= 7
  BY Widths DEF HeaderType, Ones

\* A checksum fits its field.
LEMMA ChecksumFits ==
  ASSUME NEW h \in HeaderType
  PROVE  CalcChecksum(h) \in 0..Word-1
<1>1. SumOfWords(h) \in Nat
  BY HeadersHaveNumbers, SumIsNat
<1>2. EndAround[SumOfWords(h)] \in 0..Ones
  BY <1>1, EndAroundLeaves DEF IsLeft
<1>3. QED
  BY <1>2, Widths DEF CalcChecksum, Ones

\* A header verifies if the sum of its words is a multiple of Ones, and not 0.
LEMMA VerifiesMeans ==
  ASSUME NEW h \in HeaderType
  PROVE  Verifies(h) <=> \E k \in Nat : SumOfWords(h) = Ones + k * Ones
<1> DEFINE n == SumOfWords(h)
<1>1. n \in Nat
  BY HeadersHaveNumbers, SumIsNat
<1> HIDE DEF n
<1>2. Verifies(h) <=> EndAround[n] = Ones
  BY DEF Verifies, Ones, n
<1>3. IsLeft(n, EndAround[n])
  BY <1>1, EndAroundLeaves
<1>4. ASSUME NEW k \in Nat, n = Ones + k * Ones
      PROVE  EndAround[n] = Ones
  <2>1. k * Ones \in Nat
    BY HeadersHaveNumbers
  <2>2. Ones \in 0..Ones /\ Ones # 0 /\ n # 0
    BY <1>4, <2>1, HeadersHaveNumbers
  <2>3. IsLeft(n, Ones)
    BY <1>4, <2>2 DEF IsLeft
  <2>4. QED
    BY <1>1, <1>3, <2>3, LeftIsOne
<1>5. EndAround[n] = Ones => \E k \in Nat : n = Ones + k * Ones
  BY <1>3 DEF IsLeft
<1>6. QED
  BY <1>2, <1>4, <1>5 DEF n

\* The checksum of a header whose checksum is zero makes it verify.
LEMMA ChecksumVerifies ==
  ASSUME NEW h \in HeaderType, h["check"] = 0
  PROVE  Verifies([h EXCEPT !["check"] = CalcChecksum(h)])
<1> DEFINE c == CalcChecksum(h)
           f == [h EXCEPT !["check"] = c]
           n == SumOfWords(h)
           e == EndAround[n]
<1>1. c \in 0..Word-1 /\ "check" \in Words
  BY ChecksumFits DEF Words
<1>2. c = Ones - e
  BY Widths DEF CalcChecksum, Ones
<1> HIDE DEF c
<1>3. f \in HeaderType
  BY <1>1 DEF HeaderType
<1>4. f["check"] = c /\ \A x \in Words \ {"check"} : h[x] = f[x]
  BY <1>1 DEF HeaderType
<1> HIDE DEF f
<1>5. n + c = SumOfWords(f) + 0
  BY <1>1, <1>3, <1>4, SumChanges, HeadersHaveNumbers
<1>6. n \in Nat /\ SumOfWords(f) \in Nat
  BY <1>3, SumIsNat, HeadersHaveNumbers
<1> HIDE DEF n
<1>7. e \in 0..Ones /\ \E k \in Nat : n = e + k * Ones
  BY <1>6, EndAroundLeaves DEF IsLeft
<1> HIDE DEF e
<1>8. PICK k \in Nat : n = e + k * Ones
  BY <1>7
<1>9. SumOfWords(f) = Ones + k * Ones
  <2> DEFINE ko == k * Ones
             s == SumOfWords(f)
  <2>1. ko \in Nat /\ Ones \in Nat
    BY HeadersHaveNumbers
  <2>2. n = e + ko /\ n + c = s + 0 /\ s \in Nat
    BY <1>5, <1>6, <1>8
  <2> HIDE DEF ko, s
  <2>3. s = Ones + ko
    BY ONLY <2>1, <2>2, <1>2, <1>6, <1>7
  <2>4. QED
    BY <2>3 DEF ko, s
<1>10. Verifies(f)
  BY <1>3, <1>9, VerifiesMeans
<1>11. QED
  BY <1>10 DEF f, c

\* Two headers that verify and differ in one word only have all zeros there and
\* all ones.
LEMMA OneChangeIsSeen ==
  ASSUME NEW h \in HeaderType, NEW f \in HeaderType, NEW w \in Words,
         \A x \in Words \ {w} : h[x] = f[x], h[w] # f[w],
         Verifies(h), Verifies(f)
  PROVE  {h[w], f[w]} = {0, Word - 1}
<1> DEFINE a == h[w]
           b == f[w]
<1>0. Ones \in Nat /\ Ones >= 7 /\ Word - 1 = Ones
  BY HeadersHaveNumbers DEF Ones
<1>1. a \in 0..Ones /\ b \in 0..Ones /\ a # b
  BY DEF HeaderType, Ones
<1>2. PICK k \in Nat : SumOfWords(h) = Ones + k * Ones
  BY VerifiesMeans
<1>3. PICK j \in Nat : SumOfWords(f) = Ones + j * Ones
  BY VerifiesMeans
<1>4. SumOfWords(h) + b = SumOfWords(f) + a
  BY SumChanges, HeadersHaveNumbers
<1> HIDE DEF a, b
<1>5. b - a = (j - k) * Ones
  BY <1>0, <1>1, <1>2, <1>3, <1>4
<1>6. CASE j - k >= 1
  <2>1. (j - k) * Ones >= Ones
    BY <1>0, <1>6
  <2>2. b = Ones /\ a = 0
    BY ONLY <1>0, <1>1, <1>5, <2>1
  <2>3. QED
    BY <1>0, <2>2 DEF a, b
<1>7. CASE k - j >= 1
  <2>1. (k - j) * Ones >= Ones
    BY <1>0, <1>7
  <2>2. a - b = (k - j) * Ones
    BY <1>0, <1>1, <1>2, <1>3, <1>4
  <2>3. a = Ones /\ b = 0
    BY ONLY <1>0, <1>1, <2>1, <2>2
  <2>4. QED
    BY <1>0, <2>3 DEF a, b
<1>8. CASE j = k
  BY <1>0, <1>1, <1>5, <1>8
<1>9. QED
  BY <1>6, <1>7, <1>8

\* Swapping the bytes of a word twice gives the word.
LEMMA SwapsBack ==
  ASSUME NEW n \in 0..Word-1
  PROVE  Swapped(Swapped(n)) = n
<1> DEFINE q == n \div Byte
           r == n % Byte
<1>0. Byte \in Nat \ {0} /\ Word = Byte * Byte /\ n \in Nat /\ n < Word
  BY IpBuilderAssumption
<1>1. q \in Nat /\ r \in 0..Byte-1 /\ n = Byte * q + r
  BY <1>0, Divides
<1> HIDE DEF q, r
<1>2. q \in 0..Byte-1
  <2>1. CASE q >= Byte
    <3>1. Byte * q >= Byte * Byte
      BY <1>0, <1>1, <2>1
    <3>2. Byte * q \in Nat /\ Byte * Byte \in Nat
      BY <1>0, <1>1
    <3>3. QED
      BY <1>0, <1>1, <3>1, <3>2
  <2>2. QED
    BY <1>0, <1>1, <2>1
<1>3. Swapped(n) = Byte * r + q
  BY DEF Swapped, q, r
<1>4. (Byte * r + q) \div Byte = r /\ (Byte * r + q) % Byte = q
  BY <1>0, <1>1, <1>2, DividesOnce
<1>5. QED
  BY <1>1, <1>3, <1>4 DEF Swapped

------------------------------------------------------------------------------
(* Types                                                                   *)

\* There is no builder yet.
LEMMA InitTyped == Init => TypeOK
  BY IpBuilderAssumption DEF Init, FrameInit, TypeOK, Alive

\* A raw frame, dangling or not, shows a header.
LEMMA RawFramesTyped ==
  ASSUME TypeOK, NEW p \in Places, Alive(p), NEW h \in RawFrames(p)
  PROVE  h \in HeaderType /\ (start[p] = p => h = frame[p])
<1>1. start[p] \in Places
  BY DEF TypeOK
<1>2. CASE Alive(start[p])
  <2>1. h = frame[start[p]] /\ frame[start[p]] # None
    BY <1>2 DEF RawFrames, Alive
  <2>2. QED
    BY <1>1, <2>1 DEF TypeOK
<1>3. CASE ~ Alive(start[p])
  BY <1>3, IpBuilderAssumption DEF RawFrames
<1>4. QED
  BY <1>2, <1>3

\* A builder appears and disappears together with its raw frame.
LEMMA PlacesTyped ==
  ASSUME TypeOK, NEW p \in Places,
         Construct(p) \/ Destroy(p) \/ \E q \in Places : Copy(p, q)
  PROVE  TypeOK'
<1> USE IpBuilderAssumption DEF Alive
<1>1. Zero \in HeaderType
  BY Widths DEF Zero, HeaderType
<1>2. CASE Construct(p)
  BY <1>1, <1>2 DEF Construct, ConstructFrame, TypeOK
<1>3. CASE Destroy(p)
  BY <1>3 DEF Destroy, DestroyFrame, TypeOK
<1>4. ASSUME NEW q \in Places, Copy(p, q)
      PROVE  TypeOK'
  BY <1>4 DEF Copy, CopyFrame, TypeOK
<1>5. QED
  BY <1>2, <1>3, <1>4

\* A setter writes a word of its builder's header, or those of an address; the
\* word of the offset is SetFragmentOffset's, and the seal is Seal's to give.
LEMMA SettersWrite ==
  ASSUME TypeOK, NEW p \in Places,
         \/ \E a \in [AddrWords -> Numbers \intersect 0..Word-1] : SetAddress(p, a)
         \/ \E n \in Numbers :
              \/ SetCheckSum(p, n)
              \/ \E part \in Parts : Set(p, part, n)
  PROVE  /\ \E h \in HeaderType : /\ frame' = [frame EXCEPT ![p] = h]
                                  /\ h["frag_off"] = frame[p]["frag_off"]
         /\ Alive(p) /\ sealed' = sealed \ {p} /\ UNCHANGED <<start, offset>>
<1>1. frame[p] \in HeaderType
  BY DEF SetAddress, SetCheckSum, Set, Alive, TypeOK
<1>2. ASSUME NEW a \in [AddrWords -> Numbers \intersect 0..Word-1], SetAddress(p, a)
      PROVE  \E h \in HeaderType : /\ frame' = [frame EXCEPT ![p] = h]
                                   /\ h["frag_off"] = frame[p]["frag_off"]
  <2> DEFINE h == [w \in Words |-> IF w \in AddrWords THEN a[w] ELSE frame[p][w]]
  <2>1. h \in HeaderType
    BY <1>1 DEF HeaderType
  <2>2. h["frag_off"] = frame[p]["frag_off"]
    BY IpBuilderAssumption DEF Words
  <2>3. frame' = [frame EXCEPT ![p] = h]
    BY <1>2 DEF SetAddress
  <2>4. QED
    BY <2>1, <2>2, <2>3
<1>3. ASSUME NEW v \in 0..Word-1, NEW w \in PlainWords \union {"check"},
             frame' = [frame EXCEPT ![p][w] = v]
      PROVE  \E h \in HeaderType : /\ frame' = [frame EXCEPT ![p] = h]
                                   /\ h["frag_off"] = frame[p]["frag_off"]
  <2>1. [frame[p] EXCEPT ![w] = v] \in HeaderType
    BY <1>1 DEF HeaderType
  <2>2. [frame[p] EXCEPT ![w] = v]["frag_off"] = frame[p]["frag_off"]
    BY <1>1, IpBuilderAssumption DEF HeaderType, Words
  <2>3. QED
    BY <1>3, <2>1, <2>2
<1>4. \A n \in Numbers : n % Word \in 0..Word-1
  BY Widths, IpBuilderAssumption
<1>5. \A part \in Parts : part.word \in PlainWords
  BY IpBuilderAssumption
<1>6. QED
  BY <1>2, <1>3, <1>4, <1>5 DEF SetAddress, SetCheckSum, Set

\* SetFragmentOffset writes an offset and one of two flags.
LEMMA OffsetIsWritten ==
  ASSUME TypeOK, NEW p \in Places, NEW n \in Numbers, NEW more \in BOOLEAN,
         SetFragmentOffset(p, more, n)
  PROVE  \E h \in HeaderType, o \in Offsets :
           /\ frame' = [frame EXCEPT ![p] = h]
           /\ offset' = [offset EXCEPT ![p] = o]
           /\ h["frag_off"] = o.value + (IF o.more THEN OffsetBits ELSE 2 * OffsetBits)
<1> DEFINE v == n + (IF more THEN MoreFragments ELSE DontFragment)
           h == [frame[p] EXCEPT !["frag_off"] = v]
           o == [more |-> more, value |-> n]
<1>1. n \in 0..OffsetBits-1
  BY IpBuilderAssumption DEF SetFragmentOffset
<1>2. v \in 0..Word-1
  BY <1>1, IpBuilderAssumption DEF MoreFragments, DontFragment
<1>3. frame[p] \in HeaderType /\ "frag_off" \in Words
  BY DEF SetFragmentOffset, Alive, TypeOK, Words
<1>4. h \in HeaderType /\ h["frag_off"] = v
  BY <1>2, <1>3 DEF HeaderType
<1>5. o \in Offsets
  BY <1>1 DEF Offsets
<1>6. frame' = [frame EXCEPT ![p] = h] /\ offset' = [offset EXCEPT ![p] = o]
  BY DEF SetFragmentOffset
<1>7. h["frag_off"] = o.value + (IF o.more THEN OffsetBits ELSE 2 * OffsetBits)
  BY <1>4 DEF MoreFragments, DontFragment
<1> HIDE DEF h, o
<1>8. QED
  BY <1>4, <1>5, <1>6, <1>7

\* A seal writes a checksum, of p's header if p shows itself.
LEMMA SealWrites ==
  ASSUME TypeOK, NEW p \in Places, Seal(p) \/ SealRawFrame(p)
  PROVE  /\ \E f \in HeaderType :
              /\ frame' = [frame EXCEPT ![p] = [frame[p] EXCEPT !["check"] = CalcChecksum(f)]]
              /\ p \in sealed' => f = frame[p] /\ f["check"] = 0
         /\ Alive(p) /\ sealed' \subseteq sealed \union {p} /\ UNCHANGED <<start, offset>>
<1>1. frame[p] \in HeaderType /\ Alive(p)
  BY DEF Seal, SealRawFrame, Alive, TypeOK
<1>2. CASE Seal(p)
  BY <1>1, <1>2 DEF Seal
<1>3. CASE SealRawFrame(p)
  <2>1. PICK f \in RawFrames(p) : frame' = [frame EXCEPT ![p]["check"] = CalcChecksum(f)]
    BY <1>3 DEF SealRawFrame
  <2>2. f \in HeaderType /\ (start[p] = p => f = frame[p])
    BY <1>1, <2>1, RawFramesTyped
  <2>3. p \in sealed' => start[p] = p /\ frame[p]["check"] = 0
    BY <1>3 DEF SealRawFrame
  <2>4. sealed' \subseteq sealed \union {p} /\ UNCHANGED <<start, offset>>
    BY <1>3 DEF SealRawFrame
  <2>5. QED
    BY <1>1, <2>1, <2>2, <2>3, <2>4
<1>4. QED
  BY <1>2, <1>3

\* A header with a checksum in it is a header.
LEMMA SealedHeader ==
  ASSUME NEW h \in HeaderType, NEW f \in HeaderType
  PROVE  /\ [h EXCEPT !["check"] = CalcChecksum(f)] \in HeaderType
         /\ [h EXCEPT !["check"] = CalcChecksum(f)]["frag_off"] = h["frag_off"]
<1> DEFINE c == CalcChecksum(f)
<1>1. c \in 0..Word-1 /\ "check" \in Words /\ "frag_off" \in Words
  BY ChecksumFits DEF Words
<1> HIDE DEF c
<1>2. [h EXCEPT !["check"] = c] \in HeaderType
      /\ [h EXCEPT !["check"] = c]["frag_off"] = h["frag_off"]
  BY <1>1 DEF HeaderType
<1>3. QED
  BY <1>2 DEF c

\* The steps of Next, by what they write.
LEMMA Steps ==
  ASSUME Next
  PROVE  \E p \in Places :
           \/ Construct(p) \/ Destroy(p) \/ \E q \in Places : Copy(p, q)
           \/ \/ \E a \in [AddrWords -> Numbers \intersect 0..Word-1] : SetAddress(p, a)
              \/ \E n \in Numbers :
                   \/ SetCheckSum(p, n)
                   \/ \E part \in Parts : Set(p, part, n)
           \/ \E n \in Numbers, more \in BOOLEAN : SetFragmentOffset(p, more, n)
           \/ Seal(p) \/ SealRawFrame(p)
  BY DEF Next

\* Every step keeps the types.
LEMMA StepTyped == TypeOK /\ [Next]_vars => TypeOK'
<1> SUFFICES ASSUME TypeOK, [Next]_vars
    PROVE  TypeOK'
  OBVIOUS
<1>1. CASE UNCHANGED vars
  BY <1>1 DEF vars, TypeOK, Alive
<1>2. ASSUME NEW p \in Places, NEW h \in HeaderType, Alive(p),
             frame' = [frame EXCEPT ![p] = h], start' = start,
             sealed' \subseteq sealed \union {p}, offset' \in [Places -> Offsets \union {None}]
      PROVE  TypeOK'
  BY <1>2, IpBuilderAssumption DEF TypeOK, Alive
<1>3. ASSUME NEW p \in Places,
             \/ \E a \in [AddrWords -> Numbers \intersect 0..Word-1] : SetAddress(p, a)
             \/ \E n \in Numbers :
                  \/ SetCheckSum(p, n)
                  \/ \E part \in Parts : Set(p, part, n)
      PROVE  TypeOK'
  <2>1. PICK h \in HeaderType : frame' = [frame EXCEPT ![p] = h]
    BY <1>3, SettersWrite
  <2>2. Alive(p) /\ sealed' = sealed \ {p} /\ UNCHANGED <<start, offset>>
    BY <1>3, SettersWrite
  <2>3. QED
    BY <1>2, <2>1, <2>2 DEF TypeOK
<1>4. ASSUME NEW p \in Places, NEW n \in Numbers, NEW more \in BOOLEAN,
             SetFragmentOffset(p, more, n)
      PROVE  TypeOK'
  <2>1. PICK h \in HeaderType, o \in Offsets :
          frame' = [frame EXCEPT ![p] = h] /\ offset' = [offset EXCEPT ![p] = o]
    BY <1>4, OffsetIsWritten
  <2>2. Alive(p) /\ sealed' = sealed \ {p} /\ start' = start
    BY <1>4 DEF SetFragmentOffset
  <2>3. offset' \in [Places -> Offsets \union {None}]
    BY <2>1 DEF TypeOK
  <2>4. QED
    BY <1>2, <2>1, <2>2, <2>3
<1>5. ASSUME NEW p \in Places, Seal(p) \/ SealRawFrame(p)
      PROVE  TypeOK'
  <2>1. PICK f \in HeaderType :
          frame' = [frame EXCEPT ![p] = [frame[p] EXCEPT !["check"] = CalcChecksum(f)]]
    BY <1>5, SealWrites
  <2>2. Alive(p) /\ sealed' \subseteq sealed \union {p} /\ UNCHANGED <<start, offset>>
    BY <1>5, SealWrites
  <2>3. frame[p] \in HeaderType
    BY <2>2 DEF TypeOK, Alive
  <2>4. QED
    BY <1>2, <2>1, <2>2, <2>3, SealedHeader DEF TypeOK
<1>6. QED
  BY <1>1, <1>3, <1>4, <1>5, PlacesTyped, Steps

\* A builder's header is a header whatever was set: no field takes more bits
\* than it has, the checksum included.
THEOREM TypeCorrect == Spec => []TypeOK
  BY InitTyped, StepTyped, PTL DEF Spec

------------------------------------------------------------------------------
(* The offset                                                              *)

\* The word of the offset holds what setFragmentOffset was given last.
OffsetKept ==
  \A p \in Places :
    offset[p] # None =>
      /\ Alive(p)
      /\ frame[p]["frag_off"] =
           offset[p].value + (IF offset[p].more THEN OffsetBits ELSE 2 * OffsetBits)

\* A step that writes no other than p's header and offset leaves the others'.
LEMMA OthersKeepOffset ==
  ASSUME TypeOK, OffsetKept, NEW p \in Places,
         \A q \in Places \ {p} : frame'[q] = frame[q] /\ offset'[q] = offset[q],
         offset'[p] # None =>
           /\ Alive(p)'
           /\ frame'[p]["frag_off"] =
                offset'[p].value + (IF offset'[p].more THEN OffsetBits ELSE 2 * OffsetBits)
  PROVE  OffsetKept'
  BY DEF OffsetKept, Alive

\* No other setter, and no checksum, touches the word of the offset.
LEMMA StepKeepsOffset == TypeOK /\ OffsetKept /\ [Next]_vars => OffsetKept'
<1> SUFFICES ASSUME TypeOK, OffsetKept, [Next]_vars
    PROVE  OffsetKept'
  OBVIOUS
<1> USE IpBuilderAssumption
<1>1. CASE UNCHANGED vars
  BY <1>1 DEF vars, OffsetKept, Alive
<1>2. ASSUME NEW p \in Places, Construct(p) \/ Destroy(p) \/ \E q \in Places : Copy(p, q)
      PROVE  OffsetKept'
  <2>1. CASE Construct(p)
    BY <2>1 DEF Construct, ConstructFrame, OffsetKept, Alive, TypeOK
  <2>2. CASE Destroy(p)
    BY <2>2 DEF Destroy, DestroyFrame, OffsetKept, Alive, TypeOK
  <2>3. ASSUME NEW q \in Places, Copy(p, q)
        PROVE  OffsetKept'
    <3>1. frame'[p] = frame[q] /\ offset'[p] = offset[q] /\ frame[q] # None
      BY <2>3 DEF Copy, CopyFrame, Alive, TypeOK
    <3>2. \A r \in Places \ {p} : frame'[r] = frame[r] /\ offset'[r] = offset[r]
      BY <2>3 DEF Copy, CopyFrame, TypeOK
    <3>3. QED
      BY <3>1, <3>2 DEF OffsetKept, Alive
  <2>4. QED
    BY <1>2, <2>1, <2>2, <2>3
<1>3. ASSUME NEW p \in Places, NEW h \in HeaderType, Alive(p),
             frame' = [frame EXCEPT ![p] = h], offset' = offset,
             h["frag_off"] = frame[p]["frag_off"]
      PROVE  OffsetKept'
  <2>1. frame'[p] = h /\ h # None /\ \A q \in Places \ {p} : frame'[q] = frame[q]
    BY <1>3 DEF TypeOK
  <2>2. QED
    BY <1>3, <2>1 DEF OffsetKept, Alive
<1>4. ASSUME NEW p \in Places,
             \/ \E a \in [AddrWords -> Numbers \intersect 0..Word-1] : SetAddress(p, a)
             \/ \E n \in Numbers :
                  \/ SetCheckSum(p, n)
                  \/ \E part \in Parts : Set(p, part, n)
      PROVE  OffsetKept'
  <2>1. PICK h \in HeaderType : /\ frame' = [frame EXCEPT ![p] = h]
                                /\ h["frag_off"] = frame[p]["frag_off"]
    BY <1>4, SettersWrite
  <2>2. Alive(p) /\ offset' = offset
    BY <1>4, SettersWrite
  <2>3. QED
    BY <1>3, <2>1, <2>2
<1>5. ASSUME NEW p \in Places, NEW n \in Numbers, NEW more \in BOOLEAN,
             SetFragmentOffset(p, more, n)
      PROVE  OffsetKept'
  <2>1. PICK h \in HeaderType, o \in Offsets :
          /\ frame' = [frame EXCEPT ![p] = h]
          /\ offset' = [offset EXCEPT ![p] = o]
          /\ h["frag_off"] = o.value + (IF o.more THEN OffsetBits ELSE 2 * OffsetBits)
    BY <1>5, OffsetIsWritten
  <2>2. frame'[p] = h /\ offset'[p] = o /\ h # None
    BY <2>1 DEF TypeOK
  <2>3. \A q \in Places \ {p} : frame'[q] = frame[q] /\ offset'[q] = offset[q]
    BY <2>1 DEF TypeOK
  <2>4. QED
    BY <2>1, <2>2, <2>3 DEF OffsetKept, Alive
<1>6. ASSUME NEW p \in Places, Seal(p) \/ SealRawFrame(p)
      PROVE  OffsetKept'
  <2>1. PICK f \in HeaderType :
          frame' = [frame EXCEPT ![p] = [frame[p] EXCEPT !["check"] = CalcChecksum(f)]]
    BY <1>6, SealWrites
  <2>2. Alive(p) /\ offset' = offset
    BY <1>6, SealWrites
  <2>3. frame[p] \in HeaderType
    BY <2>2 DEF TypeOK, Alive
  <2>4. QED
    BY <1>3, <2>1, <2>2, <2>3, SealedHeader
<1>7. QED
  BY <1>1, <1>2, <1>4, <1>5, <1>6, Steps

\* What getFragmentOffset returns holds the offset and the flag that were set
\* last, apart from each other, whatever was set before and since.
THEOREM OffsetIsReadBack == Spec => []OffsetReadsBack
<1>1. Init => OffsetKept
  BY DEF Init, OffsetKept
<1>2. TypeOK /\ OffsetKept => OffsetReadsBack
  <2> SUFFICES ASSUME TypeOK, OffsetKept, NEW p \in Places, offset[p] # None
      PROVE  LET word == Swapped(FragmentOffset(frame[p]))
             IN  /\ word % OffsetBits = offset[p].value
                 /\ (word \div OffsetBits = 1) <=> offset[p].more
    BY DEF OffsetReadsBack
  <2> DEFINE n == frame[p]["frag_off"]
             v == offset[p].value
             q == IF offset[p].more THEN 1 ELSE 2
  <2>1. n \in 0..Word-1
    BY DEF OffsetKept, Alive, TypeOK, HeaderType, Words
  <2>2. Swapped(FragmentOffset(frame[p])) = n
    BY <2>1, SwapsBack DEF FragmentOffset
  <2>3. v \in 0..OffsetBits-1 /\ offset[p].more \in BOOLEAN
    BY DEF TypeOK, Offsets
  <2>4. n = OffsetBits * q + v
    <3>1. n = v + (IF offset[p].more THEN OffsetBits ELSE 2 * OffsetBits)
      BY DEF OffsetKept
    <3>2. QED
      BY <2>3, <3>1, Widths
  <2>5. n \div OffsetBits = q /\ n % OffsetBits = v
    <3>1. q \in Nat
      OBVIOUS
    <3> HIDE DEF n, q, v
    <3>2. QED
      BY <2>3, <2>4, <3>1, Widths, DividesOnce
  <2>6. QED
    BY <2>2, <2>3, <2>5
<1>3. QED
  BY <1>1, <1>2, InitTyped, StepTyped, StepKeepsOffset, PTL DEF Spec

------------------------------------------------------------------------------
(* The checksum                                                            *)

\* A seal lasts as long as no setter is called; a seal is one.
LEMMA StepKeepsSeal == TypeOK /\ SealedVerifies /\ [Next]_vars => SealedVerifies'
<1> SUFFICES ASSUME TypeOK, SealedVerifies, [Next]_vars
    PROVE  SealedVerifies'
  OBVIOUS
<1>1. CASE UNCHANGED vars
  BY <1>1 DEF vars, SealedVerifies
<1>2. ASSUME NEW p \in Places, Construct(p) \/ Destroy(p) \/ \E q \in Places : Copy(p, q)
      PROVE  SealedVerifies'
  <2>1. \A q \in sealed : q \in Places /\ Alive(q)
    BY DEF TypeOK
  <2>2. CASE Construct(p)
    BY <2>1, <2>2 DEF Construct, ConstructFrame, SealedVerifies, TypeOK
  <2>3. CASE Destroy(p)
    BY <2>1, <2>3 DEF Destroy, DestroyFrame, SealedVerifies, TypeOK
  <2>4. ASSUME NEW q \in Places, Copy(p, q)
        PROVE  SealedVerifies'
    BY <2>1, <2>4 DEF Copy, CopyFrame, SealedVerifies, TypeOK
  <2>5. QED
    BY <1>2, <2>2, <2>3, <2>4
<1>3. ASSUME NEW p \in Places, sealed' = sealed \ {p},
             NEW h, frame' = [frame EXCEPT ![p] = h]
      PROVE  SealedVerifies'
  BY <1>3 DEF SealedVerifies, TypeOK
<1>4. ASSUME NEW p \in Places,
             \/ \E a \in [AddrWords -> Numbers \intersect 0..Word-1] : SetAddress(p, a)
             \/ \E n \in Numbers :
                  \/ SetCheckSum(p, n)
                  \/ \E part \in Parts : Set(p, part, n)
      PROVE  SealedVerifies'
  <2>1. \E h : frame' = [frame EXCEPT ![p] = h]
    BY <1>4, SettersWrite
  <2>2. sealed' = sealed \ {p}
    BY <1>4, SettersWrite
  <2>3. QED
    BY <1>3, <2>1, <2>2
<1>5. ASSUME NEW p \in Places, NEW n \in Numbers, NEW more \in BOOLEAN,
             SetFragmentOffset(p, more, n)
      PROVE  SealedVerifies'
  <2>1. \E h : frame' = [frame EXCEPT ![p] = h]
    BY <1>5, OffsetIsWritten
  <2>2. sealed' = sealed \ {p}
    BY <1>5 DEF SetFragmentOffset
  <2>3. QED
    BY <1>3, <2>1, <2>2
<1>6. ASSUME NEW p \in Places, Seal(p) \/ SealRawFrame(p)
      PROVE  SealedVerifies'
  <2>1. PICK f \in HeaderType :
          /\ frame' = [frame EXCEPT ![p] = [frame[p] EXCEPT !["check"] = CalcChecksum(f)]]
          /\ p \in sealed' => f = frame[p] /\ f["check"] = 0
    BY <1>6, SealWrites
  <2>2. sealed' \subseteq sealed \union {p}
    BY <1>6, SealWrites
  <2>3. \A q \in sealed' \ {p} : q \in sealed /\ frame'[q] = frame[q]
    BY <2>1, <2>2 DEF TypeOK
  <2>4. ASSUME p \in sealed'
        PROVE  Verifies(frame'[p])
    <3>1. frame'[p] = [f EXCEPT !["check"] = CalcChecksum(f)] /\ f["check"] = 0
      BY <2>1, <2>4 DEF TypeOK
    <3>2. Verifies([f EXCEPT !["check"] = CalcChecksum(f)])
      BY <3>1, ChecksumVerifies
    <3> DEFINE g == [f EXCEPT !["check"] = CalcChecksum(f)]
    <3>3. frame'[p] = g /\ Verifies(g)
      BY <3>1, <3>2
    <3> HIDE DEF g
    <3>4. QED
      BY <3>3
  <2>5. QED
    BY <2>3, <2>4 DEF SealedVerifies
<1>7. QED
  BY <1>1, <1>2, <1>4, <1>5, <1>6, Steps

\* A checksum that was computed over a zero checksum makes its header one that
\* the receiver accepts, for words of any width and any number of them (the
\* code's 32-bit sum holds 65537), and for a copy of the builder too.
THEOREM SealsVerify == Spec => []SealedVerifies
<1>1. Init => SealedVerifies
  BY DEF Init, SealedVerifies
<1>2. QED
  BY <1>1, InitTyped, StepTyped, StepKeepsSeal, PTL DEF Spec

\* A header that verified no longer does after a setter has changed one of its
\* words, all zeros and all ones apart: a checksum that has become stale is one
\* that the receiver sees to be.
THEOREM StaleSealsAreSeen == Spec => StaleIsSeen
<1> DEFINE Seen ==
      \A p \in Places :
        (p \in sealed /\ Alive(p)' /\ p \notin sealed') =>
          LET changed == {w \in Words : frame'[p][w] # frame[p][w]} IN
          \/ Cardinality(changed) # 1
          \/ ~Verifies(frame'[p])
          \/ \A w \in changed : {frame[p][w], frame'[p][w]} = {0, Word - 1}
<1>1. TypeOK /\ TypeOK' /\ SealedVerifies => Seen
  <2> SUFFICES ASSUME TypeOK, TypeOK', SealedVerifies, NEW p \in Places,
                      p \in sealed, Alive(p)',
                      Cardinality({w \in Words : frame'[p][w] # frame[p][w]}) = 1,
                      Verifies(frame'[p]),
                      NEW w \in Words, frame'[p][w] # frame[p][w]
      PROVE  {frame[p][w], frame'[p][w]} = {0, Word - 1}
    OBVIOUS
  <2> DEFINE changed == {x \in Words : frame'[p][x] # frame[p][x]}
             h == frame[p]
             f == frame'[p]
  <2>1. h \in HeaderType /\ f \in HeaderType
    BY DEF TypeOK, Alive
  <2>2. IsFiniteSet(changed) /\ w \in changed
    BY WordsAreFinite
  <2>3. PICK x : changed = {x}
    <3> HIDE DEF changed
    <3>1. Cardinality(changed) = 1
      BY DEF changed
    <3>2. QED
      BY <2>2, <3>1, FS_Singleton
  <2>4. \A y \in Words \ {w} : h[y] = f[y]
    BY <2>2, <2>3
  <2>5. Verifies(h) /\ Verifies(f)
    BY DEF SealedVerifies
  <2>6. h[w] # f[w]
    OBVIOUS
  <2> HIDE DEF h, f
  <2>7. {h[w], f[w]} = {0, Word - 1}
    BY <2>1, <2>4, <2>5, <2>6, OneChangeIsSeen
  <2>8. QED
    BY <2>7 DEF h, f
<1>2. QED
  BY <1>1, TypeCorrect, SealsVerify, PTL DEF StaleIsSeen

=============================================================================
