------------------------- MODULE EvaluationProofs --------------------------
(***************************************************************************)
(* Theorems about the data of a request and about the embedding worker.     *)
(* Evaluation, for any requests, texts, scores and fusions: the diversity   *)
(* selection is the beginning of a greedy order, and a fusion is fair to    *)
(* its lists, however its floats are rounded. EmbedWorker, for any jobs and *)
(* closers: one job encodes at a time, and the model is dropped when none   *)
(* does.                                                                    *)
(* They are two specifications, each with variables of its own.             *)
(***************************************************************************)
EXTENDS Evaluation, EmbedWorker, FiniteSetTheorems, SequenceTheorems, WellFoundedInduction, TLAPS

(***************************************************************************)
(* The largest of finitely many numbers, and the best of finitely many      *)
(* candidates.                                                              *)
(***************************************************************************)

\* A set of natural numbers that is not empty has a least element.
LEMMA LeastNumber ==
    ASSUME NEW T \in SUBSET Nat, T # {}
    PROVE  \E n \in T : \A m \in T : n <= m
<1> DEFINE R == OpToRel(<, Nat)
<1>1. IsWellFoundedOn(R, Nat)
  BY NatLessThanWellFounded
<1>2. \E n \in T : \A m \in T : <<m, n>> \notin R
  <2> HIDE DEF R
  <2> QED
    BY <1>1, WFMin
<1>3. PICK n \in T : \A m \in T : <<m, n>> \notin R
  BY <1>2
<1>4. \A m \in T : ~ (m < n)
  BY <1>3 DEF OpToRel
<1>5. QED
  BY <1>4

\* Induction over the subsets of a finite set, by a smallest counterexample.
LEMMA SmallestSubset ==
    ASSUME NEW S, IsFiniteSet(S), NEW B \in SUBSET (SUBSET S), B # {}
    PROVE  \E s \in B : \A x \in s : s \ {x} \notin B
<1> DEFINE T == {Cardinality(s) : s \in B}
<1>1. \A s \in SUBSET S : IsFiniteSet(s) /\ Cardinality(s) \in Nat
  BY FS_Subset, FS_CardinalityType
<1>2. T \in SUBSET Nat /\ T # {}
  BY <1>1
<1>3. PICK n \in T : \A m \in T : n <= m
  <2> HIDE DEF T
  <2> QED
    BY <1>2, LeastNumber
<1>4. PICK s \in B : \A t \in B : Cardinality(s) <= Cardinality(t)
  BY <1>3
<1>5. \A x \in s : Cardinality(s \ {x}) = Cardinality(s) - 1 /\ s \ {x} \in SUBSET S
  BY <1>1, FS_RemoveElement
<1>6. QED
  BY <1>1, <1>4, <1>5

\* c comes before d by value, and by position where the values are equal.
Ahead(value, c, d) == value[c] > value[d] \/ (value[c] = value[d] /\ c < d)

\* Among finitely many there is one ahead of all others.
LEMMA FirstOfAll ==
    ASSUME NEW S \in SUBSET Int, IsFiniteSet(S), S # {}, NEW value, \A c \in S : value[c] \in Int
    PROVE  \E c \in S : \A d \in S \ {c} : Ahead(value, c, d)
<1> DEFINE Led(s) == \E c \in s : \A d \in s \ {c} : Ahead(value, c, d)
           B == {s \in SUBSET S : s # {} /\ ~ Led(s)}
<1>1. SUFFICES ASSUME B # {} PROVE FALSE
  BY Zenon
<1>2. PICK s \in B : \A x \in s : s \ {x} \notin B
  <2> HIDE DEF B
  <2>1. B \in SUBSET (SUBSET S)
    BY DEF B
  <2> QED
    BY <1>1, <2>1, SmallestSubset
<1>3. PICK x \in s : TRUE
  OBVIOUS
<1>4. CASE s \ {x} = {}
  <2>1. \A d \in s \ {x} : Ahead(value, x, d)
    BY <1>4
  <2>2. Led(s)
    BY <2>1
  <2> QED
    BY <2>2
<1>5. CASE s \ {x} # {}
  <2>1. Led(s \ {x})
    BY <1>2, <1>5
  <2>2. PICK c \in s \ {x} : \A d \in (s \ {x}) \ {c} : Ahead(value, c, d)
    BY <2>1
  <2>3. c \in Int /\ x \in Int /\ value[c] \in Int /\ value[x] \in Int /\ c # x
    OBVIOUS
  <2>4. CASE Ahead(value, c, x)
    <3>1. \A d \in s \ {c} : Ahead(value, c, d)
      BY <2>2, <2>4
    <3>2. Led(s)
      BY <3>1
    <3> QED
      BY <3>2
  <2>5. CASE ~ Ahead(value, c, x)
    <3>1. Ahead(value, x, c)
      BY <2>3, <2>5 DEF Ahead
    <3>2. ASSUME NEW d \in s \ {x} PROVE Ahead(value, x, d)
      <4>1. CASE d = c
        BY <3>1, <4>1
      <4>2. CASE d # c
        <5>1. Ahead(value, c, d) /\ d \in Int /\ value[d] \in Int
          BY <2>2, <4>2
        <5> QED
          BY <2>3, <3>1, <5>1 DEF Ahead
      <4> QED
        BY <4>1, <4>2
    <3>3. Led(s)
      BY <3>2
    <3> QED
      BY <3>3
  <2> QED
    BY <2>4, <2>5
<1> QED
  BY <1>4, <1>5

LEMMA LargestNumber ==
    ASSUME NEW T \in SUBSET Int, IsFiniteSet(T), T # {}
    PROVE  Max(T) \in T /\ \A y \in T : Max(T) >= y
<1>1. PICK c \in T : \A d \in T \ {c} : Ahead([x \in T |-> x], c, d)
  BY FirstOfAll
<1>2. \A d \in T : c >= d
  BY <1>1 DEF Ahead
<1> QED
  BY <1>2 DEF Max

\* What a function takes on finitely many arguments is a finite set.
LEMMA ImageFinite ==
    ASSUME NEW n \in Nat, NEW f, DOMAIN f = 1..n, f = [i \in 1..n |-> f[i]]
    PROVE  IsFiniteSet({f[i] : i \in 1..n})
<1> DEFINE T == {f[i] : i \in 1..n}
<1>1. f \in Surjection(1..n, T)
  <2>1. f \in [1..n -> T]
    <3>1. \A i \in 1..n : f[i] \in T
      OBVIOUS
    <3> HIDE DEF T
    <3> QED
      BY <3>1
  <2>2. \A t \in T : \E i \in 1..n : f[i] = t
    OBVIOUS
  <2> QED
    BY <2>1, <2>2 DEF Surjection
<1>2. IsFiniteSet(1..n)
  BY FS_Interval
<1> QED
  BY <1>1, <1>2, FS_Surjection

(***************************************************************************)
(* The similarity of texts, and how near a candidate is to those selected.  *)
(***************************************************************************)

LEMMA WordsFinite == ASSUME NEW x \in Seq(STRING) PROVE IsFiniteSet(ToSet(x))
<1>1. Len(x) \in Nat /\ DOMAIN x = 1..Len(x) /\ x = [i \in 1..Len(x) |-> x[i]]
  OBVIOUS
<1>2. IsFiniteSet({x[i] : i \in 1..Len(x)})
  BY <1>1, ImageFinite
<1> QED
  BY <1>1, <1>2 DEF ToSet

LEMMA SimilarityType ==
    ASSUME NEW x \in Seq(STRING), NEW y \in Seq(STRING)
    PROVE  Similarity(x, y) \in Nat
<1> DEFINE any == ToSet(x) \cup ToSet(y)
           both == ToSet(x) \cap ToSet(y)
<1>1. IsFiniteSet(any) /\ IsFiniteSet(both)
  BY WordsFinite, FS_Union, FS_Intersection
<1>2. Cardinality(any) \in Nat /\ Cardinality(both) \in Nat /\ (any # {} => Cardinality(any) # 0)
  BY <1>1, FS_CardinalityType, FS_EmptySet
<1>3. One \in Nat
  BY SelectionSizes
<1>4. \A a, b \in Nat : b # 0 => (One * a) \div b \in Nat
  <2>1. \A a \in Nat : One * a \in Nat
    BY <1>3
  <2>2. \A a, b \in Nat : b # 0 => a \div b \in Nat
    OBVIOUS
  <2> QED
    BY <2>1, <2>2
<1> HIDE DEF any, both
<1>5. any # {} => (One * Cardinality(both)) \div Cardinality(any) \in Nat
  BY <1>2, <1>4
<1> QED
  BY <1>5 DEF Similarity, any, both

\* The candidates of a pool with what the selection reads of them.
Readable(pool, lambda, value, texts) ==
    /\ pool \subseteq Nat /\ IsFiniteSet(pool) /\ lambda \in 0..10
    /\ \A c \in pool : value[c] \in Nat /\ texts[c] \in Seq(STRING)

\* The similarities NearestBefore takes the largest of.
Similarities(order, i, texts, c) ==
    {0} \cup {Similarity(texts[c], texts[order[j]]) : j \in 1..(i - 1)}

\* The first n of an order are in the pool.
Begins(order, n, pool) == n \in Nat /\ \A j \in 1..n : order[j] \in pool

LEMMA NearestIsLargest ==
    ASSUME NEW pool, NEW lambda, NEW value, NEW texts, Readable(pool, lambda, value, texts),
           NEW order, NEW i \in Nat \ {0}, Begins(order, i - 1, pool), NEW c \in pool
    PROVE  /\ Similarities(order, i, texts, c) \in SUBSET Nat
           /\ NearestBefore(order, i, texts, c) \in Similarities(order, i, texts, c)
           /\ \A y \in Similarities(order, i, texts, c) : NearestBefore(order, i, texts, c) >= y
<1> DEFINE f == [j \in 1..(i - 1) |-> Similarity(texts[c], texts[order[j]])]
           T == Similarities(order, i, texts, c)
<1>1. \A j \in 1..(i - 1) : f[j] \in Nat
  <2> SUFFICES ASSUME NEW j \in 1..(i - 1) PROVE f[j] \in Nat
    OBVIOUS
  <2>1. texts[c] \in Seq(STRING) /\ texts[order[j]] \in Seq(STRING)
    BY DEF Readable, Begins
  <2> QED
    BY <2>1, SimilarityType
<1>2. {f[j] : j \in 1..(i - 1)} = {Similarity(texts[c], texts[order[j]]) : j \in 1..(i - 1)}
  OBVIOUS
<1>3. IsFiniteSet({f[j] : j \in 1..(i - 1)})
  <2>1. i - 1 \in Nat /\ DOMAIN f = 1..(i - 1) /\ f = [j \in 1..(i - 1) |-> f[j]]
    OBVIOUS
  <2> HIDE DEF f
  <2> QED
    BY <2>1, ImageFinite
<1>4. T = {f[j] : j \in 1..(i - 1)} \cup {0}
  BY <1>2 DEF Similarities
<1>5. IsFiniteSet(T) /\ T \in SUBSET Nat /\ T # {}
  BY <1>1, <1>3, <1>4, FS_AddElement
<1> HIDE DEF T, f
<1>6. Max(T) \in T /\ \A y \in T : Max(T) >= y
  BY <1>5, LargestNumber
<1>7. NearestBefore(order, i, texts, c) = Max(T)
  BY DEF NearestBefore, T, Similarities
<1> QED
  BY <1>5, <1>6, <1>7 DEF T

LEMMA NearestIsNat ==
    ASSUME NEW pool, NEW lambda, NEW value, NEW texts, Readable(pool, lambda, value, texts),
           NEW order, NEW i \in Nat \ {0}, Begins(order, i - 1, pool), NEW c \in pool
    PROVE  NearestBefore(order, i, texts, c) \in Nat
BY NearestIsLargest

\* One more selected can only bring a candidate nearer.
LEMMA NearestGrows ==
    ASSUME NEW pool, NEW lambda, NEW value, NEW texts, Readable(pool, lambda, value, texts),
           NEW order, NEW i \in Nat \ {0}, Begins(order, i, pool), NEW c \in pool
    PROVE  NearestBefore(order, i, texts, c) <= NearestBefore(order, i + 1, texts, c)
<1>1. Begins(order, i - 1, pool)
  BY DEF Begins
<1>2. Similarities(order, i, texts, c) \subseteq Similarities(order, i + 1, texts, c)
  BY DEF Similarities
<1>3. /\ i + 1 \in Nat \ {0} /\ (i + 1) - 1 = i
  OBVIOUS
<1>4. NearestBefore(order, i, texts, c) \in Similarities(order, i, texts, c)
  BY <1>1, NearestIsLargest
<1>5. \A y \in Similarities(order, i + 1, texts, c) : NearestBefore(order, i + 1, texts, c) >= y
  BY <1>3, NearestIsLargest
<1>6. NearestBefore(order, i, texts, c) \in Nat /\ NearestBefore(order, i + 1, texts, c) \in Nat
  BY <1>1, <1>3, NearestIsNat
<1> QED
  BY <1>2, <1>4, <1>5, <1>6

\* What mmr_select keeps: the nearest so far, or the one just selected.
LEMMA NearestStep ==
    ASSUME NEW pool, NEW lambda, NEW value, NEW texts, Readable(pool, lambda, value, texts),
           NEW order, NEW i \in Nat \ {0}, Begins(order, i, pool), NEW c \in pool
    PROVE  NearestBefore(order, i + 1, texts, c)
             = Max({NearestBefore(order, i, texts, c), Similarity(texts[c], texts[order[i]])})
<1> DEFINE x == Similarity(texts[c], texts[order[i]])
           old == NearestBefore(order, i, texts, c)
           new == NearestBefore(order, i + 1, texts, c)
<1>1. Begins(order, i - 1, pool) /\ i + 1 \in Nat \ {0} /\ (i + 1) - 1 = i
  BY DEF Begins
<1>2. /\ old \in Similarities(order, i, texts, c) /\ old \in Nat
      /\ \A y \in Similarities(order, i, texts, c) : old >= y
  BY <1>1, NearestIsLargest, NearestIsNat
<1>3. /\ new \in Similarities(order, i + 1, texts, c) /\ new \in Nat
      /\ \A y \in Similarities(order, i + 1, texts, c) : new >= y
  BY <1>1, NearestIsLargest, NearestIsNat
<1>4. Similarities(order, i + 1, texts, c) = Similarities(order, i, texts, c) \cup {x}
  <2>1. 1..i = 1..(i - 1) \cup {i}
    OBVIOUS
  <2> QED
    BY <1>1, <2>1 DEF Similarities
<1>5. x \in Nat
  <2>1. order[i] \in pool
    BY DEF Begins
  <2>2. texts[c] \in Seq(STRING) /\ texts[order[i]] \in Seq(STRING)
    BY <2>1 DEF Readable
  <2> QED
    BY <2>2, SimilarityType
<1> HIDE DEF x, old, new
<1>6. new \in {old, x} /\ new >= old /\ new >= x
  BY <1>2, <1>3, <1>4, <1>5
<1>7. Max({old, x}) = new
  BY <1>2, <1>3, <1>5, <1>6 DEF Max
<1> QED
  BY <1>7 DEF x, old, new

\* It depends on those before only.
LEMMA NearestOfPrefix ==
    ASSUME NEW order, NEW other, NEW i \in Nat, \A j \in 1..(i - 1) : order[j] = other[j],
           NEW texts, NEW c
    PROVE  NearestBefore(order, i, texts, c) = NearestBefore(other, i, texts, c)
BY DEF NearestBefore

(***************************************************************************)
(* The greedy order of a pool: its beginnings, each of which is a beginning *)
(* of every longer one.                                                     *)
(***************************************************************************)

\* How the selection values the candidates against the first i - 1 of an order.
Values(order, i, lambda, value, texts, pool) ==
    [c \in pool |-> SelectionScore(lambda, value[c], NearestBefore(order, i, texts, c))]

\* Each of the order is ahead of all that are not among those before it.
Leads(order, pool, lambda, value, texts) ==
    /\ order \in Seq(pool)
    /\ \A i, j \in 1..Len(order) : order[i] = order[j] => i = j
    /\ \A i \in 1..Len(order) : \A c \in pool :
          (\A j \in 1..i : order[j] # c)
              => Ahead(Values(order, i, lambda, value, texts, pool), order[i], c)

LEMMA ScoresAreNumbers ==
    ASSUME NEW l \in 0..10, NEW r \in Nat, NEW n \in Nat
    PROVE  SelectionScore(l, r, n) \in Int
<1>1. l * r \in Int /\ (10 - l) * n \in Int
  OBVIOUS
<1> QED
  BY <1>1 DEF SelectionScore

LEMMA ScoresFall ==
    ASSUME NEW l \in 0..10, NEW r \in Nat, NEW n \in Nat, NEW m \in Nat, n <= m
    PROVE  SelectionScore(l, r, m) <= SelectionScore(l, r, n)
<1>1. PICK k \in Nat : k = 10 - l
  OBVIOUS
<1>2. PICK d \in Nat : m = n + d
  OBVIOUS
<1>3. k * m = k * n + k * d /\ k * d \in Nat /\ k * n \in Nat /\ k * m \in Nat
  BY <1>2
<1>4. l * r \in Int
  OBVIOUS
<1>5. PICK a, b, p : a = k * m /\ b = k * n /\ p = l * r
  OBVIOUS
<1>6. a \in Nat /\ b \in Nat /\ p \in Int /\ b <= a
  BY <1>3, <1>4, <1>5
<1>7. p - a <= p - b
  BY <1>6
<1> QED
  BY <1>1, <1>5, <1>7 DEF SelectionScore

LEMMA ValuesType ==
    ASSUME NEW pool, NEW lambda, NEW value, NEW texts, Readable(pool, lambda, value, texts),
           NEW order, NEW i \in Nat \ {0}, Begins(order, i - 1, pool)
    PROVE  \A c \in pool : Values(order, i, lambda, value, texts, pool)[c] \in Int
<1> SUFFICES ASSUME NEW c \in pool
             PROVE  Values(order, i, lambda, value, texts, pool)[c] \in Int
  OBVIOUS
<1>1. NearestBefore(order, i, texts, c) \in Nat
  BY NearestIsNat
<1>2. lambda \in 0..10 /\ value[c] \in Nat
  BY DEF Readable
<1>3. SelectionScore(lambda, value[c], NearestBefore(order, i, texts, c)) \in Int
  BY <1>1, <1>2, ScoresAreNumbers
<1> QED
  BY <1>3 DEF Values

LEMMA OrderBegins ==
    ASSUME NEW pool, NEW order \in Seq(pool), NEW i \in 0..Len(order)
    PROVE  Begins(order, i, pool)
BY DEF Begins

LEMMA ValuesOfPrefix ==
    ASSUME NEW order, NEW other, NEW i \in Nat, \A j \in 1..(i - 1) : order[j] = other[j],
           NEW pool, NEW lambda, NEW value, NEW texts
    PROVE  Values(order, i, lambda, value, texts, pool) = Values(other, i, lambda, value, texts, pool)
<1>1. \A c \in pool : NearestBefore(order, i, texts, c) = NearestBefore(other, i, texts, c)
  BY NearestOfPrefix
<1> QED
  BY <1>1 DEF Values

\* What is selected next continues the order.
LEMMA NextLeads ==
    ASSUME NEW pool, NEW lambda, NEW value, NEW texts, Readable(pool, lambda, value, texts),
           NEW order, Leads(order, pool, lambda, value, texts),
           NEW rest, rest = {c \in pool : \A j \in 1..Len(order) : order[j] # c}, rest # {},
           NEW nearest, \A c \in rest : nearest[c] = NearestBefore(order, Len(order) + 1, texts, c)
    PROVE  /\ BestOf(rest, lambda, value, nearest) \in rest
           /\ Leads(Append(order, BestOf(rest, lambda, value, nearest)), pool, lambda, value, texts)
<1> DEFINE n == Len(order)
           best == BestOf(rest, lambda, value, nearest)
           longer == Append(order, best)
           V == Values(order, n + 1, lambda, value, texts, pool)
<1>1. order \in Seq(pool) /\ n \in Nat /\ DOMAIN order = 1..n
  BY DEF Leads
<1>2. n + 1 \in Nat \ {0} /\ (n + 1) - 1 = n /\ Begins(order, n, pool)
  BY <1>1, OrderBegins
<1>3. \A c \in pool : V[c] \in Int
  BY <1>2, ValuesType
<1>4. \A c \in rest : V[c] = SelectionScore(lambda, value[c], nearest[c])
  BY DEF Values
<1>5. rest \in SUBSET Int /\ IsFiniteSet(rest)
  <2>1. pool \subseteq Nat /\ IsFiniteSet(pool) /\ rest \in SUBSET pool
    BY DEF Readable
  <2>2. IsFiniteSet(rest)
    BY <2>1, FS_Subset
  <2>3. \A c \in rest : c \in Int
    BY <2>1
  <2> QED
    BY <2>2, <2>3
<1> HIDE DEF V
<1>6. \E c \in rest : \A d \in rest \ {c} : Ahead(V, c, d)
  BY <1>3, <1>5, FirstOfAll
<1>7. \A c, d \in rest : Ahead(V, c, d)
          <=> \/ SelectionScore(lambda, value[c], nearest[c])
                   > SelectionScore(lambda, value[d], nearest[d])
              \/ /\ SelectionScore(lambda, value[c], nearest[c])
                      = SelectionScore(lambda, value[d], nearest[d])
                 /\ c < d
  BY <1>4 DEF Ahead
<1>8. best \in rest /\ \A d \in rest \ {best} : Ahead(V, best, d)
  BY <1>6, <1>7 DEF BestOf
<1> HIDE DEF best
<1>9. best \in pool /\ \A j \in 1..n : order[j] # best
  BY <1>8
<1>10. /\ longer \in Seq(pool) /\ Len(longer) = n + 1 /\ longer[n + 1] = best
       /\ \A j \in 1..n : longer[j] = order[j]
  BY <1>1, <1>9
<1> HIDE DEF longer
<1>11. \A i, j \in 1..(n + 1) : longer[i] = longer[j] => i = j
  <2> SUFFICES ASSUME NEW i \in 1..(n + 1), NEW j \in 1..(n + 1), longer[i] = longer[j]
               PROVE  i = j
    OBVIOUS
  <2>1. CASE i \in 1..n /\ j \in 1..n
    BY <1>10, <2>1 DEF Leads
  <2>2. CASE i = n + 1 \/ j = n + 1
    BY <1>1, <1>9, <1>10, <2>2
  <2> QED
    BY <1>1, <2>1, <2>2
<1>12. ASSUME NEW i \in 1..(n + 1), NEW c \in pool, \A j \in 1..i : longer[j] # c
       PROVE  Ahead(Values(longer, i, lambda, value, texts, pool), longer[i], c)
  <2>1. Values(longer, i, lambda, value, texts, pool) = Values(order, i, lambda, value, texts, pool)
    <3>1. i \in Nat /\ \A j \in 1..(i - 1) : longer[j] = order[j]
      BY <1>1, <1>10
    <3> QED
      BY <3>1, ValuesOfPrefix
  <2>2. CASE i \in 1..n
    <3>1. \A j \in 1..i : order[j] # c
      BY <1>10, <1>12, <2>2
    <3>2. Ahead(Values(order, i, lambda, value, texts, pool), order[i], c)
      BY <2>2, <3>1 DEF Leads
    <3> QED
      BY <1>10, <2>1, <2>2, <3>2
  <2>3. CASE i = n + 1
    <3>1. c # best /\ \A j \in 1..n : order[j] # c
      BY <1>1, <1>10, <1>12, <2>3
    <3>2. c \in rest \ {best}
      BY <3>1
    <3>3. Ahead(V, best, c)
      BY <1>8, <3>2
    <3> QED
      BY <1>10, <2>1, <2>3, <3>3 DEF V
  <2> QED
    BY <1>1, <2>2, <2>3
<1>13. Leads(longer, pool, lambda, value, texts)
  BY <1>10, <1>11, <1>12 DEF Leads
<1> QED
  BY <1>8, <1>13 DEF best, longer

\* Two beginnings agree as far as the shorter one goes.
LEMMA LeadsAgree ==
    ASSUME NEW pool, NEW lambda, NEW value, NEW texts, Readable(pool, lambda, value, texts),
           NEW order, Leads(order, pool, lambda, value, texts),
           NEW longer, Leads(longer, pool, lambda, value, texts), Len(order) <= Len(longer)
    PROVE  \A i \in 1..Len(order) : order[i] = longer[i]
<1> DEFINE T == {i \in 1..Len(order) : order[i] # longer[i]}
<1>1. SUFFICES ASSUME T # {} PROVE FALSE
  OBVIOUS
<1>2. order \in Seq(pool) /\ longer \in Seq(pool) /\ Len(order) \in Nat /\ Len(longer) \in Nat
  BY DEF Leads
<1>3. PICK i \in T : \A m \in T : i <= m
  <2>1. T \in SUBSET Nat
    BY <1>2
  <2> HIDE DEF T
  <2> QED
    BY <1>1, <2>1, LeastNumber
<1>4. /\ i \in 1..Len(order) /\ i \in 1..Len(longer) /\ i \in Nat \ {0}
      /\ order[i] # longer[i] /\ \A j \in 1..(i - 1) : order[j] = longer[j]
  BY <1>2, <1>3
<1> HIDE DEF T
<1>5. order[i] \in pool /\ longer[i] \in pool
  BY <1>2, <1>4
<1>6. \A j \in 1..i : order[j] # longer[i]
  <2> SUFFICES ASSUME NEW j \in 1..i, order[j] = longer[i] PROVE FALSE
    OBVIOUS
  <2>1. j \in 1..(i - 1) /\ j \in 1..Len(longer)
    BY <1>2, <1>4
  <2>2. longer[j] = longer[i]
    BY <1>4, <2>1
  <2> QED
    BY <1>4, <2>1, <2>2 DEF Leads
<1>7. \A j \in 1..i : longer[j] # order[i]
  <2> SUFFICES ASSUME NEW j \in 1..i, longer[j] = order[i] PROVE FALSE
    OBVIOUS
  <2>1. j \in 1..(i - 1) /\ j \in 1..Len(order)
    BY <1>2, <1>4
  <2>2. order[j] = order[i]
    BY <1>4, <2>1
  <2> QED
    BY <1>4, <2>1, <2>2 DEF Leads
<1>8. PICK V : V = Values(order, i, lambda, value, texts, pool)
  OBVIOUS
<1>9. V = Values(longer, i, lambda, value, texts, pool)
  BY <1>4, <1>8, ValuesOfPrefix
<1>10. Ahead(V, order[i], longer[i]) /\ Ahead(V, longer[i], order[i])
  BY <1>4, <1>5, <1>6, <1>7, <1>8, <1>9 DEF Leads
<1>11. \A c \in pool : V[c] \in Int
  <2>1. Begins(order, i - 1, pool)
    BY <1>2, <1>4, OrderBegins
  <2> QED
    BY <1>4, <1>8, <2>1, ValuesType
<1>12. order[i] \in Int /\ longer[i] \in Int
  <2>1. pool \subseteq Nat
    BY DEF Readable
  <2>2. order[i] \in Nat /\ longer[i] \in Nat
    BY <1>5, <2>1
  <2> QED
    BY <2>2
<1> QED
  BY <1>5, <1>10, <1>11, <1>12 DEF Ahead

\* The candidates that a beginning leaves.
Left(order, pool) == {c \in pool : \A j \in 1..Len(order) : order[j] # c}

LEMMA LeadsCounts ==
    ASSUME NEW pool, NEW lambda, NEW value, NEW texts, Readable(pool, lambda, value, texts),
           NEW order, Leads(order, pool, lambda, value, texts)
    PROVE  /\ Len(order) <= Cardinality(pool)
           /\ Len(order) = Cardinality(pool) <=> Left(order, pool) = {}
<1> DEFINE n == Len(order)
<1>1. n \in Nat /\ order \in [1..n -> pool] /\ DOMAIN order = 1..n
  BY DEF Leads
<1>2. order \in Injection(1..n, pool)
  BY <1>1 DEF Leads, Injection, IsInjective
<1>3. IsFiniteSet(pool) /\ Cardinality(1..n) = n
  <2> HIDE DEF n
  <2>1. Cardinality(1..n) = n
    BY <1>1, FS_Interval
  <2> QED
    BY <2>1 DEF Readable
<1>4. n <= Cardinality(pool) /\ (n = Cardinality(pool) <=> order \in Surjection(1..n, pool))
  BY <1>2, <1>3, FS_Injection
<1>5. order \in Surjection(1..n, pool) <=> Left(order, pool) = {}
  BY <1>1 DEF Surjection, Left
<1> QED
  BY <1>4, <1>5

\* Every number of candidates the pool has can be selected.
LEMMA LeadsExist ==
    ASSUME NEW pool, NEW lambda, NEW value, NEW texts, Readable(pool, lambda, value, texts)
    PROVE  \A n \in 0..Cardinality(pool) :
              \E order : Leads(order, pool, lambda, value, texts) /\ Len(order) = n
<1> DEFINE Reached(n) == \E order : Leads(order, pool, lambda, value, texts) /\ Len(order) = n
           T == {n \in 0..Cardinality(pool) : ~ Reached(n)}
<1>1. SUFFICES ASSUME T # {} PROVE FALSE
  OBVIOUS
<1>2. IsFiniteSet(pool) /\ Cardinality(pool) \in Nat
  BY FS_CardinalityType DEF Readable
<1>3. PICK n \in T : \A m \in T : n <= m
  <2>1. T \in SUBSET Nat
    BY <1>2
  <2> HIDE DEF T
  <2> QED
    BY <1>1, <2>1, LeastNumber
<1>4. n \in 0..Cardinality(pool) /\ ~ Reached(n)
  BY <1>3
<1>5. n # 0
  <2>1. Leads(<<>>, pool, lambda, value, texts) /\ Len(<<>>) = 0
    BY DEF Leads
  <2> QED
    BY <1>4, <2>1
<1>6. n - 1 \in 0..Cardinality(pool) /\ n - 1 \notin T
  BY <1>2, <1>3, <1>4, <1>5
<1>7. PICK order : Leads(order, pool, lambda, value, texts) /\ Len(order) = n - 1
  BY <1>6
<1>8. Left(order, pool) # {}
  BY <1>2, <1>4, <1>7, LeadsCounts
<1> DEFINE rest == Left(order, pool)
           nearest == [c \in rest |-> NearestBefore(order, Len(order) + 1, texts, c)]
           longer == Append(order, BestOf(rest, lambda, value, nearest))
<1>9. \A c \in rest : nearest[c] = NearestBefore(order, Len(order) + 1, texts, c)
  OBVIOUS
<1>10. rest = {c \in pool : \A j \in 1..Len(order) : order[j] # c}
  BY DEF Left
<1> HIDE DEF rest, nearest
<1>11. /\ BestOf(rest, lambda, value, nearest) \in rest
       /\ Leads(longer, pool, lambda, value, texts)
  BY <1>7, <1>8, <1>9, <1>10, NextLeads DEF rest
<1>12. Len(longer) = n
  <2>1. order \in Seq(pool) /\ BestOf(rest, lambda, value, nearest) \in pool
    BY <1>7, <1>10, <1>11 DEF Leads
  <2> QED
    BY <1>4, <1>7, <2>1
<1> HIDE DEF longer
<1> QED
  BY <1>4, <1>11, <1>12

\* What IsGreedy says of an order of the whole pool.
LEMMA GreedyLeads ==
    ASSUME NEW pool, NEW lambda, NEW value, NEW texts, Readable(pool, lambda, value, texts),
           NEW order
    PROVE  order \in SetToSeqs(pool) /\ IsGreedy(order, lambda, value, texts)
             <=> Leads(order, pool, lambda, value, texts) /\ Len(order) = Cardinality(pool)
<1> DEFINE n == Cardinality(pool)
           S(i, c) == SelectionScore(lambda, value[c], NearestBefore(order, i, texts, c))
<1>1. n \in Nat
  BY FS_CardinalityType DEF Readable
<1>2. \A i \in 1..n : \A c, d \in pool :
          Ahead(Values(order, i, lambda, value, texts, pool), c, d)
            <=> S(i, c) > S(i, d) \/ (S(i, c) = S(i, d) /\ c < d)
  BY DEF Ahead, Values
<1>3. ASSUME order \in SetToSeqs(pool), IsGreedy(order, lambda, value, texts)
      PROVE  Leads(order, pool, lambda, value, texts) /\ Len(order) = n
  <2>1. order \in [1..n -> pool] /\ \A i, j \in 1..n : i # j => order[i] # order[j]
    BY <1>3 DEF SetToSeqs
  <2>2. order \in Seq(pool) /\ Len(order) = n /\ DOMAIN order = 1..n
    BY <1>1, <2>1
  <2>3. order \in Surjection(1..n, pool)
    <3>1. order \in Injection(1..n, pool)
      BY <2>1, <2>2 DEF Injection, IsInjective
    <3>2. IsFiniteSet(pool) /\ Cardinality(1..n) = n
      BY <1>1, FS_Interval DEF Readable
    <3> QED
      BY <3>1, <3>2, FS_Injection
  <2>4. ASSUME NEW i \in 1..n, NEW c \in pool, \A j \in 1..i : order[j] # c
        PROVE  Ahead(Values(order, i, lambda, value, texts, pool), order[i], c)
    <3>1. PICK k \in 1..n : order[k] = c
      BY <2>3 DEF Surjection
    <3>2. i < k
      BY <1>1, <2>4, <3>1
    <3>3. S(i, order[i]) > S(i, order[k]) \/ (S(i, order[i]) = S(i, order[k]) /\ order[i] < order[k])
      BY <1>3, <2>2, <3>2 DEF IsGreedy
    <3>4. order[i] \in pool
      BY <2>1
    <3> HIDE DEF S
    <3> QED
      BY <1>2, <3>1, <3>3, <3>4
  <2> QED
    BY <2>1, <2>2, <2>4 DEF Leads
<1>4. ASSUME Leads(order, pool, lambda, value, texts), Len(order) = n
      PROVE  order \in SetToSeqs(pool) /\ IsGreedy(order, lambda, value, texts)
  <2>1. order \in [1..n -> pool] /\ DOMAIN order = 1..n
    BY <1>4 DEF Leads
  <2>2. \A i, j \in 1..n : order[i] = order[j] => i = j
    BY <1>4 DEF Leads
  <2>3. order \in SetToSeqs(pool)
    BY <2>1, <2>2 DEF SetToSeqs
  <2>4. ASSUME NEW i \in 1..n, NEW j \in 1..n, i < j
        PROVE  S(i, order[i]) > S(i, order[j]) \/ (S(i, order[i]) = S(i, order[j]) /\ order[i] < order[j])
    <3>1. \A k \in 1..i : order[k] # order[j]
      BY <1>1, <2>2, <2>4
    <3>2. order[i] \in pool /\ order[j] \in pool
      BY <2>1
    <3>3. Ahead(Values(order, i, lambda, value, texts, pool), order[i], order[j])
      BY <1>4, <3>1, <3>2 DEF Leads
    <3> HIDE DEF S
    <3> QED
      BY <1>2, <3>2, <3>3
  <2>5. IsGreedy(order, lambda, value, texts)
    BY <2>1, <2>4 DEF IsGreedy
  <2> QED
    BY <2>3, <2>5
<1> QED
  BY <1>3, <1>4

\* The greedy order: there is one, and every beginning begins it.
LEMMA GreedyIs ==
    ASSUME NEW pool, NEW lambda, NEW value, NEW texts, Readable(pool, lambda, value, texts)
    PROVE  /\ Leads(Greedy(pool, lambda, value, texts), pool, lambda, value, texts)
           /\ Len(Greedy(pool, lambda, value, texts)) = Cardinality(pool)
<1>1. Cardinality(pool) \in Nat
  BY FS_CardinalityType DEF Readable
<1>2. PICK order : Leads(order, pool, lambda, value, texts) /\ Len(order) = Cardinality(pool)
  BY <1>1, LeadsExist
<1>3. order \in SetToSeqs(pool) /\ IsGreedy(order, lambda, value, texts)
  BY <1>2, GreedyLeads
<1>4. /\ Greedy(pool, lambda, value, texts) \in SetToSeqs(pool)
      /\ IsGreedy(Greedy(pool, lambda, value, texts), lambda, value, texts)
  BY <1>3 DEF Greedy
<1> QED
  BY <1>4, GreedyLeads

\* The scores shown along an order never rise.
LEMMA ShownFalls ==
    ASSUME NEW pool, NEW lambda, NEW value, NEW texts, Readable(pool, lambda, value, texts),
           NEW order, Leads(order, pool, lambda, value, texts), NEW i \in 2..Len(order)
    PROVE  SelectionScore(lambda, value[order[i]], NearestBefore(order, i, texts, order[i]))
             <= SelectionScore(lambda, value[order[i - 1]],
                               NearestBefore(order, i - 1, texts, order[i - 1]))
<1> DEFINE c == order[i]
           b == order[i - 1]
           V == Values(order, i - 1, lambda, value, texts, pool)
<1>1. order \in Seq(pool) /\ Len(order) \in Nat
  BY DEF Leads
<1>2. /\ i - 1 \in 1..Len(order) /\ i - 1 \in Nat \ {0} /\ i \in Nat \ {0} /\ (i - 1) + 1 = i
      /\ i \in 1..Len(order) /\ (i - 1) - 1 \in 0..Len(order) /\ i - 1 \in 0..Len(order)
  BY <1>1
<1>3. c \in pool /\ b \in pool
  BY <1>1, <1>2
<1>4. Begins(order, i - 1, pool) /\ Begins(order, (i - 1) - 1, pool)
  BY <1>1, <1>2, OrderBegins
<1>5. \A j \in 1..(i - 1) : order[j] # c
  BY <1>1, <1>2 DEF Leads
<1>6. Ahead(V, b, c)
  BY <1>2, <1>3, <1>5 DEF Leads
<1>7. V[b] \in Int /\ V[c] \in Int
  BY <1>2, <1>3, <1>4, ValuesType
<1>8. V[c] <= V[b]
  <2> HIDE DEF V, b, c
  <2> QED
    BY <1>6, <1>7 DEF Ahead
<1>9. /\ V[b] = SelectionScore(lambda, value[b], NearestBefore(order, i - 1, texts, b))
      /\ V[c] = SelectionScore(lambda, value[c], NearestBefore(order, i - 1, texts, c))
  BY <1>3 DEF Values
<1>10. /\ NearestBefore(order, i - 1, texts, c) \in Nat
       /\ NearestBefore(order, i, texts, c) \in Nat
       /\ NearestBefore(order, i - 1, texts, c) <= NearestBefore(order, i, texts, c)
  <2>1. NearestBefore(order, i - 1, texts, c) <= NearestBefore(order, (i - 1) + 1, texts, c)
    BY <1>2, <1>3, <1>4, NearestGrows
  <2>2. NearestBefore(order, i - 1, texts, c) \in Nat
    BY <1>2, <1>3, <1>4, NearestIsNat
  <2>3. NearestBefore(order, i, texts, c) \in Nat
    BY <1>2, <1>3, <1>4, NearestIsNat
  <2> QED
    BY <1>2, <2>1, <2>2, <2>3
<1>11. lambda \in 0..10 /\ value[c] \in Nat
  BY <1>3 DEF Readable
<1>12. SelectionScore(lambda, value[c], NearestBefore(order, i, texts, c))
         <= SelectionScore(lambda, value[c], NearestBefore(order, i - 1, texts, c))
  BY <1>10, <1>11, ScoresFall
<1>13. SelectionScore(lambda, value[c], NearestBefore(order, i, texts, c)) \in Int
  BY <1>10, <1>11, ScoresAreNumbers
<1> HIDE DEF V, b, c
<1>14. SelectionScore(lambda, value[c], NearestBefore(order, i, texts, c))
         <= SelectionScore(lambda, value[b], NearestBefore(order, i - 1, texts, b))
  BY <1>7, <1>8, <1>9, <1>12, <1>13
<1> QED
  BY <1>14 DEF b, c

(***************************************************************************)
(* The invariant of a request.                                              *)
(***************************************************************************)

\* Items are prepared before they are ranked, and ranked once.
Unranked == score = <<>> /\ entries = <<>> /\ fusion = None
Unprepared == views = <<>> /\ Unranked

Views ==
    /\ DOMAIN views \subseteq Nat /\ IsFiniteSet(DOMAIN views)
    /\ \A c \in DOMAIN views : views[c] \in Seq(STRING)

\* A selection of the pool is at a beginning of the greedy order, and keeps for those it
\* has left how near they are to it.
Selecting ==
    /\ fusion = None
    /\ DOMAIN score \subseteq DOMAIN views /\ \A c \in DOMAIN score : score[c] \in Nat
    /\ Leads(entries, DOMAIN score, ask.diverse.lambda, score, views)
    /\ Len(entries) <= ask.diverse.limit
    /\ near = [c \in Left(entries, DOMAIN score) |->
                  NearestBefore(entries, Len(entries) + 1, views, c)]

DiverseInv ==
    /\ ask \in Asks
    /\ phase \in {"asked", "requested", "noop"} => Unprepared
    /\ phase = "prepared" => Unranked
    /\ ask.diverse # None /\ phase # "noop" =>
          /\ Views
          /\ Unranked \/ Selecting
          /\ phase = "selecting" => Selecting
          /\ phase = "ranked" =>
                /\ Selecting
                /\ Len(entries) >= ask.diverse.limit \/ Left(entries, DOMAIN score) = {}

LEMMA TruncatedIsText ==
    ASSUME NEW text \in Seq(STRING), NEW how
    PROVE  Truncated(text, how) \in Seq(STRING)
<1> DEFINE left == MaxWords \div 2
           right == MaxWords - left
<1>1. MaxWords \in Nat \ {0}
  BY SelectionSizes
<1>2. left \in Nat /\ left <= MaxWords
  BY <1>1
<1>3. Len(text) \in Nat /\ \A i \in 1..Len(text) : text[i] \in STRING
  OBVIOUS
<1>4. ASSUME Len(text) > MaxWords
      PROVE  /\ SubSeq(text, 1, MaxWords) \in Seq(STRING)
             /\ SubSeq(text, 1, left) \in Seq(STRING)
             /\ SubSeq(text, Len(text) - right + 1, Len(text)) \in Seq(STRING)
  <2> HIDE DEF left
  <2>1. \A i \in 1..MaxWords : text[i] \in STRING
    BY <1>1, <1>3, <1>4
  <2>2. \A i \in 1..left : text[i] \in STRING
    BY <1>1, <1>2, <1>3, <1>4
  <2>3. Len(text) - right + 1 \in Int /\ Len(text) - right + 1 >= 1
    BY <1>1, <1>2, <1>3, <1>4
  <2>4. \A i \in (Len(text) - right + 1)..Len(text) : text[i] \in STRING
    BY <1>3, <2>3
  <2>5. SubSeq(text, 1, MaxWords) \in Seq(STRING)
    BY <1>1, <2>1, SubSeqProperties
  <2>6. SubSeq(text, 1, left) \in Seq(STRING)
    BY <1>2, <2>2, SubSeqProperties
  <2>7. SubSeq(text, Len(text) - right + 1, Len(text)) \in Seq(STRING)
    <3>1. Len(text) \in Int
      BY <1>3
    <3> HIDE DEF right
    <3> QED
      BY <2>3, <2>4, <3>1, SubSeqProperties
  <2> QED
    BY <2>5, <2>6, <2>7
<1>5. TooLong(text) <=> Len(text) > MaxWords
  BY DEF TooLong
<1> HIDE DEF left, right
<1>6. ASSUME Len(text) > MaxWords
      PROVE  SubSeq(text, 1, left) \o SubSeq(text, Len(text) - right + 1, Len(text)) \in Seq(STRING)
  <2>1. PICK a, b : a = SubSeq(text, 1, left) /\ b = SubSeq(text, Len(text) - right + 1, Len(text))
    OBVIOUS
  <2>2. a \in Seq(STRING) /\ b \in Seq(STRING)
    BY <1>4, <1>6, <2>1
  <2>3. a \o b \in Seq(STRING)
    BY <2>2
  <2> QED
    BY <2>1, <2>3
<1> QED
  BY <1>4, <1>5, <1>6 DEF Truncated, left, right

LEMMA ViewsMade ==
    ASSUME ask \in Asks, NEW eligible \in SUBSET Items(ask), NEW v,
           v = ViewsOf(ask.texts, eligible, ask.truncation)
    PROVE  /\ DOMAIN v \subseteq Nat /\ IsFiniteSet(DOMAIN v)
           /\ \A c \in DOMAIN v : v[c] \in Seq(STRING)
<1>1. ask.texts \in Seq(Seq(STRING))
  BY AsksAreAsks
<1>2. Len(ask.texts) \in Nat /\ \A c \in Items(ask) : ask.texts[c] \in Seq(STRING)
  BY <1>1 DEF Items
<1>3. Items(ask) \subseteq Nat /\ IsFiniteSet(Items(ask))
  BY <1>2, FS_Interval DEF Items
<1>4. DOMAIN v = eligible /\ \A c \in eligible : v[c] = Truncated(ask.texts[c], ask.truncation)
  BY DEF ViewsOf
<1>5. IsFiniteSet(eligible)
  BY <1>3, FS_Subset
<1>6. \A c \in eligible : v[c] \in Seq(STRING)
  BY <1>2, <1>4, TruncatedIsText
<1> QED
  BY <1>3, <1>4, <1>5, <1>6

LEMMA DiverseAsks ==
    ASSUME ask \in Asks, ask.diverse # None
    PROVE  ask.diverse.limit \in Nat /\ ask.diverse.lambda \in 0..10
BY AsksAreAsks

LEMMA PoolIsReadable ==
    ASSUME ask \in Asks, ask.diverse # None, Views, DOMAIN score \subseteq DOMAIN views,
           \A c \in DOMAIN score : score[c] \in Nat
    PROVE  Readable(DOMAIN score, ask.diverse.lambda, score, views)
<1>1. ask.diverse.lambda \in 0..10
  BY DiverseAsks
<1>2. DOMAIN score \in SUBSET DOMAIN views /\ IsFiniteSet(DOMAIN views)
  BY DEF Views
<1>3. IsFiniteSet(DOMAIN score)
  BY <1>2, FS_Subset
<1>4. DOMAIN score \subseteq Nat /\ \A c \in DOMAIN score : views[c] \in Seq(STRING)
  BY <1>2 DEF Views
<1> QED
  BY <1>1, <1>3, <1>4 DEF Readable

LEMMA InitDiverse == Init => DiverseInv
<1> SUFFICES ASSUME Init PROVE DiverseInv
  OBVIOUS
<1>1. Unprepared /\ Unranked /\ phase = "asked" /\ ask \in Asks
  BY DEF Init, Unprepared, Unranked
<1>2. DOMAIN views = {}
  BY <1>1 DEF Unprepared
<1>3. Views
  BY <1>2, FS_EmptySet DEF Views
<1> QED
  BY <1>1, <1>3 DEF DiverseInv

\* Steps that touch neither the selection nor what it reads.
LEMMA DiverseKept ==
    ASSUME DiverseInv, UNCHANGED <<ask, views, score, entries, near, fusion>>,
           phase' \notin {"asked", "selecting"}, phase' = "noop" => phase = "asked",
           phase' = "requested" => phase = "asked", phase' = "prepared" => phase = "prepared",
           phase' = "ranked" => phase = "ranked",
           phase # "noop"
    PROVE  DiverseInv'
<1>1. Unprepared' <=> Unprepared
  BY DEF Unprepared, Unranked
<1>2. Unranked' <=> Unranked
  BY DEF Unranked
<1>3. Views' <=> Views
  BY DEF Views
<1>4. Selecting' <=> Selecting
  BY DEF Selecting
<1>5. Left(entries, DOMAIN score)' = Left(entries, DOMAIN score)
  BY DEF Left
<1> QED
  BY <1>1, <1>2, <1>3, <1>4, <1>5 DEF DiverseInv

LEMMA PrepareDiverse == ASSUME DiverseInv, Prepare PROVE DiverseInv'
<1>1. /\ ask \in Asks /\ Unprepared /\ phase = "requested"
  BY DEF Prepare, DiverseInv
<1>2. ask' = ask /\ UNCHANGED <<score, entries, near, fusion>> /\ Unranked /\ Unranked'
  BY <1>1 DEF Prepare, Fail, Unprepared, Unranked
<1>3. PICK eligible \in SUBSET Items(ask) :
          IF Unpreparable(eligible) THEN Fail
          ELSE /\ views' = ViewsOf(ask.texts, eligible, ask.truncation)
               /\ phase' = IF eligible = {} THEN "answered" ELSE "prepared"
  BY DEF Prepare
<1>4. CASE Unpreparable(eligible)
  <2>1. phase' = "failed" /\ views' = views
    BY <1>3, <1>4 DEF Fail
  <2>2. Views'
    <3>1. views' = <<>> /\ DOMAIN views' = {}
      BY <1>1, <2>1 DEF Unprepared
    <3> QED
      BY <3>1, FS_EmptySet DEF Views
  <2> QED
    BY <1>1, <1>2, <2>1, <2>2 DEF DiverseInv
<1>5. CASE ~ Unpreparable(eligible)
  <2>1. phase' \in {"answered", "prepared"}
    BY <1>3, <1>5
  <2>2. Views'
    <3>1. PICK v : v = ViewsOf(ask.texts, eligible, ask.truncation) /\ views' = v
      BY <1>3, <1>5
    <3>2. /\ DOMAIN v \subseteq Nat /\ IsFiniteSet(DOMAIN v)
          /\ \A c \in DOMAIN v : v[c] \in Seq(STRING)
      BY <1>1, <3>1, ViewsMade
    <3> QED
      BY <3>1, <3>2 DEF Views
  <2> QED
    BY <1>1, <1>2, <2>1, <2>2 DEF DiverseInv
<1> QED
  BY <1>4, <1>5

LEMMA RankDiverse == ASSUME DiverseInv, Rank PROVE DiverseInv'
<1>1. /\ phase = "prepared" /\ ask' = ask /\ views' = views /\ fusion' = fusion /\ ask \in Asks
      /\ Unranked
  BY DEF Rank, DiverseInv
<1>2. CASE ask.diverse = None
  BY <1>1, <1>2 DEF Rank, DiverseInv
<1>3. CASE ask.diverse # None
  <2>1. /\ phase' = "selecting" /\ entries' = <<>>
        /\ near' = [c \in DOMAIN score' |-> 0]
    BY <1>3 DEF Rank
  <2>2. PICK scored \in SUBSET DOMAIN views : score' \in [scored -> Scores]
    BY DEF Rank
  <2>3. DOMAIN score' \subseteq DOMAIN views /\ \A c \in DOMAIN score' : score'[c] \in Nat
    <3>1. Scores \subseteq Nat
      BY EvaluationSizes, SelectionSizes
    <3>2. DOMAIN score' = scored /\ \A c \in scored : score'[c] \in Scores
      BY <2>2
    <3> QED
      BY <3>1, <3>2
  <2>4. Views /\ Views'
    BY <1>1, <1>3 DEF DiverseInv, Views
  <2>5. PICK s, a : s = score' /\ a = ask
    OBVIOUS
  <2>6. PICK v : v = views
    OBVIOUS
  <2>7. Readable(DOMAIN s, a.diverse.lambda, s, v)
    <3>1. a.diverse.lambda \in 0..10
      BY <1>1, <1>3, <2>5, DiverseAsks
    <3>2. DOMAIN s \in SUBSET DOMAIN v /\ IsFiniteSet(DOMAIN v) /\ DOMAIN v \subseteq Nat
      BY <2>3, <2>4, <2>5, <2>6 DEF Views
    <3>3. IsFiniteSet(DOMAIN s)
      BY <3>2, FS_Subset
    <3>4. \A c \in DOMAIN s : s[c] \in Nat /\ v[c] \in Seq(STRING)
      BY <2>3, <2>4, <2>5, <2>6 DEF Views
    <3> QED
      BY <3>1, <3>2, <3>3, <3>4 DEF Readable
  <2>8. Leads(<<>>, DOMAIN s, a.diverse.lambda, s, v)
    BY DEF Leads
  <2>9. Left(<<>>, DOMAIN s) = DOMAIN s /\ Len(<<>>) = 0
    BY DEF Left
  <2>10. \A c \in DOMAIN s : NearestBefore(<<>>, Len(<<>>) + 1, v, c) = 0
    <3> SUFFICES ASSUME NEW c \in DOMAIN s PROVE NearestBefore(<<>>, 1, v, c) = 0
      BY <2>9
    <3>1. 1 \in Nat \ {0} /\ Begins(<<>>, 1 - 1, DOMAIN s)
      BY DEF Begins
    <3>2. NearestBefore(<<>>, 1, v, c) \in Similarities(<<>>, 1, v, c)
      BY <2>7, <3>1, NearestIsLargest, Zenon
    <3>3. Similarities(<<>>, 1, v, c) = {0}
      BY DEF Similarities
    <3> QED
      BY <3>2, <3>3
  <2>11. [c \in DOMAIN s |-> 0]
           = [c \in Left(<<>>, DOMAIN s) |-> NearestBefore(<<>>, Len(<<>>) + 1, v, c)]
    BY <2>9, <2>10
  <2>12. a.diverse.limit \in Nat
    BY <1>1, <1>3, <2>5, DiverseAsks
  <2>13. 0 <= a.diverse.limit
    BY <2>12
  <2>14. Selecting'
    BY <1>1, <2>1, <2>3, <2>5, <2>6, <2>8, <2>9, <2>11, <2>13 DEF Selecting, Unranked
  <2> QED
    BY <1>1, <2>1, <2>4, <2>14 DEF DiverseInv
<1> QED
  BY <1>2, <1>3

LEMMA SelectDiverse == ASSUME DiverseInv, Select PROVE DiverseInv'
<1> DEFINE pool == DOMAIN score
           l == ask.diverse.lambda
           n == Len(entries)
           rest == Left(entries, pool)
           best == BestOf(rest, l, score, near)
           longer == Append(entries, best)
           Nearness(order, c) == NearestBefore(order, Len(order) + 1, views, c)
<1>1. phase = "selecting" /\ ask \in Asks
  BY DEF Select, DiverseInv
<1>2. CASE ask.diverse = None
  BY <1>1, <1>2 DEF Select, DiverseInv
<1>3. CASE ask.diverse # None
  <2>1. Views /\ Selecting
    BY <1>1, <1>3 DEF DiverseInv
  <2>2. Readable(pool, l, score, views)
    BY <1>1, <1>3, <2>1, PoolIsReadable DEF Selecting
  <2>3. Leads(entries, pool, l, score, views) /\ near = [c \in rest |-> Nearness(entries, c)]
    BY <2>1 DEF Selecting
  <2>4. DOMAIN near = rest /\ \A c \in rest : near[c] = Nearness(entries, c)
    BY <2>3
  <2>5. rest # {}
    <3>1. near # <<>>
      BY DEF Select
    <3>2. rest = {} => near = <<>>
      BY <2>3
    <3> QED
      BY <3>1, <3>2
  <2>6. rest = {c \in pool : \A j \in 1..Len(entries) : entries[j] # c}
    BY DEF Left
  <2>7. best \in rest /\ Leads(longer, pool, l, score, views)
    <3> HIDE DEF pool, l, rest, Nearness
    <3>1. \A c \in rest : near[c] = NearestBefore(entries, Len(entries) + 1, views, c)
      BY <2>4 DEF Nearness
    <3>2. Leads(entries, pool, l, score, views)
      BY <2>3
    <3>3. /\ BestOf(rest, l, score, near) \in rest
          /\ Leads(Append(entries, BestOf(rest, l, score, near)), pool, l, score, views)
      <4> HIDE DEF n, best, longer
      <4> QED
        BY <2>2, <2>5, <2>6, <3>1, <3>2, NextLeads
    <3> QED
      BY <3>3
  <2>8. /\ entries' = longer
        /\ near' = Nearer(Restrict(near, rest \ {best}), views, best)
        /\ UNCHANGED <<ask, phase, views, score, fusion>>
        /\ Len(entries) < ask.diverse.limit
    BY <2>4 DEF Select
  <2> HIDE DEF best
  <2>9. /\ entries \in Seq(pool) /\ longer \in Seq(pool) /\ n \in Nat
        /\ Len(longer) = n + 1 /\ longer[n + 1] = best
        /\ \A j \in 1..n : longer[j] = entries[j]
    <3>1. best \in pool
      BY <2>6, <2>7
    <3>2. entries \in Seq(pool)
      BY <2>3 DEF Leads
    <3> QED
      BY <3>1, <3>2
  <2> HIDE DEF longer
  <2>10. Left(longer, pool) = rest \ {best}
    BY <2>6, <2>9 DEF Left
  <2>11. ASSUME NEW c \in rest \ {best}
         PROVE  Max({near[c], Similarity(views[c], views[best])}) = Nearness(longer, c)
    <3>1. c \in pool /\ n + 1 \in Nat \ {0} /\ n + 1 \in 0..Len(longer)
      BY <2>6, <2>9
    <3>2. Begins(longer, n + 1, pool)
      BY <2>9, <3>1, OrderBegins
    <3>3. NearestBefore(longer, (n + 1) + 1, views, c)
            = Max({NearestBefore(longer, n + 1, views, c), Similarity(views[c], views[longer[n + 1]])})
      <4> HIDE DEF pool, l, n
      <4> QED
        BY <2>2, <3>1, <3>2, NearestStep
    <3>4. NearestBefore(longer, n + 1, views, c) = NearestBefore(entries, n + 1, views, c)
      <4>1. n + 1 \in Nat /\ \A j \in 1..((n + 1) - 1) : longer[j] = entries[j]
        BY <2>9
      <4> QED
        BY <4>1, NearestOfPrefix
    <3>5. near[c] = NearestBefore(entries, n + 1, views, c)
      BY <2>4
    <3> QED
      BY <2>9, <3>3, <3>4, <3>5
  <2>12. near' = [c \in Left(longer, pool) |-> Nearness(longer, c)]
    <3>1. near' = [c \in rest \ {best} |->
                      Max({Restrict(near, rest \ {best})[c], Similarity(views[c], views[best])})]
      BY <2>8 DEF Nearer, Restrict
    <3>2. \A c \in rest \ {best} : Restrict(near, rest \ {best})[c] = near[c]
      BY DEF Restrict
    <3> HIDE DEF rest, Nearness
    <3> QED
      BY <2>10, <2>11, <3>1, <3>2
  <2>13. Len(longer) <= ask.diverse.limit
    <3>1. ask.diverse.limit \in Nat
      BY <1>1, <1>3, DiverseAsks
    <3> QED
      BY <2>8, <2>9, <3>1
  <2>14. Selecting'
    BY <2>1, <2>7, <2>8, <2>12, <2>13 DEF Selecting
  <2>15. Views'
    BY <2>1, <2>8 DEF Views
  <2> QED
    BY <1>1, <2>8, <2>14, <2>15 DEF DiverseInv
<1> QED
  BY <1>2, <1>3

LEMMA SelectedDiverse == ASSUME DiverseInv, Selected PROVE DiverseInv'
<1>1. /\ phase = "selecting" /\ phase' = "ranked" /\ ask \in Asks
      /\ UNCHANGED <<ask, views, score, entries, near, fusion>>
      /\ Len(entries) >= ask.diverse.limit \/ near = <<>>
  BY DEF Selected, DiverseInv
<1>2. CASE ask.diverse = None
  BY <1>1, <1>2 DEF DiverseInv
<1>3. CASE ask.diverse # None
  <2>1. Views /\ Selecting
    BY <1>1, <1>3 DEF DiverseInv
  <2>2. near = <<>> => Left(entries, DOMAIN score) = {}
    <3>1. DOMAIN near = Left(entries, DOMAIN score)
      BY <2>1 DEF Selecting
    <3> QED
      BY <3>1
  <2>3. Views' /\ Selecting'
    BY <1>1, <2>1 DEF Views, Selecting
  <2>4. Left(entries, DOMAIN score)' = Left(entries, DOMAIN score)
    BY <1>1 DEF Left
  <2> QED
    BY <1>1, <2>2, <2>3, <2>4 DEF DiverseInv
<1> QED
  BY <1>2, <1>3

LEMMA DiverseInductive == DiverseInv /\ [Next]_vars => DiverseInv'
<1> SUFFICES ASSUME DiverseInv, [Next]_vars PROVE DiverseInv'
  OBVIOUS
<1>1. CASE UNCHANGED vars
  <2>1. UNCHANGED <<ask, phase, views, score, entries, near, fusion>>
    BY <1>1 DEF vars
  <2> QED
    BY <2>1 DEF DiverseInv, Unprepared, Unranked, Views, Selecting, Left
<1>2. CASE BeginCase \/ BeginRequest \/ Noop
  <2>1. /\ UNCHANGED <<ask, views, score, entries, near, fusion>>
        /\ phase = "asked" /\ phase' \in {"requested", "noop"}
    BY <1>2 DEF BeginCase, BeginRequest, Noop
  <2> QED
    BY <2>1, DiverseKept
<1>3. CASE RefuseCase \/ RefusePruning \/ Refuse \/ RejectCase
  <2>1. /\ UNCHANGED <<ask, views, score, entries, near, fusion>>
        /\ phase' = "failed" /\ phase # "noop"
    BY <1>3 DEF RefuseCase, RefusePruning, Refuse, RejectCase, Fail
  <2> QED
    BY <2>1, DiverseKept
<1>4. CASE Assemble \/ Measure
  <2>1. /\ UNCHANGED <<ask, views, score, entries, near, fusion>>
        /\ phase' \in {"answered", "measured"} /\ phase # "noop"
    BY <1>4 DEF Assemble, Measure
  <2> QED
    BY <2>1, DiverseKept
<1>5. CASE Fuse
  BY <1>5 DEF Fuse, DiverseInv
<1> QED
  BY <1>1, <1>2, <1>3, <1>4, <1>5, PrepareDiverse, RankDiverse, SelectDiverse, SelectedDiverse
  DEF Next

\* Of any pool, any texts and any weighting, the selection is the beginning of the greedy
\* order (DiverseOrder).
THEOREM SelectionsAreGreedy == Spec => []DiverseOrder
<1>1. DiverseInv => DiverseOrder
  <2> SUFFICES ASSUME DiverseInv, ask.diverse # None, score # <<>> PROVE DiverseOrder
    BY DEF DiverseOrder
  <2> DEFINE pool == DOMAIN score
             l == ask.diverse.lambda
             Shown(i) == SelectionScore(l, score[Whole[i]], NearestBefore(Whole, i, views, Whole[i]))
  <2>1. phase # "noop" /\ ~Unranked
    BY DEF DiverseInv, Unprepared, Unranked
  <2>2. ask \in Asks /\ Views /\ Selecting
    BY <2>1 DEF DiverseInv
  <2>3. Readable(pool, l, score, views)
    BY <2>2, PoolIsReadable DEF Selecting
  <2>4. Whole = Greedy(pool, l, score, views)
    BY <2>2 DEF Whole, Selecting
  <2>5. Leads(Whole, pool, l, score, views) /\ Len(Whole) = Cardinality(pool)
    BY <2>3, <2>4, GreedyIs
  <2>6. Leads(entries, pool, l, score, views) /\ Len(entries) <= ask.diverse.limit
    BY <2>2 DEF Selecting
  <2>7. /\ entries \in Seq(pool) /\ Whole \in Seq(pool)
        /\ Len(entries) \in Nat /\ Len(Whole) \in Nat
    BY <2>5, <2>6 DEF Leads
  <2> HIDE DEF pool, l
  <2>8. /\ Len(entries) <= Len(Whole)
        /\ Len(entries) = Len(Whole) <=> Left(entries, pool) = {}
    BY <2>3, <2>5, <2>6, LeadsCounts
  <2>9. \A i \in 1..Len(entries) : entries[i] = Whole[i]
    BY <2>3, <2>5, <2>6, <2>8, LeadsAgree
  <2>10. IsPrefix(entries, Whole)
    <3>1. SubSeq(entries, 1, Len(entries)) = SubSeq(Whole, 1, Len(entries))
      BY <2>7, <2>8, <2>9
    <3> QED
      BY <2>8, <3>1 DEF IsPrefix
  <2>11. ask.diverse.limit \in Nat
    BY <2>2, DiverseAsks
  <2>12. phase = "ranked" => Len(entries) = Min({ask.diverse.limit, Len(Whole)})
    <3> SUFFICES ASSUME phase = "ranked" PROVE Len(entries) = Min({ask.diverse.limit, Len(Whole)})
      OBVIOUS
    <3>1. Len(entries) >= ask.diverse.limit \/ Left(entries, pool) = {}
      BY <2>1 DEF DiverseInv, pool
    <3>2. PICK a, b, m : a = ask.diverse.limit /\ b = Len(Whole) /\ m = Len(entries)
      OBVIOUS
    <3>3. a \in Nat /\ b \in Nat /\ m \in {a, b} /\ m <= a /\ m <= b
      BY <2>6, <2>7, <2>8, <2>11, <3>1, <3>2
    <3>4. m = Min({a, b})
      BY <3>3 DEF Min
    <3> QED
      BY <3>2, <3>4
  <2>13. ASSUME NEW i \in 2..Len(entries) PROVE Shown(i) <= Shown(i - 1)
    <3>1. i \in 2..Len(Whole)
      BY <2>7, <2>8
    <3> QED
      BY <2>3, <2>5, <3>1, ShownFalls
  <2> QED
    BY <2>6, <2>10, <2>12, <2>13 DEF DiverseOrder, l
<1> QED
  BY InitDiverse, DiverseInductive, <1>1, PTL DEF Spec

(***************************************************************************)
(* Sorting: a finite set can be put in any strict total order.              *)
(***************************************************************************)

\* R puts the elements of S in a strict order.
Arranges(R, S) ==
    /\ \A c, d \in S : c # d => <<c, d>> \in R \/ <<d, c>> \in R
    /\ \A c, d, e \in S : <<c, d>> \in R /\ <<d, e>> \in R => <<c, e>> \in R

LastOne(R, s, c) == c \in s /\ \A d \in s \ {c} : <<d, c>> \in R

LEMMA LastExists ==
    ASSUME NEW S, IsFiniteSet(S), S # {}, NEW R, Arranges(R, S)
    PROVE  \E c \in S : LastOne(R, S, c)
<1> DEFINE B == {s \in SUBSET S : s # {} /\ ~ \E c \in s : LastOne(R, s, c)}
<1>1. SUFFICES ASSUME B # {} PROVE FALSE
  BY Zenon
<1>2. PICK s \in B : \A x \in s : s \ {x} \notin B
  <2>1. B \in SUBSET (SUBSET S)
    OBVIOUS
  <2> HIDE DEF B
  <2> QED
    BY <1>1, <2>1, SmallestSubset
<1>3. PICK x \in s : TRUE
  OBVIOUS
<1>4. CASE s \ {x} = {}
  <2>1. LastOne(R, s, x)
    BY <1>4 DEF LastOne
  <2> QED
    BY <2>1
<1>5. CASE s \ {x} # {}
  <2>1. PICK c \in s \ {x} : LastOne(R, s \ {x}, c)
    BY <1>2, <1>5
  <2>2. CASE <<x, c>> \in R
    <3>1. LastOne(R, s, c)
      BY <2>1, <2>2 DEF LastOne
    <3> QED
      BY <3>1
  <2>3. CASE <<x, c>> \notin R
    <3>1. <<c, x>> \in R
      BY <2>3 DEF Arranges
    <3>2. LastOne(R, s, x)
      <4>1. \A d \in s \ {x} : d = c \/ <<d, c>> \in R
        BY <2>1 DEF LastOne
      <4>2. \A d \in s \ {x} : <<d, x>> \in R
        BY <3>1, <4>1 DEF Arranges
      <4> QED
        BY <4>2 DEF LastOne
    <3> QED
      BY <3>2
  <2> QED
    BY <2>2, <2>3
<1> QED
  BY <1>4, <1>5

\* The sequence names every element of s once, in the order R.
Arranged(R, s, order) ==
    /\ order \in SetToSeqs(s)
    /\ \A i, j \in 1..Cardinality(s) : i < j => <<order[i], order[j]>> \in R

LEMMA ArrangementExists ==
    ASSUME NEW S, IsFiniteSet(S), NEW R, Arranges(R, S)
    PROVE  \E order : Arranged(R, S, order)
<1> DEFINE B == {s \in SUBSET S : ~ \E order : Arranged(R, s, order)}
<1>1. SUFFICES ASSUME B # {} PROVE FALSE
  <2>1. S \in SUBSET S
    OBVIOUS
  <2> QED
    BY <2>1, Zenon
<1>2. PICK s \in B : \A x \in s : s \ {x} \notin B
  <2>1. B \in SUBSET (SUBSET S)
    OBVIOUS
  <2> HIDE DEF B
  <2> QED
    BY <1>1, <2>1, SmallestSubset
<1>3. IsFiniteSet(s)
  BY FS_Subset
<1>4. s # {}
  <2>1. SUFFICES ASSUME s = {} PROVE FALSE
    OBVIOUS
  <2>2. Cardinality(s) = 0
    BY <2>1, FS_EmptySet
  <2>3. Arranged(R, s, <<>>)
    BY <2>1, <2>2 DEF Arranged, SetToSeqs
  <2> QED
    BY <2>3
<1>5. PICK x \in s : LastOne(R, s, x)
  <2>1. Arranges(R, s)
    BY DEF Arranges
  <2> QED
    BY <1>3, <1>4, <2>1, LastExists
<1>6. PICK order : Arranged(R, s \ {x}, order)
  BY <1>2
<1> DEFINE n == Cardinality(s)
           longer == [i \in 1..n |-> IF i = n THEN x ELSE order[i]]
<1>7. n \in Nat /\ n >= 1 /\ Cardinality(s \ {x}) = n - 1
  BY <1>3, <1>4, FS_CardinalityType, FS_RemoveElement, FS_EmptySet
<1> HIDE DEF n
<1>8. /\ order \in [1..(n - 1) -> s \ {x}]
      /\ \A i, j \in 1..(n - 1) : i # j => order[i] # order[j]
      /\ \A i, j \in 1..(n - 1) : i < j => <<order[i], order[j]>> \in R
  BY <1>6, <1>7 DEF Arranged, SetToSeqs
<1>9. \A i \in 1..n : longer[i] = IF i = n THEN x ELSE order[i]
  OBVIOUS
<1>10. \A i \in 1..n : longer[i] \in s /\ (i # n => i \in 1..(n - 1) /\ longer[i] \in s \ {x})
  BY <1>7, <1>8
<1>11. \A i, j \in 1..n : i # j => longer[i] # longer[j]
  BY <1>7, <1>8, <1>9, <1>10
<1>12. \A i, j \in 1..n : i < j => <<longer[i], longer[j]>> \in R
  <2> SUFFICES ASSUME NEW i \in 1..n, NEW j \in 1..n, i < j
               PROVE  <<longer[i], longer[j]>> \in R
    OBVIOUS
  <2>1. i # n /\ longer[i] \in s \ {x}
    BY <1>7, <1>10
  <2>2. CASE j = n
    <3>1. longer[j] = x
      BY <2>2
    <3> HIDE DEF longer
    <3> QED
      BY <1>5, <2>1, <3>1 DEF LastOne
  <2>3. CASE j # n
    BY <1>8, <1>9, <1>10, <2>1, <2>3
  <2> QED
    BY <2>2, <2>3
<1>13. longer \in [1..n -> s]
  BY <1>10
<1> HIDE DEF longer
<1>14. Arranged(R, s, longer)
  BY <1>11, <1>12, <1>13 DEF Arranged, SetToSeqs, n
<1> QED
  BY <1>14

\* What a sequence of all elements of a finite set is.
LEMMA WholeSequence ==
    ASSUME NEW S, IsFiniteSet(S), NEW order \in SetToSeqs(S)
    PROVE  /\ order \in Seq(S) /\ DOMAIN order = 1..Cardinality(S)
           /\ Len(order) = Cardinality(S) /\ Cardinality(S) \in Nat
           /\ ToSet(order) = S /\ IsInjective(order)
<1>1. Cardinality(S) \in Nat
  BY FS_CardinalityType
<1>2. /\ order \in [1..Cardinality(S) -> S]
      /\ \A i, j \in 1..Cardinality(S) : i # j => order[i] # order[j]
  BY DEF SetToSeqs
<1>3. order \in Seq(S) /\ DOMAIN order = 1..Cardinality(S) /\ Len(order) = Cardinality(S)
  BY <1>1, <1>2
<1>4. order \in Injection(1..Cardinality(S), S) /\ IsInjective(order)
  BY <1>2, <1>3 DEF Injection, IsInjective
<1>5. Cardinality(1..Cardinality(S)) = Cardinality(S)
  BY <1>1, FS_Interval
<1>6. order \in Surjection(1..Cardinality(S), S)
  BY <1>4, <1>5, FS_Injection
<1>7. ToSet(order) = S
  BY <1>2, <1>3, <1>6 DEF Surjection, ToSet
<1> QED
  BY <1>1, <1>3, <1>4, <1>7

\* A place in a sequence without repetition.
LEMMA RankIs ==
    ASSUME NEW s, IsInjective(s), NEW r \in DOMAIN s
    PROVE  RankIn(s, s[r]) = r
BY DEF RankIn, IsInjective

LEMMA RankOf ==
    ASSUME NEW s, NEW c \in ToSet(s)
    PROVE  RankIn(s, c) \in DOMAIN s /\ s[RankIn(s, c)] = c
BY DEF RankIn, ToSet

\* Candidates of different places are put in order: all of them, the higher values first.
LEMMA OrderedIs ==
    ASSUME NEW S, IsFiniteSet(S), NEW value \in [S -> Int], NEW place \in [S -> Int],
           IsInjective(place)
    PROVE  /\ Ordered(value, place) \in SetToSeqs(S)
           /\ \A c, d \in S : value[c] > value[d] \/ (value[c] = value[d] /\ place[c] < place[d])
                 => RankIn(Ordered(value, place), c) < RankIn(Ordered(value, place), d)
<1> DEFINE R == {p \in S \X S : \/ value[p[1]] > value[p[2]]
                                \/ value[p[1]] = value[p[2]] /\ place[p[1]] < place[p[2]]}
<1>1. \A c, d \in S : <<c, d>> \in R <=> \/ value[c] > value[d]
                                         \/ value[c] = value[d] /\ place[c] < place[d]
  OBVIOUS
<1> HIDE DEF R
<1>2. Arranges(R, S)
  <2>1. \A c, d \in S : c # d => place[c] # place[d]
    BY DEF IsInjective
  <2>2. \A c \in S : value[c] \in Int /\ place[c] \in Int
    OBVIOUS
  <2>3. \A c, d \in S : c # d => <<c, d>> \in R \/ <<d, c>> \in R
    BY <1>1, <2>1, <2>2
  <2>4. ASSUME NEW c \in S, NEW d \in S, NEW e \in S, <<c, d>> \in R, <<d, e>> \in R
        PROVE  <<c, e>> \in R
    BY <1>1, <2>2, <2>4
  <2> QED
    BY <2>3, <2>4 DEF Arranges
<1>3. PICK o : Arranged(R, S, o)
  BY <1>2, ArrangementExists
<1> DEFINE Falls(s) == \A i, j \in DOMAIN s : i < j =>
              \/ value[s[i]] > value[s[j]]
              \/ value[s[i]] = value[s[j]] /\ place[s[i]] < place[s[j]]
<1>4. o \in SetToSeqs(S) /\ Falls(o)
  <2>1. o \in SetToSeqs(S) /\ DOMAIN o = 1..Cardinality(S) /\ ToSet(o) = S
    BY <1>3, WholeSequence DEF Arranged
  <2>2. \A i \in DOMAIN o : o[i] \in S
    BY <2>1 DEF ToSet
  <2> QED
    BY <1>1, <1>3, <2>1, <2>2 DEF Arranged
<1> DEFINE order == Ordered(value, place)
<1>5. order \in SetToSeqs(S) /\ Falls(order)
  <2>1. DOMAIN value = S
    OBVIOUS
  <2>2. order = CHOOSE s \in SetToSeqs(S) : Falls(s)
    BY <2>1 DEF Ordered
  <2> HIDE DEF order, Falls
  <2> QED
    BY <1>4, <2>2
<1> HIDE DEF order
<1>6. ASSUME NEW c \in S, NEW d \in S,
             value[c] > value[d] \/ (value[c] = value[d] /\ place[c] < place[d])
      PROVE  RankIn(order, c) < RankIn(order, d)
  <2>1. ToSet(order) = S /\ DOMAIN order = 1..Cardinality(S) /\ Cardinality(S) \in Nat
    BY <1>5, WholeSequence
  <2>2. PICK i, j : i = RankIn(order, c) /\ j = RankIn(order, d)
    OBVIOUS
  <2>3. i \in DOMAIN order /\ order[i] = c /\ j \in DOMAIN order /\ order[j] = d
    BY <2>1, <2>2, RankOf
  <2>4. ~ (j < i) /\ i # j
    <3>1. /\ value[c] \in Int /\ value[d] \in Int
          /\ place[c] \in Int /\ place[d] \in Int
      OBVIOUS
    <3> QED
      BY <1>5, <1>6, <2>3, <3>1
  <2> QED
    BY <2>1, <2>2, <2>3, <2>4
<1> QED
  BY <1>5, <1>6 DEF order

(***************************************************************************)
(* The fusion of ranked lists.                                              *)
(***************************************************************************)

\* A set of numbers that holds, with each of its members, the one before it is empty: what
\* fails at no beginning, and nowhere for the first time, never fails.
LEMMA NoDescent ==
    ASSUME NEW T \in SUBSET Nat, \A n \in T : n - 1 \in T
    PROVE  T = {}
<1>1. SUFFICES ASSUME T # {} PROVE FALSE
  OBVIOUS
<1>2. PICK n \in T : \A m \in T : n <= m
  BY <1>1, LeastNumber
<1>3. n \in Nat /\ n - 1 \in T
  OBVIOUS
<1> QED
  BY <1>2, <1>3

\* What reciprocal_rank_fusion accepts.
Fusable(lists, weights) ==
    /\ lists \in Seq(Seq(Nat)) /\ weights \in [DOMAIN lists -> Weights]
    /\ \A i \in DOMAIN lists : IsInjective(lists[i]) /\ Len(lists[i]) <= MaxRank

LEMMA SequenceFacts ==
    ASSUME NEW S, NEW s \in Seq(S)
    PROVE  /\ Len(s) \in Nat /\ DOMAIN s = 1..Len(s) /\ IsFiniteSet(DOMAIN s)
           /\ IsFiniteSet(ToSet(s)) /\ ToSet(s) \subseteq S
           /\ \A r \in DOMAIN s : s[r] \in ToSet(s)
<1>1. Len(s) \in Nat /\ DOMAIN s = 1..Len(s) /\ s = [i \in 1..Len(s) |-> s[i]]
  OBVIOUS
<1>2. PICK n : n = Len(s)
  OBVIOUS
<1>3. IsFiniteSet(1..n)
  <2>1. 1 \in Int /\ n \in Int
    BY <1>1, <1>2
  <2> QED
    BY <2>1, FS_Interval
<1>4. IsFiniteSet({s[i] : i \in 1..n})
  BY <1>1, <1>2, ImageFinite
<1>5. ToSet(s) = {s[i] : i \in 1..n}
  BY <1>1, <1>2 DEF ToSet
<1>6. \A r \in 1..n : s[r] \in S
  BY <1>1, <1>2
<1> QED
  BY <1>1, <1>2, <1>3, <1>4, <1>5, <1>6

LEMMA ListedFinite ==
    ASSUME NEW lists \in Seq(Seq(Nat))
    PROVE  IsFiniteSet(Listed(lists))
<1> DEFINE Of(s) == UNION {ToSet(lists[i]) : i \in s}
           B == {s \in SUBSET (DOMAIN lists) : ~ IsFiniteSet(Of(s))}
<1>1. SUFFICES ASSUME B # {} PROVE FALSE
  <2>1. DOMAIN lists \in SUBSET (DOMAIN lists)
    OBVIOUS
  <2>2. Listed(lists) = Of(DOMAIN lists)
    BY DEF Listed
  <2> HIDE DEF Of
  <2> QED
    BY <2>1, <2>2
<1>2. PICK s \in B : \A i \in s : s \ {i} \notin B
  <2>1. B \in SUBSET (SUBSET (DOMAIN lists)) /\ IsFiniteSet(DOMAIN lists)
    BY SequenceFacts
  <2> HIDE DEF B
  <2> QED
    BY <1>1, <2>1, SmallestSubset
<1>3. s # {}
  <2>1. SUFFICES ASSUME s = {} PROVE FALSE
    OBVIOUS
  <2>2. Of(s) = {}
    BY <2>1
  <2> QED
    BY <2>2, FS_EmptySet
<1>4. PICK i \in s : TRUE
  BY <1>3
<1>5. IsFiniteSet(Of(s \ {i}))
  BY <1>2, <1>4
<1>6. IsFiniteSet(ToSet(lists[i]))
  <2>1. lists[i] \in Seq(Nat)
    OBVIOUS
  <2> QED
    BY <2>1, SequenceFacts
<1>7. Of(s) = Of(s \ {i}) \cup ToSet(lists[i])
  OBVIOUS
<1> HIDE DEF Of
<1>8. IsFiniteSet(Of(s))
  BY <1>5, <1>6, <1>7, FS_Union
<1> QED
  BY <1>8

\* What list i gives a candidate it names.
Gift(lists, weights, c, i) == Share[<<weights[i], RankIn(lists[i], c)>>]

LEMMA GiftType ==
    ASSUME NEW lists, NEW weights, Fusable(lists, weights),
           NEW i \in DOMAIN lists, NEW c \in ToSet(lists[i])
    PROVE  /\ RankIn(lists[i], c) \in 1..MaxRank /\ weights[i] \in Weights
           /\ Gift(lists, weights, c, i) \in Range(Share)
<1>1. PICK s, r, w : s = lists[i] /\ r = RankIn(s, c) /\ w = weights[i]
  OBVIOUS
<1>2. s \in Seq(Nat) /\ Len(s) <= MaxRank /\ w \in Weights /\ MaxRank \in Nat
  BY <1>1, FloatsRound DEF Fusable
<1>3. r \in 1..Len(s) /\ Len(s) \in Nat
  BY <1>1, <1>2, RankOf
<1>4. r \in 1..MaxRank
  BY <1>2, <1>3
<1>5. <<w, r>> \in DOMAIN Share
  BY <1>2, <1>4, FloatsRound
<1>6. Share[<<w, r>>] \in Range(Share)
  BY <1>5 DEF Range
<1> QED
  BY <1>1, <1>2, <1>4, <1>6 DEF Gift

LEMMA SharesAreFloats ==
    /\ \A x \in Range(Share) : x \in Float /\ x \in Nat
    /\ \A x \in Float : x \in Nat
    /\ \A x \in Float, y \in Range(Share) : Plus[<<x, y>>] \in Float
<1>1. Float \subseteq Nat /\ Share \in [Weights \X (1..MaxRank) -> Float]
      /\ Plus \in [Float \X Range(Share) -> Float]
  BY FloatsRound
<1>2. \A x \in Range(Share) : x \in Float
  BY <1>1 DEF Range
<1>3. PICK R : R = Range(Share)
  OBVIOUS
<1>4. \A x \in Float, y \in R : Plus[<<x, y>>] \in Float
  BY <1>1, <1>3
<1> QED
  BY <1>1, <1>2, <1>3, <1>4

\* The score of a candidate after the first n lists.
Adds(F, lists, weights, c, n) ==
    F[n] = IF n = 0 THEN 0
           ELSE IF c \in ToSet(lists[n]) THEN Plus[<<F[n - 1], Gift(lists, weights, c, n)>>]
           ELSE F[n - 1]

Sums(lists, weights, c) ==
    CHOOSE F : F = [n \in 0..Len(lists) |->
                      IF n = 0 THEN 0
                      ELSE IF c \in ToSet(lists[n])
                           THEN Plus[<<F[n - 1], Share[<<weights[n], RankIn(lists[n], c)>>]>>]
                           ELSE F[n - 1]]

LEMMA SumsExist ==
    ASSUME NEW lists \in Seq(Seq(Nat)), NEW weights, NEW c
    PROVE  \A n \in 0..Len(lists) : Adds(Sums(lists, weights, c), lists, weights, c, n)
<1> DEFINE n == Len(lists)
           Upto(k) == \E F : \A j \in 0..k : Adds(F, lists, weights, c, j)
           T == {k \in Nat : ~ Upto(k)}
<1>1. n \in Nat
  OBVIOUS
<1>2. ASSUME NEW k \in T PROVE k - 1 \in T
  <2>1. SUFFICES ASSUME k - 1 \notin T PROVE FALSE
    OBVIOUS
  <2>2. k \in Nat /\ ~ Upto(k)
    OBVIOUS
  <2>3. k # 0
    <3>1. \A j \in 0..0 : Adds([i \in 0..0 |-> 0], lists, weights, c, j)
      BY DEF Adds
    <3>2. Upto(0)
      BY <3>1
    <3> HIDE DEF Upto
    <3> QED
      BY <2>2, <3>2
  <2>4. Upto(k - 1)
    <3>1. k - 1 \in Nat
      BY <2>2, <2>3
    <3> HIDE DEF Upto
    <3> QED
      BY <2>1, <3>1
  <2>5. PICK F : \A j \in 0..(k - 1) : Adds(F, lists, weights, c, j)
    BY <2>4
  <2> DEFINE last == IF c \in ToSet(lists[k]) THEN Plus[<<F[k - 1], Gift(lists, weights, c, k)>>]
                     ELSE F[k - 1]
             G == [j \in 0..k |-> IF j = k THEN last ELSE F[j]]
  <2>6. ASSUME NEW j \in 0..k PROVE Adds(G, lists, weights, c, j)
    <3>1. CASE j = k
      <4>1. k - 1 \in 0..k /\ k - 1 # k /\ k \in 0..k
        BY <2>2, <2>3
      <4> HIDE DEF last
      <4>2. G[k] = last /\ G[k - 1] = F[k - 1]
        BY <4>1
      <4> HIDE DEF G
      <4> QED
        BY <2>3, <3>1, <4>2 DEF Adds, last
    <3>2. CASE j # k
      <4>1. j \in 0..(k - 1) /\ (j # 0 => j - 1 \in 0..k /\ j - 1 # k)
        BY <2>2, <3>2
      <4>2. Adds(F, lists, weights, c, j)
        BY <2>5, <4>1
      <4> HIDE DEF last
      <4>3. G[j] = F[j] /\ (j # 0 => G[j - 1] = F[j - 1])
        BY <3>2, <4>1
      <4> HIDE DEF G
      <4> QED
        BY <4>2, <4>3 DEF Adds
    <3> QED
      BY <3>1, <3>2
  <2> HIDE DEF G
  <2>7. Upto(k)
    BY <2>6
  <2> QED
    BY <2>2, <2>7
<1>3. T = {}
  <2>1. T \in SUBSET Nat
    OBVIOUS
  <2> HIDE DEF T
  <2> QED
    BY <1>2, <2>1, NoDescent
<1>4. PICK F : \A j \in 0..n : Adds(F, lists, weights, c, j)
  <2> HIDE DEF Upto
  <2>1. Upto(n)
    BY <1>1, <1>3
  <2> QED
    BY <2>1 DEF Upto
<1> DEFINE G == [j \in 0..n |-> F[j]]
<1>5. G = [j \in 0..n |-> IF j = 0 THEN 0
                          ELSE IF c \in ToSet(lists[j])
                               THEN Plus[<<G[j - 1], Share[<<weights[j], RankIn(lists[j], c)>>]>>]
                               ELSE G[j - 1]]
  <2>1. \A j \in 0..n : G[j] = IF j = 0 THEN 0
                               ELSE IF c \in ToSet(lists[j])
                                    THEN Plus[<<G[j - 1], Share[<<weights[j], RankIn(lists[j], c)>>]>>]
                                    ELSE G[j - 1]
    <3> SUFFICES ASSUME NEW j \in 0..n
                 PROVE  G[j] = IF j = 0 THEN 0
                               ELSE IF c \in ToSet(lists[j])
                                    THEN Plus[<<G[j - 1], Share[<<weights[j], RankIn(lists[j], c)>>]>>]
                                    ELSE G[j - 1]
      OBVIOUS
    <3>1. Adds(F, lists, weights, c, j) /\ (j # 0 => j - 1 \in 0..n)
      BY <1>1, <1>4
    <3>2. G[j] = F[j] /\ (j # 0 => G[j - 1] = F[j - 1])
      BY <3>1
    <3> HIDE DEF G
    <3> QED
      BY <3>1, <3>2 DEF Adds, Gift
  <2> QED
    BY <2>1
<1> HIDE DEF G
<1> DEFINE H == Sums(lists, weights, c)
<1>6. H = [j \in 0..n |-> IF j = 0 THEN 0
                          ELSE IF c \in ToSet(lists[j])
                               THEN Plus[<<H[j - 1], Share[<<weights[j], RankIn(lists[j], c)>>]>>]
                               ELSE H[j - 1]]
  BY <1>5 DEF Sums
<1> HIDE DEF H
<1>7. \A j \in 0..n : Adds(H, lists, weights, c, j)
  BY <1>6 DEF Adds, Gift
<1> QED
  BY <1>7 DEF H

LEMMA ScoreIs ==
    ASSUME NEW lists, NEW weights, Fusable(lists, weights), NEW c
    PROVE  /\ FusedScore(lists, weights, c) = Sums(lists, weights, c)[Len(lists)]
           /\ Len(lists) \in Nat /\ DOMAIN lists = 1..Len(lists)
           /\ \A n \in 0..Len(lists) : /\ Adds(Sums(lists, weights, c), lists, weights, c, n)
                                       /\ Sums(lists, weights, c)[n] \in Float
<1>1. lists \in Seq(Seq(Nat)) /\ Len(lists) \in Nat /\ DOMAIN lists = 1..Len(lists)
  BY DEF Fusable
<1>2. FusedScore(lists, weights, c) = Sums(lists, weights, c)[Len(lists)]
  BY DEF FusedScore, Sums
<1>3. PICK F, k : F = Sums(lists, weights, c) /\ k = Len(lists)
  OBVIOUS
<1>4. \A n \in 0..k : Adds(F, lists, weights, c, n)
  BY <1>1, <1>3, SumsExist
<1> DEFINE T == {n \in 0..k : F[n] \notin Float}
<1>5. ASSUME NEW n \in T PROVE n - 1 \in T
  <2>1. SUFFICES ASSUME n - 1 \notin T PROVE FALSE
    OBVIOUS
  <2>2. n \in 0..k /\ F[n] \notin Float /\ Adds(F, lists, weights, c, n)
    BY <1>4
  <2>3. n # 0
    BY <2>2, FloatsRound DEF Adds
  <2>4. n \in DOMAIN lists /\ n - 1 \in 0..k
    BY <1>1, <1>3, <2>2, <2>3
  <2>5. F[n - 1] \in Float
    BY <2>1, <2>4
  <2>6. CASE c \in ToSet(lists[n])
    <3>1. Gift(lists, weights, c, n) \in Range(Share)
      BY <2>4, <2>6, GiftType
    <3>2. F[n] = Plus[<<F[n - 1], Gift(lists, weights, c, n)>>]
      BY <2>2, <2>3, <2>6 DEF Adds
    <3> QED
      BY <2>2, <2>5, <3>1, <3>2, SharesAreFloats
  <2>7. CASE c \notin ToSet(lists[n])
    BY <2>2, <2>3, <2>5, <2>7 DEF Adds
  <2> QED
    BY <2>6, <2>7
<1>6. T = {}
  <2>1. T \in SUBSET Nat
    BY <1>1, <1>3
  <2> HIDE DEF T
  <2> QED
    BY <1>5, <2>1, NoDescent
<1>7. \A n \in 0..k : F[n] \in Float
  BY <1>6
<1> QED
  BY <1>1, <1>2, <1>3, <1>4, <1>7

\* Where all lists agree on two candidates, their scores do not say otherwise.
LEMMA AgreedScores ==
    ASSUME NEW f, Fusable(f.lists, f.weights), NEW a, NEW b, Agreed(f, a, b)
    PROVE  FusedScore(f.lists, f.weights, b) <= FusedScore(f.lists, f.weights, a)
<1>1. PICK lists, weights, k : lists = f.lists /\ weights = f.weights /\ k = Len(lists)
  OBVIOUS
<1>2. PICK A, B : A = Sums(lists, weights, a) /\ B = Sums(lists, weights, b)
  OBVIOUS
<1>3. Fusable(lists, weights)
  BY <1>1
<1>4. /\ FusedScore(lists, weights, a) = A[k] /\ FusedScore(lists, weights, b) = B[k]
      /\ k \in Nat /\ DOMAIN lists = 1..k
      /\ \A n \in 0..k : /\ Adds(A, lists, weights, a, n) /\ A[n] \in Float
                         /\ Adds(B, lists, weights, b, n) /\ B[n] \in Float
  BY <1>1, <1>2, <1>3, ScoreIs
<1> DEFINE T == {n \in 0..k : ~ (B[n] <= A[n])}
<1>5. ASSUME NEW n \in T PROVE n - 1 \in T
  <2>1. SUFFICES ASSUME n - 1 \notin T PROVE FALSE
    OBVIOUS
  <2>2. n \in 0..k /\ ~ (B[n] <= A[n])
    OBVIOUS
  <2>3. n # 0
    <3>1. A[0] = 0 /\ B[0] = 0
      <4>1. 0 \in 0..k
        BY <1>4
      <4> QED
        BY <1>4, <4>1 DEF Adds
    <3> QED
      BY <2>2, <3>1
  <2>4. n \in DOMAIN lists /\ n - 1 \in 0..k
    BY <1>4, <2>2, <2>3
  <2>5. PICK x, y : x = A[n - 1] /\ y = B[n - 1]
    OBVIOUS
  <2>6. x \in Float /\ y \in Float /\ y <= x
    BY <1>4, <2>1, <2>4, <2>5
  <2>7. PICK g, h : g = Gift(lists, weights, a, n) /\ h = Gift(lists, weights, b, n)
    OBVIOUS
  <2>8. a \in ToSet(lists[n]) => g \in Range(Share) /\ x <= Plus[<<x, g>>] /\ Plus[<<x, g>>] \in Nat
    <3>1. a \in ToSet(lists[n]) => g \in Range(Share)
      BY <1>3, <2>4, <2>7, GiftType
    <3> QED
      BY <2>6, <3>1, FloatsRound, SharesAreFloats
  <2>9. A[n] = IF a \in ToSet(lists[n]) THEN Plus[<<x, g>>] ELSE x
    BY <1>4, <2>2, <2>3, <2>5, <2>7 DEF Adds
  <2>10. B[n] = IF b \in ToSet(lists[n]) THEN Plus[<<y, h>>] ELSE y
    BY <1>4, <2>2, <2>3, <2>5, <2>7 DEF Adds
  <2>11. x \in Nat /\ y \in Nat
    BY <2>6, SharesAreFloats
  <2>12. CASE b \notin ToSet(lists[n])
    <3>1. x <= A[n] /\ A[n] \in Nat
      BY <2>8, <2>9, <2>11
    <3>2. B[n] = y
      BY <2>10, <2>12
    <3> QED
      BY <2>2, <2>6, <2>11, <3>1, <3>2
  <2>13. CASE b \in ToSet(lists[n])
    <3>1. PICK p, q, w : p = RankIn(lists[n], a) /\ q = RankIn(lists[n], b) /\ w = weights[n]
      OBVIOUS
    <3>2. a \in ToSet(lists[n]) /\ p < q
      BY <1>1, <2>4, <2>13, <3>1 DEF Agreed
    <3>3. /\ p \in 1..MaxRank /\ q \in 1..MaxRank /\ w \in Weights
          /\ g \in Range(Share) /\ h \in Range(Share)
      BY <1>3, <2>4, <2>7, <2>13, <3>1, <3>2, GiftType
    <3>4. h <= g
      <4>1. Share[<<w, q>>] <= Share[<<w, p>>]
        BY <3>2, <3>3, FloatsRound
      <4> QED
        BY <2>7, <3>1, <4>1 DEF Gift
    <3>5. Plus[<<y, h>>] <= Plus[<<y, g>>]
      BY <2>6, <3>3, <3>4, FloatsRound
    <3>6. Plus[<<y, g>>] <= Plus[<<x, g>>]
      BY <2>6, <3>3, FloatsRound
    <3>7. Plus[<<y, h>>] \in Nat /\ Plus[<<y, g>>] \in Nat /\ Plus[<<x, g>>] \in Nat
      BY <2>6, <3>3, SharesAreFloats
    <3>8. A[n] = Plus[<<x, g>>] /\ B[n] = Plus[<<y, h>>]
      BY <2>9, <2>10, <2>13, <3>2
    <3> QED
      BY <2>2, <3>5, <3>6, <3>7, <3>8
  <2> QED
    BY <2>12, <2>13
<1>6. T = {}
  <2>1. T \in SUBSET Nat
    BY <1>4
  <2> HIDE DEF T
  <2> QED
    BY <1>5, <2>1, NoDescent
<1>7. B[k] <= A[k]
  BY <1>4, <1>6
<1> QED
  BY <1>1, <1>4, <1>7

\* The first two lists in each other's place list the same candidates, in lists and with
\* weights that may be fused.
LEMMA SwappedLists ==
    ASSUME NEW lists, NEW weights, Fusable(lists, weights), Len(lists) >= 2
    PROVE  /\ Fusable(Swapped(lists, 1, 2), Swapped(weights, 1, 2))
           /\ Len(Swapped(lists, 1, 2)) = Len(lists)
           /\ Listed(Swapped(lists, 1, 2)) = Listed(lists)
<1>1. PICK taken, weighing, k : /\ taken = Swapped(lists, 1, 2)
                                /\ weighing = Swapped(weights, 1, 2) /\ k = Len(lists)
  OBVIOUS
<1>2. /\ lists \in Seq(Seq(Nat)) /\ k \in Nat /\ k >= 2 /\ DOMAIN lists = 1..k
      /\ weights \in [1..k -> Weights]
  BY <1>1 DEF Fusable
<1>3. 1 \in 1..k /\ 2 \in 1..k
  BY <1>2
<1>4. DOMAIN taken = 1..k /\ DOMAIN weighing = 1..k
  BY <1>1, <1>2 DEF Swapped
<1>5. /\ taken[1] = lists[2] /\ taken[2] = lists[1]
      /\ weighing[1] = weights[2] /\ weighing[2] = weights[1]
      /\ \A i \in 1..k : i \notin {1, 2} => taken[i] = lists[i] /\ weighing[i] = weights[i]
  BY <1>1, <1>2, <1>3 DEF Swapped
<1>6. ASSUME NEW i \in 1..k
      PROVE  \E j \in 1..k : taken[i] = lists[j] /\ weighing[i] = weights[j] /\ taken[j] = lists[i]
  <2>1. CASE i = 1
    BY <1>3, <1>5, <2>1
  <2>2. CASE i = 2
    BY <1>3, <1>5, <2>2
  <2>3. CASE i \notin {1, 2}
    BY <1>5, <2>3
  <2> QED
    BY <2>1, <2>2, <2>3
<1>7. \A i \in 1..k : /\ taken[i] \in Seq(Nat) /\ weighing[i] \in Weights
                      /\ IsInjective(taken[i]) /\ Len(taken[i]) <= MaxRank
  <2>1. \A i \in 1..k : /\ lists[i] \in Seq(Nat) /\ weights[i] \in Weights
                        /\ IsInjective(lists[i]) /\ Len(lists[i]) <= MaxRank
    <3>1. \A i \in DOMAIN lists : IsInjective(lists[i]) /\ Len(lists[i]) <= MaxRank
      BY DEF Fusable
    <3>2. \A i \in 1..k : lists[i] \in Seq(Nat) /\ weights[i] \in Weights
      BY <1>2
    <3> QED
      BY <1>2, <3>1, <3>2, Zenon
  <2> QED
    BY <1>6, <2>1
<1>8. taken \in Seq(Seq(Nat)) /\ Len(taken) = k /\ weighing \in [1..k -> Weights]
  <2>1. taken = [i \in 1..k |-> taken[i]] /\ weighing = [i \in 1..k |-> weighing[i]]
    BY <1>1, <1>2 DEF Swapped
  <2>2. taken \in [1..k -> Seq(Nat)] /\ weighing \in [1..k -> Weights]
    BY <1>7, <2>1
  <2> QED
    BY <1>2, <2>2
<1>9. Fusable(taken, weighing)
  BY <1>4, <1>7, <1>8 DEF Fusable
<1>10. Listed(taken) = Listed(lists)
  <2>1. \A c : c \in Listed(taken) <=> \E i \in 1..k : c \in ToSet(taken[i])
    BY <1>4 DEF Listed
  <2>2. \A c : c \in Listed(lists) <=> \E i \in 1..k : c \in ToSet(lists[i])
    BY <1>2 DEF Listed
  <2> QED
    BY <1>6, <2>1, <2>2
<1> QED
  BY <1>1, <1>8, <1>9, <1>10

\* Addition commutes, so the first two lists may come in either order.
LEMMA SwappedScores ==
    ASSUME NEW lists, NEW weights, Fusable(lists, weights), Len(lists) >= 2, NEW c
    PROVE  FusedScore(Swapped(lists, 1, 2), Swapped(weights, 1, 2), c)
             = FusedScore(lists, weights, c)
<1>1. PICK taken, weighing, k : /\ taken = Swapped(lists, 1, 2)
                                /\ weighing = Swapped(weights, 1, 2) /\ k = Len(lists)
  OBVIOUS
<1>2. Fusable(taken, weighing) /\ Len(taken) = k
  BY <1>1, SwappedLists
<1>3. PICK F, G : F = Sums(lists, weights, c) /\ G = Sums(taken, weighing, c)
  OBVIOUS
<1>4. /\ FusedScore(lists, weights, c) = F[k] /\ k \in Nat /\ k >= 2 /\ DOMAIN lists = 1..k
      /\ \A n \in 0..k : Adds(F, lists, weights, c, n) /\ F[n] \in Float
  BY <1>1, <1>3, ScoreIs
<1>5. /\ FusedScore(taken, weighing, c) = G[k]
      /\ \A n \in 0..k : Adds(G, taken, weighing, c, n) /\ G[n] \in Float
  BY <1>2, <1>3, ScoreIs
<1>6. weights \in [1..k -> Weights]
  BY <1>4 DEF Fusable
<1>7. /\ taken[1] = lists[2] /\ taken[2] = lists[1]
      /\ weighing[1] = weights[2] /\ weighing[2] = weights[1]
      /\ \A i \in 1..k : i \notin {1, 2} => taken[i] = lists[i] /\ weighing[i] = weights[i]
  BY <1>1, <1>4, <1>6 DEF Swapped
<1>8. PICK x, y : x = Gift(lists, weights, c, 1) /\ y = Gift(lists, weights, c, 2)
  OBVIOUS
<1>9. Gift(taken, weighing, c, 1) = y /\ Gift(taken, weighing, c, 2) = x
  BY <1>7, <1>8 DEF Gift
<1>10. PICK P, Q : P = ToSet(lists[1]) /\ Q = ToSet(lists[2])
  OBVIOUS
<1>11. 0 \in 0..k /\ 1 \in 0..k /\ 2 \in 0..k /\ 1 - 1 = 0 /\ 2 - 1 = 1
  BY <1>4
<1>12. /\ F[0] = 0 /\ F[1] = (IF c \in P THEN Plus[<<F[0], x>>] ELSE F[0])
       /\ F[2] = (IF c \in Q THEN Plus[<<F[1], y>>] ELSE F[1])
  <2>1. Adds(F, lists, weights, c, 0) /\ Adds(F, lists, weights, c, 1) /\ Adds(F, lists, weights, c, 2)
    BY <1>4, <1>11
  <2> QED
    BY <1>8, <1>10, <1>11, <2>1 DEF Adds
<1>13. /\ G[0] = 0 /\ G[1] = (IF c \in Q THEN Plus[<<G[0], y>>] ELSE G[0])
       /\ G[2] = (IF c \in P THEN Plus[<<G[1], x>>] ELSE G[1])
  <2>1. Adds(G, taken, weighing, c, 0) /\ Adds(G, taken, weighing, c, 1) /\ Adds(G, taken, weighing, c, 2)
    BY <1>5, <1>11
  <2> QED
    BY <1>7, <1>9, <1>10, <1>11, <2>1 DEF Adds
<1>14. /\ c \in P => x \in Range(Share) /\ Plus[<<0, x>>] = x
       /\ c \in Q => y \in Range(Share) /\ Plus[<<0, y>>] = y
  <2>1. 1 \in DOMAIN lists /\ 2 \in DOMAIN lists
    BY <1>4
  <2>2. (c \in P => x \in Range(Share)) /\ (c \in Q => y \in Range(Share))
    BY <1>8, <1>10, <2>1, GiftType
  <2> QED
    BY <2>2, FloatsRound
<1>15. c \in P /\ c \in Q => Plus[<<x, y>>] = Plus[<<y, x>>]
  BY <1>14, FloatsRound
<1>16. G[2] = F[2]
  <2>1. CASE c \in P /\ c \in Q
    BY <1>12, <1>13, <1>14, <1>15, <2>1
  <2>2. CASE c \notin P
    BY <1>12, <1>13, <1>14, <2>2
  <2>3. CASE c \notin Q
    BY <1>12, <1>13, <1>14, <2>3
  <2> QED
    BY <2>1, <2>2, <2>3
<1> DEFINE T == {n \in 2..k : G[n] # F[n]}
<1>17. ASSUME NEW n \in T PROVE n - 1 \in T
  <2>1. SUFFICES ASSUME n - 1 \notin T PROVE FALSE
    OBVIOUS
  <2>2. n \in 2..k /\ G[n] # F[n]
    OBVIOUS
  <2>3. n # 2
    BY <1>16, <2>2
  <2>4. n - 1 \in 2..k /\ n \in 0..k /\ n \in 1..k /\ n \notin {1, 2} /\ n # 0
    BY <1>4, <2>2, <2>3
  <2>5. G[n - 1] = F[n - 1]
    BY <2>1, <2>4
  <2>6. Adds(F, lists, weights, c, n) /\ Adds(G, taken, weighing, c, n)
    BY <1>4, <1>5, <2>4
  <2>7. /\ taken[n] = lists[n]
        /\ Gift(taken, weighing, c, n) = Gift(lists, weights, c, n)
    BY <1>7, <2>4 DEF Gift
  <2>8. G[n] = F[n]
    BY <2>4, <2>5, <2>6, <2>7 DEF Adds
  <2> QED
    BY <2>2, <2>8
<1>18. T = {}
  <2>1. T \in SUBSET Nat
    BY <1>4
  <2> HIDE DEF T
  <2> QED
    BY <1>17, <2>1, NoDescent
<1>19. G[k] = F[k]
  BY <1>4, <1>18
<1> QED
  BY <1>1, <1>4, <1>5, <1>19

\* The lists, one after the other.
Reading(lists) ==
    CHOOSE F : F = [i \in 1..Len(lists) |-> IF i = 1 THEN lists[i] ELSE F[i - 1] \o lists[i]]

LEMMA ReadingIs ==
    ASSUME NEW lists \in Seq(Seq(Nat)), NEW i \in 1..Len(lists)
    PROVE  Reading(lists)[i] = IF i = 1 THEN lists[i] ELSE Reading(lists)[i - 1] \o lists[i]
<1> DEFINE n == Len(lists)
           Reads(F, k) == F[k] = IF k = 1 THEN lists[k] ELSE F[k - 1] \o lists[k]
           Upto(k) == \E F : \A j \in 1..k : Reads(F, j)
           T == {k \in Nat : ~ Upto(k)}
<1>1. n \in Nat
  OBVIOUS
<1>2. T = {}
  <2>1. SUFFICES ASSUME T # {} PROVE FALSE
    OBVIOUS
  <2>2. PICK k \in T : \A m \in T : k <= m
    <3> HIDE DEF Upto
    <3> QED
      BY <2>1, LeastNumber
  <2>3. k \in Nat /\ ~ Upto(k)
    BY <2>2
  <2>4. k # 0
    <3>1. \A j \in 1..0 : Reads(<<>>, j)
      OBVIOUS
    <3>2. Upto(0)
      BY <3>1
    <3> HIDE DEF Upto
    <3> QED
      BY <2>3, <3>2
  <2>5. Upto(k - 1)
    <3> HIDE DEF Upto
    <3> QED
      BY <2>2, <2>3, <2>4
  <2>6. PICK F : \A j \in 1..(k - 1) : Reads(F, j)
    BY <2>5
  <2> DEFINE G == [j \in 1..k |-> IF j = k THEN (IF k = 1 THEN lists[k] ELSE F[k - 1] \o lists[k])
                                  ELSE F[j]]
  <2>7. ASSUME NEW j \in 1..k PROVE Reads(G, j)
    <3>1. CASE j = k
      <4>1. CASE k = 1
        <5>1. G[k] = lists[k]
          BY <2>3, <2>4, <4>1
        <5> QED
          BY <3>1, <4>1, <5>1
      <4>2. CASE k # 1
        <5>1. k \in 1..k /\ k - 1 \in 1..k /\ k - 1 # k
          BY <2>3, <2>4, <4>2
        <5>2. G[k] = F[k - 1] \o lists[k] /\ G[k - 1] = F[k - 1]
          BY <4>2, <5>1
        <5> HIDE DEF G
        <5> QED
          BY <3>1, <4>2, <5>2
      <4> QED
        BY <4>1, <4>2
    <3>2. CASE j # k
      <4>1. j \in 1..(k - 1) /\ (j # 1 => j - 1 \in 1..k /\ j - 1 # k)
        BY <2>3, <3>2
      <4>2. Reads(F, j)
        BY <2>6, <4>1
      <4> QED
        BY <3>2, <4>1, <4>2
    <3> QED
      BY <3>1, <3>2
  <2> HIDE DEF G
  <2>8. Upto(k)
    BY <2>7
  <2> QED
    BY <2>3, <2>8
<1>3. PICK F : \A j \in 1..n : Reads(F, j)
  <2> HIDE DEF Upto
  <2>1. Upto(n)
    BY <1>1, <1>2
  <2> QED
    BY <2>1 DEF Upto
<1> DEFINE G == [j \in 1..n |-> F[j]]
<1>4. G = [j \in 1..n |-> IF j = 1 THEN lists[j] ELSE G[j - 1] \o lists[j]]
  <2>1. \A j \in 1..n : G[j] = IF j = 1 THEN lists[j] ELSE G[j - 1] \o lists[j]
    <3> SUFFICES ASSUME NEW j \in 1..n
                 PROVE  G[j] = IF j = 1 THEN lists[j] ELSE G[j - 1] \o lists[j]
      OBVIOUS
    <3>1. Reads(F, j) /\ (j # 1 => j - 1 \in 1..n)
      BY <1>1, <1>3
    <3> QED
      BY <3>1
  <2> QED
    BY <2>1
<1> HIDE DEF G
<1> DEFINE H == Reading(lists)
<1>5. H = [j \in 1..n |-> IF j = 1 THEN lists[j] ELSE H[j - 1] \o lists[j]]
  BY <1>4 DEF Reading
<1> HIDE DEF H
<1>6. H[i] = IF i = 1 THEN lists[i] ELSE H[i - 1] \o lists[i]
  BY <1>5
<1> QED
  BY <1>6 DEF H

LEMMA JoinedSequences ==
    ASSUME NEW s \in Seq(Nat), NEW t \in Seq(Nat)
    PROVE  s \o t \in Seq(Nat) /\ ToSet(s) \subseteq ToSet(s \o t) /\ ToSet(t) \subseteq ToSet(s \o t)
<1>1. /\ s \o t \in Seq(Nat) /\ Len(s) \in Nat /\ Len(t) \in Nat
      /\ DOMAIN s = 1..Len(s) /\ DOMAIN t = 1..Len(t) /\ DOMAIN (s \o t) = 1..(Len(s) + Len(t))
  OBVIOUS
<1>2. \A i \in DOMAIN s : i \in DOMAIN (s \o t) /\ (s \o t)[i] = s[i]
  OBVIOUS
<1>3. \A i \in DOMAIN t : Len(s) + i \in DOMAIN (s \o t) /\ (s \o t)[Len(s) + i] = t[i]
  OBVIOUS
<1> QED
  BY <1>1, <1>2, <1>3 DEF ToSet

\* Every candidate a list names is met when the lists are read.
LEMMA AllAreRead ==
    ASSUME NEW lists \in Seq(Seq(Nat))
    PROVE  FlattenSeq(lists) \in Seq(Nat) /\ Listed(lists) \subseteq ToSet(FlattenSeq(lists))
<1> DEFINE n == Len(lists)
           F == Reading(lists)
           Reads(i) == F[i] \in Seq(Nat) /\ \A j \in 1..i : ToSet(lists[j]) \subseteq ToSet(F[i])
           T == {i \in 1..n : ~ Reads(i)}
<1>1. n \in Nat /\ DOMAIN lists = 1..n /\ \A i \in 1..n : lists[i] \in Seq(Nat)
  OBVIOUS
<1>2. \A i \in 1..n : F[i] = IF i = 1 THEN lists[i] ELSE F[i - 1] \o lists[i]
  BY ReadingIs
<1>3. CASE n = 0
  <2>1. lists = <<>> /\ FlattenSeq(lists) = lists
    BY <1>3 DEF FlattenSeq
  <2>2. Listed(lists) = {}
    BY <1>1, <1>3 DEF Listed
  <2>3. <<>> \in Seq(Nat)
    OBVIOUS
  <2> QED
    BY <2>1, <2>2, <2>3
<1>4. CASE n # 0
  <2>1. FlattenSeq(lists) = F[n]
    BY <1>4 DEF FlattenSeq, Reading
  <2> HIDE DEF F
  <2>2. T = {}
    <3>1. SUFFICES ASSUME T # {} PROVE FALSE
      OBVIOUS
    <3>2. PICK i \in T : \A m \in T : i <= m
      <4>1. T \in SUBSET Nat
        OBVIOUS
      <4> HIDE DEF T
      <4> QED
        BY <3>1, <4>1, LeastNumber
    <3>3. i \in 1..n /\ ~ Reads(i)
      BY <3>2
    <3>4. CASE i = 1
      BY <1>1, <1>2, <3>3, <3>4
    <3>5. CASE i # 1
      <4>1. i - 1 \in 1..n /\ i - 1 \notin T
        <5>1. i \in Nat /\ i >= 1 /\ i <= n
          BY <1>1, <3>3
        <5>2. i - 1 \in 1..n /\ ~ (i <= i - 1)
          BY <1>1, <3>5, <5>1
        <5> HIDE DEF T
        <5> QED
          BY <3>2, <5>2
      <4>2. Reads(i - 1)
        BY <4>1
      <4>3. F[i] = F[i - 1] \o lists[i] /\ lists[i] \in Seq(Nat) /\ F[i - 1] \in Seq(Nat)
        BY <1>1, <1>2, <3>3, <3>5, <4>2
      <4>4. /\ F[i] \in Seq(Nat) /\ ToSet(F[i - 1]) \subseteq ToSet(F[i])
            /\ ToSet(lists[i]) \subseteq ToSet(F[i])
        BY <4>3, JoinedSequences
      <4>5. \A j \in 1..i : j = i \/ j \in 1..(i - 1)
        BY <1>1, <3>3
      <4>6. \A j \in 1..i : ToSet(lists[j]) \subseteq ToSet(F[i])
        BY <4>2, <4>4, <4>5
      <4> QED
        BY <3>3, <4>4, <4>6
    <3> QED
      BY <3>4, <3>5
  <2>3. Reads(n)
    <3>1. n \in 1..n
      BY <1>1, <1>4
    <3> HIDE DEF Reads
    <3> QED
      BY <2>2, <3>1
  <2> QED
    BY <1>1, <2>1, <2>3 DEF Listed
<1> QED
  BY <1>3, <1>4

\* What stands above another in every list that names it is read before it.
Heads(lists, a, b) ==
    \A i \in DOMAIN lists : /\ IsInjective(lists[i])
                            /\ b \in ToSet(lists[i]) =>
                                  /\ a \in ToSet(lists[i])
                                  /\ RankIn(lists[i], a) < RankIn(lists[i], b)

LEMMA ReadEarlier ==
    ASSUME NEW lists \in Seq(Seq(Nat)), NEW a, NEW b, Heads(lists, a, b),
           NEW all, all = FlattenSeq(lists)
    PROVE  \A r \in DOMAIN all : all[r] = b => \E q \in DOMAIN all : q < r /\ all[q] = a
<1>1. PICK k, F : k = Len(lists) /\ F = Reading(lists)
  OBVIOUS
<1>2. k \in Nat /\ DOMAIN lists = 1..k /\ \A i \in 1..k : lists[i] \in Seq(Nat)
  BY <1>1
<1>3. \A i \in 1..k : F[i] = IF i = 1 THEN lists[i] ELSE F[i - 1] \o lists[i]
  BY <1>1, ReadingIs
<1>4. SUFFICES ASSUME k # 0
             PROVE  \A r \in DOMAIN all : all[r] = b => \E q \in DOMAIN all : q < r /\ all[q] = a
  <2>1. SUFFICES ASSUME k = 0 PROVE DOMAIN all = {}
    OBVIOUS
  <2>2. all = lists /\ DOMAIN lists = {}
    BY <1>1, <1>2, <2>1 DEF FlattenSeq
  <2> QED
    BY <2>2
<1>5. all = F[k]
  BY <1>1, <1>4 DEF FlattenSeq, Reading
\* Within one list:
<1>6. ASSUME NEW i \in 1..k, NEW p \in DOMAIN lists[i], lists[i][p] = b
      PROVE  \E q \in DOMAIN lists[i] : q < p /\ lists[i][q] = a
  <2>1. PICK s : s = lists[i]
    OBVIOUS
  <2>2. i \in DOMAIN lists /\ IsInjective(s)
    BY <1>2, <2>1 DEF Heads
  <2>3. b \in ToSet(s)
    BY <1>6, <2>1 DEF ToSet
  <2>4. a \in ToSet(s) /\ RankIn(s, a) < RankIn(s, b)
    BY <2>1, <2>2, <2>3 DEF Heads
  <2>5. RankIn(s, b) = p
    BY <1>6, <2>1, <2>2, RankIs
  <2>6. RankIn(s, a) \in DOMAIN s /\ s[RankIn(s, a)] = a
    BY <2>4, RankOf
  <2> QED
    BY <2>1, <2>4, <2>5, <2>6
<1> DEFINE Early(s) == /\ s \in Seq(Nat)
                       /\ \A p \in DOMAIN s : s[p] = b => \E q \in DOMAIN s : q < p /\ s[q] = a
           T == {i \in 1..k : ~ Early(F[i])}
<1>7. ASSUME NEW i \in T PROVE i - 1 \in T
  <2>1. SUFFICES ASSUME i - 1 \notin T PROVE FALSE
    OBVIOUS
  <2>2. i \in 1..k /\ ~ Early(F[i])
    OBVIOUS
  <2>3. Early(lists[i])
    BY <1>2, <1>6, <2>2
  <2>4. i # 1
    BY <1>3, <2>2, <2>3, Zenon
  <2>5. i - 1 \in 1..k
    BY <1>2, <2>2, <2>4
  <2>6. Early(F[i - 1])
    BY <2>1, <2>5
  <2>7. PICK s, t : s = F[i - 1] /\ t = lists[i]
    OBVIOUS
  <2>8. Early(s) /\ Early(t) /\ F[i] = s \o t
    BY <1>3, <2>2, <2>3, <2>4, <2>6, <2>7, Zenon
  <2>9. Early(s \o t)
    <3>1. /\ s \o t \in Seq(Nat) /\ Len(s) \in Nat /\ Len(t) \in Nat
          /\ DOMAIN s = 1..Len(s) /\ DOMAIN t = 1..Len(t)
          /\ DOMAIN (s \o t) = 1..(Len(s) + Len(t))
      BY <2>8
    <3>2. \A q \in DOMAIN s : q \in DOMAIN (s \o t) /\ (s \o t)[q] = s[q]
      BY <2>8
    <3>3. \A q \in DOMAIN t : Len(s) + q \in DOMAIN (s \o t) /\ (s \o t)[Len(s) + q] = t[q]
      BY <2>8
    <3>4. ASSUME NEW p \in DOMAIN (s \o t), (s \o t)[p] = b
          PROVE  \E q \in DOMAIN (s \o t) : q < p /\ (s \o t)[q] = a
      <4>1. CASE p \in DOMAIN s
        <5>1. PICK q \in DOMAIN s : q < p /\ s[q] = a
          BY <2>8, <3>2, <3>4, <4>1
        <5> QED
          BY <3>2, <5>1
      <4>2. CASE p \notin DOMAIN s
        <5>1. PICK m : m = p - Len(s)
          OBVIOUS
        <5>2. m \in DOMAIN t /\ p = Len(s) + m
          BY <3>1, <4>2, <5>1
        <5>3. t[m] = b
          BY <3>3, <3>4, <5>2
        <5>4. PICK q \in DOMAIN t : q < m /\ t[q] = a
          BY <2>8, <5>2, <5>3
        <5>5. Len(s) + q < p
          BY <3>1, <5>2, <5>4
        <5> QED
          BY <3>3, <5>4, <5>5
      <4> QED
        BY <4>1, <4>2
    <3> QED
      BY <3>1, <3>4
  <2> HIDE DEF Early
  <2> QED
    BY <2>2, <2>8, <2>9
<1>8. T = {}
  <2>1. T \in SUBSET Nat
    BY <1>2
  <2> HIDE DEF T
  <2> QED
    BY <1>7, <2>1, NoDescent
<1>9. Early(F[k])
  <2>1. k \in 1..k
    BY <1>2, <1>4
  <2> HIDE DEF Early
  <2> QED
    BY <1>8, <2>1
<1>10. PICK s : s = all
  OBVIOUS
<1>11. Early(s)
  BY <1>5, <1>9, <1>10, Zenon
<1> QED
  BY <1>10, <1>11, Zenon

\* Where a candidate is first read.
LEMMA FirstSeenIs ==
    ASSUME NEW lists \in Seq(Seq(Nat)), NEW c \in Listed(lists),
           NEW all, all = FlattenSeq(lists), NEW r, r = FirstSeen(lists)[c]
    PROVE  /\ r \in DOMAIN all /\ all[r] = c /\ r \in Nat \ {0}
           /\ \A q \in DOMAIN all : all[q] = c => r <= q
<1> DEFINE T == {q \in DOMAIN all : all[q] = c}
<1>1. all \in Seq(Nat) /\ c \in ToSet(all)
  BY AllAreRead
<1>2. DOMAIN all = 1..Len(all) /\ Len(all) \in Nat
  BY <1>1
<1>3. T \in SUBSET Nat /\ T # {}
  BY <1>1, <1>2 DEF ToSet
<1>4. r = Min(T)
  BY DEF FirstSeen
<1>5. Min(T) \in T /\ \A q \in T : Min(T) <= q
  <2> HIDE DEF T
  <2>1. \E n \in T : \A m \in T : n <= m
    BY <1>3, LeastNumber
  <2> QED
    BY <2>1 DEF Min
<1>6. r \in T /\ \A q \in T : r <= q
  BY <1>4, <1>5
<1> QED
  BY <1>2, <1>6

LEMMA SeenEarlier ==
    ASSUME NEW f, f.lists \in Seq(Seq(Nat)), \A i \in DOMAIN f.lists : IsInjective(f.lists[i]),
           NEW a \in Listed(f.lists), NEW b \in Listed(f.lists), Agreed(f, a, b)
    PROVE  FirstSeen(f.lists)[a] < FirstSeen(f.lists)[b]
<1>1. PICK lists, all, p, r : /\ lists = f.lists /\ all = FlattenSeq(lists)
                              /\ p = FirstSeen(lists)[a] /\ r = FirstSeen(lists)[b]
  OBVIOUS
<1>2. /\ r \in DOMAIN all /\ all[r] = b /\ r \in Nat /\ p \in Nat
      /\ \A q \in DOMAIN all : all[q] = a => p <= q
  <2>1. lists \in Seq(Seq(Nat)) /\ a \in Listed(lists) /\ b \in Listed(lists)
    BY <1>1, Zenon
  <2>2. /\ p \in Nat \ {0} /\ \A q \in DOMAIN all : all[q] = a => p <= q
    BY <1>1, <2>1, FirstSeenIs
  <2>3. r \in DOMAIN all /\ all[r] = b /\ r \in Nat \ {0}
    BY <1>1, <2>1, FirstSeenIs
  <2> QED
    BY <2>2, <2>3
<1>3. PICK q \in DOMAIN all : q < r /\ all[q] = a
  <2>1. Heads(lists, a, b)
    BY <1>1 DEF Heads, Agreed
  <2>2. lists \in Seq(Seq(Nat)) /\ all = FlattenSeq(lists)
    BY <1>1, Zenon
  <2>3. \A x \in DOMAIN all : all[x] = b => \E q \in DOMAIN all : q < x /\ all[q] = a
    BY <2>1, <2>2, ReadEarlier
  <2> QED
    BY <1>2, <2>3
<1>4. p <= q /\ q \in Nat
  <2>1. all \in Seq(Nat)
    <3>1. lists \in Seq(Seq(Nat)) /\ all = FlattenSeq(lists)
      BY <1>1, Zenon
    <3> QED
      BY <3>1, AllAreRead
  <2> QED
    BY <1>2, <1>3, <2>1
<1> QED
  BY <1>1, <1>2, <1>3, <1>4

\* No two candidates have the same place among equals, and one that was seen before another
\* has the lower place unless the given order has the other before it.
LEMMA PlacesDiffer ==
    ASSUME NEW lists \in Seq(Seq(Nat)), NEW inputOrder,
           inputOrder \in [DOMAIN inputOrder -> Nat],
           IsInjective(inputOrder), IsFiniteSet(DOMAIN inputOrder),
           NEW place, place = TieOrder(lists, inputOrder)
    PROVE  /\ place \in [Listed(lists) -> Int] /\ IsInjective(place)
           /\ \A c, d \in Listed(lists) :
                 FirstSeen(lists)[c] < FirstSeen(lists)[d] /\ ~ Before(inputOrder, d, c)
                    => place[c] < place[d]
<1>1. PICK all, seen, S : all = FlattenSeq(lists) /\ seen = FirstSeen(lists) /\ S = Listed(lists)
  OBVIOUS
<1>2. /\ seen = [c \in S |-> seen[c]]
      /\ \A c \in S : seen[c] \in Nat \ {0} /\ all[seen[c]] = c
  <2>1. \A c \in S : seen[c] \in Nat \ {0} /\ all[seen[c]] = c
    BY <1>1, FirstSeenIs
  <2>2. seen = [c \in S |-> seen[c]]
    BY <1>1 DEF FirstSeen
  <2> QED
    BY <2>1, <2>2
<1>3. seen \in [S -> Int] /\ IsInjective(seen)
  BY <1>2 DEF IsInjective
<1>4. CASE DOMAIN inputOrder = {}
  <2>1. place = seen
    BY <1>1, <1>4 DEF TieOrder
  <2> QED
    BY <1>1, <1>3, <2>1
<1>5. CASE DOMAIN inputOrder # {}
  <2>1. PICK most : most = Max(Range(inputOrder))
    OBVIOUS
  <2>2. PICK D, R : D = DOMAIN inputOrder /\ R = Range(inputOrder)
    OBVIOUS
  <2>3. R \in SUBSET Int /\ R # {} /\ IsFiniteSet(R)
    <3>1. inputOrder \in Surjection(D, R)
      BY <2>2 DEF Surjection, Range
    <3>2. IsFiniteSet(R)
      BY <2>2, <3>1, FS_Surjection
    <3> QED
      BY <1>5, <2>2, <3>2 DEF Range
  <2>4. \A c \in D : inputOrder[c] \in R /\ inputOrder[c] \in Nat
    BY <2>2 DEF Range
  <2>5. most \in Int /\ \A c \in D : inputOrder[c] <= most
    <3>1. Max(R) \in R /\ \A y \in R : Max(R) >= y
      BY <2>3, LargestNumber
    <3> QED
      BY <2>1, <2>2, <2>3, <2>4, <3>1
  <2>6. place = [c \in S |-> IF c \in D THEN inputOrder[c] ELSE most + seen[c]]
    BY <1>1, <1>5, <2>1, <2>2 DEF TieOrder
  <2>7. \A c \in S : place[c] \in Int
    BY <1>2, <2>4, <2>5, <2>6
  <2>8. ASSUME NEW c \in S, NEW d \in S, place[c] = place[d] PROVE c = d
    <3>1. CASE c \in D /\ d \in D
      <4>1. inputOrder[c] = inputOrder[d]
        BY <2>6, <2>8, <3>1
      <4> QED
        BY <2>2, <3>1, <4>1 DEF IsInjective
    <3>2. CASE c \notin D /\ d \notin D
      <4>1. most + seen[c] = most + seen[d]
        BY <2>6, <2>8, <3>2
      <4>2. seen[c] = seen[d]
        BY <1>2, <2>5, <4>1
      <4> QED
        BY <1>2, <4>2
    <3>3. CASE c \in D /\ d \notin D
      BY <1>2, <2>4, <2>5, <2>6, <2>8, <3>3
    <3>4. CASE c \notin D /\ d \in D
      BY <1>2, <2>4, <2>5, <2>6, <2>8, <3>4
    <3> QED
      BY <3>1, <3>2, <3>3, <3>4
  <2>9. ASSUME NEW c \in S, NEW d \in S, seen[c] < seen[d], ~ Before(inputOrder, d, c)
        PROVE  place[c] < place[d]
    <3>1. ~ (d \in D /\ (c \in D => inputOrder[d] < inputOrder[c]))
      BY <2>2, <2>9 DEF Before
    <3>2. CASE d \in D
      <4>1. c \in D /\ ~ (inputOrder[d] < inputOrder[c])
        BY <3>1, <3>2
      <4>2. place[d] = inputOrder[d] /\ place[c] = inputOrder[c]
        BY <2>6, <3>2, <4>1
      <4>3. c # d
        BY <1>2, <2>9
      <4>4. place[c] # place[d]
        BY <2>8, <4>3
      <4> QED
        BY <2>4, <3>2, <4>1, <4>2, <4>4
    <3>3. CASE d \notin D /\ c \in D
      BY <1>2, <2>4, <2>5, <2>6, <3>3
    <3>4. CASE d \notin D /\ c \notin D
      BY <1>2, <2>5, <2>6, <2>9, <3>4
    <3> QED
      BY <3>2, <3>3, <3>4
  <2>10. place \in [S -> Int] /\ IsInjective(place)
    BY <2>6, <2>7, <2>8 DEF IsInjective
  <2> QED
    BY <1>1, <2>9, <2>10
<1> QED
  BY <1>4, <1>5

LEMMA FusedScoreType ==
    ASSUME NEW lists, NEW weights, Fusable(lists, weights), NEW c
    PROVE  FusedScore(lists, weights, c) \in Nat
<1>1. PICK k : k = Len(lists)
  OBVIOUS
<1>2. /\ FusedScore(lists, weights, c) = Sums(lists, weights, c)[k] /\ k \in Nat
      /\ \A n \in 0..k : Sums(lists, weights, c)[n] \in Float
  BY <1>1, ScoreIs
<1> QED
  BY <1>2, SharesAreFloats

\* c has the higher score of the two, or an equal one and the lower place.
ScoresAbove(lists, weights, place, c, d) ==
    \/ FusedScore(lists, weights, c) > FusedScore(lists, weights, d)
    \/ /\ FusedScore(lists, weights, c) = FusedScore(lists, weights, d)
       /\ place[c] < place[d]

\* The fusion of lists the function accepts, as an order of the candidates they name.
LEMMA FusedIs ==
    ASSUME NEW lists, NEW weights, Fusable(lists, weights),
           NEW inputOrder, inputOrder \in [DOMAIN inputOrder -> Nat],
           IsInjective(inputOrder), IsFiniteSet(DOMAIN inputOrder),
           NEW order, order = Fused(lists, weights, inputOrder),
           NEW place, place = TieOrder(lists, inputOrder)
    PROVE  /\ order \in SetToSeqs(Listed(lists)) /\ IsFiniteSet(Listed(lists))
           /\ \A c, d \in Listed(lists) :
                 ScoresAbove(lists, weights, place, c, d) => RankIn(order, c) < RankIn(order, d)
<1>1. PICK S, value : S = Listed(lists) /\ value = [c \in S |-> FusedScore(lists, weights, c)]
  OBVIOUS
<1>2. lists \in Seq(Seq(Nat))
  BY DEF Fusable
<1>3. IsFiniteSet(S)
  BY <1>1, <1>2, ListedFinite
<1>4. \A c \in S : value[c] = FusedScore(lists, weights, c) /\ FusedScore(lists, weights, c) \in Nat
  BY <1>1, FusedScoreType
<1>5. value \in [S -> Int]
  <2>1. \A c \in S : FusedScore(lists, weights, c) \in Int
    BY <1>4
  <2> QED
    BY <1>1, <2>1
<1>6. place \in [S -> Int] /\ IsInjective(place)
  BY <1>1, <1>2, PlacesDiffer
<1>7. order = Ordered(value, place)
  BY <1>1 DEF Fused
<1>8. /\ order \in SetToSeqs(S)
      /\ \A c, d \in S : value[c] > value[d] \/ (value[c] = value[d] /\ place[c] < place[d])
                            => RankIn(order, c) < RankIn(order, d)
  BY <1>3, <1>5, <1>6, <1>7, OrderedIs
<1>9. ASSUME NEW c \in S, NEW d \in S, ScoresAbove(lists, weights, place, c, d)
      PROVE  RankIn(order, c) < RankIn(order, d)
  <2>1. value[c] > value[d] \/ (value[c] = value[d] /\ place[c] < place[d])
    BY <1>4, <1>9 DEF ScoresAbove
  <2> QED
    BY <1>8, <2>1
<1> QED
  BY <1>1, <1>3, <1>8, <1>9

\* Where every candidate has a place in the input, the first two lists may come in either
\* order.
LEMMA FusedSwapped ==
    ASSUME NEW lists, NEW weights, Fusable(lists, weights), Len(lists) >= 2,
           NEW inputOrder, Listed(lists) \subseteq DOMAIN inputOrder
    PROVE  Fused(Swapped(lists, 1, 2), Swapped(weights, 1, 2), inputOrder)
             = Fused(lists, weights, inputOrder)
<1>1. PICK taken, weighing, S :
         taken = Swapped(lists, 1, 2) /\ weighing = Swapped(weights, 1, 2) /\ S = Listed(lists)
  OBVIOUS
<1>2. Listed(taken) = S
  BY <1>1, SwappedLists
<1>3. \A c : FusedScore(taken, weighing, c) = FusedScore(lists, weights, c)
  BY <1>1, SwappedScores
<1>4. TieOrder(taken, inputOrder) = TieOrder(lists, inputOrder)
  <2>1. CASE DOMAIN inputOrder = {}
    <3>1. S = {}
      BY <1>1, <2>1
    <3>2. FirstSeen(taken) = <<>> /\ FirstSeen(lists) = <<>>
      BY <1>1, <1>2, <3>1 DEF FirstSeen
    <3> QED
      BY <2>1, <3>2 DEF TieOrder
  <2>2. CASE DOMAIN inputOrder # {}
    <3>1. TieOrder(taken, inputOrder) = [c \in S |-> inputOrder[c]]
      BY <1>1, <1>2, <2>2 DEF TieOrder
    <3>2. TieOrder(lists, inputOrder) = [c \in S |-> inputOrder[c]]
      BY <1>1, <2>2 DEF TieOrder
    <3> QED
      BY <3>1, <3>2
  <2> QED
    BY <2>1, <2>2
<1>5. [c \in Listed(taken) |-> FusedScore(taken, weighing, c)]
        = [c \in Listed(lists) |-> FusedScore(lists, weights, c)]
  BY <1>1, <1>2, <1>3
<1>6. Fused(taken, weighing, inputOrder) = Fused(lists, weights, inputOrder)
  BY <1>4, <1>5 DEF Fused
<1> QED
  BY <1>1, <1>6

\* What has been fused, and that the entries are still what came of it.
FusionInv ==
    fusion # None =>
        /\ fusion \in Fusions
        /\ entries = Fused(fusion.lists, fusion.weights, fusion.order)
        /\ phase \in {"ranked", "answered", "measured", "failed"}

LEMMA FusionInductive == FusionInv /\ [Next]_vars => FusionInv'
<1> SUFFICES ASSUME FusionInv, [Next]_vars PROVE FusionInv'
  OBVIOUS
<1> USE DEF FusionInv
<1>1. CASE BeginCase
  BY <1>1 DEF BeginCase
<1>2. CASE RefuseCase
  BY <1>2 DEF RefuseCase, Fail
<1>3. CASE BeginRequest
  BY <1>3 DEF BeginRequest
<1>4. CASE Noop
  BY <1>4 DEF Noop
<1>5. CASE Prepare
  <2>1. fusion = None
    BY <1>5 DEF Prepare
  <2>2. fusion' = fusion
    BY <1>5 DEF Prepare, Fail
  <2> QED
    BY <2>1, <2>2
<1>6. CASE Rank
  <2>1. fusion = None /\ fusion' = fusion
    BY <1>6 DEF Rank
  <2> QED
    BY <2>1
<1>7. CASE RefusePruning
  BY <1>7 DEF RefusePruning, Fail
<1>8. CASE Fuse
  BY <1>8 DEF Fuse
<1>9. CASE Select
  <2>1. fusion = None /\ fusion' = fusion
    BY <1>9 DEF Select
  <2> QED
    BY <2>1
<1>10. CASE Selected
  BY <1>10 DEF Selected
<1>11. CASE Assemble
  BY <1>11 DEF Assemble
<1>12. CASE Refuse
  BY <1>12 DEF Refuse, Fail
<1>13. CASE Measure
  BY <1>13 DEF Measure
<1>14. CASE RejectCase
  BY <1>14 DEF RejectCase, Fail
<1>15. CASE UNCHANGED vars
  BY <1>15 DEF vars
<1> QED
  BY <1>1, <1>2, <1>3, <1>4, <1>5, <1>6, <1>7, <1>8, <1>9, <1>10, <1>11, <1>12, <1>13, <1>14,
     <1>15 DEF Next

LEMMA FusionInvIsFair == FusionInv => FusionFair
<1> SUFFICES ASSUME FusionInv, fusion # None PROVE FusionFair
  BY DEF FusionFair
<1>1. PICK f, order : f = fusion /\ order = entries
  OBVIOUS
<1>2. PICK lists, weights, places, place :
         /\ lists = f.lists /\ weights = f.weights /\ places = f.order
         /\ place = TieOrder(lists, places)
  OBVIOUS
<1>3. f \in Fusions /\ order = Fused(lists, weights, places)
  BY <1>1, <1>2 DEF FusionInv
<1>4. /\ Fusable(lists, weights) /\ places \in [DOMAIN places -> Nat]
      /\ IsInjective(places) /\ IsFiniteSet(DOMAIN places)
  BY <1>2, <1>3, FusionsAreFusions DEF Fusable
<1>5. /\ order \in SetToSeqs(Listed(lists)) /\ IsFiniteSet(Listed(lists))
      /\ \A c, d \in Listed(lists) :
            ScoresAbove(lists, weights, place, c, d) => RankIn(order, c) < RankIn(order, d)
  BY <1>2, <1>3, <1>4, FusedIs
<1>6. ToSet(order) = Listed(lists) /\ IsInjective(order)
  BY <1>5, WholeSequence
<1>7. ASSUME NEW a \in Listed(lists), NEW b \in Listed(lists), Agreed(f, a, b)
      PROVE  \/ RankIn(order, a) < RankIn(order, b)
             \/ /\ FusedScore(lists, weights, a) = FusedScore(lists, weights, b)
                /\ Before(places, b, a)
  <2>1. PICK x, y : x = FusedScore(lists, weights, a) /\ y = FusedScore(lists, weights, b)
    OBVIOUS
  <2>2. y <= x
    BY <1>2, <1>4, <1>7, <2>1, AgreedScores
  <2>3. x \in Nat /\ y \in Nat
    BY <1>4, <2>1, FusedScoreType
  <2>4. CASE y < x
    <3>1. ScoresAbove(lists, weights, place, a, b)
      BY <2>1, <2>3, <2>4 DEF ScoresAbove
    <3> QED
      BY <1>5, <3>1
  <2>5. CASE x = y /\ ~ Before(places, b, a)
    <3>1. lists \in Seq(Seq(Nat)) /\ \A i \in DOMAIN lists : IsInjective(lists[i])
      BY <1>4 DEF Fusable
    <3>2. FirstSeen(lists)[a] < FirstSeen(lists)[b]
      <4>1. f.lists \in Seq(Seq(Nat)) /\ \A i \in DOMAIN f.lists : IsInjective(f.lists[i])
        BY <1>2, <3>1
      <4>2. a \in Listed(f.lists) /\ b \in Listed(f.lists)
        BY <1>2
      <4>3. FirstSeen(f.lists)[a] < FirstSeen(f.lists)[b]
        BY <1>7, <4>1, <4>2, SeenEarlier
      <4> QED
        BY <1>2, <4>3
    <3>3. place[a] < place[b]
      BY <1>2, <1>4, <2>5, <3>1, <3>2, PlacesDiffer
    <3>4. ScoresAbove(lists, weights, place, a, b)
      BY <2>1, <2>5, <3>3 DEF ScoresAbove
    <3> QED
      BY <1>5, <3>4
  <2> QED
    BY <2>1, <2>2, <2>3, <2>4, <2>5
<1>8. ASSUME Listed(lists) \subseteq DOMAIN places, Len(lists) >= 2
      PROVE  Fused(Swapped(lists, 1, 2), Swapped(weights, 1, 2), places) = order
  BY <1>3, <1>4, <1>8, FusedSwapped
<1> QED
  BY <1>1, <1>2, <1>6, <1>7, <1>8 DEF FusionFair

\* A fusion names each listed candidate once. Lists that agree are contradicted only by the
\* order given for equal scores, where rounding has made them equal. Where that order names
\* every candidate, the first two lists may come in either order.
THEOREM FusionsAreFair == Spec => []FusionFair
<1>1. Init => FusionInv
  BY DEF Init, FusionInv
<1> QED
  BY <1>1, FusionInductive, FusionInvIsFair, PTL DEF Spec

(***************************************************************************)
(* The embedding worker.                                                    *)
(***************************************************************************)

Encoding == {j \in Job : job[j] = "encoding"}

\* A call that has not begun has no job.
NoJobYet == \A j \in Job : pc[j] = "new" => job[j] = "none"

\* The lock is held by the job that encodes, and by one at a time.
LockHeld == lock = Encoding /\ \A i, j \in lock : i = j

\* A job that has not ended is in _jobs.
JobsTracked == \A j \in Job : job[j] \in {"ready", "encoding"} => j \in jobs

\* The close task waits for every job that encodes, and has none left when it ends.
GatherWaits ==
    /\ closed <=> closing # "no"
    /\ closing = "gather" => Encoding \subseteq awaited
    /\ closing = "done" => Encoding = {}

EmbedInv == TypeOK /\ NoJobYet /\ LockHeld /\ JobsTracked /\ GatherWaits

LEMMA InitEmbed == EmbedInit => EmbedInv
BY DEF EmbedInit, EmbedInv, TypeOK, NoJobYet, LockHeld, JobsTracked, GatherWaits, Encoding

LEMMA TypeStep == TypeOK /\ [EmbedNext]_embedVars => TypeOK'
<1> SUFFICES ASSUME TypeOK, [EmbedNext]_embedVars PROVE TypeOK'
  OBVIOUS
<1>1. ASSUME NEW j \in Job, Embed(j) \/ Answer(j) \/ CancelCaller(j) PROVE TypeOK'
  BY <1>1 DEF TypeOK, Finals, Embed, Answer, CancelCaller, close
<1>2. ASSUME NEW j \in Job, JobStep(j) PROVE TypeOK'
  BY <1>2 DEF TypeOK, JobStep, TakeLock, LoadModel, Encoded, Leaves, close
<1>3. ASSUME NEW k \in Closer, Close(k) \/ CloserReturns(k) \/ CancelCloser(k) PROVE TypeOK'
  BY <1>3 DEF TypeOK, Close, CloserReturns, CancelCloser, work
<1>4. CASE Gather \/ Drop
  BY <1>4 DEF TypeOK, Gather, Drop, work
<1>5. CASE UNCHANGED embedVars
  BY <1>5 DEF TypeOK, embedVars, work, close
<1>6. QED
  BY <1>1, <1>2, <1>3, <1>4, <1>5 DEF EmbedNext

\* A step in which no job begins or ends, and the close does not move.
LEMMA QuietStep ==
    ASSUME EmbedInv, TypeOK', UNCHANGED <<jobs, lock, closed, closing, awaited>>,
           Encoding' = Encoding, JobsTracked', NoJobYet'
    PROVE  EmbedInv'
BY DEF EmbedInv, LockHeld, GatherWaits

LEMMA JobPreserves ==
    ASSUME EmbedInv, TypeOK', NEW j \in Job, JobStep(j)
    PROVE  EmbedInv'
<1>1. CASE TakeLock(j)
  <2>1. CASE closed
    <3>1. Encoding' = Encoding /\ jobs' = jobs \ {j} /\ j \notin Encoding
      BY <1>1, <2>1 DEF TakeLock, RefusedAtLock, Leaves, Encoding, EmbedInv, TypeOK
    <3>2. UNCHANGED <<lock, closed, closing, awaited>> /\ NoJobYet'
      BY <1>1, <2>1 DEF TakeLock, RefusedAtLock, Leaves, close, EmbedInv, NoJobYet, TypeOK
    <3>3. JobsTracked'
      BY <1>1, <2>1, <3>1 DEF TakeLock, RefusedAtLock, Leaves, EmbedInv, TypeOK, JobsTracked
    <3>4. QED
      BY <3>1, <3>2, <3>3 DEF EmbedInv, LockHeld, GatherWaits
  <2>2. CASE ~closed
    <3>1. Encoding' = {j} /\ lock' = {j} /\ Encoding = {}
      BY <1>1, <2>2 DEF TakeLock, RefusedAtLock, Encoding, EmbedInv, TypeOK, LockHeld
    <3>2. UNCHANGED <<jobs, closed, closing, awaited>> /\ closing = "no" /\ NoJobYet'
      BY <1>1, <2>2 DEF TakeLock, RefusedAtLock, close, EmbedInv, NoJobYet, TypeOK,
                            GatherWaits
    <3>3. JobsTracked'
      BY <1>1, <2>2 DEF TakeLock, RefusedAtLock, EmbedInv, TypeOK, JobsTracked
    <3>4. QED
      BY <3>1, <3>2, <3>3 DEF EmbedInv, LockHeld, GatherWaits
  <2>3. QED
    BY <2>1, <2>2
<1>2. CASE LoadModel(j)
  <2>1. Encoding' = Encoding /\ NoJobYet' /\ JobsTracked'
        /\ UNCHANGED <<jobs, lock, closed, closing, awaited>>
    BY <1>2 DEF LoadModel, Encoding, NoJobYet, JobsTracked, EmbedInv, close
  <2>2. QED
    BY <2>1, QuietStep
<1>3. CASE Encoded(j)
  <2>1. Encoding' = Encoding \ {j} /\ jobs' = jobs \ {j} /\ lock' = lock \ {j}
    BY <1>3 DEF Encoded, Leaves, Encoding, EmbedInv, TypeOK
  <2>2. UNCHANGED <<closed, closing, awaited>> /\ NoJobYet'
    BY <1>3 DEF Encoded, Leaves, NoJobYet, EmbedInv, TypeOK, close
  <2>3. JobsTracked'
    BY <1>3, <2>1 DEF Encoded, Leaves, EmbedInv, TypeOK, JobsTracked
  <2>4. QED
    BY <2>1, <2>2, <2>3 DEF EmbedInv, LockHeld, GatherWaits
<1>4. QED
  BY <1>1, <1>2, <1>3 DEF JobStep

LEMMA CallPreserves ==
    ASSUME EmbedInv, TypeOK', NEW j \in Job, Embed(j) \/ Answer(j) \/ CancelCaller(j)
    PROVE  EmbedInv'
<1>1. CASE Embed(j)
  <2>1. Encoding' = Encoding
    BY <1>1 DEF Embed, Encoding, EmbedInv, TypeOK, NoJobYet
  <2>2. UNCHANGED <<lock, closed, closing>> /\ NoJobYet'
    BY <1>1 DEF Embed, close, EmbedInv, TypeOK, NoJobYet
  <2>3. awaited' = awaited
    BY <1>1 DEF Embed, close
  <2>4. JobsTracked'
    BY <1>1 DEF Embed, EmbedInv, TypeOK, JobsTracked
  <2>5. QED
    BY <2>1, <2>2, <2>3, <2>4 DEF EmbedInv, LockHeld, GatherWaits
<1>2. CASE Answer(j) \/ CancelCaller(j)
  <2>1. UNCHANGED <<job, jobs, lock, closed, closing, awaited>> /\ NoJobYet'
    BY <1>2 DEF Answer, CancelCaller, close, EmbedInv, TypeOK, NoJobYet
  <2>2. Encoding' = Encoding /\ JobsTracked'
    BY <2>1 DEF Encoding, JobsTracked, EmbedInv
  <2>3. QED
    BY <2>1, <2>2, QuietStep
<1>3. QED
  BY <1>1, <1>2

LEMMA EmbedClosePreserves ==
    ASSUME EmbedInv, TypeOK',
           \/ \E k \in Closer : Close(k) \/ CloserReturns(k) \/ CancelCloser(k)
           \/ Gather \/ Drop
    PROVE  EmbedInv'
<1>1. /\ UNCHANGED <<pc, job, jobs, lock>>
      /\ Encoding' = Encoding /\ NoJobYet' /\ JobsTracked' /\ LockHeld'
  BY DEF Close, CloserReturns, CancelCloser, Gather, Drop, work, Encoding,
         EmbedInv, NoJobYet, JobsTracked, LockHeld
<1>2. GatherWaits'
  <2>1. CASE \E k \in Closer : Close(k) \/ CloserReturns(k) \/ CancelCloser(k)
    BY <1>1, <2>1 DEF Close, CloserReturns, CancelCloser, EmbedInv, GatherWaits
  <2>2. CASE Gather
    BY <1>1, <2>2 DEF Gather, EmbedInv, GatherWaits, JobsTracked, Encoding
  <2>3. CASE Drop
    BY <1>1, <2>3 DEF Drop, EmbedInv, GatherWaits, Encoding
  <2>4. QED
    BY <2>1, <2>2, <2>3
<1>3. QED
  BY <1>1, <1>2 DEF EmbedInv

\* The inductive invariant behind the other two: the lock is held by the job that
\* encodes, _jobs holds every unfinished job, the close task waits for all it finds.
THEOREM EmbedInductive == EmbedSpec => []EmbedInv
<1>1. EmbedInv /\ [EmbedNext]_embedVars => EmbedInv'
  <2> SUFFICES ASSUME EmbedInv, [EmbedNext]_embedVars PROVE EmbedInv'
    OBVIOUS
  <2>1. TypeOK'
    BY TypeStep DEF EmbedInv
  <2>2. CASE UNCHANGED embedVars
    BY <2>1, <2>2 DEF embedVars, work, close, EmbedInv, NoJobYet, LockHeld, JobsTracked,
                      GatherWaits, Encoding
  <2>3. QED
    BY <2>1, <2>2, JobPreserves, CallPreserves, EmbedClosePreserves DEF EmbedNext
<1>2. QED
  BY InitEmbed, <1>1, PTL DEF EmbedSpec

\* At most one thread at a time is in the model, whatever calls are made,
\* cancelled or refused: the lock of SentenceTransformerBackend does its work.
THEOREM EncodersExclude == EmbedSpec => []OneEncoder
<1>1. EmbedInv => OneEncoder
  BY DEF EmbedInv, LockHeld, OneEncoder, Encoding
<1>2. QED
  BY <1>1, EmbedInductive, PTL

LEMMA InitEmbedDrains == EmbedInit => Drain!Init
BY DEF EmbedInit, Drain!Init

\* What DrainedShutdown sees of a step that changes neither the encoding jobs, nor
\* the model, nor the close.
LEMMA EmbedStutters ==
    ASSUME Encoding' = Encoding, UNCHANGED <<model, closed, closing>>
    PROVE  UNCHANGED Drain!vars
BY DEF Drain!vars, Encoding

LEMMA EmbedStepDrains == EmbedInv /\ [EmbedNext]_embedVars => [Drain!Next]_(Drain!vars)
<1> SUFFICES ASSUME EmbedInv, [EmbedNext]_embedVars PROVE Drain!Next \/ UNCHANGED Drain!vars
  OBVIOUS
<1>1. ASSUME NEW j \in Job, Embed(j) \/ Answer(j) \/ CancelCaller(j)
      PROVE  UNCHANGED Drain!vars
  <2>1. Encoding' = Encoding /\ UNCHANGED <<model, closed, closing>>
    BY <1>1 DEF Embed, Answer, CancelCaller, Encoding, EmbedInv, TypeOK, NoJobYet, close
  <2>2. QED
    BY <2>1, EmbedStutters
<1>2. ASSUME NEW j \in Job, TakeLock(j) PROVE Drain!Next \/ UNCHANGED Drain!vars
  <2>1. CASE closed
    <3>1. Encoding' = Encoding /\ UNCHANGED <<model, closed, closing>>
      BY <1>2, <2>1 DEF TakeLock, RefusedAtLock, Leaves, Encoding, EmbedInv, TypeOK, close
    <3>2. QED
      BY <3>1, EmbedStutters
  <2>2. CASE ~closed
    <3>1. Encoding' = Encoding \cup {j} /\ j \notin Encoding
      BY <1>2, <2>2 DEF TakeLock, RefusedAtLock, Encoding, EmbedInv, TypeOK
    <3>2. UNCHANGED <<model, closed, closing>> /\ closing = "no"
      BY <1>2, <2>2 DEF TakeLock, RefusedAtLock, EmbedInv, GatherWaits, close
    <3>3. Drain!Start(j)
      BY <2>2, <3>1, <3>2 DEF Drain!Start, Encoding
    <3>4. QED
      BY <3>3 DEF Drain!Next
  <2>3. QED
    BY <2>1, <2>2
<1>3. ASSUME NEW j \in Job, LoadModel(j) PROVE Drain!Next
  <2>1. Drain!Load
    BY <1>3 DEF LoadModel, Drain!Load, close
  <2>2. QED
    BY <2>1 DEF Drain!Next
<1>4. ASSUME NEW j \in Job, Encoded(j) PROVE Drain!Next
  <2>1. Encoding' = Encoding \ {j} /\ j \in Encoding /\ UNCHANGED <<model, closed, closing>>
    BY <1>4 DEF Encoded, Leaves, Encoding, EmbedInv, TypeOK, close
  <2>2. Drain!Finish(j)
    BY <2>1 DEF Drain!Finish, Encoding
  <2>3. QED
    BY <2>2 DEF Drain!Next
<1>5. ASSUME NEW k \in Closer, Close(k) PROVE Drain!Next \/ UNCHANGED Drain!vars
  <2>1. Encoding' = Encoding /\ model' = model /\ closed'
    BY <1>5 DEF Close, work, Encoding
  <2>2. CASE closed
    <3>1. closing' = closing /\ closed' = closed
      BY <1>5, <2>2 DEF Close, EmbedInv, GatherWaits, TypeOK
    <3>2. QED
      BY <2>1, <3>1, EmbedStutters
  <2>3. CASE ~closed
    <3>1. closing = "no" /\ closing' = "begun"
      BY <1>5, <2>3 DEF Close, EmbedInv, GatherWaits
    <3>2. Drain!Close
      BY <2>1, <2>3, <3>1 DEF Drain!Close, Encoding
    <3>3. QED
      BY <3>2 DEF Drain!Next
  <2>4. QED
    BY <2>2, <2>3
<1>6. ASSUME NEW k \in Closer, CloserReturns(k) \/ CancelCloser(k) PROVE UNCHANGED Drain!vars
  <2>1. Encoding' = Encoding /\ UNCHANGED <<model, closed, closing>>
    BY <1>6 DEF CloserReturns, CancelCloser, work, Encoding
  <2>2. QED
    BY <2>1, EmbedStutters
<1>7. CASE Gather
  BY <1>7 DEF Gather, work, Drain!vars
<1>8. CASE Drop
  <2>1. closing = "gather" /\ closing' = "done" /\ closed /\ model' = FALSE
    BY <1>8 DEF Drop, EmbedInv, GatherWaits
  <2>2. Encoding = {} /\ Encoding' = {}
    BY <1>8 DEF Drop, EmbedInv, GatherWaits, Encoding
  <2>3. Drain!Closed
    BY <2>1, <2>2 DEF Drain!Closed, Encoding
  <2>4. QED
    BY <2>3 DEF Drain!Next
<1>9. CASE UNCHANGED embedVars
  BY <1>9 DEF embedVars, work, close, Drain!vars
<1>10. QED
  BY <1>1, <1>2, <1>3, <1>4, <1>5, <1>6, <1>7, <1>8, <1>9 DEF EmbedNext, JobStep

\* The backend implements DrainedShutdown: no job enters the model once aclose was
\* called, and the model is dropped when the last one has left, and not loaded again.
THEOREM EmbedShutdownDrains == EmbedSpec => DrainSpec
<1>1. QED
  BY InitEmbedDrains, EmbedStepDrains, EmbedInductive, PTL DEF EmbedSpec, DrainSpec, Drain!Spec
=============================================================================
