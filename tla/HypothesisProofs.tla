--------------------------- MODULE HypothesisProofs ---------------------------
(***************************************************************************)
(* What Merge returns, for every list of hypotheses.                        *)
(***************************************************************************)
EXTENDS Hypothesis, FiniteSetTheorems, FunctionTheorems, TLAPS

\* R is a strict total order on S: it holds the pairs <<x, y>> with x before y.
StrictOrder(S, R) ==
  /\ \A x \in S : <<x, x>> \notin R
  /\ \A x, y \in S : x # y => <<x, y>> \in R \/ <<y, x>> \in R
  /\ \A x, y, z \in S : <<x, y>> \in R /\ <<y, z>> \in R => <<x, z>> \in R

\* The place of each element of S in the order R.
Place(S, R) == [x \in S |-> Cardinality({y \in S : <<y, x>> \in R}) + 1]

\* A strict total order numbers the elements of a finite set from 1 on.
LEMMA OrderNumbers ==
  ASSUME NEW S, IsFiniteSet(S), NEW R, StrictOrder(S, R)
  PROVE  /\ Place(S, R) \in Bijection(S, 1..Cardinality(S))
         /\ \A x, y \in S : <<x, y>> \in R => Place(S, R)[x] < Place(S, R)[y]
<1> DEFINE before(x) == {y \in S : <<y, x>> \in R}
           rank == [x \in S |-> Cardinality(before(x)) + 1]
<1>1. Cardinality(S) \in Nat
  BY FS_CardinalityType
<1>2. ASSUME NEW x \in S
      PROVE  IsFiniteSet(before(x)) /\ Cardinality(before(x)) \in Nat
  <2>1. before(x) \in SUBSET S
    OBVIOUS
  <2> QED BY <2>1, FS_Subset, FS_CardinalityType
<1>3. ASSUME NEW x \in S, NEW y \in S, <<x, y>> \in R
      PROVE  rank[x] < rank[y]
  <2>1. before(x) \in SUBSET before(y) /\ x \in before(y) /\ x \notin before(x)
    BY <1>3 DEF StrictOrder
  <2>2. /\ Cardinality(before(x)) <= Cardinality(before(y))
        /\ Cardinality(before(y)) # Cardinality(before(x))
    <3> HIDE DEF before
    <3> QED BY <2>1, <1>2, FS_Subset
  <2>3. Cardinality(before(x)) \in Nat /\ Cardinality(before(y)) \in Nat
    BY <1>2
  <2> QED BY <2>2, <2>3
<1>4. ASSUME NEW x \in S
      PROVE  rank[x] \in 1..Cardinality(S)
  <2>1. before(x) \in SUBSET (S \ {x})
    BY DEF StrictOrder
  <2>2. IsFiniteSet(S \ {x}) /\ Cardinality(S \ {x}) = Cardinality(S) - 1
    BY FS_RemoveElement
  <2>3. Cardinality(before(x)) <= Cardinality(S) - 1
    <3> HIDE DEF before
    <3> QED BY <2>1, <2>2, FS_Subset
  <2> QED BY <1>1, <1>2, <2>3
<1>5. rank \in [S -> 1..Cardinality(S)]
  BY <1>4
<1>6. \A x, y \in S : rank[x] = rank[y] => x = y
  <2>1. \A x \in S : rank[x] \in Nat
    BY <1>4
  <2>2. \A x, y \in S : <<x, y>> \in R => rank[x] < rank[y]
    BY <1>3
  <2> HIDE DEF rank
  <2>3. \A x, y \in S : x # y => rank[x] < rank[y] \/ rank[y] < rank[x]
    BY <2>2 DEF StrictOrder
  <2> QED BY <2>1, <2>3
<1>7. rank \in Injection(S, 1..Cardinality(S))
  <2> HIDE DEF rank
  <2> QED BY <1>5, <1>6, Fun_IsInj
<1>8. IsFiniteSet(1..Cardinality(S)) /\ Cardinality(1..Cardinality(S)) = Cardinality(S)
  BY <1>1, FS_Interval
<1>9. rank \in Surjection(S, 1..Cardinality(S))
  <2> HIDE DEF rank
  <2> QED BY <1>7, <1>8, FS_Injection
<1>10. rank \in Bijection(S, 1..Cardinality(S))
  <2> HIDE DEF rank
  <2> QED BY <1>7, <1>9, Fun_IsBij
<1> QED BY <1>3, <1>10 DEF Place

\* A finite nonempty set has a first element in a strict total order.
LEMMA OrderHasFirst ==
  ASSUME NEW S, IsFiniteSet(S), S # {}, NEW R, StrictOrder(S, R)
  PROVE  \E x \in S : \A y \in S : x = y \/ <<x, y>> \in R
<1> DEFINE rank == Place(S, R)
           T == 1..Cardinality(S)
<1>1. /\ rank \in Bijection(S, T)
      /\ \A x, y \in S : <<x, y>> \in R => rank[x] < rank[y]
  BY OrderNumbers
<1>2. 1 \in T /\ \A t \in T : t \in Int /\ 1 <= t
  BY FS_CardinalityType, FS_EmptySet
<1> HIDE DEF rank, T
<1>3. rank \in [S -> T] /\ \A t \in T : \E y \in S : rank[y] = t
  BY <1>1, Fun_BijectionProperties
<1>4. PICK x \in S : rank[x] = 1
  BY <1>2, <1>3
<1>5. \A y \in S : rank[y] \in Int /\ 1 <= rank[y]
  BY <1>2, <1>3
<1>6. \A y \in S : <<y, x>> \notin R
  BY <1>1, <1>4, <1>5
<1> QED BY <1>4, <1>6 DEF StrictOrder

\* Larger values of f first, ties by position.
Descending(S, f) ==
  {p \in S \X S : \/ f[p[1]] > f[p[2]]
                  \/ f[p[1]] = f[p[2]] /\ p[1] < p[2]}

LEMMA DescendingIsOrder ==
  ASSUME NEW S, S \subseteq Int, NEW f, \A x \in S : f[x] \in Int
  PROVE  StrictOrder(S, Descending(S, f))
<1> DEFINE first(x, y) == f[x] > f[y] \/ (f[x] = f[y] /\ x < y)
           R == Descending(S, f)
<1>1. \A x, y \in S : <<x, y>> \in R <=> first(x, y)
  BY DEF Descending
<1> HIDE DEF R
<1>2. \A x \in S : ~first(x, x)
  OBVIOUS
<1>3. \A x, y \in S : x # y => first(x, y) \/ first(y, x)
  <2>1. SUFFICES ASSUME NEW x \in S, NEW y \in S, x # y
                 PROVE  first(x, y) \/ first(y, x)
    OBVIOUS
  <2>2. x \in Int /\ y \in Int /\ f[x] \in Int /\ f[y] \in Int
    OBVIOUS
  <2>3. x < y \/ y < x
    BY <2>1, <2>2
  <2> QED BY <2>2, <2>3
<1>4. \A x, y, z \in S : first(x, y) /\ first(y, z) => first(x, z)
  <2>1. SUFFICES ASSUME NEW x \in S, NEW y \in S, NEW z \in S,
                        first(x, y), first(y, z)
                 PROVE  first(x, z)
    OBVIOUS
  <2>2. /\ x \in Int /\ y \in Int /\ z \in Int
        /\ f[x] \in Int /\ f[y] \in Int /\ f[z] \in Int
    OBVIOUS
  <2> QED BY <2>1, <2>2
<1> HIDE DEF first
<1>5. StrictOrder(S, R)
  BY <1>1, <1>2, <1>3, <1>4 DEF StrictOrder
<1> QED BY <1>5 DEF R

\* A finite nonempty set of numbers has a smallest one.
LEMMA HasSmallest ==
  ASSUME NEW S, S \subseteq Int, IsFiniteSet(S), S # {}
  PROVE  \E x \in S : \A y \in S : x <= y
<1> DEFINE R == {p \in S \X S : p[1] < p[2]}
<1>1. StrictOrder(S, R)
  BY DEF StrictOrder
<1>2. PICK x \in S : \A y \in S : x = y \/ <<x, y>> \in R
  <2> HIDE DEF R
  <2> QED BY <1>1, OrderHasFirst
<1>3. \A y \in S : x = y \/ x < y
  BY <1>2
<1> QED BY <1>3

\* A finite nonempty set of positions has a first one with the largest value of f.
LEMMA HasBest ==
  ASSUME NEW S, S \subseteq Int, IsFiniteSet(S), S # {},
         NEW f, \A x \in S : f[x] \in Int
  PROVE  \E x \in S : \A y \in S : f[y] < f[x] \/ (f[y] = f[x] /\ x <= y)
<1> DEFINE R == Descending(S, f)
<1>1. StrictOrder(S, R)
  BY DescendingIsOrder
<1>2. PICK x \in S : \A y \in S : x = y \/ <<x, y>> \in R
  <2> HIDE DEF R
  <2> QED BY <1>1, OrderHasFirst
<1>3. ASSUME NEW y \in S
      PROVE  f[y] < f[x] \/ (f[y] = f[x] /\ x <= y)
  <2>1. x = y \/ f[x] > f[y] \/ (f[x] = f[y] /\ x < y)
    BY <1>2 DEF Descending
  <2> QED BY <2>1
<1> QED BY <1>3

-------------------------------------------------------------------------------

\* The hypotheses over the given IDs, claims, evidence, missing entries, statuses.
Hyps(I, C, E, M, T) ==
  [id : I, scored : BOOLEAN, margin : Int, score : Nat, claim : C,
   evidence : SUBSET E, missing : SUBSET M, status : T]

\* An entry takes its score from an emission of its own ID, and from the scored one
\* with the largest margin if its first emission is scored.
LEMMA KeeperIsBest ==
  ASSUME NEW I, NEW C, NEW E, NEW M, NEW T,
         NEW hs \in Seq(Hyps(I, C, E, M, T)), NEW i \in DOMAIN hs
  PROVE  /\ Keeper(hs, i) \in SameID(hs, i)
         /\ hs[i].scored =>
              /\ hs[Keeper(hs, i)].scored
              /\ \A j \in SameID(hs, i) :
                   hs[j].scored => hs[j].margin <= hs[Keeper(hs, i)].margin
<1>1. CASE ~hs[i].scored
  BY <1>1 DEF Keeper, SameID
<1>2. CASE hs[i].scored
  <2> DEFINE S == {j \in SameID(hs, i) : hs[j].scored}
             f == [j \in 1..Len(hs) |-> hs[j].margin]
  <2>1. S \in SUBSET (1..Len(hs)) /\ S # {}
    BY <1>2 DEF SameID
  <2>2. IsFiniteSet(S)
    <3>1. IsFiniteSet(1..Len(hs))
      BY FS_Interval
    <3> HIDE DEF S
    <3> QED BY <2>1, <3>1, FS_Subset
  <2>3. \A k \in S : k \in Int /\ hs[k].margin \in Int /\ f[k] = hs[k].margin
    <3>1. \A k \in 1..Len(hs) : hs[k] \in Hyps(I, C, E, M, T)
      OBVIOUS
    <3>2. \A h \in Hyps(I, C, E, M, T) : h.margin \in Int
      BY DEF Hyps
    <3> HIDE DEF S
    <3> QED BY <2>1, <3>1, <3>2
  <2>4. S \subseteq Int /\ \A j \in S : f[j] \in Int
    BY <2>3
  <2>5. PICK k \in S : \A j \in S : \/ hs[j].margin < hs[k].margin
                                    \/ hs[j].margin = hs[k].margin /\ k <= j
    <3> HIDE DEF S, f
    <3>1. PICK k \in S : \A j \in S : f[j] < f[k] \/ (f[j] = f[k] /\ k <= j)
      BY <2>1, <2>2, <2>4, HasBest
    <3> QED BY <2>3, <3>1
  <2>6. /\ k \in SameID(hs, i) /\ hs[k].scored
        /\ \A j \in SameID(hs, i) : hs[j].scored =>
             \/ hs[j].margin < hs[k].margin
             \/ hs[j].margin = hs[k].margin /\ k <= j
    BY <2>5
  <2>7. /\ Keeper(hs, i) \in SameID(hs, i) /\ hs[Keeper(hs, i)].scored
        /\ \A j \in SameID(hs, i) : hs[j].scored =>
             \/ hs[j].margin < hs[Keeper(hs, i)].margin
             \/ hs[j].margin = hs[Keeper(hs, i)].margin /\ Keeper(hs, i) <= j
    <3> HIDE DEF S, f
    <3> QED BY <1>2, <2>6 DEF Keeper
  <2>8. \A j \in SameID(hs, i) : hs[j].scored =>
          hs[j].margin \in Int /\ hs[Keeper(hs, i)].margin \in Int
    BY <2>3, <2>7
  <2> QED BY <2>7, <2>8
<1> QED BY <1>1, <1>2

\* An entry is its first emission with the score, the claim and the lists of others.
LEMMA MergedAtType ==
  ASSUME NEW I, NEW C, NEW E, NEW M, NEW T,
         NEW hs \in Seq(Hyps(I, C, E, M, T)), NEW i \in DOMAIN hs
  PROVE  /\ MergedAt(hs, i) \in Hyps(I, C, E, M, T)
         /\ MergedAt(hs, i).id = hs[i].id
         /\ \A j \in SameID(hs, i) : /\ hs[j].evidence \subseteq MergedAt(hs, i).evidence
                                     /\ hs[j].missing \subseteq MergedAt(hs, i).missing
         /\ scoreOf(MergedAt(hs, i)) \in Nat
<1> DEFINE k == Keeper(hs, i)
           evidence == UNION {hs[j].evidence : j \in SameID(hs, i)}
           missing == UNION {hs[j].missing : j \in SameID(hs, i)}
<1>1. \A j \in SameID(hs, i) : j \in DOMAIN hs /\ hs[j] \in Hyps(I, C, E, M, T)
  BY DEF SameID
<1>2. hs[i] \in Hyps(I, C, E, M, T) /\ hs[k] \in Hyps(I, C, E, M, T)
  BY <1>1, KeeperIsBest
<1>3. evidence \in SUBSET E /\ missing \in SUBSET M
  BY <1>1 DEF Hyps
<1>4. MergedAt(hs, i) = [hs[i] EXCEPT !.margin = hs[k].margin, !.score = hs[k].score,
                           !.claim = hs[k].claim, !.evidence = evidence,
                           !.missing = missing]
  BY DEF MergedAt
<1>5. \A j \in SameID(hs, i) : hs[j].evidence \subseteq evidence /\ hs[j].missing \subseteq missing
  OBVIOUS
<1> HIDE DEF k, evidence, missing
<1>6. /\ MergedAt(hs, i) \in Hyps(I, C, E, M, T)
      /\ MergedAt(hs, i).id = hs[i].id
      /\ MergedAt(hs, i).evidence = evidence /\ MergedAt(hs, i).missing = missing
  BY <1>2, <1>3, <1>4 DEF Hyps
<1>7. scoreOf(MergedAt(hs, i)) \in Nat
  BY <1>6 DEF scoreOf, Hyps
<1> QED BY <1>5, <1>6, <1>7

\* The ranks of the entries are the places 1, 2, 3, ... and a better rank is a score
\* at least as high.
LEMMA RanksArePlaces ==
  ASSUME NEW I, NEW C, NEW E, NEW M, NEW T, NEW hs \in Seq(Hyps(I, C, E, M, T))
  PROVE  /\ Cardinality(Firsts(hs)) \in Nat
         /\ \A k \in 1..Cardinality(Firsts(hs)) : \E i \in Firsts(hs) : Rank(hs, i) = k
         /\ \A i \in Firsts(hs) : Rank(hs, i) \in 1..Cardinality(Firsts(hs))
         /\ \A i, j \in Firsts(hs) : Rank(hs, i) = Rank(hs, j) => i = j
         /\ \A i, j \in Firsts(hs) : Rank(hs, i) < Rank(hs, j) =>
              scoreOf(MergedAt(hs, i)) >= scoreOf(MergedAt(hs, j))
<1> DEFINE F == Firsts(hs)
           n == Cardinality(F)
           f == [i \in DOMAIN hs |-> scoreOf(MergedAt(hs, i))]
           R == Descending(F, f)
           P == 1..n
<1>1. F \in SUBSET (1..Len(hs)) /\ F \subseteq Int /\ F \subseteq DOMAIN hs
  BY DEF Firsts
<1>2. IsFiniteSet(F)
  <2>1. IsFiniteSet(1..Len(hs))
    BY FS_Interval
  <2> HIDE DEF F
  <2> QED BY <1>1, <2>1, FS_Subset
<1>3. n \in Nat
  BY <1>2, FS_CardinalityType
<1>4. \A i \in F : f[i] = scoreOf(MergedAt(hs, i)) /\ f[i] \in Int
  BY <1>1, MergedAtType
<1>5. \A i \in F : Rank(hs, i) = Place(F, R)[i]
  <2>1. SUFFICES ASSUME NEW i \in F
                 PROVE  Rank(hs, i) = Place(F, R)[i]
    OBVIOUS
  <2>2. {j \in F : Before(hs, j, i)} = {j \in F : <<j, i>> \in R}
    <3> HIDE DEF F, f
    <3> QED BY <1>4 DEF Before, Descending
  <2>3. Rank(hs, i) = Cardinality({j \in F : Before(hs, j, i)}) + 1
    BY DEF Rank
  <2>4. Place(F, R)[i] = Cardinality({j \in F : <<j, i>> \in R}) + 1
    BY DEF Place
  <2> HIDE DEF F, R
  <2> QED BY <2>2, <2>3, <2>4
<1> HIDE DEF F, f
<1>6. StrictOrder(F, R)
  BY <1>1, <1>4, DescendingIsOrder
<1>7. /\ Place(F, R) \in Bijection(F, P)
      /\ \A i, j \in F : <<i, j>> \in R => Place(F, R)[i] < Place(F, R)[j]
  <2> HIDE DEF R
  <2> QED BY <1>2, <1>6, OrderNumbers
<1> HIDE DEF P
<1>8. /\ Place(F, R) \in [F -> P]
      /\ \A k \in P : \E i \in F : Place(F, R)[i] = k
      /\ \A i, j \in F : Place(F, R)[i] = Place(F, R)[j] => i = j
  <2> HIDE DEF R
  <2> QED BY <1>7, Fun_BijectionProperties
<1>9. \A i \in F : Place(F, R)[i] \in Int
  BY <1>8 DEF P
<1>10. \A i, j \in F : Place(F, R)[i] < Place(F, R)[j] => f[i] >= f[j]
  <2>1. SUFFICES ASSUME NEW i \in F, NEW j \in F, f[i] < f[j]
                 PROVE  Place(F, R)[j] < Place(F, R)[i]
    BY <1>4, <1>9
  <2>2. <<j, i>> \in R
    BY <1>4, <2>1 DEF Descending
  <2> QED BY <1>7, <2>2
<1> QED BY <1>3, <1>4, <1>5, <1>8, <1>10 DEF F, P

\* Every entry of the ranking is a merged emission.
LEMMA MergeEntries ==
  ASSUME NEW I, NEW C, NEW E, NEW M, NEW T, NEW hs \in Seq(Hyps(I, C, E, M, T))
  PROVE  /\ DOMAIN Merge(hs) = 1..Cardinality(Firsts(hs))
         /\ \A k \in DOMAIN Merge(hs) :
              /\ EntryAt(hs, k) \in Firsts(hs) /\ Rank(hs, EntryAt(hs, k)) = k
              /\ Merge(hs)[k] = [MergedAt(hs, EntryAt(hs, k)) EXCEPT
                                   !.status = StatusAt(Ranked(hs), k)]
<1> DEFINE P == 1..Cardinality(Firsts(hs))
<1>1. DOMAIN Ranked(hs) = P /\ \A k \in P : Ranked(hs)[k] = MergedAt(hs, EntryAt(hs, k))
  BY DEF Ranked
<1>2. \A k \in P : EntryAt(hs, k) \in Firsts(hs) /\ Rank(hs, EntryAt(hs, k)) = k
  BY RanksArePlaces DEF EntryAt
<1> HIDE DEF P
<1>3. /\ DOMAIN Merge(hs) = P
      /\ \A k \in P : Merge(hs)[k] = [MergedAt(hs, EntryAt(hs, k)) EXCEPT
                                        !.status = StatusAt(Ranked(hs), k)]
  BY <1>1 DEF Merge
<1> QED BY <1>2, <1>3 DEF P

\* A ranking is a descending list of entries with real IDs of their own.
LEMMA MergeDescends ==
  ASSUME NEW I, NEW C, NEW E, NEW M, NEW T, NEW hs \in Seq(Hyps(I, C, E, M, T))
  PROVE  /\ Merge(hs) \in Seq(Hyps(I, C, E, M, Statuses))
         /\ \A k \in DOMAIN Merge(hs) : Merge(hs)[k].id # NoID
         /\ \A j, k \in DOMAIN Merge(hs) :
              /\ j < k => scoreOf(Merge(hs)[j]) >= scoreOf(Merge(hs)[k])
              /\ Merge(hs)[j].id = Merge(hs)[k].id => j = k
<1> DEFINE at(k) == EntryAt(hs, k)
           P == DOMAIN Merge(hs)
           H == Hyps(I, C, E, M, T)
<1>1. /\ P = 1..Cardinality(Firsts(hs))
      /\ \A k \in P : /\ at(k) \in Firsts(hs) /\ Rank(hs, at(k)) = k
                      /\ Merge(hs)[k] = [MergedAt(hs, at(k)) EXCEPT
                                           !.status = StatusAt(Ranked(hs), k)]
  BY MergeEntries
<1>2. Cardinality(Firsts(hs)) \in Nat
  BY RanksArePlaces
<1> HIDE DEF P
<1>3. \A i \in Firsts(hs) : /\ i \in DOMAIN hs /\ hs[i].id # NoID
                            /\ \A j \in SameID(hs, i) : i <= j
  BY DEF Firsts
<1> HIDE DEF at
<1>4. ASSUME NEW k \in P
      PROVE  /\ MergedAt(hs, at(k)) \in H
             /\ Merge(hs)[k] \in Hyps(I, C, E, M, Statuses)
             /\ Merge(hs)[k].id = hs[at(k)].id /\ Merge(hs)[k].id # NoID
             /\ scoreOf(Merge(hs)[k]) = scoreOf(MergedAt(hs, at(k)))
  <2>1. at(k) \in DOMAIN hs /\ hs[at(k)].id # NoID
    BY <1>1, <1>3
  <2>2. MergedAt(hs, at(k)) \in H /\ MergedAt(hs, at(k)).id = hs[at(k)].id
    BY <2>1, MergedAtType
  <2>3. StatusAt(Ranked(hs), k) \in Statuses
    BY DEF StatusAt, Statuses
  <2>5. Merge(hs)[k] = [MergedAt(hs, at(k)) EXCEPT !.status = StatusAt(Ranked(hs), k)]
    BY <1>1
  <2> QED BY <2>1, <2>2, <2>3, <2>5 DEF Hyps, scoreOf
<1>5. Merge(hs) \in Seq(Hyps(I, C, E, M, Statuses))
  <2>1. Merge(hs) = [k \in P |-> Merge(hs)[k]]
    BY DEF Merge, P
  <2> QED BY <1>2, <1>4, <2>1
<1>6. ASSUME NEW j \in P, NEW k \in P, j < k
      PROVE  scoreOf(Merge(hs)[j]) >= scoreOf(Merge(hs)[k])
  <2>1. Rank(hs, at(j)) < Rank(hs, at(k))
    BY <1>1, <1>6
  <2>2. at(j) \in Firsts(hs) /\ at(k) \in Firsts(hs)
    BY <1>1
  <2>3. scoreOf(MergedAt(hs, at(j))) >= scoreOf(MergedAt(hs, at(k)))
    BY <2>1, <2>2, RanksArePlaces
  <2> QED BY <1>4, <2>3
<1>7. ASSUME NEW j \in P, NEW k \in P, Merge(hs)[j].id = Merge(hs)[k].id
      PROVE  j = k
  <2>1. hs[at(j)].id = hs[at(k)].id
    BY <1>4, <1>7
  <2>2. /\ at(j) \in DOMAIN hs /\ at(k) \in DOMAIN hs
        /\ at(j) \in SameID(hs, at(k)) /\ at(k) \in SameID(hs, at(j))
    BY <1>1, <1>3, <2>1 DEF SameID
  <2>3. at(j) <= at(k) /\ at(k) <= at(j)
    BY <1>1, <1>3, <2>2
  <2>4. at(j) = at(k)
    BY <2>2, <2>3
  <2> QED BY <1>1, <2>4
<1> QED BY <1>4, <1>5, <1>6, <1>7 DEF P

\* Merge ranks: the result is a list of hypotheses with real, distinct IDs and a
\* status, in descending order of score (hypothesis.go 28-79, for every input).
THEOREM MergeRanks ==
  ASSUME NEW I, NEW C, NEW E, NEW M, NEW T, NoID \notin I,
         NEW hs \in Seq(Hyps(I \cup {NoID}, C, E, M, T))
  PROVE  /\ Merge(hs) \in Seq(Hyps(I, C, E, M, Statuses))
         /\ \A j, k \in DOMAIN Merge(hs) :
              /\ j < k => scoreOf(Merge(hs)[j]) >= scoreOf(Merge(hs)[k])
              /\ Merge(hs)[j].id = Merge(hs)[k].id => j = k
<1>1. /\ Merge(hs) \in Seq(Hyps(I \cup {NoID}, C, E, M, Statuses))
      /\ \A k \in DOMAIN Merge(hs) : Merge(hs)[k].id # NoID
      /\ \A j, k \in DOMAIN Merge(hs) :
           /\ j < k => scoreOf(Merge(hs)[j]) >= scoreOf(Merge(hs)[k])
           /\ Merge(hs)[j].id = Merge(hs)[k].id => j = k
  BY MergeDescends
<1>2. \A h \in Hyps(I \cup {NoID}, C, E, M, Statuses) : h.id # NoID =>
        h \in Hyps(I, C, E, M, Statuses)
  BY DEF Hyps
<1> DEFINE out == Merge(hs)
           H == Hyps(I, C, E, M, Statuses)
<1>3. out \in Seq(H)
  <2>1. /\ out \in Seq(Hyps(I \cup {NoID}, C, E, M, Statuses))
        /\ \A k \in DOMAIN out : out[k].id # NoID
    BY <1>1
  <2> HIDE DEF out
  <2>2. \A k \in DOMAIN out : out[k] \in Hyps(I \cup {NoID}, C, E, M, Statuses)
    BY <2>1
  <2>3. \A k \in DOMAIN out : out[k] \in H
    BY <1>2, <2>1, <2>2
  <2> HIDE DEF H
  <2> QED BY <2>1, <2>3
<1> QED BY <1>1, <1>3

\* Merge loses nothing: every emission with an ID has its entry, which carries all
\* the evidence and all the missing entries the emission named.
THEOREM MergeKeepsEvidence ==
  ASSUME NEW I, NEW C, NEW E, NEW M, NEW T,
         NEW hs \in Seq(Hyps(I, C, E, M, T)), NEW i \in DOMAIN hs, hs[i].id # NoID
  PROVE  \E k \in DOMAIN Merge(hs) :
           /\ Merge(hs)[k].id = hs[i].id
           /\ hs[i].evidence \subseteq Merge(hs)[k].evidence
           /\ hs[i].missing \subseteq Merge(hs)[k].missing
<1> DEFINE S == SameID(hs, i)
           at(k) == EntryAt(hs, k)
           P == DOMAIN Merge(hs)
<1>1. PICK first \in S : \A j \in S : first <= j
  <2>1. S \in SUBSET (1..Len(hs)) /\ S # {} /\ S \subseteq Int
    BY DEF SameID
  <2>2. IsFiniteSet(1..Len(hs))
    BY FS_Interval
  <2> HIDE DEF S
  <2>3. IsFiniteSet(S)
    BY <2>1, <2>2, FS_Subset
  <2> QED BY <2>1, <2>3, HasSmallest
<1>2. /\ first \in DOMAIN hs /\ hs[first].id = hs[i].id
      /\ SameID(hs, first) = S /\ i \in SameID(hs, first)
  BY DEF SameID
<1>3. first \in Firsts(hs)
  BY <1>1, <1>2 DEF Firsts
<1>4. /\ P = 1..Cardinality(Firsts(hs))
      /\ \A k \in P : /\ at(k) \in Firsts(hs) /\ Rank(hs, at(k)) = k
                      /\ Merge(hs)[k] = [MergedAt(hs, at(k)) EXCEPT
                                           !.status = StatusAt(Ranked(hs), k)]
  BY MergeEntries
<1> HIDE DEF at, P, S
<1>5. Rank(hs, first) \in P
  BY <1>3, <1>4, RanksArePlaces
<1>6. at(Rank(hs, first)) = first
  <2>1. \A m \in Firsts(hs) : Rank(hs, m) = Rank(hs, first) => m = first
    BY <1>3, RanksArePlaces
  <2> QED BY <1>4, <1>5, <2>1
<1>7. /\ MergedAt(hs, first) \in Hyps(I, C, E, M, T)
      /\ MergedAt(hs, first).id = hs[i].id
      /\ hs[i].evidence \subseteq MergedAt(hs, first).evidence
      /\ hs[i].missing \subseteq MergedAt(hs, first).missing
  BY <1>2, MergedAtType
<1>8. Merge(hs)[Rank(hs, first)] = [MergedAt(hs, first) EXCEPT
                                      !.status = StatusAt(Ranked(hs), Rank(hs, first))]
  BY <1>4, <1>5, <1>6
<1>9. /\ Merge(hs)[Rank(hs, first)].id = hs[i].id
      /\ hs[i].evidence \subseteq Merge(hs)[Rank(hs, first)].evidence
      /\ hs[i].missing \subseteq Merge(hs)[Rank(hs, first)].missing
  BY <1>7, <1>8 DEF Hyps
<1> QED BY <1>5, <1>9 DEF P

\* score.Top finds a hypothesis whenever one has a score.
LEMMA TopType ==
  ASSUME NEW I, NEW C, NEW E, NEW M, NEW T, NEW hs \in Seq(Hyps(I, C, E, M, T))
  PROVE  Top(hs) = 0 \/ Top(hs) \in DOMAIN hs
<1> DEFINE S == {k \in DOMAIN hs : hs[k].scored}
           f == [k \in DOMAIN hs |-> hs[k].score]
<1>1. SUFFICES ASSUME S # {}
               PROVE  Top(hs) \in DOMAIN hs
  BY DEF Top
<1>2. S \in SUBSET (1..Len(hs)) /\ S \subseteq Int
  OBVIOUS
<1>3. \A k \in S : f[k] = hs[k].score /\ f[k] \in Int
  <2>1. \A k \in S : hs[k] \in Hyps(I, C, E, M, T) /\ f[k] = hs[k].score
    OBVIOUS
  <2>2. \A h \in Hyps(I, C, E, M, T) : h.score \in Int
    BY DEF Hyps
  <2> HIDE DEF S, f
  <2> QED BY <2>1, <2>2
<1>4. IsFiniteSet(S)
  <2>1. IsFiniteSet(1..Len(hs))
    BY FS_Interval
  <2> HIDE DEF S
  <2> QED BY <1>2, <2>1, FS_Subset
<1>5. PICK k \in S : \A j \in S : hs[j].score < hs[k].score \/ (hs[j].score = hs[k].score /\ k <= j)
  <2> HIDE DEF S, f
  <2>1. PICK k \in S : \A j \in S : f[j] < f[k] \/ (f[j] = f[k] /\ k <= j)
    BY <1>1, <1>2, <1>3, <1>4, HasBest
  <2> QED BY <1>3, <2>1
<1> QED BY <1>1, <1>5 DEF Top

-------------------------------------------------------------------------------
(* What the order of emission does not change. *)

\* s is a list of exactly the elements of X.
Lists(s, X) == s \in Seq(X) /\ \A x \in X : \E i \in DOMAIN s : s[i] = x

\* A hypothesis m carries the best score of those of its ID in X and the lists of all.
MergedFrom(m, X) ==
  LET same == {h \in X : h.id = m.id}
  IN  /\ \E k \in same : m.score = k.score /\ \A h \in same : h.margin <= k.margin
      /\ m.evidence = UNION {h.evidence : h \in same}
      /\ m.missing = UNION {h.missing : h \in same}

LEMMA MergedAtIsFromSet ==
  ASSUME NEW I, NEW C, NEW E, NEW M, NEW T, NEW X, X \subseteq Hyps(I, C, E, M, T),
         \A h \in X : h.scored, NEW hs, Lists(hs, X), NEW i \in DOMAIN hs
  PROVE  MergedFrom(MergedAt(hs, i), X)
<1> DEFINE m == MergedAt(hs, i)
           k == Keeper(hs, i)
           S == SameID(hs, i)
           same == {h \in X : h.id = hs[i].id}
<1>1. hs \in Seq(Hyps(I, C, E, M, T)) /\ \A j \in DOMAIN hs : hs[j] \in X
  BY DEF Lists
<1>2. \A j \in S : hs[j] \in same
  BY <1>1 DEF SameID
<1>3. \A h \in same : \E j \in S : hs[j] = h
  BY DEF Lists, SameID
<1>4. /\ k \in S /\ \A j \in S : hs[j].margin <= hs[k].margin
  <2>1. \A j \in S : hs[j].scored
    BY <1>2
  <2>2. hs[i].scored
    BY <1>1
  <2> QED BY <1>1, <2>1, <2>2, KeeperIsBest
<1>5. hs[i] \in Hyps(I, C, E, M, T)
  BY <1>1
<1>6. /\ m.id = hs[i].id /\ m.score = hs[k].score
      /\ m.evidence = UNION {hs[j].evidence : j \in S}
      /\ m.missing = UNION {hs[j].missing : j \in S}
  BY <1>5 DEF MergedAt, Hyps
<1> HIDE DEF m, k, S
<1>7. UNION {hs[j].evidence : j \in S} = UNION {h.evidence : h \in same}
  BY <1>2, <1>3
<1>8. UNION {hs[j].missing : j \in S} = UNION {h.missing : h \in same}
  BY <1>2, <1>3
<1>9. \E h \in same : m.score = h.score /\ \A g \in same : g.margin <= h.margin
  <2>1. hs[k] \in same
    BY <1>2, <1>4
  <2>2. \A g \in same : g.margin <= hs[k].margin
    BY <1>3, <1>4
  <2> QED BY <1>6, <2>1, <2>2
<1>10. same = {h \in X : h.id = m.id}
  BY <1>6
<1> HIDE DEF same
<1>11. MergedFrom(m, X)
  BY <1>6, <1>7, <1>8, <1>9, <1>10 DEF MergedFrom
<1> QED BY <1>11 DEF m

\* The entries of a ranking have the IDs of the set and are made of it.
LEMMA MergeIsFromSet ==
  ASSUME NEW I, NEW C, NEW E, NEW M, NEW T, NEW X, X \subseteq Hyps(I, C, E, M, T),
         \A h \in X : h.scored, NEW hs, Lists(hs, X)
  PROVE  /\ \A n \in DOMAIN Merge(hs) :
              /\ MergedFrom(Merge(hs)[n], X)
              /\ Merge(hs)[n].id \in {h.id : h \in X} \ {NoID}
         /\ \A h \in X : h.id # NoID => \E n \in DOMAIN Merge(hs) : Merge(hs)[n].id = h.id
<1>1. hs \in Seq(Hyps(I, C, E, M, T)) /\ \A j \in DOMAIN hs : hs[j] \in X
  BY DEF Lists
<1>2. ASSUME NEW n \in DOMAIN Merge(hs)
      PROVE  /\ MergedFrom(Merge(hs)[n], X)
             /\ Merge(hs)[n].id \in {h.id : h \in X} \ {NoID}
  <2> DEFINE i == EntryAt(hs, n)
             m == MergedAt(hs, i)
             v == Merge(hs)[n]
             s == StatusAt(Ranked(hs), n)
  <2>1. i \in Firsts(hs) /\ v = [m EXCEPT !.status = s]
    BY <1>1, <1>2, MergeEntries
  <2>2. i \in DOMAIN hs /\ hs[i].id # NoID
    BY <2>1 DEF Firsts
  <2>3. m \in Hyps(I, C, E, M, T) /\ m.id = hs[i].id /\ MergedFrom(m, X)
    BY <1>1, <2>2, MergedAtType, MergedAtIsFromSet
  <2> HIDE DEF i, m, v, s
  <2>4. v.id = m.id /\ v.score = m.score /\ v.evidence = m.evidence /\ v.missing = m.missing
    BY <2>1, <2>3 DEF Hyps
  <2>5. MergedFrom(v, X)
    BY <2>3, <2>4 DEF MergedFrom
  <2>6. v.id \in {h.id : h \in X} \ {NoID}
    BY <1>1, <2>2, <2>3, <2>4
  <2> QED BY <2>5, <2>6 DEF v
<1>3. ASSUME NEW h \in X, h.id # NoID
      PROVE  \E n \in DOMAIN Merge(hs) : Merge(hs)[n].id = h.id
  <2>1. PICK j \in DOMAIN hs : hs[j] = h
    BY DEF Lists
  <2> QED BY <1>1, <1>3, <2>1, MergeKeepsEvidence
<1> QED BY <1>2, <1>3

LEMMA CountTo ==
  \A n \in Nat : IsFiniteSet(1..n) /\ Cardinality(1..n) = n
<1> SUFFICES ASSUME NEW n \in Nat PROVE IsFiniteSet(1..n) /\ Cardinality(1..n) = n
  OBVIOUS
<1>1. 1 \in Int /\ n \in Int
  OBVIOUS
<1>2. IsFiniteSet(1..n) /\ Cardinality(1..n) = IF 1 > n THEN 0 ELSE n - 1 + 1
  BY <1>1, FS_Interval
<1> QED BY <1>2

\* Two entries of one ID, made of the same emissions, say the same.
LEMMA SameEntry ==
  ASSUME NEW X, NEW Y, NEW m, NEW u, MergedFrom(m, X), MergedFrom(u, Y), u.id = m.id,
         {h \in X : h.id = m.id} = {h \in Y : h.id = m.id},
         \A h \in X : h.margin \in Int,
         \A h, g \in X : h.margin = g.margin => h.score = g.score
  PROVE  u.score = m.score /\ u.evidence = m.evidence /\ u.missing = m.missing
<1> DEFINE same == {h \in X : h.id = m.id}
<1>1. same = {h \in Y : h.id = u.id}
  OBVIOUS
<1>2. PICK h \in same : m.score = h.score /\ \A g \in same : g.margin <= h.margin
  BY DEF MergedFrom
<1>3. PICK j \in same : u.score = j.score /\ \A g \in same : g.margin <= j.margin
  <2> HIDE DEF same
  <2> QED BY <1>1 DEF MergedFrom
<1>4. h.margin \in Int /\ j.margin \in Int
  OBVIOUS
<1>5. h.margin = j.margin
  BY <1>2, <1>3, <1>4
<1>6. u.score = m.score
  BY <1>2, <1>3, <1>5
<1>7. u.evidence = m.evidence /\ u.missing = m.missing
  <2>1. m.evidence = UNION {g.evidence : g \in same} /\ m.missing = UNION {g.missing : g \in same}
    BY DEF MergedFrom
  <2>2. u.evidence = UNION {g.evidence : g \in same} /\ u.missing = UNION {g.missing : g \in same}
    <3> HIDE DEF same
    <3> QED BY <1>1 DEF MergedFrom
  <2> QED BY <2>1, <2>2
<1> QED BY <1>6, <1>7

\* m places with descending scores f, each with a name p of its own.
Descends(f, p, m) ==
  /\ \A i \in 1..m : f[i] \in Int
  /\ \A i, j \in 1..m : i < j => f[i] >= f[j]
  /\ \A i, j \in 1..m : p[i] = p[j] => i = j

\* The names of the m places have the same scores among the n places.
Covered(f, p, m, g, q, n) ==
  \A i \in 1..m : \E j \in 1..n : q[j] = p[i] /\ g[j] = f[i]

\* Then there are no fewer of those, and no score is lower at the same place.
LEMMA CoveredBelow ==
  ASSUME NEW m \in Nat, NEW n \in Nat, NEW f, NEW g, NEW p, NEW q,
         Descends(f, p, m), Descends(g, q, n), Covered(f, p, m, g, q, n)
  PROVE  /\ m <= n
         /\ \A i \in 1..m : i \in 1..n => g[i] >= f[i]
<1> DEFINE to == [k \in 1..m |-> CHOOSE j \in 1..n : q[j] = p[k] /\ g[j] = f[k]]
<1>1. \A k \in 1..m : to[k] \in 1..n /\ q[to[k]] = p[k] /\ g[to[k]] = f[k]
  <2>1. SUFFICES ASSUME NEW k \in 1..m
                 PROVE  to[k] \in 1..n /\ q[to[k]] = p[k] /\ g[to[k]] = f[k]
    OBVIOUS
  <2>2. \E j \in 1..n : q[j] = p[k] /\ g[j] = f[k]
    BY DEF Covered
  <2> QED BY <2>2
<1>2. to \in [1..m -> 1..n]
  BY <1>1
<1> HIDE DEF to
<1>3. \A k, l \in 1..m : to[k] = to[l] => k = l
  <2>1. \A k, l \in 1..m : to[k] = to[l] => p[k] = p[l]
    BY <1>1
  <2> QED BY <2>1 DEF Descends
<1>4. m <= n
  <2>1. to \in Injection(1..m, 1..n)
    BY <1>2, <1>3, Fun_IsInj
  <2>2. IsFiniteSet(1..n) /\ Cardinality(1..n) = n /\ Cardinality(1..m) = m
    BY CountTo
  <2>3. Cardinality(1..m) <= Cardinality(1..n)
    BY <2>1, <2>2, FS_Injection
  <2> QED BY <2>2, <2>3
<1>5. ASSUME NEW i \in 1..m, i \in 1..n, g[i] < f[i] PROVE FALSE
  <2> DEFINE up == [k \in 1..i |-> to[k]]
  <2>1. \A k \in 1..i : k \in 1..m /\ k \in Int /\ i \in Int
    OBVIOUS
  <2>2. ASSUME NEW k \in 1..i PROVE to[k] \in 1..(i - 1)
    <3>1. f[k] >= f[i]
      <4>1. CASE k = i
        BY <2>1, <4>1 DEF Descends
      <4>2. CASE k < i
        BY <2>1, <4>2 DEF Descends
      <4> QED BY <2>1, <4>1, <4>2
    <3>2. to[k] \in 1..n /\ g[to[k]] = f[k]
      BY <1>1, <2>1
    <3>3. f[k] \in Int /\ f[i] \in Int /\ g[i] \in Int
      BY <1>5, <2>1 DEF Descends
    <3>4. g[to[k]] > g[i]
      BY <1>5, <3>1, <3>2, <3>3
    <3>5. ~(i < to[k]) /\ to[k] # i
      BY <1>5, <3>2, <3>3, <3>4 DEF Descends
    <3> QED BY <2>1, <3>2, <3>5
  <2>3. up \in [1..i -> 1..(i - 1)]
    BY <2>2
  <2>4. \A k, l \in 1..i : up[k] = up[l] => k = l
    BY <1>3, <2>1
  <2> HIDE DEF up
  <2>5. up \in Injection(1..i, 1..(i - 1))
    BY <2>3, <2>4, Fun_IsInj
  <2>6. /\ IsFiniteSet(1..(i - 1)) /\ Cardinality(1..(i - 1)) = i - 1 /\ Cardinality(1..i) = i
    <3>1. i \in Nat /\ i - 1 \in Nat
      OBVIOUS
    <3> QED BY <3>1, CountTo
  <2>7. Cardinality(1..i) <= Cardinality(1..(i - 1))
    BY <2>5, <2>6, FS_Injection
  <2> QED BY <2>6, <2>7
<1>6. ASSUME NEW i \in 1..m, i \in 1..n PROVE g[i] >= f[i]
  <2>1. f[i] \in Int /\ g[i] \in Int
    BY <1>6 DEF Descends
  <2> QED BY <1>5, <1>6, <2>1
<1> QED BY <1>4, <1>6

\* The order of emission breaks ties and nothing else: two lists of the same scored
\* hypotheses, whose scores go with their margins, are merged to rankings of one length
\* with the same score at each place and with the same IDs, scores and lists
\* (hypothesis.go 28-79).
THEOREM OrderOfEmission ==
  ASSUME NEW I, NEW C, NEW E, NEW M, NEW T, NEW X, X \subseteq Hyps(I, C, E, M, T),
         \A h \in X : h.scored, \A h, g \in X : h.margin = g.margin => h.score = g.score,
         NEW hs, Lists(hs, X), NEW gs, Lists(gs, X)
  PROVE  /\ DOMAIN Merge(hs) = DOMAIN Merge(gs)
         /\ \A k \in DOMAIN Merge(hs) : Merge(hs)[k].score = Merge(gs)[k].score
         /\ \A k \in DOMAIN Merge(hs) : \E l \in DOMAIN Merge(gs) :
              /\ Merge(gs)[l].id = Merge(hs)[k].id
              /\ Merge(gs)[l].score = Merge(hs)[k].score
              /\ Merge(gs)[l].evidence = Merge(hs)[k].evidence
              /\ Merge(gs)[l].missing = Merge(hs)[k].missing
<1>1. ASSUME NEW s, Lists(s, X), NEW h \in X, h.id # NoID
      PROVE  \E n \in DOMAIN Merge(s) : Merge(s)[n].id = h.id
  BY <1>1, MergeIsFromSet
<1>2. ASSUME NEW s, Lists(s, X)
      PROVE  /\ Merge(s) \in Seq(Hyps(I, C, E, M, Statuses))
             /\ \A j, k \in DOMAIN Merge(s) :
                  /\ j < k => scoreOf(Merge(s)[j]) >= scoreOf(Merge(s)[k])
                  /\ Merge(s)[j].id = Merge(s)[k].id => j = k
             /\ \A k \in DOMAIN Merge(s) :
                  /\ Merge(s)[k].score \in Nat
                  /\ scoreOf(Merge(s)[k]) = Merge(s)[k].score
  <2>1. s \in Seq(Hyps(I, C, E, M, T))
    BY <1>2 DEF Lists
  <2>2. /\ Merge(s) \in Seq(Hyps(I, C, E, M, Statuses))
        /\ \A j, k \in DOMAIN Merge(s) :
             /\ j < k => scoreOf(Merge(s)[j]) >= scoreOf(Merge(s)[k])
             /\ Merge(s)[j].id = Merge(s)[k].id => j = k
    BY <2>1, MergeDescends
  <2>3. ASSUME NEW k \in DOMAIN Merge(s)
        PROVE  Merge(s)[k].score \in Nat /\ scoreOf(Merge(s)[k]) = Merge(s)[k].score
    <3> DEFINE i == EntryAt(s, k)
               m == MergedAt(s, i)
               v == Merge(s)[k]
               t == StatusAt(Ranked(s), k)
    <3>1. i \in Firsts(s) /\ v = [m EXCEPT !.status = t]
      BY <2>1, <2>3, MergeEntries
    <3>2. i \in DOMAIN s
      BY <3>1 DEF Firsts
    <3>3. m \in Hyps(I, C, E, M, T)
      BY <2>1, <3>2, MergedAtType
    <3>4. s[i] \in X /\ s[i] \in Hyps(I, C, E, M, T)
      BY <1>2, <3>2 DEF Lists
    <3>5. m.scored = s[i].scored
      BY <3>4 DEF MergedAt, Hyps
    <3>6. s[i].scored
      BY <3>4
    <3> HIDE DEF i, m, v, t
    <3>7. v.scored = m.scored /\ v.score = m.score /\ v.score \in Nat
      BY <3>1, <3>3 DEF Hyps
    <3>8. v.score \in Nat /\ scoreOf(v) = v.score
      BY <3>5, <3>6, <3>7 DEF scoreOf
    <3> QED BY <3>8 DEF v
  <2> QED BY <2>2, <2>3
<1>3. ASSUME NEW s, Lists(s, X), NEW t, Lists(t, X), NEW k \in DOMAIN Merge(s)
      PROVE  \E l \in DOMAIN Merge(t) :
               /\ Merge(t)[l].id = Merge(s)[k].id
               /\ Merge(t)[l].score = Merge(s)[k].score
               /\ Merge(t)[l].evidence = Merge(s)[k].evidence
               /\ Merge(t)[l].missing = Merge(s)[k].missing
  <2> DEFINE m == Merge(s)[k]
  <2>1. MergedFrom(m, X) /\ m.id \in {h.id : h \in X} \ {NoID}
    BY <1>3, MergeIsFromSet
  <2>2. PICK l \in DOMAIN Merge(t) : Merge(t)[l].id = m.id
    BY <1>1, <1>3, <2>1
  <2> DEFINE u == Merge(t)[l]
  <2>3. MergedFrom(u, X)
    BY <1>3, MergeIsFromSet
  <2>4. u.id = m.id
    BY <2>2
  <2> HIDE DEF m, u
  <2>5. \A h \in X : h.margin \in Int
    BY DEF Hyps
  <2>6. u.score = m.score /\ u.evidence = m.evidence /\ u.missing = m.missing
    BY <2>1, <2>3, <2>4, <2>5, SameEntry
  <2>11. u.id = m.id /\ u.score = m.score /\ u.evidence = m.evidence /\ u.missing = m.missing
    BY <2>4, <2>6
  <2> QED BY <2>11 DEF m, u
<1>4. ASSUME NEW s, Lists(s, X), NEW t, Lists(t, X)
      PROVE  /\ Len(Merge(s)) <= Len(Merge(t))
             /\ \A k \in DOMAIN Merge(s) : k \in DOMAIN Merge(t) =>
                  Merge(t)[k].score >= Merge(s)[k].score
  <2> DEFINE a == Len(Merge(s))
             b == Len(Merge(t))
             f == [k \in 1..a |-> Merge(s)[k].score]
             g == [k \in 1..b |-> Merge(t)[k].score]
             p == [k \in 1..a |-> Merge(s)[k].id]
             q == [k \in 1..b |-> Merge(t)[k].id]
  <2>1. a \in Nat /\ DOMAIN Merge(s) = 1..a /\ b \in Nat /\ DOMAIN Merge(t) = 1..b
    BY <1>2, <1>4
  <2>2. Descends(f, p, a)
    <3>1. /\ \A j, k \in DOMAIN Merge(s) :
               /\ j < k => scoreOf(Merge(s)[j]) >= scoreOf(Merge(s)[k])
               /\ Merge(s)[j].id = Merge(s)[k].id => j = k
          /\ \A k \in DOMAIN Merge(s) :
               /\ Merge(s)[k].score \in Nat
               /\ scoreOf(Merge(s)[k]) = Merge(s)[k].score
      BY <1>2, <1>4
    <3> QED BY <2>1, <3>1 DEF Descends
  <2>3. Descends(g, q, b)
    <3>1. /\ \A j, k \in DOMAIN Merge(t) :
               /\ j < k => scoreOf(Merge(t)[j]) >= scoreOf(Merge(t)[k])
               /\ Merge(t)[j].id = Merge(t)[k].id => j = k
          /\ \A k \in DOMAIN Merge(t) :
               /\ Merge(t)[k].score \in Nat
               /\ scoreOf(Merge(t)[k]) = Merge(t)[k].score
      BY <1>2, <1>4
    <3> QED BY <2>1, <3>1 DEF Descends
  <2>4. Covered(f, p, a, g, q, b)
    <3> SUFFICES ASSUME NEW k \in 1..a PROVE \E l \in 1..b : q[l] = p[k] /\ g[l] = f[k]
      BY DEF Covered
    <3>1. k \in DOMAIN Merge(s)
      BY <2>1
    <3>2. PICK l \in DOMAIN Merge(t) : Merge(t)[l].id = Merge(s)[k].id
                                       /\ Merge(t)[l].score = Merge(s)[k].score
      BY <1>3, <1>4, <3>1
    <3> QED BY <2>1, <3>2
  <2>5. a <= b /\ \A k \in 1..a : k \in 1..b => g[k] >= f[k]
    <3> HIDE DEF a, b, f, g, p, q
    <3> QED BY <2>1, <2>2, <2>3, <2>4, CoveredBelow
  <2> QED BY <2>1, <2>5
<1>5. /\ Merge(hs) \in Seq(Hyps(I, C, E, M, Statuses)) /\ Merge(gs) \in Seq(Hyps(I, C, E, M, Statuses))
      /\ \A k \in DOMAIN Merge(hs) : Merge(hs)[k].score \in Nat
      /\ \A k \in DOMAIN Merge(gs) : Merge(gs)[k].score \in Nat
  BY <1>2
<1>6. DOMAIN Merge(hs) = DOMAIN Merge(gs)
  <2> DEFINE a == Len(Merge(hs))
             b == Len(Merge(gs))
  <2>1. a <= b /\ b <= a
    BY <1>4
  <2>2. /\ a \in Nat /\ DOMAIN Merge(hs) = 1..a
        /\ b \in Nat /\ DOMAIN Merge(gs) = 1..b
    BY <1>5
  <2> HIDE DEF a, b
  <2>3. a = b
    BY <2>1, <2>2
  <2> QED BY <2>2, <2>3
<1>7. ASSUME NEW k \in DOMAIN Merge(hs) PROVE Merge(hs)[k].score = Merge(gs)[k].score
  <2>1. k \in DOMAIN Merge(gs)
    BY <1>6
  <2>2. Merge(gs)[k].score >= Merge(hs)[k].score /\ Merge(hs)[k].score >= Merge(gs)[k].score
    BY <1>4, <2>1
  <2> QED BY <1>5, <2>1, <2>2
<1> QED BY <1>3, <1>6, <1>7

===============================================================================
