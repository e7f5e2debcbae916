--------------------------- MODULE MergeLoopProofs ---------------------------
(***************************************************************************)
(* The loops of hypothesis.Merge compute the ranking that Hypothesis        *)
(* defines, for every list of hypotheses.                                    *)
(***************************************************************************)
EXTENDS MergeLoop, HypothesisProofs, SequenceTheorems

(* One more emission: what Firsts and MergedAt are on p with h at its end. *)

\* The positions of p with one more emission.
LEMMA AppendPositions ==
  ASSUME NEW H, NEW p \in Seq(H), NEW h \in H
  PROVE  /\ Append(p, h) \in Seq(H)
         /\ DOMAIN p = 1..Len(p) /\ Len(p) \in Nat
         /\ DOMAIN Append(p, h) = DOMAIN p \cup {Len(p) + 1}
         /\ \A j \in DOMAIN p : /\ Append(p, h)[j] = p[j]
                                /\ j \in Nat \ {0} /\ j < Len(p) + 1
         /\ Append(p, h)[Len(p) + 1] = h
<1>1. DOMAIN p = 1..Len(p) /\ Len(p) \in Nat
  OBVIOUS
<1>2. Append(p, h) \in Seq(H) /\ Len(Append(p, h)) = Len(p) + 1
  OBVIOUS
<1>3. DOMAIN Append(p, h) = 1..Len(p) + 1
  BY <1>2
<1>4. \A j \in 1..Len(p) : Append(p, h)[j] = p[j]
  OBVIOUS
<1>5. 1..Len(p) + 1 = 1..Len(p) \cup {Len(p) + 1}
  BY <1>1
<1>6. Append(p, h)[Len(p) + 1] = h
  OBVIOUS
<1>7. \A j \in 1..Len(p) : j \in Nat \ {0} /\ j < Len(p) + 1
  BY <1>1
<1> QED BY <1>1, <1>2, <1>3, <1>4, <1>5, <1>6, <1>7

\* An emission with an ID has an entry, opened at its position or before.
LEMMA EntryOfID ==
  ASSUME NEW H, NEW p \in Seq(H), NEW j \in DOMAIN p, p[j].id # NoID
  PROVE  \E f \in Firsts(p) : p[f].id = p[j].id
<1> DEFINE S == SameID(p, j)
<1>1. PICK f \in S : \A k \in S : f <= k
  <2>1. S \in SUBSET (1..Len(p)) /\ S # {} /\ S \subseteq Int
    BY DEF SameID
  <2>2. IsFiniteSet(1..Len(p))
    BY FS_Interval
  <2> HIDE DEF S
  <2>3. IsFiniteSet(S)
    BY <2>1, <2>2, FS_Subset
  <2> QED BY <2>1, <2>3, HasSmallest
<1>2. f \in DOMAIN p /\ p[f].id = p[j].id /\ SameID(p, f) = S
  BY DEF SameID
<1> QED BY <1>1, <1>2 DEF Firsts

\* Two positions that open an entry for the same ID are the same position.
LEMMA OneEntryPerID ==
  ASSUME NEW H, NEW p \in Seq(H), NEW f \in Firsts(p), NEW g \in Firsts(p),
         p[f].id = p[g].id
  PROVE  f = g
<1>1. f \in DOMAIN p /\ g \in DOMAIN p /\ f <= g /\ g <= f
  BY DEF Firsts, SameID
<1>2. f \in Int /\ g \in Int
  BY <1>1
<1> QED BY <1>1, <1>2

LEMMA AppendFirsts ==
  ASSUME NEW H, NEW p \in Seq(H), NEW h \in H
  PROVE  Firsts(Append(p, h)) =
           Firsts(p) \cup (IF h.id # NoID /\ \A f \in Firsts(p) : p[f].id # h.id
                           THEN {Len(p) + 1} ELSE {})
<1> DEFINE q == Append(p, h)
           n == Len(p) + 1
<1>1. /\ DOMAIN q = DOMAIN p \cup {n} /\ q[n] = h
      /\ \A j \in DOMAIN p : q[j] = p[j] /\ j \in Nat \ {0} /\ j < n
      /\ n \in Nat
  BY AppendPositions
<1>2. n \notin DOMAIN p
  BY <1>1
<1>3. \A j \in DOMAIN p : ~(n <= j) /\ j <= n
  BY <1>1
<1>4. n <= n
  BY <1>1
<1> HIDE DEF q, n
<1>5. \A k \in DOMAIN p : k \in Firsts(q) <=> k \in Firsts(p)
  <2>1. SUFFICES ASSUME NEW k \in DOMAIN p
                 PROVE  k \in Firsts(q) <=> k \in Firsts(p)
    OBVIOUS
  <2>2. /\ SameID(p, k) \subseteq SameID(q, k)
        /\ \A j \in SameID(q, k) : j \in SameID(p, k) \/ j = n
    BY <1>1 DEF SameID
  <2>3. k <= n
    BY <1>3
  <2>4. q[k] = p[k] /\ k \in DOMAIN q
    BY <1>1
  <2> QED BY <2>2, <2>3, <2>4 DEF Firsts
<1>6. n \in Firsts(q) <=> h.id # NoID /\ \A j \in DOMAIN p : p[j].id # h.id
  <2>1. n \in DOMAIN q
    BY <1>1
  <2>2. ASSUME NEW j \in DOMAIN p, p[j].id = h.id
        PROVE  n \notin Firsts(q)
    <3>1. j \in SameID(q, n) /\ ~(n <= j)
      BY <1>1, <1>3, <2>2 DEF SameID
    <3> QED BY <3>1 DEF Firsts
  <2>3. ASSUME \A j \in DOMAIN p : p[j].id # h.id
        PROVE  SameID(q, n) = {n}
    BY <1>1, <2>3 DEF SameID
  <2> QED BY <1>1, <1>4, <2>1, <2>2, <2>3 DEF Firsts
<1>7. h.id # NoID =>
        ((\A j \in DOMAIN p : p[j].id # h.id) <=> \A f \in Firsts(p) : p[f].id # h.id)
  <2>1. \A f \in Firsts(p) : f \in DOMAIN p
    BY DEF Firsts
  <2>2. \A j \in DOMAIN p : p[j].id # NoID => \E f \in Firsts(p) : p[f].id = p[j].id
    BY EntryOfID
  <2> QED BY <2>1, <2>2
<1>8. \A k \in Firsts(q) : k \in DOMAIN p \/ k = n
  BY <1>1 DEF Firsts
<1>9. \A k \in Firsts(p) : k \in DOMAIN p
  BY DEF Firsts
<1>10. Firsts(q) = Firsts(p) \cup (IF h.id # NoID /\ \A f \in Firsts(p) : p[f].id # h.id
                                   THEN {n} ELSE {})
  BY <1>2, <1>5, <1>6, <1>7, <1>8, <1>9
<1> QED BY <1>10 DEF q, n

\* A scored entry has a scored emission with the largest margin, the first such one.
LEMMA ScoredHasBest ==
  ASSUME NEW I, NEW C, NEW E, NEW M, NEW T,
         NEW p \in Seq(Hyps(I, C, E, M, T)), NEW f \in DOMAIN p, p[f].scored
  PROVE  \E k \in SameID(p, f) :
           /\ p[k].scored
           /\ \A j \in SameID(p, f) : p[j].scored =>
                \/ p[j].margin < p[k].margin
                \/ p[j].margin = p[k].margin /\ k <= j
<1> DEFINE S == {j \in SameID(p, f) : p[j].scored}
           mar == [j \in 1..Len(p) |-> p[j].margin]
<1>1. S \in SUBSET (1..Len(p)) /\ S # {} /\ S \subseteq Int
  BY DEF SameID
<1>2. IsFiniteSet(S)
  <2>1. IsFiniteSet(1..Len(p))
    BY FS_Interval
  <2> HIDE DEF S
  <2> QED BY <1>1, <2>1, FS_Subset
<1>3. \A k \in S : mar[k] = p[k].margin /\ mar[k] \in Int
  <2>1. \A k \in 1..Len(p) : p[k] \in Hyps(I, C, E, M, T) /\ mar[k] = p[k].margin
    OBVIOUS
  <2>2. \A h \in Hyps(I, C, E, M, T) : h.margin \in Int
    BY DEF Hyps
  <2> HIDE DEF S, mar
  <2> QED BY <1>1, <2>1, <2>2
<1>4. PICK k \in S : \A j \in S : mar[j] < mar[k] \/ (mar[j] = mar[k] /\ k <= j)
  <2> HIDE DEF S, mar
  <2> QED BY <1>1, <1>2, <1>3, HasBest
<1>5. \A j \in S : p[j].margin < p[k].margin \/ (p[j].margin = p[k].margin /\ k <= j)
  <2> HIDE DEF S, mar
  <2> QED BY <1>3, <1>4
<1> QED BY <1>5

\* The condition that picks the keeper of a scored entry has one solution.
LEMMA KeeperIs ==
  ASSUME NEW I, NEW C, NEW E, NEW M, NEW T,
         NEW p \in Seq(Hyps(I, C, E, M, T)), NEW f \in DOMAIN p, p[f].scored,
         NEW k \in SameID(p, f), p[k].scored,
         \A j \in SameID(p, f) : p[j].scored =>
           \/ p[j].margin < p[k].margin
           \/ p[j].margin = p[k].margin /\ k <= j
  PROVE  Keeper(p, f) = k
<1> DEFINE Best(x) == /\ p[x].scored
                      /\ \A j \in SameID(p, f) : p[j].scored =>
                           \/ p[j].margin < p[x].margin
                           \/ p[j].margin = p[x].margin /\ x <= j
<1>1. \A x \in SameID(p, f) : x \in Int /\ p[x].margin \in Int
  <2>1. \A x \in SameID(p, f) : x \in 1..Len(p) /\ p[x] \in Hyps(I, C, E, M, T)
    BY DEF SameID
  <2>2. \A h \in Hyps(I, C, E, M, T) : h.margin \in Int
    BY DEF Hyps
  <2> QED BY <2>1, <2>2
<1>2. ASSUME NEW x \in SameID(p, f), Best(x)
      PROVE  x = k
  <2>1. \/ p[k].margin < p[x].margin
        \/ p[k].margin = p[x].margin /\ x <= k
    BY <1>2
  <2>2. \/ p[x].margin < p[k].margin
        \/ p[x].margin = p[k].margin /\ k <= x
    BY <1>2
  <2>3. /\ x \in Int /\ k \in Int
        /\ p[x].margin \in Int /\ p[k].margin \in Int
    BY <1>1
  <2> QED BY <2>1, <2>2, <2>3
<1>3. Best(k)
  OBVIOUS
<1>4. Keeper(p, f) = CHOOSE x \in SameID(p, f) : Best(x)
  BY DEF Keeper
<1> HIDE DEF Best
<1> QED BY <1>2, <1>3, <1>4

\* The entry with one more emission absorbed.
Absorbed(cur, h) ==
  LET lists   == [cur EXCEPT !.evidence = @ \cup h.evidence,
                             !.missing  = @ \cup h.missing]
      rescore == h.scored /\ cur.scored /\ h.margin > cur.margin
  IN  IF rescore
      THEN [lists EXCEPT !.margin = h.margin, !.score = h.score, !.claim = h.claim]
      ELSE lists

\* An emission of another ID leaves an entry as it is.
LEMMA AppendOther ==
  ASSUME NEW I, NEW C, NEW E, NEW M, NEW T,
         NEW p \in Seq(Hyps(I, C, E, M, T)), NEW h \in Hyps(I, C, E, M, T),
         NEW f \in DOMAIN p, h.id # p[f].id
  PROVE  MergedAt(Append(p, h), f) = MergedAt(p, f)
<1> DEFINE q == Append(p, h)
           n == Len(p) + 1
<1>1. DOMAIN q = DOMAIN p \cup {n} /\ q[n] = h /\ \A j \in DOMAIN p : q[j] = p[j]
  BY AppendPositions
<1> HIDE DEF q, n
<1>2. SameID(q, f) = SameID(p, f) /\ q[f] = p[f]
  BY <1>1 DEF SameID
<1>3. \A j \in SameID(p, f) : q[j] = p[j]
  BY <1>1 DEF SameID
<1>4. Keeper(q, f) = Keeper(p, f)
  <2>1. \A k \in SameID(p, f) :
          (/\ q[k].scored
           /\ \A j \in SameID(p, f) : q[j].scored =>
                \/ q[j].margin < q[k].margin
                \/ q[j].margin = q[k].margin /\ k <= j)
          <=>
          (/\ p[k].scored
           /\ \A j \in SameID(p, f) : p[j].scored =>
                \/ p[j].margin < p[k].margin
                \/ p[j].margin = p[k].margin /\ k <= j)
    BY <1>3
  <2>2. CASE ~p[f].scored
    BY <1>2, <2>2 DEF Keeper
  <2>3. CASE p[f].scored
    BY <1>2, <2>1, <2>3 DEF Keeper
  <2> QED BY <2>2, <2>3
<1>5. q[Keeper(p, f)] = p[Keeper(p, f)]
  BY <1>3, KeeperIsBest
<1>6. \A j \in SameID(p, f) : q[j].evidence = p[j].evidence /\ q[j].missing = p[j].missing
  BY <1>3
<1>7. /\ UNION {q[j].evidence : j \in SameID(q, f)} = UNION {p[j].evidence : j \in SameID(p, f)}
      /\ UNION {q[j].missing : j \in SameID(q, f)} = UNION {p[j].missing : j \in SameID(p, f)}
  BY <1>2, <1>6
<1> DEFINE ev(r) == UNION {r[j].evidence : j \in SameID(r, f)}
           mi(r) == UNION {r[j].missing : j \in SameID(r, f)}
           merged(x, y, e, m) == [x EXCEPT !.margin = y.margin, !.score = y.score,
                                           !.claim = y.claim, !.evidence = e, !.missing = m]
<1>8. /\ MergedAt(q, f) = merged(q[f], q[Keeper(q, f)], ev(q), mi(q))
      /\ MergedAt(p, f) = merged(p[f], p[Keeper(p, f)], ev(p), mi(p))
  BY DEF MergedAt
<1>9. ev(q) = ev(p) /\ mi(q) = mi(p)
  BY <1>7
<1> HIDE DEF ev, mi, merged
<1>10. MergedAt(q, f) = MergedAt(p, f)
  BY <1>2, <1>4, <1>5, <1>8, <1>9
<1> QED BY <1>10 DEF q

\* An emission that opens an entry is that entry.
LEMMA AppendNew ==
  ASSUME NEW I, NEW C, NEW E, NEW M, NEW T,
         NEW p \in Seq(Hyps(I, C, E, M, T)), NEW h \in Hyps(I, C, E, M, T),
         \A j \in DOMAIN p : p[j].id # h.id
  PROVE  MergedAt(Append(p, h), Len(p) + 1) = h
<1> DEFINE q == Append(p, h)
           n == Len(p) + 1
<1>1. DOMAIN q = DOMAIN p \cup {n} /\ q[n] = h /\ \A j \in DOMAIN p : q[j] = p[j]
  BY AppendPositions
<1>2. q \in Seq(Hyps(I, C, E, M, T))
  OBVIOUS
<1> HIDE DEF q, n
<1>3. SameID(q, n) = {n}
  BY <1>1 DEF SameID
<1>4. Keeper(q, n) = n
  BY <1>1, <1>2, <1>3, KeeperIsBest
<1>5. /\ UNION {q[j].evidence : j \in SameID(q, n)} = h.evidence
      /\ UNION {q[j].missing : j \in SameID(q, n)} = h.missing
  BY <1>1, <1>3
<1>6. MergedAt(q, n) = [h EXCEPT !.margin = h.margin, !.score = h.score, !.claim = h.claim,
                                 !.evidence = h.evidence, !.missing = h.missing]
  BY <1>1, <1>4, <1>5 DEF MergedAt
<1>7. MergedAt(q, n) = h
  BY <1>6 DEF Hyps
<1> QED BY <1>7 DEF q, n

SameFields(x, y) ==
  /\ x.id = y.id /\ x.scored = y.scored /\ x.status = y.status
  /\ x.margin = y.margin /\ x.score = y.score /\ x.claim = y.claim
  /\ x.evidence = y.evidence /\ x.missing = y.missing

\* Hypotheses with the same fields are the same.
LEMMA SameHyp ==
  ASSUME NEW I, NEW C, NEW E, NEW M, NEW T,
         NEW x \in Hyps(I, C, E, M, T), NEW y \in Hyps(I, C, E, M, T), SameFields(x, y)
  PROVE  x = y
BY DEF Hyps, SameFields

\* Another emission of an entry's ID is absorbed by the entry.
LEMMA AppendSame ==
  ASSUME NEW I, NEW C, NEW E, NEW M, NEW T,
         NEW p \in Seq(Hyps(I, C, E, M, T)), NEW h \in Hyps(I, C, E, M, T),
         NEW f \in DOMAIN p, h.id = p[f].id
  PROVE  MergedAt(Append(p, h), f) = Absorbed(MergedAt(p, f), h)
<1> DEFINE q == Append(p, h)
           n == Len(p) + 1
           k == Keeper(p, f)
           cur == MergedAt(p, f)
           rescore == h.scored /\ cur.scored /\ h.margin > cur.margin
           HH == Hyps(I, C, E, M, T)
<1>1. /\ DOMAIN q = DOMAIN p \cup {n} /\ q[n] = h
      /\ \A j \in DOMAIN p : q[j] = p[j] /\ j \in Nat \ {0} /\ j < n
      /\ n \in Nat
  BY AppendPositions
<1>2. q \in Seq(HH)
  OBVIOUS
<1>3. n \notin DOMAIN p
  BY <1>1
<1> HIDE DEF q, n
<1>4. SameID(q, f) = SameID(p, f) \cup {n} /\ q[f] = p[f] /\ n \notin SameID(p, f)
  BY <1>1, <1>3 DEF SameID
<1>5. \A j \in SameID(p, f) : /\ q[j] = p[j] /\ j \in DOMAIN p /\ p[j] \in HH
                              /\ j < n /\ j \in Int
  BY <1>1 DEF SameID
<1>6. /\ k \in SameID(p, f)
      /\ p[f].scored => /\ p[k].scored
                        /\ \A j \in SameID(p, f) : p[j].scored => p[j].margin <= p[k].margin
  BY KeeperIsBest
<1>7. p[f] \in HH /\ p[k] \in HH
  BY <1>5, <1>6
<1>8. cur.scored = p[f].scored /\ cur.margin = p[k].margin
  BY <1>7 DEF MergedAt, Hyps
<1>9. Keeper(q, f) = IF rescore THEN n ELSE k
  <2>1. CASE ~p[f].scored
    BY <1>4, <1>8, <2>1 DEF Keeper
  <2>2. CASE p[f].scored /\ rescore
    <3>1. \A j \in SameID(q, f) : q[j].scored =>
            \/ q[j].margin < q[n].margin
            \/ q[j].margin = q[n].margin /\ n <= j
      <4>1. SUFFICES ASSUME NEW j \in SameID(p, f), p[j].scored
                     PROVE  p[j].margin < h.margin
        BY <1>1, <1>4, <1>5
      <4>2. p[j].margin \in Int /\ p[k].margin \in Int /\ h.margin \in Int
        BY <1>5, <1>7 DEF Hyps
      <4>3. p[j].margin <= p[k].margin
        BY <1>6, <2>2, <4>1
      <4> QED BY <1>8, <2>2, <4>2, <4>3
    <3>2. n \in SameID(q, f) /\ q[n].scored /\ q[f].scored /\ f \in DOMAIN q
      BY <1>1, <1>4, <2>2
    <3>3. Keeper(q, f) = n
      BY <1>2, <3>1, <3>2, KeeperIs
    <3> QED BY <2>2, <3>3
  <2>3. CASE p[f].scored /\ ~rescore
    <3>1. p[k].scored /\ \A j \in SameID(p, f) : p[j].scored =>
            \/ p[j].margin < p[k].margin
            \/ p[j].margin = p[k].margin /\ k <= j
      <4>1. \E x \in SameID(p, f) : p[x].scored /\ \A j \in SameID(p, f) : p[j].scored =>
              \/ p[j].margin < p[x].margin
              \/ p[j].margin = p[x].margin /\ x <= j
        BY <2>3, ScoredHasBest
      <4> QED BY <2>3, <4>1 DEF Keeper
    <3>2. h.scored => h.margin < p[k].margin \/ (h.margin = p[k].margin /\ k <= n)
      <4>1. p[k].margin \in Int /\ h.margin \in Int /\ k < n /\ k \in Int
        BY <1>5, <1>6, <1>7 DEF Hyps
      <4> QED BY <1>1, <1>8, <2>3, <4>1
    <3>3. \A j \in SameID(q, f) : q[j].scored =>
            \/ q[j].margin < q[k].margin
            \/ q[j].margin = q[k].margin /\ k <= j
      BY <1>1, <1>4, <1>5, <1>6, <3>1, <3>2
    <3>4. k \in SameID(q, f) /\ q[k].scored /\ q[f].scored /\ f \in DOMAIN q
      BY <1>1, <1>4, <1>5, <1>6, <2>3, <3>1
    <3> HIDE DEF k
    <3>5. Keeper(q, f) = k
      BY <1>2, <3>3, <3>4, KeeperIs
    <3> QED BY <2>3, <3>5
  <2> QED BY <2>1, <2>2, <2>3
<1>10. /\ UNION {q[j].evidence : j \in SameID(q, f)} = cur.evidence \cup h.evidence
       /\ UNION {q[j].missing : j \in SameID(q, f)} = cur.missing \cup h.missing
  <2>1. /\ cur.evidence = UNION {p[j].evidence : j \in SameID(p, f)}
        /\ cur.missing = UNION {p[j].missing : j \in SameID(p, f)}
    BY <1>7 DEF MergedAt, Hyps
  <2> HIDE DEF cur
  <2>2. UNION {q[j].evidence : j \in SameID(q, f)} = cur.evidence \cup h.evidence
    BY <1>1, <1>4, <1>5, <2>1
  <2>3. UNION {q[j].missing : j \in SameID(q, f)} = cur.missing \cup h.missing
    BY <1>1, <1>4, <1>5, <2>1
  <2> QED BY <2>2, <2>3
<1>11. MergedAt(q, f) =
         [p[f] EXCEPT !.margin = IF rescore THEN h.margin ELSE p[k].margin,
                      !.score = IF rescore THEN h.score ELSE p[k].score,
                      !.claim = IF rescore THEN h.claim ELSE p[k].claim,
                      !.evidence = cur.evidence \cup h.evidence,
                      !.missing = cur.missing \cup h.missing]
  <2>1. q[Keeper(q, f)] = IF rescore THEN h ELSE p[k]
    <3> HIDE DEF rescore, k
    <3> QED BY <1>1, <1>5, <1>6, <1>9
  <2> HIDE DEF rescore, k, cur
  <2> QED BY <1>4, <1>10, <2>1 DEF MergedAt
<1>12. cur \in HH /\ MergedAt(q, f) \in HH
  <2>1. f \in DOMAIN q
    BY <1>1
  <2> QED BY <1>2, <2>1, MergedAtType
<1>13. /\ cur.id = p[f].id /\ cur.scored = p[f].scored /\ cur.status = p[f].status
       /\ cur.margin = p[k].margin /\ cur.score = p[k].score /\ cur.claim = p[k].claim
  BY <1>7 DEF MergedAt, Hyps
<1>14. Absorbed(cur, h) \in HH /\ SameFields(MergedAt(q, f), Absorbed(cur, h))
  <2> DEFINE lists == [cur EXCEPT !.evidence = cur.evidence \cup h.evidence,
                                  !.missing  = cur.missing \cup h.missing]
  <2> HIDE DEF k, cur, rescore
  <2>1. /\ lists \in HH
        /\ lists.id = cur.id /\ lists.scored = cur.scored /\ lists.status = cur.status
        /\ lists.margin = cur.margin /\ lists.score = cur.score /\ lists.claim = cur.claim
        /\ lists.evidence = cur.evidence \cup h.evidence
        /\ lists.missing = cur.missing \cup h.missing
    BY <1>12 DEF Hyps
  <2>2. Absorbed(cur, h) =
          IF rescore
          THEN [lists EXCEPT !.margin = h.margin, !.score = h.score, !.claim = h.claim]
          ELSE lists
    BY DEF Absorbed, rescore
  <2> HIDE DEF lists
  <2>3. CASE rescore
    <3>1. Absorbed(cur, h) = [lists EXCEPT !.margin = h.margin, !.score = h.score,
                                           !.claim = h.claim]
      BY <2>2, <2>3
    <3>2. /\ Absorbed(cur, h) \in HH
          /\ Absorbed(cur, h).id = lists.id
          /\ Absorbed(cur, h).scored = lists.scored
          /\ Absorbed(cur, h).status = lists.status
          /\ Absorbed(cur, h).margin = h.margin
          /\ Absorbed(cur, h).score = h.score
          /\ Absorbed(cur, h).claim = h.claim
          /\ Absorbed(cur, h).evidence = lists.evidence
          /\ Absorbed(cur, h).missing = lists.missing
      BY <2>1, <3>1 DEF Hyps
    <3>3. MergedAt(q, f) =
            [p[f] EXCEPT !.margin = h.margin, !.score = h.score, !.claim = h.claim,
                         !.evidence = cur.evidence \cup h.evidence,
                         !.missing = cur.missing \cup h.missing]
      BY <1>11, <2>3
    <3>4. /\ MergedAt(q, f).id = p[f].id
          /\ MergedAt(q, f).scored = p[f].scored
          /\ MergedAt(q, f).status = p[f].status
          /\ MergedAt(q, f).margin = h.margin
          /\ MergedAt(q, f).score = h.score
          /\ MergedAt(q, f).claim = h.claim
          /\ MergedAt(q, f).evidence = cur.evidence \cup h.evidence
          /\ MergedAt(q, f).missing = cur.missing \cup h.missing
      BY <1>7, <3>3 DEF Hyps
    <3> QED BY <1>13, <2>1, <3>2, <3>4 DEF SameFields
  <2>4. CASE ~rescore
    <3>1. Absorbed(cur, h) = lists
      BY <2>2, <2>4
    <3> QED BY <1>7, <1>11, <1>13, <2>1, <2>4, <3>1 DEF Hyps, SameFields
  <2> QED BY <2>3, <2>4
<1>15. MergedAt(q, f) = Absorbed(cur, h)
  BY <1>12, <1>14, SameHyp
<1> QED BY <1>15 DEF q, cur

-------------------------------------------------------------------------------
(* The insertion. *)

\* A set of positions that holds every position before one of its own is 1 .. size.
LEMMA DownwardClosed ==
  ASSUME NEW n \in Nat, NEW S, S \subseteq 1..n,
         \A j \in 1..n, k \in S : j <= k => j \in S
  PROVE  Cardinality(S) \in 0..n /\ S = 1..Cardinality(S)
<1> DEFINE R == (1..n) \ S
<1>1. IsFiniteSet(1..n) /\ Cardinality(1..n) = n
  BY FS_Interval
<1>2. IsFiniteSet(R)
  <2>1. R \subseteq 1..n
    OBVIOUS
  <2> HIDE DEF R
  <2> QED BY <1>1, <2>1, FS_Subset
<1>3. CASE R = {}
  <2>1. S = 1..n
    BY <1>3
  <2> QED BY <1>1, <2>1
<1>4. CASE R # {}
  <2>1. R \subseteq Int
    OBVIOUS
  <2>2. PICK c \in R : \A r \in R : c <= r
    <3> HIDE DEF R
    <3> QED BY <1>2, <1>4, <2>1, HasSmallest
  <2>3. c \in 1..n /\ c \notin S
    OBVIOUS
  <2>4. \A k \in 1..n : k < c => k \in S
    BY <2>2, <2>3
  <2>5. \A k \in S : k < c
    BY <2>3
  <2>6. S = 1..(c - 1)
    <3>1. \A k \in S : k \in 1..(c - 1)
      BY <2>3, <2>5
    <3>2. \A k \in 1..(c - 1) : k \in 1..n /\ k < c
      BY <2>3
    <3> QED BY <2>4, <3>1, <3>2
  <2>7. c - 1 \in Nat /\ c - 1 <= n
    BY <2>3
  <2>8. Cardinality(1..(c - 1)) = c - 1
    BY <2>3, FS_Interval
  <2> QED BY <2>6, <2>7, <2>8
<1> QED BY <1>3, <1>4

\* What InsertAt does to the positions.
LEMMA InsertAtPositions ==
  ASSUME NEW H, NEW s \in Seq(H), NEW h \in H, NEW n \in 0..Len(s), NEW m, m = n + 1
  PROVE  /\ InsertAt(s, m, h) \in Seq(H)
         /\ Len(InsertAt(s, m, h)) = Len(s) + 1
         /\ \A k \in 1..n : InsertAt(s, m, h)[k] = s[k]
         /\ InsertAt(s, m, h)[m] = h
         /\ \A k \in 1..Len(s)+1 : k > m => InsertAt(s, m, h)[k] = s[k - 1]
<1> DEFINE a == SubSeq(s, 1, n)
           b == SubSeq(s, n + 1, Len(s))
           ah == a \o <<h>>
<1>1. n \in Nat /\ n <= Len(s) /\ Len(s) \in Nat
  OBVIOUS
<1>2. a \in Seq(H) /\ Len(a) = n /\ \A k \in 1..n : a[k] = s[k]
  OBVIOUS
<1>3. /\ b \in Seq(H) /\ Len(b) = Len(s) - n
      /\ \A k \in 1..(Len(s) - n) : b[k] = s[n + k]
  BY <1>1
<1>4. InsertAt(s, m, h) = ah \o b
  <2>1. \A k : k = n + 1 => k - 1 = n
    BY <1>1
  <2>2. \A k : InsertAt(s, k, h) = SubSeq(s, 1, k - 1) \o <<h>> \o SubSeq(s, k, Len(s))
    BY Zenon DEF InsertAt
  <2>3. ah \o b = (SubSeq(s, 1, n) \o <<h>>) \o SubSeq(s, n + 1, Len(s))
    BY Zenon
  <2> HIDE DEF ah, b
  <2>4. InsertAt(s, m, h) = (SubSeq(s, 1, n) \o <<h>>) \o SubSeq(s, m, Len(s))
    BY <2>1, <2>2, Zenon
  <2> QED BY <2>3, <2>4, Zenon
<1> HIDE DEF a, b
<1>5. /\ ah \in Seq(H) /\ Len(ah) = n + 1 /\ ah[n + 1] = h
      /\ \A k \in 1..n : ah[k] = a[k]
  BY <1>1, <1>2
<1> HIDE DEF ah
<1>6. /\ ah \o b \in Seq(H) /\ Len(ah \o b) = n + 1 + (Len(s) - n)
      /\ \A k \in 1..n+1 : (ah \o b)[k] = ah[k]
      /\ \A k \in 1..(Len(s) - n) : (ah \o b)[n + 1 + k] = b[k]
  <2>1. /\ ah \o b \in Seq(H) /\ Len(ah \o b) = Len(ah) + Len(b)
        /\ \A k \in 1..Len(ah) : (ah \o b)[k] = ah[k]
    <3>1. /\ ah \o b \in Seq(H) /\ Len(ah \o b) = Len(ah) + Len(b)
          /\ \A x \in 1..(Len(ah) + Len(b)) :
               (ah \o b)[x] = IF x <= Len(ah) THEN ah[x] ELSE b[x - Len(ah)]
      BY <1>3, <1>5, ConcatProperties, Zenon
    <3>2. \A k \in 1..Len(ah) : k \in 1..(Len(ah) + Len(b)) /\ k <= Len(ah)
      BY <1>1, <1>3, <1>5
    <3> QED BY <3>1, <3>2
  <2>2. ASSUME NEW k \in 1..(Len(s) - n)
        PROVE  (ah \o b)[n + 1 + k] = b[k]
    <3>1. \A x \in 1..(Len(ah) + Len(b)) :
            (ah \o b)[x] = IF x <= Len(ah) THEN ah[x] ELSE b[x - Len(ah)]
      BY <1>3, <1>5
    <3>2. /\ n + 1 + k \in 1..(Len(ah) + Len(b)) /\ ~(n + 1 + k <= Len(ah))
          /\ n + 1 + k - Len(ah) = k
      BY <1>1, <1>3, <1>5
    <3> QED BY <3>1, <3>2
  <2> QED BY <1>3, <1>5, <2>1, <2>2
<1>7. Len(ah \o b) = Len(s) + 1
  BY <1>1, <1>6
<1>8. ASSUME NEW k \in 1..Len(s)+1, k > m
      PROVE  (ah \o b)[k] = s[k - 1]
  <2> DEFINE j == k - (n + 1)
  <2>1. j \in 1..(Len(s) - n) /\ n + 1 + j = k /\ n + j = k - 1
    BY <1>1, <1>8
  <2>2. (ah \o b)[n + 1 + j] = b[j] /\ b[j] = s[n + j]
    <3> HIDE DEF j
    <3> QED BY <1>3, <1>6, <2>1
  <2> QED BY <2>1, <2>2
<1>9. (ah \o b)[n + 1] = h
  BY <1>1, <1>5, <1>6
<1>10. \A k \in 1..n : (ah \o b)[k] = s[k]
  <2>1. \A k \in 1..n : k \in 1..n+1
    BY <1>1
  <2> QED BY <1>2, <1>5, <1>6, <2>1
<1> QED BY <1>4, <1>6, <1>7, <1>8, <1>9, <1>10

\* list holds the entries of p for the given IDs, in the order of the ranking.
Sorted(p, list, ids) ==
  /\ \A k \in DOMAIN list : \E f \in Firsts(p) : list[k] = MergedAt(p, f) /\ p[f].id \in ids
  /\ \A id \in ids : \E k \in DOMAIN list : list[k].id = id
  /\ \A j, k \in DOMAIN list, f, g \in Firsts(p) :
       list[j].id = p[f].id /\ list[k].id = p[g].id /\ j < k => Before(p, f, g)

\* The entry opened at f, wherever it stands in the list.
LEMMA SortedEntry ==
  ASSUME NEW I, NEW C, NEW E, NEW M, NEW T,
         NEW p \in Seq(Hyps(I, C, E, M, T)), NEW list, NEW ids, Sorted(p, list, ids),
         NEW k \in DOMAIN list, NEW f \in Firsts(p), list[k].id = p[f].id
  PROVE  list[k] = MergedAt(p, f)
<1>1. PICK g \in Firsts(p) : list[k] = MergedAt(p, g)
  BY DEF Sorted
<1>2. g \in DOMAIN p
  BY DEF Firsts
<1>3. list[k].id = p[g].id
  BY <1>1, <1>2, MergedAtType
<1>4. f = g
  BY <1>3, OneEntryPerID
<1> QED BY <1>1, <1>4

\* The insertion that sort.SliceStable amounts to puts an entry at its place: behind
\* those with at least its score, which all were emitted before it.
LEMMA InsertSorted ==
  ASSUME NEW I, NEW C, NEW E, NEW M, NEW T,
         NEW p \in Seq(Hyps(I, C, E, M, T)), NEW list \in Seq(Hyps(I, C, E, M, T)),
         NEW ids, Sorted(p, list, ids), NEW g \in Firsts(p),
         \A f \in Firsts(p) : p[f].id \in ids => f < g,
         NEW h, h = MergedAt(p, g),
         NEW pos, pos = Cardinality({k \in DOMAIN list : scoreOf(list[k]) >= scoreOf(h)})
  PROVE  /\ InsertAt(list, pos + 1, h) \in Seq(Hyps(I, C, E, M, T))
         /\ Len(InsertAt(list, pos + 1, h)) = Len(list) + 1
         /\ Sorted(p, InsertAt(list, pos + 1, h), ids \cup {p[g].id})
<1> DEFINE HH == Hyps(I, C, E, M, T)
           A == {k \in DOMAIN list : scoreOf(list[k]) >= scoreOf(h)}
           new == InsertAt(list, pos + 1, h)
           n == Len(list)
           D == 1..n
<1>1. n \in Nat /\ DOMAIN list = D
  OBVIOUS
<1>2. \A f \in Firsts(p) : /\ f \in DOMAIN p /\ f \in Int
                           /\ MergedAt(p, f) \in HH /\ MergedAt(p, f).id = p[f].id
                           /\ scoreOf(MergedAt(p, f)) \in Nat
  <2>1. \A f \in Firsts(p) : f \in DOMAIN p /\ f \in Int
    BY DEF Firsts
  <2> QED BY <2>1, MergedAtType
<1>3. \A k \in D : \E f \in Firsts(p) : /\ list[k] = MergedAt(p, f) /\ list[k].id = p[f].id
                                        /\ p[f].id \in ids
  BY <1>1, <1>2 DEF Sorted
<1>4. \A k \in D : scoreOf(list[k]) \in Nat
  BY <1>2, <1>3
<1>5. h \in HH /\ h.id = p[g].id /\ scoreOf(h) \in Nat
  BY <1>2
<1>6. \A j, k \in D : j < k => scoreOf(list[j]) >= scoreOf(list[k])
  <2>1. SUFFICES ASSUME NEW j \in D, NEW k \in D, j < k
                 PROVE  scoreOf(list[j]) >= scoreOf(list[k])
    OBVIOUS
  <2>2. PICK f \in Firsts(p) : list[j] = MergedAt(p, f) /\ list[j].id = p[f].id
    BY <1>3
  <2>3. PICK e \in Firsts(p) : list[k] = MergedAt(p, e) /\ list[k].id = p[e].id
    BY <1>3
  <2>4. Before(p, f, e)
    BY <1>1, <2>1, <2>2, <2>3 DEF Sorted
  <2> QED BY <1>4, <2>2, <2>3, <2>4 DEF Before
<1>7. pos \in 0..n /\ A = 1..pos
  <2>1. A \subseteq 1..n /\ \A j \in 1..n, k \in A : j <= k => j \in A
    <3>1. A \subseteq 1..n
      BY <1>1
    <3>2. SUFFICES ASSUME NEW j \in 1..n, NEW k \in A, j <= k
                   PROVE  j \in A
      BY <3>1
    <3>3. j = k \/ j < k
      BY <1>1, <3>1, <3>2
    <3>4. k \in D /\ scoreOf(list[k]) >= scoreOf(h)
      BY <1>1
    <3>5. j < k => scoreOf(list[j]) >= scoreOf(list[k])
      BY <1>6, <3>4
    <3>6. scoreOf(list[j]) \in Nat /\ scoreOf(list[k]) \in Nat /\ scoreOf(h) \in Nat
      BY <1>4, <1>5, <3>4
    <3>7. scoreOf(list[j]) >= scoreOf(h)
      BY <3>3, <3>4, <3>5, <3>6
    <3> QED BY <1>1, <3>7
  <2> HIDE DEF A
  <2>2. Cardinality(A) \in 0..n /\ A = 1..Cardinality(A)
    BY <1>1, <2>1, DownwardClosed
  <2>3. pos = Cardinality(A)
    BY DEF A
  <2> QED BY <2>2, <2>3
<1>8. /\ new \in Seq(HH) /\ Len(new) = n + 1
      /\ \A k \in 1..pos : new[k] = list[k]
      /\ new[pos + 1] = h
      /\ \A k \in 1..n+1 : k > pos + 1 => new[k] = list[k - 1]
  <2> HIDE DEF HH
  <2>1. list \in Seq(HH) /\ h \in HH /\ pos \in 0..Len(list)
    BY <1>5, <1>7 DEF HH
  <2> HIDE DEF new, n
  <2>2. ASSUME NEW m, m = pos + 1
        PROVE  /\ InsertAt(list, m, h) \in Seq(HH)
               /\ Len(InsertAt(list, m, h)) = Len(list) + 1
               /\ \A k \in 1..pos : InsertAt(list, m, h)[k] = list[k]
               /\ InsertAt(list, m, h)[m] = h
               /\ \A k \in 1..Len(list)+1 : k > m => InsertAt(list, m, h)[k] = list[k - 1]
    <3>1. InsertAt(list, m, h) \in Seq(HH)
      BY <2>1, <2>2, InsertAtPositions, SMT
    <3>2. Len(InsertAt(list, m, h)) = Len(list) + 1
      BY <2>1, <2>2, InsertAtPositions, SMT
    <3>3. \A k \in 1..pos : InsertAt(list, m, h)[k] = list[k]
      BY <2>1, <2>2, InsertAtPositions, SMT
    <3>4. InsertAt(list, m, h)[m] = h
      BY <2>1, <2>2, InsertAtPositions, SMT
    <3>5. \A k \in 1..Len(list)+1 : k > m => InsertAt(list, m, h)[k] = list[k - 1]
      BY <2>1, <2>2, InsertAtPositions, SMT
    <3> QED BY <3>1, <3>2, <3>3, <3>4, <3>5
  <2> QED BY <2>2 DEF new, n
<1>9. DOMAIN new = 1..(n + 1)
  BY <1>8
<1> DEFINE old(m) == IF m <= pos THEN m ELSE m - 1
<1> HIDE DEF new, A
<1>10. \A m \in 1..(n + 1) : m # pos + 1 =>
         /\ old(m) \in D /\ new[m] = list[old(m)]
         /\ old(m) <= pos <=> m < pos + 1
  <2>1. SUFFICES ASSUME NEW m \in 1..(n + 1), m # pos + 1
                 PROVE  /\ old(m) \in D /\ new[m] = list[old(m)]
                        /\ old(m) <= pos <=> m < pos + 1
    OBVIOUS
  <2>2. CASE m <= pos
    <3>1. m \in 1..pos /\ m \in D /\ m < pos + 1
      BY <1>1, <1>7, <2>2
    <3> QED BY <1>8, <2>2, <3>1
  <2>3. CASE ~(m <= pos)
    <3>1. m > pos + 1 /\ m - 1 \in D /\ ~(m - 1 <= pos) /\ ~(m < pos + 1)
      BY <1>1, <1>7, <2>1, <2>3
    <3>3. new[m] = list[m - 1]
      BY <1>8, <3>1
    <3> QED BY <2>3, <3>1, <3>3
  <2> QED BY <2>2, <2>3
<1>11. \A l, m \in 1..(n + 1) : l < m /\ l # pos + 1 /\ m # pos + 1 => old(l) < old(m)
  BY <1>1, <1>7
<1>12. \A m \in D : \E l \in 1..(n + 1) : new[l] = list[m]
  <2>1. SUFFICES ASSUME NEW m \in D
                 PROVE  \E l \in 1..(n + 1) : new[l] = list[m]
    OBVIOUS
  <2>2. CASE m <= pos
    <3>1. m \in 1..pos /\ m \in 1..(n + 1)
      BY <1>1, <1>7, <2>2
    <3> QED BY <1>8, <3>1
  <2>3. CASE ~(m <= pos)
    <3>1. m + 1 \in 1..(n + 1) /\ m + 1 > pos + 1 /\ m + 1 - 1 = m
      BY <1>1, <1>7, <2>3
    <3>2. new[m + 1] = list[m + 1 - 1]
      BY <1>8, <3>1
    <3> QED BY <3>1, <3>2
  <2> QED BY <2>2, <2>3
<1> HIDE DEF old, D
<1>13. pos + 1 \in 1..(n + 1) /\ pos \in Int
  BY <1>1, <1>7
<1>14. ASSUME NEW k \in DOMAIN new
       PROVE  \E f \in Firsts(p) : new[k] = MergedAt(p, f) /\ p[f].id \in ids \cup {p[g].id}
  <2>1. CASE k = pos + 1
    BY <1>8, <2>1
  <2>2. CASE k # pos + 1
    BY <1>3, <1>9, <1>10, <2>2
  <2> QED BY <2>1, <2>2
<1>15. ASSUME NEW id \in ids \cup {p[g].id}
       PROVE  \E k \in DOMAIN new : new[k].id = id
  <2>1. CASE id = p[g].id
    BY <1>5, <1>8, <1>9, <1>13, <2>1
  <2>2. CASE id \in ids
    <3>1. PICK m \in D : list[m].id = id
      BY <1>1, <2>2 DEF Sorted
    <3> QED BY <1>9, <1>12, <3>1
  <2> QED BY <2>1, <2>2
<1>16. ASSUME NEW j \in DOMAIN new, NEW k \in DOMAIN new, NEW f \in Firsts(p),
              NEW e \in Firsts(p), new[j].id = p[f].id, new[k].id = p[e].id, j < k
       PROVE  Before(p, f, e)
  <2>1. j \in Int /\ k \in Int
    BY <1>9
  <2>2. CASE j # pos + 1 /\ k # pos + 1
    <3>1. /\ old(j) \in D /\ old(k) \in D /\ old(j) < old(k)
          /\ list[old(j)].id = p[f].id /\ list[old(k)].id = p[e].id
      BY <1>9, <1>10, <1>11, <1>16, <2>2
    <3> QED BY <1>1, <3>1 DEF Sorted
  <2>3. CASE k = pos + 1
    <3>1. j # pos + 1 /\ j < pos + 1
      BY <1>16, <2>1, <2>3
    <3>2. /\ old(j) \in D /\ old(j) <= pos /\ list[old(j)].id = p[f].id
      BY <1>9, <1>10, <1>16, <3>1
    <3>3. e = g
      BY <1>5, <1>8, <1>16, <2>3, OneEntryPerID
    <3>4. list[old(j)] = MergedAt(p, f)
      BY <1>1, <3>2, SortedEntry
    <3>5. old(j) \in A
      BY <1>1, <1>7, <3>2 DEF D
    <3>6. scoreOf(MergedAt(p, f)) >= scoreOf(MergedAt(p, g))
      BY <3>4, <3>5 DEF A
    <3>7. f < g
      <4>1. PICK x \in Firsts(p) : list[old(j)].id = p[x].id /\ p[x].id \in ids
        BY <1>3, <3>2
      <4> QED BY <3>2, <4>1
    <3> QED BY <1>2, <3>3, <3>6, <3>7 DEF Before
  <2>4. CASE j = pos + 1
    <3>1. k # pos + 1 /\ ~(k < pos + 1)
      BY <1>13, <1>16, <2>1, <2>4
    <3>2. /\ old(k) \in D /\ ~(old(k) <= pos) /\ list[old(k)].id = p[e].id
      BY <1>9, <1>10, <1>16, <3>1
    <3>3. f = g
      BY <1>5, <1>8, <1>16, <2>4, OneEntryPerID
    <3>4. list[old(k)] = MergedAt(p, e)
      BY <1>1, <3>2, SortedEntry
    <3>5. old(k) \notin A
      BY <1>7, <3>2
    <3>6. ~(scoreOf(MergedAt(p, e)) >= scoreOf(MergedAt(p, g)))
      BY <1>1, <3>2, <3>4, <3>5 DEF A
    <3> QED BY <1>2, <3>3, <3>6 DEF Before
  <2> QED BY <2>2, <2>3, <2>4
<1>17. Sorted(p, new, ids \cup {p[g].id})
  BY <1>14, <1>15, <1>16 DEF Sorted
<1> QED BY <1>8, <1>17 DEF new

\* A one-to-one numbering of a set counts it.
LEMMA CountByNumbering ==
  ASSUME NEW n \in Nat, NEW at, NEW S,
         \A k \in 1..n : at[k] \in S,
         \A j, k \in 1..n : at[j] = at[k] => j = k,
         \A x \in S : \E k \in 1..n : at[k] = x
  PROVE  Cardinality(S) = n
<1> DEFINE b == [k \in 1..n |-> at[k]]
           D == 1..n
<1>1. IsFiniteSet(D) /\ Cardinality(D) = n
  BY FS_Interval
<1>2. b \in [D -> S] /\ \A k \in D : b[k] = at[k]
  OBVIOUS
<1>3. (\A j, k \in D : at[j] = at[k] => j = k) /\ (\A x \in S : \E k \in D : at[k] = x)
  OBVIOUS
<1> HIDE DEF b, D
<1>4. \A x \in S : \E k \in D : b[k] = x
  BY <1>2, <1>3
<1>5. b \in Injection(D, S)
  BY <1>2, <1>3, Fun_IsInj
<1>6. b \in Surjection(D, S)
  BY <1>2, <1>4, Fun_IsSurj
<1>7. ExistsBijection(D, S)
  BY <1>5, <1>6, Fun_IsBij DEF ExistsBijection
<1> QED BY <1>1, <1>7, FS_Bijection

\* A sorted list of all the entries is the ranking.
LEMMA SortedIsRanked ==
  ASSUME NEW I, NEW C, NEW E, NEW M, NEW T,
         NEW p \in Seq(Hyps(I, C, E, M, T)), NEW list \in Seq(Hyps(I, C, E, M, T)),
         Sorted(p, list, {p[f].id : f \in Firsts(p)})
  PROVE  list = Ranked(p)
<1> DEFINE n == Len(list)
           D == 1..n
           F == Firsts(p)
           ids == {p[f].id : f \in F}
           at == [k \in D |-> CHOOSE f \in F : list[k].id = p[f].id]
<1>1. n \in Nat /\ DOMAIN list = D
  OBVIOUS
<1>2. \A f \in F : f \in DOMAIN p /\ f \in Int /\ MergedAt(p, f).id = p[f].id
                   /\ scoreOf(MergedAt(p, f)) \in Nat
  <2>1. \A f \in F : f \in DOMAIN p /\ f \in Int
    BY DEF Firsts
  <2> QED BY <2>1, MergedAtType
<1>3. \A k \in D : \E f \in F : list[k].id = p[f].id
  <2> HIDE DEF D
  <2>1. \A k \in D : \E f \in F : list[k] = MergedAt(p, f)
    BY <1>1 DEF Sorted
  <2> QED BY <1>2, <2>1
<1>4. \A k \in D : at[k] \in F /\ list[k].id = p[at[k]].id /\ list[k] = MergedAt(p, at[k])
  <2>1. \A k \in D : at[k] \in F /\ list[k].id = p[at[k]].id
    BY <1>3
  <2> HIDE DEF at, D
  <2> QED BY <1>1, <2>1, SortedEntry
<1> HIDE DEF at
<1>5. \A j, k \in D : j < k => Before(p, at[j], at[k])
  <2> HIDE DEF D
  <2> QED BY <1>1, <1>4 DEF Sorted
<1>6. \A f \in F : \E k \in D : at[k] = f
  <2> HIDE DEF D
  <2>1. SUFFICES ASSUME NEW f \in F
                 PROVE  \E k \in D : at[k] = f
    OBVIOUS
  <2>2. PICK k \in D : list[k].id = p[f].id
    BY <1>1 DEF Sorted
  <2>3. at[k] = f
    BY <1>4, <2>2, OneEntryPerID
  <2> QED BY <2>3
<1>7. \A f, g \in F : Before(p, f, g) => ~Before(p, g, f) /\ f # g
  BY <1>2 DEF Before
<1>8. \A j, k \in D : at[j] = at[k] => j = k
  <2>1. \A j, k \in D : j # k => j < k \/ k < j
    BY <1>1
  <2> HIDE DEF D, F
  <2>2. SUFFICES ASSUME NEW j \in D, NEW k \in D, at[j] = at[k], j # k
                 PROVE  FALSE
    OBVIOUS
  <2>3. Before(p, at[j], at[k]) \/ Before(p, at[k], at[j])
    BY <1>5, <2>1, <2>2
  <2>4. at[j] \in F /\ at[k] \in F
    BY <1>4
  <2> QED BY <1>7, <2>2, <2>3, <2>4
<1>9. Cardinality(F) = n
  <2> HIDE DEF F
  <2> QED BY <1>1, <1>4, <1>6, <1>8, CountByNumbering
<1>10. ASSUME NEW k \in D
       PROVE  Rank(p, at[k]) = k
  <2> DEFINE S == {g \in F : Before(p, g, at[k])}
  <2>1. k - 1 \in Nat /\ \A j \in 1..(k - 1) : j \in D /\ j < k
    BY <1>1
  <2>2. \A j \in 1..(k - 1) : at[j] \in S
    BY <1>4, <1>5, <2>1
  <2>3. \A j, l \in 1..(k - 1) : at[j] = at[l] => j = l
    BY <1>8, <2>1
  <2>4. ASSUME NEW g \in S
        PROVE  \E j \in 1..(k - 1) : at[j] = g
    <3>1. PICK j \in D : at[j] = g
      BY <1>6
    <3>2. ~(k < j) /\ j # k
      BY <1>4, <1>5, <1>7, <3>1
    <3>3. j \in 1..(k - 1)
      BY <1>1, <3>2
    <3> QED BY <3>1, <3>3
  <2> HIDE DEF S
  <2>5. Cardinality(S) = k - 1
    BY <2>1, <2>2, <2>3, <2>4, CountByNumbering
  <2>6. Rank(p, at[k]) = Cardinality(S) + 1
    BY DEF Rank, S
  <2> QED BY <1>1, <2>5, <2>6
<1>11. \A k \in D : EntryAt(p, k) = at[k]
  <2>1. \A f, g \in F : Rank(p, f) = Rank(p, g) => f = g
    BY RanksArePlaces
  <2> HIDE DEF D, F
  <2>2. \A k \in D : \A f \in F : Rank(p, f) = k => f = at[k]
    BY <1>4, <1>10, <2>1
  <2> QED BY <1>4, <1>10, <2>2 DEF EntryAt, F
<1>12. Ranked(p) = [k \in D |-> MergedAt(p, EntryAt(p, k))]
  BY <1>9 DEF Ranked
<1>13. list = [k \in D |-> list[k]]
  OBVIOUS
<1> HIDE DEF D
<1> QED BY <1>4, <1>11, <1>12, <1>13

-------------------------------------------------------------------------------
(* The inductive invariant. *)

\* What the first loop has read so far.
Read == IF pc = "merge" THEN SubSeq(hs, 1, i - 1) ELSE hs

TInv(H, I) ==
  /\ hs \in Seq(H)
  /\ pc \in {"merge", "sort", "rule", "done"}
  /\ i \in Nat \ {0}
  /\ order \in Seq(I)
  /\ (pc = "merge" => i <= Len(hs) + 1 /\ out = <<>>)
  /\ (pc = "sort" => i <= Len(order) + 1 /\ out \in Seq(H))

\* byID holds the entries of p.
Collected(p) ==
  /\ DOMAIN byID = {p[f].id : f \in Firsts(p)}
  /\ \A f \in Firsts(p) : byID[p[f].id] = MergedAt(p, f)

\* order holds the IDs of the entries of p, in the order of first emission.
Opened(p) ==
  /\ \A k \in DOMAIN order : \E f \in Firsts(p) : order[k] = p[f].id
  /\ \A f \in Firsts(p) : \E k \in DOMAIN order : order[k] = p[f].id
  /\ \A f, g \in Firsts(p), j, k \in DOMAIN order :
       order[j] = p[f].id /\ order[k] = p[g].id => (j < k <=> f < g)

\* The first i - 1 entries of the ranking have their status.
Ruled ==
  /\ i <= Len(Ranked(hs)) + 1
  /\ out = [k \in DOMAIN Ranked(hs) |-> IF k < i THEN Merge(hs)[k] ELSE Ranked(hs)[k]]

LInv ==
  /\ Collected(Read)
  /\ Opened(Read)
  /\ (pc = "sort" => Sorted(hs, out, {order[j] : j \in 1..(i - 1)}))
  /\ (pc = "rule" => Ruled)
  /\ LoopComputesMerge

IInv(H, I) == TInv(H, I) /\ LInv

LEMMA PrefixStep ==
  ASSUME NEW H, NEW s \in Seq(H), NEW n \in 1..Len(s)
  PROVE  /\ SubSeq(s, 1, n - 1) \in Seq(H) /\ Len(SubSeq(s, 1, n - 1)) = n - 1
         /\ s[n] \in H
         /\ SubSeq(s, 1, n) = Append(SubSeq(s, 1, n - 1), s[n])
<1>1. n \in Nat /\ n - 1 \in Nat /\ n <= Len(s) /\ Len(s) \in Nat /\ n - 1 + 1 = n
  OBVIOUS
<1>2. s[n] \in H
  OBVIOUS
<1> DEFINE p == SubSeq(s, 1, n - 1)
<1>3. p = [k \in 1..(n - 1) |-> s[k]]
  OBVIOUS
<1>4. p \in Seq(H) /\ Len(p) = n - 1
  OBVIOUS
<1>5. SubSeq(s, 1, n) = [k \in 1..n |-> s[k]]
  OBVIOUS
<1> HIDE DEF p
<1>6. Append(p, s[n]) \in Seq(H) /\ Len(Append(p, s[n])) = n
  BY <1>1, <1>2, <1>4
<1>7. \A k \in 1..n : Append(p, s[n])[k] = s[k]
  <2>1. SUFFICES ASSUME NEW k \in 1..n
                 PROVE  Append(p, s[n])[k] = s[k]
    OBVIOUS
  <2>2. CASE k = n
    BY <1>1, <1>2, <1>4, <2>2
  <2>3. CASE k # n
    <3>1. k \in 1..(n - 1)
      BY <1>1, <2>3
    <3> QED BY <1>2, <1>3, <1>4, <3>1
  <2> QED BY <2>2, <2>3
<1>8. Append(p, s[n]) = [k \in 1..n |-> Append(p, s[n])[k]]
  BY <1>6
<1>9. Append(p, s[n]) = SubSeq(s, 1, n)
  BY <1>5, <1>7, <1>8
<1> QED BY <1>2, <1>4, <1>9 DEF p

\* The ranking is a list of hypotheses, and Merge is the ranking with the statuses.
LEMMA RankedType ==
  ASSUME NEW I, NEW C, NEW E, NEW M, NEW T, NEW p \in Seq(Hyps(I, C, E, M, T))
  PROVE  /\ Ranked(p) \in Seq(Hyps(I, C, E, M, T))
         /\ DOMAIN Ranked(p) = 1..Len(Ranked(p)) /\ Len(Ranked(p)) \in Nat
         /\ DOMAIN Merge(p) = DOMAIN Ranked(p)
         /\ \A k \in DOMAIN Ranked(p) :
              Merge(p)[k] = [Ranked(p)[k] EXCEPT !.status = StatusAt(Ranked(p), k)]
         /\ Merge(p) = [k \in DOMAIN Ranked(p) |-> Merge(p)[k]]
<1> DEFINE n == Cardinality(Firsts(p))
           HH == Hyps(I, C, E, M, T)
<1>1. n \in Nat
  BY RanksArePlaces
<1>2. \A k \in 1..n : EntryAt(p, k) \in DOMAIN p
  <2>1. DOMAIN Merge(p) = 1..n /\ \A k \in DOMAIN Merge(p) : EntryAt(p, k) \in Firsts(p)
    BY MergeEntries
  <2> QED BY <2>1 DEF Firsts
<1>3. \A k \in 1..n : MergedAt(p, EntryAt(p, k)) \in HH
  BY <1>2, MergedAtType
<1>4. Ranked(p) = [k \in 1..n |-> MergedAt(p, EntryAt(p, k))]
  BY DEF Ranked
<1> HIDE DEF n, HH
<1>5. Ranked(p) \in Seq(HH) /\ Len(Ranked(p)) = n /\ DOMAIN Ranked(p) = 1..n
  BY <1>1, <1>3, <1>4
<1>6. /\ DOMAIN Merge(p) = DOMAIN Ranked(p)
      /\ \A k \in DOMAIN Ranked(p) :
           Merge(p)[k] = [Ranked(p)[k] EXCEPT !.status = StatusAt(Ranked(p), k)]
      /\ Merge(p) = [k \in DOMAIN Ranked(p) |-> Merge(p)[k]]
  BY DEF Merge
<1> QED BY <1>1, <1>5, <1>6 DEF HH

LEMMA InitOK ==
  ASSUME NEW I, NEW C, NEW E, NEW M, NEW T,
         Inputs \subseteq Seq(Hyps(I, C, E, M, T))
  PROVE  Init => IInv(Hyps(I, C, E, M, T), I)
<1> SUFFICES ASSUME Init
             PROVE  IInv(Hyps(I, C, E, M, T), I)
  OBVIOUS
<1>1. TInv(Hyps(I, C, E, M, T), I)
  BY DEF Init, TInv
<1>2. Read = <<>>
  BY <1>1 DEF Init, Read, TInv
<1>3. Firsts(<<>>) = {}
  BY DEF Firsts
<1>4. Collected(<<>>) /\ Opened(<<>>)
  BY <1>3 DEF Init, Collected, Opened
<1> QED BY <1>1, <1>2, <1>4 DEF Init, IInv, LInv, LoopComputesMerge

\* What one round of the first loop reads.
LEMMA ReadStep ==
  ASSUME NEW H, NEW I, TInv(H, I), pc = "merge", i <= Len(hs)
  PROVE  /\ Read \in Seq(H) /\ Len(Read) + 1 = i /\ hs[i] \in H
         /\ SubSeq(hs, 1, i) = Append(Read, hs[i])
<1>1. hs \in Seq(H) /\ i \in 1..Len(hs)
  BY DEF TInv
<1>2. Read = SubSeq(hs, 1, i - 1)
  BY DEF Read
<1>3. /\ SubSeq(hs, 1, i - 1) \in Seq(H) /\ Len(SubSeq(hs, 1, i - 1)) = i - 1
      /\ hs[i] \in H
      /\ SubSeq(hs, 1, i) = Append(SubSeq(hs, 1, i - 1), hs[i])
  BY <1>1, PrefixStep
<1>4. i - 1 + 1 = i
  BY <1>1
<1> QED BY <1>2, <1>3, <1>4

LEMMA ReadNext ==
  ASSUME NEW H, NEW I, TInv(H, I), pc = "merge", i <= Len(hs),
         i' = i + 1, UNCHANGED <<hs, pc, out>>, order' \in Seq(I)
  PROVE  TInv(H, I)' /\ Read' = SubSeq(hs, 1, i)
<1>1. i + 1 - 1 = i /\ i + 1 \in Nat \ {0} /\ i + 1 <= Len(hs) + 1
  BY DEF TInv
<1>2. TInv(H, I)'
  BY <1>1 DEF TInv
<1>3. i' - 1 = i
  BY DEF TInv
<1>4. Read' = SubSeq(hs, 1, i' - 1)
  BY DEF Read
<1> QED BY <1>2, <1>3, <1>4

\* An emission without an ID changes nothing.
LEMMA SkipOK ==
  ASSUME NEW I, NEW C, NEW E, NEW M, NEW T, IInv(Hyps(I, C, E, M, T), I), SkipEmptyID
  PROVE  IInv(Hyps(I, C, E, M, T), I)'
<1> DEFINE HH == Hyps(I, C, E, M, T)
           p == Read
           h == hs[i]
           q == Append(p, h)
<1>1. /\ TInv(HH, I) /\ pc = "merge" /\ i <= Len(hs) /\ h.id = NoID
      /\ i' = i + 1 /\ UNCHANGED <<hs, pc, byID, order, out>>
  BY DEF IInv, SkipEmptyID
<1>2. p \in Seq(HH) /\ h \in HH /\ SubSeq(hs, 1, i) = q
  BY <1>1, ReadStep
<1>3. TInv(HH, I)' /\ Read' = q
  <2>1. order' \in Seq(I)
    BY <1>1 DEF TInv
  <2>2. TInv(HH, I)' /\ Read' = SubSeq(hs, 1, i)
    BY <1>1, <2>1, ReadNext
  <2> QED BY <1>2, <2>2
<1>4. Collected(p) /\ Opened(p)
  BY DEF IInv, LInv
<1> HIDE DEF p, h
<1>5. Firsts(q) = Firsts(p)
  <2>1. Firsts(q) = Firsts(p) \cup (IF h.id # NoID /\ \A f \in Firsts(p) : p[f].id # h.id
                                    THEN {Len(p) + 1} ELSE {})
    BY <1>2, AppendFirsts
  <2> HIDE DEF q
  <2> QED BY <1>1, <2>1
<1>6. \A f \in Firsts(p) : f \in DOMAIN p /\ p[f].id # NoID
  BY DEF Firsts
<1>7. \A f \in Firsts(p) : q[f] = p[f] /\ MergedAt(q, f) = MergedAt(p, f)
  BY <1>1, <1>2, <1>6, AppendOther, AppendPositions
<1> HIDE DEF q
<1>8. {p[f].id : f \in Firsts(p)} = {q[f].id : f \in Firsts(q)}
  BY <1>5, <1>7
<1>9. Collected(Read)'
  BY <1>1, <1>3, <1>4, <1>5, <1>7, <1>8 DEF Collected
<1>10. Opened(Read)'
  BY <1>1, <1>3, <1>4, <1>5, <1>7 DEF Opened
<1> QED BY <1>1, <1>3, <1>9, <1>10 DEF IInv, LInv, LoopComputesMerge

\* An emission of an ID that has an entry is absorbed by it.
LEMMA AbsorbOK ==
  ASSUME NEW I, NEW C, NEW E, NEW M, NEW T, IInv(Hyps(I, C, E, M, T), I), Absorb
  PROVE  IInv(Hyps(I, C, E, M, T), I)'
<1> DEFINE HH == Hyps(I, C, E, M, T)
           p == Read
           h == hs[i]
           q == Append(p, h)
<1>1. /\ TInv(HH, I) /\ pc = "merge" /\ i <= Len(hs) /\ h.id \in DOMAIN byID
      /\ byID' = [byID EXCEPT ![h.id] = Absorbed(byID[h.id], h)]
      /\ i' = i + 1 /\ UNCHANGED <<hs, pc, order, out>>
  BY DEF IInv, Absorb, Absorbed
<1>2. p \in Seq(HH) /\ h \in HH /\ SubSeq(hs, 1, i) = q
  BY <1>1, ReadStep
<1>3. TInv(HH, I)' /\ Read' = q
  <2>1. order' \in Seq(I)
    BY <1>1 DEF TInv
  <2>2. TInv(HH, I)' /\ Read' = SubSeq(hs, 1, i)
    BY <1>1, <2>1, ReadNext
  <2> QED BY <1>2, <2>2
<1>4. Collected(p) /\ Opened(p)
  BY DEF IInv, LInv
<1> HIDE DEF p, h
<1>5. PICK g \in Firsts(p) : p[g].id = h.id
  BY <1>1, <1>4 DEF Collected
<1>6. Firsts(q) = Firsts(p)
  <2>1. Firsts(q) = Firsts(p) \cup (IF h.id # NoID /\ \A f \in Firsts(p) : p[f].id # h.id
                                    THEN {Len(p) + 1} ELSE {})
    BY <1>2, AppendFirsts
  <2> HIDE DEF q
  <2> QED BY <1>5, <2>1
<1>7. \A f \in Firsts(p) : f \in DOMAIN p
  BY DEF Firsts
<1>8. \A f \in Firsts(p) : q[f] = p[f]
  BY <1>2, <1>7, AppendPositions
<1>9. \A f \in Firsts(p) : p[f].id # h.id => MergedAt(q, f) = MergedAt(p, f)
  BY <1>2, <1>7, AppendOther
<1>10. \A f \in Firsts(p) : p[f].id = h.id => MergedAt(q, f) = Absorbed(MergedAt(p, f), h)
  BY <1>2, <1>7, AppendSame
<1> HIDE DEF q
<1>11. {p[f].id : f \in Firsts(p)} = {q[f].id : f \in Firsts(q)}
  BY <1>6, <1>8
<1>12. DOMAIN byID' = {q[f].id : f \in Firsts(q)}
  <2>1. DOMAIN byID' = DOMAIN byID
    BY <1>1
  <2> QED BY <1>4, <1>11, <2>1 DEF Collected
<1>13. \A f \in Firsts(p) : byID'[p[f].id] = MergedAt(q, f)
  <2>1. SUFFICES ASSUME NEW f \in Firsts(p)
                 PROVE  byID'[p[f].id] = MergedAt(q, f)
    OBVIOUS
  <2>2. p[f].id \in DOMAIN byID /\ byID[p[f].id] = MergedAt(p, f)
    BY <1>4 DEF Collected
  <2>3. CASE p[f].id = h.id
    BY <1>1, <1>10, <2>2, <2>3
  <2>4. CASE p[f].id # h.id
    BY <1>1, <1>9, <2>2, <2>4
  <2> QED BY <2>3, <2>4
<1>14. Collected(Read)'
  <2>1. \A f \in Firsts(q) : byID'[q[f].id] = MergedAt(q, f)
    BY <1>6, <1>8, <1>13
  <2> QED BY <1>3, <1>12, <2>1 DEF Collected
<1>15. Opened(Read)'
  <2>1. order' = order /\ Read' = q
    BY <1>1, <1>3
  <2>2. \A f \in Firsts(q) : q[f].id = p[f].id
    BY <1>6, <1>8
  <2>3. /\ \A k \in DOMAIN order : \E f \in Firsts(q) : order[k] = q[f].id
        /\ \A f \in Firsts(q) : \E k \in DOMAIN order : order[k] = q[f].id
    BY <1>4, <1>6, <2>2 DEF Opened
  <2>4. \A f, e \in Firsts(q), j, k \in DOMAIN order :
          order[j] = q[f].id /\ order[k] = q[e].id => (j < k <=> f < e)
    <3>1. SUFFICES ASSUME NEW f \in Firsts(q), NEW e \in Firsts(q),
                          NEW j \in DOMAIN order, NEW k \in DOMAIN order,
                          order[j] = q[f].id, order[k] = q[e].id
                   PROVE  j < k <=> f < e
      OBVIOUS
    <3>2. f \in Firsts(p) /\ e \in Firsts(p) /\ order[j] = p[f].id /\ order[k] = p[e].id
      BY <1>6, <2>2, <3>1
    <3> QED BY <1>4, <3>2 DEF Opened
  <2> QED BY <2>1, <2>3, <2>4 DEF Opened
<1> QED BY <1>1, <1>3, <1>14, <1>15 DEF IInv, LInv, LoopComputesMerge

\* The first emission of an ID opens an entry, behind the others.
LEMMA AdmitOK ==
  ASSUME NEW I, NEW C, NEW E, NEW M, NEW T, IInv(Hyps(I, C, E, M, T), I), Admit
  PROVE  IInv(Hyps(I, C, E, M, T), I)'
<1> DEFINE HH == Hyps(I, C, E, M, T)
           p == Read
           h == hs[i]
           q == Append(p, h)
           n == Len(p) + 1
<1>1. /\ TInv(HH, I) /\ pc = "merge" /\ i <= Len(hs)
      /\ h.id # NoID /\ h.id \notin DOMAIN byID
      /\ byID' = [id \in DOMAIN byID \cup {h.id} |-> IF id = h.id THEN h ELSE byID[id]]
      /\ order' = Append(order, h.id)
      /\ i' = i + 1 /\ UNCHANGED <<hs, pc, out>>
  BY DEF IInv, Admit
<1>2. p \in Seq(HH) /\ h \in HH /\ SubSeq(hs, 1, i) = q
  BY <1>1, ReadStep
<1>3. order \in Seq(I) /\ h.id \in I
  BY <1>1, <1>2 DEF TInv, Hyps
<1>4. TInv(HH, I)' /\ Read' = q
  <2>1. order' \in Seq(I)
    BY <1>1, <1>3
  <2>2. TInv(HH, I)' /\ Read' = SubSeq(hs, 1, i)
    BY <1>1, <2>1, ReadNext
  <2> QED BY <1>2, <2>2
<1>5. Collected(p) /\ Opened(p)
  BY DEF IInv, LInv
<1> HIDE DEF p, h
<1>6. \A f \in Firsts(p) : p[f].id # h.id
  BY <1>1, <1>5 DEF Collected
<1>7. Firsts(q) = Firsts(p) \cup {n}
  <2>1. Firsts(q) = Firsts(p) \cup (IF h.id # NoID /\ \A f \in Firsts(p) : p[f].id # h.id
                                    THEN {n} ELSE {})
    BY <1>2, AppendFirsts
  <2> HIDE DEF q, n
  <2> QED BY <1>1, <1>6, <2>1
<1>8. /\ \A f \in Firsts(p) : f \in DOMAIN p /\ q[f] = p[f] /\ f < n /\ f \in Int
      /\ q[n] = h /\ n \in Int
  <2>1. \A f \in Firsts(p) : f \in DOMAIN p
    BY DEF Firsts
  <2>2. /\ \A j \in DOMAIN p : q[j] = p[j] /\ j \in Nat \ {0} /\ j < n
        /\ q[n] = h /\ Len(p) \in Nat
    BY <1>2, AppendPositions
  <2> QED BY <2>1, <2>2
<1>9. \A f \in Firsts(p) : MergedAt(q, f) = MergedAt(p, f)
  BY <1>2, <1>6, <1>8, AppendOther
<1>10. MergedAt(q, n) = h
  <2>1. ASSUME NEW j \in DOMAIN p, p[j].id = h.id
        PROVE  FALSE
    BY <1>1, <1>2, <1>6, <2>1, EntryOfID
  <2> QED BY <1>2, <2>1, AppendNew
<1> HIDE DEF q, n
<1>11. DOMAIN byID' = {q[f].id : f \in Firsts(q)}
  <2>1. DOMAIN byID' = DOMAIN byID \cup {h.id}
    BY <1>1
  <2>2. DOMAIN byID = {p[f].id : f \in Firsts(p)}
    BY <1>5 DEF Collected
  <2> QED BY <1>7, <1>8, <2>1, <2>2
<1>12. ASSUME NEW f \in Firsts(q)
       PROVE  byID'[q[f].id] = MergedAt(q, f)
  <2>1. CASE f = n
    BY <1>1, <1>8, <1>10, <2>1
  <2>2. CASE f \in Firsts(p)
    <3>1. /\ p[f].id \in DOMAIN byID /\ byID[p[f].id] = MergedAt(p, f)
          /\ p[f].id # h.id /\ q[f] = p[f]
      BY <1>5, <1>6, <1>8, <2>2 DEF Collected
    <3> QED BY <1>1, <1>9, <2>2, <3>1
  <2> QED BY <1>7, <2>1, <2>2
<1>13. Collected(Read)'
  BY <1>4, <1>11, <1>12 DEF Collected
<1> DEFINE m == Len(order) + 1
<1>14. /\ DOMAIN order' = DOMAIN order \cup {m} /\ order'[m] = h.id
       /\ \A k \in DOMAIN order : order'[k] = order[k] /\ k < m /\ k \in Int
       /\ m \in Int
  <2>1. /\ DOMAIN Append(order, h.id) = DOMAIN order \cup {m}
        /\ Append(order, h.id)[m] = h.id /\ Len(order) \in Nat
        /\ \A k \in DOMAIN order : /\ Append(order, h.id)[k] = order[k]
                                   /\ k \in Nat \ {0} /\ k < m
    BY <1>3, AppendPositions
  <2> HIDE DEF m
  <2>2. m \in Int
    BY <2>1 DEF m
  <2> QED BY <1>1, <2>1, <2>2
<1> HIDE DEF m
<1>15. ASSUME NEW k \in DOMAIN order'
       PROVE  \E f \in Firsts(q) : order'[k] = q[f].id
  <2>1. CASE k = m
    BY <1>7, <1>8, <1>14, <2>1
  <2>2. CASE k \in DOMAIN order
    <3>1. PICK f \in Firsts(p) : order[k] = p[f].id
      BY <1>5, <2>2 DEF Opened
    <3> QED BY <1>7, <1>8, <1>14, <2>2, <3>1
  <2> QED BY <1>14, <2>1, <2>2
<1>16. ASSUME NEW f \in Firsts(q)
       PROVE  \E k \in DOMAIN order' : order'[k] = q[f].id
  <2>1. CASE f = n
    BY <1>8, <1>14, <2>1
  <2>2. CASE f \in Firsts(p)
    <3>1. PICK k \in DOMAIN order : order[k] = p[f].id
      BY <1>5, <2>2 DEF Opened
    <3> QED BY <1>8, <1>14, <2>2, <3>1
  <2> QED BY <1>7, <2>1, <2>2
<1>17. ASSUME NEW k \in DOMAIN order', NEW f \in Firsts(q), order'[k] = q[f].id
       PROVE  \/ k = m /\ f = n
              \/ k \in DOMAIN order /\ f \in Firsts(p) /\ order[k] = p[f].id
  <2>1. CASE k = m
    <3>1. q[f].id = h.id
      BY <1>14, <1>17, <2>1
    <3> QED BY <1>6, <1>7, <1>8, <2>1, <3>1
  <2>2. CASE k \in DOMAIN order
    <3>1. PICK g \in Firsts(p) : order[k] = p[g].id
      BY <1>5, <2>2 DEF Opened
    <3>2. q[f].id # h.id
      BY <1>6, <1>14, <1>17, <2>2, <3>1
    <3> QED BY <1>7, <1>8, <1>14, <1>17, <2>2, <3>2
  <2> QED BY <1>14, <2>1, <2>2
<1>18. ASSUME NEW f \in Firsts(q), NEW g \in Firsts(q),
              NEW j \in DOMAIN order', NEW k \in DOMAIN order',
              order'[j] = q[f].id, order'[k] = q[g].id
       PROVE  j < k <=> f < g
  <2>1. \/ j = m /\ f = n
        \/ j \in DOMAIN order /\ f \in Firsts(p) /\ order[j] = p[f].id
    BY <1>17, <1>18
  <2>2. \/ k = m /\ g = n
        \/ k \in DOMAIN order /\ g \in Firsts(p) /\ order[k] = p[g].id
    BY <1>17, <1>18
  <2>3. CASE j = m /\ f = n /\ k = m /\ g = n
    BY <1>8, <1>14, <2>3
  <2>4. CASE /\ j = m /\ f = n
             /\ k \in DOMAIN order /\ g \in Firsts(p) /\ order[k] = p[g].id
    BY <1>8, <1>14, <2>4
  <2>5. CASE /\ j \in DOMAIN order /\ f \in Firsts(p) /\ order[j] = p[f].id
             /\ k = m /\ g = n
    BY <1>8, <1>14, <2>5
  <2>6. CASE /\ j \in DOMAIN order /\ f \in Firsts(p) /\ order[j] = p[f].id
             /\ k \in DOMAIN order /\ g \in Firsts(p) /\ order[k] = p[g].id
    BY <1>5, <2>6 DEF Opened
  <2> QED BY <2>1, <2>2, <2>3, <2>4, <2>5, <2>6
<1>19. Opened(Read)'
  BY <1>4, <1>15, <1>16, <1>18 DEF Opened
<1> QED BY <1>1, <1>4, <1>13, <1>19 DEF IInv, LInv, LoopComputesMerge

\* The first loop has read the whole list.
LEMMA StartSortOK ==
  ASSUME NEW I, NEW C, NEW E, NEW M, NEW T, IInv(Hyps(I, C, E, M, T), I), StartSort
  PROVE  IInv(Hyps(I, C, E, M, T), I)'
<1> DEFINE HH == Hyps(I, C, E, M, T)
<1>1. /\ TInv(HH, I) /\ pc = "merge" /\ i > Len(hs) /\ pc' = "sort" /\ i' = 1
      /\ UNCHANGED <<hs, byID, order, out>>
  BY DEF IInv, StartSort
<1> HIDE DEF HH
<1>2. hs \in Seq(HH) /\ i - 1 = Len(hs) /\ out = <<>> /\ order \in Seq(I) /\ Len(order) \in Nat
  BY <1>1 DEF TInv
<1>3. TInv(HH, I)'
  BY <1>1, <1>2 DEF TInv
<1>4. Read = hs /\ Read' = hs
  <2>1. SubSeq(hs, 1, Len(hs)) = hs
    BY <1>2
  <2> QED BY <1>1, <1>2, <2>1 DEF Read
<1>5. Collected(hs) /\ Opened(hs)
  BY <1>4 DEF IInv, LInv
<1>6. Collected(Read)' /\ Opened(Read)'
  BY <1>1, <1>4, <1>5 DEF Collected, Opened
<1>7. Sorted(hs, out, {order[j] : j \in 1..(i - 1)})'
  <2>1. 1..(i' - 1) = {}
    BY <1>1
  <2>2. {order'[j] : j \in 1..(i' - 1)} = {}
    BY <2>1
  <2>3. DOMAIN out' = {}
    BY <1>1, <1>2
  <2> QED BY <2>2, <2>3 DEF Sorted
<1> QED BY <1>1, <1>3, <1>6, <1>7 DEF IInv, LInv, LoopComputesMerge, HH

\* One more entry is put at its place.
LEMMA InsertOK ==
  ASSUME NEW I, NEW C, NEW E, NEW M, NEW T, IInv(Hyps(I, C, E, M, T), I), Insert
  PROVE  IInv(Hyps(I, C, E, M, T), I)'
<1> DEFINE HH == Hyps(I, C, E, M, T)
           h == byID[order[i]]
           pos == Cardinality({k \in DOMAIN out : scoreOf(out[k]) >= scoreOf(h)})
           ids == {order[j] : j \in 1..(i - 1)}
<1>1. /\ TInv(HH, I) /\ pc = "sort" /\ i <= Len(order)
      /\ out' = InsertAt(out, pos + 1, h)
      /\ i' = i + 1 /\ UNCHANGED <<hs, pc, byID, order>>
  BY DEF IInv, Insert
<1>2. /\ hs \in Seq(HH) /\ out \in Seq(HH) /\ i \in Nat \ {0} /\ i \in DOMAIN order
      /\ order \in Seq(I)
  BY <1>1 DEF TInv
<1>3. Read = hs /\ Read' = hs
  BY <1>1 DEF Read
<1>4. Collected(hs) /\ Opened(hs) /\ Sorted(hs, out, ids)
  BY <1>1, <1>3 DEF IInv, LInv
<1>5. PICK g \in Firsts(hs) : order[i] = hs[g].id
  BY <1>2, <1>4 DEF Opened
<1>6. h = MergedAt(hs, g)
  BY <1>4, <1>5 DEF Collected
<1>7. ASSUME NEW f \in Firsts(hs), hs[f].id \in ids
      PROVE  f < g
  <2>1. PICK j \in 1..(i - 1) : order[j] = hs[f].id
    BY <1>7
  <2>2. j \in DOMAIN order /\ j < i
    BY <1>2, <2>1
  <2> QED BY <1>2, <1>4, <1>5, <2>1, <2>2 DEF Opened
<1> HIDE DEF ids, h
<1>8. /\ InsertAt(out, pos + 1, h) \in Seq(HH)
      /\ Sorted(hs, InsertAt(out, pos + 1, h), ids \cup {hs[g].id})
  <2> HIDE DEF pos
  <2>1. pos = Cardinality({k \in DOMAIN out : scoreOf(out[k]) >= scoreOf(h)})
    BY DEF pos
  <2> QED BY <1>2, <1>4, <1>6, <1>7, <2>1, InsertSorted
<1>9. ids \cup {hs[g].id} = {order[j] : j \in 1..(i' - 1)}
  <2>1. 1..(i' - 1) = 1..(i - 1) \cup {i}
    BY <1>1, <1>2
  <2> QED BY <1>5, <2>1 DEF ids
<1> HIDE DEF pos, HH
<1>10. TInv(HH, I)'
  <2>1. i' \in Nat \ {0} /\ i' <= Len(order) + 1
    BY <1>1, <1>2
  <2> QED BY <1>1, <1>8, <2>1 DEF TInv
<1>11. Sorted(hs, out, {order[j] : j \in 1..(i - 1)})'
  BY <1>1, <1>8, <1>9
<1>12. Collected(Read)' /\ Opened(Read)'
  BY <1>1, <1>3, <1>4 DEF Collected, Opened
<1> QED BY <1>1, <1>10, <1>11, <1>12 DEF IInv, LInv, LoopComputesMerge, HH

\* The sorted list of all the entries is the ranking.
LEMMA StartRuleOK ==
  ASSUME NEW I, NEW C, NEW E, NEW M, NEW T, IInv(Hyps(I, C, E, M, T), I), StartRule
  PROVE  IInv(Hyps(I, C, E, M, T), I)'
<1> DEFINE HH == Hyps(I, C, E, M, T)
           ids == {order[j] : j \in 1..(i - 1)}
<1>1. /\ TInv(HH, I) /\ pc = "sort" /\ i > Len(order) /\ pc' = "rule" /\ i' = 1
      /\ UNCHANGED <<hs, byID, order, out>>
  BY DEF IInv, StartRule
<1>2. /\ hs \in Seq(HH) /\ out \in Seq(HH) /\ order \in Seq(I)
      /\ i - 1 = Len(order)
  BY <1>1 DEF TInv
<1>3. Read = hs /\ Read' = hs
  BY <1>1 DEF Read
<1>4. Collected(hs) /\ Opened(hs) /\ Sorted(hs, out, ids)
  BY <1>1, <1>3 DEF IInv, LInv
<1>5. ids = {hs[f].id : f \in Firsts(hs)}
  <2>1. DOMAIN order = 1..(i - 1)
    BY <1>2
  <2> QED BY <1>4, <2>1 DEF Opened
<1>6. out = Ranked(hs)
  <2> HIDE DEF ids
  <2> QED BY <1>2, <1>4, <1>5, SortedIsRanked
<1>7. /\ DOMAIN Ranked(hs) = 1..Len(Ranked(hs)) /\ Len(Ranked(hs)) \in Nat
      /\ Ranked(hs) \in Seq(HH)
  BY <1>2, RankedType
<1> HIDE DEF HH
<1>8. Ruled'
  <2> DEFINE R == Ranked(hs)
             R1 == [k \in DOMAIN R |-> IF k < 1 THEN Merge(hs)[k] ELSE R[k]]
  <2>1. R = [k \in DOMAIN R |-> R[k]]
    BY <1>7
  <2>2. \A k \in DOMAIN R : ~(k < 1)
    BY <1>7
  <2>3. R = R1
    <3> HIDE DEF R
    <3> QED BY <2>1, <2>2
  <2>4. 1 <= Len(R) + 1
    BY <1>7
  <2> QED BY <1>1, <1>6, <2>3, <2>4 DEF Ruled
<1>9. TInv(HH, I)'
  BY <1>1, <1>2 DEF TInv
<1>10. Collected(Read)' /\ Opened(Read)'
  BY <1>1, <1>3, <1>4 DEF Collected, Opened
<1> QED BY <1>1, <1>8, <1>9, <1>10 DEF IInv, LInv, LoopComputesMerge, HH

\* Giving a status leaves the ID and the score alone, which are what a status reads.
LEMMA StatusKeeps ==
  ASSUME NEW I, NEW C, NEW E, NEW M, NEW T, NEW h \in Hyps(I, C, E, M, T), NEW x
  PROVE  /\ [h EXCEPT !.status = x].id = h.id
         /\ scoreOf([h EXCEPT !.status = x]) = scoreOf(h)
BY DEF Hyps, scoreOf

\* One more entry has its status.
LEMMA AssignOK ==
  ASSUME NEW I, NEW C, NEW E, NEW M, NEW T, IInv(Hyps(I, C, E, M, T), I), AssignStatus
  PROVE  IInv(Hyps(I, C, E, M, T), I)'
<1> DEFINE HH == Hyps(I, C, E, M, T)
           R == Ranked(hs)
           G == Merge(hs)
<1>1. /\ TInv(HH, I) /\ pc = "rule" /\ i <= Len(out)
      /\ out' = [out EXCEPT ![i].status = StatusAt(out, i)]
      /\ i' = i + 1 /\ UNCHANGED <<hs, pc, byID, order>>
  BY DEF IInv, AssignStatus
<1>2. hs \in Seq(HH) /\ i \in Nat \ {0}
  BY <1>1 DEF TInv
<1>3. /\ R \in Seq(HH) /\ DOMAIN R = 1..Len(R) /\ Len(R) \in Nat
      /\ \A k \in DOMAIN R : G[k] = [R[k] EXCEPT !.status = StatusAt(R, k)]
  BY <1>2, RankedType
<1>4. Ruled
  BY <1>1 DEF IInv, LInv
<1>5. out = [k \in DOMAIN R |-> IF k < i THEN G[k] ELSE R[k]]
  BY <1>4 DEF Ruled
<1> HIDE DEF R, G
<1>6. Len(out) = Len(R) /\ i \in DOMAIN R
  <2>1. DOMAIN out = 1..Len(R)
    BY <1>3, <1>5
  <2>2. Len(out) = Len(R)
    BY <1>3, <1>5, <2>1
  <2> QED BY <1>1, <1>2, <1>3, <2>2
<1>7. StatusAt(out, i) = StatusAt(R, i)
  <2>1. ASSUME NEW k \in DOMAIN R
        PROVE  out[k].id = R[k].id /\ scoreOf(out[k]) = scoreOf(R[k])
    <3>1. R[k] \in HH
      BY <1>3
    <3>2. /\ G[k].id = R[k].id /\ scoreOf(G[k]) = scoreOf(R[k])
      <4>1. G[k] = [R[k] EXCEPT !.status = StatusAt(R, k)]
        BY <1>3
      <4>2. \A x : /\ [R[k] EXCEPT !.status = x].id = R[k].id
                   /\ scoreOf([R[k] EXCEPT !.status = x]) = scoreOf(R[k])
        BY <3>1, StatusKeeps
      <4> QED BY <4>1, <4>2, Zenon
    <3> QED BY <1>5, <3>2
  <2>2. 1 \in DOMAIN R
    BY <1>2, <1>3, <1>6
  <2> QED BY <1>6, <2>1, <2>2 DEF StatusAt, sameResource, resourceOf
<1>8. out' = [k \in DOMAIN R |-> IF k < i + 1 THEN G[k] ELSE R[k]]
  <2>1. out[i] = R[i]
    BY <1>2, <1>5, <1>6
  <2>2. out' = [out EXCEPT ![i] = G[i]]
    BY <1>1, <1>3, <1>6, <1>7, <2>1
  <2>3. \A k \in DOMAIN R : k < i + 1 <=> k < i \/ k = i
    BY <1>2, <1>3
  <2> QED BY <1>5, <1>6, <2>2, <2>3
<1>9. Ruled'
  <2>1. i + 1 <= Len(R) + 1
    BY <1>3, <1>6
  <2> QED BY <1>1, <1>8, <2>1 DEF Ruled, R, G
<1> HIDE DEF HH
<1>10. TInv(HH, I)'
  BY <1>1, <1>2 DEF TInv
<1>11. Collected(Read)' /\ Opened(Read)'
  <2>1. Read = hs /\ Read' = hs
    BY <1>1 DEF Read
  <2>2. Collected(hs) /\ Opened(hs)
    BY <2>1 DEF IInv, LInv
  <2> QED BY <1>1, <2>1, <2>2 DEF Collected, Opened
<1> QED BY <1>1, <1>9, <1>10, <1>11 DEF IInv, LInv, LoopComputesMerge, HH

\* The statuses are complete: the result is the ranking that Hypothesis defines.
LEMMA ReturnOK ==
  ASSUME NEW I, NEW C, NEW E, NEW M, NEW T, IInv(Hyps(I, C, E, M, T), I), Return
  PROVE  IInv(Hyps(I, C, E, M, T), I)'
<1> DEFINE HH == Hyps(I, C, E, M, T)
           R == Ranked(hs)
           G == Merge(hs)
<1>1. /\ TInv(HH, I) /\ pc = "rule" /\ i > Len(out) /\ pc' = "done"
      /\ UNCHANGED <<hs, i, byID, order, out>>
  BY DEF IInv, Return
<1>2. hs \in Seq(HH) /\ i \in Nat \ {0}
  BY <1>1 DEF TInv
<1>3. /\ DOMAIN R = 1..Len(R) /\ Len(R) \in Nat /\ G = [k \in DOMAIN R |-> G[k]]
  BY <1>2, RankedType
<1>4. out = [k \in DOMAIN R |-> IF k < i THEN G[k] ELSE R[k]]
  BY <1>1 DEF IInv, LInv, Ruled
<1> HIDE DEF R, G, HH
<1>5. Len(out) = Len(R)
  <2>1. DOMAIN out = 1..Len(R)
    BY <1>3, <1>4
  <2> QED BY <1>3, <1>4, <2>1
<1>6. \A k \in DOMAIN R : k < i
  BY <1>1, <1>2, <1>3, <1>5
<1>7. out = G
  BY <1>3, <1>4, <1>6
<1>8. Collected(Read)' /\ Opened(Read)'
  <2>1. Read = hs /\ Read' = hs
    BY <1>1 DEF Read
  <2>2. Collected(hs) /\ Opened(hs)
    BY <2>1 DEF IInv, LInv
  <2> QED BY <1>1, <2>1, <2>2 DEF Collected, Opened
<1>9. TInv(HH, I)'
  BY <1>1 DEF TInv
<1>10. LoopComputesMerge'
  BY <1>1, <1>7 DEF LoopComputesMerge, G
<1> QED BY <1>1, <1>8, <1>9, <1>10 DEF IInv, LInv, HH

LEMMA NextOK ==
  ASSUME NEW I, NEW C, NEW E, NEW M, NEW T
  PROVE  IInv(Hyps(I, C, E, M, T), I) /\ [Next]_vars => IInv(Hyps(I, C, E, M, T), I)'
<1> SUFFICES ASSUME IInv(Hyps(I, C, E, M, T), I), [Next]_vars
             PROVE  IInv(Hyps(I, C, E, M, T), I)'
  OBVIOUS
<1>1. CASE SkipEmptyID
  BY <1>1, SkipOK
<1>2. CASE Absorb
  BY <1>2, AbsorbOK
<1>3. CASE Admit
  BY <1>3, AdmitOK
<1>4. CASE StartSort
  BY <1>4, StartSortOK
<1>5. CASE Insert
  BY <1>5, InsertOK
<1>6. CASE StartRule
  BY <1>6, StartRuleOK
<1>7. CASE AssignStatus
  BY <1>7, AssignOK
<1>8. CASE Return
  BY <1>8, ReturnOK
<1>9. CASE UNCHANGED vars
  <2>1. UNCHANGED <<hs, pc, i, byID, order, out>>
    BY <1>9 DEF vars
  <2>2. TInv(Hyps(I, C, E, M, T), I)'
    BY <2>1 DEF IInv, TInv
  <2>3. Read' = Read
    BY <2>1 DEF Read
  <2>4. Collected(Read)' /\ Opened(Read)'
    BY <2>1, <2>3 DEF IInv, LInv, Collected, Opened
  <2>5. (pc = "sort" => Sorted(hs, out, {order[j] : j \in 1..(i - 1)}))'
    BY <2>1 DEF IInv, LInv
  <2>6. (pc = "rule" => Ruled)' /\ LoopComputesMerge'
    BY <2>1 DEF IInv, LInv, Ruled, LoopComputesMerge
  <2> QED BY <2>2, <2>4, <2>5, <2>6 DEF IInv, LInv
<1> QED BY <1>1, <1>2, <1>3, <1>4, <1>5, <1>6, <1>7, <1>8, <1>9 DEF Next

\* hypothesis.Merge as the code runs it, its loop over a map and a slice, its stable
\* sort and its rewriting of the statuses in place, returns for every list of
\* hypotheses the ranking that the rest of the project reasons with.
THEOREM LoopIsMerge ==
  ASSUME NEW I, NEW C, NEW E, NEW M, NEW T,
         Inputs \subseteq Seq(Hyps(I, C, E, M, T))
  PROVE  Spec => []LoopComputesMerge
<1> DEFINE Inv == IInv(Hyps(I, C, E, M, T), I)
<1>1. Init => Inv
  BY InitOK
<1>2. Inv /\ [Next]_vars => Inv'
  BY NextOK
<1>3. Inv => LoopComputesMerge
  BY DEF IInv, LInv
<1> HIDE DEF Inv
<1> QED BY <1>1, <1>2, <1>3, PTL DEF Spec

===============================================================================
