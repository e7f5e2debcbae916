------------------------------ MODULE Hypothesis ------------------------------
(***************************************************************************)
(* internal/hypothesis and the ranking half of internal/score: how the     *)
(* hypotheses that the analyzers emit are merged, ranked and given a       *)
(* status.                                                                 *)
(*                                                                         *)
(* A hypothesis is a record                                                *)
(*   id       <<prefix, resource>>, or NoID for the empty string            *)
(*   scored   whether the Score pointer is non-nil                          *)
(*   margin   Score.Margin                                                  *)
(*   score    Score.Score, in percent of the 0..1 scale                     *)
(*   claim    the Claim that goes with that score                           *)
(*   evidence, missing   the Evidence and Missing lists, as sets            *)
(*   status   "Likely", "Candidate" or "RuledOut"; "" before Merge          *)
(* Contradictions is merged exactly as evidence and is left out.            *)
(***************************************************************************)
EXTENDS Integers, Sequences, FiniteSets

CONSTANTS
  outrankGap,   \* score gap, in percent, from which a runner-up is ruled out
  NoID          \* the empty hypothesis ID

ASSUME OutrankGapAssumption == outrankGap \in Nat \ {0}

Statuses == {"Likely", "Candidate", "RuledOut"}

\* SplitID cuts at the first dot, so the resource is all that follows the prefix.
resourceOf(id) == id[2]

sameResource(h, g) == resourceOf(h.id) = resourceOf(g.id)

\* A hypothesis without a score ranks as zero.
scoreOf(h) == IF h.scored THEN h.score ELSE 0

-------------------------------------------------------------------------------
(* Step 1 of Merge: one entry per ID, in order of first emission. *)

\* The positions of hs that carry the same ID as position i.
SameID(hs, i) == {j \in DOMAIN hs : hs[j].id = hs[i].id}

\* The positions that open an entry: the ID is not empty and not seen before.
Firsts(hs) ==
  {i \in DOMAIN hs : hs[i].id # NoID /\ \A j \in SameID(hs, i) : i <= j}

\* The emission whose score (and claim) an entry keeps: the first one, unless it
\* and later ones are scored and a later one has a strictly greater margin.
Keeper(hs, i) ==
  IF ~hs[i].scored
  THEN i
  ELSE CHOOSE k \in SameID(hs, i) :
         /\ hs[k].scored
         /\ \A j \in SameID(hs, i) : hs[j].scored =>
              \/ hs[j].margin < hs[k].margin
              \/ hs[j].margin = hs[k].margin /\ k <= j

MergedAt(hs, i) ==
  LET k == Keeper(hs, i)
  IN  [hs[i] EXCEPT !.margin   = hs[k].margin,
                    !.score    = hs[k].score,
                    !.claim    = hs[k].claim,
                    !.evidence = UNION {hs[j].evidence : j \in SameID(hs, i)},
                    !.missing  = UNION {hs[j].missing : j \in SameID(hs, i)}]

-------------------------------------------------------------------------------
(* Step 2: a stable sort by score, highest first. *)

\* Entry j is placed before entry i.
Before(hs, j, i) ==
  \/ scoreOf(MergedAt(hs, j)) > scoreOf(MergedAt(hs, i))
  \/ scoreOf(MergedAt(hs, j)) = scoreOf(MergedAt(hs, i)) /\ j < i

Rank(hs, i) == Cardinality({j \in Firsts(hs) : Before(hs, j, i)}) + 1

\* The first emission of the entry that ranks k-th.
EntryAt(hs, k) == CHOOSE i \in Firsts(hs) : Rank(hs, i) = k

Ranked(hs) ==
  [k \in 1..Cardinality(Firsts(hs)) |-> MergedAt(hs, EntryAt(hs, k))]

-------------------------------------------------------------------------------
(* Step 3: the outranking rule, always against the top of the ranking. *)

StatusAt(out, k) ==
  IF k = 1 \/ ~sameResource(out[1], out[k])
  THEN "Likely"
  ELSE IF scoreOf(out[1]) - scoreOf(out[k]) >= outrankGap
       THEN "RuledOut"
       ELSE "Candidate"

Merge(hs) ==
  LET out == Ranked(hs)
  IN  [k \in DOMAIN out |-> [out[k] EXCEPT !.status = StatusAt(out, k)]]

-------------------------------------------------------------------------------
(* score.Top: the position of the first scored hypothesis with the highest   *)
(* score, 0 for nil.                                                         *)

Top(out) ==
  IF \A k \in DOMAIN out : ~out[k].scored
  THEN 0
  ELSE CHOOSE k \in DOMAIN out :
         /\ out[k].scored
         /\ \A j \in DOMAIN out : out[j].scored =>
              \/ out[j].score < out[k].score
              \/ out[j].score = out[k].score /\ k <= j

===============================================================================
