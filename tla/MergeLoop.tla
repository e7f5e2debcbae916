------------------------------- MODULE MergeLoop -------------------------------
(***************************************************************************)
(* hypothesis.Merge as the code runs it: a loop that fills byID and order,  *)
(* a stable sort, and a loop that assigns the statuses.  The module          *)
(* Hypothesis defines the same function without loops; the rest of the       *)
(* project uses that definition, and here the two are compared on every       *)
(* input list of Inputs.                                                      *)
(***************************************************************************)
EXTENDS Hypothesis, Functions, SequencesExt

CONSTANT Inputs     \* the lists of hypotheses Merge is called with

VARIABLES
  hs,      \* the argument
  pc,      \* "merge", "sort", "rule" or "done"
  i,       \* the loop index
  byID,    \* ID -> merged hypothesis
  order,   \* the IDs in order of first emission
  out      \* the result list

vars == <<hs, pc, i, byID, order, out>>

Init ==
  /\ hs \in Inputs
  /\ pc = "merge"
  /\ i = 1
  /\ byID = [id \in {} |-> <<>>]
  /\ order = <<>>
  /\ out = <<>>

(* The first loop: for i := range hs. *)

SkipEmptyID ==
  /\ pc = "merge" /\ i <= Len(hs) /\ hs[i].id = NoID
  /\ i' = i + 1
  /\ UNCHANGED <<hs, pc, byID, order, out>>

\* A slip: a tie takes the later score and claim.
AbsorbTies ==
  /\ pc = "merge" /\ i <= Len(hs) /\ hs[i].id \in DOMAIN byID
  /\ LET h       == hs[i]
         rescore == h.scored /\ byID[h.id].scored /\ h.margin >= byID[h.id].margin
     IN  byID' = [byID EXCEPT
                    ![h.id].evidence = @ \cup h.evidence,
                    ![h.id].missing  = @ \cup h.missing,
                    ![h.id].margin   = IF rescore THEN h.margin ELSE @,
                    ![h.id].score    = IF rescore THEN h.score ELSE @,
                    ![h.id].claim    = IF rescore THEN h.claim ELSE @]
  /\ i' = i + 1
  /\ UNCHANGED <<hs, pc, order, out>>

Absorb ==
  /\ pc = "merge" /\ i <= Len(hs) /\ hs[i].id \in DOMAIN byID
  /\ LET h       == hs[i]
         cur     == byID[h.id]
         lists   == [cur EXCEPT !.evidence = @ \cup h.evidence,
                                !.missing  = @ \cup h.missing]
         rescore == h.scored /\ cur.scored /\ h.margin > cur.margin
     IN  byID' = [byID EXCEPT ![h.id] =
                    IF rescore
                    THEN [lists EXCEPT !.margin = h.margin, !.score = h.score,
                                       !.claim = h.claim]
                    ELSE lists]
  /\ i' = i + 1
  /\ UNCHANGED <<hs, pc, order, out>>

Admit ==
  /\ pc = "merge" /\ i <= Len(hs)
  /\ hs[i].id # NoID /\ hs[i].id \notin DOMAIN byID
  /\ byID' = [id \in DOMAIN byID \cup {hs[i].id} |->
                IF id = hs[i].id THEN hs[i] ELSE byID[id]]
  /\ order' = Append(order, hs[i].id)
  /\ i' = i + 1
  /\ UNCHANGED <<hs, pc, out>>

StartSort ==
  /\ pc = "merge" /\ i > Len(hs)
  /\ pc' = "sort"
  /\ i' = 1
  /\ UNCHANGED <<hs, byID, order, out>>

(* sort.SliceStable: an entry goes behind every entry with at least its score. *)
Insert ==
  /\ pc = "sort" /\ i <= Len(order)
  /\ LET h   == byID[order[i]]
         pos == Cardinality({k \in DOMAIN out : scoreOf(out[k]) >= scoreOf(h)})
     IN  out' = InsertAt(out, pos + 1, h)
  /\ i' = i + 1
  /\ UNCHANGED <<hs, pc, byID, order>>

StartRule ==
  /\ pc = "sort" /\ i > Len(order)
  /\ pc' = "rule"
  /\ i' = 1
  /\ UNCHANGED <<hs, byID, order, out>>

(* The last loop: for i := range out. *)
AssignStatus ==
  /\ pc = "rule" /\ i <= Len(out)
  /\ out' = [out EXCEPT ![i].status = StatusAt(out, i)]
  /\ i' = i + 1
  /\ UNCHANGED <<hs, pc, byID, order>>

Return ==
  /\ pc = "rule" /\ i > Len(out)
  /\ pc' = "done"
  /\ UNCHANGED <<hs, i, byID, order, out>>

Next ==
  \/ SkipEmptyID
  \/ Absorb
  \/ Admit
  \/ StartSort
  \/ Insert
  \/ StartRule
  \/ AssignStatus
  \/ Return

Spec == Init /\ [][Next]_vars

-------------------------------------------------------------------------------

\* Whatever the loops do, what Merge returns is the ranking that Hypothesis
\* defines: same entries, same order, same statuses.
LoopComputesMerge == pc = "done" => out = Merge(hs)

===============================================================================
