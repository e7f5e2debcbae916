------------------------------ MODULE MCMergeLoop ------------------------------
(* Every list of up to MaxLen emissions over three IDs on two resources, each  *)
(* with no score or with one of three (margin, score) pairs.                   *)
EXTENDS MergeLoop

CONSTANTS
  MaxLen,
  Unscored,   \* whether hypotheses without a score are among the inputs
  a, b

Ids == {<<"memory", a>>, <<"crashloop", a>>, <<"memory", b>>, NoID}

\* The scores of margins 20, 40 and 92 at the default temperature.
Scored == {<<20, 68>>, <<40, 82>>, <<92, 97>>}

Emission(id, n) ==
  {[id |-> id, scored |-> TRUE, margin |-> s[1], score |-> s[2], claim |-> n,
    evidence |-> {n}, missing |-> {}, status |-> ""] : s \in Scored}
  \cup {[id |-> id, scored |-> FALSE, margin |-> 0, score |-> 0, claim |-> n,
         evidence |-> {}, missing |-> {n}, status |-> ""] : u \in {Unscored} \ {FALSE}}

EmissionsAt(n) == UNION {Emission(id, n) : id \in Ids}

MCInputs ==
  {<<>>} \cup {<<x>> : x \in EmissionsAt(1)}
  \cup (EmissionsAt(1) \X EmissionsAt(2))
  \cup (IF MaxLen >= 3 THEN EmissionsAt(1) \X EmissionsAt(2) \X EmissionsAt(3) ELSE {})
===============================================================================
