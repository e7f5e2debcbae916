----------------------------- MODULE MCRemediation -----------------------------
(* One incident, two operators, three templates of one Deployment and one of another. *)
EXTENDS Remediation, TLC

CONSTANTS op1, op2, v1, v2, v3, other

History == <<v1, v2>>
\* Pruned and reused ReplicaSets leave gaps between the revisions; the one of v1 may be
\* pruned itself.
Revisions ==
  {[t \in {v1, v2, v3, other} |->
      CASE t = v1 -> first [] t = v2 -> 5 [] t = v3 -> 0 [] t = other -> 3] :
     first \in {0, 1}}

Of(category, changed, target, card) ==
  [category |-> category, status |-> IF category = "" THEN "" ELSE "Likely",
   changed |-> changed, target |-> target, card |-> card]

OperatorSymmetry == Permutations({op1, op2})

\* After a change, with a pod in a bad state, both, and nothing to act on.
Incidents ==
  {Of("memory", {"deployment", "configmap"}, "pod", "OOMKILLED"),
   Of("network", {"deployment"}, "deployment", "INVESTIGATED"),
   Of("", {}, "pod", "INVESTIGATED")}
===============================================================================
