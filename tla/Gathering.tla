------------------------------- MODULE Gathering -------------------------------
(***************************************************************************)
(* What an investigation promises, whatever it collects and however it        *)
(* reasons: it gathers evidence in an opening collection and a bounded number  *)
(* of retries, never gives up evidence or a gap it has recorded, and then       *)
(* publishes, once, a verdict on exactly the evidence it holds.                *)
(***************************************************************************)
EXTENDS Naturals

CONSTANTS
  Facts,      \* what can be observed
  Faults,     \* what can be recorded as missing
  Retries,    \* collections after the first
  NoVerdict

VARIABLES
  evidence, faults,
  left,       \* retries left
  verdict     \* NoVerdict, or the evidence and faults the verdict rests on

vars == <<evidence, faults, left, verdict>>

Init ==
  /\ evidence = {} /\ faults = {}
  /\ left = Retries
  /\ verdict = NoVerdict

\* A collector or an analyzer fails, or what was collected is taken in.
Gather ==
  /\ verdict = NoVerdict
  /\ evidence' \in SUBSET Facts /\ evidence \subseteq evidence'
  /\ faults' \in SUBSET Faults /\ faults \subseteq faults'
  /\ UNCHANGED <<left, verdict>>

Retry ==
  /\ verdict = NoVerdict /\ left > 0
  /\ left' = left - 1
  /\ UNCHANGED <<evidence, faults, verdict>>

Publish ==
  /\ verdict = NoVerdict
  /\ verdict' = [evidence |-> evidence, faults |-> faults]
  /\ UNCHANGED <<evidence, faults, left>>

Next == Gather \/ Retry \/ Publish

Spec == Init /\ [][Next]_vars
===============================================================================
