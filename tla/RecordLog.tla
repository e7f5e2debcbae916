------------------------------- MODULE RecordLog -------------------------------
(***************************************************************************)
(* What package record promises: incident records are append-only logs of      *)
(* lines.  A log only ever grows at its end, and a reader sees a whole number   *)
(* of lines of one log as it stands at one moment, or an error.                *)
(*                                                                         *)
(* A log may be disturbed, for good: then nothing is said of it, and everything  *)
(* of the others.                                                            *)
(***************************************************************************)
EXTENDS Naturals, Sequences, SequencesExt

CONSTANTS
  Paths, Lines, Readers,
  NoPath,              \* the path of a reader that has not opened one
  NoAnswer, Failed     \* a reader that has not finished, one that got an error

VARIABLES
  log,       \* Paths -> the lines of the record there, none if there is no record
  disturbed, \* the paths of which nothing is said
  path,      \* Readers -> the path it opened
  answer     \* Readers -> NoAnswer, Failed or the lines it read

vars == <<log, disturbed, path, answer>>

Init ==
  /\ log \in [Paths -> Seq(Lines)]
  /\ disturbed = {}
  /\ path = [r \in Readers |-> NoPath]
  /\ answer = [r \in Readers |-> NoAnswer]

\* The log at p grows, or is disturbed.
Grow(p) ==
  /\ disturbed' \in {disturbed, disturbed \cup {p}}
  /\ log'[p] \in Seq(Lines)
  /\ p \in disturbed' \/ IsPrefix(log[p], log'[p])
  /\ log' = [log EXCEPT ![p] = log'[p]]
  /\ UNCHANGED <<path, answer>>

Open(r) ==
  /\ path[r] = NoPath
  /\ \E p \in Paths : path' = [path EXCEPT ![r] = p]
  /\ UNCHANGED <<log, disturbed, answer>>

Answer(r) ==
  /\ answer[r] = NoAnswer
  /\ \/ answer'[r] = Failed
     \/ path[r] \in Paths \ disturbed /\ answer'[r] = log[path[r]]
     \/ path[r] \in disturbed /\ answer'[r] \in Seq(Lines)
  /\ answer' = [answer EXCEPT ![r] = answer'[r]]
  /\ UNCHANGED <<log, disturbed, path>>

Next == (\E p \in Paths : Grow(p)) \/ (\E r \in Readers : Open(r) \/ Answer(r))

Spec == Init /\ [][Next]_vars
===============================================================================
