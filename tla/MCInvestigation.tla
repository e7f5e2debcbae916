---------------------------- MODULE MCInvestigation ----------------------------
(* Small clusters for PodInvestigation.  The runs pick from these definitions.   *)
EXTENDS PodInvestigation

CONSTANTS pod1, pod2

SomeWiring == {<<>>, <<"kubernetes">>, <<"kubernetes", "prometheus", "loki">>,
               <<"replay">>}
KubernetesOnly == {<<"kubernetes">>}

MCCollectorIds == {"kubernetes", "prometheus", "loki", "replay"}
MCInfallible == {"loki", "replay"}
MCAnalyzerList == <<"oom", "crashloop">>
MCHints == {"logs"}

OnePod == <<pod1>>
TwoPods == <<pod1, pod2>>

\* Every state of a one-pod cluster, and the two-pod clusters in which the pods
\* compete: one looping without an exit code, the other as well or still running.
AnyWorld == PodWorlds
PairWorlds == {w \in PodWorlds : w[pod1] \in {"running", "backoff"} /\ w[pod2] = "backoff"}

\* A record of a pod that was seen looping: its exit code is not known, and a replay
\* cannot find it.
MCRecorded == {PodState(pod1, "backoff"), Series(pod1)}

===============================================================================
