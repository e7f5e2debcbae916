----------------------------- MODULE MCDiagnosis ------------------------------
(* Diagnosis with pods that run, restart, fail their probes or do not start,    *)
(* with and without a limit, a claim and a change.                             *)
EXTENDS Diagnosis

MCOverlapping == {<<App, Pod>>, <<App, ReplicaSet>>}

Base ==
  [pod |-> "running", restarts |-> 0, limited |-> TRUE, claim |-> "none", node |-> {},
   dns |-> "up", routed |-> TRUE, hpa |-> "below", events |-> {}, kills |-> 0,
   commit |-> 0, gitops |-> "none"]

MCStartWorlds ==
  {[Base EXCEPT !.commit = started - 5],
   [Base EXCEPT !.restarts = 2, !.limited = FALSE, !.commit = started + 5],
   [Base EXCEPT !.restarts = 2, !.gitops = "troubled"],
   [Base EXCEPT !.pod = "unready", !.limited = FALSE, !.events = {"Unhealthy"}],
   [Base EXCEPT !.pod = "unscheduled", !.claim = "Pending", !.routed = FALSE,
                !.dns = "hidden", !.commit = started - 5],
   [Base EXCEPT !.pod = "creating", !.claim = "Bound", !.routed = FALSE],
   [Base EXCEPT !.pod = "unscheduled", !.limited = FALSE, !.routed = FALSE,
                !.gitops = "troubled"]}

===============================================================================
