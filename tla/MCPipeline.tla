------------------------------ MODULE MCPipeline ------------------------------
(* One command that is given anything, or two that run side by side; two contexts *)
(* of two clusters, and a store with records of both and of none.               *)
EXTENDS Pipeline, TLC

CONSTANTS p1, p2

AllStrings == STRING

Empty == [context |-> "", namespace |-> "", since |-> NoDuration, clusterId |-> "", webhook |-> ""]
Profiles == [prod |-> [Empty EXCEPT !.namespace = "shop", !.clusterId = "prod-eu"],
             staging |-> [Empty EXCEPT !.namespace = "stage", !.clusterId = "lab",
                               !.since = Duration(1, 0, 0, 0)]]

NoFile == [top |-> Empty, clusters |-> <<>>]
TopOnly == [top |-> [Empty EXCEPT !.namespace = "base", !.since = Duration(0, 0, 15, 0),
                                  !.webhook = "hook"],
            clusters |-> <<>>]
Full == [top |-> [Empty EXCEPT !.context = "staging", !.webhook = "hook"], clusters |-> Profiles]
NoChoice == [Full EXCEPT !.top.context = ""]
Tagged == [NoChoice EXCEPT !.top.clusterId = "prod-eu", !.clusters.staging.clusterId = ""]

NoHook == [NoChoice EXCEPT !.top.webhook = ""]

NoPayload == [provider |-> "slack", text |-> <<>>]
Plain == [door |-> "investigate", arg |-> <<>>, payload |-> NoPayload, namespace |-> "",
          since |-> NoDuration, context |-> "", env |-> "", file |-> NoFile]

Args == {<<>>, <<"web-1">>, <<"pod", "pay", "web-1">>, <<"node", "n1">>, <<"pod", "">>,
         <<"pod", "", "web-1">>, <<"node", "", "n1">>,
         <<"a", "b", "c", "d">>}

Slack(text) == [provider |-> "slack", text |-> text]
PagerDuty(title, details, service) ==
  [provider |-> "pagerduty", title |-> title, details |-> details, service |-> service,
   summary |-> <<>>, subject |-> <<ShortWord("deployment", "web")>>]
Grafana(alerts, matched, title, state) ==
  [provider |-> "grafana", alerts |-> alerts, matches |-> matched, title |-> title, state |-> state,
   message |-> <<NameWord("web-1"), NsWord("pay")>>, rule |-> <<>>]

Payloads ==
  {Slack(<<ShortWord("deployment", "web"), SinceWord(Duration(0, 2, 0, 0))>>),
   Slack(<<NsWord("base"), FullWord("pod", "pay", "web-1"), SinceWord(Duration(0, 1, 30, 0))>>),
   Slack(<<FlagWord, NameWord("base"), ShortWord("deployment", "web")>>),
   Slack(<<NameWord("web")>>),
   Slack(<<NameWord("web"), NameWord("broke")>>),
   Slack(<<KindWord("pod"), NameWord("web-1"), SinceWord(Duration(2, 0, 0, 0))>>),
   PagerDuty(<<>>, [pod |-> "web-1", pod_name |-> "web-2"], <<>>),
   PagerDuty(<<>>, [workload |-> "web"], <<>>),
   PagerDuty(<<ProseWord("Down")>>, [pod |-> "web-1"], <<NameWord("web-2"), NsWord("pay")>>),
   Grafana(<<[severity |-> "high"], [pod |-> "web-1", namespace |-> "pay"]>>, <<>>, <<>>, ""),
   Grafana(<<>>, <<[namespace |-> "pay"]>>, <<>>, "alerting"),
   Grafana(<<>>, <<[namespace |-> "pay"]>>, <<>>, ""),
   Grafana(<<>>, <<>>, <<ProseWord("High")>>, "")}

Contextual(r) ==
  {[r EXCEPT !.context = c, !.env = e, !.file = f] :
     c \in {"", "prod", "gone"}, e \in {"", "staging"},
     f \in {NoFile, TopOnly, Full, NoChoice, Tagged}}

Investigations ==
  UNION {Contextual([Plain EXCEPT !.arg = a, !.namespace = n]) : a \in Args, n \in {"", "pay"}}
  \cup Contextual([Plain EXCEPT !.arg = <<"web-1">>, !.since = Duration(0, 3, 0, 0)])

Alerts ==
  UNION {Contextual([Plain EXCEPT !.door = "alert", !.payload = b, !.namespace = n]) :
           b \in Payloads, n \in {"", "base"}}

Anything(p) == Investigations \cup Alerts

\* For the store: two commands on one cluster, one with a webhook and one without, whose
\* targets have one slug.
Beside(p) ==
  {IF p = p1 THEN [Plain EXCEPT !.arg = <<"web-1">>, !.context = "prod", !.file = Full]
   ELSE [Plain EXCEPT !.arg = <<"deployment", "web.1">>, !.env = "prod", !.file = NoHook]}

SlugOf(name) == IF name = "web.1" THEN "web-1" ELSE name

AllViews == SUBSET Kinds
BothKinds == {{"log", "event"}}

ClusterOf(c) == IF c = "prod" THEN "east" ELSE "west"
NamespaceOf(c) == IF c = "prod" THEN "eastern" ELSE ""
TagOf(c) == IF c = "east" THEN "cluster-e" ELSE "cluster-w"

Old(tagged, ks, lines) ==
  [tag |-> tagged, target |-> Ref("pod", "pay", "web-0"), kinds |-> ks, lines |-> lines]
Store == <<Old("prod-eu", {"log", "event"}, "whole"), Old("", {"log", "event"}, "whole"),
           Old("prod-eu", {"event"}, "whole"), Old("cluster-w", {"event"}, "whole")>>
===============================================================================
