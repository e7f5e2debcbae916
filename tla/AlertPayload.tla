----------------------------- MODULE AlertPayload -----------------------------
(***************************************************************************)
(* internal/alert: the Kubernetes target and the window that a webhook body    *)
(* of PagerDuty, Grafana or Slack names.                                      *)
(*                                                                         *)
(* A text is a sequence of words.  What the regular expressions of alert.go    *)
(* tell apart of a word is its form:                                         *)
(*   "full"   kind/namespace/name                                            *)
(*   "short"  kind/name                                                      *)
(*   "kind"   a kind alone                                                   *)
(*   "name"   a word that begins with a small letter or a digit               *)
(*   "prose"  a word that does not                                           *)
(*   "ns"     namespace=x, ns=x or "in namespace x"                           *)
(*   "flag"   -n or --namespace, the word after which is a namespace          *)
(*   "since"  since=d                                                        *)
(* Punctuation, which is trimmed off names, is left out.  A label set or a     *)
(* set of details is a record with some of the keys.                          *)
(***************************************************************************)
EXTENDS Integers, Sequences

CONSTANTS
  Strings,     \* what kinds, names, namespaces, tags and labels are
  Generated    \* the names with a digit or a hyphen

ASSUME StringsAssumption ==
  {"", "default", "namespace", "deployment", "pod", "daemonset", "statefulset", "service", "pvc",
   "hpa", "workload"} \subseteq Strings

NoRef == [kind |-> "", ns |-> "", name |-> ""]
Ref(kind, ns, name) == [kind |-> kind, ns |-> ns, name |-> name]

\* The first of some values that is not none, or none.
FirstNot(none, vals) ==
  LET given == {i \in 1..Len(vals) : vals[i] # none}
  IN IF given = {} THEN none ELSE vals[CHOOSE i \in given : \A j \in given : i <= j]

-------------------------------------------------------------------------------
(* Durations, in seconds. *)

Durations == [d : Nat, h : Nat, m : Nat, s : Nat]
Duration(d, h, m, s) == [d |-> d, h |-> h, m |-> m, s |-> s]
NoDuration == Duration(0, 0, 0, 0)
Invalid == 0 - 1

\* time.ParseDuration knows no days.
ParseDuration(t) == IF t.d > 0 THEN Invalid ELSE 3600 * t.h + 60 * t.m + t.s

\* sinceRE finds the first number with unit m, h or d, and ParseDuration reads that.
sinceOf(t) ==
  IF t.d > 0 THEN 0 ELSE IF t.h > 0 THEN 3600 * t.h ELSE 60 * t.m

-------------------------------------------------------------------------------
(* Words and texts. *)

Word(form, kind, ns, name, since) ==
  [form |-> form, kind |-> kind, ns |-> ns, name |-> name, since |-> since]
FullWord(kind, ns, name) == Word("full", kind, ns, name, NoDuration)
ShortWord(kind, name) == Word("short", kind, "", name, NoDuration)
KindWord(kind) == Word("kind", kind, "", kind, NoDuration)
NameWord(name) == Word("name", "", "", name, NoDuration)
ProseWord(name) == Word("prose", "", "", name, NoDuration)
NsWord(ns) == Word("ns", "", ns, "namespace", NoDuration)
FlagWord == Word("flag", "", "", "-n", NoDuration)
SinceWord(t) == Word("since", "", "", "since", t)

Words ==
  [form : {"full", "short", "kind", "name", "prose", "ns", "flag", "since"},
   kind : Strings, ns : Strings, name : Strings, since : Durations]
Texts == Seq(Words)

SlashKinds == {"deployment", "pod", "daemonset", "statefulset", "service", "pvc", "hpa"}
SpaceKinds == {"deployment", "pod", "daemonset", "statefulset", "service"}

\* What [a-z0-9][a-z0-9.-]* reads from the start of a word.
Start(w) ==
  IF w.form \in {"full", "short"} THEN w.kind
  ELSE IF w.form \in {"prose", "flag"} THEN "" ELSE w.name

firstOf(S) == CHOOSE i \in S : \A j \in S : i <= j

targetFromTextNoNS(text) ==
  LET withForm(form) == {i \in 1..Len(text) : text[i].form = form /\ text[i].kind \in SlashKinds}
      spaced == {i \in 1..Len(text) - 1 :
                   text[i].form = "kind" /\ text[i].kind \in SpaceKinds /\ Start(text[i + 1]) # ""}
      bare == {i \in 1..Len(text) : Start(text[i]) # ""}
  IN IF withForm("full") # {}
     THEN LET w == text[firstOf(withForm("full"))] IN Ref(w.kind, w.ns, w.name)
     ELSE IF withForm("short") # {}
     THEN LET w == text[firstOf(withForm("short"))] IN Ref(w.kind, "", w.name)
     ELSE IF spaced # {}
     THEN Ref(text[firstOf(spaced)].kind, "", Start(text[firstOf(spaced) + 1]))
     ELSE IF bare # {} /\ Start(text[firstOf(bare)]) \in Generated
     THEN Ref("pod", "", Start(text[firstOf(bare)]))
     ELSE NoRef

namespaceFromText(text) == FirstNot("", [i \in 1..Len(text) |->
  IF text[i].form = "ns" THEN text[i].ns
  ELSE IF text[i].form = "flag" /\ i < Len(text) THEN Start(text[i + 1]) ELSE ""])

\* A slip: a namespace in the text goes before the one in the reference.
TextOverReference(text) ==
  LET ref == targetFromTextNoNS(text)
  IN IF ref = NoRef THEN ref
     ELSE [ref EXCEPT !.ns = FirstNot("", <<namespaceFromText(text), ref.ns>>)]

targetFromText(text) ==
  LET ref == targetFromTextNoNS(text)
  IN IF ref = NoRef THEN ref
     ELSE [ref EXCEPT !.ns = FirstNot("", <<ref.ns, namespaceFromText(text)>>)]

\* Command text of one word is the name of a pod, whatever it looks like.
singleToken(text) ==
  IF Len(text) = 1 /\ text[1].form \notin {"full", "short"}
  THEN Ref("pod", "", text[1].name) ELSE NoRef

sinceFromText(text) ==
  LET hits == {i \in 1..Len(text) : text[i].form = "since"
                                    /\ text[i].since.d + text[i].since.h + text[i].since.m > 0}
  IN IF hits = {} THEN 0 ELSE sinceOf(text[firstOf(hits)].since)

-------------------------------------------------------------------------------
(* Labels. *)

IsLabels(labels) == DOMAIN labels \subseteq Strings /\ \A key \in DOMAIN labels : labels[key] \in Strings

labelKeys ==
  <<<<"kubernetes_pod_name", "pod">>, <<"pod_name", "pod">>, <<"pod", "pod">>,
    <<"kubernetes_deployment_name", "deployment">>, <<"deployment_name", "deployment">>,
    <<"deployment", "deployment">>, <<"workload", "deployment">>,
    <<"statefulset", "statefulset">>>>

At(labels, key) == IF key \in DOMAIN labels THEN labels[key] ELSE ""

targetFromLabels(labels) ==
  LET ns == FirstNot("", <<At(labels, "kubernetes_namespace_name"), At(labels, "namespace")>>)
      named == {i \in 1..Len(labelKeys) : At(labels, labelKeys[i][1]) # ""}
      hint == labelKeys[firstOf(named)]
  IN IF named # {} THEN Ref(hint[2], ns, labels[hint[1]])
     ELSE IF ns # "" THEN Ref("namespace", ns, ns) ELSE NoRef

-------------------------------------------------------------------------------
(* The providers.  A body without a target is refused, as Parse does with one   *)
(* it cannot read.                                                           *)

FirstTarget(refs) == FirstNot(NoRef, refs)

\* The details are read only when there is no title; a later pod key wins.
detailsTarget(details) ==
  LET podKeys == <<"pod", "pod_name", "kubernetes_pod_name">>
      loadKeys == <<"deployment", "workload", "statefulset">>
      pod(i) == At(details, podKeys[4 - i])
      load(i) == At(details, loadKeys[i])
      pods == {i \in 1..3 : pod(i) # ""}
      loads == {i \in 1..3 : load(i) # ""}
  IN IF pods # {} THEN Ref("pod", "", pod(firstOf(pods)))
     ELSE IF loads # {} THEN Ref(loadKeys[firstOf(loads)], "", load(firstOf(loads)))
     ELSE NoRef

parsePagerDuty(p) ==
  FirstTarget(<<IF p.title = <<>> THEN detailsTarget(p.details) ELSE NoRef,
                targetFromText(p.title), targetFromText(p.service),
                targetFromText(p.summary), targetFromText(p.subject)>>)

\* The older body, which has no alerts, must have a title or a state.
parseGrafana(p) ==
  LET unread == p.alerts = <<>> /\ p.title = <<>> /\ p.state = ""
      sets == IF p.alerts # <<>> THEN p.alerts ELSE p.matches
      texts == IF p.alerts # <<>> THEN <<p.title, p.message>>
               ELSE <<p.title, p.message, p.rule>>
  IN IF unread THEN NoRef
     ELSE FirstTarget([i \in 1..Len(sets) |-> targetFromLabels(sets[i])]
                      \o [i \in 1..Len(texts) |-> targetFromText(texts[i])])

parseSlack(p) == FirstTarget(<<targetFromText(p.text), singleToken(p.text)>>)

\* The bodies of the three providers.
IsBody(p) ==
  \/ /\ p.provider = "pagerduty" /\ IsLabels(p.details)
     /\ {p.title, p.service, p.summary, p.subject} \subseteq Texts
  \/ /\ p.provider = "grafana" /\ p.state \in Strings /\ {p.title, p.message, p.rule} \subseteq Texts
     /\ \A sets \in {p.alerts, p.matches} :
          DOMAIN sets = 1..Len(sets) /\ Len(sets) \in Nat /\ \A i \in 1..Len(sets) : IsLabels(sets[i])
  \/ p.provider = "slack" /\ p.text \in Texts

\* The seed of an investigation: a target, or NoRef, and a window, or 0.
Parse(p) ==
  [target |-> CASE p.provider = "pagerduty" -> parsePagerDuty(p)
                [] p.provider = "grafana" -> parseGrafana(p)
                [] p.provider = "slack" -> parseSlack(p),
   window |-> IF p.provider = "slack" THEN sinceFromText(p.text) ELSE 0]
===============================================================================
