# A verification project for kubetective

kubetective investigates a Kubernetes resource: it collects observations, runs
rule-based analyzers over them, merges what they suspect into ranked hypotheses,
asks again for what is missing, and keeps the result as an incident record that
can be replayed, compared, and turned into a remedial action. This directory
holds TLA+ modules translated from its Go code, the TLC configurations that
check them on small instances, and TLAPS proofs of theorems about them. Paths
below are relative to `src/internal/` unless they say otherwise.

## 1. Inventory

| component | state it keeps | operations | what is hard |
|---|---|---|---|
| engine (`engine`, `collect`) | one investigation: observations, gaps, hypotheses, the scope plan | `Investigate` | an adaptive loop with a budget over collectors that fail and a cluster that moves |
| hypothesis (`hypothesis`), score (`score`) | none, but a process-wide temperature | `Merge`, `Top`, `Breakdown` | ties, stability, which entry keeps the score |
| collectors (`collect/kubernetes`, `prometheus`, `loki`, `git`, `gitops`) | Kubernetes keeps a cache of services | `Collect` | staged on one another's results, partial failures, silent failures |
| analyzers (`analyze/*`) | none | `Analyze`, `NeedsEvidence` | what they ask for must be what can be collected |
| incident store (`record`) | files `~/.kubetective/incidents/<id>.jsonl` | `Save`, `Load`, `LoadID`, `List`, `Search`, `AppendAudit` | truncation, IDs that collide, two processes on one file, a crash in the middle |
| action (`action`, `cli/server_cmds.go`) | the Deployment in the cluster, the audit trail in the record | `Plan`, `Apply`, `AppendAudit` | a plan older than the cluster, an update between read and write, apply without audit |
| server (`server`, `serve` in `cli/server_cmds.go`) | one engine shared by all requests | REST handlers, MCP tools, shutdown | handlers run concurrently over code written for one caller; clients that leave, signals |
| live pipeline (`cli/root.go`, `cli/alert_cmd.go`, `config`, `alert`) | the choice of context, settings, target, window | `investigate`, `alert` | two doors and four sources of every value; the kubeconfig may change under it |
| memory (`memory`) | none (reads the store) | `Similar` | a store that changes between list and load |
| notify | none | `Send` | best effort, once, with a timeout; what it says must be true |
| graph, timeline, change | none | `Build`, `Anchor`, `Rank` | node budget, boundary offsets |
| calibration (`score`, `cli/render.go`) | a temperature in the process and on disk | adopt | floating-point likelihoods |
| recommend, redact, llm, benchmark, diag, logging, model | none | | text, tables and wiring |

How they interact. The command line builds an engine from a list of collectors
and the registered analyzers and calls `Investigate`. The engine calls the
collectors one after the other; each sees the scope plan, with what earlier
collectors of the same pass observed (`Prior`) and with the requests of the
analyzers. The pipeline then saves a record, sends the webhook and looks for similar
incidents. `alert` is the same pipeline with a target read from a webhook body. `replay` is the engine again, with
a collector that serves a record. `action` loads a record, replays it, plans from
the replayed hypotheses, and changes the cluster. `serve` runs the pipeline in
HTTP handlers.

## 2. Modules

| module | models |
|---|---|
| `Hypothesis` | `hypothesis.Merge` and `score.Top` as definitions over lists, without loops |
| `MergeLoop` | `Merge` as the code computes it, one action per loop iteration |
| `Investigation` | `engine.Investigate`, over any collectors and analyzers |
| `Gathering` | what an investigation promises (abstract specification) |
| `PodEvidence` | the Kubernetes, Prometheus, Loki and replay collectors and the oom and crashloop analyzers as operators over a small cluster |
| `PodInvestigation` | `Investigation` with `PodEvidence`: what collectors, engine and analyzers owe each other |
| `IncidentStore` | records as files that processes save, load and append to |
| `RecordLog` | what the store promises: append-only logs of lines (abstract specification) |
| `Remediation` | the `action` command against a Deployment that others change |
| `Server` | the handlers of `serve`, the shared collector, shutdown, and the replay of records |
| `Workload` | a Deployment and what is around it, how it changes, and what the Kubernetes, git and GitOps collectors read of it, call by call |
| `Analyzers` | the eleven analyzers, severity and the status card, as operators over observations |
| `Diagnosis` | one pass taken apart: calls, failures, changes of the cluster in between, and the report (uses `Workload`, `Analyzers`, `Hypothesis`) |
| `AlertPayload` | the target and the window a webhook body names |
| `Scope` | settings, arguments and the two commands: what a request is about (uses `AlertPayload`) |
| `Pipeline` | one live investigation from the request to the similar incidents, by several processes over one kubeconfig and one store (uses `Scope`) |
| `HypothesisProofs`, `MergeLoopProofs`, `InvestigationProofs`, `DiagnosisProofs`, `IncidentStoreProofs`, `RemediationProofs`, `ServerProofs`, `PipelineProofs` | theorems |
| `MC*` | instances for TLC |

### Investigation

The state follows the locals of `Investigate`: `observations`, `gaps`,
`sources`, `hypotheses`, `findings`, the `prior` and `asks` of the scope plan, and
`pc`, `next`, `cursor` for where the loops stand. Observations carry a content
hash as their ID and every list of them is deduplicated, so a list is a set
here. One action is one collector call, one analyzer call, one pass of
`Merge`, or one iteration of `pendingRequests`; `WorldMoves` lets the cluster
change between any two collector calls. Collectors are an operator
`Answers(c, world, pods, hints)`: any of the answers may come, or, for a collector
that can fail, an error. `Merge` is the definition in `Hypothesis`; `MergeLoop`
shows that the code's loops compute it.

Left out: timestamps, the window, node limits of the graph, the contents of graph and
timeline (`built` keeps the observations they were made from), and
`Contradictions`, which `Merge` treats as it treats `Evidence`.

### PodEvidence

Of a pod it keeps the state that the two analyzers look at. Simplifications,
each at the definition: a pod passes through a state at most once (coming back would
be a new observation with a higher restart count); a crashed pod has at least
two restarts; the pods are listed in one order; logs are a snippet or none; the
growth of a memory series, node pressure, kubelet events and init containers are not
modelled here (pressure and events are in `Workload` and `Analyzers`). The scores are the sigmoid of the margins the analyzers can reach at the
default temperature, in hundredths.

### IncidentStore and RecordLog

A file is a sequence of cells, two for every JSONL line, so that a write, a
read or a crash may fall inside a line. A saver (`BuildIncident`, then `Save`) keeps
its own file offset; a second `Save` to the same path truncates the file under
it, and what it writes after that leaves a hole. `slug` and the second of the clock make the ID; the slug
is of the name alone (`record.go:90-94`), so investigations of different kinds and namespaces may share
it, as in the runs `same_name` and `same_second`. A reader is a call of
`Load` (`Listed` readers got an ID from `List`, `Remote` ones go through `LoadID`), and one that is
`Acting` appends an audit line afterwards, to the store directory and not to the
path it loaded (`action/audit.go:60-66`); `auditPath` is that difference. It may act on any record it is given the ID of,
also on one that is still being written; it then has an audit line only if what it loaded has an observation, since `Plan`
proposes nothing without evidence (`Actionable`).

The code protects a record neither from a second writer nor from an audit line that comes while it is written. `Disturbed`
says which records that happened to, by `Clash` and the history variable `audited`; the properties of the passing runs except those
records and nothing else, and `same_second` shows what becomes of them.

`Save` returns a path and `LoadID` refuses anything that is a path, so a
remote reader cannot use what `Save` returned (`RefusePath`).

Left out: the contents of observations, the 4 MiB limit of a line, and
renames or removals, which the code does not do. Writing is done by one `bufio`
buffer per saver: any split of the cells stands for its flushes.

`RecordLog` has one log per path, which grows at its end, and readers that get the
log of one moment or an error. The mapping drops the half lines. `disturbed` is a variable of it too: a log that is in it may
change in any way and be read in any way; a step disturbs at most one log and harms no other.

### Remediation

An operator is one run of `action <id> --apply <a> --yes`: `Choose` (load, replay,
`Plan`), then either `GetDeployment`, `ListReplicaSets`, `UpdateDeployment`, or
`DeletePod`, each with its failures, then `AppendAudit` whatever `Apply` returned. One
action is one request to the API server, because anything may happen between two. The
replayed result is reduced to what `Plan` reads. A ReplicaSet is its revision
under its template, 0 if there is none. The deployment controller and the
kubelet are external: `Reconcile` gives the ReplicaSet of the current template the highest
revision, `Annotate` copies it to the Deployment, `Prune` keeps to the history limit. `rollout`, `took` and
`settled` are history variables that only properties read.

### Server

A handler goes `new`, `collect`, (`list`, `store`, `storing`, `owner`) several times, `save`,
`answer`, `done`; `ref` is the target its `parseRef` found. Of an
investigation the model has what handlers share, the collector's `svcCache`: a lookup
that hits, or one that misses, lists the services and then writes the map.
Reading the map is one step and writing it is two, so a read or write by another goroutine may fall
into it; what the Go runtime then does (`MapRace`) is to end the process or not to notice.
The calls of a handler end with the context of its request, but the one for the owner of a ReplicaSet (`owner`, `topControllerName`)
has a context of its own that nobody cancels (`collector.go:420`): only an answer ends it. `Save` adds a record or, if
one of the same name is there, which may be of the same second, leaves one of the two or none; the file itself is in `IncidentStore`.
`services` gives the version of a namespace's services, `views` is a history variable with the lists an
investigation went by. Targets are sequences of the parts between slashes.
`Replay` loads a saved record and reads its target, with the command line's
`parseResourceRef` or the MCP server's `parseRef`.

Left out: the read-only endpoints, which are readers of `IncidentStore`; the
metrics; invalid JSON, which ends as a target that cannot be parsed does;
the other calls of a collection, which touch nothing that is shared.

### Workload, Analyzers and Diagnosis

`Investigation` has the engine with any collectors and analyzers; `Diagnosis` has the collectors and
analyzers and one pass. A world is the state of one workload: its pod, claim, node, service,
autoscaler, Kustomization, coreDNS, and the events and the commit one can still see. `Shift` is one
step of the scheduler, the kubelet, a controller or the window and may come between any two calls.
A call is one function of the collector (`pod`, `owners`, `claim`, ...); `LeftOf` is what it may keep when a
request of it fails (of the services, one without endpoints, `collector.go:400-402`) and `AfterFailure` where the pass goes on, which differs between the target itself
and what is around it. An analyzer is one operator that gives a hypothesis with margin,
evidence and missing entries, translated weight by weight. Scores are 10000 times the sigmoid, from a table,
so that different margins stay apart. `Emitted` concatenates them as `newEngine` registers them;
`configregression` ranges over a Go map, so its part comes in any order.

A kill for memory is the state of the container until it goes into back-off, and an event of the kubelet, if there is one, for as long as the
window reaches (`kills`); oom goes by both (`oom.go:57-73`), crashloop by the first.

Left out: metrics and logs (in `PodEvidence`), init containers, a second pod, claim or node, and adaptive rounds
(in `Investigation`). `Overlapping` says which names contain which, for the analyzers that compare substrings.

### AlertPayload, Scope and Pipeline

A text is a sequence of words, and a word has one of the forms that the regular expressions of `alert.go` tell apart. A
request is the flags, the environment, the settings file and the argument or the body; `ScopeOf` is
what the front of the command makes of it.

`Pipeline` goes on from there, in `runInvestigationPipeline`'s order: `Connect` (client and tag), `CompleteTarget` (the
namespace), `Investigate`, `CreateRecord`, `WriteSome`, `WriteRest` or `SaveFails`, the webhook,
then `memory.Similar` as `LoadOwn`, `ListRecords`, one `Compare` per listed record and `ShowSimilar`. A process may be
killed at any point. `SwitchContext` is kubectl and `RemoveRecord` a person; both are external. What an investigation finds is
reduced to the kinds it observes, which is all that `Similar` reads. The kubeconfig is read by `Connect`, which
remembers the context its client was built for (`client`), and again by `CompleteTarget`, as in the code. IDs are those of a second and a
slug: two commands whose targets have one slug may get the same one, and then share a file (`Shared`), which may hold any
mixture of what they wrote.

A `cluster_id` at the top of the settings is the tag of every context without its own, as `docs/configuration.md:28-30` documents it; so with the
example of that page `--context staging` is tagged `prod-eu`. `TagNamesTheCluster` allows that tag and no other that is not of the cluster.

Left out: `KUBETECTIVE_CLUSTER_ID` and `KUBETECTIVE_WEBHOOK_URL`, which go before the settings; the in-cluster fallback; `--since=0` given
explicitly; how two commands mix their lines in one file, which `IncidentStore` is about; the signature of the webhook. An error of `Parse`
is a body without a target, since either ends the command.

## 3. Runs

| run | instance | question |
|---|---|---|
| `merge_loop` | all lists of up to 3 emissions over 3 IDs, 2 resources and the empty ID, 3 scores or none | do the loops compute the definition |
| `live_pod` | 1 pod in any state, moving; wirings none, Kubernetes, all three live collectors, replay; `oom` may fail | does the engine return, for a reason, with a verdict on all it saw, and does it implement `Gathering` |
| `namespace` | 2 pods, logs on, budget 3: one request fits, two do not | do requests stay within the bounds when hypotheses compete |
| `store` | 2 savers with different names, the second of a later record version, 1 observation each; 1 reader that appends, 1 remote reader; 1 record outside | does a printed path load what was saved, is the store append-only logs |
| `same_name` | 2 savers of one name, in one second or two; 1 reader that appends to any record, also one being written | is a record that no clash and no early audit line disturbed as sound as ever, and is what loads one investigation's |
| `remediation` | 2 operators (symmetric), 3 templates and one of another Deployment, history limit 1, 2 edits, revisions with gaps | can a rollback overwrite an edit, install an unknown template, skip a revision, or be recorded wrongly |
| `server` | 2 clients, 2 namespaces, 4 bodies (one unusable, one of a node), services change once per namespace, 2 lookups | do handlers go by services of their own namespace, is a replay about what was investigated, do handlers and process end |
| `diagnosis` | 7 workloads, each about its pod or its Deployment, 2 changes of the cluster and 1 failing call anywhere in the pass | is what is blamed real, complete and in the right order, whatever the pass happened to see |
| `scope` | 1 command with any of 8 arguments or 13 payloads, 2 namespaces, 3 flags, 2 environments and 5 files, one with a tag at the top; 2 contexts of 2 clusters, 1 switch | is what is investigated what the request means, and is the tag true |
| `pipeline` | 2 commands on one cluster and on targets of one slug, in one second or two, one with a webhook; 4 past records, one of them removable, one untagged, one of another cluster; 1 similar incident shown | are notifications true, are the right incidents found, do commands end |
| `same_second` | 2 savers of one name, 1 second, 1 reader | does a printed path always lead to the record of its investigation, as `docs/api.md:76-78` says |
| `map_race` | the instance of `server` | is the cache of services safe, as a comment says |

The bounds are enough for these questions: three emissions are the
least with two ties and an outsider; two rounds are the code's own constant; one
pod reaches all collector failures and both analyzers (a pod that is OOM-killed and then backs
off is seen by both), and two pods are the least for which one request takes
another's budget. Two processes suffice for the files, since a property
relates one reader to one writer and a third party only adds writes of the
same kinds; a record of three lines has a first, a middle and a last one. Three templates
are the least for which a rollback could go back two revisions, and two edits
the least that change a template and bring it back. Two
clients are the least that share a map, and a third would do what the second
does. In `diagnosis` two changes are the least with a state that is seen neither first nor last, and the seven
workloads start from those states from which two changes reach every symptom: crash, kill, failed pull, failed probe,
unbound claim, pressure, coreDNS down. In `scope` every request is checked alone, since a request does not see
another one; what processes do to each other goes through the store, and there two of them, one of which may find
the record of the other complete, torn, cut or empty, show all that Similar can meet. With one incident shown, the
order of the matches decides which.

What the violated runs show:

- `same_second`: `docs/api.md:76-78` says every investigation is recorded and can be replayed by the ID in its answer. Two investigations of one
  name in one second have one ID, whatever their kinds and namespaces, and `Save` truncates (`record.go:73`, `:90-94`, `:117`): the first
  answer leads to the record of the second, or to one that does not load.
- `map_race`: `kubernetes/collector.go:29-30` says the cache is safe because the engine
  runs collectors one after the other; `serve` gives one collector to concurrent handlers.

Divergences that TLC found as well, as violations of the stronger forms of passing properties; each property states its exception:

- `AuditLinesStay`, that an audit line stays in its file: `reports/security/review-v1.0.md:93-94` says every apply appends an audit record. An
  action applied on a listed record that is still being written has its line overwritten, as the writer goes on at its own offset. Excepted as `Disturbed`.
- `ScopeIsMeant` without its condition: `docs/configuration.md:3-4` and `root.go:347-348` say the kubeconfig is read like kubectl does. It is read
  twice, for the client (`root.go:193`) and for the namespace (`:355`); if kubectl switches the context in between, the cluster of one is
  searched in the namespace of the other.
- `TagNamesTheCluster` for a context named by the environment or the file: `docs/configuration.md:49` says `KUBETECTIVE_CONTEXT` is the same as
  `--context`. It picks the settings (`root.go:191`, `:247`, `:344`), but the client (`:193`) and the namespace (`:355`) get the flag only, so the current
  cluster is read with the settings, and tagged with the name, of another. `context:` in `kubetective.yaml` has the same effect.
  `doctor` (`:495-505`) checks the cluster that was named.
- `KillOutranksSymptoms` without its exception: `probe.go:21` says a kill for memory outranks a failing probe. Evidence against the probe costs it
  20 points, so it has at least 30; a first kill without a limit on a node under memory pressure has 29.
- `KillOutranksSymptoms` for a kill that only events tell of: `oom.go:44-48` calls them the authoritative history in back-off, and `crashloop.go:94`
  memory exhaustion the more specific cause. But the contradiction of crashloop reads the state of the container only: without a limit oom has
  41, or 51 after a second kill, and crashloop 55.
- `QuietWhenHealthy` without its exception: `engine_test.go:259-260` says a healthy pod has no findings. `endpointsCount` answers 0 when the
  Endpoints cannot be read (`collector.go:400-402`), so one failed request blames the service, and no gap tells of it.

Divergences noticed while modelling, plain enough from the code to need no run:

- `engine.go:41` calls the budget one for the investigation; the sum at
  `:212-214` starts afresh in each of the two rounds.
- `loki.go:65`: a Loki that is down or empty leaves no evidence gap.
- `oom.go:159` and `:247`: a container without a memory limit has the limit both as
  evidence and as missing.
- `hypothesis.go:10` and `:62`: "on the same resource" is decided against the top hypothesis of the
  whole list only.
- `record.go:154`, `rest.go:83-84`, `docs/openapi.yaml:23`: `meta.record_id` of an answer is a file path,
  which `GET /v1/incidents/{id}` refuses.
- `rest.go:50` says logs default to on; `:68-70` leaves them off.
- `collector.go:420`: the owner of a ReplicaSet is read with a context of its own, so a handler whose client left can stay there
  for as long as the API server is silent; `FreesItsHandler` says that it is the only place.
- `server_cmds.go:302-303` takes the ID of any record, also of one that is still being written.
- A cancelled request still yields a record, with its failed collectors as gaps.
- `server_cmds.go:358`: the audit line of a record loaded by path goes to the default directory, and is only
  a note on stderr if it fails. `apply.go:27`: nothing checks that an action took effect.
- `apply.go:73-74`: the current revision is that of the ReplicaSets, which lag behind an edit.
  `apply.go:99-104`: a pod without a controller does not come back.

The engine and the server:

- `kubernetes/collector.go:508-510` says logs are fetched when an analyzer asks for them; the guard at `:159` reads `scope.Logs`
  alone, which no request sets.
- `kubernetes/collector.go:384` says services are cached per `Collect`; under `serve` they are cached until it ends.
- `docs/api.md:5-7`: a record's target is kind/namespace/name, and the MCP tools `replay` and `action_preview` read it as
  namespace/kind/name (`mcp.go:191`).
- `action.go:76` gives as the reason of a rollback that it reverts what preceded the failure; it goes back from whatever is current, so
  the same action applied twice installs the failed template again.
- `score.go:26`, `render.go:307`: a process scores on the temperature it started with.
- `calibrate.go:315` says calibration error is minimized; what is minimized is the likelihood.
- `graph.go:57`, `:70`: nodes over the budget are dropped, edges to them are not. `change.go:41` takes every observed Deployment for a change.

The analyzers:

- `configregression.go:134` ranges over a map while `root.go:421-423` promises the same result for the same record: ties come in a
  different order, and with it the statuses of the others. `OrderOnlyBreaksTies` shows that no score, evidence, card or severity differs.
- `configregression.go:270-284` takes the onset from whatever is observed now, so a commit is recent for a crash and old for the
  back-off that follows; the verdict depends on the moment, which `crashloop.go:67-70` set out to prevent.
- Every observed Deployment counts as a change, coreDNS too, which gives a hypothesis `configregression.coredns` with any symptom.
  `hasSymptom` counts `ContainerCreating` and `Completed`.
- `service.go:138-141` calls pods ready that are in phase Running.
- `pvc.go:67-75`: the loop over failure events accepts the claim's own state, so an event is always found.
- `scheduling` names a group without a Pending state `scheduling.`, which `ValidID` (`hypothesis.go:100`) refuses; and it
  blames the scheduler for pods that are scheduled and still create containers or pull images.
- `oom.go`: in back-off a kill without an event of the kubelet is no longer observed and the loop is blamed instead. oom counts the restarts of a
  container that is not waiting only (`:87-91`). Node pressure, which `scale.go:13-17` lets
  outrank the memory hypotheses on its node, is only a penalty there for any node.
- The rule of one resource lets a commit on a pod rule out what failed in that pod.
- git reports a commit on the target whichever name its files matched, and the GitOps collector takes every Kustomization of
  the namespace to be about the target.

The commands and the payloads:

- `alert.go:136-140`: of several pod keys in the details the last wins, of several workload keys the first (`:142-147`).
  The details are read only without a title, though the comment at `:86-90` ranks them before the subject; their namespace is never read.
- `alert.go:429-431` says `since=` mirrors the flag: `since=90s` is ignored, `since=1h30m` is an hour, `since=2d` is nothing.
- `docs/alerts.md:25` says a payload without a target fails instead of guessing: "pod is failing" is a pod `is`,
  any single word of Slack is a pod, and kinds are accepted that the collector does not support.
- A `workload` label is a Deployment, a `workload` detail a resource of kind `workload`.
- An invalid `since` in the settings is an error for `investigate` and ignored by `alert`; there `--since=0` is too.
- `root.go:103-106` does not know `serve`, `mcp`, `incidents` and `action`.
- `root.go:385`: without a record the notification's incident ID is `.`.
- `investigate` without an argument and a namespace is about the namespace "".
- `investigate pod//web-1 --namespace pay` goes by the settings or the context: the empty part replaces the flag (`root.go:581`).
- The tag of a cluster depends on how its context was selected: by flag it is the one of the profile, as the current context the
  derived one, and `Similar` does not find the ones with the other.

### Fairness

`Investigation`: weak fairness on the engine's steps, none on the world. `Investigate` runs in
one goroutine and waits for nothing but its collectors. The Prometheus and Loki
clients time out after 10 and 15 seconds. The Kubernetes client has no timeout
of its own; for it the assumption is that the API server answers or the
connection breaks.

`Server`: weak fairness on every step of a handler that waits for nothing outside, on the end of `Shutdown` and
on its timer. There is none on the answers of the API server (`ListOk`, `ListFails`, `OwnerAnswers`): a handler may wait for
the first two for ever unless its client leaves, for the last even then, and the process ends all the same.

`Remediation`: weak fairness on the controllers, which only rules out runs in which the
cluster stands still. No operator has to go on, and its properties are safety
properties. `IncidentStore` has no fairness: a process may be killed at any time.

`Pipeline`: weak fairness on the steps of every process, for `Finishes`. What it waits for outside is the
API server, with the assumption made for `Investigation`, and the webhook, which has a timeout of ten seconds
(`notify.go:60`). Being killed ends it too; kubectl and people need not do anything.
`Diagnosis` has safety properties only.

## 4. Proofs

`HypothesisProofs` proves of `Merge`, for every list: the result has one verdict
per non-empty ID in descending score (`MergeRanks`), and loses no evidence and no
missing entry (`MergeKeepsEvidence`). What it returns goes by the set of what was emitted (`MergeIsFromSet`): two lists of the same
hypotheses give the same IDs with the same evidence, and the same score at each place (`OrderOfEmission`). The latter is not
obvious, as the places of equals differ; it follows from counting: the first k entries of one ranking are k entries of the other, so its k-th score cannot be less. Places in a strict total order are the numbers 1 to n (`OrderNumbers`); the
existence of a smallest, a first and a best element follows (`HasSmallest`, `OrderHasFirst`, `HasBest`).

`MergeLoopProofs` proves that the loops of `Merge` compute that definition, for every list of hypotheses (`LoopIsMerge`).
`LoopComputesMerge` speaks of the last state only; the invariant says what each loop has done on its way. In the first
loop, `byID` holds the merged entries of the prefix that was read (`Collected`) and `order` their IDs by first emission
(`Opened`): one more emission is new (`AppendNew`), or is absorbed by the entry of its ID, which keeps the better margin and
both lists of evidence (`AppendSame`), and leaves the others alone (`AppendOther`). In the sort, `out` is a sorted list of exactly the entries inserted so
far (`Sorted`); an insertion keeps that (`InsertSorted`), and a sorted list of all entries is the ranking
(`SortedIsRanked`), because the place of an entry is one more than the number of entries before it. In the last loop the first `i - 1`
places have their status (`Ruled`); giving one changes no ID and no score, so `StatusAt` of the later ones stays (`StatusKeeps`).

`InvestigationProofs` proves of `Spec`, for all collectors, analyzers, worlds
and bounds that satisfy the assumptions named in `Investigation`:
`TypeCorrect`, `BoundsHold`, `AsksAreWanted`, `VerdictsAreFresh`, `NeverGivesUpEarly` and
`InvestigateKeepsItsPromise` (every step of the engine is a step of `Gathering` or a
stutter). All follow from one inductive invariant, `IInv`. `TypeOK` and
`RequestsBounded` alone are not inductive: that a round may start needs `round <
maxAdaptiveRounds` whenever requests are formed (`RoundsLeft`); that a request
is wanted when it is sent needs to be known from the moment it is accepted
(`AsksWanted`); that nothing affordable is missing when the engine stops needs a fact about every
request the loops have already passed (`NothingFits`, over `Passed`): if no request
has been accepted, each of those costs more than the budget. `ReportIsFinal` and
`BuiltFromAll` tie the report to the observations for the refinement. `FreshVerdict` speaks of the report; it holds because
the analyzers that have run have emitted and found exactly what they yield over the current observations
(`AnalyzedSoFar`), which stays true through the rounds that bring nothing (`AnalyzedAll`). What all analyzers emit is a
recursive function over their list; that it has a solution is shown by a shortest list for which it had none
(`EmittedByRuns`).

The last section, `CascadesAreVisible`, is about the collectors of `PodInvestigation` and uses two assumptions more: the four
collectors answer as modelled (`PodAssumption`), and a wiring lists Kubernetes once and never Prometheus along with a replay
(`StagedAssumption`; `buildLiveCollectors` of `root.go` does not build another one). `CascadeVisible` looks back at all passes; its
invariant `Staged` looks at the next collector of this one: the pods it is given are those of this pass (`PodsAreFresh`), none if
Kubernetes failed in it, since neither metrics nor logs name a pod (`NoPodsAdded`).

`DiagnosisProofs` proves of a pass, for all worlds, names, commits and numbers of changes and failing calls: `TypeCorrect`,
`HealthyIsQuiet`, `ClaimFirst` and `KillFirst`. The reports are functions of what was observed, so the invariant is about
observations: each is about the resource its kind says (`Placed`), what was read of the pod is one GET at one moment or nothing
(`PodReadOnce`), and while the workload was healthy only calm observations were made, but for a service whose endpoints could not be read
(`CalmWhenHealthy`). `PodReadOnce` is what
keeps a killed container from also being seen running or waiting (`KilledOnly`), which would give the probe ten points and the
name error twenty more. From there: `Emitted` is a list over `Emissions`, in whichever order Go ranges over the changes (`EmittedIs`);
one lemma per analyzer names the margins its weights can add up to (`MemorySays`, `ProbeSays`, ...); and what scores higher in
every emission is placed higher by `Merge` (`Outranks`, from the places of `HypothesisProofs`). So the two rankings come down to
the comparison of a few margins: 60 with 40 at most for the claim, 39 with 35 at most for the kill that is the state of its container, and
29 in the one case `KillOutranksSymptoms` excepts. A kill that only events tell of is excepted. The first four theorems assume nothing but the types in `DiagnosisAssumption` and `TimesAssumption`; not even that names differ.

Two theorems compare rankings. `OrderIsForTies` is `OrderOfEmission` for what the orders of the changes emit.
`LoopIsALoop` takes a pass apart at once (`AtOnce`) and shows that the analyzers but two say the same of the two states of a loop, with the same
evidence (`SameButChanges`): the one for changes, whose age counts from the onset, and the one for kills.

`BlameHasAMoment` relates a pass to passes that did not take place. Its invariant `Timed`, itself a theorem (`InTime`), is about the worlds since the pass
began: every observation is one that a pass at one of them would have made (`ReadInTime`). That is not enough where an
analyzer puts two observations together; for those the invariant knows which of the two can come later. A pod that was seen running or placed
does not go back (`Kept`), so events and state can be taken together; and a pull only fails for its name while coreDNS is down,
so if coreDNS was seen down and no event says so, there was a moment before the events at which it was down
(`DnsInTime`). This uses that the cluster starts in a world whose events its pod can have been through (`Plausible`: no
failed probe of a container that never ran, no failed pull without a node), which is part of `DiagnosisAssumption`.

`FailuresExplained` goes by the state of the pod: what it does to each observation (`AroundRead`), which
margins its analyzer has then (`ShownToItsAnalyzer`), and that no other analyzer but the one for commits says enough about the same
pod to rule it out (`OtherEmissions`, `RuledOutBy`). It needs two assumptions more. `GapAssumption`: the outranking gap is at least the 0.25 of
`hypothesis.go:24`. With a smaller one a hypothesis of the same pod would be ruled out by a near neighbour. And
`NamesAssumption`: a pod is not named like its Deployment, its node or its claim, nor `unknown`; otherwise a
hypothesis about one of these is about the same resource and could rule out the one about the pod.

The proofs found two slips of the model. Coming to coreDNS, `Emitted` was given the name of its Deployment in place of the
reference, so that it was never seen down; now it is given `DnsRef`. And `AtOnce` read all calls of a pass once, although the node and the commit
are looked up from what other calls have read; now it reads them twice.

`IncidentStoreProofs` proves of the store, for any number of investigations, readers, records and clock ticks:
`TypeCorrect`, `SavedRecordsLoad`, `LoadsAreUnmixed` and the refinement `StoreKeepsLogs` of `RecordLog`, all from `ActorAssumption` and `StoreAssumption`
alone. Nothing is assumed of names, seconds or of which records actions are applied on: investigations may share an ID and actions may come
early, and the statements are about every record to which neither has happened (`Disturbed`). So the proofs must show besides that
what happens to a disturbed record stays there, and that a record is not disturbed unnoticed: that a file without a clash has one
writer, also before the second has its ID, and that an audit line which comes late comes to a file whose writer is through (`Clear`).
The invariant says that every record file is some investigation's (`Owned`), that unless disturbed it is its writer's cells up to its offset and, once closed
whole, audit lines behind them (`Contents`), and that what a reader has read is a beginning of what the file is now
(`Reading`); `FilesGrow`, a fact about every step, carries the last part on. The lemmas about cells (`WriteOn`, `AppendLine`,
`LinesOfCut`) say what half lines do to the lines `Load` sees.

`RemediationProofs` proves, for any number of operators, templates, ReplicaSets and edits
under `DeploymentAssumption`: `TypeCorrect`, `TheTrailIsTrue`, `EditsSurvive`,
`RollbacksAreKnown` and `RollbackGoesBackOne`. `EditsSurvive` and `RollbacksAreKnown` are about steps and follow from two parts of its `IInv`: the
resourceVersion an operator holds is at most the current one and, if equal, its template is the current one
(`VersionsTell`), so the update that the API server takes has seen every edit; and every ReplicaSet of the
Deployment, hence every template chosen, has a revision in the rollout history (`SetsAreRevisions`, `ChoicesAreRevisions`). `TrailIsTrue`
needs that a success is only returned once the cluster took the action (`DoneIsTaken`). `RollbackGoesBackOne` proves `SettledGoesBackOne`
with two parts more (`RInv`): the revisions are in the order in which the templates were last used, and what is pruned was used
before everything that is left (`InOrder`, which the assumption asks of the initial ReplicaSets, as the deployment controller numbers
them so); and an operator that read a settled Deployment knows, until somebody writes to it, that it is still
settled and that what it chose is the template before (`SettledKnows`). `PreviousPrecedes` is the heart of it: if another template
had been used in between, its ReplicaSet would be there with a revision between the two.

`ServerProofs` proves the three invariants of the `server` run (`TypeCorrect`, `HandlersGoByRealLists`,
`ReplaysFindTargets`) for any number of clients and namespaces, from
`ServerAssumption` (the bounds are numbers and `NoList` is no list). That views are real needs the same of what is
in the map and of what a handler is about to put there (`CacheIsReal`, `ListedIsReal`), and that a handler at a
lookup knows its namespace (`LookupsAreOwed`). That a replay is about the right resource is the lemma
`TextTellsTarget` (`parseResourceRef` reads what `String` writes, for what `parseRef` can return), carried from the
handler to the record by `RecordsTellTargets`.

`PipelineProofs` proves, for any number of processes, requests, contexts and past records that satisfy the assumptions of `Pipeline`:
`NotificationsAreTrue`. What is told must stay true while records are cut and removed, so `IInv` says where a process stands
with its record (`Shape`), that its scope and tag are final from then on (`Progress`), that a saved record is there under its ID and,
if no other command has that ID, whole (`Kept`), and that every notification is that of a process (`Told`). IDs are not assumed to differ; of a file that two
commands write nothing is claimed but that it is there. And `TagsAreTrue`, whose invariant `TInv` carries
the tag with the choice it came from; the step is the lemma `ConnectTags`, by cases on whether a profile was chosen.

`SimilarAreScoped` and `BestAreShown` are about the search. Its invariant `SInv` says of the store that past records stay as they
are until people remove them and new ones carry the tag of their writer (`Stored`); of a process that compares, that
its matches are others of its cluster (`Found`) and that every incident due is still to be compared or among them, once (`Searching`).
The sort then shows the best, because `Closer` is a strict total order: overlaps are compared as fractions (`MoreIsOrder`),
equal ones by ID (`NearnessIsOrder`), and places in such an order are the lemmas of `HypothesisProofs`
(`InOrderPlaces`, `ShownIsBest`). A process that is done keeps what it shows: people may
remove a record afterwards, and then it is no longer due.

`ScopesAreMeant`: until the target is completed, the scope is the one the request asks for (`AInv`), and only `CompleteTarget`
makes a connected process ready. What is left is about operators: which target a text, a label set or a body can have
(`ParseTarget`: never a node, a namespace only by name) or an argument (`ParsedReference`), that a duration is zero only if none was
given (`WindowType`), and for each door that the namespace is the first given of five (`AlertMeant`, `ArgumentMeant`). `MeantNamespace` takes the
namespace of the context that the client was built for, not of the one current at the second read; the theorem therefore asks that the two
agree where the kubeconfig decides. A first statement of the property was wrong in a corner that the proof
found: a reference in three parts with an empty namespace, `pod//web-1`, gets the namespace of the settings or the context, never the one of
`--namespace` (`root.go:570-589`). What such a reference means is not documented, so the property is about well-formed ones (`WellFormed`) and the corner
is listed above. `TypeCorrect` adds to the invariants above the types they did not need (`YInv`). It
assumes of requests what `IsRequest` says, and of `Strings` that it holds the kinds the code names.

Only model-checked: `Termination`, `DrainEnds`, `FreesItsHandler` and `Finishes`, which are liveness under fairness and out of
the prover's reach. Every other property of a run that passes is stated by a theorem;
the statements of the two violated runs do not hold.

## 5. Plan

What is left to do, in this order:

1. The evidence graph under its node budget, if a verdict ever comes to read it.
2. Init containers and a second pod in `Workload`.

## 6. Not modelled

The evidence graph, the timeline and the correlation of changes: folds and sorts of observations that only the rendered report reads, no verdict.
Calibration: Newton steps over floating-point likelihoods are out of reach of TLC, and what remains is one number that
a process reads when it starts. Recommendations: a table. Redaction and the synthesis by a language model (text over a finished
report that changes no verdict), logging, `doctor`, formatting, the rewriting of records for scenarios and the benchmark harness.
