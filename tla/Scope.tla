--------------------------------- MODULE Scope ---------------------------------
(***************************************************************************)
(* internal/config and the front of the commands investigate and alert: how    *)
(* a request on the command line or in a webhook body, the environment and      *)
(* kubetective.yaml become the target and the window of an investigation.       *)
(*                                                                         *)
(* A request is a record:                                                   *)
(*   door       "investigate" or "alert"                                     *)
(*   arg        the parts of the argument between slashes, <<>> without one   *)
(*   payload    the webhook body                                            *)
(*   namespace, since, context   the flags, none if not given                *)
(*   env        KUBETECTIVE_CONTEXT                                          *)
(*   file       kubetective.yaml: its top level and its profiles by context   *)
(***************************************************************************)
EXTENDS AlertPayload

(* Settings. *)

SettingsSet ==
  [context : Strings, namespace : Strings, since : Durations, clusterId : Strings, webhook : Strings]

\* The requests the doors take: an unknown provider is refused before it is read.
IsRequest(r) ==
  /\ r.door \in {"investigate", "alert"} /\ r.arg \in Seq(Strings)
  /\ r.door = "alert" => IsBody(r.payload)
  /\ {r.namespace, r.context, r.env} \subseteq Strings /\ r.since \in Durations
  /\ r.file.top \in SettingsSet
  /\ \A c \in DOMAIN r.file.clusters : r.file.clusters[c] \in SettingsSet

merge(s, p) ==
  [context   |-> FirstNot("", <<p.context, s.context>>),
   namespace |-> FirstNot("", <<p.namespace, s.namespace>>),
   since     |-> FirstNot(NoDuration, <<p.since, s.since>>),
   clusterId |-> FirstNot("", <<p.clusterId, s.clusterId>>),
   webhook   |-> FirstNot("", <<p.webhook, s.webhook>>)]

ForContext(file, context) ==
  IF context \in DOMAIN file.clusters THEN merge(file.top, file.clusters[context]) ELSE file.top

\* The context whose settings a command takes.
Chosen(r) == FirstNot("", <<r.context, r.env, r.file.top.context>>)

\* A slip: the profile of the file's own context, whatever the flag says.
EffectiveOfFile(r) == ForContext(r.file, FirstNot("", <<r.file.top.context, r.env, r.context>>))

Effective(r) == ForContext(r.file, Chosen(r))

-------------------------------------------------------------------------------
(* The argument. *)

parseResourceRef(parts, ns) ==
  LET ref == CASE Len(parts) = 1 -> Ref("pod", ns, parts[1])
               [] Len(parts) = 2 -> Ref(parts[1], ns, parts[2])
               [] Len(parts) = 3 -> Ref(parts[1], parts[2], parts[3])
               [] OTHER -> NoRef
  IN IF ref.kind = "" \/ ref.name = "" THEN NoRef ELSE ref

parseTarget(parts, ns) ==
  IF parts = <<>> THEN Ref("namespace", ns, ns) ELSE parseResourceRef(parts, ns)

-------------------------------------------------------------------------------
(* The two doors.  A scope without a target or with an invalid window ends the   *)
(* command with an error.                                                     *)

DefaultWindow == 1800   \* 30 minutes

\* A flag that was not given leaves the setting, and a setting that is not there the default.
InvestigateScope(r) ==
  LET st == Effective(r)
  IN [target |-> parseTarget(r.arg, FirstNot("", <<r.namespace, st.namespace>>)),
      window |-> IF r.since # NoDuration THEN ParseDuration(r.since)
                 ELSE IF st.since # NoDuration THEN ParseDuration(st.since)
                 ELSE DefaultWindow]

\* A slip: the settings go before the payload.
AlertScopeSettingsFirst(r) ==
  LET st == Effective(r)
      p == Parse(r.payload)
      fromFile == IF ParseDuration(st.since) = Invalid THEN 0 ELSE ParseDuration(st.since)
      ns == FirstNot("", <<p.target.ns, r.namespace>>)
  IN [target |-> IF p.target = NoRef THEN NoRef ELSE [p.target EXCEPT !.ns = ns],
      window |-> FirstNot(0, <<ParseDuration(r.since), fromFile, p.window, DefaultWindow>>)]

\* --since, then the payload, then the settings as far as they parse, then the default.
AlertScope(r) ==
  LET st == Effective(r)
      p == Parse(r.payload)
      fromFile == IF ParseDuration(st.since) = Invalid THEN 0 ELSE ParseDuration(st.since)
      ns == FirstNot("", <<p.target.ns, r.namespace>>)
  IN [target |-> IF p.target = NoRef THEN NoRef ELSE [p.target EXCEPT !.ns = ns],
      window |-> FirstNot(0, <<ParseDuration(r.since), p.window, fromFile, DefaultWindow>>)]

ScopeOf(r) == IF r.door = "alert" THEN AlertScope(r) ELSE InvestigateScope(r)
Refused(scope) == scope.target = NoRef \/ scope.window = Invalid
===============================================================================
