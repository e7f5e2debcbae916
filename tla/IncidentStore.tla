----------------------------- MODULE IncidentStore -----------------------------
(***************************************************************************)
(* internal/record and the audit sink of internal/action: incident records as   *)
(* files that several processes and request handlers save, load and append to. *)
(*                                                                         *)
(* A file is a sequence of cells.  Every JSONL line is two cells, its head and  *)
(* its tail with the newline, so that a write, a read or a crash may fall       *)
(* between them.  A writer keeps its own offset, as a file descriptor does;     *)
(* O_TRUNC empties the file under it, and what it then writes beyond the end    *)
(* leaves a hole.                                                             *)
(***************************************************************************)
EXTENDS Integers, Sequences, SequencesExt, FiniteSets

CONSTANTS
  Savers,        \* investigations that save their incident
  slug(_),       \* slug(s): the slug of the name of the target of s
  NumObs(_),     \* NumObs(s): how many observations s made
  Readers,       \* calls of Load
  Acting,        \* readers that are `action --apply`: they append an audit line
  Remote,        \* readers that come over the network: they use LoadID
  Outside,       \* paths outside the store that a reader may be given
  namesake(_),   \* the path in the store with the base name of an outside path
  OutsideLines,  \* the lines of the records there
  MaxClock,      \* bound on the seconds that pass
  Newer,         \* savers built from a later record version
  NoFile, NoID, NoSaver, NoPath, NoAnswer, Failed

ASSUME ActorAssumption ==
  /\ Acting \subseteq Readers /\ Remote \subseteq Readers
  /\ NoSaver \notin Savers
  /\ \A s \in Savers : NumObs(s) \in Nat
  /\ MaxClock \in Nat

VARIABLES
  now,           \* the clock, in seconds
  files,         \* path -> its cells, or NoFile
  save,          \* saver -> where it is: built, open, saved, failed, killed
  id,            \* saver -> the ID BuildIncident gave it
  offset,        \* saver -> its file offset
  load,          \* reader -> where it is
  asked,         \* reader -> the saver whose Save told it the path, or NoSaver
  path,          \* reader -> the path it opened
  got,           \* reader -> the cells read so far
  answer,        \* reader -> NoAnswer, Failed or the lines Load has gone through
  audited        \* history: reader -> whether it appended its audit line, and if so
                 \* to a record whose writer was through (late) or not (early)

vars == <<now, files, save, id, offset, load, asked, path, got, answer, audited>>
savers == <<save, id, offset>>
readers == <<load, asked, path, got, answer, audited>>

Ids == (0..MaxClock) \X {slug(s) : s \in Savers}

\* DefaultDir()/<base name>: where AppendAudit writes for a record loaded from p.
auditPath(p) == IF p \in Outside THEN namesake(p) ELSE p

Paths == Ids \cup Outside \cup {auditPath(p) : p \in Outside}

-------------------------------------------------------------------------------
(* Lines and cells. *)

Meta(s) == [kind |-> "meta", of |-> s, n |-> 0]
Observation(s, n) == [kind |-> "observation", of |-> s, n |-> n]
Result(s) == [kind |-> "result", of |-> s, n |-> 0]
AuditOf(r) == [kind |-> "audit", of |-> r, n |-> 0]

\* What Save encodes: the meta line, the observations in order, the result.
Record(s) ==
  [n \in 1..NumObs(s) + 2 |->
     IF n = 1 THEN Meta(s)
     ELSE IF n = NumObs(s) + 2 THEN Result(s) ELSE Observation(s, n - 1)]

Cells(lines) ==
  [k \in 1..2 * Len(lines) |->
     [line |-> lines[(k + 1) \div 2], part |-> IF k % 2 = 1 THEN "head" ELSE "tail"]]

Hole == [line |-> [kind |-> "none", of |-> NoSaver, n |-> 0], part |-> "hole"]

\* A write of some cells at an offset.
Written(cells, at, new) ==
  [k \in 1..(IF at + Len(new) > Len(cells) THEN at + Len(new) ELSE Len(cells)) |->
     IF k \in at + 1..at + Len(new) THEN new[k - at]
     ELSE IF k <= Len(cells) THEN cells[k] ELSE Hole]

Lines ==
  (UNION {{Record(s)[n] : n \in DOMAIN Record(s)} : s \in Savers})
  \cup {AuditOf(r) : r \in Readers} \cup {OutsideLines[n] : n \in DOMAIN OutsideLines}
  \cup {Hole.line}

Cell == [line : Lines, part : {"head", "tail", "hole"}]

ASSUME StoreAssumption ==
  /\ NoID \notin Paths /\ NoPath \notin Paths /\ NoFile \notin Seq(Cell)
  /\ Outside \cap Ids = {}
  /\ OutsideLines \in Seq(Lines)
  /\ NoAnswer # Failed /\ NoAnswer \notin Seq(Lines) /\ Failed \notin Seq(Lines)

LinesIn(cells) == [n \in 1..Len(cells) \div 2 |-> cells[2 * n].line]

\* Every line parses: it is the head and the tail of one line.
Whole(cells) == cells = Cells(LinesIn(cells))

-------------------------------------------------------------------------------

Init ==
  /\ now = 0
  /\ files = [p \in Paths |-> IF p \in Outside THEN Cells(OutsideLines) ELSE NoFile]
  /\ save = [s \in Savers |-> "start"]
  /\ id = [s \in Savers |-> NoID]
  /\ offset = [s \in Savers |-> 0]
  /\ load = [r \in Readers |-> "start"]
  /\ asked = [r \in Readers |-> NoSaver]
  /\ path = [r \in Readers |-> NoPath]
  /\ got = [r \in Readers |-> <<>>]
  /\ answer = [r \in Readers |-> NoAnswer]
  /\ audited = [r \in Readers |-> "no"]

Tick ==
  /\ now < MaxClock
  /\ now' = now + 1
  /\ UNCHANGED <<files, savers, readers>>

(* Save. *)

\* BuildIncident: the second it is called in and the slug of the target.
Build(s) ==
  /\ save[s] = "start"
  /\ id' = [id EXCEPT ![s] = <<now, slug(s)>>]
  /\ save' = [save EXCEPT ![s] = "built"]
  /\ UNCHANGED <<now, files, offset, readers>>

\* O_CREATE|O_WRONLY|O_TRUNC.
OpenToSave(s) ==
  /\ save[s] = "built"
  /\ files' = [files EXCEPT ![id[s]] = <<>>]
  /\ save' = [save EXCEPT ![s] = "open"]
  /\ UNCHANGED <<now, id, offset, readers>>

\* The directory or the file cannot be created.
OpenFails(s) ==
  /\ save[s] = "built"
  /\ save' = [save EXCEPT ![s] = "failed"]
  /\ UNCHANGED <<now, files, id, offset, readers>>

\* The buffered writer hands the kernel a piece that may end anywhere.
Write(s) ==
  /\ save[s] = "open" /\ offset[s] < Len(Cells(Record(s)))
  /\ \E upTo \in offset[s] + 1..Len(Cells(Record(s))) :
       /\ files' = [files EXCEPT ![id[s]] =
                      Written(@, offset[s], SubSeq(Cells(Record(s)), offset[s] + 1, upTo))]
       /\ offset' = [offset EXCEPT ![s] = upTo]
  /\ UNCHANGED <<now, save, id, readers>>

\* The disk is full: Save returns the error and leaves the file as it is.
WriteFails(s) ==
  /\ save[s] = "open" /\ offset[s] < Len(Cells(Record(s)))
  /\ save' = [save EXCEPT ![s] = "failed"]
  /\ UNCHANGED <<now, files, id, offset, readers>>

\* A slip: Save returns the path before the buffer is flushed.
SaveReturnsEarly(s) ==
  /\ save[s] = "open"
  /\ save' = [save EXCEPT ![s] = "saved"]
  /\ UNCHANGED <<now, files, id, offset, readers>>

\* Flush returned: Save gives the path, which the pipeline prints and the server sends.
SaveReturns(s) ==
  /\ save[s] = "open" /\ offset[s] = Len(Cells(Record(s)))
  /\ save' = [save EXCEPT ![s] = "saved"]
  /\ UNCHANGED <<now, files, id, offset, readers>>

\* The process is killed; what it had not written is lost.
Killed(s) ==
  /\ save[s] \in {"built", "open"}
  /\ save' = [save EXCEPT ![s] = "killed"]
  /\ UNCHANGED <<now, files, id, offset, readers>>

-------------------------------------------------------------------------------
(* Load and LoadID. *)

\* List: the names in the store directory.
List == {p \in Paths \ Outside : files[p] # NoFile}

\* LoadID refuses a path, the one that Save returned as any other.
RefusePath(r) ==
  /\ load[r] = "start" /\ r \in Remote
  /\ Outside # {} \/ \E s \in Savers : save[s] = "saved"
  /\ answer' = [answer EXCEPT ![r] = Failed]
  /\ load' = [load EXCEPT ![r] = "done"]
  /\ UNCHANGED <<now, files, savers, asked, path, got, audited>>

\* The path comes from a Save that returned,
OpenPrinted(r) ==
  /\ load[r] = "start" /\ r \notin Remote
  /\ \E s \in {s \in Savers : save[s] = "saved"} :
       /\ asked' = [asked EXCEPT ![r] = s]
       /\ path' = [path EXCEPT ![r] = id[s]]
  /\ load' = [load EXCEPT ![r] = "open"]
  /\ UNCHANGED <<now, files, savers, got, answer, audited>>

\* the ID from the listing, or any path stands on the command line.
OpenListed(r) ==
  /\ load[r] = "start"
  /\ \E p \in List \cup (IF r \in Remote THEN {} ELSE Outside) :
       path' = [path EXCEPT ![r] = p]
  /\ load' = [load EXCEPT ![r] = "open"]
  /\ UNCHANGED <<now, files, savers, asked, got, answer, audited>>

\* A slip: the rest of a buffer is dropped when the next one is filled.
ReadDropsRest(r) ==
  /\ load[r] = "open"
  /\ \E from \in Len(got[r]) + 1..Len(files[path[r]]) :
       \E upTo \in from..Len(files[path[r]]) :
         got' = [got EXCEPT ![r] = @ \o SubSeq(files[path[r]], from, upTo)]
  /\ UNCHANGED <<now, files, savers, load, asked, path, answer, audited>>

\* The scanner fills its buffer with a piece that may end anywhere.
Read(r) ==
  /\ load[r] = "open"
  /\ \E upTo \in Len(got[r]) + 1..Len(files[path[r]]) :
       got' = [got EXCEPT ![r] = @ \o SubSeq(files[path[r]], Len(@) + 1, upTo)]
  /\ UNCHANGED <<now, files, savers, load, asked, path, answer, audited>>

Unsupported(lines) == \E n \in DOMAIN lines : \E s \in Newer : lines[n] = Meta(s)

\* A slip: the incident is returned and the loop goes on.
LoadReturnsTwice(r) ==
  /\ load[r] = "open" /\ Len(got[r]) >= Len(files[path[r]])
  /\ answer' = [answer EXCEPT ![r] = LinesIn(got[r])]
  /\ UNCHANGED <<now, files, savers, load, asked, path, got, audited>>

\* Plan proposes nothing without evidence.
Actionable(lines) == \E n \in DOMAIN lines : lines[n].kind = "observation"

\* End of file.  A line that does not parse, or a later record version, is an error.
LoadReturns(r) ==
  /\ load[r] = "open" /\ Len(got[r]) >= Len(files[path[r]])
  /\ IF Whole(got[r]) /\ ~Unsupported(LinesIn(got[r]))
     THEN /\ answer' = [answer EXCEPT ![r] = LinesIn(got[r])]
          /\ load' = [load EXCEPT ![r] =
                          IF r \in Acting /\ Actionable(LinesIn(got[r]))
                          THEN "act" ELSE "done"]
     ELSE /\ answer' = [answer EXCEPT ![r] = Failed]
          /\ load' = [load EXCEPT ![r] = "done"]
  /\ UNCHANGED <<now, files, savers, asked, path, got, audited>>

-------------------------------------------------------------------------------
(* AppendAudit, once `action --apply` is done with the cluster. *)

\* The record at a path is not there yet or still being written.
Unfinished(p) == p \in Ids /\ \A s \in Savers : id[s] = p => save[s] \in {"built", "open"}

Audits(r) ==
  audited' = [audited EXCEPT ![r] = IF Unfinished(auditPath(path[r])) THEN "early" ELSE "late"]

\* A slip: without O_APPEND the line lands at the start of the file.
AppendAuditAtStart(r) ==
  /\ load[r] = "act"
  /\ LET p == auditPath(path[r])
     IN  files' = [files EXCEPT ![p] =
                     Written(IF @ = NoFile THEN <<>> ELSE @, 0, Cells(<<AuditOf(r)>>))]
  /\ Audits(r)
  /\ load' = [load EXCEPT ![r] = "done"]
  /\ UNCHANGED <<now, savers, asked, path, got, answer>>

\* O_APPEND|O_CREATE: one write at the end of the file.
AppendAudit(r) ==
  /\ load[r] = "act"
  /\ LET p == auditPath(path[r])
     IN  files' = [files EXCEPT ![p] =
                     (IF @ = NoFile THEN <<>> ELSE @) \o Cells(<<AuditOf(r)>>)]
  /\ Audits(r)
  /\ load' = [load EXCEPT ![r] = "done"]
  /\ UNCHANGED <<now, savers, asked, path, got, answer>>

\* The action is not applied, or its audit cannot be written: a note on stderr.
NoAudit(r) ==
  /\ load[r] = "act"
  /\ load' = [load EXCEPT ![r] = "done"]
  /\ UNCHANGED <<now, files, savers, asked, path, got, answer, audited>>

-------------------------------------------------------------------------------

Saver(s) ==
  \/ Build(s) \/ OpenToSave(s) \/ OpenFails(s)
  \/ Write(s) \/ WriteFails(s) \/ SaveReturns(s) \/ Killed(s)

Reader(r) ==
  \/ RefusePath(r) \/ OpenPrinted(r) \/ OpenListed(r) \/ Read(r) \/ LoadReturns(r)
  \/ AppendAudit(r) \/ NoAudit(r)

Next == Tick \/ (\E s \in Savers : Saver(s)) \/ (\E r \in Readers : Reader(r))

Spec == Init /\ [][Next]_vars

-------------------------------------------------------------------------------
(* Properties. *)

\* Every variable keeps its type; a reader has an answer exactly when it is through
\* with Load, and no writer is past the end of what it writes.
TypeOK ==
  /\ now \in 0..MaxClock
  /\ files \in [Paths -> Seq(Cell) \cup {NoFile}]
  /\ save \in [Savers -> {"start", "built", "open", "saved", "failed", "killed"}]
  /\ id \in [Savers -> Ids \cup {NoID}]
  /\ offset \in [Savers -> Nat]
  /\ \A s \in Savers : offset[s] <= Len(Cells(Record(s)))
  /\ load \in [Readers -> {"start", "open", "act", "done"}]
  /\ asked \in [Readers -> Savers \cup {NoSaver}]
  /\ path \in [Readers -> Paths \cup {NoPath}]
  /\ got \in [Readers -> Seq(Cell)]
  /\ answer \in [Readers -> Seq(Lines) \cup {NoAnswer, Failed}]
  /\ \A r \in Readers : load[r] \in {"act", "done"} <=> answer[r] # NoAnswer
  /\ audited \in [Readers -> {"no", "early", "late"}]

\* What Load makes of these lines is this record: audit lines, of a kind that it does
\* not know, are left out, and they only stand behind it.
Yields(lines, record) ==
  /\ IsPrefix(record, lines)
  /\ \A n \in Len(record) + 1..Len(lines) : lines[n].kind = "audit"

Loaded(r) == answer[r] \notin {NoAnswer, Failed}

\* Two investigations of one name in one second have one file.
Clash(p) ==
  p \in Ids /\ \E s, t \in Savers : s # t /\ id[s] = p /\ id[t] = p /\ slug(s) = slug(t)

\* What the code does not protect a record from: another writer, and an audit line that
\* comes while it is being written.
Disturbed(p) ==
  Clash(p) \/ \E r \in Readers : audited[r] = "early" /\ auditPath(path[r]) = p

\* docs/api.md:76-78: an investigation tells where its record is, and replaying it gives
\* the same verdict.  So a Load of what Save returned succeeds and yields the
\* observations of that investigation, whoever writes and appends meanwhile, unless the
\* record was disturbed.
LoadsWhatWasSaved ==
  \A r \in Readers :
    asked[r] \in Savers \ Newer /\ answer[r] # NoAnswer /\ ~Disturbed(path[r]) =>
      Loaded(r) /\ Yields(answer[r], Record(asked[r]))

\* A record that is still being written, or whose writer died or ran out of disk, may
\* load; then it is the beginning of one investigation, also with audit lines behind what
\* a dead writer left, unless it was disturbed.
LoadIsAPrefix ==
  \A r \in Readers : Loaded(r) /\ path[r] \in Ids /\ ~Disturbed(path[r]) =>
    \E s \in Savers : \E n \in 0..Len(Record(s)) :
      /\ id[s] = path[r]
      /\ Yields(answer[r], SubSeq(Record(s), 1, n))

Log == INSTANCE RecordLog WITH
  log <- [p \in Paths |-> IF files[p] = NoFile THEN <<>> ELSE LinesIn(files[p])],
  disturbed <- {p \in Paths : Disturbed(p)}

\* record.go:1: records are append-only logs of lines, and a reader sees one state of
\* one log; the disturbed ones excepted, which disturb no other.
KeepsLog == Log!Spec

-------------------------------------------------------------------------------
(* What the documents say and the code does not keep. *)

\* docs/api.md:76-78: every investigation is recorded, and replaying its record gives
\* the same verdict.
EveryInvestigationIsRecorded ==
  \A r \in Readers : asked[r] \in Savers \ Newer /\ answer[r] # NoAnswer =>
    Loaded(r) /\ Yields(answer[r], Record(asked[r]))
===============================================================================
