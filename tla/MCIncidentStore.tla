---------------------------- MODULE MCIncidentStore ----------------------------
(* Two investigations, of two names or of one, and one or two readers. *)
EXTENDS IncidentStore

CONSTANTS first, second, reader1, reader2, elsewhere, stub

TwoNames(s) == IF s = first THEN "web" ELSE "db"
OneName(s) == "web"

One(s) == 1
OneAndNone(s) == IF s = first THEN 1 ELSE 0

Stub(p) == stub

TwoLines == <<Meta(NoSaver), Observation(NoSaver, 1)>>
===============================================================================
