------------------------------- MODULE MCServer -------------------------------
(* Two clients, two namespaces, and every way to write a target. *)
EXTENDS Server

CONSTANTS c1, c2

Body(target, ns) == [target |-> target, namespace |-> ns]

MCBodies ==
  {Body(<<"pod", "web">>, "prod"), Body(<<"stage", "deployment", "web">>, "prod"),
   Body(<<"node", "n1">>, ""), Body(<<"web">>, "prod")}
===============================================================================
