----------------------------- MODULE MCCompose -----------------------------
(* Mimir, whose healthcheck the start page of nginx answers too, and Tempo  *)
(* in two modes, which share a port and are both restarted.                 *)
EXTENDS Compose

ThreeStacks == {<<Mono, "metrics">>, <<Mono, "traces">>, <<Micro, "traces">>}
=============================================================================
