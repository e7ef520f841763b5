--------------------------- MODULE MCRuntimeEvents ---------------------------
(* A one-shot trigger, and one that fires when an agent fails.             *)
EXTENDS RuntimeEvents

MCReactsTo == [t \in Reacting |-> "agent_failed"]
=============================================================================
