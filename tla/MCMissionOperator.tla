-------------------------- MODULE MCMissionOperator --------------------------
(* Two missions and an event queue shorter than the failures they can      *)
(* cause, so that both the races over one mission and the full queue occur. *)
EXTENDS MissionOperator
=============================================================================
