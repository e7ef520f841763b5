---------------------------- MODULE MCAgentTeam ----------------------------
(* Two missions that need the same tool, two agents beside the root, one   *)
(* change by hand at any moment.                                           *)
EXTENDS AgentTeam, TLC

MCNeeds == [x \in Tool |-> {"observe"}]
MCReqTools == [k \in Task |-> Tool]
MCConv == {Main} \cup [task : Task, kind : {"select", "define"}]
MCSymmetry == Permutations(Task) \cup Permutations(Agent \ {Root})
=============================================================================
