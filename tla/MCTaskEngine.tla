---------------------------- MODULE MCTaskEngine ----------------------------
(* A node with two dependents that run at the same time, one of which has  *)
(* a dependent in turn; that and the other one need the same resource,     *)
(* which other missions also use.                                          *)
EXTENDS TaskEngine

MCTask == {"a", "b", "c", "d"}
MCDeps == [t \in MCTask |-> CASE t = "a"         -> {}
                              [] t \in {"b", "c"} -> {"a"}
                              [] t = "d"         -> {"b"}]
MCNeeds == [t \in MCTask |-> IF t \in {"c", "d"} THEN {"mouse"} ELSE {}]
MCRank == [t \in MCTask |-> CASE t = "a" -> 1 [] t = "b" -> 2
                              [] t = "c" -> 4 [] t = "d" -> 3]
=============================================================================
