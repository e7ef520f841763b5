-------------------------- MODULE MCResourceLocks --------------------------
(* The resource sets of the registered controller tools that overlap:      *)
(* browser.navigate, mouse.click and a second browser action.              *)
EXTENDS ResourceLocks

MCContext == {"c1", "c2", "c3"}
MCAgentOf == [c \in MCContext |->
    CASE c = "c1" -> "a1" [] c = "c2" -> "a2" [] c = "c3" -> "a2"]
MCResource == {"browser", "mouse", "screen"}
MCWanted == [c \in MCContext |->
    CASE c = "c1" -> {"browser", "screen"}
      [] c = "c2" -> {"browser", "screen"}
      [] c = "c3" -> {"mouse", "screen"}]
MCOrder == [r \in MCResource |->
    CASE r = "browser" -> 1 [] r = "mouse" -> 2 [] r = "screen" -> 3]
=============================================================================
