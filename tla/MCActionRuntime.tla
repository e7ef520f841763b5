--------------------------- MODULE MCActionRuntime ---------------------------
(* Three runs, two of them of one mission, that one agent is given one     *)
(* after the other or, once paused and resumed, at the same time.          *)
EXTENDS ActionRuntime
=============================================================================
