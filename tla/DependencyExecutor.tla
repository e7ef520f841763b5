------------------------- MODULE DependencyExecutor -------------------------
(***************************************************************************)
(* What the execution of a mission's graph promises, whatever the          *)
(* scheduler, the retry rules and the persistence: work starts only when   *)
(* everything it depends on is done, work that runs together never shares  *)
(* a resource, a failure falls back to something that was persisted, and   *)
(* the goal is declared reached only when all the work is done.  Done work *)
(* may be withdrawn, a goal reopened, and whoever held a copy of what was  *)
(* persisted may persist it again; nothing becomes done without having     *)
(* run.                                                                    *)
(***************************************************************************)
CONSTANTS Task, Deps, Needs

VARIABLES
    done, running,
    durable,   \* the done work that was persisted last
    held,      \* what copies of an earlier durable say is done
    reached

vars == <<done, running, durable, held, reached>>

Init == done = {} /\ running = {} /\ durable = {} /\ held \subseteq {{}} /\ reached = FALSE

(* Copies are taken of what is durable, and forgotten.                     *)
Copies == held' \subseteq held \cup {durable}

Start == \E S \in SUBSET (Task \ done) :
    /\ ~reached
    /\ running = {}
    /\ \A t \in S : Deps[t] \subseteq done
    /\ \A s, t \in S : s # t => Needs[s] \cap Needs[t] = {}
    /\ running' = S
    /\ UNCHANGED <<done, durable, held, reached>>

Finish == \E S \in SUBSET running :
    /\ running' = {}
    /\ done' = done \cup S
    /\ UNCHANGED <<durable, held, reached>>

Withdraw ==
    /\ ~reached
    /\ \E t \in done : done' = done \ {t}
    /\ UNCHANGED <<running, durable, held, reached>>

Persist ==
    /\ running = {}
    /\ durable' = done
    /\ reached' \in {FALSE, done = Task}
    /\ Copies
    /\ UNCHANGED <<done, running>>

Take == Copies /\ UNCHANGED <<done, running, durable, reached>>

WriteBack ==
    /\ durable' \in held
    /\ reached' = FALSE
    /\ Copies
    /\ UNCHANGED <<done, running>>

Reopen == reached' = FALSE /\ UNCHANGED <<done, running, durable, held>>

FallBack ==
    /\ running' = {}
    /\ durable' \in held \cup {durable}
    /\ done' = durable'
    /\ reached' = (reached /\ durable' = durable)
    /\ Copies

Next == Start \/ Finish \/ Withdraw \/ Persist \/ Take \/ WriteBack \/ Reopen \/ FallBack

Spec == Init /\ [][Next]_vars
=============================================================================
