----------------------------- MODULE TaskGraph -----------------------------
(***************************************************************************)
(* app/autonomy/task_graph.py: the dependency graph of a mission and the   *)
(* resource-aware choice of the nodes that run next.                       *)
(*                                                                         *)
(* A graph has a fixed set of nodes here (TaskGraph.replan is not          *)
(* modelled); its mutable part is the status and the retry count of each   *)
(* node.  The operators below are functions of that part, so the engine    *)
(* and the proofs can use them on the live graph and on a saved one.       *)
(***************************************************************************)
EXTENDS Integers, FiniteSets

CONSTANTS
    Task,        \* node identifiers
    Deps,        \* Deps[t]: the nodes t depends on
    Resource,    \* names of lockable resources
    Needs,       \* Needs[t]: the resources t declares
    Rank,        \* position of t in the scheduler's sort order
    MaxRetries,  \* GraphTask.max_retries
    Limit        \* ActionLimits.max_parallel_agents

(* TaskGraph.validate rejects a graph with a cycle: in every non-empty set *)
(* of nodes one has no dependency inside the set.                          *)
Acyclic(deps) ==
    \A S \in (SUBSET Task) \ {{}} : \E t \in S : deps[t] \cap S = {}

ASSUME TaskAssumption == IsFiniteSet(Task)
ASSUME DepsAssumption == Deps \in [Task -> SUBSET Task] /\ Acyclic(Deps)
ASSUME NeedsAssumption == Needs \in [Task -> SUBSET Resource]
ASSUME RankAssumption ==
    /\ Rank \in [Task -> Int]
    /\ \A s, t \in Task : Rank[s] = Rank[t] => s = t
ASSUME BoundAssumption == MaxRetries \in Nat /\ Limit \in Nat \ {0}

Status == {"pending", "running", "completed", "failed", "blocked",
           "paused", "cancelled"}

(* Statuses a node never leaves by being scheduled.                        *)
Dead == {"failed", "blocked", "cancelled"}

With(status, s) == {t \in Task : status[t] = s}

(* Mutant: a pending node is runnable whatever its dependencies.           *)
RunnableTooEarly(status) == With(status, "pending")

Runnable(status) ==
    {t \in With(status, "pending") : Deps[t] \subseteq With(status, "completed")}

(***************************************************************************)
(* TaskGraph._block_dependents walks from a dead node to its pending       *)
(* dependents, marks them and recurses.  What it marks is the least set    *)
(* closed under "pending and depends on a source or a marked node": the    *)
(* walk does not pass through a node that is not pending.                  *)
(***************************************************************************)
ClosedUnder(status, sources, S) ==
    \A t \in With(status, "pending") :
        Deps[t] \cap (sources \cup S) # {} => t \in S

PendingDependents(status, sources) ==
    {t \in With(status, "pending") :
        \A S \in SUBSET With(status, "pending") :
            ClosedUnder(status, sources, S) => t \in S}

(* Mutant: the walk stops at the direct dependents.                        *)
BlockDirectDependents(status, sources) ==
    [t \in Task |-> IF status[t] = "pending" /\ Deps[t] \cap sources # {}
                    THEN "blocked" ELSE status[t]]

BlockDependents(status, sources) ==
    [t \in Task |-> IF t \in PendingDependents(status, sources)
                    THEN "blocked" ELSE status[t]]

(***************************************************************************)
(* TaskScheduler.next_tasks goes through the runnable nodes in sort order  *)
(* and takes each one whose resources are neither held nor needed by a     *)
(* node already taken, until Limit nodes are taken.                        *)
(***************************************************************************)
Before(S, t) == {s \in S : Rank[s] < Rank[t]}

(* Mutant: only the resources held before the choice are reserved.         *)
NextTasksUnreserved(status, held, S) ==
    /\ S \subseteq Runnable(status)
    /\ \A t \in Runnable(status) :
        t \in S <=> Needs[t] \cap held = {} /\ Cardinality(Before(S, t)) < Limit

NextTasks(status, held, S) ==
    /\ S \subseteq Runnable(status)
    /\ \A t \in Runnable(status) :
        t \in S <=> /\ Needs[t] \cap held = {}
                    /\ \A s \in Before(S, t) : Needs[s] \cap Needs[t] = {}
                    /\ Cardinality(Before(S, t)) < Limit
=============================================================================
