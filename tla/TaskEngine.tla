----------------------------- MODULE TaskEngine -----------------------------
(***************************************************************************)
(* app/autonomy/task_engine.py (run_graph) driven by                       *)
(* app/autonomy/task_runner.py (TaskEngineMissionRunner): one mission's    *)
(* graph is restored from the mission, executed batch by batch, judged,    *)
(* and written back to the mission.                                        *)
(*                                                                         *)
(* asyncio runs a coroutine without interruption between two awaits, so a  *)
(* step below is one such stretch.  While the engine awaits its batch      *)
(* (gather) or the acceptance criteria, other coroutines act: the nodes    *)
(* finish one by one, and an operator pauses, resumes or cancels nodes of  *)
(* the live graph.  The process may crash at any point; the mission        *)
(* survives in the store.                                                  *)
(*                                                                         *)
(* A mission is loaded and saved whole, its graph with its status, so      *)
(* every coroutine that saves a copy it loaded before an await may put an  *)
(* older graph back: the operator's turn (app/autonomy/operator.py), the   *)
(* gateway's pause for a capability gap (app/dashboard/service.py) and the *)
(* voice resume (app/voice/service.py).                                    *)
(***************************************************************************)
EXTENDS TaskGraph

CONSTANTS
    Operable,   \* the nodes an operator pauses, resumes or cancels
    Writer,     \* coroutines other than the turn that save copies of the mission
    MaxAlarms   \* bound on the AGENT_FAILED events of the mission on the queue

ASSUME OperableAssumption == Operable \subseteq Task
ASSUME AlarmsAssumption == MaxAlarms \in Nat

VARIABLES
    status,     \* live graph: GraphTask.status
    retries,    \* live graph: GraphTask.retries
    batch,      \* nodes handed to asyncio.gather, empty outside it
    result,     \* their outcome so far: "none", "ok" or "error"
    completed,  \* nodes completed by this call of run_graph
    pc,         \* where the engine is
    saved,      \* mission.task_graph in the mission store
    outcome,    \* outcome of the last call, "none" once the mission is open again
    loaded,     \* the graph of the mission the operator's turn loaded
    holding,    \* the writers that have loaded the mission and not saved it yet
    copy,       \* the graph each of them loaded
    alarms,     \* AGENT_FAILED events of the mission on the queue
    touched,    \* history: nodes an operator paused, resumed or cancelled
    reported    \* history: nodes completed when a call returned, without
                \* those that a stale copy saved since does not have

graph == <<status, retries>>
run == <<batch, result, completed, pc, loaded>>
writers == <<holding, copy>>
mission == <<saved, outcome, alarms, reported>>
vars == <<graph, run, writers, mission, touched>>

Graph == [status : [Task -> Status], retries : [Task -> 0..MaxRetries]]

Outcome == {"none", "completed", "blocked", "partially_completed", "failed"}

TypeOK ==
    /\ status \in [Task -> Status]
    /\ retries \in [Task -> 0..MaxRetries]
    /\ batch \in SUBSET Task
    /\ result \in [Task -> {"none", "ok", "error"}]
    /\ completed \in SUBSET Task
    /\ pc \in {"idle", "observe", "select", "gather", "verify"}
    /\ saved \in Graph /\ loaded \in Graph /\ copy \in [Writer -> Graph]
    /\ outcome \in Outcome
    /\ holding \in SUBSET Writer
    /\ alarms \in 0..MaxAlarms
    /\ {touched, reported} \subseteq SUBSET Task

NewGraph == [status |-> [t \in Task |-> "pending"], retries |-> [t \in Task |-> 0]]

(* The gateway may still hold its copy of a mission it has just created.   *)
Init ==
    /\ status = NewGraph.status
    /\ retries = NewGraph.retries
    /\ batch = {}
    /\ result = [t \in Task |-> "none"]
    /\ completed = {}
    /\ pc = "idle"
    /\ saved = NewGraph /\ loaded = NewGraph
    /\ outcome = "none"
    /\ holding \in SUBSET Writer
    /\ copy = [w \in Writer |-> NewGraph]
    /\ alarms = 0
    /\ touched = {} /\ reported = {}

(* AutonomousOperator.run_once loads the mission and awaits an             *)
(* observation.  A completed or failed mission has no turn.                *)
Turn ==
    /\ pc = "idle"
    /\ outcome \notin {"completed", "failed"}
    /\ loaded' = saved
    /\ pc' = "observe"
    /\ UNCHANGED <<graph, batch, result, completed, writers, mission, touched>>

EndTurn == pc' = "idle" /\ loaded' = NewGraph

(* Mutant: the checkpoint is not copied over the fresh graph.              *)
NothingRestored == NewGraph

(* TaskEngineMissionRunner._restore: every saved status is a GraphTask     *)
(* status, so each node takes over its saved status and retry count.       *)
Restored == loaded

(***************************************************************************)
(* The turn saves its copy as running and calls the runner, up to the      *)
(* first await of TaskEngineMissionRunner.__call__: graph_for makes a      *)
(* fresh graph, _restore copies what the mission saved over it.            *)
(***************************************************************************)
Call ==
    /\ pc = "observe"
    /\ saved' = loaded
    /\ outcome' = "none"
    /\ status' = Restored.status
    /\ retries' = Restored.retries
    /\ completed' = {}
    /\ pc' = "select"
    /\ UNCHANGED <<batch, result, loaded, writers, alarms, reported, touched>>

(* The user has taken over: the turn saves its copy and ends.              *)
Yield ==
    /\ pc = "observe"
    /\ saved' = loaded
    /\ outcome' = "none"
    /\ EndTurn
    /\ UNCHANGED <<graph, batch, result, completed, writers, alarms, reported, touched>>

(* The head of run_graph's loop: next_tasks, given the resources that      *)
(* agents of other work hold at that moment, then every chosen node is     *)
(* RUNNING before gather starts; with nothing to choose the loop ends.     *)
Select == \E S \in SUBSET Task, held \in SUBSET Resource :
    /\ pc = "select"
    /\ NextTasks(status, held, S)
    /\ pc' = IF S = {} THEN "verify" ELSE "gather"
    /\ batch' = S
    /\ status' = [t \in Task |-> IF t \in S THEN "running" ELSE status[t]]
    /\ UNCHANGED <<retries, result, completed, loaded, writers, mission, touched>>

(* execute_node returns an execution or catches its exception.             *)
NodeReturns(t) ==
    /\ t \in batch
    /\ result[t] = "none"
    /\ \E r \in {"ok", "error"} : result' = [result EXCEPT ![t] = r]
    /\ UNCHANGED <<graph, batch, completed, pc, loaded, writers, mission, touched>>

(* Mutants: one retry too many; a node that is retried blocks its          *)
(* dependents as a failed one does; the retry is not counted.              *)
RetriedOnceMore == {t \in batch : result[t] = "error" /\ retries[t] <= MaxRetries}
ExhaustedAtOnce == {t \in batch : result[t] = "error"}
RecountForgotten(t) == retries[t]

(***************************************************************************)
(* gather has every outcome: TaskGraph.fail or TaskGraph.complete for each *)
(* node, without an await in between.  No node of a batch depends on       *)
(* another, so the order of the outcomes does not matter.                  *)
(***************************************************************************)
Retried == {t \in batch : result[t] = "error" /\ retries[t] < MaxRetries}
Exhausted == {t \in batch : result[t] = "error" /\ retries[t] >= MaxRetries}

Recount(t) == IF t \in Retried THEN retries[t] + 1 ELSE retries[t]

Settle(t) == CASE t \in batch /\ result[t] = "ok" -> "completed"
               [] t \in Retried                  -> "pending"
               [] t \in Exhausted                -> "failed"
               [] OTHER                          -> status[t]

GatherReturns ==
    /\ pc = "gather"
    /\ \A t \in batch : result[t] # "none"
    /\ status' = BlockDependents([t \in Task |-> Settle(t)], Exhausted)
    /\ retries' = [t \in Task |-> Recount(t)]
    /\ completed' = completed \cup {t \in batch : result[t] = "ok"}
    /\ batch' = {}
    /\ result' = [t \in Task |-> "none"]
    /\ pc' = "select"
    /\ UNCHANGED <<loaded, writers, mission, touched>>

(* Mutant: the acceptance criteria alone decide.                           *)
JudgeByCriteria(verified) == IF verified THEN "completed" ELSE "failed"

(***************************************************************************)
(* The criteria have been evaluated: the result of run_graph, its mapping  *)
(* to a mission status, and the graph serialized into the mission, which   *)
(* the turn saves.                                                         *)
(***************************************************************************)
Judge(verified) ==
    IF verified /\ With(status, "completed") = Task THEN "completed"
    ELSE IF With(status, "blocked") # {} THEN "blocked"
    ELSE IF completed # {} THEN "partially_completed"
    ELSE "failed"

Return ==
    /\ pc = "verify"
    /\ \E verified \in BOOLEAN : outcome' = Judge(verified)
    /\ saved' = [status |-> status, retries |-> retries]
    /\ reported' = reported \cup With(status, "completed")
    /\ completed' = {}
    /\ EndTurn
    /\ UNCHANGED <<graph, batch, result, writers, alarms, touched>>

(* run_graph raises: AGENT_FAILED is put on the queue and the turn saves   *)
(* the copy it loaded as recovering; the live graph is gone.               *)
Raise ==
    /\ pc \in {"select", "gather", "verify"}
    /\ alarms < MaxAlarms
    /\ alarms' = alarms + 1
    /\ saved' = loaded
    /\ outcome' = "none"
    /\ status' = loaded.status
    /\ retries' = loaded.retries
    /\ batch' = {}
    /\ result' = [t \in Task |-> "none"]
    /\ completed' = {}
    /\ EndTurn
    /\ UNCHANGED <<writers, reported, touched>>

(* The public operations of TaskGraph, on the live graph, while the engine *)
(* awaits.                                                                 *)
Awaiting == pc \in {"gather", "verify"}

Pause(t) ==
    /\ Awaiting
    /\ status[t] = "pending"
    /\ status' = [status EXCEPT ![t] = "paused"]
    /\ touched' = touched \cup {t}
    /\ UNCHANGED <<retries, run, writers, mission>>

Resume(t) ==
    /\ Awaiting
    /\ status[t] = "paused"
    /\ status' = [status EXCEPT ![t] = "pending"]
    /\ touched' = touched \cup {t}
    /\ UNCHANGED <<retries, run, writers, mission>>

Cancel(t) ==
    /\ Awaiting
    /\ status' = BlockDependents([status EXCEPT ![t] = "cancelled"], {t})
    /\ touched' = touched \cup {t}
    /\ UNCHANGED <<retries, run, writers, mission>>

(* A voice RESUME loads the mission, paused or waiting for the user.       *)
Take(w) ==
    /\ w \notin holding
    /\ outcome \notin {"completed", "failed"}
    /\ holding' = holding \cup {w}
    /\ copy' = [copy EXCEPT ![w] = saved]
    /\ UNCHANGED <<graph, run, mission, touched>>

(* After a publication it awaited the writer saves its copy, paused or     *)
(* waiting to run: the whole graph goes back to what it loaded.            *)
SaveCopy(w) ==
    /\ w \in holding
    /\ saved' = copy[w]
    /\ outcome' = "none"
    /\ reported' = reported \cap With(copy[w].status, "completed")
    /\ holding' = holding \ {w}
    /\ copy' = [copy EXCEPT ![w] = NewGraph]
    /\ UNCHANGED <<graph, run, alarms, touched>>

(* AutonomousOperator.process_event: an AGENT_FAILED event still queued    *)
(* makes the mission recovering, whatever has become of it meanwhile.      *)
Reopen ==
    /\ pc = "idle"
    /\ alarms > 0
    /\ alarms' = alarms - 1
    /\ outcome' = "none"
    /\ UNCHANGED <<graph, run, writers, saved, reported, touched>>

(* The process dies: the mission keeps the graph last saved.               *)
Crash ==
    /\ status' = saved.status
    /\ retries' = saved.retries
    /\ batch' = {}
    /\ result' = [t \in Task |-> "none"]
    /\ completed' = {}
    /\ EndTurn
    /\ holding' = {}
    /\ copy' = [w \in Writer |-> NewGraph]
    /\ alarms' = 0
    /\ UNCHANGED <<saved, outcome, reported, touched>>

Engine == \/ Call \/ Yield \/ Select \/ GatherReturns \/ Return
          \/ \E t \in Task : NodeReturns(t)

Operator == \E t \in Operable : Pause(t) \/ Resume(t) \/ Cancel(t)

Others == \E w \in Writer : Take(w) \/ SaveCopy(w)

Next == Turn \/ Engine \/ Raise \/ Operator \/ Others \/ Reopen \/ Crash

Spec == Init /\ [][Next]_vars

(* Coroutines that can run are run by the event loop, and an execution is  *)
(* bounded by its step limit and lock timeouts; nothing obliges anyone to  *)
(* take a turn, operate, raise or crash.                                   *)
FairSpec == Spec /\ WF_vars(Engine)

-----------------------------------------------------------------------------
(* A node runs, and counts as completed, only after everything it depends  *)
(* on was completed: through retries, restored graphs and crashes its      *)
(* dependencies are completed, or were completed and then cancelled by the *)
(* operator (task_graph.py runnable, task_runner.py _restore).             *)
DependencyOrder ==
    \A t \in Task : status[t] \in {"running", "completed"} =>
        \A d \in Deps[t] : \/ status[d] = "completed"
                           \/ status[d] = "cancelled" /\ d \in touched

(* Two nodes that execute at the same time declare disjoint resources      *)
(* (task_graph.py next_tasks), also when some were cancelled meanwhile.    *)
NoConflict ==
    \A s, t \in batch : s # t => Needs[s] \cap Needs[t] = {}

(* A node that a returned call reported completed is executed again only  *)
(* if a stale copy of the mission was saved over the graph that had it     *)
(* completed, and not even then once another call has reported it again:   *)
(* crashes, failing calls, reopened missions and the turn's own stale copy *)
(* never bring it back (task_runner.py _restore; operator.py run_once;     *)
(* voice/service.py RESUME; dashboard/service.py CREATE_MISSION).          *)
CompletedNeverRerun == batch \cap reported = {}

(* Without an operator's intervention no node is left pending behind a     *)
(* dependency that can never complete: failures block all the way down     *)
(* (task_graph.py _block_dependents), in the live and in the saved graph.  *)
NotStranded(st) ==
    \A t \in Task \ touched : st[t] = "pending" =>
        \A d \in Deps[t] \ touched : st[d] \notin Dead

NoneStranded == NotStranded(status) /\ NotStranded(saved.status)

(* A mission is reported completed only with every node completed, and a   *)
(* blocked node always has its cause: a dependency that is dead, or one    *)
(* the operator cancelled (task_engine.py outcome, blocked_reason).        *)
BlockedHasCause ==
    /\ outcome = "completed" => With(saved.status, "completed") = Task
    /\ \A t \in With(status, "blocked") :
        \E d \in Deps[t] : status[d] \in Dead \/ d \in touched

(* A run always comes to an end: retries are bounded and a node whose      *)
(* resources others hold is given up, not waited for.                      *)
RunEnds == pc # "idle" ~> pc = "idle"

(* The engine implements the promise of DependencyExecutor.                *)
Promise == INSTANCE DependencyExecutor WITH
    done <- With(status, "completed"),
    running <- batch,
    durable <- With(saved.status, "completed"),
    held <- {With(copy[w].status, "completed") : w \in holding}
              \cup (IF pc = "idle" THEN {} ELSE {With(loaded.status, "completed")}),
    reached <- outcome = "completed"

KeepsPromise == Promise!Spec
=============================================================================
