---------------------------- MODULE ActionRuntime ----------------------------
(***************************************************************************)
(* app/autonomy/executor.py (ActionRuntime) with everything an action goes *)
(* through: the governor, the autonomy mode, the permission policy, the    *)
(* approvals, the resource lock and the tool call of app/agents/manager.py,*)
(* and the life of the agent in whose name it acts.                        *)
(*                                                                         *)
(* A run is one AutonomousRuntime.execute: an idle agent is given a task   *)
(* and started, and run_loop proposes actions for it until the work, the   *)
(* step budget or the failure budget is over.  Each await of perform and   *)
(* run_loop is a pc; what lies between two of them is one action here.     *)
(* All tools are controller tools: of high risk, and no action contract is *)
(* registered (the production configuration).  The runs share a resource.  *)
(***************************************************************************)
EXTENDS Integers, FiniteSets, Sequences

CONSTANTS
    Run,            \* executions
    Agent,          \* registered agents, each fit for every run
    None,           \* no agent, no run
    MissionId,
    Contracted,     \* runs that execute a node of the mission under contract
    ThroughGraph,   \* the mission is executed by run_graph
    ActionBudget, FailureBudget,    \* MissionContract
    Mode,           \* ModePolicy.decision for a high-risk tool
    PolicyAsks,     \* runs whose permission has mode REQUIRE_APPROVAL
    MaxSteps, MaxFailures           \* AutonomyLimits

ASSUME NoneAssumption == None \notin Agent \cup Run
ASSUME RunAssumption ==
    IsFiniteSet(Run) /\ Contracted \subseteq Run /\ PolicyAsks \subseteq Run
ASSUME SettingAssumption ==
    ThroughGraph \in BOOLEAN /\ Mode \in {"allow", "approval", "deny"}
ASSUME BoundAssumption ==
    /\ ActionBudget \in Nat \ {0} /\ FailureBudget \in Nat
    /\ MaxSteps \in Nat \ {0} /\ MaxFailures \in Nat

VARIABLES
    run,        \* the coroutine of each run
    status,     \* Agent.status
    running,    \* AgentManager._running: the run a termination cancels
    tokens,     \* PermissionPolicy._approved: agents with a one-shot approval
    usage,      \* AutonomyGovernor._usage of the mission
    executed,   \* history: tool calls made for the mission
    credit,     \* history: approve_once minus the tool calls that needed one
    resumed,    \* history: agents resumed while a run of theirs was open
    unlisted    \* history: agents an open run of which lost its entry in _running

vars == <<run, status, running, tokens, usage, executed, credit, resumed, unlisted>>
agents == <<status, running>>
history == <<executed, credit, resumed, unlisted>>

AgentStatus == {"ready", "running", "paused", "completed", "failed", "terminated"}
Asked == {"none", "pending", "approved", "denied"}
Waits == {"decide", "mode", "policy", "lock", "before", "tool"}

RunState == [pc : Waits \cup {"idle", "ended", "done"}, agent : Agent \cup {None},
             cancelled : BOOLEAN, ask : Asked,
             steps : 0..(MaxSteps - 1), failures : 0..MaxFailures]

TypeOK ==
    /\ run \in [Run -> RunState]
    /\ status \in [Agent -> AgentStatus]
    /\ running \in [Agent -> Run \cup {None}]
    /\ tokens \in SUBSET Agent
    /\ usage \in [actions : Nat, failures : Nat] /\ usage.failures <= usage.actions
    /\ executed \in Nat
    /\ credit \in [Agent -> Int]
    /\ resumed \in SUBSET Agent /\ unlisted \in SUBSET Agent

Init ==
    /\ run = [r \in Run |-> [pc |-> "idle", agent |-> None, cancelled |-> FALSE,
                             ask |-> "none", steps |-> 0, failures |-> 0]]
    /\ status = [a \in Agent |-> "ready"]
    /\ running = [a \in Agent |-> None]
    /\ tokens = {}
    /\ usage = [actions |-> 0, failures |-> 0]
    /\ executed = 0
    /\ credit = [a \in Agent |-> 0]
    /\ resumed = {} /\ unlisted = {}

AgentOf(r) == run[r].agent
Open(a) == {r \in Run : AgentOf(r) = a /\ run[r].pc \in Waits}
Goto(r, p) == run' = [run EXCEPT ![r].pc = p]

-----------------------------------------------------------------------------
(* The life of an agent's run: AgentManager._run and start_agent.          *)

(* The coroutine of _run is over: its agent gets status s.                 *)
End(r, s) ==
    /\ run' = [run EXCEPT ![r].pc = "ended", ![r].ask = "none", ![r].cancelled = FALSE]
    /\ status' = [status EXCEPT ![AgentOf(r)] = s]
    /\ UNCHANGED running

(* A turn of the event loop later start_agent, which awaited it, pops the  *)
(* agent's entry in _running, whatever run is registered there by then.    *)
Leave(r) ==
    /\ run[r].pc = "ended"
    /\ Goto(r, "done")
    /\ running' = [running EXCEPT ![AgentOf(r)] = None]
    /\ unlisted' = IF \E q \in Open(AgentOf(r)) : running[AgentOf(r)] = q /\ ~run[q].cancelled
                   THEN unlisted \cup {AgentOf(r)} ELSE unlisted
    /\ UNCHANGED <<status, tokens, usage, executed, credit, resumed>>

(* The cancellation reaches the run at its next turn of the event loop.    *)
Cancelled(r) ==
    /\ run[r].pc \in Waits /\ run[r].cancelled
    /\ End(r, "terminated")
    /\ UNCHANGED <<tokens, usage, history>>

(* The status a run whose work is done leaves its agent.                   *)
AfterWork(a) == IF status[a] = "terminated" THEN "terminated" ELSE "completed"

(* Mutant: an agent that runs is as eligible as an idle one.               *)
EligibleAnyway == {a \in Agent : status[a] \notin {"failed", "terminated", "paused"}}

(* AgentRegistry.find.                                                     *)
Eligible == {a \in Agent : status[a] \in {"ready", "completed"}}

(* execute, or select_or_create, and start_agent: find, assign_task and    *)
(* the new status follow each other without an await.                      *)
Start(r) == \E a \in Eligible :
    /\ run[r].pc = "idle"
    /\ run' = [run EXCEPT ![r].pc = "decide", ![r].agent = a]
    /\ status' = [status EXCEPT ![a] = "running"]
    /\ running' = [running EXCEPT ![a] = r]
    /\ UNCHANGED <<tokens, usage, history>>

Pause(a) ==
    /\ status[a] = "running"
    /\ status' = [status EXCEPT ![a] = "paused"]
    /\ UNCHANGED <<run, running, tokens, usage, history>>

Resume(a) ==
    /\ status[a] = "paused"
    /\ status' = [status EXCEPT ![a] = "ready"]
    /\ resumed' = IF Open(a) = {} THEN resumed ELSE resumed \cup {a}
    /\ UNCHANGED <<run, running, tokens, usage, executed, credit, unlisted>>

(* Mutant: the run in _running is not cancelled.                           *)
TerminateOnly(a) ==
    /\ status[a] # "terminated"
    /\ status' = [status EXCEPT ![a] = "terminated"]
    /\ UNCHANGED <<run, running, tokens, usage, history>>

(* terminate_agent cancels the run in _running, if it is still open.       *)
Terminate(a) ==
    /\ status[a] # "terminated"
    /\ status' = [status EXCEPT ![a] = "terminated"]
    /\ run' = [r \in Run |-> [run[r] EXCEPT !.cancelled = @ \/ (running[a] = r /\ r \in Open(a))]]
    /\ UNCHANGED <<running, tokens, usage, history>>

-----------------------------------------------------------------------------
(* The governor.                                                           *)

(* graph_for registers the identifiers of the mission's nodes; run_graph   *)
(* puts the mission's identifier before the node's once more.              *)
NodeId(r) == <<MissionId, r>>
TaskId(r) == IF ThroughGraph THEN <<MissionId>> \o NodeId(r) ELSE NodeId(r)
Governed(r) == r \in Contracted /\ \E q \in Contracted : TaskId(r) = NodeId(q)

Exhausted == usage.actions >= ActionBudget \/ usage.failures >= FailureBudget

(* The decision of evaluate and, where it neither denies nor asks, of the  *)
(* mode policy: an approval the governor asks for replaces the mode's.     *)
Gate(r) == IF ~Governed(r) THEN Mode
           ELSE IF Exhausted THEN "deny" ELSE "approval"

(* Mutant: only the actions that succeed are counted.                      *)
CountedIfSuccessful(r, success) ==
    IF Governed(r) /\ success THEN [usage EXCEPT !.actions = @ + 1] ELSE usage

Counted(r, success) ==
    IF ~Governed(r) THEN usage
    ELSE [actions |-> usage.actions + 1,
          failures |-> IF success THEN usage.failures ELSE usage.failures + 1]

(* Mutant: the loop makes one step more.                                   *)
OutOfStepsLate(n) == n > MaxSteps

OutOfSteps(n) == n >= MaxSteps

(* _result, and the end of run_loop's iteration: it raises when one of its *)
(* budgets is exhausted, even after a success.                             *)
Record(r, success) ==
    LET n == run[r].steps + 1
        f == IF success THEN 0 ELSE run[r].failures + 1
    IN  /\ usage' = Counted(r, success)
        /\ IF f > MaxFailures \/ OutOfSteps(n)
           THEN End(r, "failed")
           ELSE /\ run' = [run EXCEPT ![r] = [@ EXCEPT !.pc = "decide", !.ask = "none",
                                              !.steps = n, !.failures = f]]
                /\ UNCHANGED agents

-----------------------------------------------------------------------------
(* run_loop and perform.                                                   *)

(* The decider has nothing more to do: the work counts as done only if     *)
(* there is a last result and it is a success.                             *)
Stop(r) ==
    /\ run[r].pc = "decide"
    /\ End(r, IF run[r].steps > 0 /\ run[r].failures = 0
              THEN AfterWork(AgentOf(r)) ELSE "failed")
    /\ UNCHANGED <<tokens, usage, history>>

(* The observation or the decider raises.                                  *)
DeciderRaises(r) ==
    /\ run[r].pc = "decide"
    /\ End(r, "failed")
    /\ UNCHANGED <<tokens, usage, history>>

(* The validator rejects the proposal, or the gate denies the action.      *)
Reject(r) ==
    /\ run[r].pc = "decide"
    /\ Record(r, FALSE)
    /\ UNCHANGED <<tokens, history>>

(* Mutant: a one-shot approval is not consumed by the check that uses it.  *)
SpendKept(a) == tokens

Spend(a) == tokens \ {a}

(* approve_once, then the wait for the lock.                               *)
Grant(r) ==
    /\ tokens' = tokens \cup {AgentOf(r)}
    /\ credit' = [credit EXCEPT ![AgentOf(r)] = @ + 1]
    /\ Goto(r, "lock")

(* policy.check, and when it asks for an approval the handler: the request *)
(* has the action's identifier, so a decision made for the mode answers it.*)
Check(r) ==
    IF r \notin PolicyAsks
    THEN Goto(r, "lock") /\ UNCHANGED <<tokens, credit>>
    ELSE IF AgentOf(r) \in tokens
    THEN tokens' = Spend(AgentOf(r)) /\ Goto(r, "lock") /\ UNCHANGED credit
    ELSE IF run[r].ask = "approved"
    THEN Grant(r)
    ELSE /\ run' = [run EXCEPT ![r].pc = "policy", ![r].ask = "pending"]
         /\ UNCHANGED <<tokens, credit>>

Submit(r) ==
    /\ run[r].pc = "decide"
    /\ \/ Gate(r) = "allow" /\ Check(r)
       \/ /\ Gate(r) = "approval"
          /\ run' = [run EXCEPT ![r].pc = "mode", ![r].ask = "pending"]
          /\ UNCHANGED <<tokens, credit>>
    /\ UNCHANGED <<agents, usage, executed, resumed, unlisted>>

(* A person decides in the dashboard.                                      *)
Decide(r, answer) ==
    /\ run[r].ask = "pending"
    /\ run' = [run EXCEPT ![r].ask = answer]
    /\ UNCHANGED <<agents, tokens, usage, history>>

Approved(r) ==
    /\ run[r].ask = "approved"
    /\ \/ run[r].pc = "mode" /\ Check(r)
       \/ run[r].pc = "policy" /\ Grant(r)
    /\ UNCHANGED <<agents, usage, executed, resumed, unlisted>>

Denied(r) ==
    /\ run[r].pc \in {"mode", "policy"} /\ run[r].ask = "denied"
    /\ Record(r, FALSE)
    /\ UNCHANGED <<tokens, history>>

(* Mutant: a request is waited for without a deadline.                     *)
ExpireNever(r) == FALSE /\ UNCHANGED vars

(* The deadline passes: the request expires; but if a decision was made    *)
(* since the last look, decide raises and the run fails with it.           *)
Expire(r) ==
    /\ run[r].pc \in {"mode", "policy"}
    /\ IF run[r].ask = "pending" THEN Record(r, FALSE)
       ELSE End(r, "failed") /\ UNCHANGED usage
    /\ UNCHANGED <<tokens, history>>

LockTimesOut(r) ==
    /\ run[r].pc = "lock"
    /\ Record(r, FALSE)
    /\ UNCHANGED <<tokens, history>>

Lock(r) ==
    /\ run[r].pc = "lock"
    /\ \A q \in Run : run[q].pc \notin {"before", "tool"}
    /\ Goto(r, "before")
    /\ UNCHANGED <<agents, tokens, usage, history>>

(* execute_tool up to the tool: the agent's status, its grants, and the    *)
(* policy once more, which consumes the one-shot approval.                 *)
MayInvoke(r) ==
    /\ status[AgentOf(r)] = "running"
    /\ r \in PolicyAsks => AgentOf(r) \in tokens

Invoke(r) ==
    /\ run[r].pc = "before"
    /\ MayInvoke(r)
    /\ IF r \in PolicyAsks
       THEN /\ tokens' = Spend(AgentOf(r))
            /\ credit' = [credit EXCEPT ![AgentOf(r)] = @ - 1]
       ELSE UNCHANGED <<tokens, credit>>
    /\ executed' = IF r \in Contracted THEN executed + 1 ELSE executed
    /\ Goto(r, "tool")
    /\ UNCHANGED <<agents, usage, resumed, unlisted>>

(* The first observation or execute_tool raises.                           *)
InvokeFails(r) ==
    /\ run[r].pc = "before"
    /\ Record(r, FALSE)
    /\ UNCHANGED <<tokens, history>>

(* The tool raised, or was observed and verified or not.                   *)
ToolReturns(r) ==
    /\ run[r].pc = "tool"
    /\ \E success \in BOOLEAN : Record(r, success)
    /\ UNCHANGED <<tokens, history>>

(* A run whose cancellation is on its way does nothing else.               *)
Proceed(r) ==
    /\ ~run[r].cancelled
    /\ \/ Stop(r) \/ DeciderRaises(r) \/ Reject(r) \/ Submit(r)
       \/ Approved(r) \/ Denied(r) \/ Expire(r)
       \/ LockTimesOut(r) \/ Lock(r) \/ Invoke(r) \/ InvokeFails(r) \/ ToolReturns(r)

Step(r) == Proceed(r) \/ Cancelled(r) \/ Leave(r)

Next ==
    \/ \E r \in Run : Start(r) \/ Step(r) \/ \E d \in {"approved", "denied"} : Decide(r, d)
    \/ \E a \in Agent : Pause(a) \/ Resume(a) \/ Terminate(a)

Spec == Init /\ [][Next]_vars

(* Every wait of a run has a timeout or an end of its own: the provider's, *)
(* the approval's and the lock's timeout, and the end of the tool call.    *)
FairSpec == Spec /\ \A r \in Run : WF_vars(Step(r))

-----------------------------------------------------------------------------
(* What acts was approved itself: while an agent has one run, a tool that  *)
(* needs an approval executes only after the approval of this very action, *)
(* and never on a one-shot approval an earlier one left behind             *)
(* (executor.py perform; permissions.py check).                            *)
OwnApproval == \A r \in Run :
    /\ run[r].pc = "tool"
    /\ AgentOf(r) \notin resumed
    /\ r \in PolicyAsks \/ (~Governed(r) /\ Mode = "approval") \/ Governed(r)
    => run[r].ask = "approved"

(* Whatever runs overlap and whatever fails between the approval and the   *)
(* tool, an agent never makes more tool calls than it was approved for,    *)
(* and a one-shot approval still to be used was granted and not spent      *)
(* (permissions.py approve_once, check; manager.py execute_tool).          *)
OneShot == \A a \in Agent : credit[a] >= IF a \in tokens THEN 1 ELSE 0

(* An agent has at most one open run, unless it was paused and resumed     *)
(* while a run was open, which makes it look idle (registry.py find,       *)
(* manager.py resume_agent).                                               *)
OneRun == \A a \in Agent \ resumed : \A q, r \in Open(a) : q = r

(* A termination is final while one run at most was open, wherever in its  *)
(* life that run is.  A run outlives it only if it was not the one in      *)
(* _running: the agent was resumed while a run was open, or an earlier run *)
(* cleaned up after the later one had begun.  The agent can then fail, but *)
(* still not complete or run (manager.py start_agent, terminate_agent,     *)
(* _run; registry.py find).                                                *)
TerminatedIsFinal == [][\A a \in Agent : status[a] = "terminated" =>
    \/ status'[a] = "terminated"
    \/ status'[a] = "failed" /\ a \in resumed \cup unlisted]_vars

(* The gate is passed before the waits and the action counted after them,  *)
(* so the runs in flight can exceed the budget, but only by one action     *)
(* each (governor.py evaluate, record; README: "exhausted budgets and      *)
(* out-of-contract authority are denied").                                 *)
BudgetBounded == Contracted # {} =>
    executed <= ActionBudget + Cardinality(Contracted) - 1

(* Nothing is charged to the mission, and the gate of each of its actions  *)
(* is the autonomy mode's alone (task_engine.py execute_node, governor.py  *)
(* evaluate).                                                              *)
Unaccounted == usage.actions = 0 /\ \A r \in Run : Gate(r) = Mode

(* Every run comes to an end, though nobody answers its requests and its   *)
(* agent is paused or loses its lock (approvals.py request, executor.py    *)
(* run_loop).                                                              *)
RunIsBounded == \A r \in Run : run[r].pc = "decide" ~> run[r].pc = "done"
=============================================================================
