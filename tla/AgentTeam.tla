----------------------------- MODULE AgentTeam -----------------------------
(***************************************************************************)
(* Missions that find or make an agent for their task and let it reason:   *)
(* AutonomousRuntime.execute (orchestrator.py) with the planner            *)
(* (agents/planning.py), the reasoning provider and the validator of its   *)
(* proposals (reasoning_provider.py, proposals.py), over the agent tree    *)
(* and the shared chat provider.                                           *)
(*                                                                         *)
(* A caller is the mission of one task.  An answer is named by the         *)
(* question it answers: the provider says of it what it was asked, task    *)
(* and requirements, and nothing is assumed of what else it says.          *)
(***************************************************************************)
EXTENDS AgentAuthority, ProviderChat

CONSTANTS
    ReqTools,   \* the tools each task requires
    MaxSteps,   \* run_loop's max_steps: questions of a mission's agent
    MaxEdits    \* bound on what is managed by hand

ASSUME CallerAssumption == Caller = Task
ASSUME ReqAssumption == ReqTools \in [Task -> SUBSET Tool]
ASSUME ConvAssumption == Conv = {Main} \cup [task : Task, kind : {"select", "define"}]
ASSUME BoundsAssumption == {MaxSteps, MaxEdits} \subseteq Nat

VARIABLES
    stage,      \* what each mission asks next, or how it ended
    worker,     \* its agent
    asks,       \* questions its agent asked
    registered, \* agents in the AgentRegistry
    acted,      \* history: proposals turned into actions
    edits

team == <<stage, worker, asks, registered, acted, edits>>
vars == <<authority, chat, team>>

(* CapabilityAnalyzer.analyze: every task observes the screen.             *)
ReqPerms(k) == {Screen} \cup UNION {Needs[x] : x \in ReqTools[k]}
Question(k) == [task |-> k, kind |-> stage[k]]
Busy(k) == stage[k] \in {"select", "define", "reason"}

Stage == {"select", "define", "reason", "completed", "failed", "cancelled"}

TypeOK ==
    /\ AuthorityTypeOK /\ ChatTypeOK
    /\ stage \in [Task -> Stage]
    /\ worker \in [Task -> Agent \cup {None}]
    /\ \A k \in Task : stage[k] \in {"reason", "completed"} => worker[k] \in registered
    /\ \A k \in Task : ~Busy(k) => at[k] = "idle"
    /\ registered \subseteq {a \in Agent : Exists(a)}
    /\ asks \in [Task -> 0..MaxSteps] /\ edits \in 0..MaxEdits

Init ==
    /\ AuthorityInit /\ ChatInit
    /\ stage = [k \in Task |-> "select"]
    /\ worker = [k \in Task |-> None]
    /\ asks = [k \in Task |-> 0]
    /\ registered = {} /\ acted = {} /\ edits = 0

(* Mutant: agents at work are not left out.                                *)
EligibleAtWork(k) ==
    {a \in registered : ReqPerms(k) \subseteq perms[a] /\ ReqTools[k] \subseteq tools[a]}

(* AgentRegistry.find.  Which of several is a matter of success rates.     *)
Eligible(k) ==
    {a \in registered : /\ status[a] \in {"ready", "completed"}
                        /\ ReqPerms(k) \subseteq perms[a] /\ ReqTools[k] \subseteq tools[a]}

(* The planner's two prompts, and the agent's question of each step of its *)
(* run.                                                                    *)
Ask(k) ==
    /\ IF stage[k] = "reason"
       THEN /\ asks[k] < MaxSteps
            /\ asks' = [asks EXCEPT ![k] = @ + 1]
            /\ BeginUnlocked(k)
       ELSE /\ Busy(k)
            /\ BeginLocked(k, Question(k))
            /\ UNCHANGED asks
    /\ UNCHANGED <<authority, stage, worker, registered, acted, edits>>

Exchange(k) ==
    /\ Open(k) \/ Field(k) \/ Count(k) \/ Fill(k, Question(k)) \/ Press(k) \/ Wait(k)
    /\ UNCHANGED <<authority, team>>

Site == \E c \in Conv : Respond(c) /\ UNCHANGED <<authority, team>>

Works(k, a) ==
    /\ stage' = [stage EXCEPT ![k] = "reason"]
    /\ worker' = [worker EXCEPT ![k] = a]

(* An answer that is not a selection, or changes what the task requires,   *)
(* raises AgentPlanningError; reuse is decided by the registry alone, as   *)
(* it is after the answer.                                                 *)
Selected(k, q) ==
    /\ stage[k] = "select" /\ Extract(k, q)
    /\ q.kind = "select" /\ ReqTools[q.task] = ReqTools[k]
    /\ \/ \E a \in Eligible(k) : Employ(Root, a, k) /\ Works(k, a)
       \/ /\ Eligible(k) = {}
          /\ stage' = [stage EXCEPT ![k] = "define"]
          /\ UNCHANGED <<authority, worker>>
    /\ UNCHANGED <<asks, registered, acted, edits>>

(* The definition must ask for what the task requires.                     *)
Defined(k, q) ==
    /\ stage[k] = "define" /\ Extract(k, q)
    /\ q.kind = "define" /\ ReqTools[q.task] = ReqTools[k]
    /\ \E a \in Agent :
        /\ CreateByDefinition(Root, a, ReqPerms(k), ReqTools[k], k, "running")
        /\ registered' = registered \cup {a}
        /\ Works(k, a)
    /\ UNCHANGED <<asks, acted, edits>>

-----------------------------------------------------------------------------
(* ProposalValidator.validate_action, for task t.  A lease does not count. *)

(* Mutant: whose task it is about is not looked at.                        *)
ValidForAnyTask(a, t, x) ==
    x \in tools[a] /\ Needs[x] \subseteq perms[a] /\ Cardinality(Needs[x]) = 1

Valid(a, t, x) ==
    /\ task[a] = t
    /\ x \in tools[a] /\ Needs[x] \subseteq perms[a] /\ Cardinality(Needs[x]) = 1

(* ReasoningDecisionProvider.next_action: validated for the task the       *)
(* answer names, and again for the mission's when it is executed.          *)
Proposed(k, q) ==
    /\ stage[k] = "reason" /\ Extract(k, q) /\ q.kind = "reason"
    /\ \E x \in Tool :
        /\ Valid(worker[k], q.task, x) /\ Valid(worker[k], k, x)
        /\ Usable(worker[k], x)
        /\ acted' = acted \cup {[agent |-> worker[k], task |-> k, about |-> q.task, tool |-> x]}
    /\ UNCHANGED <<authority, stage, worker, asks, registered, edits>>

(* The mission ends, and its agent's run with it.                          *)
Settles(k, outcome) ==
    /\ stage' = [stage EXCEPT ![k] = outcome]
    /\ IF stage[k] = "reason" THEN Finish(worker[k], outcome) ELSE UNCHANGED authority
    /\ UNCHANGED <<worker, asks, registered, acted, edits>>

(* Any exception: of the provider, of parsing, of the planner or the       *)
(* validator, of an action that fails once too often, or of a run whose    *)
(* steps are used up.                                                      *)
Fails(k) ==
    /\ Busy(k)
    /\ \/ ChatFails(k)
       \/ stage[k] = "reason" /\ at[k] = "idle" /\ UNCHANGED chat
    /\ Settles(k, "failed")

(* The answer proposes no action.                                          *)
Completes(k) ==
    /\ stage[k] = "reason" /\ \E x \in acted : x.task = k
    /\ \E i \in DOMAIN answers[page] :
        answers[page][i].kind = "reason" /\ Extract(k, answers[page][i])
    /\ Settles(k, "completed")

(* AgentManager.terminate_agent cancels the run, and so the mission that   *)
(* awaits it.                                                              *)
TerminateWorker(par, a) ==
    /\ Terminate(par, a)
    /\ IF \E k \in Task : stage[k] = "reason" /\ worker[k] = a
       THEN \E k \in Task :
            /\ stage[k] = "reason" /\ worker[k] = a
            /\ stage' = [stage EXCEPT ![k] = "cancelled"]
            /\ IF at[k] = "idle" THEN UNCHANGED chat ELSE ChatFails(k)
       ELSE UNCHANGED <<chat, stage>>

(* What is managed by hand meanwhile.                                      *)
Edit ==
    /\ edits < MaxEdits /\ edits' = edits + 1
    /\ \/ /\ \/ \E par, a \in Agent : Manage(par, a)
             \/ \E par, a \in Agent, T \in SUBSET Tool, t \in Task, extra \in SUBSET {Screen} :
                    CreateByFactory(par, a, T, t, extra)
          /\ UNCHANGED <<chat, stage>>
       \/ \E par, a \in Agent : TerminateWorker(par, a)
    /\ UNCHANGED <<worker, asks, registered, acted>>

Next ==
    \/ \E k \in Task : Ask(k) \/ Exchange(k) \/ Fails(k) \/ Completes(k)
    \/ \E k \in Task, c \in Conv : \E i \in DOMAIN answers[c] :
        Selected(k, answers[c][i]) \/ Defined(k, answers[c][i]) \/ Proposed(k, answers[c][i])
    \/ Site
    \/ Edit
    \/ \E l \in leases : LeaseEnds(l) /\ UNCHANGED <<chat, team>>

Spec == Init /\ [][Next]_vars

-----------------------------------------------------------------------------
(* Planner and reasoners type into one another's tabs and read one         *)
(* another's answers (reasoning_provider.py:28-33, planning.py:108).       *)
(* Still no agent acts on an answer about another task, and none acts that *)
(* the registry does not know (proposals.py:104).                          *)
NoForeignAction == \A x \in acted : x.about = x.task /\ x.agent \in registered

(* Missions wait for the planner's answer and only then look for an agent: *)
(* still no agent ever works for two of them (planning.py:46-50,           *)
(* registry.py:47; of pausing and resuming, see ActionRuntime).            *)
OneMissionPerAgent ==
    \A k1, k2 \in Task : k1 # k2 /\ stage[k1] = "reason" /\ stage[k2] = "reason" =>
        worker[k1] # worker[k2]
=============================================================================
