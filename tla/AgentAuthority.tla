--------------------------- MODULE AgentAuthority ---------------------------
(***************************************************************************)
(* Who may do what: the agent tree of app/agents/manager.py, the leases of *)
(* app/safety/leases.py, and the ways agents are made - AgentFactory,      *)
(* AgentDefinition, the event system's AgentBlueprint, and the health      *)
(* monitor's replacement.                                                  *)
(*                                                                         *)
(* Every operation is synchronous, so each is one action; an operation     *)
(* that raises changes nothing and is left out.  The application and       *)
(* directory boundaries of an agent are left out too: they can only deny   *)
(* it an action of the event system.                                       *)
(***************************************************************************)
EXTENDS Integers, FiniteSets

CONSTANTS
    Agent, Root,
    Perm, Screen, \* Screen: the permission to observe the screen
    Tool, Needs,  \* Needs[x]: ToolSpec.required_permissions
    Task,
    None,         \* no parent, no task
    RootPerms     \* what create_root is given

ASSUME RootAssumption == Root \in Agent /\ None \notin Agent \cup Task
ASSUME PermAssumption == RootPerms \cup {Screen} \subseteq Perm /\ Needs \in [Tool -> SUBSET Perm]

VARIABLES
    parent,    \* parent_agent_id
    perms,     \* permissions
    tools,     \* available_tools
    task,      \* current_task_id
    status,    \* "none": the agent does not exist
    leases,    \* active leases, <<agent, permission, task>>
    ever       \* history: every permission the agent had for good

authority == <<parent, perms, tools, task, status, leases, ever>>

Status == {"none", "ready", "running", "completed", "failed", "terminated"}
Exists(a) == status[a] # "none"

AuthorityTypeOK ==
    /\ parent \in [Agent -> Agent \cup {None}]
    /\ perms \in [Agent -> SUBSET Perm]
    /\ tools \in [Agent -> SUBSET Tool]
    /\ task \in [Agent -> Task \cup {None}]
    /\ status \in [Agent -> Status]
    /\ leases \subseteq Agent \X Perm \X Task
    /\ ever \in [Agent -> SUBSET Perm]

AuthorityInit ==
    /\ parent = [a \in Agent |-> None]
    /\ perms = [a \in Agent |-> IF a = Root THEN RootPerms ELSE {}]
    /\ tools = [a \in Agent |-> {}]
    /\ task = [a \in Agent |-> None]
    /\ status = [a \in Agent |-> IF a = Root THEN "ready" ELSE "none"]
    /\ leases = {}
    /\ ever = perms

(* _owned_child: only the direct parent manages an agent.                  *)
Owns(par, a) == Exists(a) /\ parent[a] = par

(* AgentManager.create_agent: of what the parent has, and with every       *)
(* permission its tools need.  s is "ready", or "running" when the caller  *)
(* assigns and starts it in the same step.                                 *)
NewChild(par, a, P, T, t, s) ==
    /\ Exists(par) /\ ~Exists(a)
    /\ P \subseteq perms[par]
    /\ \A x \in T : Needs[x] \subseteq P
    /\ parent' = [parent EXCEPT ![a] = par]
    /\ perms' = [perms EXCEPT ![a] = P]
    /\ ever' = [ever EXCEPT ![a] = P]
    /\ tools' = [tools EXCEPT ![a] = T]
    /\ task' = [task EXCEPT ![a] = t]
    /\ status' = [status EXCEPT ![a] = s]
    /\ UNCHANGED leases

(* AgentFactory.create: exactly the permissions of the tools, and of       *)
(* observing the screen (extra).                                           *)
CreateByFactory(par, a, T, t, extra) ==
    NewChild(par, a, (UNION {Needs[x] : x \in T}) \cup extra, T, t, "ready")

(* AgentDefinition.create.                                                 *)
CreateByDefinition(par, a, P, T, t, s) == NewChild(par, a, P, T, t, s)

(* AgentBlueprint.create names no task: its subscriptions, limits and risk *)
(* policy come after the authority is settled and add none.                *)
CreateByBlueprint(par, a, P, T) == NewChild(par, a, P, T, None, "ready")

(* AgentHealthMonitor.replace: permissions, tools and task of an agent     *)
(* that failed or was terminated.                                          *)
Replace(par, old, a) ==
    /\ status[old] \in {"failed", "terminated"}
    /\ NewChild(par, a, perms[old], tools[old], task[old], "ready")

(* Mutant: whoever is the parent may grant.                                *)
GrantAny(par, a, p) ==
    /\ Owns(par, a)
    /\ perms' = [perms EXCEPT ![a] = @ \cup {p}]
    /\ ever' = [ever EXCEPT ![a] = @ \cup {p}]
    /\ UNCHANGED <<parent, tools, task, status, leases>>

Grant(par, a, p) ==
    /\ Owns(par, a) /\ p \in perms[par]
    /\ perms' = [perms EXCEPT ![a] = @ \cup {p}]
    /\ ever' = [ever EXCEPT ![a] = @ \cup {p}]
    /\ UNCHANGED <<parent, tools, task, status, leases>>

(* The agent's tools, its leases and its children keep what they have.     *)
Revoke(par, a, p) ==
    /\ Owns(par, a) /\ p \in perms[a]
    /\ perms' = [perms EXCEPT ![a] = @ \ {p}]
    /\ UNCHANGED <<parent, tools, task, status, leases, ever>>

GrantTool(par, a, x) ==
    /\ Owns(par, a) /\ Needs[x] \subseteq perms[a]
    /\ tools' = [tools EXCEPT ![a] = @ \cup {x}]
    /\ UNCHANGED <<parent, perms, task, status, leases, ever>>

Lease(par, a, p) ==
    /\ Owns(par, a) /\ p \in perms[par] /\ task[a] # None
    /\ leases' = leases \cup {<<a, p, task[a]>>}
    /\ UNCHANGED <<parent, perms, tools, task, status, ever>>

(* It expires or is revoked.                                               *)
LeaseEnds(l) ==
    /\ l \in leases
    /\ leases' = leases \ {l}
    /\ UNCHANGED <<parent, perms, tools, task, status, ever>>

Assign(par, a, t) ==
    /\ Owns(par, a) /\ status[a] # "terminated"
    /\ task' = [task EXCEPT ![a] = t]
    /\ status' = [status EXCEPT ![a] = "ready"]
    /\ UNCHANGED <<parent, perms, tools, leases, ever>>

Becomes(a, s) ==
    /\ status' = [status EXCEPT ![a] = s]
    /\ UNCHANGED <<parent, perms, tools, task, leases, ever>>

(* AutonomousRuntime.execute, AgentPlanningWorkflow.select_or_create: an   *)
(* agent is assigned and started in one go, nothing is awaited in between. *)
Employ(par, a, t) ==
    /\ Owns(par, a) /\ status[a] # "terminated"
    /\ task' = [task EXCEPT ![a] = t]
    /\ status' = [status EXCEPT ![a] = "running"]
    /\ UNCHANGED <<parent, perms, tools, leases, ever>>

Start(par, a) == Owns(par, a) /\ status[a] # "terminated" /\ Becomes(a, "running")
Terminate(par, a) == Owns(par, a) /\ Becomes(a, "terminated")
Finish(a, s) == status[a] = "running" /\ s \in {"completed", "failed"} /\ Becomes(a, s)

(* execute_tool and ActionRuntime: what a may use now.                     *)
Permitted(a, p) == p \in perms[a] \/ <<a, p, task[a]>> \in leases
Usable(a, x) == status[a] = "running" /\ x \in tools[a] /\ \A p \in Needs[x] : Permitted(a, p)

(* What a parent may do by itself, without a mission.                      *)
Manage(par, a) ==
    \/ \E p \in Perm : Grant(par, a, p) \/ Revoke(par, a, p) \/ Lease(par, a, p)
    \/ \E x \in Tool : GrantTool(par, a, x)
    \/ \E P \in SUBSET Perm, T \in SUBSET Tool, t \in Task \cup {None} :
            CreateByDefinition(par, a, P, T, t, "ready")
    \/ \E P \in SUBSET Perm, T \in SUBSET Tool : CreateByBlueprint(par, a, P, T)
    \/ \E old \in Agent : Replace(par, old, a)

AuthorityNext ==
    \/ \E par, a \in Agent : Manage(par, a) \/ Start(par, a) \/ Terminate(par, a)
    \/ \E par, a \in Agent, t \in Task : Assign(par, a, t) \/ Employ(par, a, t)
    \/ \E par, a \in Agent, P \in SUBSET Perm, T \in SUBSET Tool, t \in Task :
            CreateByDefinition(par, a, P, T, t, "running")
    \/ \E par, a \in Agent, T \in SUBSET Tool, t \in Task, extra \in SUBSET {Screen} :
            CreateByFactory(par, a, T, t, extra)
    \/ \E a \in Agent, s \in Status : Finish(a, s)
    \/ \E l \in leases : LeaseEnds(l)

AuthoritySpec == AuthorityInit /\ [][AuthorityNext]_authority

-----------------------------------------------------------------------------
(* Authority only flows down the tree: whatever an agent has, for good or  *)
(* on lease, its parent had for good at some time, and so had the root -   *)
(* however grants, revocations, leases, reassignments and replacements     *)
(* follow one another (manager.py:40-140).  It may be stale: a revocation  *)
(* does not reach what was passed on.                                      *)
AuthorityFlowsDown ==
    /\ \A a \in Agent \ {Root} : Exists(a) =>
        perms[a] \cup ever[a] \subseteq ever[parent[a]] \cap RootPerms
    /\ \A l \in leases : Exists(l[1]) /\ l[2] \in ever[parent[l[1]]]
=============================================================================
