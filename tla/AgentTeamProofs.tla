--------------------------- MODULE AgentTeamProofs ---------------------------
(***************************************************************************)
(* Proofs about AgentAuthority and AgentTeam, for any agents, permissions, *)
(* tools and tasks.                                                        *)
(*                                                                         *)
(* AuthorityFlowsDown is not inductive: that a new agent takes nothing its *)
(* parent never had needs perms to be within ever, and that it disturbs no *)
(* other agent needs every parent and every holder of a lease to exist.    *)
(* TypeOK of the team needs what its tabs hold to be sequences of questions*)
(* and, of the tree, that no agent ever ceases to exist.                   *)
(***************************************************************************)
EXTENDS AgentTeam, SequenceTheorems, TLAPS

Rooted ==
    /\ Exists(Root) /\ parent[Root] = None
    /\ ever[Root] \subseteq RootPerms

ParentsExist == \A a \in Agent \ {Root} : Exists(a) =>
    parent[a] \in Agent /\ Exists(parent[a])

HeldOnce == \A a \in Agent : Exists(a) => perms[a] \subseteq ever[a]

FlowsDown == \A a \in Agent \ {Root} : Exists(a) =>
    ever[a] \subseteq ever[parent[a]] /\ ever[a] \subseteq RootPerms

Leased == \A l \in leases : l[1] # Root /\ Exists(l[1]) /\ l[2] \in ever[parent[l[1]]]

AInv == AuthorityTypeOK /\ Rooted /\ ParentsExist /\ HeldOnce /\ FlowsDown /\ Leased

-----------------------------------------------------------------------------
LEMMA AuthorityInitiallyTyped == AuthorityInit => AuthorityTypeOK
  BY RootAssumption, PermAssumption DEF AuthorityInit, AuthorityTypeOK, Status

LEMMA InitAuthority == AuthorityInit => AInv
  <1> SUFFICES ASSUME AuthorityInit PROVE AInv
    OBVIOUS
  <1>1. AuthorityTypeOK
    BY AuthorityInitiallyTyped
  <1>2. \A a \in Agent : Exists(a) <=> a = Root
    BY RootAssumption DEF AuthorityInit, Exists
  <1>3. Rooted /\ ParentsExist /\ HeldOnce /\ FlowsDown
    BY <1>2, RootAssumption, PermAssumption
    DEF Rooted, ParentsExist, HeldOnce, FlowsDown, AuthorityInit, Exists
  <1>4. Leased
    BY DEF Leased, AuthorityInit
  <1> QED BY <1>1, <1>3, <1>4 DEF AInv

(* What a parent is, once it owns an agent.                                *)
LEMMA OwnedIsChild ==
    ASSUME AInv, NEW par \in Agent, NEW a \in Agent, Owns(par, a)
    PROVE  a # Root /\ Exists(a) /\ parent[a] = par /\ Exists(par)
  BY RootAssumption DEF AInv, Rooted, ParentsExist, Owns

(* What any agent has, the root had.                                       *)
LEMMA WithinRoot ==
    ASSUME AInv, NEW a \in Agent, Exists(a)
    PROVE  perms[a] \subseteq ever[a] /\ ever[a] \subseteq RootPerms
  BY DEF AInv, Rooted, HeldOnce, FlowsDown

-----------------------------------------------------------------------------
(* A new agent: it takes of what its parent has, and nobody is its child.  *)
LEMMA NewChildKeeps ==
    ASSUME AInv, NEW par \in Agent, NEW a \in Agent, NEW P \in SUBSET Perm,
           NEW T \in SUBSET Tool, NEW t \in Task \cup {None},
           NEW s \in {"ready", "running"}, NewChild(par, a, P, T, t, s)
    PROVE  AInv'
  <1> USE DEF NewChild
  <1>t. AuthorityTypeOK
    BY DEF AInv
  <1>1. AuthorityTypeOK'
    BY <1>t DEF AuthorityTypeOK, Status
  <1>2. /\ a # Root /\ a # par /\ Exists(par) /\ ~Exists(a)
        /\ perms[par] \subseteq ever[par] /\ ever[par] \subseteq RootPerms
    BY WithinRoot DEF AInv, Rooted
  <1>3. /\ \A b \in Agent \ {a} : /\ parent'[b] = parent[b] /\ perms'[b] = perms[b]
                                  /\ ever'[b] = ever[b] /\ (Exists(b)' <=> Exists(b))
        /\ parent'[a] = par /\ perms'[a] = P /\ ever'[a] = P /\ Exists(a)'
    BY <1>t DEF AuthorityTypeOK, Exists
  <1>4. \A b \in Agent \ {Root} : Exists(b) => parent[b] # a
    BY <1>2 DEF AInv, ParentsExist
  <1>5. Rooted' /\ ParentsExist' /\ HeldOnce' /\ FlowsDown'
    <2>1. Rooted'
      BY <1>2, <1>3, RootAssumption DEF AInv, Rooted
    <2>2. ParentsExist'
      BY <1>2, <1>3, <1>4 DEF AInv, ParentsExist
    <2>3. HeldOnce'
      BY <1>3 DEF AInv, HeldOnce
    <2>4. FlowsDown'
      <3> SUFFICES ASSUME NEW b \in Agent \ {Root}, Exists(b)'
                   PROVE  ever'[b] \subseteq ever'[parent'[b]] /\ ever'[b] \subseteq RootPerms
        BY DEF FlowsDown
      <3>1. CASE b = a
        BY <3>1, <1>2, <1>3
      <3>2. CASE b # a
        <4>1. Exists(b) /\ parent[b] # a /\ parent[b] \in Agent
          BY <3>2, <1>3, <1>4 DEF AInv, ParentsExist
        <4> QED BY <4>1, <3>2, <1>3 DEF AInv, FlowsDown
      <3> QED BY <3>1, <3>2
    <2> QED BY <2>1, <2>2, <2>3, <2>4
  <1>6. Leased'
    <2> SUFFICES ASSUME NEW l \in leases
                 PROVE  l[1] # Root /\ Exists(l[1])' /\ l[2] \in ever'[parent'[l[1]]]
      BY DEF Leased
    <2>1. l[1] \in Agent /\ l[1] # Root /\ Exists(l[1]) /\ l[2] \in ever[parent[l[1]]]
      BY <1>t DEF AInv, Leased, AuthorityTypeOK
    <2>2. l[1] # a /\ parent[l[1]] # a /\ parent[l[1]] \in Agent
      BY <2>1, <1>2, <1>4 DEF AInv, ParentsExist
    <2> QED BY <2>1, <2>2, <1>3
  <1> QED BY <1>1, <1>5, <1>6 DEF AInv

(* Steps that touch neither parents, permissions nor leases.               *)
LEMMA StatusKeeps ==
    ASSUME AInv, AuthorityTypeOK',
           \A a \in Agent : Exists(a)' <=> Exists(a),
           UNCHANGED <<parent, perms, leases, ever>>
    PROVE  AInv'
  <1>1. Rooted' /\ ParentsExist' /\ HeldOnce' /\ FlowsDown'
    BY RootAssumption DEF AInv, Rooted, ParentsExist, HeldOnce, FlowsDown
  <1>2. Leased'
    BY DEF AInv, Leased, AuthorityTypeOK
  <1> QED BY <1>1, <1>2 DEF AInv

(* A grant, of what the parent has now, so had at some time.               *)
LEMMA GrantKeeps ==
    ASSUME AInv, NEW par \in Agent, NEW a \in Agent, NEW p \in Perm, Grant(par, a, p)
    PROVE  AInv'
  <1> USE DEF Grant
  <1>t. AuthorityTypeOK
    BY DEF AInv
  <1>1. AuthorityTypeOK'
    BY <1>t DEF AuthorityTypeOK
  <1>2. a # Root /\ Exists(a) /\ parent[a] = par /\ Exists(par)
    BY OwnedIsChild
  <1>3. p \in ever[par] /\ p \in RootPerms
    BY <1>2, WithinRoot
  <1>4. \A b \in Agent : /\ ever[b] \subseteq ever'[b] /\ parent'[b] = parent[b]
                         /\ (Exists(b)' <=> Exists(b))
                         /\ b # a => ever'[b] = ever[b] /\ perms'[b] = perms[b]
    BY <1>t DEF AuthorityTypeOK, Exists
  <1>5. ever'[a] = ever[a] \cup {p} /\ perms'[a] = perms[a] \cup {p}
    BY <1>t DEF AuthorityTypeOK
  <1>6. Rooted' /\ ParentsExist' /\ HeldOnce'
    BY <1>2, <1>4, <1>5, RootAssumption DEF AInv, Rooted, ParentsExist, HeldOnce
  <1>7. FlowsDown'
    <2> SUFFICES ASSUME NEW b \in Agent \ {Root}, Exists(b)'
                 PROVE  ever'[b] \subseteq ever'[parent'[b]] /\ ever'[b] \subseteq RootPerms
      BY DEF FlowsDown
    <2>1. Exists(b) /\ parent[b] \in Agent /\ ever[parent[b]] \subseteq ever'[parent[b]]
          /\ ever[b] \subseteq ever[parent[b]] /\ ever[b] \subseteq RootPerms
      BY <1>4 DEF AInv, ParentsExist, FlowsDown
    <2>2. CASE b = a
      BY <2>1, <2>2, <1>2, <1>3, <1>4, <1>5
    <2>3. CASE b # a
      BY <2>1, <2>3, <1>4
    <2> QED BY <2>2, <2>3
  <1>8. Leased'
    <2> SUFFICES ASSUME NEW l \in leases
                 PROVE  l[1] # Root /\ Exists(l[1])' /\ l[2] \in ever'[parent'[l[1]]]
      BY DEF Leased
    <2>1. l[1] \in Agent /\ l[1] # Root /\ Exists(l[1]) /\ l[2] \in ever[parent[l[1]]]
      BY <1>t DEF AInv, Leased, AuthorityTypeOK
    <2>2. parent[l[1]] \in Agent
      BY <2>1 DEF AInv, ParentsExist
    <2> QED BY <2>1, <2>2, <1>4
  <1> QED BY <1>1, <1>6, <1>7, <1>8 DEF AInv

LEMMA RevokeKeeps ==
    ASSUME AInv, NEW par \in Agent, NEW a \in Agent, NEW p \in Perm, Revoke(par, a, p)
    PROVE  AInv'
  <1> USE DEF Revoke
  <1>t. AuthorityTypeOK
    BY DEF AInv
  <1>1. AuthorityTypeOK'
    BY <1>t DEF AuthorityTypeOK
  <1>2. \A b \in Agent : perms'[b] \subseteq perms[b] /\ (Exists(b)' <=> Exists(b))
    BY <1>t DEF AuthorityTypeOK, Exists
  <1>3. Rooted' /\ ParentsExist' /\ HeldOnce' /\ FlowsDown'
    BY <1>2, RootAssumption DEF AInv, Rooted, ParentsExist, HeldOnce, FlowsDown
  <1>4. Leased'
    BY <1>2, <1>t DEF AInv, Leased, AuthorityTypeOK
  <1> QED BY <1>1, <1>3, <1>4 DEF AInv

LEMMA LeaseKeeps ==
    ASSUME AInv, NEW par \in Agent, NEW a \in Agent, NEW p \in Perm, Lease(par, a, p)
    PROVE  AInv'
  <1> USE DEF Lease
  <1>t. AuthorityTypeOK
    BY DEF AInv
  <1>1. a # Root /\ Exists(a) /\ parent[a] = par /\ Exists(par) /\ p \in ever[par]
    BY OwnedIsChild, WithinRoot
  <1>2. <<a, p, task[a]>> \in Agent \X Perm \X Task
    BY <1>t DEF AuthorityTypeOK
  <1>3. AuthorityTypeOK'
    BY <1>t, <1>2 DEF AuthorityTypeOK
  <1>4. \A b \in Agent : Exists(b)' <=> Exists(b)
    BY DEF Exists
  <1>5. Rooted' /\ ParentsExist' /\ HeldOnce' /\ FlowsDown'
    BY <1>4, RootAssumption DEF AInv, Rooted, ParentsExist, HeldOnce, FlowsDown
  <1>6. Leased'
    <2> SUFFICES ASSUME NEW l \in leases \cup {<<a, p, task[a]>>}
                 PROVE  l[1] # Root /\ Exists(l[1])' /\ l[2] \in ever'[parent'[l[1]]]
      BY DEF Leased
    <2>1. CASE l \in leases
      BY <2>1, <1>t, <1>4 DEF AInv, Leased, AuthorityTypeOK
    <2>2. CASE l = <<a, p, task[a]>>
      BY <2>2, <1>1, <1>4
    <2> QED BY <2>1, <2>2
  <1> QED BY <1>3, <1>5, <1>6 DEF AInv

LEMMA LeaseEndsKeeps ==
    ASSUME AInv, NEW l, LeaseEnds(l)
    PROVE  AInv'
  <1> USE DEF LeaseEnds
  <1>1. AuthorityTypeOK'
    BY DEF AInv, AuthorityTypeOK
  <1>2. \A b \in Agent : Exists(b)' <=> Exists(b)
    BY DEF Exists
  <1>3. Rooted' /\ ParentsExist' /\ HeldOnce' /\ FlowsDown'
    BY <1>2, RootAssumption DEF AInv, Rooted, ParentsExist, HeldOnce, FlowsDown
  <1>4. Leased'
    BY <1>2 DEF AInv, Leased, AuthorityTypeOK
  <1> QED BY <1>1, <1>3, <1>4 DEF AInv

(* Steps that change the status or the tools of one agent, or its task.    *)
LEMMA RunKeeps ==
    ASSUME AInv, NEW a \in Agent, Exists(a), NEW t \in Task, NEW s \in Status \ {"none"},
           task' \in {task, [task EXCEPT ![a] = t]}, status' = [status EXCEPT ![a] = s],
           UNCHANGED <<parent, perms, tools, leases, ever>>
    PROVE  AInv'
  <1>t. AuthorityTypeOK
    BY DEF AInv
  <1>1. AuthorityTypeOK'
    BY <1>t DEF AuthorityTypeOK
  <1>2. \A b \in Agent : Exists(b)' <=> Exists(b)
    BY <1>t DEF AuthorityTypeOK, Exists
  <1> QED BY <1>1, <1>2, StatusKeeps

LEMMA GrantToolKeeps ==
    ASSUME AInv, NEW par \in Agent, NEW a \in Agent, NEW x \in Tool, GrantTool(par, a, x)
    PROVE  AInv'
  <1> USE DEF GrantTool
  <1>1. AuthorityTypeOK'
    BY DEF AInv, AuthorityTypeOK
  <1>2. \A b \in Agent : Exists(b)' <=> Exists(b)
    BY DEF Exists
  <1> QED BY <1>1, <1>2, StatusKeeps

LEMMA FactoryKeeps ==
    ASSUME AInv, NEW par \in Agent, NEW a \in Agent, NEW T \in SUBSET Tool, NEW t \in Task,
           NEW extra \in SUBSET {Screen}, CreateByFactory(par, a, T, t, extra)
    PROVE  AInv'
  <1> DEFINE P == (UNION {Needs[x] : x \in T}) \cup extra
  <1>1. P \in SUBSET Perm
    <2>1. ASSUME NEW p \in UNION {Needs[x] : x \in T} PROVE p \in Perm
      <3>1. PICK x \in T : p \in Needs[x]
        BY <2>1
      <3> QED BY <3>1, PermAssumption
    <2> QED BY <2>1, PermAssumption
  <1>2. NewChild(par, a, P, T, t, "ready")
    BY DEF CreateByFactory
  <1> HIDE DEF P
  <1> QED BY <1>1, <1>2, NewChildKeeps

LEMMA DefinitionKeeps ==
    ASSUME AInv, NEW par \in Agent, NEW a \in Agent, NEW P \in SUBSET Perm,
           NEW T \in SUBSET Tool, NEW t \in Task \cup {None},
           NEW s \in {"ready", "running"}, CreateByDefinition(par, a, P, T, t, s)
    PROVE  AInv'
  BY NewChildKeeps DEF CreateByDefinition

LEMMA BlueprintKeeps ==
    ASSUME AInv, NEW par \in Agent, NEW a \in Agent, NEW P \in SUBSET Perm,
           NEW T \in SUBSET Tool, CreateByBlueprint(par, a, P, T)
    PROVE  AInv'
  BY NewChildKeeps DEF CreateByBlueprint

LEMMA ReplaceKeeps ==
    ASSUME AInv, NEW par \in Agent, NEW old \in Agent, NEW a \in Agent, Replace(par, old, a)
    PROVE  AInv'
  <1>1. /\ perms[old] \in SUBSET Perm /\ tools[old] \in SUBSET Tool
        /\ task[old] \in Task \cup {None}
    BY DEF AInv, AuthorityTypeOK
  <1>2. NewChild(par, a, perms[old], tools[old], task[old], "ready")
    BY DEF Replace
  <1> QED BY <1>1, <1>2, NewChildKeeps

-----------------------------------------------------------------------------
LEMMA ManageKeeps ==
    ASSUME AInv, NEW par \in Agent, NEW a \in Agent, Manage(par, a)
    PROVE  AInv'
  <1>1. CASE \E p \in Perm : Grant(par, a, p) \/ Revoke(par, a, p) \/ Lease(par, a, p)
    BY <1>1, GrantKeeps, RevokeKeeps, LeaseKeeps
  <1>2. CASE \E x \in Tool : GrantTool(par, a, x)
    BY <1>2, GrantToolKeeps
  <1>3. CASE \E P \in SUBSET Perm, T \in SUBSET Tool, t \in Task \cup {None} :
                CreateByDefinition(par, a, P, T, t, "ready")
    BY <1>3, DefinitionKeeps
  <1>4. CASE \E old \in Agent : Replace(par, old, a)
    BY <1>4, ReplaceKeeps
  <1>5. CASE \E P \in SUBSET Perm, T \in SUBSET Tool : CreateByBlueprint(par, a, P, T)
    BY <1>5, BlueprintKeeps
  <1> QED BY <1>1, <1>2, <1>3, <1>4, <1>5 DEF Manage

LEMMA LifeKeeps ==
    ASSUME AInv, NEW par \in Agent, NEW a \in Agent, NEW t \in Task,
           Start(par, a) \/ Terminate(par, a) \/ Assign(par, a, t) \/ Employ(par, a, t)
    PROVE  AInv'
  <1>1. Exists(a) /\ "ready" \in Status \ {"none"} /\ "running" \in Status \ {"none"}
        /\ "terminated" \in Status \ {"none"}
    BY DEF Start, Terminate, Assign, Employ, Owns, Status
  <1>2. CASE Start(par, a)
    BY <1>1, <1>2, RunKeeps DEF Start, Becomes
  <1>3. CASE Terminate(par, a)
    BY <1>1, <1>3, RunKeeps DEF Terminate, Becomes
  <1>4. CASE Assign(par, a, t)
    BY <1>1, <1>4, RunKeeps DEF Assign
  <1>5. CASE Employ(par, a, t)
    BY <1>1, <1>5, RunKeeps DEF Employ
  <1> QED BY <1>2, <1>3, <1>4, <1>5

LEMMA AuthorityStep == AInv /\ [AuthorityNext]_authority => AInv'
  <1> SUFFICES ASSUME AInv, [AuthorityNext]_authority PROVE AInv'
    OBVIOUS
  <1>1. CASE UNCHANGED authority
    <2>1. AuthorityTypeOK' /\ (\A a \in Agent : Exists(a)' <=> Exists(a))
      BY <1>1 DEF AInv, AuthorityTypeOK, Exists, authority
    <2> QED BY <1>1, <2>1, StatusKeeps DEF authority
  <1>2. ASSUME NEW par \in Agent, NEW a \in Agent,
               Manage(par, a) \/ Start(par, a) \/ Terminate(par, a)
        PROVE  AInv'
    <2>1. CASE Manage(par, a)
      BY <2>1, ManageKeeps
    <2>2. CASE Start(par, a) \/ Terminate(par, a)
      <3>1. Exists(a) /\ "running" \in Status \ {"none"} /\ "terminated" \in Status \ {"none"}
        BY <2>2 DEF Start, Terminate, Owns, Status
      <3>2. AuthorityTypeOK'
        BY <2>2 DEF AInv, AuthorityTypeOK, Start, Terminate, Becomes, Status
      <3>3. \A b \in Agent : Exists(b)' <=> Exists(b)
        BY <2>2, <3>1 DEF AInv, AuthorityTypeOK, Start, Terminate, Becomes, Exists
      <3> QED BY <2>2, <3>2, <3>3, StatusKeeps DEF Start, Terminate, Becomes
    <2> QED BY <1>2, <2>1, <2>2
  <1>3. ASSUME NEW par \in Agent, NEW a \in Agent, NEW t \in Task,
               Assign(par, a, t) \/ Employ(par, a, t)
        PROVE  AInv'
    BY <1>3, LifeKeeps
  <1>4. ASSUME NEW a \in Agent, NEW s \in Status, Finish(a, s)
        PROVE  AInv'
    <2>1. Exists(a) /\ s # "none"
      BY <1>4 DEF Finish, Exists
    <2>2. AuthorityTypeOK'
      BY <1>4 DEF AInv, AuthorityTypeOK, Finish, Becomes
    <2>3. \A b \in Agent : Exists(b)' <=> Exists(b)
      BY <1>4, <2>1 DEF AInv, AuthorityTypeOK, Finish, Becomes, Exists
    <2> QED BY <1>4, <2>2, <2>3, StatusKeeps DEF Finish, Becomes
  <1>5. CASE \E par, a \in Agent, P \in SUBSET Perm, T \in SUBSET Tool, t \in Task : CreateByDefinition(par, a, P, T, t, "running")
    BY <1>5, DefinitionKeeps
  <1>6. CASE \E par, a \in Agent, T \in SUBSET Tool, t \in Task, extra \in SUBSET {Screen} :
                CreateByFactory(par, a, T, t, extra)
    BY <1>6, FactoryKeeps
  <1>7. CASE \E l \in leases : LeaseEnds(l)
    BY <1>7, LeaseEndsKeeps
  <1> QED BY <1>1, <1>2, <1>3, <1>4, <1>5, <1>6, <1>7 DEF AuthorityNext

LEMMA InvFlowsDown == AInv => AuthorityFlowsDown
  <1> SUFFICES ASSUME AInv PROVE AuthorityFlowsDown
    OBVIOUS
  <1>1. \A l \in leases : l[1] \in Agent
    BY DEF AInv, AuthorityTypeOK
  <1> QED BY <1>1 DEF AInv, AuthorityFlowsDown, HeldOnce, FlowsDown, Leased

(* However agents are made, managed and replaced, the tree stays well      *)
(* typed and no authority flows but down it (manager.py:38-140).           *)
THEOREM AuthorityIsTyped == AuthoritySpec => []AuthorityTypeOK
  <1>1. AInv => AuthorityTypeOK
    BY DEF AInv
  <1> QED BY <1>1, InitAuthority, AuthorityStep, PTL DEF AuthoritySpec

THEOREM AuthorityFlows == AuthoritySpec => []AuthorityFlowsDown
  BY InitAuthority, AuthorityStep, InvFlowsDown, PTL DEF AuthoritySpec

-----------------------------------------------------------------------------
(* The missions change the tree in no other way than the manager's         *)
(* operations.  For that the agent of a mission at work must be one of   *)
(* the registry's.                                                         *)
Workers ==
    /\ stage \in [Task -> Stage] /\ worker \in [Task -> Agent \cup {None}]
    /\ \A k \in Task : stage[k] = "reason" => worker[k] \in registered
    /\ registered \subseteq Agent

LEMMA ReqIsTyped == \A k \in Task : ReqTools[k] \in SUBSET Tool /\ ReqPerms(k) \in SUBSET Perm
  <1> SUFFICES ASSUME NEW k \in Task PROVE ReqTools[k] \in SUBSET Tool /\ ReqPerms(k) \in SUBSET Perm
    OBVIOUS
  <1>1. ReqTools[k] \in SUBSET Tool
    BY ReqAssumption
  <1>2. ASSUME NEW p \in ReqPerms(k), p # Screen PROVE p \in Perm
    <2>1. PICK x \in ReqTools[k] : p \in Needs[x]
      BY <1>2 DEF ReqPerms
    <2> QED BY <2>1, <1>1, PermAssumption
  <1> QED BY <1>1, <1>2, PermAssumption

LEMMA SettlesIsAuthority ==
    ASSUME Workers, NEW k \in Task, NEW s \in Status, Settles(k, s)
    PROVE  [AuthorityNext]_authority
  <1>1. CASE stage[k] = "reason"
    BY <1>1 DEF Settles, Workers, AuthorityNext
  <1>2. CASE stage[k] # "reason"
    BY <1>2 DEF Settles
  <1> QED BY <1>1, <1>2

LEMMA SelectedIsAuthority ==
    ASSUME Workers, NEW k \in Task, NEW q, Selected(k, q)
    PROVE  [AuthorityNext]_authority
  <1>1. ASSUME NEW a \in Eligible(k), Employ(Root, a, k)
        PROVE  AuthorityNext
    BY <1>1, RootAssumption DEF Eligible, Workers, AuthorityNext
  <1> QED BY <1>1 DEF Selected

LEMMA DefinedIsAuthority ==
    ASSUME NEW k \in Task, NEW q, Defined(k, q)
    PROVE  AuthorityNext
  <1>1. PICK a \in Agent :
            CreateByDefinition(Root, a, ReqPerms(k), ReqTools[k], k, "running")
    BY DEF Defined
  <1> QED BY <1>1, ReqIsTyped, RootAssumption DEF AuthorityNext

LEMMA EditIsAuthority == Edit => [AuthorityNext]_authority
  <1> SUFFICES ASSUME Edit PROVE [AuthorityNext]_authority
    OBVIOUS
  <1>1. CASE \E par, a \in Agent : Manage(par, a)
    BY <1>1 DEF AuthorityNext
  <1>2. CASE \E par, a \in Agent, T \in SUBSET Tool, t \in Task, extra \in SUBSET {Screen} :
                CreateByFactory(par, a, T, t, extra)
    BY <1>2 DEF AuthorityNext
  <1>3. CASE \E par, a \in Agent : TerminateWorker(par, a)
    BY <1>3 DEF TerminateWorker, AuthorityNext
  <1> QED BY <1>1, <1>2, <1>3 DEF Edit

LEMMA TeamStep == Workers /\ [Next]_vars => [AuthorityNext]_authority
  <1> SUFFICES ASSUME Workers, [Next]_vars PROVE [AuthorityNext]_authority
    OBVIOUS
  <1>1. CASE UNCHANGED vars
    BY <1>1 DEF vars, authority
  <1>2. ASSUME NEW k \in Task, Ask(k) \/ Exchange(k)
        PROVE  UNCHANGED authority
    BY <1>2 DEF Ask, Exchange
  <1>3. ASSUME NEW k \in Task, Fails(k) \/ Completes(k)
        PROVE  [AuthorityNext]_authority
    <2>1. "failed" \in Status /\ "completed" \in Status
      BY DEF Status
    <2> QED BY <1>3, <2>1, SettlesIsAuthority DEF Fails, Completes
  <1>4. ASSUME NEW k \in Task, NEW q, Selected(k, q) \/ Defined(k, q) \/ Proposed(k, q)
        PROVE  [AuthorityNext]_authority
    BY <1>4, SelectedIsAuthority, DefinedIsAuthority DEF Proposed
  <1>5. CASE Site
    BY <1>5 DEF Site
  <1>6. CASE Edit
    BY <1>6, EditIsAuthority
  <1>7. CASE \E l \in leases : LeaseEnds(l) /\ UNCHANGED <<chat, team>>
    BY <1>7 DEF AuthorityNext
  <1> QED BY <1>1, <1>2, <1>3, <1>4, <1>5, <1>6, <1>7 DEF Next

LEMMA InitWorkers == Init => Workers
  BY DEF Init, Workers, Stage

LEMMA StageKeeps ==
    ASSUME Workers, NEW k \in Task, NEW s \in Stage, s # "reason",
           stage' = [stage EXCEPT ![k] = s], UNCHANGED <<worker, registered>>
    PROVE  Workers'
  BY DEF Workers

LEMMA WorksKeeps ==
    ASSUME Workers, NEW k \in Task, NEW a \in Agent, Works(k, a), a \in registered',
           registered' \in {registered, registered \cup {a}}
    PROVE  Workers'
  BY DEF Workers, Works, Stage

LEMMA WorkersStep == Workers /\ [Next]_vars => Workers'
  <1> SUFFICES ASSUME Workers, [Next]_vars PROVE Workers'
    OBVIOUS
  <1>1. CASE UNCHANGED <<stage, worker, registered>>
    BY <1>1 DEF Workers
  <1>2. CASE UNCHANGED vars
    BY <1>1, <1>2 DEF vars, team
  <1>3. ASSUME NEW k \in Task, Ask(k) \/ Exchange(k)
        PROVE  Workers'
    BY <1>1, <1>3 DEF Ask, Exchange, team
  <1>4. ASSUME NEW k \in Task, Fails(k) \/ Completes(k)
        PROVE  Workers'
    BY <1>4, StageKeeps DEF Fails, Completes, Settles, Stage
  <1>5. ASSUME NEW k \in Task, NEW q, Selected(k, q)
        PROVE  Workers'
    <2>1. CASE \E a \in Eligible(k) : Works(k, a)
      BY <1>5, <2>1, WorksKeeps DEF Selected, Eligible, Workers
    <2>2. CASE stage' = [stage EXCEPT ![k] = "define"] /\ UNCHANGED worker
      BY <1>5, <2>2, StageKeeps DEF Selected, Stage
    <2> QED BY <1>5, <2>1, <2>2 DEF Selected
  <1>6. ASSUME NEW k \in Task, NEW q, Defined(k, q)
        PROVE  Workers'
    BY <1>6, WorksKeeps DEF Defined
  <1>7. ASSUME NEW k \in Task, NEW q, Proposed(k, q)
        PROVE  Workers'
    BY <1>1, <1>7 DEF Proposed
  <1>8. CASE Site
    BY <1>1, <1>8 DEF Site, team
  <1>9. CASE Edit
    <2>1. UNCHANGED <<worker, registered>>
      BY <1>9 DEF Edit
    <2>2. CASE UNCHANGED stage
      BY <1>1, <2>1, <2>2
    <2>3. CASE \E k \in Task : stage' = [stage EXCEPT ![k] = "cancelled"]
      BY <2>1, <2>3, StageKeeps DEF Stage
    <2> QED BY <1>9, <2>2, <2>3 DEF Edit, TerminateWorker
  <1>10. CASE \E l \in leases : LeaseEnds(l) /\ UNCHANGED <<chat, team>>
    BY <1>1, <1>10 DEF team
  <1> QED BY <1>2, <1>3, <1>4, <1>5, <1>6, <1>7, <1>8, <1>9, <1>10 DEF Next

(* Missions that select, define and run agents do to the tree only what    *)
(* the manager allows: the team implements AuthoritySpec, so that whatever *)
(* its agents may use, for good or on lease, flowed down from the root     *)
(* (orchestrator.py, planning.py, manager.py).                             *)
THEOREM TeamImplementsAuthority == Spec => AuthoritySpec
  <1>1. Init => AuthorityInit
    BY DEF Init
  <1> QED BY <1>1, InitWorkers, WorkersStep, TeamStep, PTL DEF Spec, AuthoritySpec

THEOREM TeamAuthorityFlows == Spec => []AuthorityFlowsDown
  BY TeamImplementsAuthority, AuthorityFlows, PTL

-----------------------------------------------------------------------------
(* OneMissionPerAgent is inductive once the agent of a mission at work is  *)
(* known to be running: the registry offers no running agent.              *)
AtWork ==
    /\ \A k \in Task : stage[k] = "reason" => status[worker[k]] = "running"
    /\ OneMissionPerAgent
    /\ NoForeignAction

TInv == AInv /\ Workers /\ AtWork

(* Managing by hand changes the status of no agent that exists.            *)
LEMMA ManageKeepsStatus ==
    ASSUME AuthorityTypeOK, NEW par \in Agent, NEW a \in Agent,
           \/ Manage(par, a)
           \/ \E T \in SUBSET Tool, t \in Task, extra \in SUBSET {Screen} :
                CreateByFactory(par, a, T, t, extra)
    PROVE  \A b \in Agent : Exists(b) => status'[b] = status[b]
  <1>1. CASE UNCHANGED status
    BY <1>1
  <1>2. CASE \E s \in {"ready", "running"} : ~Exists(a) /\ status' = [status EXCEPT ![a] = s]
    BY <1>2 DEF AuthorityTypeOK
  <1>3. CASE \E p \in Perm : Grant(par, a, p) \/ Revoke(par, a, p) \/ Lease(par, a, p)
    BY <1>1, <1>3 DEF Grant, Revoke, Lease
  <1>4. CASE \E x \in Tool : GrantTool(par, a, x)
    BY <1>1, <1>4 DEF GrantTool
  <1>5. CASE \E P \in SUBSET Perm, T \in SUBSET Tool, t \in Task \cup {None} :
                CreateByDefinition(par, a, P, T, t, "ready")
    BY <1>2, <1>5 DEF CreateByDefinition, NewChild
  <1>6. CASE \E old \in Agent : Replace(par, old, a)
    BY <1>2, <1>6 DEF Replace, NewChild
  <1>7. CASE \E T \in SUBSET Tool, t \in Task, extra \in SUBSET {Screen} :
                CreateByFactory(par, a, T, t, extra)
    BY <1>2, <1>7 DEF CreateByFactory, NewChild
  <1>8. CASE \E P \in SUBSET Perm, T \in SUBSET Tool : CreateByBlueprint(par, a, P, T)
    BY <1>2, <1>8 DEF CreateByBlueprint, NewChild
  <1> QED BY <1>3, <1>4, <1>5, <1>6, <1>7, <1>8 DEF Manage

(* A mission leaves: the others and their agents stay as they are.         *)
LEMMA LeaverKeeps ==
    ASSUME TInv, NEW k \in Task, NEW s \in Stage, s # "reason",
           stage' = [stage EXCEPT ![k] = s], UNCHANGED <<worker, registered, acted>>,
           \A b \in Agent : (stage[k] = "reason" => b # worker[k]) => status'[b] = status[b]
    PROVE  AtWork'
  BY DEF TInv, AtWork, Workers, OneMissionPerAgent, NoForeignAction

(* A mission takes an agent that no mission is working with.               *)
LEMMA HireKeeps ==
    ASSUME TInv, NEW k \in Task, NEW a \in Agent, status[a] # "running",
           Works(k, a), status' = [status EXCEPT ![a] = "running"],
           registered \subseteq registered', UNCHANGED acted
    PROVE  AtWork'
  <1>1. \A b \in Agent : status'[b] = IF b = a THEN "running" ELSE status[b]
    BY DEF TInv, AInv, AuthorityTypeOK
  <1>2. \A h \in Task : stage[h] = "reason" => worker[h] # a /\ worker[h] \in Agent
    BY DEF TInv, AtWork, Workers
  <1>3. \A h \in Task : /\ h # k => stage'[h] = stage[h] /\ worker'[h] = worker[h]
                        /\ h = k => stage'[h] = "reason" /\ worker'[h] = a
    BY DEF TInv, Workers, Works
  <1> QED BY <1>1, <1>2, <1>3 DEF TInv, AtWork, OneMissionPerAgent, NoForeignAction

LEMMA TeamSettles ==
    ASSUME TInv, NEW k \in Task, NEW s \in Stage, s # "reason", Settles(k, s)
    PROVE  AtWork'
  <1>1. \A b \in Agent : (stage[k] = "reason" => b # worker[k]) => status'[b] = status[b]
    <2>1. CASE stage[k] = "reason"
      BY <2>1 DEF Settles, Finish, Becomes, TInv, AInv, AuthorityTypeOK
    <2>2. CASE stage[k] # "reason"
      BY <2>2 DEF Settles, authority
    <2> QED BY <2>1, <2>2
  <1> QED BY <1>1, LeaverKeeps DEF Settles

LEMMA TeamSelects ==
    ASSUME TInv, NEW k \in Task, NEW q, Selected(k, q)
    PROVE  AtWork'
  <1>1. ASSUME NEW a \in Eligible(k), Employ(Root, a, k), Works(k, a)
        PROVE  AtWork'
    <2>1. a \in Agent /\ status[a] # "running"
      BY DEF Eligible, TInv, Workers
    <2> QED BY <1>1, <2>1, HireKeeps DEF Employ, Selected
  <1>2. CASE stage' = [stage EXCEPT ![k] = "define"] /\ UNCHANGED <<authority, worker>>
    BY <1>2, LeaverKeeps DEF Selected, authority, Stage
  <1> QED BY <1>1, <1>2 DEF Selected

LEMMA TeamDefines ==
    ASSUME TInv, NEW k \in Task, NEW q, Defined(k, q)
    PROVE  AtWork'
  <1>1. PICK a \in Agent :
            /\ CreateByDefinition(Root, a, ReqPerms(k), ReqTools[k], k, "running")
            /\ registered' = registered \cup {a}
            /\ Works(k, a)
    BY DEF Defined
  <1>2. status[a] # "running" /\ status' = [status EXCEPT ![a] = "running"]
    BY <1>1 DEF CreateByDefinition, NewChild, Exists
  <1> QED BY <1>1, <1>2, HireKeeps DEF Defined

LEMMA TeamProposes ==
    ASSUME TInv, NEW k \in Task, NEW q, Proposed(k, q)
    PROVE  AtWork'
  <1>1. PICK x \in Tool :
            /\ Valid(worker[k], q.task, x) /\ Valid(worker[k], k, x)
            /\ acted' = acted \cup
                {[agent |-> worker[k], task |-> k, about |-> q.task, tool |-> x]}
    BY DEF Proposed
  <1>2. q.task = k /\ worker[k] \in registered
    BY <1>1 DEF Valid, Proposed, TInv, Workers
  <1>3. NoForeignAction'
    BY <1>1, <1>2 DEF Proposed, TInv, AtWork, NoForeignAction
  <1> QED BY <1>3 DEF Proposed, authority, TInv, AtWork, OneMissionPerAgent

LEMMA TeamEdits ==
    ASSUME TInv, Edit
    PROVE  AtWork'
  <1>1. UNCHANGED <<worker, registered, acted>>
    BY DEF Edit
  <1>2. ASSUME NEW par \in Agent, NEW a \in Agent, UNCHANGED stage,
               \/ Manage(par, a)
               \/ \E T \in SUBSET Tool, t \in Task, extra \in SUBSET {Screen} :
                    CreateByFactory(par, a, T, t, extra)
        PROVE  AtWork'
    <2>1. \A b \in Agent : Exists(b) => status'[b] = status[b]
      BY <1>2, ManageKeepsStatus DEF TInv, AInv
    <2>2. \A k \in Task : stage[k] = "reason" => worker[k] \in Agent /\ Exists(worker[k])
      BY DEF TInv, AtWork, Workers, Exists
    <2> QED BY <1>1, <1>2, <2>1, <2>2
        DEF TInv, AtWork, OneMissionPerAgent, NoForeignAction
  <1>3. ASSUME NEW par \in Agent, NEW a \in Agent, TerminateWorker(par, a)
        PROVE  AtWork'
    <2>1. \A b \in Agent : b # a => status'[b] = status[b]
      BY <1>3 DEF TerminateWorker, Terminate, Becomes, TInv, AInv, AuthorityTypeOK
    <2>2. CASE \E k \in Task : stage[k] = "reason" /\ worker[k] = a
      <3>1. PICK k \in Task : /\ stage[k] = "reason" /\ worker[k] = a
                              /\ stage' = [stage EXCEPT ![k] = "cancelled"]
        BY <1>3, <2>2 DEF TerminateWorker
      <3> QED BY <1>1, <2>1, <3>1, LeaverKeeps DEF Stage
    <2>3. CASE ~\E k \in Task : stage[k] = "reason" /\ worker[k] = a
      <3>1. UNCHANGED stage
        BY <1>3, <2>3 DEF TerminateWorker
      <3>2. \A k \in Task : stage[k] = "reason" => worker[k] \in Agent /\ worker[k] # a
        BY <2>3 DEF TInv, Workers
      <3> QED BY <1>1, <2>1, <3>1, <3>2
        DEF TInv, AtWork, OneMissionPerAgent, NoForeignAction
    <2> QED BY <2>2, <2>3
  <1> QED BY <1>2, <1>3 DEF Edit

LEMMA TeamInvStep == TInv /\ [Next]_vars => TInv'
  <1> SUFFICES ASSUME TInv, [Next]_vars PROVE TInv'
    OBVIOUS
  <1>a. AInv' /\ Workers'
    BY TeamStep, AuthorityStep, WorkersStep DEF TInv
  <1>1. CASE UNCHANGED <<status, stage, worker, registered, acted>>
    BY <1>a, <1>1 DEF TInv, AtWork, OneMissionPerAgent, NoForeignAction
  <1>2. CASE UNCHANGED vars
    BY <1>1, <1>2 DEF vars, authority, team
  <1>3. ASSUME NEW k \in Task, Ask(k) \/ Exchange(k)
        PROVE  AtWork'
    BY <1>1, <1>3 DEF Ask, Exchange, authority, team, TInv
  <1>4. ASSUME NEW k \in Task, Fails(k) \/ Completes(k)
        PROVE  AtWork'
    BY <1>4, TeamSettles DEF Fails, Completes, Stage
  <1>5. ASSUME NEW k \in Task, NEW q, Selected(k, q) \/ Defined(k, q) \/ Proposed(k, q)
        PROVE  AtWork'
    BY <1>5, TeamSelects, TeamDefines, TeamProposes
  <1>6. CASE Site
    BY <1>1, <1>6 DEF Site, authority, team
  <1>7. CASE Edit
    BY <1>a, <1>7, TeamEdits DEF TInv
  <1>8. CASE \E l \in leases : LeaseEnds(l) /\ UNCHANGED <<chat, team>>
    BY <1>1, <1>8 DEF LeaseEnds, team
  <1>9. AtWork'
    BY <1>1, <1>2, <1>3, <1>4, <1>5, <1>6, <1>7, <1>8 DEF Next, TInv, vars, authority, team
  <1> QED BY <1>a, <1>9 DEF TInv

LEMMA TeamInv == Spec => []TInv
  <1>1. Init => TInv
    <2>1. Init => AtWork
      BY DEF Init, AtWork, OneMissionPerAgent, NoForeignAction
    <2> QED BY <2>1, InitAuthority, InitWorkers DEF Init, TInv
  <1> QED BY <1>1, TeamInvStep, PTL DEF Spec

(* No agent ever works for two missions, though each waits for an answer   *)
(* before it looks for one (planning.py:46-50, registry.py:47).            *)
THEOREM TeamOneMission == Spec => []OneMissionPerAgent
  <1>1. TInv => OneMissionPerAgent
    BY DEF TInv, AtWork
  <1> QED BY <1>1, TeamInv, PTL

(* No agent acts on an answer about another mission's task, whatever page  *)
(* it was read from (proposals.py:104).                                    *)
THEOREM TeamNoForeignAction == Spec => []NoForeignAction
  <1>1. TInv => NoForeignAction
    BY DEF TInv, AtWork
  <1> QED BY <1>1, TeamInv, PTL

-----------------------------------------------------------------------------
(* The types of the team.  The provider's count of answers is a number     *)
(* because the tabs hold sequences of questions; a mission that has ended  *)
(* has nothing under way on the page because only Leave ends an exchange   *)
(* and a mission ends with its own.                                        *)
Questions == [task : Task, kind : Stage]

ChatInv ==
    /\ ChatTypeOK
    /\ composer \in [Conv -> Questions \cup {Nobody}]
    /\ pending \in [Conv -> Seq(Questions)]
    /\ answers \in [Conv -> Seq(Questions)]

Silent == \A k \in Task : ~Busy(k) => at[k] = "idle"

Crew ==
    /\ \A k \in Task : stage[k] \in {"reason", "completed"} => worker[k] \in registered
    /\ \A a \in registered : Exists(a)

Bounded == asks \in [Task -> 0..MaxSteps] /\ edits \in 0..MaxEdits

LEMMA StageIsTyped == Workers => \A k \in Task : Question(k) \in Questions /\ stage[k] \in Stage
  BY DEF Workers, Question, Questions

(* A step of an exchange that does not end it.                             *)
LEMMA MoveKeeps ==
    ASSUME ChatInv, NEW k \in Task, NEW step \in Steps \ {"idle"}, Goes(k, step),
           page' \in Conv, prepared' \in Conv, before' \in Nat, tab' \in [Caller -> Conv],
           composer' \in [Conv -> Questions \cup {Nobody}],
           pending' \in [Conv -> Seq(Questions)], answers' \in [Conv -> Seq(Questions)],
           holder' \in {holder, k}
    PROVE  ChatInv'
  <1>1. k \in Caller /\ at \in [Caller -> Steps] /\ holder \in Caller \cup {Nobody}
        /\ (holder # Nobody => at[holder] # "idle")
    BY CallerAssumption DEF ChatInv, ChatTypeOK
  <1>2. at' \in [Caller -> Steps] /\ holder' \in Caller \cup {Nobody}
        /\ (holder' # Nobody => at'[holder'] # "idle")
    BY <1>1 DEF Goes
  <1> QED BY <1>2 DEF ChatInv, ChatTypeOK

LEMMA LeaveKeeps ==
    ASSUME ChatInv, NEW k \in Task, Leave(k)
    PROVE  ChatInv' /\ at' = [at EXCEPT ![k] = "idle"]
  <1>1. k \in Caller /\ at \in [Caller -> Steps] /\ holder \in Caller \cup {Nobody}
        /\ (holder # Nobody => at[holder] # "idle") /\ "idle" \in Steps
    BY CallerAssumption DEF ChatInv, ChatTypeOK, Steps
  <1>2. at' = [at EXCEPT ![k] = "idle"] /\ holder' = (IF holder = k THEN Nobody ELSE holder)
        /\ UNCHANGED <<page, prepared, before, composer, pending, answers, tab>>
    BY DEF Leave, Goes
  <1>3. at' \in [Caller -> Steps] /\ holder' \in Caller \cup {Nobody}
        /\ (holder' # Nobody => at'[holder'] # "idle")
    BY <1>1, <1>2
  <1> QED BY <1>2, <1>3 DEF ChatInv, ChatTypeOK

LEMMA AskKeeps ==
    ASSUME ChatInv, Workers, NEW k \in Task, Ask(k)
    PROVE  ChatInv' /\ Busy(k)
  <1>1. CASE stage[k] = "reason"
    <2>1. BeginUnlocked(k) /\ Busy(k)
      BY <1>1 DEF Ask, Busy
    <2> QED BY <2>1, MoveKeeps DEF BeginUnlocked, ChatInv, ChatTypeOK, Steps
  <1>2. CASE stage[k] # "reason"
    <2>1. BeginLocked(k, Question(k)) /\ Busy(k)
      BY <1>2 DEF Ask
    <2>2. Question(k) \in Conv
      BY <1>2, <2>1, ConvAssumption DEF Busy, Question
    <2> QED BY <2>1, <2>2, MoveKeeps DEF BeginLocked, ChatInv, ChatTypeOK, Steps
  <1> QED BY <1>1, <1>2

LEMMA ExchangeKeeps ==
    ASSUME ChatInv, Workers, NEW k \in Task, Exchange(k)
    PROVE  /\ ChatInv' /\ at[k] # "idle"
           /\ \A h \in Task \ {k} : at'[h] = at[h]
  <1>1. /\ k \in Caller /\ page \in Conv /\ prepared \in Conv /\ before \in Nat
        /\ at \in [Caller -> Steps] /\ tab \in [Caller -> Conv] /\ tab[k] \in Conv
        /\ composer \in [Conv -> Questions \cup {Nobody}]
        /\ pending \in [Conv -> Seq(Questions)] /\ answers \in [Conv -> Seq(Questions)]
    BY CallerAssumption DEF ChatInv, ChatTypeOK
  <1>2. CASE Open(k)
    BY <1>1, <1>2, MoveKeeps, CallerAssumption DEF Open, Goes, Steps
  <1>3. CASE Field(k)
    BY <1>1, <1>3, MoveKeeps, CallerAssumption DEF Field, Goes, Steps
  <1>4. CASE Count(k)
    <2>1. Len(answers[page]) \in Nat
      BY <1>1, LenProperties
    <2> QED BY <1>1, <1>4, <2>1, MoveKeeps, CallerAssumption DEF Count, Goes, Steps
  <1>5. CASE Fill(k, Question(k))
    <2>1. composer' \in [Conv -> Questions \cup {Nobody}]
      BY <1>1, <1>5, StageIsTyped DEF Fill
    <2> QED BY <1>1, <1>5, <2>1, MoveKeeps, CallerAssumption DEF Fill, Goes, Steps
  <1>6. CASE Press(k)
    <2>1. composer' \in [Conv -> Questions \cup {Nobody}]
      BY <1>1, <1>6 DEF Press
    <2>2. pending' \in [Conv -> Seq(Questions)]
      <3>1. CASE composer[tab[k]] = Nobody
        BY <1>1, <1>6, <3>1 DEF Press
      <3>2. CASE composer[tab[k]] # Nobody
        <4>1. Append(pending[tab[k]], composer[tab[k]]) \in Seq(Questions)
          BY <1>1, <3>2
        <4> QED BY <1>1, <1>6, <3>2, <4>1 DEF Press
      <3> QED BY <3>1, <3>2
    <2> QED BY <1>1, <1>6, <2>1, <2>2, MoveKeeps, CallerAssumption DEF Press, Goes, Steps
  <1>7. CASE Wait(k)
    BY <1>1, <1>7, MoveKeeps, CallerAssumption DEF Wait, Goes, Steps
  <1> QED BY <1>2, <1>3, <1>4, <1>5, <1>6, <1>7 DEF Exchange

LEMMA SiteKeeps ==
    ASSUME ChatInv, Site
    PROVE  ChatInv' /\ at' = at
  <1>1. PICK c \in Conv : Respond(c)
    BY DEF Site
  <1>2. pending[c] \in Seq(Questions) /\ pending[c] # <<>> /\ answers[c] \in Seq(Questions)
    BY <1>1 DEF Respond, ChatInv
  <1>3. Head(pending[c]) \in Questions /\ Tail(pending[c]) \in Seq(Questions)
    BY <1>2
  <1>4. Append(answers[c], Head(pending[c])) \in Seq(Questions)
    BY <1>2, <1>3
  <1>5. pending' \in [Conv -> Seq(Questions)] /\ answers' \in [Conv -> Seq(Questions)]
    BY <1>1, <1>3, <1>4 DEF Respond, ChatInv
  <1> QED BY <1>1, <1>5 DEF Respond, ChatInv, ChatTypeOK

(* An agent that was made is there for good.                               *)
LEMMA NobodyVanishes ==
    ASSUME AuthorityTypeOK, [AuthorityNext]_authority, NEW b \in Agent, Exists(b)
    PROVE  Exists(b)'
  <1>s. ASSUME NEW a \in Agent, NEW s \in Status \ {"none"}, status' \in {status, [status EXCEPT ![a] = s]}
        PROVE  Exists(b)'
    BY <1>s DEF AuthorityTypeOK, Exists
  <1>u. ASSUME UNCHANGED status PROVE Exists(b)'
    BY <1>u DEF Exists
  <1>n. {"ready", "running", "completed", "failed", "terminated"} = Status \ {"none"}
    BY DEF Status
  <1>1. CASE UNCHANGED authority
    BY <1>1, <1>u DEF authority
  <1>2. ASSUME NEW par \in Agent, NEW a \in Agent, Manage(par, a)
        PROVE  Exists(b)'
    <2>1. status'[b] = status[b]
      BY <1>2, ManageKeepsStatus
    <2> QED BY <2>1 DEF Exists
  <1>3. ASSUME NEW par \in Agent, NEW a \in Agent, Start(par, a) \/ Terminate(par, a)
        PROVE  Exists(b)'
    BY <1>3, <1>n, <1>s DEF Start, Terminate, Becomes
  <1>4. ASSUME NEW par \in Agent, NEW a \in Agent, NEW t \in Task, Assign(par, a, t) \/ Employ(par, a, t)
        PROVE  Exists(b)'
    BY <1>4, <1>n, <1>s DEF Assign, Employ
  <1>5. ASSUME NEW par \in Agent, NEW a \in Agent, NEW P, NEW T, NEW t, CreateByDefinition(par, a, P, T, t, "running")
        PROVE  Exists(b)'
    BY <1>5, <1>n, <1>s DEF CreateByDefinition, NewChild
  <1>6. ASSUME NEW par \in Agent, NEW a \in Agent, NEW T, NEW t, NEW extra, CreateByFactory(par, a, T, t, extra)
        PROVE  Exists(b)'
    BY <1>6, <1>n, <1>s DEF CreateByFactory, NewChild
  <1>7. ASSUME NEW a \in Agent, NEW s \in Status, Finish(a, s)
        PROVE  Exists(b)'
    BY <1>7, <1>n, <1>s DEF Finish, Becomes
  <1>8. ASSUME NEW l \in leases, LeaseEnds(l)
        PROVE  Exists(b)'
    BY <1>8, <1>u DEF LeaseEnds
  <1> QED BY <1>1, <1>2, <1>3, <1>4, <1>5, <1>6, <1>7, <1>8 DEF AuthorityNext

TypeInv == TInv /\ ChatInv /\ Silent /\ Crew /\ Bounded

LEMMA TypeInitially == Init => TypeInv
  <1> SUFFICES ASSUME Init PROVE TypeInv
    OBVIOUS
  <1>1. TInv
    <2>1. AtWork
      BY DEF Init, AtWork, OneMissionPerAgent, NoForeignAction
    <2> QED BY <2>1, InitAuthority, InitWorkers DEF Init, TInv
  <1>2. ChatInv
    <2>1. Main \in Conv
      BY ConvAssumption
    <2>2. ChatTypeOK
      BY <2>1 DEF Init, ChatInit, ChatTypeOK, Steps
    <2>3. <<>> \in Seq(Questions)
      BY EmptySeq
    <2> QED BY <2>2, <2>3 DEF Init, ChatInit, ChatInv
  <1>3. Silent
    BY CallerAssumption DEF Init, ChatInit, Silent
  <1>4. Crew /\ Bounded
    BY BoundsAssumption DEF Init, Crew, Bounded
  <1> QED BY <1>1, <1>2, <1>3, <1>4 DEF TypeInv

(* Missions and the registry: who was registered stays, and exists.        *)
LEMMA CrewKeeps ==
    ASSUME TypeInv, [Next]_vars
    PROVE  Crew'
  <1>e. \A a \in Agent : Exists(a) => Exists(a)'
    BY TeamStep, NobodyVanishes DEF TypeInv, TInv, AInv
  <1>r. registered \subseteq Agent /\ \A a \in registered : Exists(a)
    BY DEF TypeInv, TInv, Workers, Crew
  <1>c. \A k \in Task : stage[k] \in {"reason", "completed"} => worker[k] \in registered
    BY DEF TypeInv, Crew
  <1>f. stage \in [Task -> Stage] /\ worker \in [Task -> Agent \cup {None}]
    BY DEF TypeInv, TInv, Workers
  <1>u. ASSUME UNCHANGED <<stage, worker, registered>> PROVE Crew'
    BY <1>u, <1>e, <1>r, <1>c DEF Crew
  <1>s. ASSUME NEW k \in Task, NEW s, stage' = [stage EXCEPT ![k] = s], UNCHANGED <<worker, registered>>,
               s = "completed" => stage[k] = "reason", s # "reason"
        PROVE  Crew'
    BY <1>s, <1>e, <1>r, <1>c, <1>f DEF Crew
  <1>w. ASSUME NEW k \in Task, NEW a, Works(k, a), a \in registered', registered \subseteq registered',
               \A b \in registered' : Exists(b)'
        PROVE  Crew'
    BY <1>w, <1>c, <1>f DEF Crew, Works
  <1>1. CASE UNCHANGED vars
    BY <1>1, <1>u DEF vars, team
  <1>2. ASSUME NEW k \in Task, Ask(k) \/ Exchange(k) PROVE Crew'
    BY <1>2, <1>u DEF Ask, Exchange, team
  <1>3. ASSUME NEW k \in Task, Fails(k) PROVE Crew'
    BY <1>3, <1>s DEF Fails, Settles
  <1>4. ASSUME NEW k \in Task, Completes(k) PROVE Crew'
    BY <1>4, <1>s DEF Completes, Settles
  <1>5. ASSUME NEW k \in Task, NEW q, Selected(k, q) PROVE Crew'
    <2>1. CASE \E a \in Eligible(k) : Works(k, a)
      <3>1. PICK a \in registered : Works(k, a)
        BY <2>1 DEF Eligible
      <3>2. registered' = registered
        BY <1>5 DEF Selected
      <3> QED BY <1>e, <1>r, <1>w, <3>1, <3>2
    <2>2. CASE stage' = [stage EXCEPT ![k] = "define"] /\ UNCHANGED worker
      BY <1>5, <1>s, <2>2 DEF Selected
    <2> QED BY <1>5, <2>1, <2>2 DEF Selected
  <1>6. ASSUME NEW k \in Task, NEW q, Defined(k, q) PROVE Crew'
    <2>1. PICK a \in Agent : /\ CreateByDefinition(Root, a, ReqPerms(k), ReqTools[k], k, "running")
                             /\ registered' = registered \cup {a} /\ Works(k, a)
      BY <1>6 DEF Defined
    <2>2. Exists(a)'
      BY <2>1 DEF CreateByDefinition, NewChild, Exists, TypeInv, TInv, AInv, AuthorityTypeOK
    <2> QED BY <1>e, <1>r, <1>w, <2>1, <2>2
  <1>7. ASSUME NEW k \in Task, NEW q, Proposed(k, q) PROVE Crew'
    BY <1>7, <1>u DEF Proposed
  <1>8. CASE Site
    BY <1>8, <1>u DEF Site, team
  <1>9. CASE Edit
    <2>1. CASE UNCHANGED stage
      BY <1>9, <1>u, <2>1 DEF Edit
    <2>2. CASE \E k \in Task : stage' = [stage EXCEPT ![k] = "cancelled"]
      BY <1>9, <1>s, <2>2 DEF Edit
    <2> QED BY <1>9, <2>1, <2>2 DEF Edit, TerminateWorker
  <1>10. CASE \E l \in leases : LeaseEnds(l) /\ UNCHANGED <<chat, team>>
    BY <1>10, <1>u DEF team
  <1> QED BY <1>1, <1>2, <1>3, <1>4, <1>5, <1>6, <1>7, <1>8, <1>9, <1>10 DEF Next

(* The page and what is under way on it.                                   *)
LEMMA ChatKeeps ==
    ASSUME TypeInv, [Next]_vars
    PROVE  ChatInv' /\ Silent'
  <1>c. ChatInv /\ Silent /\ Workers /\ at \in [Task -> Steps] /\ stage \in [Task -> Stage]
    BY CallerAssumption DEF TypeInv, TInv, ChatInv, ChatTypeOK, Workers
  <1>b. \A k \in Task : Busy(k)' <=> stage'[k] \in {"select", "define", "reason"}
    BY DEF Busy
  <1>u. ASSUME UNCHANGED <<chat, stage>> PROVE ChatInv' /\ Silent'
    BY <1>u, <1>c DEF chat, ChatInv, ChatTypeOK, Silent, Busy
  <1>l. ASSUME NEW k \in Task, NEW s, Leave(k), stage' \in {stage, [stage EXCEPT ![k] = s]}
        PROVE  ChatInv' /\ Silent'
    <2>1. ChatInv' /\ at' = [at EXCEPT ![k] = "idle"]
      BY <1>l, <1>c, LeaveKeeps
    <2>2. Silent'
      BY <1>l, <1>c, <1>b, <2>1 DEF Silent, Busy
    <2> QED BY <2>1, <2>2
  <1>i. ASSUME NEW k \in Task, NEW s, at[k] = "idle", UNCHANGED chat, stage' = [stage EXCEPT ![k] = s]
        PROVE  ChatInv' /\ Silent'
    <2>1. ChatInv' /\ at' = at
      BY <1>i, <1>c DEF chat, ChatInv, ChatTypeOK
    <2>2. Silent'
      BY <1>i, <1>c, <1>b, <2>1 DEF Silent, Busy
    <2> QED BY <2>1, <2>2
  <1>1. CASE UNCHANGED vars
    BY <1>1, <1>u DEF vars, team
  <1>2. ASSUME NEW k \in Task, Ask(k) PROVE ChatInv' /\ Silent'
    <2>1. ChatInv' /\ Busy(k) /\ stage' = stage
      BY <1>2, <1>c, AskKeeps DEF Ask
    <2>2. \A h \in Task \ {k} : at'[h] = at[h]
      BY <1>2, <1>c DEF Ask, BeginLocked, BeginUnlocked, Goes
    <2>3. Silent'
      BY <1>c, <1>b, <2>1, <2>2 DEF Silent, Busy
    <2> QED BY <2>1, <2>3
  <1>3. ASSUME NEW k \in Task, Exchange(k) PROVE ChatInv' /\ Silent'
    <2>1. ChatInv' /\ at[k] # "idle" /\ \A h \in Task \ {k} : at'[h] = at[h]
      BY <1>3, <1>c, ExchangeKeeps
    <2>2. stage' = stage
      BY <1>3 DEF Exchange, team
    <2>3. Silent'
      BY <1>c, <1>b, <2>1, <2>2 DEF Silent, Busy
    <2> QED BY <2>1, <2>3
  <1>4. ASSUME NEW k \in Task, Fails(k) \/ Completes(k) PROVE ChatInv' /\ Silent'
    <2>1. PICK s : stage' = [stage EXCEPT ![k] = s]
      BY <1>4 DEF Fails, Completes, Settles
    <2>2. Leave(k) \/ (at[k] = "idle" /\ UNCHANGED chat)
      BY <1>4 DEF Fails, Completes, ChatFails, Extract
    <2> QED BY <1>i, <1>l, <2>1, <2>2
  <1>5. ASSUME NEW k \in Task, NEW q, Selected(k, q) \/ Defined(k, q) \/ Proposed(k, q)
        PROVE  ChatInv' /\ Silent'
    <2>1. Leave(k) /\ \E s : stage' \in {stage, [stage EXCEPT ![k] = s]}
      BY <1>5 DEF Selected, Defined, Proposed, Works, Extract
    <2> QED BY <1>l, <2>1
  <1>6. CASE Site
    <2>1. ChatInv' /\ at' = at /\ stage' = stage
      BY <1>6, <1>c, SiteKeeps DEF Site, team
    <2> QED BY <1>c, <1>b, <2>1 DEF Silent, Busy
  <1>7. CASE Edit
    <2>1. CASE UNCHANGED <<chat, stage>>
      BY <1>u, <2>1
    <2>2. ASSUME NEW k \in Task, stage' = [stage EXCEPT ![k] = "cancelled"],
                 IF at[k] = "idle" THEN UNCHANGED chat ELSE ChatFails(k)
          PROVE  ChatInv' /\ Silent'
      BY <1>i, <1>l, <2>2 DEF ChatFails
    <2> QED BY <1>7, <2>1, <2>2 DEF Edit, TerminateWorker
  <1>8. CASE \E l \in leases : LeaseEnds(l) /\ UNCHANGED <<chat, team>>
    BY <1>8, <1>u DEF team
  <1> QED BY <1>1, <1>2, <1>3, <1>4, <1>5, <1>6, <1>7, <1>8 DEF Next

LEMMA CountsKeep ==
    ASSUME TypeInv, [Next]_vars
    PROVE  Bounded'
  <1>n. MaxSteps \in Nat /\ MaxEdits \in Nat
    BY BoundsAssumption
  <1>1. ASSUME NEW k \in Task, asks[k] < MaxSteps, asks' = [asks EXCEPT ![k] = @ + 1], UNCHANGED edits
        PROVE  Bounded'
    BY <1>1, <1>n DEF TypeInv, Bounded
  <1>2. ASSUME edits < MaxEdits, edits' = edits + 1, UNCHANGED asks
        PROVE  Bounded'
    BY <1>2, <1>n DEF TypeInv, Bounded
  <1>3. ASSUME UNCHANGED <<asks, edits>>
        PROVE  Bounded'
    BY <1>3 DEF TypeInv, Bounded
  <1>4. \/ \E k \in Task : asks[k] < MaxSteps /\ asks' = [asks EXCEPT ![k] = @ + 1] /\ UNCHANGED edits
        \/ edits < MaxEdits /\ edits' = edits + 1 /\ UNCHANGED asks
        \/ UNCHANGED <<asks, edits>>
    BY DEF Next, Ask, Exchange, Fails, Completes, Settles, Selected, Defined, Proposed, Site, Edit, vars, team
  <1> QED BY <1>1, <1>2, <1>3, <1>4

(* The team's variables stay in their types: a mission that reasons or     *)
(* completed has a registered agent, whoever is registered exists, the     *)
(* lock's holder is in an exchange, and a mission that is over has nothing *)
(* under way on the shared page (orchestrator.py, planning.py,             *)
(* base_provider.py, manager.py).                                          *)
THEOREM TeamTypeCorrect == Spec => []TypeOK
  <1>1. TypeInv /\ [Next]_vars => TypeInv'
    BY TeamInvStep, CrewKeeps, ChatKeeps, CountsKeep DEF TypeInv
  <1>2. TypeInv => TypeOK
    BY DEF TypeInv, TInv, AInv, Workers, ChatInv, Silent, Crew, Bounded, TypeOK
  <1> QED BY <1>1, <1>2, TypeInitially, PTL DEF Spec
=============================================================================
