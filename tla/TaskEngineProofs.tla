-------------------------- MODULE TaskEngineProofs --------------------------
(***************************************************************************)
(* Safety of the task engine for every graph, rank, retry bound and        *)
(* parallel limit, and its refinement of DependencyExecutor.               *)
(***************************************************************************)
EXTENDS TaskEngine, TLAPS

-----------------------------------------------------------------------------
(* What blocking the dependents of a set of dead nodes does: only pending  *)
(* nodes change; a node that stays pending has no dependency among the     *)
(* sources or the newly blocked; a newly blocked one has such a dependency *)
(* (task_graph.py _block_dependents).                                      *)
LEMMA BlockClosed ==
    ASSUME NEW st \in [Task -> Status], NEW F \in SUBSET Task
    PROVE  ClosedUnder(st, F, PendingDependents(st, F))
<1>1. SUFFICES ASSUME NEW t \in With(st, "pending"),
                      Deps[t] \cap (F \cup PendingDependents(st, F)) # {},
                      NEW S \in SUBSET With(st, "pending"),
                      ClosedUnder(st, F, S)
               PROVE  t \in S
  BY DEF ClosedUnder, PendingDependents
<1>2. PendingDependents(st, F) \subseteq S
  BY <1>1 DEF PendingDependents
<1>3. Deps[t] \cap (F \cup S) # {}
  BY <1>1, <1>2
<1> QED
  BY <1>1, <1>3 DEF ClosedUnder

LEMMA BlockCause ==
    ASSUME NEW st \in [Task -> Status], NEW F \in SUBSET Task,
           NEW t \in PendingDependents(st, F)
    PROVE  Deps[t] \cap (F \cup PendingDependents(st, F)) # {}
<1> DEFINE P == PendingDependents(st, F)
           S == P \ {t}
<1>1. SUFFICES ASSUME Deps[t] \cap (F \cup P) = {} PROVE FALSE
  OBVIOUS
<1>2. S \in SUBSET With(st, "pending")
  BY DEF PendingDependents
<1>3. ClosedUnder(st, F, S)
  <2>1. SUFFICES ASSUME NEW u \in With(st, "pending"),
                        Deps[u] \cap (F \cup S) # {}
                 PROVE  u \in S
    BY DEF ClosedUnder
  <2>2. Deps[u] \cap (F \cup P) # {}
    BY <2>1
  <2>3. u \in P
    BY <2>1, <2>2, BlockClosed DEF ClosedUnder
  <2>4. u # t
    BY <1>1, <2>2
  <2> QED
    BY <2>3, <2>4
<1>4. t \in S
  BY <1>2, <1>3 DEF PendingDependents
<1> QED
  BY <1>4

LEMMA BlockEffect ==
    ASSUME NEW st \in [Task -> Status], NEW F \in SUBSET Task
    PROVE  LET bd == BlockDependents(st, F) IN
           /\ bd \in [Task -> Status]
           /\ \A t \in Task : st[t] # "pending" => bd[t] = st[t]
           /\ \A t \in Task : bd[t] = st[t] \/ bd[t] = "blocked"
           /\ \A t \in Task : bd[t] = "pending" =>
                 \A d \in Deps[t] : d \notin F /\ bd[d] = st[d]
           /\ \A t \in Task : bd[t] = "blocked" /\ st[t] # "blocked" =>
                 \E d \in Deps[t] : d \in F \/ bd[d] = "blocked"
<1> DEFINE bd == BlockDependents(st, F)
           P == PendingDependents(st, F)
<1>1. P \subseteq With(st, "pending")
  BY DEF PendingDependents
<1>2. \A t \in Task : bd[t] = IF t \in P THEN "blocked" ELSE st[t]
  BY DEF BlockDependents
<1>3. bd \in [Task -> Status]
  BY DEF BlockDependents, Status
<1>4. \A t \in Task : st[t] # "pending" => bd[t] = st[t]
  BY <1>1, <1>2 DEF With
<1>5. \A t \in Task : bd[t] = "pending" => \A d \in Deps[t] : d \notin F /\ bd[d] = st[d]
  <2>1. SUFFICES ASSUME NEW t \in Task, bd[t] = "pending", NEW d \in Deps[t]
                 PROVE  d \notin F /\ bd[d] = st[d]
    OBVIOUS
  <2>2. d \in Task
    BY DepsAssumption
  <2>3. t \in With(st, "pending") /\ t \notin P
    BY <1>2, <2>1 DEF With
  <2>4. d \notin F /\ d \notin P
    BY <2>3, BlockClosed DEF ClosedUnder
  <2> QED
    BY <1>2, <2>2, <2>4
<1>6. \A t \in Task : bd[t] = "blocked" /\ st[t] # "blocked" =>
                 \E d \in Deps[t] : d \in F \/ bd[d] = "blocked"
  <2>1. SUFFICES ASSUME NEW t \in Task, t \in P
                 PROVE  \E d \in Deps[t] : d \in F \/ bd[d] = "blocked"
    BY <1>2
  <2>2. PICK d \in Deps[t] : d \in F \/ d \in P
    BY <2>1, BlockCause
  <2> QED
    BY <1>2, <2>1, <2>2, DepsAssumption
<1> QED
  BY <1>2, <1>3, <1>4, <1>5, <1>6

-----------------------------------------------------------------------------
(* The inductive invariant.  Ordered, Causes and NotStranded hold of the   *)
(* live graph, and, as Sound, of the saved one and of every copy, because  *)
(* each of these may become any other.                                     *)
(* BatchShape says what a gather may rely on while it awaits: whatever the *)
(* operator does, the nodes of the batch stay running or become cancelled, *)
(* nothing that ran depends on them, and what they depend on stays         *)
(* settled.  Kept says that what was reported is still there.              *)
Settled(st, d) == st[d] = "completed" \/ (st[d] = "cancelled" /\ d \in touched)

Ordered(st) ==
    \A t \in Task : st[t] \in {"running", "completed"} =>
        \A d \in Deps[t] : Settled(st, d)

Causes(st) ==
    /\ \A t \in Task : st[t] = "cancelled" => t \in touched
    /\ \A t \in Task : st[t] = "blocked" =>
         \E d \in Deps[t] : st[d] \in Dead \/ d \in touched

BatchShape ==
    /\ batch # {} => pc = "gather"
    /\ \A t \in Task : status[t] = "running" => t \in batch
    /\ \A t \in batch :
         /\ status[t] \in {"running", "cancelled"}
         /\ \A d \in Deps[t] : Settled(status, d) /\ d \notin batch
    /\ \A t \in Task : status[t] \in {"running", "completed"} =>
         \A d \in Deps[t] : d \notin batch

IInv ==
    /\ TypeOK
    /\ BatchShape
    /\ NoConflict
    /\ Ordered(status)
    /\ Causes(status)
    /\ NotStranded(status)

Sound(st, T) ==
    /\ \A t \in Task : st[t] # "running"
    /\ \A t \in Task : st[t] = "completed" =>
         \A d \in Deps[t] : st[d] = "completed" \/ (st[d] = "cancelled" /\ d \in T)
    /\ \A t \in Task : st[t] = "cancelled" => t \in T
    /\ \A t \in Task : st[t] = "blocked" => \E d \in Deps[t] : st[d] \in Dead \/ d \in T
    /\ \A t \in Task \ T : st[t] = "pending" => \A d \in Deps[t] \ T : st[d] \notin Dead

Stored ==
    /\ Sound(saved.status, touched) /\ Sound(loaded.status, touched)
    /\ \A w \in Writer : Sound(copy[w].status, touched)

Kept(st) == \A t \in reported : st[t] \in {"completed", "cancelled"}

Calling == pc \in {"select", "gather", "verify"}

Reported ==
    /\ CompletedNeverRerun
    /\ Kept(saved.status)
    /\ pc # "idle" => Kept(loaded.status)
    /\ Calling => Kept(status)
    /\ outcome = "completed" => With(saved.status, "completed") = Task /\ pc = "idle"

(* Every variable keeps its type (task_graph.py, task_engine.py).          *)
LEMMA NewGraphType == NewGraph \in Graph /\ \A t \in Task : NewGraph.status[t] = "pending"
BY BoundAssumption DEF NewGraph, Graph, Status

LEMMA InitType == Init => TypeOK
<1> SUFFICES ASSUME Init PROVE TypeOK
  OBVIOUS
<1>1. status \in [Task -> Status] /\ retries \in [Task -> 0..MaxRetries]
  BY NewGraphType DEF Init, Graph
<1>2. copy \in [Writer -> Graph]
  BY NewGraphType DEF Init
<1> QED
  BY <1>1, <1>2, NewGraphType, AlarmsAssumption DEF Init, TypeOK, Outcome

LEMMA SettleType ==
    ASSUME TypeOK
    PROVE  [t \in Task |-> Settle(t)] \in [Task -> Status]
BY DEF TypeOK, Settle, Status, Retried, Exhausted

LEMMA NextType == TypeOK /\ [Next]_vars => TypeOK'
<1>. SUFFICES ASSUME TypeOK, [Next]_vars PROVE TypeOK'
  OBVIOUS
<1>. USE NewGraphType, AlarmsAssumption DEF TypeOK, graph, run, writers, mission, EndTurn
<1>0. /\ loaded.status \in [Task -> Status] /\ loaded.retries \in [Task -> 0..MaxRetries]
      /\ saved.status \in [Task -> Status] /\ saved.retries \in [Task -> 0..MaxRetries]
      /\ reported \in SUBSET Task
  BY DEF Graph
<1>1. CASE Call
  BY <1>0, <1>1 DEF Call, Restored, Outcome
<1>2. CASE Select
  BY <1>2 DEF Select, Status
<1>3. ASSUME NEW t \in Task, NodeReturns(t) PROVE TypeOK'
  BY <1>3 DEF NodeReturns
<1>4. CASE GatherReturns
  <2>1. status' \in [Task -> Status]
    BY <1>4, SettleType, BlockEffect DEF GatherReturns, Exhausted
  <2>2. retries' \in [Task -> 0..MaxRetries]
    BY <1>4, BoundAssumption DEF GatherReturns, Recount, Retried
  <2> QED
    BY <1>4, <2>1, <2>2 DEF GatherReturns
<1>5. CASE Return
  <2>1. saved' \in Graph
    BY <1>5 DEF Return, Graph
  <2>2. outcome' \in Outcome
    BY <1>5 DEF Return, Judge, Outcome
  <2>3. reported' \in SUBSET Task
    BY <1>5 DEF Return, With
  <2> QED
    BY <1>5, <2>1, <2>2, <2>3 DEF Return
<1>6. ASSUME NEW t \in Task, Pause(t) \/ Resume(t) PROVE TypeOK'
  BY <1>6 DEF Pause, Resume, Status
<1>7. ASSUME NEW t \in Task, Cancel(t) PROVE TypeOK'
  <2> DEFINE st == [status EXCEPT ![t] = "cancelled"]
  <2>1. st \in [Task -> Status]
    BY DEF Status
  <2> HIDE DEF st
  <2>2. BlockDependents(st, {t}) \in [Task -> Status]
    BY <1>7, <2>1, BlockEffect
  <2>3. status' \in [Task -> Status]
    BY <1>7, <2>2 DEF Cancel, st
  <2> QED
    BY <1>7, <2>3 DEF Cancel
<1>8. CASE Crash
  BY <1>0, <1>8 DEF Crash
<1>9. CASE UNCHANGED vars
  BY <1>9 DEF vars
<1>10. CASE Turn \/ Yield
  BY <1>10 DEF Turn, Yield, Outcome
<1>11. CASE Raise
  BY <1>0, <1>11 DEF Raise, Outcome
<1>12. ASSUME NEW w \in Writer, Take(w) PROVE TypeOK'
  BY <1>12 DEF Take
<1>13. ASSUME NEW w \in Writer, SaveCopy(w) PROVE TypeOK'
  <2>1. reported' \in SUBSET Task /\ saved' \in Graph /\ copy' \in [Writer -> Graph]
    BY <1>0, <1>13 DEF SaveCopy, With
  <2> QED
    BY <1>13, <2>1 DEF SaveCopy, Outcome
<1>14. CASE Reopen
  BY <1>14 DEF Reopen, Outcome
<1> QED
  BY <1>1, <1>2, <1>3, <1>4, <1>5, <1>6, <1>7, <1>8, <1>9, <1>10, <1>11, <1>12,
     <1>13, <1>14, OperableAssumption DEF Next, Engine, Operator, Others

(* TaskEngine's variables always have their types.                         *)
THEOREM TypeCorrect == Spec => []TypeOK
<1>1. Init => TypeOK
  BY InitType
<1>2. TypeOK /\ [Next]_vars => TypeOK'
  BY NextType
<1> QED
  BY <1>1, <1>2, PTL DEF Spec

-----------------------------------------------------------------------------
LEMMA NewGraphSound == ASSUME NEW T PROVE Sound(NewGraph.status, T)
<1>1. \A t \in Task : NewGraph.status[t] = "pending" /\ Deps[t] \subseteq Task
  BY NewGraphType, DepsAssumption
<1> QED
  BY <1>1 DEF Sound, Dead

(* What was sound stays so when the operator intervenes in more nodes.     *)
LEMMA SoundGrows ==
    ASSUME NEW st, NEW T, NEW U, T \subseteq U, Sound(st, T)
    PROVE  Sound(st, U)
BY DEF Sound

LEMMA InitInv == Init => IInv /\ Stored /\ Reported
<1> SUFFICES ASSUME Init PROVE IInv /\ Stored /\ Reported
  OBVIOUS
<1>1. TypeOK
  BY InitType
<1>2. /\ status = NewGraph.status /\ saved = NewGraph /\ loaded = NewGraph
      /\ \A w \in Writer : copy[w] = NewGraph
      /\ batch = {} /\ outcome = "none" /\ pc = "idle" /\ reported = {}
  BY DEF Init
<1>3. BatchShape /\ NoConflict
  BY <1>2, NewGraphType DEF BatchShape, NoConflict
<1>4. Ordered(status) /\ Causes(status) /\ NotStranded(status)
  BY <1>2, NewGraphSound DEF Sound, Ordered, Causes, NotStranded, Settled
<1>5. Stored
  BY <1>2, NewGraphSound DEF Stored
<1>6. Reported
  BY <1>2 DEF Reported, Kept, Calling, CompletedNeverRerun
<1> QED
  BY <1>1, <1>3, <1>4, <1>5, <1>6 DEF IInv

(* A call and whatever ends one without a result make the saved graph or   *)
(* the loaded one the live one.                                            *)
LEMMA ReloadInv ==
    ASSUME IInv, Stored, TypeOK', Call \/ Raise \/ Crash
    PROVE  IInv'
<1>1. /\ status' \in {saved.status, loaded.status}
      /\ batch' = {}
      /\ touched' = touched
  BY DEF IInv, BatchShape, Call, Raise, Crash, Restored
<1>2. Sound(status', touched')
  BY <1>1 DEF Stored
<1>3. BatchShape'
  BY <1>1, <1>2 DEF BatchShape, Sound
<1>4. NoConflict'
  BY <1>1 DEF NoConflict
<1> QED
  BY <1>2, <1>3, <1>4 DEF IInv, Sound, Ordered, Causes, NotStranded, Settled

(* The writers, the turn's beginning and the queued failures change        *)
(* nothing of the live graph.                                              *)
LEMMA ElsewhereInv ==
    ASSUME IInv, TypeOK', UNCHANGED <<status, batch, touched>>, pc' = pc \/ batch = {}
    PROVE  IInv'
BY DEF IInv, BatchShape, NoConflict, Ordered, Causes, NotStranded, Settled

(* A chosen node is pending, its dependencies are completed, and of two    *)
(* chosen nodes the later one needs nothing the earlier one needs.         *)
LEMMA SelectInv ==
    ASSUME IInv, TypeOK', Select
    PROVE  IInv'
<1>1. PICK S \in SUBSET Task, held \in SUBSET Resource :
        /\ NextTasks(status, held, S)
        /\ pc' = IF S = {} THEN "verify" ELSE "gather"
        /\ batch' = S
        /\ status' = [t \in Task |-> IF t \in S THEN "running" ELSE status[t]]
  BY DEF Select
<1>2. pc = "select" /\ UNCHANGED touched /\ batch = {}
  BY DEF Select, IInv, BatchShape
<1>3. \A t \in S : status[t] = "pending" /\ \A d \in Deps[t] : status[d] = "completed"
  BY <1>1 DEF NextTasks, Runnable, With
<1>4. \A t \in Task : status'[t] = IF t \in S THEN "running" ELSE status[t]
  BY <1>1
<1>5. \A t \in Task : Deps[t] \subseteq Task
  BY DepsAssumption
<1>6. \A t \in Task : status[t] # "running"
  BY <1>2 DEF IInv, BatchShape
<1>7. \A t \in Task : status[t] = "completed" => \A d \in Deps[t] : d \notin S
  BY <1>3 DEF IInv, Ordered, Settled
<1>8. BatchShape'
  BY <1>1, <1>2, <1>3, <1>4, <1>5, <1>6, <1>7 DEF BatchShape, Settled
<1>10. NoConflict'
  <2>1. SUFFICES ASSUME NEW s \in S, NEW t \in S, s # t
                 PROVE  Needs[s] \cap Needs[t] = {}
    BY <1>1 DEF NoConflict
  <2>2. Rank[s] < Rank[t] \/ Rank[t] < Rank[s]
    BY <2>1, RankAssumption
  <2>3. s \in Runnable(status) /\ t \in Runnable(status)
    BY <1>1 DEF NextTasks
  <2> QED
    BY <1>1, <2>2, <2>3 DEF NextTasks, Before
<1>11. Ordered(status)'
  BY <1>2, <1>3, <1>4, <1>5, <1>7 DEF IInv, Ordered, Settled
<1>12. Causes(status)'
  <2>1. \A t \in Task : status'[t] = "cancelled" => t \in touched'
    BY <1>2, <1>4 DEF IInv, Causes
  <2>2. \A t \in Task : status'[t] = "blocked" =>
           \E d \in Deps[t] : status'[d] \in Dead \/ d \in touched'
    BY <1>2, <1>3, <1>4, <1>5 DEF IInv, Causes, Dead
  <2> QED
    BY <2>1, <2>2 DEF Causes
<1>13. NotStranded(status)'
  BY <1>2, <1>4, <1>5 DEF IInv, NotStranded, Dead
<1> QED
  BY <1>8, <1>10, <1>11, <1>12, <1>13 DEF IInv

(* The outcomes of a batch: its nodes leave "running", nothing else        *)
(* changes but pending nodes that become blocked.                          *)
LEMMA GatherInv ==
    ASSUME IInv, TypeOK', GatherReturns
    PROVE  IInv'
<1> DEFINE st == [t \in Task |-> Settle(t)]
<1>1. /\ status' = BlockDependents(st, Exhausted)
      /\ batch' = {} /\ pc' = "select"
      /\ UNCHANGED touched
      /\ \A t \in batch : result[t] \in {"ok", "error"}
  BY DEF GatherReturns, IInv, TypeOK
<1>2. TypeOK /\ pc = "gather"
  BY DEF IInv, GatherReturns
<1>3. Exhausted \subseteq batch
  BY DEF Exhausted
<1>4. \A t \in Task : st[t] = Settle(t)
  OBVIOUS
<1>5. \A t \in Task : t \notin batch => st[t] = status[t]
  BY <1>3, <1>4 DEF Settle, Retried
<1>6. \A t \in batch : st[t] \in {"completed", "pending", "failed"}
  <2>1. SUFFICES ASSUME NEW t \in batch PROVE st[t] \in {"completed", "pending", "failed"}
    OBVIOUS
  <2>2. t \in Task /\ retries[t] \in 0..MaxRetries /\ MaxRetries \in Nat
    BY <1>2, BoundAssumption DEF TypeOK
  <2>3. result[t] = "ok" \/ t \in Retried \/ t \in Exhausted
    BY <1>1, <2>2 DEF Retried, Exhausted
  <2> QED
    BY <1>4, <2>2, <2>3 DEF Settle
<1>7. \A t \in Exhausted : st[t] = "failed"
  <2>1. SUFFICES ASSUME NEW t \in Exhausted PROVE st[t] = "failed"
    OBVIOUS
  <2>2. t \in Task /\ retries[t] \in Nat /\ MaxRetries \in Nat
    BY <1>2, <1>3, BoundAssumption DEF TypeOK
  <2>3. t \notin Retried /\ result[t] # "ok"
    BY <2>2 DEF Retried, Exhausted
  <2> QED
    BY <1>4, <2>2, <2>3 DEF Settle
<1>8. st \in [Task -> Status] /\ Exhausted \in SUBSET Task
  BY <1>2, <1>3, SettleType DEF TypeOK
<1> HIDE DEF st
<1>9. /\ \A t \in Task : st[t] # "pending" => status'[t] = st[t]
      /\ \A t \in Task : status'[t] = st[t] \/ status'[t] = "blocked"
      /\ \A t \in Task : status'[t] = "pending" =>
            \A d \in Deps[t] : d \notin Exhausted /\ status'[d] = st[d]
      /\ \A t \in Task : status'[t] = "blocked" /\ st[t] # "blocked" =>
            \E d \in Deps[t] : d \in Exhausted \/ status'[d] = "blocked"
  BY <1>1, <1>8, BlockEffect
<1>10. \A t \in Task : \A d \in Deps[t] : d \in Task
  BY DepsAssumption
<1>11. BatchShape
  BY DEF IInv
<1>12. batch \subseteq Task
  BY <1>2 DEF TypeOK
<1>13. \A t \in Task : status'[t] # "running"
  BY <1>5, <1>6, <1>9, <1>11 DEF BatchShape
<1>14. BatchShape'
  BY <1>1, <1>13 DEF BatchShape
<1>16. NoConflict'
  BY <1>1 DEF NoConflict
<1>17. Ordered(status)'
  <2>1. SUFFICES ASSUME NEW t \in Task, status'[t] = "completed", NEW d \in Deps[t]
                 PROVE  Settled(status, d)'
    BY <1>13 DEF Ordered
  <2>2. d \notin batch /\ Settled(status, d)
    BY <1>5, <1>9, <1>11, <2>1 DEF BatchShape, IInv, Ordered
  <2> QED
    BY <1>1, <1>5, <1>9, <1>10, <2>1, <2>2 DEF Settled
<1>18. Causes(status)'
  <2>1. \A t \in Task : status'[t] = "cancelled" => t \in touched'
    BY <1>1, <1>5, <1>6, <1>9 DEF IInv, Causes
  <2>2. ASSUME NEW t \in Task, status'[t] = "blocked"
        PROVE  \E d \in Deps[t] : status'[d] \in Dead \/ d \in touched'
    <3>1. CASE st[t] # "blocked"
      BY <1>7, <1>9, <1>10, <2>2, <3>1, <1>3, <1>12 DEF Dead
    <3>2. CASE st[t] = "blocked"
      <4>1. status[t] = "blocked"
        BY <1>5, <1>6, <3>2
      <4>2. PICK d \in Deps[t] : status[d] \in Dead \/ d \in touched
        BY <4>1 DEF IInv, Causes
      <4>3. d \in touched \/ (d \notin batch /\ status[d] \in Dead)
        BY <4>2, <1>11, <1>12, <1>10 DEF BatchShape, Dead, IInv, Causes
      <4>4. d \in touched' \/ status'[d] \in Dead
        BY <1>1, <1>5, <1>9, <1>10, <4>3 DEF Dead
      <4> QED
        BY <4>4
    <3> QED
      BY <3>1, <3>2
  <2> QED
    BY <2>1, <2>2 DEF Causes
<1>19. NotStranded(status)'
  <2>1. SUFFICES ASSUME NEW t \in Task \ touched, status'[t] = "pending",
                        NEW d \in Deps[t] \ touched
                 PROVE  status'[d] \notin Dead
    BY <1>1 DEF NotStranded
  <2>2. st[t] = "pending" /\ d \notin Exhausted /\ status'[d] = st[d] /\ d \in Task
    BY <1>9, <1>10, <2>1
  <2>3. CASE t \in batch
    <3>1. status[d] = "completed" /\ d \notin batch
      BY <1>11, <2>1, <2>3 DEF BatchShape, Settled
    <3> QED
      BY <1>5, <2>2, <3>1 DEF Dead
  <2>4. CASE t \notin batch
    <3>1. status[t] = "pending"
      BY <1>5, <2>1, <2>2, <2>4
    <3>2. status[d] \notin Dead
      BY <2>1, <3>1 DEF IInv, NotStranded
    <3>3. CASE d \notin batch
      BY <1>5, <2>2, <3>2, <3>3
    <3>4. CASE d \in batch
      <4>1. result[d] = "ok" \/ d \in Retried
        BY <1>1, <1>2, <2>2, <3>4, BoundAssumption DEF Retried, Exhausted, TypeOK
      <4>2. st[d] \in {"completed", "pending"}
        BY <1>4, <2>2, <3>4, <4>1 DEF Settle
      <4> QED
        BY <2>2, <4>2 DEF Dead
    <3> QED
      BY <3>3, <3>4
  <2> QED
    BY <2>3, <2>4
<1> QED
  BY <1>14, <1>16, <1>17, <1>18, <1>19 DEF IInv

LEMMA NodeReturnsInv ==
    ASSUME IInv, TypeOK', NEW t \in Task, NodeReturns(t)
    PROVE  IInv'
<1>1. UNCHANGED <<status, batch, pc, touched>>
  BY DEF NodeReturns, graph
<1> QED
  BY <1>1, ElsewhereInv

(* Pausing and resuming move a node between two statuses no other node's   *)
(* invariant counts on.                                                    *)
LEMMA PauseInv ==
    ASSUME IInv, TypeOK', NEW u \in Task, Pause(u) \/ Resume(u)
    PROVE  IInv'
<1>1. /\ UNCHANGED <<batch, pc>>
      /\ touched' = touched \cup {u}
      /\ status[u] \in {"pending", "paused"}
      /\ status'[u] \in {"pending", "paused"}
      /\ \A t \in Task : t # u => status'[t] = status[t]
  BY DEF Pause, Resume, run, IInv, TypeOK
<1>2. \A t \in Task : \A d \in Deps[t] : d \in Task
  BY DepsAssumption
<1>3. TypeOK /\ BatchShape
  BY DEF IInv
<1>4. u \notin batch
  BY <1>1, <1>3 DEF BatchShape
<1>5. \A d \in Task : Settled(status, d) => Settled(status, d)'
  BY <1>1 DEF Settled
<1>6. BatchShape'
  BY <1>1, <1>2, <1>3, <1>4, <1>5 DEF BatchShape, TypeOK
<1>8. NoConflict'
  BY <1>1 DEF IInv, NoConflict
<1>9. Ordered(status)'
  BY <1>1, <1>2, <1>5 DEF IInv, Ordered
<1>10. Causes(status)'
  <2>1. \A t \in Task : status'[t] = "cancelled" => t \in touched'
    BY <1>1 DEF IInv, Causes
  <2>2. \A t \in Task : status'[t] = "blocked" =>
           \E d \in Deps[t] : status'[d] \in Dead \/ d \in touched'
    BY <1>1, <1>2 DEF IInv, Causes, Dead
  <2> QED
    BY <2>1, <2>2 DEF Causes
<1>11. NotStranded(status)'
  BY <1>1, <1>2 DEF IInv, NotStranded, Dead
<1> QED
  BY <1>6, <1>8, <1>9, <1>10, <1>11 DEF IInv

(* Cancelling records the node as touched and blocks its pending           *)
(* dependents; a node of the batch stays in the batch.                     *)
LEMMA CancelInv ==
    ASSUME IInv, TypeOK', NEW u \in Task, Cancel(u)
    PROVE  IInv'
<1> DEFINE st == [status EXCEPT ![u] = "cancelled"]
<1>1. /\ UNCHANGED <<batch, pc>>
      /\ touched' = touched \cup {u}
      /\ status' = BlockDependents(st, {u})
  BY DEF Cancel, run, Awaiting
<1>2. TypeOK /\ BatchShape
  BY DEF IInv
<1>3. /\ st \in [Task -> Status]
      /\ \A t \in Task : st[t] = IF t = u THEN "cancelled" ELSE status[t]
  BY <1>2 DEF TypeOK, Status
<1> HIDE DEF st
<1>4. /\ \A t \in Task : st[t] # "pending" => status'[t] = st[t]
      /\ \A t \in Task : status'[t] = st[t] \/ status'[t] = "blocked"
      /\ \A t \in Task : status'[t] = "pending" =>
            \A d \in Deps[t] : d # u /\ status'[d] = st[d]
      /\ \A t \in Task : status'[t] = "blocked" /\ st[t] # "blocked" =>
            \E d \in Deps[t] : d = u \/ status'[d] = "blocked"
  <2> DEFINE F == {u}
  <2>1. F \in SUBSET Task /\ status' = BlockDependents(st, F) /\ \A d : d \in F <=> d = u
    BY <1>1
  <2> HIDE DEF F
  <2>2. /\ \A t \in Task : st[t] # "pending" => status'[t] = st[t]
        /\ \A t \in Task : status'[t] = st[t] \/ status'[t] = "blocked"
        /\ \A t \in Task : status'[t] = "pending" =>
              \A d \in Deps[t] : d \notin F /\ status'[d] = st[d]
        /\ \A t \in Task : status'[t] = "blocked" /\ st[t] # "blocked" =>
              \E d \in Deps[t] : d \in F \/ status'[d] = "blocked"
    BY <1>3, <2>1, BlockEffect
  <2> QED
    BY <2>1, <2>2
<1>5. \A t \in Task : \A d \in Deps[t] : d \in Task
  BY DepsAssumption
<1>6. \A d \in Task : Settled(status, d) => Settled(status, d)'
  BY <1>1, <1>3, <1>4 DEF Settled
<1>7. /\ status'[u] = "cancelled"
      /\ \A t \in Task : t # u /\ status[t] # "pending" => status'[t] = status[t]
      /\ \A t \in Task : t # u => status'[t] = status[t] \/ status'[t] = "blocked"
  BY <1>3, <1>4
<1>8. batch \subseteq Task
  BY <1>2 DEF TypeOK
<1>9. BatchShape'
  <2>1. \A t \in Task : status'[t] = "running" => t \in batch
    BY <1>2, <1>7 DEF BatchShape
  <2>2. \A t \in batch : status'[t] \in {"running", "cancelled"}
    BY <1>2, <1>7, <1>8 DEF BatchShape
  <2>3. \A t \in batch : \A d \in Deps[t] : Settled(status, d)' /\ d \notin batch
    BY <1>2, <1>5, <1>6, <1>8 DEF BatchShape
  <2>4. \A t \in Task : status'[t] \in {"running", "completed"} =>
          \A d \in Deps[t] : d \notin batch
    BY <1>2, <1>7 DEF BatchShape
  <2> QED
    BY <1>1, <1>2, <2>1, <2>2, <2>3, <2>4 DEF BatchShape
<1>11. NoConflict'
  BY <1>1 DEF IInv, NoConflict
<1>12. Ordered(status)'
  <2>1. \A t \in Task : status'[t] \in {"running", "completed"} =>
           status[t] \in {"running", "completed"}
    BY <1>7
  <2> QED
    BY <1>5, <1>6, <2>1 DEF IInv, Ordered
<1>13. Causes(status)'
  <2>1. \A t \in Task : status'[t] = "cancelled" => t \in touched'
    BY <1>1, <1>7 DEF IInv, Causes
  <2>2. ASSUME NEW t \in Task, status'[t] = "blocked"
        PROVE  \E d \in Deps[t] : status'[d] \in Dead \/ d \in touched'
    <3>1. CASE st[t] # "blocked"
      BY <1>1, <1>4, <2>2, <3>1 DEF Dead
    <3>2. CASE st[t] = "blocked"
      BY <1>1, <1>3, <1>5, <1>7, <3>2 DEF IInv, Causes, Dead
    <3> QED
      BY <3>1, <3>2
  <2> QED
    BY <2>1, <2>2 DEF Causes
<1>14. NotStranded(status)'
  <2>1. SUFFICES ASSUME NEW t \in Task \ touched, status'[t] = "pending",
                        NEW d \in Deps[t] \ touched
                 PROVE  status'[d] \notin Dead
    BY <1>1 DEF NotStranded
  <2>2. t # u /\ status[t] = "pending"
    BY <1>7, <2>1
  <2>3. d \in Task /\ status'[d] = status[d]
    BY <1>3, <1>4, <1>5, <2>1
  <2> QED
    BY <2>1, <2>2, <2>3 DEF IInv, NotStranded
<1> QED
  BY <1>9, <1>11, <1>12, <1>13, <1>14 DEF IInv

LEMMA NextInv == IInv /\ Stored /\ [Next]_vars => IInv'
<1> SUFFICES ASSUME IInv, Stored, [Next]_vars PROVE IInv'
  OBVIOUS
<1>1. TypeOK'
  BY NextType DEF IInv
<1>2. CASE Call \/ Raise \/ Crash
  BY <1>1, <1>2, ReloadInv
<1>3. CASE Select
  BY <1>1, <1>3, SelectInv
<1>4. CASE GatherReturns
  BY <1>1, <1>4, GatherInv
<1>5. CASE Turn \/ Yield \/ Return
  <2>1. UNCHANGED <<status, batch, touched>> /\ batch = {}
    BY <1>5 DEF Turn, Yield, Return, graph, IInv, BatchShape
  <2> QED
    BY <1>1, <2>1, ElsewhereInv
<1>6. ASSUME NEW t \in Task, NodeReturns(t) PROVE IInv'
  BY <1>1, <1>6, NodeReturnsInv
<1>7. ASSUME NEW t \in Task, Pause(t) \/ Resume(t) PROVE IInv'
  BY <1>1, <1>7, PauseInv
<1>8. ASSUME NEW t \in Task, Cancel(t) PROVE IInv'
  BY <1>1, <1>8, CancelInv
<1>9. ASSUME NEW w \in Writer, Take(w) \/ SaveCopy(w) PROVE IInv'
  <2>1. UNCHANGED <<status, batch, touched, pc>>
    BY <1>9 DEF Take, SaveCopy, graph, run
  <2> QED
    BY <1>1, <2>1, ElsewhereInv
<1>10. CASE Reopen \/ UNCHANGED vars
  <2>1. UNCHANGED <<status, batch, touched, pc>>
    BY <1>10 DEF Reopen, vars, graph, run
  <2> QED
    BY <1>1, <2>1, ElsewhereInv
<1> QED
  BY <1>2, <1>3, <1>4, <1>5, <1>6, <1>7, <1>8, <1>9, <1>10, OperableAssumption
     DEF Next, Engine, Operator, Others

(* What is stored, or held by a writer, is NewGraph, something that was    *)
(* stored or held before, or the live graph of a call that returns.        *)
LEMMA NextStored == IInv /\ Stored /\ [Next]_vars => Stored'
<1> SUFFICES ASSUME IInv, Stored, [Next]_vars PROVE Stored'
  OBVIOUS
<1> USE DEF graph, run, writers, mission, EndTurn
<1>1. touched \subseteq touched'
  BY DEF Next, Engine, Operator, Others, Turn, Call, Yield, Select, NodeReturns,
     GatherReturns, Return, Raise, Pause, Resume, Cancel, Take, SaveCopy, Reopen,
     Crash, vars
<1> DEFINE Old(st) == \/ st = NewGraph.status \/ st = saved.status \/ st = loaded.status
                      \/ \E w \in Writer : st = copy[w].status
<1>2. \A st : Old(st) => Sound(st, touched')
  <2>1. SUFFICES ASSUME NEW st, Old(st) PROVE Sound(st, touched')
    OBVIOUS
  <2>2. Sound(st, touched)
    BY <2>1, NewGraphSound DEF Stored
  <2> QED
    BY <1>1, <2>2, SoundGrows
<1>3. ASSUME saved' \in {saved, loaded}, loaded' \in {loaded, saved, NewGraph},
             \A w \in Writer : copy'[w] \in {copy[w], saved, NewGraph}
      PROVE  Stored'
  <2>1. /\ Old(saved'.status) /\ Old(loaded'.status)
        /\ \A w \in Writer : Old(copy'[w].status)
    BY <1>3
  <2> HIDE DEF Old
  <2> QED
    BY <1>2, <2>1 DEF Stored
<1>4. ASSUME NEW w \in Writer, SaveCopy(w) PROVE Stored'
  <2>1. /\ Old(saved'.status) /\ Old(loaded'.status)
        /\ \A v \in Writer : Old(copy'[v].status)
    BY <1>4 DEF SaveCopy, IInv, TypeOK
  <2> HIDE DEF Old
  <2> QED
    BY <1>2, <2>1 DEF Stored
<1>5. CASE Return
  <2>1. Sound(status, touched)
    BY <1>5 DEF Return, IInv, BatchShape, Ordered, Causes, NotStranded, Settled, Sound
  <2>2. saved'.status = status /\ touched' = touched
    BY <1>5 DEF Return
  <2>3. Old(loaded'.status) /\ \A w \in Writer : Old(copy'[w].status)
    BY <1>5 DEF Return
  <2> HIDE DEF Old
  <2> QED
    BY <1>2, <2>1, <2>2, <2>3 DEF Stored
<1>6. CASE Turn \/ Call \/ Yield \/ Raise \/ Crash \/ Reopen
  BY <1>3, <1>6 DEF Turn, Call, Yield, Raise, Crash, Reopen
<1>7. CASE Select \/ GatherReturns \/ UNCHANGED vars
  BY <1>3, <1>7 DEF Select, GatherReturns, vars
<1>8. ASSUME NEW t \in Task, NodeReturns(t) \/ Pause(t) \/ Resume(t) \/ Cancel(t)
      PROVE  Stored'
  BY <1>3, <1>8 DEF NodeReturns, Pause, Resume, Cancel
<1>9. ASSUME NEW w \in Writer, Take(w) PROVE Stored'
  BY <1>3, <1>9 DEF Take, IInv, TypeOK
<1> QED
  BY <1>4, <1>5, <1>6, <1>7, <1>8, <1>9, OperableAssumption
     DEF Next, Engine, Operator, Others

(* What counts as reported is in the saved graph, in the turn's     *)
(* copy and in the live graph of a call: only a return reports, and only a *)
(* writer's copy can be older than a report.                               *)
LEMMA NextReported == IInv /\ Reported /\ [Next]_vars => Reported'
<1> SUFFICES ASSUME IInv, Reported, [Next]_vars PROVE Reported'
  OBVIOUS
<1> USE DEF graph, run, writers, mission, EndTurn, Calling
<1>1. TypeOK
  BY DEF IInv
<1>2. CASE Turn \/ Call \/ Yield \/ Raise \/ Crash
  <2>1. /\ CompletedNeverRerun'
        /\ Kept(saved.status)' /\ (pc' # "idle" => Kept(loaded.status)')
        /\ Calling' => Kept(status)'
    BY <1>2 DEF Turn, Call, Yield, Raise, Crash, Restored, Reported, Kept, CompletedNeverRerun
  <2>2. outcome' = "completed" => outcome = "completed" /\ saved' = saved /\ pc' = "idle"
    BY <1>2 DEF Turn, Call, Yield, Raise, Crash, Reported
  <2> QED
    BY <2>1, <2>2 DEF Reported, With
<1>3. CASE Select
  <2>1. PICK S \in SUBSET Task, held \in SUBSET Resource :
        /\ NextTasks(status, held, S)
        /\ batch' = S
        /\ status' = [t \in Task |-> IF t \in S THEN "running" ELSE status[t]]
    BY <1>3 DEF Select
  <2>2. \A t \in S : status[t] = "pending"
    BY <2>1 DEF NextTasks, Runnable, With
  <2>3. reported \subseteq Task
    BY <1>1 DEF TypeOK
  <2>4. Kept(status) /\ UNCHANGED <<saved, loaded, reported, outcome>> /\ pc = "select"
    BY <1>3 DEF Select, Reported
  <2>5. Kept(status)' /\ CompletedNeverRerun'
    BY <2>1, <2>2, <2>3, <2>4 DEF Kept, CompletedNeverRerun
  <2> QED
    BY <2>4, <2>5 DEF Reported, Kept
<1>4. CASE GatherReturns
  <2> DEFINE st == [t \in Task |-> Settle(t)]
  <2>1. /\ status' = BlockDependents(st, Exhausted) /\ pc = "gather" /\ batch' = {}
        /\ UNCHANGED <<saved, loaded, reported, outcome>>
        /\ st \in [Task -> Status] /\ Exhausted \in SUBSET Task
    BY <1>1, <1>4, SettleType DEF GatherReturns, TypeOK, Exhausted
  <2>2. \A t \in Task : t \notin batch => st[t] = status[t]
    BY DEF Settle, Retried, Exhausted
  <2> HIDE DEF st
  <2>3. \A t \in Task : st[t] # "pending" => status'[t] = st[t]
    BY <2>1, BlockEffect
  <2>4. \A t \in reported : t \in Task /\ t \notin batch
    BY <1>1 DEF Reported, CompletedNeverRerun, TypeOK
  <2>5. Kept(status)'
    BY <2>1, <2>2, <2>3, <2>4 DEF Reported, Kept
  <2> QED
    BY <2>1, <2>5 DEF Reported, Kept, CompletedNeverRerun
<1>5. CASE Return
  <2>1. /\ pc' = "idle" /\ saved'.status = status /\ batch = {} /\ batch' = batch
        /\ reported' = reported \cup With(status, "completed")
        /\ Kept(status)
    BY <1>5 DEF Return, Reported, IInv, BatchShape
  <2>2. Kept(saved.status)'
    BY <2>1 DEF Kept, With
  <2>3. outcome' = "completed" => With(status, "completed") = Task
    BY <1>5 DEF Return, Judge
  <2> QED
    BY <2>1, <2>2, <2>3 DEF Reported, With, CompletedNeverRerun
<1>6. ASSUME NEW t \in Task, NodeReturns(t) \/ Pause(t) \/ Resume(t) PROVE Reported'
  <2>1. /\ UNCHANGED <<batch, pc, saved, loaded, reported, outcome>>
        /\ \A u \in Task : status[u] \in {"completed", "cancelled"} => status'[u] = status[u]
    BY <1>1, <1>6 DEF NodeReturns, Pause, Resume, TypeOK
  <2>2. reported \subseteq Task
    BY <1>1 DEF TypeOK
  <2> QED
    BY <2>1, <2>2 DEF Reported, Kept, With, CompletedNeverRerun
<1>7. ASSUME NEW u \in Task, Cancel(u) PROVE Reported'
  <2> DEFINE st == [status EXCEPT ![u] = "cancelled"]
             F == {u}
  <2>1. /\ status' = BlockDependents(st, F)
        /\ UNCHANGED <<batch, pc, saved, loaded, reported, outcome>>
    BY <1>7 DEF Cancel
  <2>2. /\ st \in [Task -> Status] /\ F \in SUBSET Task
        /\ \A t \in Task : st[t] = IF t = u THEN "cancelled" ELSE status[t]
    BY <1>1, <1>7 DEF TypeOK, Status
  <2> HIDE DEF st, F
  <2>3. \A t \in Task : st[t] # "pending" => status'[t] = st[t]
    BY <2>1, <2>2, BlockEffect
  <2>4. reported \subseteq Task
    BY <1>1 DEF TypeOK
  <2>5. Kept(status) => Kept(status)'
    BY <2>1, <2>2, <2>3, <2>4 DEF Kept
  <2> QED
    BY <2>1, <2>5 DEF Reported, Kept, With, CompletedNeverRerun
<1>8. ASSUME NEW w \in Writer, SaveCopy(w) PROVE Reported'
  <2>1. /\ UNCHANGED <<batch, status, loaded, pc>> /\ outcome' = "none"
        /\ saved' = copy[w]
        /\ reported' = reported \cap With(copy[w].status, "completed")
    BY <1>8 DEF SaveCopy
  <2>2. Kept(saved.status)'
    BY <2>1 DEF Kept, With
  <2> QED
    BY <2>1, <2>2 DEF Reported, Kept, CompletedNeverRerun
<1>9. ASSUME UNCHANGED <<graph, run, saved, reported>>, outcome' \in {outcome, "none"}
      PROVE  Reported'
  BY <1>9 DEF Reported, Kept, With, CompletedNeverRerun
<1>10. (\E w \in Writer : Take(w)) \/ Reopen \/ UNCHANGED vars => Reported'
  BY <1>9 DEF Take, Reopen, vars
<1> QED
  BY <1>2, <1>3, <1>4, <1>5, <1>6, <1>7, <1>8, <1>10, OperableAssumption
     DEF Next, Engine, Operator, Others

LEMMA Invariance == Spec => [](IInv /\ Stored /\ Reported)
<1>1. Init => IInv /\ Stored /\ Reported
  BY InitInv
<1>2. IInv /\ Stored /\ Reported /\ [Next]_vars => (IInv /\ Stored /\ Reported)'
  BY NextInv, NextStored, NextReported
<1> QED
  BY <1>1, <1>2, PTL DEF Spec

-----------------------------------------------------------------------------
(* A node runs or is completed only behind completed dependencies          *)
(* (task_graph.py runnable).                                               *)
THEOREM DependencyOrderHolds == Spec => []DependencyOrder
<1>1. IInv => DependencyOrder
  BY DEF IInv, Ordered, Settled, DependencyOrder
<1> QED
  BY <1>1, Invariance, PTL

(* Nodes executing together never share a resource (task_graph.py          *)
(* next_tasks).                                                            *)
THEOREM NoConflictHolds == Spec => []NoConflict
<1>1. IInv => NoConflict
  BY DEF IInv
<1> QED
  BY <1>1, Invariance, PTL

(* Work a returned call completed is executed again only where a stale     *)
(* copy of the mission was saved over it (task_runner.py _restore,         *)
(* operator.py run_once, voice/service.py RESUME).                         *)
THEOREM CompletedNeverRerunHolds == Spec => []CompletedNeverRerun
<1>1. Reported => CompletedNeverRerun
  BY DEF Reported
<1> QED
  BY <1>1, Invariance, PTL

(* Only an operator can leave a node pending behind a dead dependency      *)
(* (task_graph.py _block_dependents).                                      *)
THEOREM NoneStrandedHolds == Spec => []NoneStranded
<1>1. IInv /\ Stored => NoneStranded
  BY DEF IInv, Stored, Sound, NotStranded, NoneStranded
<1> QED
  BY <1>1, Invariance, PTL

(* A completed mission has every node completed, a blocked node a cause    *)
(* (task_engine.py run_graph).                                             *)
THEOREM BlockedHasCauseHolds == Spec => []BlockedHasCause
<1>1. IInv /\ Reported => BlockedHasCause
  BY DEF IInv, Reported, Causes, BlockedHasCause, With
<1> QED
  BY <1>1, Invariance, PTL

-----------------------------------------------------------------------------
(* Every step of the engine is a step of DependencyExecutor or a stutter.  *)
Done == With(status, "completed")

Copied == {With(copy[w].status, "completed") : w \in holding}

Holding == Copied \cup (IF pc = "idle" THEN {} ELSE {With(loaded.status, "completed")})

LEMMA PromiseInit == Init => Promise!Init
<1> SUFFICES ASSUME Init PROVE Promise!Init
  OBVIOUS
<1>1. With(NewGraph.status, "completed") = {}
  BY NewGraphType DEF With
<1>2. Holding \subseteq {{}}
  BY <1>1 DEF Init, Holding, Copied
<1> QED
  BY <1>1, <1>2 DEF Init, Promise!Init, Holding, Copied

LEMMA PromiseNext == IInv /\ Stored /\ Reported /\ [Next]_vars => [Promise!Next]_(Promise!vars)
<1> SUFFICES ASSUME IInv, Stored, Reported, [Next]_vars PROVE [Promise!Next]_(Promise!vars)
  OBVIOUS
<1> USE DEF Promise!Next, Promise!vars, Promise!Copies, graph, run, writers, mission
<1>1. /\ TypeOK /\ BatchShape
      /\ pc # "idle" => outcome # "completed"
  BY DEF IInv, Reported
<1> DEFINE Durable == With(saved.status, "completed")
<1>2. CASE Turn
  <2>1. Holding' \subseteq Holding \cup {Durable}
    BY <1>2 DEF Turn, Holding, Copied, With
  <2>2. Promise!Take
    BY <1>2, <2>1 DEF Turn, Promise!Take, Holding, Copied, With
  <2> QED
    BY <2>2
<1>10. CASE Call \/ Raise \/ Crash
  <2>1. /\ batch' = {} /\ status' = saved'.status
        /\ \/ saved' = saved /\ outcome' = outcome
           \/ saved' = loaded /\ pc # "idle" /\ outcome' = "none"
    BY <1>1, <1>10 DEF Call, Raise, Crash, Restored, BatchShape
  <2>2. Holding' \subseteq Holding
    BY <1>10 DEF Call, Raise, Crash, EndTurn, Holding, Copied, With
  <2>3. Durable' = Durable \/ Durable' \in Holding
    BY <2>1 DEF Holding, With
  <2>4. Done' = Durable'
    BY <2>1 DEF Done, With
  <2>5. (outcome' = "completed") <=> (outcome = "completed" /\ Durable' = Durable)
    BY <1>1, <2>1 DEF With
  <2>6. Promise!FallBack
    BY <2>1, <2>2, <2>3, <2>4, <2>5 DEF Promise!FallBack, Holding, Copied, Done
  <2> QED
    BY <2>6
<1>11. ASSUME Yield \/ \E w \in Writer : SaveCopy(w) PROVE [Promise!Next]_(Promise!vars)
  <2>1. /\ UNCHANGED <<status, batch>> /\ outcome' = "none"
        /\ Durable' \in Holding
        /\ Holding' \subseteq Holding
    <3>1. CASE Yield
      BY <3>1 DEF Yield, EndTurn, Holding, Copied, With
    <3>2. ASSUME NEW w \in Writer, SaveCopy(w)
          PROVE  /\ UNCHANGED <<status, batch>> /\ outcome' = "none"
                 /\ Durable' \in Holding
                 /\ Holding' \subseteq Holding
      <4>1. \A v \in holding' : v \in holding /\ copy'[v] = copy[v]
        BY <1>1, <3>2 DEF SaveCopy, TypeOK
      <4>2. Copied' \subseteq Copied
        BY <4>1 DEF Copied, With
      <4>3. With(copy[w].status, "completed") \in Copied
        BY <3>2 DEF SaveCopy, Copied
      <4> QED
        BY <3>2, <4>2, <4>3 DEF SaveCopy, Holding, With
    <3> QED
      BY <1>11, <3>1, <3>2
  <2>2. Promise!WriteBack
    BY <2>1 DEF Promise!WriteBack, Holding, Copied, With
  <2> QED
    BY <2>2
<1>12. ASSUME NEW w \in Writer, Take(w) PROVE [Promise!Next]_(Promise!vars)
  <2>1. \A v \in holding' : \/ v \in holding /\ copy'[v] = copy[v]
                            \/ copy'[v] = saved
    BY <1>1, <1>12 DEF Take, TypeOK
  <2>2. Copied' \subseteq Copied \cup {Durable}
    BY <2>1 DEF Copied, With
  <2>3. Holding' \subseteq Holding \cup {Durable}
    BY <1>12, <2>2 DEF Take, Holding, With
  <2>4. Promise!Take
    BY <1>12, <2>3 DEF Take, Promise!Take, Holding, Copied, With
  <2> QED
    BY <2>4
<1>13. CASE Reopen
  <2>1. Promise!Reopen
    BY <1>13 DEF Reopen, Promise!Reopen, With
  <2> QED
    BY <2>1
<1>3. CASE Select
  <2>1. PICK S \in SUBSET Task, held \in SUBSET Resource :
          /\ NextTasks(status, held, S)
          /\ batch' = S
          /\ status' = [t \in Task |-> IF t \in S THEN "running" ELSE status[t]]
    BY <1>3 DEF Select
  <2>2. /\ batch = {} /\ outcome # "completed"
        /\ UNCHANGED <<saved, outcome, holding, copy, loaded>>
        /\ pc # "idle" /\ pc' # "idle"
    BY <1>1, <1>3 DEF Select, BatchShape
  <2>3. \A t \in S : status[t] = "pending" /\ Deps[t] \subseteq Done
    BY <2>1 DEF NextTasks, Runnable, With, Done
  <2>4. Done' = Done
    BY <2>1, <2>3 DEF Done, With
  <2>5. S \in SUBSET (Task \ Done)
    BY <2>1, <2>3 DEF Done, With
  <2>6. NoConflict'
    BY NextInv DEF IInv
  <2>7. \A s, t \in S : s # t => Needs[s] \cap Needs[t] = {}
    BY <2>1, <2>6 DEF NoConflict
  <2>8. Promise!Start
    BY <2>1, <2>2, <2>3, <2>4, <2>5, <2>7 DEF Promise!Start, Done, With
  <2> QED
    BY <2>8
<1>4. ASSUME NEW t \in Task, NodeReturns(t) PROVE UNCHANGED Promise!vars
  BY <1>4 DEF NodeReturns, With
<1>5. CASE GatherReturns
  <2> DEFINE st == [t \in Task |-> Settle(t)]
             S == {t \in batch : result[t] = "ok"}
  <2>1. /\ status' = BlockDependents(st, Exhausted) /\ batch' = {}
        /\ UNCHANGED <<saved, outcome, holding, copy, loaded>>
        /\ pc # "idle" /\ pc' # "idle"
    BY <1>5 DEF GatherReturns
  <2>2. st \in [Task -> Status] /\ Exhausted \in SUBSET Task
    BY <1>1, SettleType DEF TypeOK, Exhausted
  <2>3. \A t \in Task : status'[t] = "completed" <=> st[t] = "completed"
    <3> HIDE DEF st
    <3> QED
      BY <2>1, <2>2, BlockEffect
  <2>4. \A t \in batch : status[t] # "completed"
    BY <1>1 DEF BatchShape
  <2>5. \A t \in Task : Settle(t) = "completed" <=> t \in S \/ status[t] = "completed"
    BY <2>4 DEF Settle, Retried, Exhausted
  <2>6. Done' = Done \cup S
    BY <1>1, <2>3, <2>5 DEF Done, With, TypeOK
  <2>8. Holding' = Holding /\ Durable' = Durable
    BY <2>1 DEF Holding, Copied, With
  <2>7. Promise!Finish
    <3>1. S \in SUBSET batch
      OBVIOUS
    <3> HIDE DEF st, S
    <3> QED
      BY <2>1, <2>6, <2>8, <3>1 DEF Promise!Finish, Done, Holding, Copied
  <2> QED
    BY <2>7
<1>6. CASE Return
  <2>1. /\ pc = "verify" /\ batch = {} /\ saved'.status = status
        /\ UNCHANGED <<status, batch>>
        /\ \E verified \in BOOLEAN : outcome' = Judge(verified)
    BY <1>1, <1>6 DEF Return, BatchShape
  <2>2. outcome' = "completed" => Done = Task
    BY <2>1 DEF Judge, Done
  <2>3. (outcome' = "completed") \in {FALSE, Done = Task}
    BY <2>2
  <2>4. With(saved.status, "completed")' = Done /\ Done' = Done
    BY <2>1 DEF With, Done
  <2>5. Holding' \subseteq Holding
    BY <1>6 DEF Return, EndTurn, Holding, Copied, With
  <2>6. Promise!Persist
    BY <2>1, <2>3, <2>4, <2>5 DEF Promise!Persist, Done, Holding, Copied
  <2> QED
    BY <2>6
<1>7. ASSUME NEW t \in Task, Pause(t) \/ Resume(t) PROVE UNCHANGED Promise!vars
  BY <1>1, <1>7 DEF Pause, Resume, With, TypeOK
<1>8. ASSUME NEW u \in Task, Cancel(u) PROVE [Promise!Next]_(Promise!vars)
  <2> DEFINE st == [status EXCEPT ![u] = "cancelled"]
             F == {u}
  <2>1. /\ status' = BlockDependents(st, F)
        /\ UNCHANGED <<batch, saved, outcome, holding, copy, loaded, pc>>
        /\ outcome # "completed"
    BY <1>1, <1>8 DEF Cancel, Awaiting
  <2>2. /\ st \in [Task -> Status] /\ F \in SUBSET Task
        /\ \A t \in Task : st[t] = IF t = u THEN "cancelled" ELSE status[t]
    BY <1>1, <1>8 DEF TypeOK, Status
  <2>3. \A t \in Task : status'[t] = "completed" <=> t # u /\ status[t] = "completed"
    <3> HIDE DEF st, F
    <3> QED
      BY <2>1, <2>2, BlockEffect
  <2>4. Done' = Done \ {u}
    BY <2>3 DEF Done, With
  <2>7. Holding' = Holding /\ Durable' = Durable
    BY <2>1 DEF Holding, Copied, With
  <2> HIDE DEF st, F
  <2>5. CASE u \in Done
    <3>1. Promise!Withdraw
      BY <2>1, <2>4, <2>5, <2>7 DEF Promise!Withdraw, Done, Holding, Copied
    <3> QED
      BY <3>1
  <2>6. CASE u \notin Done
    <3>1. Done' = Done
      BY <2>4, <2>6
    <3> QED
      BY <2>1, <2>7, <3>1 DEF Done, Holding, Copied
  <2> QED
    BY <2>5, <2>6
<1>9. CASE UNCHANGED vars
  BY <1>9 DEF vars, With
<1> QED
  BY <1>2, <1>3, <1>4, <1>5, <1>6, <1>7, <1>8, <1>9, <1>10, <1>11, <1>12, <1>13,
     OperableAssumption DEF Next, Engine, Operator, Others

(* The engine with its retries, scheduling, persistence and operator       *)
(* implements the promise of DependencyExecutor (task_engine.py run_graph, *)
(* task_runner.py __call__).                                               *)
THEOREM Implements == Spec => KeepsPromise
<1>1. Init => Promise!Init
  BY PromiseInit
<1>2. IInv /\ Stored /\ Reported /\ [Next]_vars => [Promise!Next]_(Promise!vars)
  BY PromiseNext
<1> QED
  BY <1>1, <1>2, Invariance, PTL DEF Spec, KeepsPromise, Promise!Spec
=============================================================================
