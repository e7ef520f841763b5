------------------------- MODULE ActionRuntimeProofs -------------------------
(***************************************************************************)
(* Proofs about ActionRuntime, for any runs, agents, budgets and settings. *)
(*                                                                         *)
(* The inductive invariant says, beside the types: a run that began has an *)
(* agent, and what is registered for an agent is a run of its own that has *)
(* not been left; an open run of an agent that was not resumed too early   *)
(* is its only one, and the agent is then not idle; unless the run lost    *)
(* its entry it is the registered one or cancelled, and it is cancelled    *)
(* where its agent is terminated;                                          *)
(* an action past its approvals has one of its own, or found an older one, *)
(* which is then no longer there for execute_tool.                         *)
(***************************************************************************)
EXTENDS ActionRuntime, FiniteSetTheorems, TLAPS

Linked ==
    /\ \A r \in Run : run[r].pc \in Waits \cup {"ended"} => run[r].agent \in Agent
    /\ \A a \in Agent : running[a] # None =>
        run[running[a]].pc \in Waits \cup {"ended"} /\ run[running[a]].agent = a

SoleOf(r) == run[r].pc \in Waits /\ run[r].agent \notin resumed =>
    /\ \A q \in Run : run[q].pc \in Waits /\ run[q].agent = run[r].agent => q = r
    /\ status[run[r].agent] \in {"running", "paused", "terminated"}
    /\ run[r].agent \notin unlisted =>
        /\ running[run[r].agent] = r \/ run[r].cancelled
        /\ status[run[r].agent] = "terminated" => run[r].cancelled

Sole == \A r \in Run : SoleOf(r)

NeedsAnswer(r) == Governed(r) \/ Mode = "approval"

AnsweredOf(r) ==
    /\ run[r].pc \in {"lock", "before", "tool"} /\ NeedsAnswer(r) => run[r].ask = "approved"
    /\ run[r].agent \notin resumed /\ r \in PolicyAsks =>
        /\ run[r].pc \in {"lock", "before"} =>
            run[r].ask = "approved" \/ run[r].agent \notin tokens
        /\ run[r].pc = "tool" => run[r].ask = "approved"

Answered == \A r \in Run : AnsweredOf(r)

IInv == TypeOK /\ Linked /\ Sole /\ Answered /\ OneShot

UsageOK == usage \in [actions : Nat, failures : Nat] /\ usage.failures <= usage.actions

LEMMA InitInv == Init => IInv
  <1> SUFFICES ASSUME Init PROVE IInv
    OBVIOUS
  <1> USE DEF Init
  <1>1. TypeOK
    BY BoundAssumption DEF TypeOK, RunState, Waits, Asked, AgentStatus
  <1>2. Linked /\ Sole /\ Answered
    BY DEF Linked, Sole, SoleOf, Answered, AnsweredOf, Waits
  <1>3. OneShot
    BY DEF OneShot
  <1> QED BY <1>1, <1>2, <1>3 DEF IInv

-----------------------------------------------------------------------------
(* A step of one run that leaves it open and its agent alone.              *)
LEMMA MoveFrame ==
    ASSUME IInv, NEW r \in Run, run[r].pc \in Waits,
           run' \in [Run -> RunState],
           \A q \in Run \ {r} : run'[q] = run[q],
           run'[r].pc \in Waits, run'[r].agent = run[r].agent,
           run'[r].cancelled = run[r].cancelled,
           UNCHANGED <<status, running, resumed, unlisted>>
    PROVE  Linked' /\ Sole'
  <1>1. \A a \in Agent : running[a] \in Run \cup {None}
    BY DEF IInv, TypeOK
  <1>2. Linked'
    BY <1>1 DEF IInv, Linked
  <1>3. ASSUME NEW p \in Run PROVE SoleOf(p)'
    <2>1. SoleOf(p)
      BY DEF IInv, Sole
    <2>2. run'[p].agent = run[p].agent /\ (run'[p].pc \in Waits <=> run[p].pc \in Waits)
      OBVIOUS
    <2>3. run'[p].cancelled = run[p].cancelled
      OBVIOUS
    <2>4. \A q \in Run : run'[q].agent = run[q].agent /\ (run'[q].pc \in Waits <=> run[q].pc \in Waits)
      OBVIOUS
    <2> QED BY <2>1, <2>2, <2>3, <2>4 DEF SoleOf
  <1> QED BY <1>2, <1>3 DEF Sole

(* Such a step can take or give the one-shot approval of its own agent     *)
(* only, which no other run of an agent with one run waits on.             *)
LEMMA AnsweredOthers ==
    ASSUME IInv, NEW r \in Run, run[r].pc \in Waits,
           \A q \in Run \ {r} : run'[q] = run[q],
           tokens' \subseteq tokens \cup {run[r].agent},
           resumed' = resumed
    PROVE  \A q \in Run \ {r} : AnsweredOf(q)'
  <1> TAKE q \in Run \ {r}
  <1>1. AnsweredOf(q) /\ run'[q] = run[q]
    BY DEF IInv, Answered
  <1>2. ASSUME run[q].agent \notin resumed, run[q].pc \in {"lock", "before"}
        PROVE  run[q].agent # run[r].agent
    BY <1>2 DEF IInv, Sole, SoleOf, Waits
  <1>3. NeedsAnswer(q)' <=> NeedsAnswer(q)
    BY DEF NeedsAnswer, Governed, TaskId, NodeId
  <1> QED BY <1>1, <1>2, <1>3 DEF AnsweredOf

(* The end of a run.                                                       *)
LEMMA EndInv ==
    ASSUME IInv, NEW r \in Run, run[r].pc \in Waits,
           NEW s \in AgentStatus, End(r, s), UsageOK',
           UNCHANGED <<tokens, executed, credit, resumed, unlisted>>
    PROVE  IInv'
  <1>a. run[r].agent \in Agent
    BY DEF IInv, Linked
  <1>b. run' \in [Run -> RunState] /\ run'[r].pc = "ended" /\ run'[r].agent = run[r].agent
        /\ \A q \in Run \ {r} : run'[q] = run[q]
    <2>1. run' = [run EXCEPT ![r] = [[[run[r] EXCEPT !.pc = "ended"] EXCEPT !.ask = "none"]
                                        EXCEPT !.cancelled = FALSE]]
      BY DEF End, IInv, TypeOK
    <2>2. run[r] \in RunState
      BY DEF IInv, TypeOK
    <2>3. [[[run[r] EXCEPT !.pc = "ended"] EXCEPT !.ask = "none"] EXCEPT !.cancelled = FALSE]
            \in RunState
      BY <2>2 DEF RunState, Asked
    <2> QED BY <2>1, <2>2, <2>3 DEF IInv, TypeOK, RunState
  <1>c. /\ status' \in [Agent -> AgentStatus] /\ running' = running
        /\ \A a \in Agent \ {run[r].agent} : status'[a] = status[a]
    BY <1>a DEF End, AgentOf, IInv, TypeOK
  <1>1. TypeOK'
    BY <1>b, <1>c DEF IInv, TypeOK, UsageOK
  <1>2. Linked'
    <2>1. \A a \in Agent : running[a] \in Run \cup {None}
      BY DEF IInv, TypeOK
    <2> QED BY <1>b, <1>c, <2>1 DEF IInv, Linked
  <1>3. ASSUME NEW q \in Run PROVE SoleOf(q)'
    <2> SUFFICES ASSUME run'[q].pc \in Waits, run'[q].agent \notin resumed
                 PROVE  SoleOf(q)'
      BY DEF SoleOf
    <2>1. q # r /\ run'[q] = run[q] /\ SoleOf(q)
      BY <1>b DEF Waits, IInv, Sole
    <2>2. run[q].agent \in Agent /\ run[q].agent # run[r].agent
      BY <2>1 DEF IInv, Linked, SoleOf
    <2>3. status'[run[q].agent] = status[run[q].agent]
      BY <2>2, <1>c
    <2>4. \A p \in Run : run'[p].pc \in Waits => p # r /\ run'[p] = run[p]
      BY <1>b DEF Waits
    <2> QED BY <2>1, <2>3, <2>4, <1>c DEF SoleOf
  <1>4. Answered'
    <2>1. \A q \in Run \ {r} : AnsweredOf(q)'
      BY <1>b, AnsweredOthers
    <2>2. AnsweredOf(r)'
      BY <1>b DEF AnsweredOf
    <2> QED BY <2>1, <2>2 DEF Answered
  <1>5. OneShot'
    BY DEF IInv, OneShot
  <1> QED BY <1>1, <1>2, <1>3, <1>4, <1>5 DEF IInv, Sole

(* The recording of an action's result.                                    *)
LEMMA RecordInv ==
    ASSUME IInv, NEW r \in Run, run[r].pc \in Waits, NEW ok \in BOOLEAN,
           Record(r, ok), UNCHANGED <<tokens, executed, credit, resumed, unlisted>>
    PROVE  IInv'
  <1> DEFINE n == run[r].steps + 1
             f == IF ok THEN 0 ELSE run[r].failures + 1
  <1>1. UsageOK'
    BY DEF Record, Counted, UsageOK, IInv, TypeOK
  <1>2. CASE f > MaxFailures \/ OutOfSteps(n)
    BY <1>1, <1>2, EndInv DEF Record, AgentStatus
  <1>3. CASE ~(f > MaxFailures \/ OutOfSteps(n))
    <2>a. /\ run' = [run EXCEPT ![r] = [@ EXCEPT !.pc = "decide", !.ask = "none",
                                          !.steps = n, !.failures = f]]
          /\ UNCHANGED <<status, running>>
      BY <1>3 DEF Record, agents
    <2>b. run[r] \in RunState
      BY DEF IInv, TypeOK
    <2>c. n \in 0..(MaxSteps - 1) /\ f \in 0..MaxFailures
      BY <1>3, <2>b, BoundAssumption DEF OutOfSteps, RunState
    <2>d. /\ run' \in [Run -> RunState]
          /\ \A q \in Run \ {r} : run'[q] = run[q]
          /\ run'[r].pc = "decide" /\ run'[r].agent = run[r].agent
          /\ run'[r].cancelled = run[r].cancelled
      <3> HIDE DEF n, f
      <3> QED BY <2>a, <2>b, <2>c DEF IInv, TypeOK, RunState, Waits, Asked
    <2>1. TypeOK'
      BY <1>1, <2>a, <2>d DEF IInv, TypeOK, UsageOK
    <2>2. Linked' /\ Sole'
      BY <2>a, <2>d, MoveFrame DEF Waits
    <2>3. Answered'
      <3>1. \A q \in Run \ {r} : AnsweredOf(q)'
        BY <2>d, AnsweredOthers
      <3>2. AnsweredOf(r)'
        BY <2>d DEF AnsweredOf
      <3> QED BY <3>1, <3>2 DEF Answered
    <2>4. OneShot'
      BY DEF IInv, OneShot
    <2> QED BY <2>1, <2>2, <2>3, <2>4 DEF IInv
  <1> QED BY <1>2, <1>3

-----------------------------------------------------------------------------
(* What remains to be shown of a step that keeps its run open.             *)
LEMMA MoveInv ==
    ASSUME IInv, NEW r \in Run, run[r].pc \in Waits,
           NEW p \in Waits, NEW x \in Asked,
           run' = [run EXCEPT ![r] = [@ EXCEPT !.pc = p, !.ask = x]],
           UNCHANGED <<status, running, usage, resumed, unlisted>>,
           tokens' \in SUBSET Agent, tokens' \subseteq tokens \cup {run[r].agent},
           executed' \in Nat, credit' \in [Agent -> Int],
           OneShot', AnsweredOf(r)'
    PROVE  IInv'
  <1>1. /\ run' \in [Run -> RunState]
        /\ \A q \in Run \ {r} : run'[q] = run[q]
        /\ run'[r].pc = p /\ run'[r].agent = run[r].agent
        /\ run'[r].cancelled = run[r].cancelled
    <2>1. run[r] \in RunState
      BY DEF IInv, TypeOK
    <2> QED BY <2>1 DEF IInv, TypeOK, RunState, Asked
  <1>2. TypeOK'
    BY <1>1 DEF IInv, TypeOK
  <1>3. Linked' /\ Sole'
    BY <1>1, MoveFrame
  <1>4. Answered'
    BY <1>1, AnsweredOthers DEF Answered
  <1> QED BY <1>2, <1>3, <1>4 DEF IInv

(* Check, from a place where the gate is passed: the mode did not ask, or  *)
(* its request was approved.                                               *)
LEMMA CheckInv ==
    ASSUME IInv, NEW r \in Run, run[r].pc \in {"decide", "mode"},
           NeedsAnswer(r) => run[r].ask = "approved",
           Check(r), UNCHANGED <<status, running, usage, executed, resumed, unlisted>>
    PROVE  IInv'
  <1> DEFINE a == run[r].agent
  <1>a. /\ run[r].pc \in Waits /\ "lock" \in Waits /\ "policy" \in Waits
        /\ "pending" \in Asked /\ run[r].ask \in Asked
        /\ a \in Agent
    BY DEF Waits, Asked, IInv, TypeOK, Linked, RunState
  <1>b. /\ tokens \in SUBSET Agent /\ credit \in [Agent -> Int] /\ executed' \in Nat
        /\ run \in [Run -> RunState] /\ OneShot
    BY DEF IInv, TypeOK
  <1>c. Goto(r, "lock") =>
            run' = [run EXCEPT ![r] = [@ EXCEPT !.pc = "lock", !.ask = run[r].ask]]
    BY <1>b DEF Goto, RunState
  <1>d. NeedsAnswer(r)' <=> NeedsAnswer(r)
    BY DEF NeedsAnswer, Governed, TaskId, NodeId
  <1>e. Goto(r, "lock") => /\ run'[r].pc = "lock" /\ run'[r].agent = a
                           /\ run'[r].ask = run[r].ask
    BY <1>b DEF Goto, RunState
  <1>1. CASE r \notin PolicyAsks
    <2>1. Goto(r, "lock") /\ UNCHANGED <<tokens, credit>>
      BY <1>1 DEF Check
    <2>2. OneShot' /\ AnsweredOf(r)'
      BY <1>1, <2>1, <1>b, <1>d, <1>e DEF OneShot, AnsweredOf
    <2> QED BY <2>1, <2>2, <1>a, <1>b, <1>c, MoveInv
  <1>2. CASE r \in PolicyAsks /\ a \in tokens
    <2>1. tokens' = tokens \ {a} /\ Goto(r, "lock") /\ UNCHANGED credit
      BY <1>2 DEF Check, Spend, AgentOf
    <2>2. OneShot'
      BY <2>1, <1>b DEF OneShot
    <2>3. AnsweredOf(r)'
      BY <2>1, <1>d, <1>e DEF AnsweredOf
    <2> QED BY <2>1, <2>2, <2>3, <1>a, <1>b, <1>c, MoveInv
  <1>3. CASE r \in PolicyAsks /\ a \notin tokens /\ run[r].ask = "approved"
    <2>1. /\ tokens' = tokens \cup {a} /\ Goto(r, "lock")
          /\ credit' = [credit EXCEPT ![a] = @ + 1]
      BY <1>3 DEF Check, Grant, AgentOf
    <2>2. OneShot' /\ credit' \in [Agent -> Int]
      BY <1>3, <2>1, <1>a, <1>b DEF OneShot
    <2>3. AnsweredOf(r)'
      BY <1>3, <2>1, <1>e DEF AnsweredOf
    <2> QED BY <2>1, <2>2, <2>3, <1>a, <1>b, <1>c, MoveInv
  <1>4. CASE r \in PolicyAsks /\ a \notin tokens /\ run[r].ask # "approved"
    <2>1. /\ run' = [run EXCEPT ![r].pc = "policy", ![r].ask = "pending"]
          /\ UNCHANGED <<tokens, credit>>
      BY <1>4 DEF Check, AgentOf
    <2>2. run' = [run EXCEPT ![r] = [@ EXCEPT !.pc = "policy", !.ask = "pending"]]
      BY <2>1, <1>b DEF RunState
    <2>3. run'[r].pc = "policy"
      BY <2>2, <1>b DEF RunState
    <2>4. OneShot' /\ AnsweredOf(r)'
      BY <2>1, <2>3, <1>b DEF OneShot, AnsweredOf
    <2> QED BY <2>1, <2>2, <2>4, <1>a, <1>b, MoveInv
  <1> QED BY <1>1, <1>2, <1>3, <1>4

LEMMA ProceedInv ==
    ASSUME IInv, NEW r \in Run, Proceed(r)
    PROVE  IInv'
  <1>u. UNCHANGED usage => UsageOK'
    BY DEF UsageOK, IInv, TypeOK
  <1>w. {"decide", "mode", "policy", "lock", "before", "tool"} \subseteq Waits
        /\ {"none", "pending", "approved", "denied"} \subseteq Asked
        /\ {"failed", "completed", "terminated"} \subseteq AgentStatus
    BY DEF Waits, Asked, AgentStatus
  <1>t. /\ run \in [Run -> RunState] /\ run[r].ask \in Asked
        /\ tokens \in SUBSET Agent /\ credit \in [Agent -> Int] /\ executed \in Nat
        /\ (run[r].pc \in Waits => run[r].agent \in Agent)
        /\ OneShot /\ AnsweredOf(r)
    BY DEF IInv, TypeOK, Linked, Answered, RunState
  <1>n. NeedsAnswer(r)' <=> NeedsAnswer(r)
    BY DEF NeedsAnswer, Governed, TaskId, NodeId
  <1>g. ASSUME NEW p \in Waits, Goto(r, p)
        PROVE  /\ run' = [run EXCEPT ![r] = [@ EXCEPT !.pc = p, !.ask = run[r].ask]]
               /\ run'[r].pc = p /\ run'[r].agent = run[r].agent
               /\ run'[r].ask = run[r].ask
    BY <1>g, <1>t DEF Goto, RunState
  <1>1. CASE Stop(r)
    <2>1. AfterWork(AgentOf(r)) \in AgentStatus
      BY <1>w DEF AfterWork
    <2> QED BY <1>1, <2>1, <1>u, <1>w, EndInv DEF Stop, history
  <1>2. CASE DeciderRaises(r)
    BY <1>2, <1>u, <1>w, EndInv DEF DeciderRaises, history
  <1>3. CASE Reject(r) \/ Denied(r) \/ LockTimesOut(r) \/ InvokeFails(r)
    <2>1. /\ run[r].pc \in Waits /\ Record(r, FALSE)
          /\ UNCHANGED <<tokens, executed, credit, resumed, unlisted>>
      BY <1>3, <1>w DEF Reject, Denied, LockTimesOut, InvokeFails, history
    <2> QED BY <2>1, RecordInv
  <1>4. CASE ToolReturns(r)
    <2>1. PICK ok \in BOOLEAN : Record(r, ok)
      BY <1>4 DEF ToolReturns
    <2> QED BY <1>4, <2>1, <1>w, RecordInv DEF ToolReturns, history
  <1>5. CASE Expire(r)
    <2>1. CASE run[r].ask = "pending"
      BY <1>5, <2>1, <1>w, RecordInv DEF Expire, history
    <2>2. CASE run[r].ask # "pending"
      BY <1>5, <2>2, <1>u, <1>w, EndInv DEF Expire, history
    <2> QED BY <2>1, <2>2
  <1>6. CASE Submit(r)
    <2> USE <1>6 DEF Submit, agents
    <2>1. CASE Gate(r) = "allow" /\ Check(r)
      <3>1. ~NeedsAnswer(r)
        BY <2>1 DEF NeedsAnswer, Gate
      <3> QED BY <2>1, <3>1, CheckInv
    <2>2. CASE ~(Gate(r) = "allow" /\ Check(r))
      <3>1. /\ run' = [run EXCEPT ![r].pc = "mode", ![r].ask = "pending"]
            /\ UNCHANGED <<tokens, credit>>
        BY <2>2
      <3>2. run' = [run EXCEPT ![r] = [@ EXCEPT !.pc = "mode", !.ask = "pending"]]
        BY <3>1, <1>t DEF RunState
      <3>3. run'[r].pc = "mode"
        BY <3>2, <1>t DEF RunState
      <3>4. OneShot' /\ AnsweredOf(r)'
        BY <3>1, <3>3, <1>t DEF OneShot, AnsweredOf
      <3> QED BY <3>1, <3>2, <3>4, <1>w, <1>t, MoveInv
    <2> QED BY <2>1, <2>2
  <1>7. CASE Approved(r)
    <2> USE <1>7 DEF Approved, agents
    <2>1. CASE run[r].pc = "mode" /\ Check(r)
      BY <2>1, CheckInv
    <2>2. CASE run[r].pc = "policy" /\ Grant(r)
      <3>1. /\ tokens' = tokens \cup {run[r].agent} /\ Goto(r, "lock")
            /\ credit' = [credit EXCEPT ![run[r].agent] = @ + 1]
        BY <2>2 DEF Grant, AgentOf
      <3>2. OneShot' /\ credit' \in [Agent -> Int]
        BY <2>2, <3>1, <1>t, <1>w DEF OneShot
      <3>3. AnsweredOf(r)'
        BY <3>1, <1>g, <1>w DEF AnsweredOf
      <3> QED BY <2>2, <3>1, <3>2, <3>3, <1>g, <1>w, <1>t, MoveInv
    <2> QED BY <2>1, <2>2
  <1>8. CASE Lock(r)
    <2>1. /\ run[r].pc = "lock" /\ Goto(r, "before")
          /\ UNCHANGED <<status, running, tokens, usage, executed, credit, resumed, unlisted>>
      BY <1>8 DEF Lock, agents, history
    <2>2. OneShot' /\ AnsweredOf(r)'
      BY <2>1, <1>g, <1>n, <1>t, <1>w DEF OneShot, AnsweredOf
    <2> QED BY <2>1, <2>2, <1>g, <1>w, <1>t, MoveInv
  <1>9. CASE Invoke(r)
    <2>1. /\ run[r].pc = "before" /\ Goto(r, "tool")
          /\ UNCHANGED <<status, running, usage, resumed, unlisted>>
      BY <1>9 DEF Invoke, agents
    <2>2. executed' \in Nat
      BY <1>9, <1>t DEF Invoke
    <2>3. CASE r \in PolicyAsks
      <3>1. /\ run[r].agent \in tokens /\ tokens' = tokens \ {run[r].agent}
            /\ credit' = [credit EXCEPT ![run[r].agent] = @ - 1]
        BY <1>9, <2>3 DEF Invoke, MayInvoke, Spend, AgentOf
      <3>2. OneShot' /\ credit' \in [Agent -> Int]
        BY <3>1, <1>t DEF OneShot
      <3>3. AnsweredOf(r)'
        BY <2>1, <3>1, <1>g, <1>n, <1>t, <1>w DEF AnsweredOf
      <3> QED BY <2>1, <2>2, <3>1, <3>2, <3>3, <1>g, <1>w, <1>t, MoveInv
    <2>4. CASE r \notin PolicyAsks
      <3>1. UNCHANGED <<tokens, credit>>
        BY <1>9, <2>4 DEF Invoke
      <3>2. OneShot' /\ AnsweredOf(r)'
        BY <2>1, <2>4, <3>1, <1>g, <1>n, <1>t, <1>w DEF OneShot, AnsweredOf
      <3> QED BY <2>1, <2>2, <3>1, <3>2, <1>g, <1>w, <1>t, MoveInv
    <2> QED BY <2>3, <2>4
  <1> QED BY <1>1, <1>2, <1>3, <1>4, <1>5, <1>6, <1>7, <1>8, <1>9 DEF Proceed

(* start_agent is left: the agent's entry in _running is popped.           *)
LEMMA LeaveInv ==
    ASSUME IInv, NEW r \in Run, Leave(r)
    PROVE  IInv'
  <1> DEFINE b == run[r].agent
  <1>1. b \in Agent /\ run[r].pc = "ended" /\ run[r] \in RunState
    BY DEF Leave, IInv, TypeOK, Linked
  <1>2. /\ run' \in [Run -> RunState] /\ run'[r].pc = "done"
        /\ \A q \in Run \ {r} : run'[q] = run[q]
    BY <1>1 DEF Leave, Goto, IInv, TypeOK, RunState
  <1>3. /\ UNCHANGED <<status, tokens, usage, executed, credit, resumed>>
        /\ running' \in [Agent -> Run \cup {None}] /\ running'[b] = None
        /\ \A a \in Agent \ {b} : running'[a] = running[a]
        /\ unlisted \subseteq unlisted' /\ unlisted' \in SUBSET Agent
    BY <1>1 DEF Leave, AgentOf, IInv, TypeOK
  <1>4. TypeOK' /\ OneShot'
    BY <1>2, <1>3 DEF IInv, TypeOK, OneShot
  <1>5. Linked'
    <2>1. \A a \in Agent : running'[a] # None =>
              a # b /\ running[a] \in Run \ {r} /\ running'[a] = running[a]
      BY <1>1, <1>3 DEF IInv, TypeOK, Linked
    <2>2. \A q \in Run : run'[q].pc \in Waits \cup {"ended"} => run'[q] = run[q]
      BY <1>2 DEF Waits
    <2>3. \A a \in Agent : running'[a] # None =>
            /\ run[running[a]].pc \in Waits \cup {"ended"} /\ run[running[a]].agent = a
            /\ run'[running[a]] = run[running[a]] /\ running'[a] = running[a]
      BY <1>2, <2>1 DEF IInv, Linked
    <2>4. \A q \in Run : run'[q].pc \in Waits \cup {"ended"} => run'[q].agent \in Agent
      BY <2>2 DEF IInv, Linked
    <2> QED BY <2>3, <2>4 DEF Linked
  <1>6. ASSUME NEW q \in Run PROVE SoleOf(q)'
    <2> SUFFICES ASSUME run'[q].pc \in Waits, run'[q].agent \notin resumed
                 PROVE  SoleOf(q)'
      BY <1>3 DEF SoleOf
    <2>1. q # r /\ run'[q] = run[q] /\ SoleOf(q) /\ run[q].agent \in Agent
      BY <1>2 DEF Waits, IInv, Sole, Linked
    <2>2. \A p \in Run : run'[p].pc \in Waits => p # r /\ run'[p] = run[p]
      BY <1>2 DEF Waits
    <2>3. CASE run[q].agent # b
      BY <1>3, <2>1, <2>2, <2>3 DEF SoleOf
    <2>4. CASE run[q].agent = b
      <3>1. running[b] = q /\ ~run[q].cancelled => b \in unlisted'
        <4>1. q \in Open(AgentOf(r))
          BY <2>1, <2>4 DEF Open, AgentOf
        <4> QED BY <4>1 DEF Leave, AgentOf
      <3> QED BY <1>3, <2>1, <2>2, <2>4, <3>1 DEF SoleOf
    <2> QED BY <2>3, <2>4
  <1>7. Answered'
    <2> SUFFICES ASSUME NEW q \in Run PROVE AnsweredOf(q)'
      BY DEF Answered
    <2>1. NeedsAnswer(q)' <=> NeedsAnswer(q)
      BY DEF NeedsAnswer, Governed, TaskId, NodeId
    <2>2. AnsweredOf(q)
      BY DEF IInv, Answered
    <2> QED BY <1>2, <1>3, <2>1, <2>2 DEF AnsweredOf
  <1> QED BY <1>4, <1>5, <1>6, <1>7 DEF IInv, Sole

LEMMA StepInv ==
    ASSUME IInv, NEW r \in Run, Step(r)
    PROVE  IInv'
  <1>1. CASE Cancelled(r)
    <2>1. UsageOK' /\ "terminated" \in AgentStatus
      BY <1>1 DEF Cancelled, UsageOK, IInv, TypeOK, AgentStatus
    <2> QED BY <1>1, <2>1, EndInv DEF Cancelled, history
  <1> QED BY <1>1, ProceedInv, LeaveInv DEF Step

-----------------------------------------------------------------------------
(* The other steps: a run begins, its agent is managed, a person decides.  *)
LEMMA StartInv ==
    ASSUME IInv, NEW r \in Run, Start(r)
    PROVE  IInv'
  <1>1. PICK a \in Eligible :
            /\ run[r].pc = "idle"
            /\ run' = [run EXCEPT ![r].pc = "decide", ![r].agent = a]
            /\ status' = [status EXCEPT ![a] = "running"]
            /\ running' = [running EXCEPT ![a] = r]
            /\ UNCHANGED <<tokens, usage, history>>
    BY DEF Start
  <1>2. a \in Agent /\ status[a] \in {"ready", "completed"}
    BY DEF Eligible
  <1>3. /\ run' = [run EXCEPT ![r] = [@ EXCEPT !.pc = "decide", !.agent = a]]
        /\ run[r] \in RunState
    BY <1>1 DEF IInv, TypeOK, RunState
  <1>4. /\ run' \in [Run -> RunState]
        /\ \A q \in Run \ {r} : run'[q] = run[q]
        /\ run'[r].pc = "decide" /\ run'[r].agent = a
    BY <1>2, <1>3 DEF IInv, TypeOK, RunState, Waits
  <1>5. /\ status' \in [Agent -> AgentStatus] /\ running' \in [Agent -> Run \cup {None}]
        /\ status'[a] = "running" /\ running'[a] = r
        /\ \A b \in Agent \ {a} : status'[b] = status[b] /\ running'[b] = running[b]
    BY <1>1, <1>2 DEF IInv, TypeOK, AgentStatus
  <1>6. TypeOK' /\ OneShot'
    BY <1>1, <1>4, <1>5 DEF IInv, TypeOK, OneShot, history
  <1>7. Linked'
    <2>1. \A q \in Run : run'[q].pc \in Waits \cup {"ended"} => run'[q].agent \in Agent
      BY <1>2, <1>4 DEF IInv, Linked
    <2>2. ASSUME NEW b \in Agent, running'[b] # None
          PROVE  run'[running'[b]].pc \in Waits \cup {"ended"} /\ run'[running'[b]].agent = b
      <3>1. CASE b = a
        BY <3>1, <1>4, <1>5 DEF Waits
      <3>2. CASE b # a
        <4>1. running'[b] = running[b] /\ running[b] \in Run
          BY <2>2, <3>2, <1>5 DEF IInv, TypeOK
        <4>2. run[running[b]].pc \in Waits \cup {"ended"} /\ run[running[b]].agent = b
          BY <2>2, <4>1 DEF IInv, Linked
        <4>3. running[b] # r
          BY <4>2, <1>1 DEF Waits
        <4> QED BY <4>1, <4>2, <4>3, <1>4
      <3> QED BY <3>1, <3>2
    <2> QED BY <2>1, <2>2 DEF Linked
  <1>8. ASSUME NEW q \in Run PROVE SoleOf(q)'
    <2>1. \A p \in Run \ {r} : run[p].pc \in Waits /\ run[p].agent \notin resumed
                                => run[p].agent \in Agent \ {a}
      BY <1>2 DEF IInv, Sole, SoleOf, Linked
    <2>u. UNCHANGED <<resumed, unlisted>>
      BY <1>1 DEF history
    <2>2. CASE q = r
      BY <1>4, <1>5, <2>1, <2>u, <2>2 DEF SoleOf
    <2>3. CASE q # r
      <3>1. SoleOf(q) /\ run'[q] = run[q]
        BY <1>4, <2>3 DEF IInv, Sole
      <3> QED BY <1>4, <1>5, <2>1, <2>u, <2>3, <3>1 DEF SoleOf
    <2> QED BY <2>2, <2>3
  <1>9. Answered'
    <2> SUFFICES ASSUME NEW q \in Run PROVE AnsweredOf(q)'
      BY DEF Answered
    <2>1. NeedsAnswer(q)' <=> NeedsAnswer(q)
      BY DEF NeedsAnswer, Governed, TaskId, NodeId
    <2> QED BY <1>1, <1>4, <2>1 DEF IInv, Answered, AnsweredOf, history
  <1> QED BY <1>6, <1>7, <1>8, <1>9 DEF IInv, Sole

LEMMA PauseInv ==
    ASSUME IInv, NEW a \in Agent, Pause(a)
    PROVE  IInv'
  <1> USE DEF Pause, history
  <1>1. TypeOK' /\ OneShot'
    BY DEF IInv, TypeOK, OneShot, AgentStatus
  <1>2. Linked' /\ Sole'
    <2>1. status'[a] = "paused" /\ \A b \in Agent \ {a} : status'[b] = status[b]
      BY DEF IInv, TypeOK
    <2>2. ASSUME NEW q \in Run PROVE SoleOf(q)'
      BY <2>1 DEF IInv, Linked, Sole, SoleOf
    <2> QED BY <2>2 DEF IInv, Linked, Sole
  <1>3. Answered'
    BY DEF IInv, Answered, AnsweredOf, NeedsAnswer, Governed, TaskId, NodeId
  <1> QED BY <1>1, <1>2, <1>3 DEF IInv

LEMMA ResumeInv ==
    ASSUME IInv, NEW a \in Agent, Resume(a)
    PROVE  IInv'
  <1> USE DEF Resume
  <1>1. resumed' \in SUBSET Agent /\ resumed \subseteq resumed'
    BY DEF IInv, TypeOK
  <1>2. \A q \in Run : run[q].pc \in Waits /\ run[q].agent = a => a \in resumed'
    BY DEF Open, AgentOf
  <1>3. TypeOK' /\ OneShot'
    BY <1>1 DEF IInv, TypeOK, OneShot, AgentStatus
  <1>4. Linked' /\ Sole'
    <2>1. \A b \in Agent \ {a} : status'[b] = status[b]
      BY DEF IInv, TypeOK
    <2>2. ASSUME NEW q \in Run PROVE SoleOf(q)'
      BY <1>1, <1>2, <2>1 DEF IInv, Linked, Sole, SoleOf
    <2> QED BY <2>2 DEF IInv, Linked, Sole
  <1>5. Answered'
    BY <1>1 DEF IInv, Answered, AnsweredOf, NeedsAnswer, Governed, TaskId, NodeId
  <1> QED BY <1>3, <1>4, <1>5 DEF IInv

LEMMA DecideInv ==
    ASSUME IInv, NEW r \in Run, NEW d \in {"approved", "denied"}, Decide(r, d)
    PROVE  IInv'
  <1> USE DEF Decide, agents, history
  <1>1. /\ run[r] \in RunState
        /\ run' = [run EXCEPT ![r] = [@ EXCEPT !.ask = d]]
    BY DEF IInv, TypeOK, RunState
  <1>2. /\ run' \in [Run -> RunState]
        /\ \A q \in Run \ {r} : run'[q] = run[q]
        /\ run'[r].pc = run[r].pc /\ run'[r].agent = run[r].agent
        /\ run'[r].cancelled = run[r].cancelled
    BY <1>1 DEF IInv, TypeOK, RunState, Asked
  <1>3. TypeOK' /\ OneShot'
    BY <1>2 DEF IInv, TypeOK, OneShot
  <1>4. Linked' /\ Sole'
    <2>1. \A q \in Run : run'[q].pc = run[q].pc /\ run'[q].agent = run[q].agent
                        /\ run'[q].cancelled = run[q].cancelled
      BY <1>2
    <2>2. Linked'
      BY <2>1 DEF IInv, TypeOK, Linked
    <2>3. ASSUME NEW q \in Run PROVE SoleOf(q)'
      <3>1. SoleOf(q)
        BY DEF IInv, Sole
      <3> QED BY <2>1, <3>1 DEF SoleOf
    <2> QED BY <2>2, <2>3 DEF Sole
  <1>5. Answered'
    <2> SUFFICES ASSUME NEW q \in Run PROVE AnsweredOf(q)'
      BY DEF Answered
    <2>1. NeedsAnswer(q)' <=> NeedsAnswer(q)
      BY DEF NeedsAnswer, Governed, TaskId, NodeId
    <2>2. AnsweredOf(q)
      BY DEF IInv, Answered
    <2>3. CASE q # r
      BY <1>2, <2>1, <2>2, <2>3 DEF AnsweredOf
    <2>4. CASE q = r
      BY <1>2, <2>1, <2>2, <2>4 DEF AnsweredOf
    <2> QED BY <2>3, <2>4
  <1> QED BY <1>3, <1>4, <1>5 DEF IInv

LEMMA TerminateInv ==
    ASSUME IInv, NEW a \in Agent, Terminate(a)
    PROVE  IInv'
  <1>1. /\ status' = [status EXCEPT ![a] = "terminated"]
        /\ UNCHANGED <<running, tokens, usage, executed, credit, resumed, unlisted>>
    BY DEF Terminate, history
  <1>2. ASSUME NEW q \in Run
        PROVE  /\ run'[q] \in RunState /\ run'[q].pc = run[q].pc
               /\ run'[q].agent = run[q].agent /\ run'[q].ask = run[q].ask
               /\ run'[q].cancelled = (run[q].cancelled \/ (running[a] = q /\ q \in Open(a)))
    <2>1. run[q] \in RunState
      BY DEF IInv, TypeOK
    <2>2. run'[q] = [run[q] EXCEPT !.cancelled = @ \/ (running[a] = q /\ q \in Open(a))]
      BY DEF Terminate
    <2>3. (run[q].cancelled \/ (running[a] = q /\ q \in Open(a))) \in BOOLEAN
      BY <2>1 DEF RunState
    <2> QED BY <2>1, <2>2, <2>3 DEF RunState
  <1>3. run' \in [Run -> RunState]
    <2>1. run' = [q \in Run |-> [run[q] EXCEPT !.cancelled = @ \/ (running[a] = q /\ q \in Open(a))]]
      BY DEF Terminate
    <2>2. run' = [q \in Run |-> run'[q]]
      BY <2>1
    <2> QED BY <1>2, <2>2
  <1>4. TypeOK' /\ OneShot'
    BY <1>1, <1>3 DEF IInv, TypeOK, OneShot, AgentStatus
  <1>5. Linked'
    BY <1>1, <1>2 DEF IInv, TypeOK, Linked
  <1>6. ASSUME NEW q \in Run PROVE SoleOf(q)'
    <2> SUFFICES ASSUME run[q].pc \in Waits, run[q].agent \notin resumed
                 PROVE  SoleOf(q)'
      BY <1>1, <1>2 DEF SoleOf
    <2>1. SoleOf(q) /\ status \in [Agent -> AgentStatus] /\ run[q].agent \in Agent
      BY DEF IInv, Sole, TypeOK, Linked
    <2>2. CASE run[q].agent = a
      <3>1. q \in Open(a)
        BY <2>2 DEF Open, AgentOf
      <3>2. status'[a] = "terminated" /\ (running[a] = q => run'[q].cancelled)
        BY <1>1, <1>2, <2>1, <2>2, <3>1
      <3> QED BY <1>1, <1>2, <2>1, <2>2, <3>2 DEF SoleOf
    <2>3. CASE run[q].agent # a
      <3>1. status'[run[q].agent] = status[run[q].agent]
        BY <1>1, <2>1, <2>3
      <3>2. q \notin Open(a)
        BY <2>3 DEF Open, AgentOf
      <3>3. run'[q].cancelled = run[q].cancelled
        <4>1. run[q] \in RunState
          BY DEF IInv, TypeOK
        <4>2. run[q].cancelled \in BOOLEAN
          BY <4>1 DEF RunState
        <4> QED BY <1>2, <3>2, <4>2
      <3> QED BY <1>1, <1>2, <2>1, <3>1, <3>3 DEF SoleOf
    <2> QED BY <2>2, <2>3
  <1>7. ASSUME NEW q \in Run PROVE AnsweredOf(q)'
    <2>1. NeedsAnswer(q)' <=> NeedsAnswer(q)
      BY DEF NeedsAnswer, Governed, TaskId, NodeId
    <2>2. AnsweredOf(q)
      BY DEF IInv, Answered
    <2> QED BY <1>1, <1>2, <2>1, <2>2 DEF AnsweredOf
  <1> QED BY <1>4, <1>5, <1>6, <1>7 DEF IInv, Sole, Answered

LEMMA NextInv == IInv /\ [Next]_vars => IInv'
  <1> SUFFICES ASSUME IInv, [Next]_vars PROVE IInv'
    OBVIOUS
  <1>1. ASSUME NEW r \in Run, Start(r) \/ Step(r) PROVE IInv'
    BY <1>1, StartInv, StepInv
  <1>2. ASSUME NEW r \in Run, NEW d \in {"approved", "denied"}, Decide(r, d) PROVE IInv'
    BY <1>2, DecideInv
  <1>3. ASSUME NEW a \in Agent, Pause(a) \/ Resume(a) \/ Terminate(a) PROVE IInv'
    BY <1>3, PauseInv, ResumeInv, TerminateInv
  <1>4. CASE UNCHANGED vars
    BY <1>4 DEF vars, IInv, TypeOK, Linked, Sole, SoleOf, Answered, AnsweredOf, OneShot,
                NeedsAnswer, Governed, TaskId, NodeId
  <1> QED BY <1>1, <1>2, <1>3, <1>4 DEF Next

LEMMA InvHolds == Spec => []IInv
  BY InitInv, NextInv, PTL DEF Spec

-----------------------------------------------------------------------------
(* Runs, agents, budgets, approvals and grants keep their types; a run     *)
(* never makes a step beyond its step and failure budgets.                 *)
THEOREM TypeCorrect == Spec => []TypeOK
  <1>1. IInv => TypeOK
    BY DEF IInv
  <1> QED BY <1>1, InvHolds, PTL

(* While an agent has one run, a tool that needs an approval executes only *)
(* after the approval of this very action (executor.py perform).           *)
THEOREM OwnApprovalHolds == Spec => []OwnApproval
  <1>1. IInv => OwnApproval
    BY DEF IInv, Answered, AnsweredOf, OwnApproval, NeedsAnswer, AgentOf
  <1> QED BY <1>1, InvHolds, PTL

(* An agent never makes more tool calls than it was approved for, whatever *)
(* runs of it overlap (permissions.py approve_once, check).                *)
THEOREM OneShotHolds == Spec => []OneShot
  <1>1. IInv => OneShot
    BY DEF IInv
  <1> QED BY <1>1, InvHolds, PTL

(* An agent has one open run, unless it was resumed while one was open     *)
(* (registry.py find, manager.py resume_agent).                            *)
THEOREM OneRunHolds == Spec => []OneRun
  <1>1. IInv => OneRun
    BY DEF IInv, Sole, SoleOf, OneRun, Open, AgentOf
  <1> QED BY <1>1, InvHolds, PTL

(* A termination is final while one run at most was open and registered;   *)
(* else a run that outlived it can make the agent failed, no more          *)
(* (manager.py start_agent, terminate_agent, _run).                        *)
THEOREM TerminatedIsFinalHolds == Spec => TerminatedIsFinal
  <1> DEFINE Final == \A a \in Agent : status[a] = "terminated" =>
                \/ status'[a] = "terminated"
                \/ status'[a] = "failed" /\ a \in resumed \cup unlisted
  <1>1. ASSUME IInv, [Next]_vars PROVE Final
    <2> SUFFICES ASSUME NEW a \in Agent, status[a] = "terminated", status'[a] # "terminated"
                 PROVE  status'[a] = "failed" /\ a \in resumed \cup unlisted
      OBVIOUS
    <2>t. status \in [Agent -> AgentStatus]
      BY <1>1 DEF IInv, TypeOK
    <2>1. ASSUME NEW r \in Run, NEW s, run[r].pc \in Waits, ~run[r].cancelled, End(r, s),
                 s = "failed" \/ s = AfterWork(AgentOf(r))
          PROVE  status'[a] = "failed" /\ a \in resumed \cup unlisted
      <3>1. AgentOf(r) = a /\ status'[a] = s
        BY <2>1, <2>t DEF End
      <3>2. a \in resumed \cup unlisted
        BY <1>1, <2>1, <3>1 DEF IInv, Sole, SoleOf, AgentOf
      <3>3. s = "failed"
        BY <2>1, <3>1 DEF AfterWork
      <3> QED BY <3>1, <3>2, <3>3
    <2>2. ASSUME NEW r \in Run, Proceed(r)
          PROVE  status'[a] = "failed" /\ a \in resumed \cup unlisted
      <3>1. UNCHANGED status \/ \E s : run[r].pc \in Waits /\ End(r, s)
                                       /\ (s = "failed" \/ s = AfterWork(AgentOf(r)))
        <4>1. ASSUME NEW ok, Record(r, ok)
              PROVE  UNCHANGED status \/ End(r, "failed")
          BY <4>1 DEF Record, agents
        <4>2. CASE Stop(r) \/ DeciderRaises(r)
          BY <4>2 DEF Stop, DeciderRaises, Waits
        <4>3. CASE Reject(r) \/ Denied(r) \/ LockTimesOut(r) \/ InvokeFails(r) \/ ToolReturns(r)
          BY <4>1, <4>3 DEF Reject, Denied, LockTimesOut, InvokeFails, ToolReturns, Waits
        <4>4. CASE Expire(r)
          BY <4>1, <4>4 DEF Expire, Waits
        <4>5. CASE Submit(r) \/ Approved(r) \/ Lock(r) \/ Invoke(r)
          BY <4>5 DEF Submit, Approved, Lock, Invoke, agents
        <4> QED BY <2>2, <4>2, <4>3, <4>4, <4>5 DEF Proceed
      <3>2. ~run[r].cancelled
        BY <2>2 DEF Proceed
      <3> QED BY <3>1, <3>2, <2>1
    <2>l. ASSUME NEW r \in Run, Cancelled(r) \/ Leave(r) PROVE FALSE
      BY <2>l, <2>t DEF Cancelled, Leave, End
    <2>3. ASSUME NEW r \in Run, Start(r) PROVE FALSE
      BY <2>3, <2>t DEF Start, Eligible
    <2>4. ASSUME NEW r \in Run, NEW d, Decide(r, d) PROVE FALSE
      BY <2>4 DEF Decide, agents
    <2>5. ASSUME NEW b \in Agent, Pause(b) \/ Resume(b) PROVE FALSE
      BY <2>5, <2>t DEF Pause, Resume
    <2>6. ASSUME NEW b \in Agent, Terminate(b) PROVE FALSE
      BY <2>6, <2>t DEF Terminate
    <2>7. CASE UNCHANGED vars
      BY <2>7 DEF vars
    <2> QED BY <1>1, <2>2, <2>l, <2>3, <2>4, <2>5, <2>6, <2>7 DEF Next, Step
  <1>2. IInv /\ [Next]_vars => [Final]_vars
    BY <1>1
  <1> QED BY <1>2, InvHolds, PTL DEF Spec, TerminatedIsFinal

-----------------------------------------------------------------------------
(* How far the missions' budget of actions can be exceeded, for any number *)
(* of runs under contract.                                                 *)
(*                                                                         *)
(* An action that is past the gate is in flight until its tool is called;  *)
(* then it is spent, until it is counted or its run is over.  The          *)
(* inductive invariant, beside the one above: the actions executed and     *)
(* those in flight together keep within the bound, and those executed but  *)
(* not yet counted are spent.                                              *)

At(P) == {r \in Contracted : run[r].pc \in P}
Flying == At({"mode", "policy", "lock", "before"})
Spent == At({"tool", "ended", "done"})

Bound == ActionBudget + Cardinality(Contracted) - 1

BudgetInv ==
    /\ executed <= usage.actions + Cardinality(Spent)
    /\ Contracted # {} => executed + Cardinality(Flying) <= Bound

-----------------------------------------------------------------------------
LEMMA ContractedIsFinite == IsFiniteSet(Contracted) /\ Cardinality(Contracted) \in Nat
BY RunAssumption, FS_Subset, FS_CardinalityType

(* Any two parts of the contracted runs that are apart.                    *)
LEMMA Parts ==
    ASSUME NEW S \in SUBSET Contracted, NEW T \in SUBSET Contracted, S \cap T = {}
    PROVE  /\ IsFiniteSet(S) /\ Cardinality(S) \in Nat
           /\ Cardinality(S) + Cardinality(T) <= Cardinality(Contracted)
<1>1. IsFiniteSet(S) /\ IsFiniteSet(T) /\ IsFiniteSet(S \cup T)
    BY ContractedIsFinite, FS_Subset
<1>2. /\ Cardinality(S) \in Nat /\ Cardinality(T) \in Nat
      /\ Cardinality(S \cup T) <= Cardinality(Contracted)
    BY <1>1, ContractedIsFinite, FS_Subset, FS_CardinalityType
<1>3. Cardinality(S \cup T) = Cardinality(S) + Cardinality(T) - Cardinality(S \cap T)
    BY <1>1, FS_Union
<1>4. Cardinality(S \cap T) = 0
    BY FS_EmptySet
<1> QED BY <1>1, <1>2, <1>3, <1>4

LEMMA Counts ==
    /\ IsFiniteSet(Flying) /\ IsFiniteSet(Spent)
    /\ Cardinality(Flying) \in Nat /\ Cardinality(Spent) \in Nat
    /\ Cardinality(Flying) + Cardinality(Spent) <= Cardinality(Contracted)
<1>1. Flying \in SUBSET Contracted /\ Spent \in SUBSET Contracted /\ Flying \cap Spent = {}
    BY DEF Flying, Spent, At
<1> QED BY <1>1, Parts

LEMMA CountsAfter ==
    /\ IsFiniteSet(Flying') /\ IsFiniteSet(Spent')
    /\ Cardinality(Flying') \in Nat /\ Cardinality(Spent') \in Nat
    /\ Cardinality(Flying') + Cardinality(Spent') <= Cardinality(Contracted)
<1>1. Flying' \in SUBSET Contracted /\ Spent' \in SUBSET Contracted /\ Flying' \cap Spent' = {}
    BY DEF Flying, Spent, At
<1> QED BY <1>1, Parts

-----------------------------------------------------------------------------
(* A step that calls no tool and takes no action past the gate.            *)
LEMMA Landing ==
    ASSUME IInv, UsageOK', BudgetInv, executed' = executed, Flying' \subseteq Flying,
           \/ Spent \subseteq Spent' /\ usage'.actions >= usage.actions
           \/ \E r \in Run : Spent' = Spent \ {r} /\ usage'.actions = usage.actions + 1
    PROVE  BudgetInv'
<1>t. executed \in Nat /\ usage.actions \in Nat /\ usage'.actions \in Nat
    BY DEF IInv, TypeOK, UsageOK
<1>b. Bound' = Bound
    BY DEF Bound
<1>1. Cardinality(Flying') <= Cardinality(Flying)
    BY Counts, FS_Subset
<1>2. executed' <= usage'.actions + Cardinality(Spent')
    <2>1. CASE Spent \subseteq Spent' /\ usage'.actions >= usage.actions
        <3>1. Cardinality(Spent) <= Cardinality(Spent')
            BY <2>1, CountsAfter, FS_Subset
        <3> QED BY <2>1, <3>1, <1>t, Counts, CountsAfter DEF BudgetInv
    <2>2. ASSUME NEW r \in Run, Spent' = Spent \ {r}, usage'.actions = usage.actions + 1
          PROVE  executed' <= usage'.actions + Cardinality(Spent')
        <3>1. Cardinality(Spent') >= Cardinality(Spent) - 1
            BY <2>2, Counts, FS_RemoveElement
        <3> QED BY <2>2, <3>1, <1>t, Counts, CountsAfter DEF BudgetInv
    <2> QED BY <2>1, <2>2
<1>3. Contracted # {} => executed' + Cardinality(Flying') <= Bound
    <2>1. Bound \in Int
        BY ContractedIsFinite, BoundAssumption DEF Bound
    <2> QED BY <2>1, <1>1, <1>t, Counts, CountsAfter DEF BudgetInv
<1> QED BY <1>b, <1>2, <1>3 DEF BudgetInv

(* An action passes the gate.                                              *)
LEMMA Launch ==
    ASSUME IInv, BudgetInv, NEW r \in Run, UNCHANGED <<executed, usage>>,
           usage.actions < ActionBudget, Flying' = Flying \cup {r}, Spent' = Spent
    PROVE  BudgetInv'
<1>t. executed \in Nat /\ usage.actions \in Nat /\ Bound' = Bound
    BY DEF IInv, TypeOK, Bound
<1>1. executed + Cardinality(Flying') <= Bound
    BY <1>t, CountsAfter, ContractedIsFinite, BoundAssumption DEF BudgetInv, Bound
<1> QED BY <1>t, <1>1 DEF BudgetInv

(* Its tool is called.                                                     *)
LEMMA Firing ==
    ASSUME IInv, BudgetInv, NEW r \in Run, usage' = usage, executed' = executed + 1,
           r \in Flying, r \notin Spent, Flying' = Flying \ {r}, Spent' = Spent \cup {r}
    PROVE  BudgetInv'
<1>t. executed \in Nat /\ usage.actions \in Nat /\ Bound' = Bound
    BY DEF IInv, TypeOK, Bound
<1>1. Cardinality(Flying') = Cardinality(Flying) - 1 /\ Cardinality(Spent') = Cardinality(Spent) + 1
    BY Counts, FS_RemoveElement, FS_AddElement
<1>2. Bound \in Int
    BY ContractedIsFinite, BoundAssumption DEF Bound
<1> QED BY <1>t, <1>1, <1>2, Counts DEF BudgetInv

-----------------------------------------------------------------------------
(* The steps of a run.                                                     *)

LEMMA ContractedAreGoverned ==
    ASSUME ~ThroughGraph, NEW r \in Contracted
    PROVE  Governed(r)
BY DEF Governed, TaskId

LEMMA ThroughGraphNoneIsGoverned ==
    ASSUME ThroughGraph, NEW r \in Run
    PROVE  ~Governed(r)
<1>1. ASSUME NEW q PROVE TaskId(r) # NodeId(q)
    <2>1. Len(<<MissionId>> \o <<MissionId, r>>) = 3 /\ Len(<<MissionId, q>>) = 2
        OBVIOUS
    <2> QED BY <2>1 DEF TaskId, NodeId
<1> QED BY <1>1 DEF Governed

LEMMA EndLands ==
    ASSUME IInv, BudgetInv, NEW r \in Run, NEW s, run[r].pc \in Waits, End(r, s),
           UNCHANGED <<executed, usage>>
    PROVE  BudgetInv'
<1>1. UsageOK' /\ usage'.actions >= usage.actions
    BY DEF IInv, TypeOK, UsageOK
<1>2. /\ run'[r].pc = "ended" /\ \A q \in Run \ {r} : run'[q] = run[q]
    BY DEF End, IInv, TypeOK, RunState
<1>3. Flying' \subseteq Flying /\ Spent \subseteq Spent'
    BY <1>2, RunAssumption DEF Flying, Spent, At
<1> QED BY <1>1, <1>3, Landing

LEMMA RecordLands ==
    ASSUME IInv, BudgetInv, ~ThroughGraph, NEW r \in Run, NEW ok \in BOOLEAN,
           run[r].pc \in Waits, Record(r, ok), executed' = executed
    PROVE  BudgetInv'
<1>u. UsageOK' /\ usage'.actions >= usage.actions
    BY DEF Record, Counted, UsageOK, IInv, TypeOK
<1>c. r \in Contracted => usage'.actions = usage.actions + 1
    BY ContractedAreGoverned DEF Record, Counted
<1>1. /\ run'[r].pc \in {"decide", "ended"} /\ \A q \in Run \ {r} : run'[q] = run[q]
    <2>1. run \in [Run -> RunState] /\ run[r] \in RunState
        BY DEF IInv, TypeOK
    <2>2. CASE End(r, "failed")
        BY <2>1, <2>2 DEF End, RunState
    <2>3. ASSUME NEW n, NEW f,
                 run' = [run EXCEPT ![r] = [@ EXCEPT !.pc = "decide", !.ask = "none",
                                                     !.steps = n, !.failures = f]]
          PROVE  run'[r].pc = "decide" /\ \A q \in Run \ {r} : run'[q] = run[q]
        BY <2>1, <2>3 DEF RunState
    <2> QED BY <2>2, <2>3 DEF Record
<1>2. Flying' \subseteq Flying
    BY <1>1, RunAssumption DEF Flying, At
<1>3. CASE r \in Contracted /\ run[r].pc = "tool" /\ run'[r].pc = "decide"
    <2>1. Spent' = Spent \ {r}
        BY <1>1, <1>3, RunAssumption DEF Spent, At
    <2> QED BY <1>u, <1>c, <1>2, <1>3, <2>1, Landing
<1>4. CASE ~(r \in Contracted /\ run[r].pc = "tool" /\ run'[r].pc = "decide")
    <2>1. Spent \subseteq Spent'
        BY <1>1, <1>4, RunAssumption DEF Spent, At, Waits
    <2> QED BY <1>u, <1>2, <2>1, Landing
<1> QED BY <1>3, <1>4

(* Approvals and the lock move an action within the flight.                *)
LEMMA FlightGoesOn ==
    ASSUME IInv, BudgetInv, NEW r \in Run, UNCHANGED <<executed, usage>>,
           \A q \in Run \ {r} : run'[q] = run[q],
           \/ run[r].pc = run'[r].pc
           \/ run[r].pc \in {"mode", "policy", "lock"} /\ run'[r].pc \in {"policy", "lock", "before"}
           \/ run[r].pc = "idle" /\ run'[r].pc = "decide"
           \/ run[r].pc = "ended" /\ run'[r].pc = "done"
           \/ r \notin Contracted
    PROVE  BudgetInv'
<1>1. Flying' = Flying /\ Spent' = Spent
    BY RunAssumption DEF Flying, Spent, At
<1>2. Bound' = Bound
    BY DEF Bound
<1> QED BY <1>1, <1>2 DEF BudgetInv

LEMMA ProceedKeepsBudget ==
    ASSUME IInv, BudgetInv, ~ThroughGraph, NEW r \in Run, Proceed(r)
    PROVE  BudgetInv'
<1>t. run \in [Run -> RunState] /\ run[r] \in RunState
    BY DEF IInv, TypeOK
<1>1. CASE Stop(r) \/ DeciderRaises(r)
    BY <1>1, EndLands DEF Stop, DeciderRaises, Waits, history
<1>2. CASE Reject(r) \/ Denied(r) \/ LockTimesOut(r) \/ InvokeFails(r) \/ ToolReturns(r)
    <2>1. \E ok \in BOOLEAN : run[r].pc \in Waits /\ Record(r, ok) /\ executed' = executed
        BY <1>2 DEF Reject, Denied, LockTimesOut, InvokeFails, ToolReturns, Waits, history
    <2> QED BY <2>1, RecordLands
<1>3. CASE Expire(r)
    <2>1. run[r].pc \in Waits /\ executed' = executed
        BY <1>3 DEF Expire, Waits, history
    <2>2. CASE Record(r, FALSE)
        BY <2>1, <2>2, RecordLands
    <2>3. CASE End(r, "failed") /\ UNCHANGED usage
        BY <2>1, <2>3, EndLands
    <2> QED BY <1>3, <2>2, <2>3 DEF Expire
<1>4. CASE Submit(r)
    <2>1. UNCHANGED <<executed, usage>> /\ run[r].pc = "decide"
        BY <1>4 DEF Submit
    <2>2. /\ run'[r].pc \in {"mode", "policy", "lock"} /\ \A q \in Run \ {r} : run'[q] = run[q]
        BY <1>4, <1>t DEF Submit, Check, Grant, Goto, RunState
    <2>3. CASE r \in Contracted
        <3>1. usage.actions < ActionBudget
            <4>1. Governed(r)
                BY <2>3, ContractedAreGoverned
            <4>2. ~Exhausted
                BY <1>4, <4>1 DEF Submit, Gate
            <4> QED BY <4>2, BoundAssumption DEF Exhausted, IInv, TypeOK
        <3>2. Flying' = Flying \cup {r} /\ Spent' = Spent
            BY <2>1, <2>2, <2>3, RunAssumption DEF Flying, Spent, At
        <3> QED BY <2>1, <3>1, <3>2, Launch
    <2>4. CASE r \notin Contracted
        BY <2>1, <2>2, <2>4, FlightGoesOn
    <2> QED BY <2>3, <2>4
<1>5. CASE Approved(r)
    <2>1. UNCHANGED <<executed, usage>> /\ run[r].pc \in {"mode", "policy"}
        BY <1>5 DEF Approved
    <2>2. /\ run'[r].pc \in {"policy", "lock"} /\ \A q \in Run \ {r} : run'[q] = run[q]
        BY <1>5, <1>t DEF Approved, Check, Grant, Goto, RunState
    <2> QED BY <2>1, <2>2, FlightGoesOn
<1>6. CASE Lock(r)
    <2>1. /\ run[r].pc = "lock" /\ run'[r].pc = "before" /\ UNCHANGED <<executed, usage>>
          /\ \A q \in Run \ {r} : run'[q] = run[q]
        BY <1>6, <1>t DEF Lock, Goto, RunState, history
    <2> QED BY <2>1, FlightGoesOn
<1>7. CASE Invoke(r)
    <2>1. /\ run[r].pc = "before" /\ run'[r].pc = "tool" /\ usage' = usage
          /\ \A q \in Run \ {r} : run'[q] = run[q]
        BY <1>7, <1>t DEF Invoke, Goto, RunState
    <2>2. CASE r \in Contracted
        <3>1. executed' = executed + 1
            BY <1>7, <2>2 DEF Invoke
        <3>2. r \in Flying /\ r \notin Spent /\ Flying' = Flying \ {r} /\ Spent' = Spent \cup {r}
            BY <2>1, <2>2, RunAssumption DEF Flying, Spent, At
        <3> QED BY <2>1, <3>1, <3>2, Firing
    <2>3. CASE r \notin Contracted
        <3>1. executed' = executed
            BY <1>7, <2>3 DEF Invoke
        <3> QED BY <2>1, <2>3, <3>1, FlightGoesOn
    <2> QED BY <2>2, <2>3
<1> QED BY <1>1, <1>2, <1>3, <1>4, <1>5, <1>6, <1>7 DEF Proceed

LEMMA StepKeepsBudget ==
    ASSUME IInv, BudgetInv, ~ThroughGraph, NEW r \in Run, Step(r)
    PROVE  BudgetInv'
<1>1. CASE Cancelled(r)
    BY <1>1, EndLands DEF Cancelled, history
<1>2. CASE Leave(r)
    <2>1. /\ run[r].pc = "ended" /\ run'[r].pc = "done" /\ UNCHANGED <<executed, usage>>
          /\ \A q \in Run \ {r} : run'[q] = run[q]
        BY <1>2 DEF Leave, Goto, IInv, TypeOK, RunState
    <2> QED BY <2>1, FlightGoesOn
<1> QED BY <1>1, <1>2, ProceedKeepsBudget DEF Step

LEMMA NextKeepsBudget ==
    ASSUME IInv, BudgetInv, ~ThroughGraph, [Next]_vars
    PROVE  BudgetInv'
<1>t. run \in [Run -> RunState] /\ \A r \in Run : run[r] \in RunState
    BY DEF IInv, TypeOK
<1>s. ASSUME UNCHANGED <<run, executed, usage>> PROVE BudgetInv'
    BY <1>s DEF BudgetInv, Flying, Spent, At, Bound
<1>1. ASSUME NEW r \in Run, Step(r) PROVE BudgetInv'
    BY <1>1, StepKeepsBudget
<1>2. ASSUME NEW r \in Run, Start(r) PROVE BudgetInv'
    <2>1. /\ run[r].pc = "idle" /\ run'[r].pc = "decide" /\ UNCHANGED <<executed, usage>>
          /\ \A q \in Run \ {r} : run'[q] = run[q]
        BY <1>2, <1>t DEF Start, RunState, history
    <2> QED BY <2>1, FlightGoesOn
<1>3. ASSUME NEW r \in Run, NEW d \in {"approved", "denied"}, Decide(r, d) PROVE BudgetInv'
    <2>1. /\ run'[r].pc = run[r].pc /\ UNCHANGED <<executed, usage>>
          /\ \A q \in Run \ {r} : run'[q] = run[q]
        BY <1>3, <1>t DEF Decide, RunState, history
    <2> QED BY <2>1, FlightGoesOn
<1>4. ASSUME NEW a \in Agent, Pause(a) \/ Resume(a) PROVE BudgetInv'
    BY <1>4, <1>s DEF Pause, Resume, history
<1>5. ASSUME NEW a \in Agent, Terminate(a) PROVE BudgetInv'
    <2>1. /\ \A r \in Run : run'[r].pc = run[r].pc
          /\ UNCHANGED <<executed, usage>>
        BY <1>5, <1>t DEF Terminate, RunState, history
    <2>2. Flying' = Flying /\ Spent' = Spent
        BY <2>1, RunAssumption DEF Flying, Spent, At
    <2> QED BY <2>1, <2>2 DEF BudgetInv, Bound
<1>6. CASE UNCHANGED vars
    BY <1>6, <1>s DEF vars
<1> QED BY <1>1, <1>2, <1>3, <1>4, <1>5, <1>6 DEF Next

LEMMA BudgetInitially == Init => BudgetInv
<1> SUFFICES ASSUME Init PROVE BudgetInv
    OBVIOUS
<1>1. Flying = {} /\ Spent = {}
    BY RunAssumption DEF Init, Flying, Spent, At
<1>2. Cardinality(Flying) = 0 /\ Cardinality(Spent) = 0
    BY <1>1, FS_EmptySet
<1>3. executed = 0 /\ usage.actions = 0
    BY DEF Init
<1>4. Cardinality(Contracted) \in Nat
    BY ContractedIsFinite
<1> QED BY <1>2, <1>3, <1>4, BoundAssumption DEF BudgetInv, Bound

(* Whichever way a mission is executed.  Through run_graph, as in          *)
(* production, the governor never recognises a node of its mission: it     *)
(* neither denies nor counts one of its actions, and no budget bounds them *)
(* (run governor_gate).  Were the nodes recognised, the runs in flight     *)
(* would exceed the budget by at most one action each but one (governor.py *)
(* evaluate, record; task_engine.py execute_node).                         *)
THEOREM BudgetByWiring ==
    Spec => [](IF ThroughGraph THEN Unaccounted ELSE BudgetBounded)
<1>1. CASE ThroughGraph
    <2>g. \A r \in Run : Gate(r) = Mode /\ Gate(r)' = Mode
        BY <1>1, ThroughGraphNoneIsGoverned DEF Gate, Governed, TaskId, NodeId
    <2>1. Init => Unaccounted
        BY <2>g DEF Init, Unaccounted
    <2>2. ASSUME Unaccounted, [Next]_vars PROVE Unaccounted'
        <3>1. ASSUME NEW r \in Run, NEW ok, Record(r, ok) PROVE usage' = usage
            BY <1>1, <3>1, ThroughGraphNoneIsGoverned DEF Record, Counted
        <3>2. ASSUME NEW r \in Run, Step(r) PROVE usage' = usage
            BY <3>1, <3>2 DEF Step, Proceed, Cancelled, Leave, Stop, DeciderRaises, Reject,
                Submit, Approved, Denied, Expire, LockTimesOut, Lock, Invoke, InvokeFails,
                ToolReturns
        <3>3. usage' = usage
            BY <2>2, <3>2 DEF Next, vars, Start, Decide, Pause, Resume, Terminate
        <3> QED BY <2>2, <2>g, <3>3 DEF Unaccounted
    <2>3. Unaccounted => IF ThroughGraph THEN Unaccounted ELSE BudgetBounded
        BY <1>1
    <2> QED BY <2>1, <2>2, <2>3, PTL DEF Spec
<1>2. CASE ~ThroughGraph
    <2>1. IInv /\ BudgetInv => IF ThroughGraph THEN Unaccounted ELSE BudgetBounded
        BY <1>2, Counts, ContractedIsFinite, BoundAssumption
        DEF BudgetInv, BudgetBounded, Bound, IInv, TypeOK
    <2>2. IInv /\ BudgetInv /\ [Next]_vars => BudgetInv'
        BY <1>2, NextKeepsBudget
    <2>3. Spec => []IInv
        BY InvHolds
    <2> QED BY <2>1, <2>2, <2>3, BudgetInitially, PTL DEF Spec
<1> QED BY <1>1, <1>2
=============================================================================
