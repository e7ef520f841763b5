------------------------ MODULE EventPlatformProofs ------------------------
(***************************************************************************)
(* Proofs about the desktop event platform, for any subscribers, limits    *)
(* and readings of the detectors.                                          *)
(*                                                                         *)
(* The inductive invariant IInv has four parts.  Forwarding: whoever       *)
(* routes holds the lock, whoever waits for it is in the queue once, and a *)
(* queue is only left behind for a reason.  ActInv with ChainLink: what    *)
(* the executions have used of their retries and of the emergency stop,    *)
(* and what the limiter counts.  LogInv: the bus's numbers.  PollInv: the  *)
(* listener knows what the detector found; with it, that it takes no       *)
(* button to be dragging but the one the detector holds.                   *)
(***************************************************************************)
EXTENDS EventPlatform, SequenceTheorems, FiniteSetTheorems, TLAPS

-----------------------------------------------------------------------------
(* Queues of distinct members.                                             *)

LEMMA JoinQueue ==
    ASSUME NEW S, NEW s \in Seq(S), NEW x \in S, IsInjective(s), x \notin Range(s)
    PROVE  /\ Append(s, x) \in Seq(S) /\ Append(s, x) # <<>> /\ IsInjective(Append(s, x))
           /\ Range(Append(s, x)) = Range(s) \cup {x}
<1>1. /\ Append(s, x) \in Seq(S) /\ Append(s, x) # <<>>
      /\ DOMAIN s = 1..Len(s) /\ DOMAIN Append(s, x) = 1..(Len(s) + 1) /\ Len(s) \in Nat
      /\ \A i \in 1..Len(s) : Append(s, x)[i] = s[i]
      /\ Append(s, x)[Len(s) + 1] = x
    BY AppendProperties
<1>2. IsInjective(Append(s, x))
    BY <1>1 DEF IsInjective, Range
<1>3. Range(Append(s, x)) = Range(s) \cup {x}
    BY <1>1 DEF Range
<1> QED BY <1>1, <1>2, <1>3

LEMMA LeaveQueue ==
    ASSUME NEW S, NEW s \in Seq(S), s # <<>>, IsInjective(s)
    PROVE  /\ Head(s) \in S /\ Tail(s) \in Seq(S) /\ IsInjective(Tail(s))
           /\ Head(s) \in Range(s) /\ Range(Tail(s)) = Range(s) \ {Head(s)}
<1>1. /\ Head(s) \in S /\ Tail(s) \in Seq(S) /\ Len(s) \in Nat /\ Len(s) # 0 /\ Head(s) = s[1]
      /\ DOMAIN s = 1..Len(s) /\ DOMAIN Tail(s) = 1..(Len(s) - 1)
      /\ \A i \in 1..(Len(s) - 1) : Tail(s)[i] = s[i + 1]
    BY HeadTailProperties, EmptySeq
<1>2. IsInjective(Tail(s))
    BY <1>1 DEF IsInjective
<1>3. Head(s) \in Range(s)
    BY <1>1 DEF Range
<1>4. Range(Tail(s)) = Range(s) \ {Head(s)}
    <2>1. ASSUME NEW i \in 2..Len(s) PROVE s[i] \in Range(Tail(s)) /\ s[i] # Head(s)
        <3>1. i - 1 \in 1..(Len(s) - 1) /\ Tail(s)[i - 1] = s[i]
            BY <1>1
        <3>2. 1 \in DOMAIN s /\ i \in DOMAIN s /\ i # 1
            BY <1>1
        <3>3. s[i] # Head(s)
            BY <1>1, <3>2 DEF IsInjective
        <3> QED BY <1>1, <3>1, <3>3 DEF Range
    <2>2. ASSUME NEW i \in 1..(Len(s) - 1) PROVE Tail(s)[i] \in Range(s) \ {Head(s)}
        BY <1>1 DEF Range, IsInjective
    <2>3. \A i \in DOMAIN s : i = 1 \/ i \in 2..Len(s)
        BY <1>1
    <2> QED BY <1>1, <2>1, <2>2, <2>3 DEF Range
<1> QED BY <1>1, <1>2, <1>3, <1>4

-----------------------------------------------------------------------------
(* The routing lock.                                                       *)

Away == {"idle", "wait", "dead"}
Routing == {"check", "deliver", "acting", "stuck"}

BusInv ==
    /\ pc \in [Task -> Away \cup Routing]
    /\ lock \in Task \cup {None}
    /\ waiters \in Seq(Task) /\ IsInjective(waiters)
    /\ lock = None => waiters = <<>> /\ todo = {}
    /\ lock # None =>
        /\ pc[lock] \in Routing
        /\ pc[lock] # "stuck" => lock \notin Range(waiters)
        /\ pc[lock] = "check" => todo = {}
    /\ \A t \in Task \ {lock} : pc[t] \in Away /\ (pc[t] = "wait" <=> t \in Range(waiters))

LEMMA BusUnchanged ==
    ASSUME BusInv, UNCHANGED <<pc, lock, waiters, todo>>
    PROVE  BusInv'
BY DEF BusInv

LEMMA RouteKeeps ==
    ASSUME BusInv, NEW t \in Task, pc[t] = "idle", Route(t), todo' = todo
    PROVE  BusInv' /\ lock' # None
<1>f. t # None /\ (lock = None => todo = {} /\ waiters = <<>>)
    BY NoTaskAssumption DEF BusInv
<1>1. CASE lock = None
    <2>1. lock' = t /\ pc' = [pc EXCEPT ![t] = "check"] /\ waiters' = waiters
        BY <1>1 DEF Route
    <2>2. Range(waiters) = {} /\ lock \notin Task
        BY <1>1, <1>f, NoTaskAssumption DEF Range
    <2>3. /\ pc' \in [Task -> Away \cup Routing] /\ pc'[t] = "check"
          /\ \A u \in Task \ {t} : pc'[u] \in Away /\ pc'[u] # "wait"
        BY <2>1, <2>2 DEF BusInv, Away, Routing
    <2> QED BY <1>1, <1>f, <2>1, <2>2, <2>3 DEF BusInv, Away, Routing
<1>2. CASE lock # None
    <2>1. lock' = lock /\ pc' = [pc EXCEPT ![t] = "wait"] /\ waiters' = Append(waiters, t)
        BY <1>2 DEF Route
    <2>2. t # lock /\ t \notin Range(waiters) /\ waiters \in Seq(Task) /\ IsInjective(waiters)
        BY <1>2 DEF BusInv, Routing
    <2>3. /\ waiters' \in Seq(Task) /\ IsInjective(waiters')
          /\ Range(waiters') = Range(waiters) \cup {t}
        BY <2>1, <2>2, JoinQueue
    <2> QED BY <1>2, <2>1, <2>2, <2>3 DEF BusInv, Away, Routing
<1> QED BY <1>1, <1>2

LEMMA ReleaseKeeps ==
    ASSUME BusInv, NEW t \in Task, lock = t, pc[t] # "stuck", NEW to \in {"idle", "dead"},
           Release(t, to), todo' = {}
    PROVE  BusInv'
<1>f. lock # None /\ t \notin Range(waiters) /\ waiters \in Seq(Task) /\ IsInjective(waiters)
    BY NoTaskAssumption DEF BusInv
<1>1. CASE waiters = <<>>
    <2>1. lock' = None /\ waiters' = waiters /\ pc' = [pc EXCEPT ![t] = to]
        BY <1>1 DEF Release
    <2>2. Range(waiters) = {}
        BY <1>1 DEF Range
    <2> QED BY <1>1, <1>f, <2>1, <2>2 DEF BusInv, Away, Routing
<1>2. CASE waiters # <<>>
    <2> DEFINE h == Head(waiters)
    <2>1. /\ lock' = h /\ waiters' = Tail(waiters)
          /\ pc' = [pc EXCEPT ![t] = to, ![h] = "check"]
        BY <1>2 DEF Release
    <2>2. /\ h \in Task /\ waiters' \in Seq(Task) /\ IsInjective(waiters')
          /\ h \in Range(waiters) /\ Range(waiters') = Range(waiters) \ {h}
        BY <1>2, <1>f, <2>1, LeaveQueue
    <2>3. h # t /\ h # None
        BY <2>2, <1>f, NoTaskAssumption
    <2> HIDE DEF h
    <2>4. pc \in [Task -> Away \cup Routing]
        BY DEF BusInv
    <2>5. /\ pc'[h] = "check" /\ pc'[t] = to /\ pc' \in [Task -> Away \cup Routing]
          /\ \A u \in Task \ {t, h} : pc'[u] = pc[u]
        BY <2>1, <2>2, <2>3, <2>4 DEF Away, Routing
    <2> QED BY <1>f, <2>1, <2>2, <2>3, <2>5 DEF BusInv, Away, Routing
<1> QED BY <1>1, <1>2

(* The task that routes takes another step of the routing.                 *)
LEMMA RoutesOn ==
    ASSUME BusInv, NEW t \in Task, lock = t, pc[t] # "stuck", UNCHANGED <<lock, waiters>>,
           NEW to \in Routing, pc' = [pc EXCEPT ![t] = to], to = "check" => todo' = {}
    PROVE  BusInv'
BY NoTaskAssumption DEF BusInv, Routing

LEMMA DeliveredKeeps ==
    ASSUME BusInv, NEW t \in Task, lock = t, pc[t] # "stuck", Delivered(t)
    PROVE  BusInv'
<1>1. \E to \in {"check", "deliver"} : pc' = [pc EXCEPT ![t] = to] /\ (to = "check" => todo' = {})
    BY DEF Delivered
<1> QED BY <1>1, RoutesOn DEF Delivered, Routing

LEMMA RaisesKeeps ==
    ASSUME BusInv, NEW t \in Task, lock = t, pc[t] # "stuck", Raises(t)
    PROVE  BusInv'
BY ReleaseKeeps DEF Raises

LEMMA SelfWaitKeeps ==
    ASSUME BusInv, NEW t \in Task, lock = t, pc[t] # "stuck", UNCHANGED <<lock, todo>>,
           pc' = [pc EXCEPT ![t] = "stuck"], waiters' = Append(waiters, t)
    PROVE  BusInv'
<1>1. /\ t # None /\ t \notin Range(waiters) /\ waiters \in Seq(Task) /\ IsInjective(waiters)
    BY NoTaskAssumption DEF BusInv
<1>2. /\ waiters' \in Seq(Task) /\ IsInjective(waiters') /\ Range(waiters') = Range(waiters) \cup {t}
    BY <1>1, JoinQueue
<1> QED BY <1>1, <1>2 DEF BusInv, Routing

-----------------------------------------------------------------------------
(* The steps of the bus.                                                   *)

Attended == queue # <<>> /\ ~paused => lock # None \/ abandoned

Forwarding == BusInv /\ Attended

LEMMA RoutingKeeps ==
    ASSUME Forwarding, NEW t \in Task, RouteNext(t) \/ ChainReturns(t) \/ ChainExpires(t)
    PROVE  Forwarding'
<1>f. t # None
    BY NoTaskAssumption
<1>1. CASE RouteNext(t)
    <2>1. lock = t /\ pc[t] = "check" /\ todo = {} /\ paused' = paused
        BY <1>1, <1>f DEF RouteNext, Forwarding, BusInv
    <2>2. CASE queue # <<>> /\ ~paused
        <3>1. /\ UNCHANGED <<lock, waiters>>
              /\ pc' = [pc EXCEPT ![t] = IF todo' = {} THEN "check" ELSE "deliver"]
            BY <1>1, <2>2 DEF RouteNext
        <3>2. PICK to \in {"check", "deliver"} :
                pc' = [pc EXCEPT ![t] = to] /\ (to = "check" => todo' = {})
            BY <3>1
        <3> QED BY <1>f, <2>1, <3>1, <3>2, RoutesOn DEF Forwarding, Attended, Routing
    <2>3. CASE ~(queue # <<>> /\ ~paused)
        <3>1. Release(t, "idle") /\ UNCHANGED <<queue, todo>>
            BY <1>1, <2>3 DEF RouteNext
        <3> QED BY <2>1, <2>3, <3>1, ReleaseKeeps DEF Forwarding, Attended
    <2> QED BY <2>2, <2>3
<1>2. CASE ChainReturns(t)
    <2>1. lock = t /\ pc[t] = "acting" /\ Delivered(t) /\ lock' = lock
        BY <1>2 DEF ChainReturns, Delivered
    <2> QED BY <1>f, <2>1, DeliveredKeeps DEF Forwarding, Attended
<1>3. CASE ChainExpires(t)
    <2>1. lock = t /\ pc[t] = "acting"
        BY <1>3 DEF ChainExpires
    <2>2. CASE UNCHANGED <<pc, busVars>>
        BY <2>2, BusUnchanged DEF busVars, Forwarding, Attended
    <2>3. CASE Raises(t)
        BY <2>1, <2>3, RaisesKeeps DEF Forwarding, Attended, Raises
    <2>4. CASE Delivered(t)
        <3>1. lock' = lock
            BY <2>4 DEF Delivered
        <3> QED BY <1>f, <2>1, <2>4, <3>1, DeliveredKeeps DEF Forwarding, Attended
    <2> QED BY <1>3, <2>2, <2>3, <2>4 DEF ChainExpires
<1> QED BY <1>1, <1>2, <1>3

LEMMA HandlingKeeps ==
    ASSUME Forwarding, NEW t \in Task, Handling(t)
    PROVE  Forwarding'
<1>f. t # None /\ lock = t /\ pc[t] = "deliver"
    BY NoTaskAssumption DEF Handling, HandlerReturns, HandlerRaises, HandlerPublishes, HandlerActs, Handles
<1>1. ASSUME Delivered(t) PROVE Forwarding'
    <2>1. lock' = lock
        BY <1>1 DEF Delivered
    <2> QED BY <1>f, <1>1, <2>1, DeliveredKeeps DEF Forwarding, Attended
<1>2. CASE HandlerReturns(t)
    BY <1>1, <1>2 DEF HandlerReturns
<1>3. CASE HandlerRaises(t)
    BY <1>3, <1>f, RaisesKeeps DEF HandlerRaises, Raises, Forwarding, Attended
<1>4. CASE HandlerPublishes(t)
    <2>1. CASE ~paused
        BY <1>4, <1>f, <2>1, SelfWaitKeeps DEF HandlerPublishes, Forwarding, Attended
    <2> QED BY <1>1, <1>4, <2>1 DEF HandlerPublishes
<1>5. CASE HandlerActs(t)
    <2>1. pc' = [pc EXCEPT ![t] = "acting"] /\ UNCHANGED <<lock, waiters, todo>>
        BY <1>5 DEF HandlerActs, busVars
    <2> QED BY <1>f, <2>1, RoutesOn DEF Forwarding, Attended, Routing
<1> QED BY <1>2, <1>3, <1>4, <1>5 DEF Handling

LEMMA NextKeepsForwarding ==
    ASSUME Forwarding, [Next]_vars
    PROVE  Forwarding'
<1>u. ASSUME UNCHANGED <<pc, busVars>> PROVE Forwarding'
    BY <1>u, BusUnchanged DEF busVars, Forwarding, Attended
<1>1. CASE Poll
    BY <1>1, <1>u DEF Poll
<1>2. ASSUME NEW t \in Task, NEW e \in batch \cup {Note}, Publish(t, e) PROVE Forwarding'
    <2>1. CASE UNCHANGED <<pc, busVars>>
        BY <2>1, <1>u
    <2>2. CASE paused /\ UNCHANGED <<pc, lock, waiters, todo, paused>>
        BY <2>2, BusUnchanged DEF Forwarding, Attended
    <2>3. CASE Route(t) /\ todo' = todo
        BY <1>2, <2>3, RouteKeeps DEF Forwarding, Attended, Publish
    <2> QED BY <1>2, <2>1, <2>2, <2>3 DEF Publish
<1>3. ASSUME NEW t \in Task, RouteNext(t) \/ Handling(t) \/ ChainReturns(t) \/ ChainExpires(t)
      PROVE  Forwarding'
    BY <1>3, RoutingKeeps, HandlingKeeps
<1>4. ASSUME NEW x \in Execution, Executing(x) PROVE Forwarding'
    BY <1>4, <1>u DEF Executing, Start, Retry, Operated, Cancelled
<1>5. CASE Call
    BY <1>5, <1>u DEF Call
<1>6. CASE EmergencyStop
    BY <1>6, BusUnchanged DEF EmergencyStop, Forwarding, Attended
<1>7. CASE Resume \/ Replay
    <2>1. Route("user") /\ pc["user"] = "idle" /\ todo' = todo
        BY <1>7 DEF Resume, Replay, Cleared
    <2> QED BY <2>1, RouteKeeps DEF Forwarding, Attended, Task
<1>8. CASE ResumeAgentSystem
    BY <1>8, BusUnchanged DEF ResumeAgentSystem, Cleared, Forwarding, Attended
<1>9. CASE UNCHANGED vars
    BY <1>9, <1>u DEF vars
<1> QED BY <1>1, <1>2, <1>3, <1>4, <1>5, <1>6, <1>7, <1>8, <1>9 DEF Next

LEMMA ForwardingInitially == Init => Forwarding
<1> SUFFICES ASSUME Init PROVE Forwarding
    OBVIOUS
<1>1. <<>> \in Seq(Task) /\ IsInjective(<<>>) /\ Range(<<>>) = {}
    BY EmptySeq DEF IsInjective, Range
<1>2. /\ pc = [t \in Task |-> "idle"] /\ lock = None /\ waiters = <<>> /\ queue = <<>> /\ todo = {}
    BY DEF Init
<1> QED BY <1>1, <1>2, NoTaskAssumption DEF Forwarding, BusInv, Attended, Away, Routing

LEMMA ForwardingHolds == Spec => []Forwarding
BY ForwardingInitially, NextKeepsForwarding, PTL DEF Spec

(* No event is forgotten: what is queued while the bus is not paused has   *)
(* someone routing who gets to it, whoever publishes, raises, resumes or   *)
(* replays in between - unless an exception or AutoWindow left it, or a    *)
(* handler waits for the lock its own task holds (bus.py:39-61).           *)
THEOREM NoEventForgottenHolds == Spec => []NoEventForgotten
<1>1. Forwarding => NoEventForgotten
    BY DEF Forwarding, BusInv, Attended, NoEventForgotten, SelfWaits
<1> QED BY <1>1, ForwardingHolds, PTL

-----------------------------------------------------------------------------
(* Executions of actions.                                                  *)

Execs == [agent : BOOLEAN, st : {"none", "start", "run", "cancel", "backoff", "done"},
          attempt : 0..Retries, left : 0..ChainSteps, expired : BOOLEAN]

AtWork == {x \in Execution : exec[x].agent /\ Underway(x)}

(* What x has begun since the stop, it began as retries.                   *)
Patience(x) ==
    stopped =>
        /\ late[x] <= IF x \in sleeping THEN Retries ELSE 0
        /\ exec[x].st \in {"run", "backoff"} => x \in sleeping /\ late[x] <= exec[x].attempt

Circuit == failures \in 0..3 /\ open \in BOOLEAN /\ (failures = 3 => open)

ActInv ==
    /\ exec \in [Execution -> Execs] /\ exec["chain"].agent
    /\ active = Cardinality(AtWork) /\ active <= Concurrent
    /\ late \in [Execution -> Nat]
    /\ \A x \in Execution : Patience(x)
    /\ \A x \in Execution : exec[x].st = "backoff" => exec[x].attempt < Retries
    /\ stopped \in BOOLEAN /\ Circuit

LEMMA Limits == Retained \in Nat /\ Concurrent \in Nat /\ Retries \in Nat /\ MaxEvents \in Nat
                /\ MaxStops \in Nat /\ MaxCalls \in Nat /\ ChainSteps \in Nat \ {0}
BY LimitsAssumption

LEMMA FewExecutions ==
    ASSUME NEW S \in SUBSET Execution
    PROVE  IsFiniteSet(S) /\ Cardinality(S) \in Nat
<1>1. IsFiniteSet({}) /\ Execution = ({} \cup {"chain"}) \cup {"call"}
    BY FS_EmptySet DEF Execution
<1>2. IsFiniteSet(Execution)
    BY <1>1, FS_AddElement
<1> QED BY <1>2, FS_Subset, FS_CardinalityType

(* The count goes with the set.                                            *)
LEMMA Recount ==
    ASSUME NEW x \in Execution, AtWork' \ {x} = AtWork \ {x}
    PROVE  /\ Cardinality(AtWork) \in Nat /\ (x \in AtWork => Cardinality(AtWork) > 0)
           /\ (x \in AtWork <=> x \in AtWork') => Cardinality(AtWork') = Cardinality(AtWork)
           /\ x \in AtWork /\ x \notin AtWork' => Cardinality(AtWork') = Cardinality(AtWork) - 1
           /\ x \notin AtWork /\ x \in AtWork' => Cardinality(AtWork') = Cardinality(AtWork) + 1
<1>1. AtWork \in SUBSET Execution /\ AtWork' \in SUBSET Execution
    BY DEF AtWork
<1>2. /\ IsFiniteSet(AtWork) /\ Cardinality(AtWork) \in Nat
      /\ IsFiniteSet(AtWork') /\ Cardinality(AtWork') \in Nat
    BY <1>1, FewExecutions
<1>3. CASE x \in AtWork <=> x \in AtWork'
    <2>1. AtWork' = AtWork
        BY <1>3
    <2>2. x \in AtWork => Cardinality(AtWork) # 0
        BY <1>2, FS_EmptySet
    <2> QED BY <1>2, <1>3, <2>1, <2>2
<1>4. CASE x \in AtWork /\ x \notin AtWork'
    <2>1. AtWork' = AtWork \ {x}
        BY <1>4
    <2>2. Cardinality(AtWork') = Cardinality(AtWork) - 1
        BY <1>2, <1>4, <2>1, FS_RemoveElement
    <2> QED BY <1>2, <1>4, <2>2
<1>5. CASE x \notin AtWork /\ x \in AtWork'
    <2>1. AtWork' = AtWork \cup {x}
        BY <1>5
    <2>2. Cardinality(AtWork') = Cardinality(AtWork) + 1
        BY <1>2, <1>5, <2>1, FS_AddElement
    <2> QED BY <1>2, <1>5, <2>2
<1> QED BY <1>3, <1>4, <1>5

(* A step of the execution x alone.                                        *)
LEMMA OneExecution ==
    ASSUME ActInv, NEW x \in Execution, exec' \in [Execution -> Execs],
           \A y \in Execution \ {x} : exec'[y] = exec[y] /\ late'[y] = late[y],
           x = "chain" => exec'[x].agent,
           exec'[x].st = "backoff" => exec'[x].attempt < Retries,
           late' \in [Execution -> Nat], UNCHANGED <<stopped, sleeping>>, Patience(x)', Circuit',
           x \in AtWork' => x \in AtWork \/ active < Concurrent,
           active' = IF x \in AtWork THEN IF x \in AtWork' THEN active ELSE active - 1
                     ELSE IF x \in AtWork' THEN active + 1 ELSE active
    PROVE  ActInv'
<1>1. exec \in [Execution -> Execs] /\ active = Cardinality(AtWork) /\ active <= Concurrent
    BY DEF ActInv
<1>2. AtWork' \ {x} = AtWork \ {x}
    BY DEF AtWork, Underway
<1>3. active' = Cardinality(AtWork') /\ active' <= Concurrent
    BY <1>1, <1>2, Recount, Limits
<1>4. ASSUME NEW y \in Execution \ {x} PROVE Patience(y)'
    <2>1. Patience(y) /\ exec'[y] = exec[y] /\ late'[y] = late[y]
        BY DEF ActInv
    <2> QED BY <2>1 DEF Patience
<1>5. exec'["chain"].agent
    BY DEF ActInv, Execution
<1>6. \A y \in Execution : exec'[y].st = "backoff" => exec'[y].attempt < Retries
    BY DEF ActInv
<1> QED BY <1>3, <1>4, <1>5, <1>6 DEF ActInv

LEMMA AfterIsExec ==
    ASSUME ActInv, NEW x \in Execution
    PROVE  /\ After(x) \in Execs /\ After(x).st \in {"none", "start", "done"}
           /\ x = "chain" => After(x).agent /\ After(x).st # "none"
<1>1. exec[x] \in Execs /\ (x = "chain" => exec[x].agent)
    BY DEF ActInv
<1>2. CASE x = "call"
    BY <1>2, Limits DEF After, Idle, Execs
<1>3. CASE x = "chain"
    <2>1. CASE exec[x].left = 0
        BY <1>1, <1>3, <2>1 DEF After, Execs
    <2>2. CASE exec[x].left # 0
        <3>1. After(x) = [exec[x] EXCEPT !.st = "start", !.attempt = 0, !.left = exec[x].left - 1]
            BY <1>3, <2>2 DEF After
        <3>2. 0 \in 0..Retries /\ exec[x].left - 1 \in 0..ChainSteps
            BY <1>1, <2>2, Limits DEF Execs
        <3> QED BY <1>1, <1>3, <3>1, <3>2 DEF Execs
    <2> QED BY <2>1, <2>2
<1> QED BY <1>2, <1>3 DEF Execution

(* An execution that ends, however it ends.                                *)
LEMMA EndKeeps ==
    ASSUME ActInv, NEW x \in Execution, NEW e \in Execs, e.st \in {"none", "start", "done"},
           x = "chain" => e.agent, exec' = [exec EXCEPT ![x] = e], Unwinds(x),
           UNCHANGED <<stopped, sleeping, late>>, Circuit'
    PROVE  ActInv'
<1>1. /\ exec' \in [Execution -> Execs] /\ exec'[x] = e
      /\ \A y \in Execution \ {x} : exec'[y] = exec[y] /\ late'[y] = late[y]
    BY DEF ActInv
<1>2. x \notin AtWork' /\ AtWork' \ {x} = AtWork \ {x}
    BY <1>1 DEF AtWork, Underway
<1>3. active' = IF x \in AtWork THEN active - 1 ELSE active
    <2>1. x \in AtWork => active > 0
        BY <1>2, Recount DEF ActInv
    <2> QED BY <2>1 DEF Unwinds, AtWork
<1>4. Patience(x)'
    <2>1. Patience(x)
        BY DEF ActInv
    <2> QED BY <1>1, <2>1 DEF Patience
<1>5. late' \in [Execution -> Nat]
    BY DEF ActInv
<1> QED BY <1>1, <1>2, <1>3, <1>4, <1>5, OneExecution

LEMMA EndsKeeps ==
    ASSUME ActInv, NEW x \in Execution, Ends(x), UNCHANGED <<stopped, sleeping, late>>, Circuit'
    PROVE  ActInv'
BY AfterIsExec, EndKeeps DEF Ends

(* An operation begins.                                                    *)
LEMMA OperateKeeps ==
    ASSUME ActInv, NEW x \in Execution, NEW agent \in BOOLEAN, x = "chain" => agent,
           ~Underway(x), ~Refused, ~Limited(agent), Operate(x, agent),
           UNCHANGED <<stopped, sleeping, failures, open>>
    PROVE  ActInv'
<1>1. exec \in [Execution -> Execs] /\ exec[x] \in Execs /\ late \in [Execution -> Nat]
    BY DEF ActInv
<1>2. /\ exec' \in [Execution -> Execs] /\ exec'[x].st = "run" /\ exec'[x].agent = agent
      /\ \A y \in Execution \ {x} : exec'[y] = exec[y]
    BY <1>1 DEF Operate, Execs
<1>3. ~stopped /\ late' = [late EXCEPT ![x] = 0]
    BY DEF Refused, Operate, Counted
<1>4. late' \in [Execution -> Nat] /\ \A y \in Execution \ {x} : late'[y] = late[y]
    BY <1>1, <1>3
<1>5. x \notin AtWork /\ (x \in AtWork' <=> agent)
    BY <1>2 DEF AtWork, Underway
<1>6. active' = IF agent THEN active + 1 ELSE active
    BY DEF Operate, Begins
<1>7. agent => active < Concurrent
    <2>1. active \in Nat
        BY FewExecutions DEF ActInv, AtWork
    <2> QED BY <2>1, Limits DEF Limited
<1>8. Patience(x)' /\ Circuit'
    BY <1>3 DEF Patience, ActInv, Circuit
<1> QED BY <1>2, <1>4, <1>5, <1>6, <1>7, <1>8, OneExecution

LEMMA ExecutingKeeps ==
    ASSUME ActInv, NEW x \in Execution, Executing(x)
    PROVE  ActInv'
<1>t. /\ exec \in [Execution -> Execs] /\ exec[x] \in Execs /\ late \in [Execution -> Nat]
      /\ active = Cardinality(AtWork) /\ active <= Concurrent /\ Circuit /\ Patience(x)
      /\ (x = "chain" => exec[x].agent) /\ (exec[x].st = "backoff" => exec[x].attempt < Retries)
    BY DEF ActInv
<1>1. CASE Start(x)
    <2>1. UNCHANGED <<stopped, sleeping, failures, open>> /\ ~Underway(x)
        BY <1>1 DEF Start, Underway
    <2>2. CASE Ends(x) /\ UNCHANGED late
        BY <1>t, <2>1, <2>2, EndsKeeps DEF Circuit
    <2>3. CASE ~Refused /\ ~Limited(TRUE) /\ Operate(x, TRUE)
        BY <2>1, <2>3, OperateKeeps
    <2> QED BY <1>1, <2>2, <2>3 DEF Start
<1>2. CASE Retry(x)
    <2>1. /\ exec[x].st = "backoff" /\ exec[x].attempt < Retries /\ exec[x].attempt + 1 \in 0..Retries
          /\ UNCHANGED <<stopped, sleeping, failures, open, active>> /\ Counted(x)
        BY <1>2, <1>t, Limits DEF Retry, Execs
    <2>2. /\ exec' \in [Execution -> Execs] /\ exec'[x].st = "run" /\ exec'[x].agent = exec[x].agent
          /\ exec'[x].attempt = exec[x].attempt + 1
          /\ \A y \in Execution \ {x} : exec'[y] = exec[y]
        BY <1>2, <1>t, <2>1 DEF Retry, Execs
    <2>3. /\ late' \in [Execution -> Nat] /\ \A y \in Execution \ {x} : late'[y] = late[y]
          /\ stopped => late'[x] = late[x] + 1
        BY <1>t, <2>1 DEF Counted
    <2>4. x \in AtWork <=> x \in AtWork'
        BY <2>1, <2>2 DEF AtWork, Underway
    <2>5. Patience(x)' /\ Circuit'
        BY <1>t, <2>1, <2>2, <2>3, Limits DEF Patience, Circuit, Execs
    <2> QED BY <1>t, <2>1, <2>2, <2>3, <2>4, <2>5, OneExecution
<1>3. CASE Operated(x)
    <2>1. UNCHANGED <<stopped, sleeping, late>> /\ exec[x].st = "run"
        BY <1>3 DEF Operated
    <2>2. CASE failures' = 0 /\ UNCHANGED open /\ Ends(x)
        BY <1>t, <2>1, <2>2, EndsKeeps DEF Circuit
    <2>3. CASE /\ failures' = IF failures = 3 THEN 3 ELSE failures + 1
               /\ open' = (open \/ failures' = 3)
               /\ Ends(x)
        <3>1. failures' \in 0..3
            BY <1>t, <2>3 DEF Circuit
        <3>2. open' \in BOOLEAN /\ (failures' = 3 => open')
            BY <2>3, Zenon
        <3>3. Circuit'
            BY <3>1, <3>2 DEF Circuit
        <3> QED BY <2>1, <2>3, <3>3, EndsKeeps
    <2>4. CASE /\ exec[x].attempt < Retries /\ exec' = [exec EXCEPT ![x].st = "backoff"]
               /\ UNCHANGED <<failures, open, active>>
        <3>1. /\ exec' \in [Execution -> Execs] /\ exec'[x].st = "backoff"
              /\ exec'[x].agent = exec[x].agent /\ exec'[x].attempt = exec[x].attempt
              /\ \A y \in Execution \ {x} : exec'[y] = exec[y]
            BY <1>t, <2>4 DEF Execs
        <3>2. x \in AtWork <=> x \in AtWork'
            BY <2>1, <3>1 DEF AtWork, Underway
        <3>3. Patience(x)' /\ Circuit'
            BY <1>t, <2>1, <2>4, <3>1 DEF Patience, Circuit
        <3> QED BY <1>t, <2>1, <2>4, <3>1, <3>2, <3>3, OneExecution
    <2> QED BY <1>3, <2>2, <2>3, <2>4 DEF Operated
<1>4. CASE Cancelled(x)
    BY <1>4, <1>t, EndsKeeps DEF Cancelled, Circuit
<1> QED BY <1>1, <1>2, <1>3, <1>4 DEF Executing

(* What a handler does with the chain.                                     *)
LEMMA ChainKeeps ==
    ASSUME ActInv, NEW t \in Task, ChainReturns(t) \/ ChainExpires(t)
    PROVE  ActInv'
<1>t. exec \in [Execution -> Execs] /\ exec["chain"] \in Execs /\ "chain" \in Execution /\ Circuit
    BY DEF ActInv, Execution
<1>i. Idle \in Execs /\ Idle.agent /\ Idle.st = "none"
    BY Limits DEF Idle, Execs
<1>1. CASE ChainReturns(t)
    <2>1. /\ exec' = [exec EXCEPT !["chain"] = Idle] /\ exec["chain"].st = "done"
          /\ UNCHANGED <<stopped, failures, open, active, sleeping, late>>
        BY <1>1 DEF ChainReturns
    <2>2. Unwinds("chain")
        BY <2>1 DEF Unwinds, Underway
    <2>3. Circuit'
        BY <1>t, <2>1 DEF Circuit
    <2> QED BY <1>t, <1>i, <2>1, <2>2, <2>3, EndKeeps
<1>2. CASE ChainExpires(t)
    <2>1. /\ Unwinds("chain") /\ UNCHANGED <<stopped, failures, open, sleeping, late>>
        BY <1>2 DEF ChainExpires
    <2>2. \E e \in Execs : /\ exec' = [exec EXCEPT !["chain"] = e]
                           /\ e.st \in {"none", "start", "done"} /\ e.agent
        <3>1. CASE exec' = [exec EXCEPT !["chain"] = Idle]
            BY <1>i, <3>1
        <3>2. CASE exec' = [exec EXCEPT !["chain"] = [After("chain") EXCEPT !.expired = TRUE]]
            <4> DEFINE a == After("chain")
                       e == [a EXCEPT !.expired = TRUE]
            <4>1. a \in Execs /\ a.st \in {"none", "start", "done"} /\ a.agent
                BY <1>t, AfterIsExec
            <4> HIDE DEF a
            <4>2. e \in Execs /\ e.st \in {"none", "start", "done"} /\ e.agent
                BY <4>1 DEF Execs
            <4>3. exec' = [exec EXCEPT !["chain"] = e]
                BY <3>2 DEF a
            <4> QED BY <4>2, <4>3
        <3> QED BY <1>2, <3>1, <3>2 DEF ChainExpires
    <2>3. Circuit'
        BY <1>t, <2>1 DEF Circuit
    <2> QED BY <1>t, <2>1, <2>2, <2>3, EndKeeps
<1> QED BY <1>1, <1>2

LEMMA ChainBegins ==
    ASSUME ActInv, NEW t \in Task, HandlerActs(t), exec["chain"].st = "none"
    PROVE  ActInv'
<1> DEFINE e == [Idle EXCEPT !.st = "start", !.left = ChainSteps - 1]
<1>1. e \in Execs /\ e.agent /\ e.st = "start"
    <2>1. Idle \in Execs /\ Idle.agent
        BY Limits DEF Idle, Execs
    <2>2. ChainSteps - 1 \in 0..ChainSteps
        BY Limits
    <2> QED BY <2>1, <2>2 DEF Execs
<1>2. exec' = [exec EXCEPT !["chain"] = e]
    BY DEF HandlerActs
<1>3. UNCHANGED <<stopped, failures, open, active, sleeping, late>>
    BY DEF HandlerActs
<1> HIDE DEF e
<1>4. Unwinds("chain") /\ Circuit'
    BY <1>3 DEF Unwinds, Underway, ActInv, Circuit
<1> QED BY <1>1, <1>2, <1>3, <1>4, EndKeeps DEF Execution

LEMMA StopKeeps ==
    ASSUME ActInv, EmergencyStop
    PROVE  ActInv'
<1>t. exec \in [Execution -> Execs] /\ Circuit
    BY DEF ActInv
<1>1. /\ exec' = [x \in Execution |->
                    IF exec[x].st = "run" THEN [exec[x] EXCEPT !.st = "cancel"] ELSE exec[x]]
      /\ stopped' = TRUE /\ sleeping' = {x \in Execution : exec[x].st = "backoff"}
      /\ late' = [x \in Execution |-> 0] /\ UNCHANGED <<failures, open, active>>
    BY DEF EmergencyStop
<1>2. ASSUME NEW x \in Execution
      PROVE  /\ exec'[x] \in Execs /\ exec'[x].agent = exec[x].agent
             /\ exec'[x].attempt = exec[x].attempt
             /\ exec'[x].st = IF exec[x].st = "run" THEN "cancel" ELSE exec[x].st
    BY <1>t, <1>1 DEF Execs
<1>3. exec' \in [Execution -> Execs]
    BY <1>1, <1>2
<1>4. AtWork' = AtWork
    BY <1>2 DEF AtWork, Underway
<1>5. ASSUME NEW x \in Execution PROVE Patience(x)'
    <2>1. late'[x] = 0 /\ exec'[x].attempt \in 0..Retries
        BY <1>1, <1>3 DEF Execs
    <2> QED BY <1>1, <1>2, <2>1, Limits DEF Patience
<1>6. late' \in [Execution -> Nat] /\ Circuit' /\ stopped' \in BOOLEAN
    BY <1>t, <1>1 DEF Circuit
<1> QED BY <1>1, <1>2, <1>3, <1>4, <1>5, <1>6 DEF ActInv, Execution

LEMMA ClearedKeeps ==
    ASSUME ActInv, Cleared
    PROVE  ActInv'
<1>1. /\ stopped' = FALSE /\ open' = FALSE /\ failures' = 0 /\ UNCHANGED <<exec, active>>
      /\ late' = [x \in Execution |-> 0]
    BY DEF Cleared
<1>2. AtWork' = AtWork
    BY <1>1 DEF AtWork, Underway
<1>3. \A x \in Execution : Patience(x)'
    BY <1>1 DEF Patience
<1>4. Circuit'
    <2>1. failures' \in 0..3 /\ failures' # 3
        BY <1>1
    <2> QED BY <1>1, <2>1, Zenon DEF Circuit
<1>5. stopped' \in BOOLEAN /\ late' \in [Execution -> Nat]
    BY <1>1
<1> QED BY <1>1, <1>2, <1>3, <1>4, <1>5 DEF ActInv

LEMMA CallKeeps ==
    ASSUME ActInv, Call
    PROVE  ActInv'
<1>1. exec["call"].st = "none" /\ UNCHANGED <<stopped, failures, open, sleeping>>
    BY DEF Call
<1>2. CASE UNCHANGED <<exec, late, active>>
    BY <1>1, <1>2 DEF ActInv, AtWork, Underway, Patience, Circuit
<1>3. ASSUME NEW agent \in BOOLEAN, ~Refused, ~Limited(agent), Operate("call", agent)
      PROVE  ActInv'
    BY <1>1, <1>3, OperateKeeps DEF Underway, Execution
<1> QED BY <1>2, <1>3 DEF Call

-----------------------------------------------------------------------------
(* The chain runs only inside a handler, and a handler waits for it.       *)

ChainLink == exec["chain"].st # "none" <=> lock # None /\ pc[lock] = "acting"

PlatformInv == Forwarding /\ ActInv /\ ChainLink

(* The bus goes on without the chain.                                      *)
LEMMA LinkUndisturbed ==
    ASSUME PlatformInv, Forwarding', exec'["chain"].st # "none" <=> exec["chain"].st # "none",
           lock' # None /\ pc'[lock'] = "acting" <=> lock # None /\ pc[lock] = "acting"
    PROVE  ChainLink'
BY DEF PlatformInv, ChainLink

LEMMA RouteLinks ==
    ASSUME PlatformInv, NEW t \in Task, pc[t] = "idle", Route(t)
    PROVE  lock' # None /\ pc'[lock'] = "acting" <=> lock # None /\ pc[lock] = "acting"
<1>1. pc \in [Task -> Away \cup Routing] /\ t # None /\ (lock # None => t # lock /\ lock \in Task)
    BY NoTaskAssumption DEF PlatformInv, Forwarding, BusInv, Routing
<1>2. CASE lock = None
    BY <1>1, <1>2 DEF Route
<1>3. CASE lock # None
    BY <1>1, <1>3 DEF Route
<1> QED BY <1>2, <1>3

LEMMA ReleaseLinks ==
    ASSUME PlatformInv, NEW t \in Task, lock = t, NEW to \in {"idle", "dead"}, Release(t, to)
    PROVE  ~(lock' # None /\ pc'[lock'] = "acting")
<1>1. pc \in [Task -> Away \cup Routing] /\ waiters \in Seq(Task) /\ IsInjective(waiters)
    BY DEF PlatformInv, Forwarding, BusInv
<1>2. CASE waiters = <<>>
    BY <1>2 DEF Release
<1>3. CASE waiters # <<>>
    <2>1. Head(waiters) \in Task
        BY <1>1, <1>3, LeaveQueue
    <2>2. lock' = Head(waiters) /\ pc' = [pc EXCEPT ![t] = to, ![Head(waiters)] = "check"]
        BY <1>3 DEF Release
    <2> QED BY <1>1, <2>1, <2>2
<1> QED BY <1>2, <1>3

LEMMA ExecutingLinks ==
    ASSUME ActInv, NEW x \in Execution, Executing(x)
    PROVE  exec'["chain"].st # "none" <=> exec["chain"].st # "none"
<1>t. exec \in [Execution -> Execs] /\ "chain" \in Execution
    BY DEF ActInv, Execution
<1>1. CASE x # "chain"
    <2>1. exec'["chain"] = exec["chain"]
        BY <1>t, <1>1 DEF Executing, Start, Retry, Operated, Cancelled, Ends, Operate
    <2> QED BY <2>1
<1>2. CASE x = "chain"
    <2>1. exec[x].st # "none"
        BY DEF Executing, Start, Retry, Operated, Cancelled
    <2>2. CASE Ends(x)
        BY <1>t, <1>2, <2>1, <2>2, AfterIsExec DEF Ends
    <2>3. CASE (Start(x) /\ ~Ends(x)) \/ Retry(x) \/ (Operated(x) /\ ~Ends(x))
        <3>1. exec'[x].st \in {"run", "backoff"}
            <4>1. CASE Start(x) /\ ~Ends(x)
                <5>1. exec' = [exec EXCEPT ![x].st = "run", ![x].agent = TRUE]
                    BY <4>1 DEF Start, Operate
                <5> QED BY <1>t, <5>1 DEF Execs
            <4>2. CASE Retry(x)
                BY <1>t, <4>2 DEF Retry, Execs
            <4>3. CASE Operated(x) /\ ~Ends(x)
                <5>1. exec' = [exec EXCEPT ![x].st = "backoff"]
                    BY <4>3 DEF Operated
                <5> QED BY <1>t, <5>1 DEF Execs
            <4> QED BY <2>3, <4>1, <4>2, <4>3
        <3> QED BY <1>2, <2>1, <3>1
    <2> QED BY <2>2, <2>3 DEF Executing, Cancelled
<1> QED BY <1>1, <1>2

LEMMA NextKeepsPlatform ==
    ASSUME PlatformInv, [Next]_vars
    PROVE  PlatformInv'
<1>f. Forwarding'
    BY NextKeepsForwarding DEF PlatformInv
<1>t. /\ exec \in [Execution -> Execs] /\ pc \in [Task -> Away \cup Routing] /\ "chain" \in Execution
    BY DEF PlatformInv, ActInv, Forwarding, BusInv, Execution
<1>u. ASSUME UNCHANGED actVars PROVE ActInv' /\ exec' = exec
    BY <1>u DEF PlatformInv, ActInv, actVars, AtWork, Underway, Patience, Circuit
<1>v. ASSUME UNCHANGED <<pc, lock>>, exec'["chain"].st # "none" <=> exec["chain"].st # "none"
      PROVE  ChainLink'
    BY <1>v, <1>f, LinkUndisturbed
<1>w. ASSUME UNCHANGED actVars,
             \/ UNCHANGED <<pc, busVars>>
             \/ UNCHANGED <<pc, lock>>
             \/ \E t \in Task : pc[t] = "idle" /\ Route(t)
             \/ \E t \in Task : lock = t /\ pc[t] # "acting" /\ \E to \in {"idle", "dead"} : Release(t, to)
             \/ \E t \in Task : /\ lock = t /\ pc[t] # "acting" /\ lock' = lock
                              /\ \E to \in Routing \ {"acting"} : pc' = [pc EXCEPT ![t] = to]
      PROVE  PlatformInv'
    <2>1. lock' # None /\ pc'[lock'] = "acting" <=> lock # None /\ pc[lock] = "acting"
        <3>1. CASE UNCHANGED <<pc, lock>>
            BY <3>1
        <3>2. ASSUME NEW t \in Task, pc[t] = "idle", Route(t)
              PROVE  lock' # None /\ pc'[lock'] = "acting" <=> lock # None /\ pc[lock] = "acting"
            BY <3>2, RouteLinks
        <3>3. ASSUME NEW t \in Task, lock = t, pc[t] # "acting", NEW to \in {"idle", "dead"}, Release(t, to)
              PROVE  lock' # None /\ pc'[lock'] = "acting" <=> lock # None /\ pc[lock] = "acting"
            BY <3>3, ReleaseLinks
        <3>4. ASSUME NEW t \in Task, lock = t, pc[t] # "acting", lock' = lock,
                     NEW to \in Routing \ {"acting"}, pc' = [pc EXCEPT ![t] = to]
              PROVE  lock' # None /\ pc'[lock'] = "acting" <=> lock # None /\ pc[lock] = "acting"
            BY <3>4, <1>t
        <3> QED BY <1>w, <3>1, <3>2, <3>3, <3>4 DEF busVars
    <2> QED BY <1>f, <1>u, <1>w, <2>1, LinkUndisturbed DEF PlatformInv
<1>d. ASSUME NEW t \in Task, Delivered(t)
      PROVE  lock' = lock /\ \E to \in {"check", "deliver"} : pc' = [pc EXCEPT ![t] = to]
    BY <1>d DEF Delivered
<1>1. CASE Poll
    BY <1>1, <1>w DEF Poll
<1>2. ASSUME NEW t \in Task, NEW e \in batch \cup {Note}, Publish(t, e) PROVE PlatformInv'
    BY <1>2, <1>w DEF Publish
<1>3. ASSUME NEW t \in Task, RouteNext(t) PROVE PlatformInv'
    <2>1. lock = t /\ pc[t] = "check" /\ UNCHANGED actVars
        BY <1>3 DEF RouteNext
    <2>2. CASE queue # <<>> /\ ~paused
        <3>1. /\ lock' = lock
              /\ \E to \in {"check", "deliver"} : pc' = [pc EXCEPT ![t] = to]
            BY <1>3, <2>2 DEF RouteNext
        <3> QED BY <1>w, <2>1, <3>1 DEF Routing
    <2>3. CASE ~(queue # <<>> /\ ~paused)
        <3>1. Release(t, "idle")
            BY <1>3, <2>3 DEF RouteNext
        <3> QED BY <1>w, <2>1, <3>1
    <2> QED BY <2>2, <2>3
<1>4. ASSUME NEW t \in Task, HandlerReturns(t) \/ HandlerPublishes(t) PROVE PlatformInv'
    <2>1. lock = t /\ pc[t] = "deliver" /\ UNCHANGED actVars
        BY <1>4 DEF HandlerReturns, HandlerPublishes, Handles
    <2>2. lock' = lock /\ \E to \in Routing \ {"acting"} : pc' = [pc EXCEPT ![t] = to]
        BY <1>4, <1>d DEF HandlerReturns, HandlerPublishes, Routing
    <2> QED BY <1>w, <2>1, <2>2
<1>5. ASSUME NEW t \in Task, HandlerRaises(t) PROVE PlatformInv'
    <2>1. lock = t /\ pc[t] = "deliver" /\ UNCHANGED actVars
        BY <1>5 DEF HandlerRaises, Handles
    <2>2. \E to \in {"idle", "dead"} : Release(t, to)
        BY <1>5 DEF HandlerRaises, Raises
    <2> QED BY <1>w, <2>1, <2>2
<1>6. ASSUME NEW t \in Task, HandlerActs(t) PROVE PlatformInv'
    <2>1. /\ lock = t /\ pc[t] = "deliver" /\ lock' = lock /\ t # None
          /\ pc' = [pc EXCEPT ![t] = "acting"]
        BY <1>6, NoTaskAssumption DEF HandlerActs, Handles, busVars
    <2>2. exec["chain"].st = "none"
        BY <2>1 DEF PlatformInv, ChainLink
    <2>3. exec'["chain"].st = "start"
        BY <1>6, <1>t DEF HandlerActs, Idle
    <2>4. ActInv'
        BY <1>6, <2>2, ChainBegins DEF PlatformInv
    <2> QED BY <1>f, <1>t, <2>1, <2>3, <2>4 DEF PlatformInv, ChainLink
<1>7. ASSUME NEW t \in Task, ChainReturns(t) \/ ChainExpires(t) PROVE PlatformInv'
    <2>1. ActInv' /\ lock = t /\ pc[t] = "acting"
        BY <1>7, ChainKeeps DEF PlatformInv, ChainReturns, ChainExpires
    <2>2. ASSUME exec' = [exec EXCEPT !["chain"] = Idle], Delivered(t) \/ Raises(t) PROVE PlatformInv'
        <3>1. ~(lock' # None /\ pc'[lock'] = "acting")
            <4>1. CASE Delivered(t)
                BY <1>d, <1>t, <2>1, <4>1
            <4>2. CASE Raises(t)
                <5>1. \E to \in {"idle", "dead"} : Release(t, to)
                    BY <4>2 DEF Raises
                <5> QED BY <2>1, <5>1, ReleaseLinks
            <4> QED BY <2>2, <4>1, <4>2
        <3>2. exec'["chain"].st = "none"
            BY <1>t, <2>2 DEF Idle
        <3> QED BY <1>f, <2>1, <3>1, <3>2 DEF PlatformInv, ChainLink
    <2>3. ASSUME exec["chain"].st = "run", UNCHANGED <<pc, busVars>>,
                 exec' = [exec EXCEPT !["chain"] = [After("chain") EXCEPT !.expired = TRUE]]
          PROVE  PlatformInv'
        <3>1. After("chain") \in Execs /\ After("chain").st # "none"
            BY <1>t, AfterIsExec DEF PlatformInv
        <3>2. exec'["chain"].st # "none"
            BY <1>t, <2>3, <3>1 DEF Execs
        <3> QED BY <1>f, <1>v, <2>1, <2>3, <3>2 DEF PlatformInv, busVars
    <2> QED BY <1>7, <2>2, <2>3 DEF ChainReturns, ChainExpires
<1>8. ASSUME NEW x \in Execution, Executing(x) PROVE PlatformInv'
    <2>1. UNCHANGED <<pc, lock>>
        BY <1>8 DEF Executing, Start, Retry, Operated, Cancelled, busVars
    <2> QED BY <1>8, <1>f, <1>v, <2>1, ExecutingKeeps, ExecutingLinks DEF PlatformInv
<1>9. CASE Call
    <2>1. UNCHANGED <<pc, lock>> /\ exec'["chain"] = exec["chain"]
        BY <1>9, <1>t DEF Call, busVars, Operate
    <2> QED BY <1>9, <1>f, <1>v, <2>1, CallKeeps DEF PlatformInv
<1>10. CASE EmergencyStop
    <2>1. UNCHANGED <<pc, lock>>
        BY <1>10 DEF EmergencyStop
    <2>2. exec'["chain"].st # "none" <=> exec["chain"].st # "none"
        BY <1>10, <1>t DEF EmergencyStop, Execs
    <2> QED BY <1>10, <1>f, <1>v, <2>1, <2>2, StopKeeps DEF PlatformInv
<1>11. CASE Resume
    <2>1. exec' = exec /\ ActInv' /\ Route("user") /\ pc["user"] = "idle" /\ "user" \in Task
        BY <1>11, ClearedKeeps DEF Resume, Cleared, PlatformInv, Task
    <2> QED BY <1>f, <2>1, RouteLinks, LinkUndisturbed DEF PlatformInv
<1>12. CASE ResumeAgentSystem
    <2>1. exec' = exec /\ ActInv' /\ UNCHANGED <<pc, lock>>
        BY <1>12, ClearedKeeps DEF ResumeAgentSystem, Cleared, PlatformInv
    <2> QED BY <1>f, <1>v, <2>1 DEF PlatformInv
<1>13. CASE Replay
    BY <1>13, <1>w DEF Replay, Task
<1>14. CASE UNCHANGED vars
    BY <1>14, <1>w DEF vars
<1> QED
    BY <1>1, <1>2, <1>3, <1>4, <1>5, <1>6, <1>7, <1>8, <1>9, <1>10, <1>11, <1>12, <1>13, <1>14
    DEF Next, Handling

LEMMA PlatformInitially == Init => PlatformInv
<1> SUFFICES ASSUME Init PROVE PlatformInv
    OBVIOUS
<1>1. /\ exec = [x \in Execution |-> Idle] /\ lock = None /\ stopped = FALSE
      /\ late = [x \in Execution |-> 0] /\ active = 0 /\ failures = 0 /\ open = FALSE
    BY DEF Init
<1>2. Idle \in Execs /\ Idle.agent /\ Idle.st = "none"
    BY Limits DEF Idle, Execs
<1>3. "chain" \in Execution /\ \A x \in Execution : exec[x] = Idle
    BY <1>1 DEF Execution
<1>4. AtWork = {} /\ Cardinality(AtWork) = 0
    <2>1. AtWork = {}
        BY <1>2, <1>3 DEF AtWork, Underway
    <2> QED BY <2>1, FS_EmptySet
<1>5. Circuit
    <2>1. failures \in 0..3 /\ failures # 3
        BY <1>1
    <2> QED BY <1>1, <2>1, Zenon DEF Circuit
<1>6. ActInv
    <2>1. exec \in [Execution -> Execs] /\ late \in [Execution -> Nat]
        BY <1>1, <1>2
    <2>2. \A x \in Execution : Patience(x) /\ exec[x].st # "backoff"
        BY <1>1, <1>2, <1>3 DEF Patience
    <2>3. active = Cardinality(AtWork) /\ active <= Concurrent
        BY <1>1, <1>4, Limits
    <2> QED BY <1>1, <1>2, <1>3, <1>5, <2>1, <2>2, <2>3 DEF ActInv
<1> QED BY <1>1, <1>2, <1>3, <1>6, ForwardingInitially DEF PlatformInv, ChainLink

LEMMA PlatformHolds == Spec => []PlatformInv
BY PlatformInitially, NextKeepsPlatform, PTL DEF Spec

(* After an emergency stop only the executions that were in back-off go on,*)
(* each for the retries it has left (actions.py:41-63): a retry counts its *)
(* attempt, and an execution that is over may not begin anew.              *)
THEOREM StopIsBoundedHolds == Spec => []StopIsBounded
<1>1. PlatformInv => StopIsBounded
    BY DEF PlatformInv, ActInv, Patience, StopIsBounded
<1> QED BY <1>1, PlatformHolds, PTL

-----------------------------------------------------------------------------
(* What is counted and remembered.                                         *)

LogInv ==
    /\ batch # {} => kind \in OnBus
    /\ seq \in 0..MaxEvents /\ paused \in BOOLEAN /\ abandoned \in BOOLEAN
    /\ history \in Seq(Range(history)) /\ Len(history) <= Retained
    /\ stops \in 0..MaxStops /\ calls \in 0..MaxCalls

LEMMA RemembersTheLatest ==
    ASSUME LogInv, NEW e, history' = Remembered(e)
    PROVE  history' \in Seq(Range(history')) /\ Len(history') <= Retained
<1> DEFINE S == Range(history) \cup {e}
           all == Append(history, e)
<1>1. history \in Seq(S) /\ Len(history) <= Retained
    BY DEF LogInv
<1>2. all \in Seq(S) /\ all # <<>> /\ Len(all) = Len(history) + 1
    BY <1>1, AppendProperties
<1>3. Tail(all) \in Seq(S) /\ Len(Tail(all)) = Len(history)
    BY <1>1, <1>2, HeadTailProperties
<1>4. history' = IF Len(all) > Retained THEN Tail(all) ELSE all
    BY DEF Remembered
<1> HIDE DEF S, all
<1>5. history' \in Seq(S) /\ Len(history') <= Retained
    BY <1>1, <1>2, <1>3, <1>4, Limits
<1> QED BY <1>5, SeqOfRange

LEMMA AcceptKeeps ==
    ASSUME LogInv, NEW e, Accept(e)
    PROVE  /\ seq' \in 0..MaxEvents
           /\ history' \in Seq(Range(history')) /\ Len(history') <= Retained
BY RemembersTheLatest, Limits DEF Accept, LogInv

(* The detector stands still but for its polls, and is always the same.    *)
LEMMA PollsOnly ==
    ASSUME [Next]_vars
    PROVE  Poll \/ UNCHANGED detectorVars
BY DEF Next, Publish, RouteNext, Handling, HandlerReturns, HandlerRaises, HandlerPublishes,
       HandlerActs, ChainReturns, ChainExpires, Raises, Executing, Start, Retry, Operated,
       Cancelled, Call, EmergencyStop, Resume, ResumeAgentSystem, Cleared, Replay, vars

LEMMA SameKind == DetectorNext => kind' = kind
BY DEF DetectorNext, PollInventory, PollPointer, Perceive, PerceiveCutOff, ClickAges, Schedule, Cancel, PollTimers, Tick

LEMMA Batches ==
    ASSUME LogInv, [Next]_vars
    PROVE  batch' # {} => kind' \in OnBus
<1>1. kind' = kind
    BY PollsOnly, SameKind DEF Poll, detectorVars
<1>2. batch' = {} \/ batch' \subseteq batch \/ kind \in OnBus
    BY DEF Next, Poll, Publish, RouteNext, Handling, HandlerReturns, HandlerRaises, HandlerPublishes,
           HandlerActs, ChainReturns, ChainExpires, Raises, Executing, Start, Retry, Operated,
           Cancelled, Call, EmergencyStop, Resume, ResumeAgentSystem, Cleared, Replay, vars
<1> QED BY <1>1, <1>2 DEF LogInv

LEMMA ReplayCounts ==
    ASSUME LogInv, Replay
    PROVE  seq' \in 0..MaxEvents
<1>1. PICK type : LET again(e) == type \in {"*", e.type}
                      number == Cardinality({i \in DOMAIN history : again(history[i])})
                  IN  seq + number <= MaxEvents /\ seq' = seq + number
    BY DEF Replay
<1> DEFINE N == {i \in DOMAIN history : type \in {"*", history[i].type}}
<1>2. Len(history) \in Nat /\ DOMAIN history = 1..Len(history)
    BY LenProperties DEF LogInv
<1>3. IsFiniteSet(DOMAIN history)
    BY <1>2, FS_Interval
<1>4. Cardinality(N) \in Nat
    BY <1>3, FS_Subset, FS_CardinalityType
<1>5. seq + Cardinality(N) <= MaxEvents /\ seq' = seq + Cardinality(N)
    BY <1>1
<1> HIDE DEF N
<1> QED BY <1>4, <1>5, Limits DEF LogInv

LEMMA NextKeepsLog ==
    ASSUME LogInv, [Next]_vars
    PROVE  LogInv'
<1>b. batch' # {} => kind' \in OnBus
    BY Batches
<1>u. ASSUME UNCHANGED <<seq, history>>, paused' = paused \/ paused' \in {TRUE, FALSE},
             abandoned' = abandoned \/ abandoned' \in {TRUE, FALSE},
             stops' = stops \/ stops' \in 0..MaxStops, calls' = calls \/ calls' \in 0..MaxCalls
      PROVE  LogInv'
    BY <1>b, <1>u DEF LogInv
<1>s. ASSUME UNCHANGED <<seq, history, paused, abandoned, stops, calls>> PROVE LogInv'
    BY <1>s, <1>u
<1>a. ASSUME NEW e, Accept(e), UNCHANGED <<paused, abandoned, stops, calls>> PROVE LogInv'
    BY <1>a, <1>b, AcceptKeeps DEF LogInv
<1>1. CASE Poll \/ UNCHANGED vars
    BY <1>1, <1>s DEF Poll, vars, busVars, actVars
<1>2. ASSUME NEW t \in Task, NEW e \in batch \cup {Note}, Publish(t, e) PROVE LogInv'
    BY <1>2, <1>s, <1>a DEF Publish, busVars, actVars
<1>3. ASSUME NEW t \in Task, RouteNext(t) PROVE LogInv'
    <2>1. UNCHANGED <<seq, history, paused, actVars>> /\ abandoned' \in {abandoned, TRUE, FALSE}
        BY <1>3 DEF RouteNext
    <2> QED BY <1>u, <2>1 DEF actVars
<1>4. ASSUME NEW t \in Task, HandlerReturns(t) \/ HandlerRaises(t) \/ HandlerActs(t) \/ ChainReturns(t)
                             \/ ChainExpires(t)
      PROVE  LogInv'
    <2>1. UNCHANGED <<seq, history, paused, stops, calls>> /\ abandoned' \in {abandoned, TRUE}
        BY <1>4 DEF HandlerReturns, HandlerRaises, HandlerActs, ChainReturns, ChainExpires,
                    Delivered, Raises, busVars, actVars
    <2> QED BY <1>u, <2>1
<1>5. ASSUME NEW t \in Task, HandlerPublishes(t) PROVE LogInv'
    <2>1. Accept(Note) /\ UNCHANGED <<paused, abandoned, stops, calls>>
        BY <1>5 DEF HandlerPublishes, Delivered, actVars
    <2> QED BY <1>a, <2>1
<1>6. ASSUME NEW x \in Execution, Executing(x) PROVE LogInv'
    BY <1>6, <1>s DEF Executing, Start, Retry, Operated, Cancelled, busVars
<1>7. CASE Call
    <2>1. calls' \in 0..MaxCalls /\ UNCHANGED <<seq, history, paused, abandoned, stops>>
        BY <1>7, Limits DEF Call, busVars, LogInv
    <2> QED BY <1>u, <2>1
<1>8. CASE EmergencyStop
    <2>1. stops' \in 0..MaxStops /\ paused' = TRUE /\ UNCHANGED <<seq, history, abandoned, calls>>
        BY <1>8, Limits DEF EmergencyStop, LogInv
    <2> QED BY <1>u, <2>1
<1>9. CASE Resume \/ ResumeAgentSystem
    <2>1. /\ UNCHANGED <<seq, history, stops, calls>> /\ paused' = FALSE
          /\ abandoned' = abandoned \/ abandoned' = TRUE
        BY <1>9 DEF Resume, ResumeAgentSystem, Cleared
    <2> QED BY <1>u, <2>1
<1>10. CASE Replay
    <2>1. UNCHANGED <<history, paused, abandoned, stops, calls>>
        BY <1>10 DEF Replay, actVars
    <2> QED BY <1>10, <1>b, <2>1, ReplayCounts DEF LogInv
<1> QED BY <1>1, <1>2, <1>3, <1>4, <1>5, <1>6, <1>7, <1>8, <1>9, <1>10 DEF Next, Handling

-----------------------------------------------------------------------------
(* What the events of a poll tell.                                         *)

(* Events that report who came and who left, and nobody else.              *)
Tells(old, new, events, in, out) ==
    /\ \A e \in events : e.type \in in => e.id \in DOMAIN new
    /\ \A e \in events : e.type \in out => e.id \notin DOMAIN new
    /\ \A e \in events : e.from # None => e.from \notin DOMAIN new
    /\ \A k \in Appeared(old, new) : \E e \in events : e.type \in in /\ e.id = k
    /\ \A k \in Gone(old, new) :
          \E e \in events : (e.type \in out /\ e.id = k) \/ (e.from = k /\ k # None)

LEMMA Roster ==
    ASSUME NEW old, NEW new, NEW events, NEW in, NEW out, NEW known, DOMAIN known = DOMAIN old,
           Tells(old, new, events, in, out)
    PROVE  DOMAIN Replayed(known, events, in, out) = DOMAIN new
<1> DEFINE moved == {e.from : e \in events} \ {None}
           kept == DOMAIN known \ (Ids(events, out) \cup moved)
<1>1. DOMAIN Replayed(known, events, in, out) = kept \cup Ids(events, in)
    BY DEF Replayed
<1>2. ASSUME NEW k \in kept \cup Ids(events, in) PROVE k \in DOMAIN new
    <2>1. CASE k \in Ids(events, in)
        BY <2>1 DEF Ids, Typed, Tells
    <2>2. CASE k \in kept
        <3>1. \A e \in events : ~(e.type \in out /\ e.id = k) /\ ~(e.from = k /\ k # None)
            BY <2>2 DEF Ids, Typed
        <3>2. k \in DOMAIN old /\ k \notin Gone(old, new)
            BY <2>2, <3>1 DEF Tells
        <3> QED BY <3>2 DEF Gone
    <2> QED BY <2>1, <2>2
<1>3. ASSUME NEW k \in DOMAIN new PROVE k \in kept \cup Ids(events, in)
    <2>1. CASE k \in DOMAIN old
        <3>1. k \notin Ids(events, out)
            BY DEF Ids, Typed, Tells
        <3>2. k \notin moved
            BY DEF Tells
        <3> QED BY <2>1, <3>1, <3>2
    <2>2. CASE k \notin DOMAIN old
        BY <2>2 DEF Tells, Appeared, Ids, Typed
    <2> QED BY <2>1, <2>2
<1> QED BY <1>1, <1>2, <1>3

(* If they also report who changed, and carry the values, nothing of the   *)
(* new reading is missing.                                                 *)
LEMMA Rebuilt ==
    ASSUME NEW old, NEW new, NEW events, NEW in, NEW out, Fcn(new),
           Tells(old, new, events, in, out),
           \A e \in events : e.type \in in => e.value = new[e.id],
           \A k \in Changed(old, new) : \E e \in events : e.type \in in /\ e.id = k
    PROVE  Replayed(old, events, in, out) = new
<1> DEFINE R == Replayed(old, events, in, out)
<1>1. DOMAIN R = DOMAIN new
    BY Roster
<1>2. /\ R = [k \in DOMAIN R |-> R[k]]
      /\ \A k \in DOMAIN R : R[k] = IF k \in Ids(events, in)
                                  THEN (CHOOSE e \in Typed(events, in) : e.id = k).value
                                  ELSE old[k]
    BY DEF Replayed
<1>3. ASSUME NEW k \in DOMAIN new PROVE R[k] = new[k]
    <2>1. CASE k \in Ids(events, in)
        <3>1. \E e \in Typed(events, in) : e.id = k
            BY <2>1 DEF Ids
        <3> DEFINE e == CHOOSE e \in Typed(events, in) : e.id = k
        <3>2. e \in Typed(events, in) /\ e.id = k
            BY <3>1
        <3>3. e.value = new[k]
            BY <3>2 DEF Typed
        <3> QED BY <1>1, <1>2, <2>1, <3>3
    <2>2. CASE k \notin Ids(events, in)
        <3>1. k \notin Appeared(old, new) /\ k \notin Changed(old, new)
            BY <2>2 DEF Ids, Typed, Tells
        <3>2. old[k] = new[k]
            BY <3>1 DEF Appeared, Changed
        <3> QED BY <1>1, <1>2, <2>2, <3>2
    <2> QED BY <2>1, <2>2
<1> HIDE DEF R
<1>4. R = [k \in DOMAIN new |-> R[k]]
    BY <1>1, <1>2
<1>5. [k \in DOMAIN new |-> R[k]] = [k \in DOMAIN new |-> new[k]]
    BY <1>3
<1> QED BY <1>4, <1>5 DEF Fcn, R

LEMMA EvFields ==
    ASSUME NEW type, NEW id, NEW value
    PROVE  /\ Ev(type, id, value).type = type /\ Ev(type, id, value).id = id
           /\ Ev(type, id, value).value = value /\ Ev(type, id, value).from = None
BY DEF Ev

(* The three ways most detectors report.                                   *)
LEMMA Reports ==
    ASSUME NEW type, NEW old, NEW new
    PROVE  /\ \A e \in Enter(type, old, new) : /\ e.type = type /\ e.id \in Appeared(old, new)
                                             /\ e.value = new[e.id] /\ e.from = None
           /\ \A k \in Appeared(old, new) : \E e \in Enter(type, old, new) : e.type = type /\ e.id = k
           /\ \A e \in Change(type, old, new) : /\ e.type = type /\ e.id \in Changed(old, new)
                                              /\ e.value = new[e.id] /\ e.from = None
           /\ \A k \in Changed(old, new) : \E e \in Change(type, old, new) : e.type = type /\ e.id = k
           /\ \A e \in Leave(type, old, new) : e.type = type /\ e.id \in Gone(old, new) /\ e.from = None
           /\ \A k \in Gone(old, new) : \E e \in Leave(type, old, new) : e.type = type /\ e.id = k
<1>1. ASSUME NEW e \in Enter(type, old, new)
      PROVE  e.type = type /\ e.id \in Appeared(old, new) /\ e.value = new[e.id] /\ e.from = None
    <2>1. PICK k \in Appeared(old, new) : e = Ev(type, k, new[k])
        BY DEF Enter
    <2> QED BY <2>1, EvFields
<1>2. ASSUME NEW k \in Appeared(old, new) PROVE \E e \in Enter(type, old, new) : e.type = type /\ e.id = k
    <2>1. Ev(type, k, new[k]) \in Enter(type, old, new)
        BY DEF Enter
    <2> QED BY <2>1, EvFields
<1>3. ASSUME NEW e \in Change(type, old, new)
      PROVE  e.type = type /\ e.id \in Changed(old, new) /\ e.value = new[e.id] /\ e.from = None
    <2>1. PICK k \in Changed(old, new) : e = Ev(type, k, new[k])
        BY DEF Change
    <2> QED BY <2>1, EvFields
<1>4. ASSUME NEW k \in Changed(old, new) PROVE \E e \in Change(type, old, new) : e.type = type /\ e.id = k
    <2>1. Ev(type, k, new[k]) \in Change(type, old, new)
        BY DEF Change
    <2> QED BY <2>1, EvFields
<1>5. ASSUME NEW e \in Leave(type, old, new)
      PROVE  e.type = type /\ e.id \in Gone(old, new) /\ e.from = None
    <2>1. PICK k \in Gone(old, new) : e = Ev(type, k, old[k])
        BY DEF Leave
    <2> QED BY <2>1, EvFields
<1>6. ASSUME NEW k \in Gone(old, new) PROVE \E e \in Leave(type, old, new) : e.type = type /\ e.id = k
    <2>1. Ev(type, k, old[k]) \in Leave(type, old, new)
        BY DEF Leave
    <2> QED BY <2>1, EvFields
<1> QED BY <1>1, <1>2, <1>3, <1>4, <1>5, <1>6

LEMMA Apart ==
    ASSUME NEW old, NEW new
    PROVE  /\ Appeared(old, new) \subseteq DOMAIN new /\ Changed(old, new) \subseteq DOMAIN new
           /\ Gone(old, new) \cap DOMAIN new = {}
BY DEF Appeared, Changed, Gone

-----------------------------------------------------------------------------
(* Detector by detector: the listener that held what the detector held     *)
(* before the poll holds what the poll found.                              *)

LEMMA TellsOf ==
    ASSUME NEW old, NEW new, NEW events, NEW in, NEW out, NEW came \in in, NEW left \in out,
           Enter(came, old, new) \subseteq events, Leave(left, old, new) \subseteq events,
           \A e \in events : /\ e.from = None
                             /\ e.type \in in => e.id \in DOMAIN new
                             /\ e.type \in out => e.id \notin DOMAIN new
    PROVE  Tells(old, new, events, in, out)
<1>1. \A k \in Appeared(old, new) : \E e \in events : e.type \in in /\ e.id = k
    BY Reports
<1>2. ASSUME NEW k \in Gone(old, new)
      PROVE  \E e \in events : (e.type \in out /\ e.id = k) \/ (e.from = k /\ k # None)
    <2>1. PICK e \in Leave(left, old, new) : e.type = left /\ e.id = k
        BY Reports
    <2> QED BY <2>1
<1>3. /\ \A e \in events : e.type \in in => e.id \in DOMAIN new
      /\ \A e \in events : e.type \in out => e.id \notin DOMAIN new
      /\ \A e \in events : e.from # None => e.from \notin DOMAIN new
    OBVIOUS
<1> QED BY <1>1, <1>2, <1>3, Zenon DEF Tells

(* Network interfaces, injected readers and sessions.                      *)
LEMMA ValuesTold ==
    ASSUME NEW old, NEW new, Fcn(new), NEW came \in Enters, NEW differs \in Enters, NEW left \in Leaves
    PROVE  Replayed(old, UNION {Enter(came, old, new), Change(differs, old, new), Leave(left, old, new)},
                    Enters, Leaves) = new
<1> DEFINE events == UNION {Enter(came, old, new), Change(differs, old, new), Leave(left, old, new)}
<1>0. Enters \cap Leaves = {}
    BY DEF Enters, Leaves
<1>1. /\ Enter(came, old, new) \subseteq events /\ Change(differs, old, new) \subseteq events
      /\ Leave(left, old, new) \subseteq events
      /\ \A e \in events : \/ e \in Enter(came, old, new)
                           \/ e \in Change(differs, old, new)
                           \/ e \in Leave(left, old, new)
    OBVIOUS
<1> HIDE DEF events
<1>2. ASSUME NEW e \in events
      PROVE  /\ e.from = None /\ (e.type \in Leaves => e.id \notin DOMAIN new)
             /\ e.type \in Enters => e.id \in DOMAIN new /\ e.value = new[e.id]
    <2>1. CASE e \in Enter(came, old, new)
        BY <1>0, <2>1, Reports, Apart
    <2>2. CASE e \in Change(differs, old, new)
        BY <1>0, <2>2, Reports, Apart
    <2>3. CASE e \in Leave(left, old, new)
        BY <1>0, <2>3, Reports, Apart
    <2> QED BY <1>1, <2>1, <2>2, <2>3
<1>3. Tells(old, new, events, Enters, Leaves)
    BY <1>1, <1>2, TellsOf
<1>4. \A k \in Changed(old, new) : \E e \in events : e.type \in Enters /\ e.id = k
    BY <1>1, Reports
<1> QED BY <1>2, <1>3, <1>4, Rebuilt DEF events

(* Processes and devices.                                                  *)
LEMMA MembersTold ==
    ASSUME NEW old, NEW new, NEW known, DOMAIN known = DOMAIN old, NEW events,
           NEW came \in Enters, NEW left \in Leaves, NEW others, others \cap (Enters \cup Leaves) = {},
           Enter(came, old, new) \subseteq events, Leave(left, old, new) \subseteq events,
           \A e \in events : \/ e \in Enter(came, old, new)
                             \/ e \in Leave(left, old, new)
                             \/ (e.type \in others /\ e.from = None)
    PROVE  DOMAIN Replayed(known, events, Enters, Leaves) = DOMAIN new
<1>0. Enters \cap Leaves = {}
    BY DEF Enters, Leaves
<1>1. \A e \in events : /\ e.from = None
                        /\ e.type \in Enters => e.id \in DOMAIN new
                        /\ e.type \in Leaves => e.id \notin DOMAIN new
    BY <1>0, Reports, Apart
<1>2. Tells(old, new, events, Enters, Leaves)
    BY <1>1, TellsOf
<1> QED BY <1>2, Roster

LEMMA ProcessesTold ==
    ASSUME NEW old, NEW new, NEW known, DOMAIN known = DOMAIN old
    PROVE  DOMAIN Replayed(known, ProcessEvents(old, new), Enters, Leaves) = DOMAIN new
<1> DEFINE events == ProcessEvents(old, new)
           others == {}
<1>1. "started" \in Enters /\ "stopped" \in Leaves /\ others \cap (Enters \cup Leaves) = {}
    BY DEF Enters, Leaves
<1>2. events = Enter("started", old, new) \cup Leave("stopped", old, new)
    BY DEF ProcessEvents
<1> HIDE DEF events, others
<1>3. /\ Enter("started", old, new) \subseteq events /\ Leave("stopped", old, new) \subseteq events
      /\ \A e \in events : \/ e \in Enter("started", old, new)
                           \/ e \in Leave("stopped", old, new)
                           \/ (e.type \in others /\ e.from = None)
    BY <1>2
<1>4. DOMAIN Replayed(known, events, Enters, Leaves) = DOMAIN new
    BY <1>1, <1>3, MembersTold
<1> QED BY <1>4 DEF events

LEMMA DevicesTold ==
    ASSUME NEW old, NEW new, NEW known, DOMAIN known = DOMAIN old
    PROVE  DOMAIN Replayed(known, DeviceEvents(old, new), Enters, Leaves) = DOMAIN new
<1> DEFINE events == DeviceEvents(old, new)
           others == {"class_connected", "class_disconnected"}
<1>1. /\ "device_connected" \in Enters /\ "device_disconnected" \in Leaves
      /\ others \cap (Enters \cup Leaves) = {}
    BY DEF Enters, Leaves
<1>2. /\ Enter("device_connected", old, new) \subseteq events
      /\ Leave("device_disconnected", old, new) \subseteq events
    BY DEF DeviceEvents
<1>3. \A e \in events : \/ e \in Enter("device_connected", old, new)
                        \/ e \in Leave("device_disconnected", old, new)
                        \/ (e.type \in others /\ e.from = None)
    BY Reports DEF DeviceEvents
<1> HIDE DEF events, others
<1>4. DOMAIN Replayed(known, events, Enters, Leaves) = DOMAIN new
    BY <1>1, <1>2, <1>3, MembersTold
<1> QED BY <1>4 DEF events

LEMMA AudioTold ==
    ASSUME NEW old, NEW new, NEW known, DOMAIN known = DOMAIN old
    PROVE  DOMAIN Replayed(known, AudioEvents(old, new), Enters, Leaves) = DOMAIN new
<1> DEFINE events == AudioEvents(old, new)
           others == {"audio_connected", "audio_disconnected"}
<1>1. /\ "audio_now_connected" \in Enters /\ "audio_now_disconnected" \in Leaves
      /\ others \cap (Enters \cup Leaves) = {}
    BY DEF Enters, Leaves
<1>2. /\ Enter("audio_now_connected", old, new) \subseteq events
      /\ Leave("audio_now_disconnected", old, new) \subseteq events
    BY DEF AudioEvents
<1>3. \A e \in events : \/ e \in Enter("audio_now_connected", old, new)
                        \/ e \in Leave("audio_now_disconnected", old, new)
                        \/ (e.type \in others /\ e.from = None)
    BY Reports DEF AudioEvents
<1> HIDE DEF events, others
<1>4. DOMAIN Replayed(known, events, Enters, Leaves) = DOMAIN new
    BY <1>1, <1>2, <1>3, MembersTold
<1> QED BY <1>4 DEF events

LEMMA NotificationsTold ==
    ASSUME NEW old, NEW new, NEW known, DOMAIN old \subseteq DOMAIN known
    PROVE  DOMAIN new \subseteq DOMAIN Replayed(known, NotificationEvents(old, new), Enters, Leaves)
<1> DEFINE events == NotificationEvents(old, new)
           kept == DOMAIN known \ (Ids(events, Leaves) \cup ({e.from : e \in events} \ {None}))
<1>1. DOMAIN Replayed(known, events, Enters, Leaves) = kept \cup Ids(events, Enters)
    BY DEF Replayed
<1>2. \A e \in events : e.type = "notification" /\ e.from = None
    BY Reports DEF NotificationEvents
<1>3. "notification" \in Enters /\ "notification" \notin Leaves
    BY DEF Enters, Leaves
<1>4. kept = DOMAIN known
    BY <1>2, <1>3 DEF Ids, Typed
<1>5. Appeared(old, new) \subseteq Ids(events, Enters)
    <2>1. ASSUME NEW k \in Appeared(old, new) PROVE k \in Ids(events, Enters)
        <3>1. \E e \in events : e.type = "notification" /\ e.id = k
            BY Reports DEF NotificationEvents
        <3> QED BY <1>3, <3>1 DEF Ids, Typed
    <2> QED BY <2>1
<1> QED BY <1>1, <1>4, <1>5 DEF Appeared

(* Windows: each of their events carries all that is read of the window.   *)
LEMMA WindowsTold ==
    ASSUME NEW new \in World["windows"], NEW old \in World["windows"] \cup {<<>>}
    PROVE  Replayed(old, WindowEvents(old, new), Enters, Leaves) = new
<1> DEFINE events == WindowEvents(old, new)
           D(f) == {k \in Changed(old, new) : old[k][f] # new[k][f]}
           Fields == {"title", "position", "size"}
           Types == {"title_changed", "moved", "resized", "restored", "minimized", "maximized",
                     "state_changed"}
<1>0. /\ Fcn(new) /\ DOMAIN FieldEvent = Fields
      /\ \A k \in Changed(old, new) : /\ new[k].state \in {"normal", "minimized", "maximized"}
                                     /\ \E f \in Fields \cup {"state"} : k \in D(f)
    <2>1. Fcn(new) /\ DOMAIN FieldEvent = Fields /\ DOMAIN StateEvent = {"normal", "minimized", "maximized"}
        BY WorldAssumption DEF Inventory, FieldEvent, StateEvent
    <2>2. ASSUME NEW k \in Changed(old, new)
          PROVE  /\ old[k] = [title |-> old[k].title, position |-> old[k].position,
                              size |-> old[k].size, state |-> old[k].state]
                 /\ new[k] = [title |-> new[k].title, position |-> new[k].position,
                              size |-> new[k].size, state |-> new[k].state]
                 /\ new[k].state \in DOMAIN StateEvent /\ old[k] # new[k]
        <3>1. k \in DOMAIN old /\ k \in DOMAIN new /\ old # <<>> /\ old[k] # new[k]
            BY DEF Changed
        <3> QED BY <3>1, WorldAssumption
    <2>3. ASSUME NEW k \in Changed(old, new) PROVE \E f \in Fields \cup {"state"} : k \in D(f)
        BY <2>2
    <2> QED BY <2>1, <2>2, <2>3
<1>1. /\ Enter("window_opened", old, new) \subseteq events /\ Leave("window_closed", old, new) \subseteq events
      /\ \A f \in Fields : \A k \in D(f) : Ev(FieldEvent[f], k, new[k]) \in events
      /\ \A k \in D("state") : Ev("state_changed", k, new[k]) \in events
    BY <1>0 DEF WindowEvents
<1>2. ASSUME NEW e \in events
      PROVE  \/ e \in Enter("window_created", old, new) \cup Enter("window_opened", old, new)
             \/ e \in Leave("window_destroyed", old, new) \cup Leave("window_closed", old, new)
             \/ \E type \in Types : \E k \in Changed(old, new) : e = Ev(type, k, new[k])
    <2>1. \/ e \in Enter("window_created", old, new) \cup Enter("window_opened", old, new)
          \/ e \in Leave("window_destroyed", old, new) \cup Leave("window_closed", old, new)
          \/ \E f \in Fields : \E k \in D(f) : e = Ev(FieldEvent[f], k, new[k])
          \/ \E k \in D("state") : e = Ev(StateEvent[new[k].state], k, new[k])
          \/ \E k \in D("state") : e = Ev("state_changed", k, new[k])
        BY <1>0 DEF WindowEvents
    <2>2. \A f \in Fields : FieldEvent[f] \in Types
        BY DEF FieldEvent
    <2>3. \A k \in Changed(old, new) : StateEvent[new[k].state] \in Types
        BY <1>0 DEF StateEvent
    <2> QED BY <2>1, <2>2, <2>3
<1>3. /\ Types \subseteq Enters /\ Enters \cap Leaves = {}
      /\ "window_opened" \in Enters /\ "window_closed" \in Leaves
      /\ {"window_created", "window_destroyed"} \cap (Enters \cup Leaves) = {}
    BY DEF Enters, Leaves
<1> HIDE DEF events, Types
<1>4. ASSUME NEW e \in events
      PROVE  /\ e.from = None /\ (e.type \in Leaves => e.id \notin DOMAIN new)
             /\ e.type \in Enters => e.id \in DOMAIN new /\ e.value = new[e.id]
    <2>1. CASE e \in Enter("window_created", old, new) \cup Enter("window_opened", old, new)
        BY <1>3, <2>1, Reports, Apart
    <2>2. CASE e \in Leave("window_destroyed", old, new) \cup Leave("window_closed", old, new)
        BY <1>3, <2>2, Reports, Apart
    <2>3. ASSUME NEW type \in Types, NEW k \in Changed(old, new), e = Ev(type, k, new[k])
          PROVE  /\ e.from = None /\ e.type \notin Leaves
                 /\ e.id \in DOMAIN new /\ e.value = new[e.id]
        BY <1>3, <2>3, EvFields, Apart
    <2> QED BY <1>2, <2>1, <2>2, <2>3
<1>5. Tells(old, new, events, Enters, Leaves)
    BY <1>1, <1>3, <1>4, TellsOf
<1>6. ASSUME NEW k \in Changed(old, new) PROVE \E e \in events : e.type \in Enters /\ e.id = k
    <2>1. \E type \in Types : Ev(type, k, new[k]) \in events
        <3>1. PICK f \in Fields \cup {"state"} : k \in D(f)
            BY <1>0
        <3>2. CASE f \in Fields
            BY <1>1, <3>1, <3>2 DEF FieldEvent, Types
        <3>3. CASE f = "state"
            BY <1>1, <3>1, <3>3 DEF Types
        <3> QED BY <3>2, <3>3
    <2> QED BY <1>3, <2>1, EvFields
<1> QED BY <1>0, <1>4, <1>5, <1>6, Rebuilt DEF events

(* Files: a path that is gone was deleted, or it is the origin of a path   *)
(* that appeared with its inode.                                           *)
Contents(files) == [p \in DOMAIN files |-> files[p].content]

LEMMA FilesTold ==
    ASSUME NEW new \in World["files"], NEW old \in World["files"] \cup {<<>>}
    PROVE  Replayed(Contents(old), FileEvents(old, new), Enters, Leaves) = Contents(new)
<1> DEFINE events == FileEvents(old, new)
           origins(k) == {g \in Gone(old, new) : old[g].inode = new[k].inode}
           moved == {k \in Appeared(old, new) : new[k].inode # 0 /\ origins(k) # {}}
           origin(k) == CHOOSE g \in origins(k) : TRUE
           mv(k) == [Ev("moved", k, new[k].content) EXCEPT !.from = origin(k)]
           was == Contents(old)
           is == Contents(new)
<1>0. None \notin DOMAIN old
    <2>1. None \notin DOMAIN <<>>
        OBVIOUS
    <2> QED BY <2>1, WorldAssumption DEF Inventory
<1>c. /\ Fcn(is) /\ DOMAIN was = DOMAIN old /\ DOMAIN is = DOMAIN new
      /\ \A k \in DOMAIN new : is[k] = new[k].content
      /\ \A k \in DOMAIN old : was[k] = old[k].content
    BY DEF Contents, Fcn
<1>d. /\ Appeared(was, is) = Appeared(old, new) /\ Gone(was, is) = Gone(old, new)
      /\ Changed(was, is) \subseteq Changed(old, new)
    BY <1>c DEF Appeared, Gone, Changed
<1> HIDE DEF was, is
<1>1. \A k \in moved : origin(k) \in Gone(old, new)
    OBVIOUS
<1>2. ASSUME NEW k
      PROVE  /\ mv(k).type = "moved" /\ mv(k).id = k /\ mv(k).value = new[k].content
             /\ mv(k).from = origin(k)
    BY DEF Ev
<1>3. ASSUME NEW e
      PROVE  e \in events <=>
                \/ \E k \in moved : e = mv(k)
                \/ \E k \in Appeared(old, new) \ moved : e = Ev("created", k, new[k].content)
                \/ \E k \in Changed(old, new) : e = Ev("modified", k, new[k].content)
                \/ \E k \in Gone(old, new) \ {origin(j) : j \in moved} : e = Ev("deleted", k, None)
    BY DEF FileEvents
<1>4. /\ {"moved", "created", "modified"} \subseteq Enters /\ "deleted" \in Leaves
      /\ Enters \cap Leaves = {}
    BY DEF Enters, Leaves
<1> HIDE DEF events, moved, origin, mv
<1>5. moved \subseteq Appeared(old, new)
    BY DEF moved
<1>6. ASSUME NEW e \in events
      PROVE  /\ e.from # None => e.from \notin DOMAIN new
             /\ e.type \in Leaves => e.id \notin DOMAIN new
             /\ e.type \in Enters => e.id \in DOMAIN new /\ e.value = is[e.id]
    <2>1. ASSUME NEW k \in moved, e = mv(k) PROVE /\ e.type \notin Leaves /\ e.from \notin DOMAIN new
                                                  /\ e.id \in DOMAIN new /\ e.value = is[e.id]
        BY <1>1, <1>2, <1>4, <1>5, <1>c, <2>1, Apart
    <2>2. ASSUME NEW k \in Appeared(old, new), e = Ev("created", k, new[k].content)
          PROVE  /\ e.type \notin Leaves /\ e.from = None
                 /\ e.id \in DOMAIN new /\ e.value = is[e.id]
        BY <1>4, <1>c, <2>2, EvFields, Apart
    <2>3. ASSUME NEW k \in Changed(old, new), e = Ev("modified", k, new[k].content)
          PROVE  /\ e.type \notin Leaves /\ e.from = None
                 /\ e.id \in DOMAIN new /\ e.value = is[e.id]
        BY <1>4, <1>c, <2>3, EvFields, Apart
    <2>4. ASSUME NEW k \in Gone(old, new), e = Ev("deleted", k, None)
          PROVE  e.type \notin Enters /\ e.from = None /\ e.id \notin DOMAIN new
        BY <1>4, <2>4, EvFields, Apart
    <2> QED BY <1>3, <2>1, <2>2, <2>3, <2>4
<1>7. ASSUME NEW k \in Appeared(old, new) PROVE \E e \in events : e.type \in Enters /\ e.id = k
    <2>1. CASE k \in moved
        <3>1. mv(k) \in events
            BY <1>3, <2>1
        <3> QED BY <1>2, <1>4, <3>1
    <2>2. CASE k \notin moved
        <3>1. Ev("created", k, new[k].content) \in events
            BY <1>3, <2>2
        <3> QED BY <1>4, <3>1, EvFields
    <2> QED BY <2>1, <2>2
<1>8. ASSUME NEW k \in Gone(old, new)
      PROVE  \E e \in events : (e.type \in Leaves /\ e.id = k) \/ (e.from = k /\ k # None)
    <2>1. CASE k \in {origin(j) : j \in moved}
        <3>1. PICK j \in moved : k = origin(j)
            BY <2>1
        <3>2. mv(j) \in events /\ k # None
            BY <1>0, <1>3 DEF Gone
        <3> QED BY <1>2, <3>1, <3>2
    <2>2. CASE k \notin {origin(j) : j \in moved}
        <3>1. Ev("deleted", k, None) \in events
            BY <1>3, <2>2
        <3> QED BY <1>4, <3>1, EvFields
    <2> QED BY <2>1, <2>2
<1>9. ASSUME NEW k \in Changed(old, new) PROVE \E e \in events : e.type \in Enters /\ e.id = k
    <2>1. Ev("modified", k, new[k].content) \in events
        BY <1>3
    <2> QED BY <1>4, <2>1, EvFields
<1>10. Tells(was, is, events, Enters, Leaves)
    BY <1>6, <1>7, <1>8, <1>c, <1>d DEF Tells
<1>11. Replayed(was, events, Enters, Leaves) = is
    BY <1>6, <1>9, <1>10, <1>c, <1>d, Rebuilt
<1> QED BY <1>11 DEF events, was, is

(* Single readings.                                                        *)
LEMMA LastOf ==
    ASSUME NEW known, NEW events
    PROVE  /\ events = {} => LastValue(known, events) = known
           /\ events # {} => \E e \in events : LastValue(known, events) = e.value
BY DEF LastValue

LEMMA ReadingTold ==
    ASSUME NEW old, NEW new, NEW type
    PROVE  LastValue(old, IF new = old THEN {} ELSE {Ev(type, None, new)}) = new
<1> DEFINE events == IF new = old THEN {} ELSE {Ev(type, None, new)}
<1>1. \A e \in events : e.value = new
    BY EvFields
<1>2. events = {} => new = old
    OBVIOUS
<1> HIDE DEF events
<1>3. LastValue(old, events) = new
    BY <1>1, <1>2, LastOf
<1> QED BY <1>3 DEF events

LEMMA ReadingsTold ==
    ASSUME NEW old, NEW new
    PROVE  /\ LastValue(old, PositionEvents(old, new)) = new
           /\ LastValue(old, DiskEvents(old, new)) = new
           /\ LastValue(old, DisplayEvents(old, new)) = new
BY ReadingTold DEF PositionEvents, DiskEvents, DisplayEvents

LEMMA ClipboardTold ==
    ASSUME NEW new \in World["clipboard"], NEW old, NEW known,
           known = IF old = None THEN None ELSE old.length
    PROVE  LastValue(known, ClipboardEvents(old, new)) = new.length
<1>0. new # None
    BY WorldAssumption
<1>1. CASE new = old
    BY <1>0, <1>1 DEF ClipboardEvents, LastValue
<1>2. CASE new # old
    <2> DEFINE events == ClipboardEvents(old, new)
    <2>1. events = {Ev("clipboard", None, new.length)}
        BY <1>2 DEF ClipboardEvents
    <2>2. events # {} /\ \A e \in events : e.value = new.length
        BY <2>1, EvFields
    <2> HIDE DEF events
    <2>3. LastValue(known, events) = new.length
        BY <2>2, LastOf
    <2> QED BY <2>3 DEF events
<1> QED BY <1>1, <1>2

LEMMA PowerTold ==
    ASSUME NEW new \in World["power"], NEW old \in World["power"] \cup {None}
    PROVE  LastValue(old, PowerEvents(old, new)) = IF new = None THEN old ELSE new
<1> DEFINE events == PowerEvents(old, new)
<1>1. CASE new \in {None, old}
    BY <1>1 DEF PowerEvents, LastValue
<1>3. Ev("ac", None, new).type = "ac" /\ Ev("level", None, new).type = "level"
    BY EvFields
<1>2. CASE new \notin {None, old}
    <2>1. \A e \in events : e.value = new
        BY <1>2, EvFields DEF PowerEvents
    <2>2. events # {}
        <3>1. CASE old = None
            <4>1. Ev("ac", None, new) \in events
                BY <1>2, <1>3, <3>1 DEF PowerEvents
            <4> QED BY <4>1
        <3>2. CASE old # None
            <4>1. old \in [charging : BOOLEAN, level : Nat] /\ new \in [charging : BOOLEAN, level : Nat]
                BY <1>2, <3>2, WorldAssumption
            <4>2. old.charging # new.charging \/ old.level # new.level
                BY <1>2, <4>1
            <4>3. Ev("ac", None, new) \in events \/ Ev("level", None, new) \in events
                BY <1>2, <1>3, <3>2, <4>2 DEF PowerEvents
            <4> QED BY <4>3
        <3> QED BY <3>1, <3>2
    <2> HIDE DEF events
    <2>3. LastValue(old, events) = new
        BY <2>1, <2>2, LastOf
    <2> QED BY <1>2, <2>3 DEF events
<1> QED BY <1>1, <1>2

(* Keys.                                                                   *)
LEMMA KeysTold ==
    ASSUME NEW old, NEW new
    PROVE  LET events == KeyEvents(old, new, FALSE, TRUE)
           IN  (old \ Ids(events, {"key_up"})) \cup Ids(events, {"key_down"}) = new
<1> DEFINE events == KeyEvents(old, new, FALSE, TRUE)
           mods == new \cap Modifier
<1>0. \A k : Protect(k, FALSE, TRUE) = k
    BY DEF Protect
<1>1. ASSUME NEW e
      PROVE  e \in events =>
                \/ \E k \in new \ old : e = Ev("key_down", k, mods)
                \/ \E k \in new \ old : e = Ev("key_press", k, mods)
                \/ \E k \in old \ new : e = Ev("key_up", k, mods)
                \/ e = Ev("modifiers", None, mods)
                \/ \E v : e = Ev("hotkey", None, v)
    <2>1. e \in events =>
            \/ \E k \in new \ old : e = Ev("key_down", Protect(k, FALSE, TRUE), mods)
            \/ \E k \in new \ old : e = Ev("key_press", Protect(k, FALSE, TRUE), mods)
            \/ \E k \in old \ new : e = Ev("key_up", Protect(k, FALSE, TRUE), mods)
            \/ e = Ev("modifiers", None, mods)
            \/ \E v : e = Ev("hotkey", None, v)
        BY DEF KeyEvents
    <2> QED BY <1>0, <2>1
<1>2. /\ \A k \in new \ old : Ev("key_down", k, mods) \in events
      /\ \A k \in old \ new : Ev("key_up", k, mods) \in events
    BY <1>0 DEF KeyEvents
<1> HIDE DEF events, mods
<1>3. Ids(events, {"key_down"}) = new \ old
    BY <1>1, <1>2, EvFields DEF Ids, Typed
<1>4. Ids(events, {"key_up"}) = old \ new
    BY <1>1, <1>2, EvFields DEF Ids, Typed
<1> QED BY <1>3, <1>4 DEF events

LEMMA ModifiersTold ==
    ASSUME NEW old, NEW new
    PROVE  LastValue(old \cap Modifier, Typed(KeyEvents(old, new, FALSE, FALSE), {"modifiers"}))
           = new \cap Modifier
<1> DEFINE events == KeyEvents(old, new, FALSE, FALSE)
           mods == new \cap Modifier
<1>1. ASSUME NEW e \in events, e.type = "modifiers" PROVE e = Ev("modifiers", None, mods)
    <2>1. \/ \E type \in {"key_down", "key_press", "key_up"} : \E k : e = Ev(type, k, mods)
          \/ e = Ev("modifiers", None, mods)
          \/ \E v : e = Ev("hotkey", None, v)
        BY DEF KeyEvents
    <2>2. ASSUME NEW type, NEW k, NEW v, e = Ev(type, k, v) PROVE type = "modifiers"
        BY <1>1, <2>2, EvFields
    <2> QED BY <2>1, <2>2
<1>2. mods = old \cap Modifier \/ Ev("modifiers", None, mods) \in events
    BY DEF KeyEvents
<1> HIDE DEF events
<1>3. \A e \in Typed(events, {"modifiers"}) : e.value = mods
    BY <1>1, EvFields DEF Typed
<1>4. Typed(events, {"modifiers"}) = {} => old \cap Modifier = mods
    BY <1>2, EvFields DEF Typed
<1>5. LastValue(old \cap Modifier, Typed(events, {"modifiers"})) = mods
    BY <1>3, <1>4, LastOf
<1> QED BY <1>5 DEF events

(* Timers: those that fired and do not repeat are forgotten.               *)
TimerRecord == [when : Int, interval : 0..2]

LEMMA TimersTold ==
    ASSUME NEW timers, NEW t \in Int, \A u \in DOMAIN timers : timers[u] \in TimerRecord
    PROVE  /\ DOMAIN TimersAfter(timers, t)
                = DOMAIN timers \ {e.id : e \in {f \in TimerEvents(timers, t) : f.value = 0}}
           /\ \A u \in DOMAIN TimersAfter(timers, t) : TimersAfter(timers, t)[u] \in TimerRecord
<1>1. DOMAIN TimersAfter(timers, t)
        = {u \in DOMAIN timers : u \in Due(timers, t) => timers[u].interval > 0}
    BY DEF TimersAfter
<1>2. {e.id : e \in {f \in TimerEvents(timers, t) : f.value = 0}}
        = {u \in Due(timers, t) : timers[u].interval = 0}
    <2>1. ASSUME NEW u \in Due(timers, t)
          PROVE  LET e == Ev("timer", u, timers[u].interval)
                 IN  e \in TimerEvents(timers, t) /\ e.id = u /\ e.value = timers[u].interval
        BY EvFields DEF TimerEvents
    <2>2. ASSUME NEW e \in TimerEvents(timers, t)
          PROVE  e.id \in Due(timers, t) /\ e.value = timers[e.id].interval
        BY EvFields DEF TimerEvents
    <2> QED BY <2>1, <2>2
<1>3. \A u \in DOMAIN timers : timers[u].interval > 0 <=> timers[u].interval # 0
    BY DEF TimerRecord
<1>4. ASSUME NEW u \in DOMAIN TimersAfter(timers, t)
      PROVE  TimersAfter(timers, t)[u] \in TimerRecord
    <2>1. timers[u] \in TimerRecord
        BY <1>1
    <2>2. CASE u \in Due(timers, t)
        <3>1. TimersAfter(timers, t)[u] = [timers[u] EXCEPT !.when = t + timers[u].interval]
            BY <1>1, <2>2 DEF TimersAfter
        <3>2. t + timers[u].interval \in Int
            BY <2>1 DEF TimerRecord
        <3> QED BY <2>1, <3>1, <3>2 DEF TimerRecord
    <2>3. CASE u \notin Due(timers, t)
        <3>1. TimersAfter(timers, t)[u] = timers[u]
            BY <1>1, <2>3 DEF TimersAfter
        <3> QED BY <2>1, <3>1
    <2> QED BY <2>2, <2>3
<1>5. Due(timers, t) \subseteq DOMAIN timers
    BY DEF Due
<1> QED BY <1>1, <1>2, <1>3, <1>4, <1>5

(* The pointer: what the events of a poll say of it, of its buttons and of *)
(* what they drag.                                                         *)
PointerSays(events, old, new) ==
    /\ Typed(events, {"position"}) = IF new.at # old.at THEN {Ev("position", None, new.at)} ELSE {}
    /\ Ids(events, {"enter"}) = {new.target} \ {None, old.target}
    /\ Ids(events, {"leave"}) = {old.target} \ {None, new.target}

ButtonsSay(events, old, new) ==
    /\ Ids(events, {"down"}) = new.down \ old.down
    /\ Ids(events, {"up"}) = old.down \ new.down

DragsSay(events, old, new, held) ==
    LET left(b) == DragBefore(b, old, new, new.at # old.at, held)
    IN  /\ Ids(events, {"drag_end"}) = {b \in old.down \ new.down : left(b) = b}
        /\ Ids(events, {"drag_start"})
            = {b \in IF new.at # old.at THEN new.down ELSE {} : left(b) # b}

LEMMA PointerTells ==
    ASSUME NEW old, NEW new, NEW held, NEW recently, old # None,
           NEW events, events = PointerEvents(old, new, held, recently)
    PROVE  /\ PointerSays(events, old, new)
           /\ ButtonsSay(events, old, new)
           /\ DragsSay(events, old, new, held)
<1> DEFINE moved == new.at # old.at
           left(b) == DragBefore(b, old, new, moved, held)
           dragging == IF moved THEN new.down ELSE {}
           entered == {new.target} \ {None, old.target}
           gone == {old.target} \ {None, new.target}
           pressed == new.down \ old.down
           released == old.down \ new.down
           ends == {b \in released : left(b) = b}
           starts == {b \in dragging : left(b) # b}
           twice == pressed \cap recently
           E(type, S) == {Ev(type, b, None) : b \in S}
<1>1. events = UNION {
        IF moved THEN {Ev("move", None, new.at), Ev("position", None, new.at)} ELSE {},
        E("leave", gone), E("enter", entered), E("down", pressed), E("double_click", twice),
        E("up", released), E("drag_end", ends), E("drag_start", starts), E("drag", dragging)}
    BY DEF PointerEvents
<1> HIDE DEF left, dragging, entered, gone, pressed, released, ends, starts, twice
<1>2. \A e : e \in events <=>
        \/ moved /\ (e = Ev("move", None, new.at) \/ e = Ev("position", None, new.at))
        \/ e \in E("leave", gone) \/ e \in E("enter", entered) \/ e \in E("down", pressed)
        \/ e \in E("double_click", twice) \/ e \in E("up", released) \/ e \in E("drag_end", ends)
        \/ e \in E("drag_start", starts) \/ e \in E("drag", dragging)
    BY <1>1
<1>3. ASSUME NEW type, NEW S
      PROVE  /\ \A e \in E(type, S) : e.type = type /\ e.id \in S
             /\ \A b \in S : \E e \in E(type, S) : e.type = type /\ e.id = b
    <2>1. \A b : Ev(type, b, None).type = type /\ Ev(type, b, None).id = b
        BY EvFields
    <2>2. ASSUME NEW b \in S PROVE \E e \in E(type, S) : e.type = type /\ e.id = b
        <3>1. Ev(type, b, None) \in E(type, S)
            OBVIOUS
        <3> QED BY <2>1, <3>1
    <2>3. ASSUME NEW e \in E(type, S) PROVE e.type = type /\ e.id \in S
        <3>1. PICK b \in S : e = Ev(type, b, None)
            OBVIOUS
        <3> QED BY <2>1, <3>1
    <2> QED BY <2>2, <2>3
<1>4. /\ Ev("move", None, new.at).type = "move" /\ Ev("position", None, new.at).type = "position"
    BY EvFields
<1> HIDE DEF E, moved
<1>5. Typed(events, {"position"}) = IF moved THEN {Ev("position", None, new.at)} ELSE {}
    BY <1>2, <1>3, <1>4 DEF Typed
<1>6. Ids(events, {"enter"}) = entered
    BY <1>2, <1>3, <1>4 DEF Ids, Typed
<1>7. Ids(events, {"leave"}) = gone
    BY <1>2, <1>3, <1>4 DEF Ids, Typed
<1>8. Ids(events, {"down"}) = pressed
    BY <1>2, <1>3, <1>4 DEF Ids, Typed
<1>9. Ids(events, {"up"}) = released
    BY <1>2, <1>3, <1>4 DEF Ids, Typed
<1>10. Ids(events, {"drag_end"}) = ends
    BY <1>2, <1>3, <1>4 DEF Ids, Typed
<1>11. Ids(events, {"drag_start"}) = starts
    BY <1>2, <1>3, <1>4 DEF Ids, Typed
<1>12. PointerSays(events, old, new)
    BY <1>5, <1>6, <1>7 DEF PointerSays, moved, entered, gone
<1>13. ButtonsSay(events, old, new)
    BY <1>8, <1>9 DEF ButtonsSay, pressed, released
<1>14. DragsSay(events, old, new, held)
    BY <1>10, <1>11 DEF DragsSay, ends, starts, left, moved, released, dragging
<1> QED BY <1>12, <1>13, <1>14

(* MouseDetector holds a button to be dragging, or none.                   *)
LEMMA DragIsButton ==
    ASSUME NEW b, NEW old, NEW new, NEW moved, NEW held \in Button \cup {None}
    PROVE  DragBefore(b, old, new, moved, held) \in Button \cup {None}
<1> DEFINE S == {c \in Button : c < b /\ moved /\ c \in new.down}
<1>1. CASE S # {}
    <2>1. S \subseteq 1..3
        BY DEF Button
    <2> HIDE DEF S
    <2>2. \E c \in S : \A d \in S : d <= c
        <3>1. CASE 3 \in S
            BY <2>1, <3>1
        <3>2. CASE 3 \notin S /\ 2 \in S
            BY <2>1, <3>2
        <3>3. CASE 3 \notin S /\ 2 \notin S
            <4>1. \A c \in S : c = 1
                BY <2>1, <3>3
            <4> QED BY <1>1, <4>1
        <3> QED BY <3>1, <3>2, <3>3
    <2>3. (CHOOSE c \in S : \A d \in S : d <= c) \in S
        BY <2>2
    <2>4. DragBefore(b, old, new, moved, held) = CHOOSE c \in S : \A d \in S : d <= c
        BY <1>1 DEF DragBefore, S
    <2> QED BY <2>1, <2>3, <2>4 DEF Button
<1>2. CASE S = {}
    BY <1>2 DEF DragBefore
<1> QED BY <1>1, <1>2

LEMMA OneOfThem ==
    ASSUME NEW S \in SUBSET Button, ~(Cardinality(S) > 1), NEW c \in S, NEW d \in S
    PROVE  c = d
<1> SUFFICES ASSUME c # d PROVE FALSE
    OBVIOUS
<1>1. IsFiniteSet(Button)
    <2>1. IsFiniteSet({1})
        BY FS_Singleton
    <2>2. IsFiniteSet({1} \cup {2})
        BY <2>1, FS_AddElement
    <2>3. IsFiniteSet(({1} \cup {2}) \cup {3})
        BY <2>2, FS_AddElement
    <2>4. Button = ({1} \cup {2}) \cup {3}
        BY DEF Button
    <2> QED BY <2>3, <2>4
<1>2. IsFiniteSet(S) /\ Cardinality(S) \in Nat
    BY <1>1, FS_Subset, FS_CardinalityType
<1>3. IsFiniteSet({c}) /\ Cardinality({c}) = 1
    BY FS_Singleton
<1>4. Cardinality({c} \cup {d}) = 2
    <2>1. d \notin {c}
        OBVIOUS
    <2>2. Cardinality({c} \cup {d}) = Cardinality({c}) + 1
        BY <1>3, <2>1, FS_AddElement
    <2> QED BY <1>3, <2>2
<1>5. Cardinality({c} \cup {d}) <= Cardinality(S)
    BY <1>2, FS_Subset
<1> QED BY <1>2, <1>4, <1>5

(* From one poll to the next: who is said to be dragging is the button     *)
(* that the detector holds, and it is down.                                *)
Following(said, held, down) == said \subseteq {held} \cap down

LEMMA DragStep ==
    ASSUME NEW old \in World["pointer"], NEW new \in World["pointer"], NEW held \in Button \cup {None},
           NEW said, Following(said, held, old.down),
           ~(new.at # old.at /\ Cardinality(old.down \cup new.down) > 1),
           NEW events, DragsSay(events, old, new, held)
    PROVE  Following((said \ Ids(events, {"drag_end"})) \cup Ids(events, {"drag_start"}),
                     DragBefore(4, old, new, new.at # old.at, held), new.down)
<1> DEFINE moved == new.at # old.at
           left(b) == DragBefore(b, old, new, moved, held)
           ends == {b \in old.down \ new.down : left(b) = b}
           starts == {b \in IF moved THEN new.down ELSE {} : left(b) # b}
           S(b) == {c \in Button : c < b /\ moved /\ c \in new.down}
<1>d. Ids(events, {"drag_end"}) = ends /\ Ids(events, {"drag_start"}) = starts
    BY DEF DragsSay
<1> SUFFICES (said \ ends) \cup starts \subseteq {left(4)} \cap new.down
    BY <1>d DEF Following
<1>s. said \subseteq {held} \cap old.down
    BY DEF Following
<1>0. old.down \subseteq Button /\ new.down \subseteq Button
    BY WorldAssumption
<1>1. \A b : S(b) = {} => left(b) = IF held # None /\ held < b /\ held \in old.down \ new.down
                                 THEN None ELSE held
    BY DEF DragBefore
<1>2. CASE ~moved
    <2>1. \A b : S(b) = {}
        BY <1>2
    <2>2. starts = {}
        BY <1>2
    <2>3. ASSUME NEW d \in said \ ends PROVE d = left(4) /\ d \in new.down
        <3>1. d = held /\ d \in old.down /\ d \in 1..3 /\ ~(d < d)
            BY <1>0, <1>s DEF Button
        <3>2. left(d) = d
            BY <1>1, <2>1, <3>1
        <3>3. d \in new.down
            BY <2>3, <3>1, <3>2
        <3> QED BY <1>1, <2>1, <3>1, <3>3
    <2> QED BY <2>2, <2>3
<1>3. CASE moved
    <2>1. \A c, d \in old.down \cup new.down : c = d
        BY <1>0, <1>3, OneOfThem
    <2>2. ASSUME NEW d \in new.down PROVE left(4) = d
        <3>1. S(4) = {d}
            BY <1>0, <1>3, <2>1 DEF Button
        <3>2. left(4) = CHOOSE c \in {d} : \A e \in {d} : e <= c
            BY <3>1 DEF DragBefore
        <3>3. d <= d
            BY <1>0 DEF Button
        <3> QED BY <3>2, <3>3
    <2>3. ASSUME NEW d \in said \ ends PROVE d \in new.down
        <3>1. d = held /\ d \in old.down /\ d \in 1..3 /\ ~(d < d)
            BY <1>0, <1>s DEF Button
        <3>2. SUFFICES ASSUME d \notin new.down PROVE FALSE
            OBVIOUS
        <3>3. S(d) = {}
            BY <2>1, <3>1, <3>2
        <3>4. left(d) = d
            BY <1>1, <3>1, <3>3
        <3> QED BY <2>3, <3>1, <3>2, <3>4
    <2> QED BY <2>2, <2>3
<1> QED BY <1>2, <1>3

(* Perception.                                                             *)
PerceivedEvents(old, new) ==
    EnvironmentEvents(old, new) \cup {Ev("human_required", None, Blockers(new))}

(* What each part of an environment is, as a set of facts.                 *)
LEMMA ToldOf ==
    ASSUME NEW s, NEW f
    PROVE  f \in Told(s) <=>
              \/ f = <<"app", None, s.app>>
              \/ f = <<"url", None, s.url>>
              \/ f = <<"blockers", None, Blockers(s)>>
              \/ \E k \in DOMAIN s.elements : f = <<"elements", k, None>>
              \/ \E w \in DOMAIN s.windows : f = <<"windows", w, s.windows[w].state>>
BY DEF Told

Restated(old, new) == Appeared(old, new) \cup {w \in Changed(old, new) : old[w].state # new[w].state}

(* What is told of any events, and of those that observe publishes.        *)
LEMMA TopicsOf ==
    ASSUME NEW events
    PROVE  /\ \A topic : topic \in Topics(events) <=>
                \E e \in events : e.type \in DOMAIN Part /\ topic = <<Part[e.type], e.id>>
           /\ \A f : f \in Facts(events) <=>
                \E e \in events :
                    /\ e.type \in DOMAIN Part /\ e.type \notin {"ui_disappeared", "window_closed"}
                    /\ f = <<Part[e.type], e.id, IF Part[e.type] = "elements" THEN None ELSE e.value>>
BY DEF Topics, Facts, Typed

LEMMA OnTopic == ASSUME NEW events, NEW f \in Facts(events) PROVE <<f[1], f[2]>> \in Topics(events)
<1>1. PICK e \in events :
        /\ e.type \in DOMAIN Part
        /\ f = <<Part[e.type], e.id, IF Part[e.type] = "elements" THEN None ELSE e.value>>
    BY TopicsOf
<1>2. f[1] = Part[e.type] /\ f[2] = e.id
    BY <1>1
<1> QED BY <1>1, <1>2, TopicsOf

LEMMA EnvironmentTells ==
    ASSUME NEW old, NEW new
    PROVE  /\ \A topic : topic \in Topics(PerceivedEvents(old, new)) <=>
                \/ new.app # old.app /\ topic = <<"app", None>>
                \/ new.url # old.url /\ topic = <<"url", None>>
                \/ topic = <<"blockers", None>>
                \/ \E k \in Appeared(old.elements, new.elements) \cup Gone(old.elements, new.elements) :
                        topic = <<"elements", k>>
                \/ \E w \in Restated(old.windows, new.windows) \cup Gone(old.windows, new.windows) :
                        topic = <<"windows", w>>
           /\ \A f : f \in Facts(PerceivedEvents(old, new)) <=>
                \/ new.app # old.app /\ f = <<"app", None, new.app>>
                \/ new.url # old.url /\ f = <<"url", None, new.url>>
                \/ f = <<"blockers", None, Blockers(new)>>
                \/ \E k \in Appeared(old.elements, new.elements) : f = <<"elements", k, None>>
                \/ \E w \in Restated(old.windows, new.windows) : f = <<"windows", w, new.windows[w].state>>
<1> DEFINE events == PerceivedEvents(old, new)
           came == Appeared(old.windows, new.windows)
           went == Gone(old.windows, new.windows)
           differ(f) == {w \in Changed(old.windows, new.windows) : old.windows[w][f] # new.windows[w][f]}
           appears(k) == IF new.elements[k] = "dialog" THEN "popup_appeared" ELSE "ui_appeared"
           shown == Appeared(old.elements, new.elements)
           hidden == Gone(old.elements, new.elements)
           need == Blockers(new)
<1>1. \A e : e \in events <=>
        \/ new.app # old.app /\ e = Ev("application_changed", None, new.app)
        \/ new.url # old.url /\ e = Ev("navigation", None, new.url)
        \/ e = Ev("human_required", None, need)
        \/ \E k \in shown : e = Ev(appears(k), k, new.elements[k])
        \/ \E k \in hidden : e = Ev("ui_disappeared", k, old.elements[k])
        \/ \E w \in came : e = Ev("window_opened", w, new.windows[w].state)
        \/ \E w \in went : e = Ev("window_closed", w, old.windows[w])
        \/ \E w \in differ("state") : e = Ev("window_state_changed", w, new.windows[w].state)
        \/ \E w \in differ("active") : e = Ev("window_focus_changed", w, new.windows[w].active)
    BY DEF PerceivedEvents, EnvironmentEvents, Leave
<1>2. \A type, id, value : /\ Ev(type, id, value).type = type /\ Ev(type, id, value).id = id
                          /\ Ev(type, id, value).value = value
    BY EvFields
<1>3. \A k : appears(k) \in {"popup_appeared", "ui_appeared"}
    OBVIOUS
<1>4. /\ DOMAIN Part = {"application_changed", "navigation", "human_required", "ui_appeared",
                        "popup_appeared", "ui_disappeared", "window_opened", "window_state_changed",
                        "window_closed"}
      /\ Part["application_changed"] = "app" /\ Part["navigation"] = "url"
      /\ Part["human_required"] = "blockers"
      /\ Part["ui_appeared"] = "elements" /\ Part["popup_appeared"] = "elements"
      /\ Part["ui_disappeared"] = "elements"
      /\ Part["window_opened"] = "windows" /\ Part["window_state_changed"] = "windows"
      /\ Part["window_closed"] = "windows"
    BY DEF Part
<1>5. Restated(old.windows, new.windows) = came \cup differ("state")
    BY DEF Restated
<1> HIDE DEF events, came, went, differ, appears, shown, hidden, need
<1>6. ASSUME NEW topic
      PROVE  topic \in Topics(events) <=>
                \/ new.app # old.app /\ topic = <<"app", None>>
                \/ new.url # old.url /\ topic = <<"url", None>>
                \/ topic = <<"blockers", None>>
                \/ \E k \in shown \cup hidden : topic = <<"elements", k>>
                \/ \E w \in came \cup differ("state") \cup went : topic = <<"windows", w>>
    <2>1. topic \in Topics(events) <=>
            \E e \in events : e.type \in DOMAIN Part /\ topic = <<Part[e.type], e.id>>
        BY TopicsOf
    <2>2. ASSUME NEW e \in events, e.type \in DOMAIN Part, topic = <<Part[e.type], e.id>>
          PROVE  \/ new.app # old.app /\ topic = <<"app", None>>
                 \/ new.url # old.url /\ topic = <<"url", None>>
                 \/ topic = <<"blockers", None>>
                 \/ \E k \in shown \cup hidden : topic = <<"elements", k>>
                 \/ \E w \in came \cup differ("state") \cup went : topic = <<"windows", w>>
        BY <1>1, <1>2, <1>3, <1>4, <2>2
    <2>3. ASSUME NEW type \in DOMAIN Part, NEW id, NEW value, Ev(type, id, value) \in events,
                 topic = <<Part[type], id>>
          PROVE  topic \in Topics(events)
        BY <1>2, <2>1, <2>3
    <2>4. ASSUME new.app # old.app, topic = <<"app", None>> PROVE topic \in Topics(events)
        BY <1>1, <1>4, <2>3, <2>4
    <2>5. ASSUME new.url # old.url, topic = <<"url", None>> PROVE topic \in Topics(events)
        BY <1>1, <1>4, <2>3, <2>5
    <2>6. ASSUME topic = <<"blockers", None>> PROVE topic \in Topics(events)
        BY <1>1, <1>4, <2>3, <2>6
    <2>7. ASSUME NEW k \in shown \cup hidden, topic = <<"elements", k>> PROVE topic \in Topics(events)
        <3>1. \E type \in {"popup_appeared", "ui_appeared", "ui_disappeared"} : \E value : Ev(type, k, value) \in events
            BY <1>1, <1>3, <2>7
        <3> QED BY <1>4, <2>3, <2>7, <3>1
    <2>8. ASSUME NEW w \in came \cup differ("state") \cup went, topic = <<"windows", w>>
          PROVE  topic \in Topics(events)
        <3>1. \E type \in {"window_opened", "window_state_changed", "window_closed"} : \E value :
                Ev(type, w, value) \in events
            BY <1>1, <2>8
        <3> QED BY <1>4, <2>3, <2>8, <3>1
    <2> QED BY <2>1, <2>2, <2>4, <2>5, <2>6, <2>7, <2>8
<1>7. ASSUME NEW f
      PROVE  f \in Facts(events) <=>
                \/ new.app # old.app /\ f = <<"app", None, new.app>>
                \/ new.url # old.url /\ f = <<"url", None, new.url>>
                \/ f = <<"blockers", None, need>>
                \/ \E k \in shown : f = <<"elements", k, None>>
                \/ \E w \in came \cup differ("state") : f = <<"windows", w, new.windows[w].state>>
    <2>1. f \in Facts(events) <=>
            \E e \in events :
                /\ e.type \in DOMAIN Part /\ e.type \notin {"ui_disappeared", "window_closed"}
                /\ f = <<Part[e.type], e.id, IF Part[e.type] = "elements" THEN None ELSE e.value>>
        BY TopicsOf
    <2>2. ASSUME NEW e \in events, e.type \in DOMAIN Part, e.type \notin {"ui_disappeared", "window_closed"},
                 f = <<Part[e.type], e.id, IF Part[e.type] = "elements" THEN None ELSE e.value>>
          PROVE  \/ new.app # old.app /\ f = <<"app", None, new.app>>
                 \/ new.url # old.url /\ f = <<"url", None, new.url>>
                 \/ f = <<"blockers", None, need>>
                 \/ \E k \in shown : f = <<"elements", k, None>>
                 \/ \E w \in came \cup differ("state") : f = <<"windows", w, new.windows[w].state>>
        BY <1>1, <1>2, <1>3, <1>4, <2>2
    <2>3. ASSUME NEW type \in DOMAIN Part \ {"ui_disappeared", "window_closed"}, NEW id, NEW value,
                 Ev(type, id, value) \in events,
                 f = <<Part[type], id, IF Part[type] = "elements" THEN None ELSE value>>
          PROVE  f \in Facts(events)
        BY <1>2, <2>1, <2>3
    <2>4. ASSUME new.app # old.app, f = <<"app", None, new.app>> PROVE f \in Facts(events)
        BY <1>1, <1>4, <2>3, <2>4
    <2>5. ASSUME new.url # old.url, f = <<"url", None, new.url>> PROVE f \in Facts(events)
        BY <1>1, <1>4, <2>3, <2>5
    <2>6. ASSUME f = <<"blockers", None, need>> PROVE f \in Facts(events)
        BY <1>1, <1>4, <2>3, <2>6
    <2>7. ASSUME NEW k \in shown, f = <<"elements", k, None>> PROVE f \in Facts(events)
        <3>1. \E type \in {"popup_appeared", "ui_appeared"} : \E value : Ev(type, k, value) \in events
            BY <1>1, <1>3
        <3> QED BY <1>4, <2>3, <2>7, <3>1
    <2>8. ASSUME NEW w \in came \cup differ("state"), f = <<"windows", w, new.windows[w].state>>
          PROVE  f \in Facts(events)
        <3>1. \E type \in {"window_opened", "window_state_changed"} : Ev(type, w, new.windows[w].state) \in events
            BY <1>1
        <3> QED BY <1>4, <2>3, <2>8, <3>1
    <2> QED BY <2>1, <2>2, <2>4, <2>5, <2>6, <2>7, <2>8
<1> QED BY <1>5, <1>6, <1>7 DEF events, came, went, shown, hidden, need

(* An observation tells of what is new; of the rest, the old is still so.  *)
LEMMA EnvironmentTold ==
    ASSUME NEW old, NEW new, NEW f
    PROVE  LET events == PerceivedEvents(old, new)
               topic == <<f[1], f[2]>>
           IN  /\ f \in Facts(events) => f \in Told(new)
               /\ f \in Told(new) /\ topic \in Topics(events) => f \in Facts(events)
               /\ topic \notin Topics(events) => (f \in Told(old) <=> f \in Told(new))
<1> DEFINE events == PerceivedEvents(old, new)
           topic == <<f[1], f[2]>>
           rw == Restated(old.windows, new.windows)
           gw == Gone(old.windows, new.windows)
           ae == Appeared(old.elements, new.elements)
           ge == Gone(old.elements, new.elements)
<1>1. topic \in Topics(events) <=>
        \/ new.app # old.app /\ topic = <<"app", None>>
        \/ new.url # old.url /\ topic = <<"url", None>>
        \/ topic = <<"blockers", None>>
        \/ \E k \in ae \cup ge : topic = <<"elements", k>>
        \/ \E w \in rw \cup gw : topic = <<"windows", w>>
    BY EnvironmentTells
<1>2. f \in Facts(events) <=>
        \/ new.app # old.app /\ f = <<"app", None, new.app>>
        \/ new.url # old.url /\ f = <<"url", None, new.url>>
        \/ f = <<"blockers", None, Blockers(new)>>
        \/ \E k \in ae : f = <<"elements", k, None>>
        \/ \E w \in rw : f = <<"windows", w, new.windows[w].state>>
    BY EnvironmentTells
<1>3. ae \subseteq DOMAIN new.elements /\ rw \subseteq DOMAIN new.windows
    BY DEF Appeared, Restated, Changed
<1>4. /\ ge \cap DOMAIN new.elements = {} /\ gw \cap DOMAIN new.windows = {}
      /\ DOMAIN new.elements \ ae = DOMAIN old.elements \ ge
      /\ ge \subseteq DOMAIN old.elements
    BY DEF Appeared, Gone
<1>5. /\ \A w : w \notin rw \cup gw => (w \in DOMAIN new.windows <=> w \in DOMAIN old.windows)
      /\ \A w \in DOMAIN new.windows : w \notin rw => new.windows[w].state = old.windows[w].state
    BY DEF Appeared, Gone, Changed, Restated
<1> HIDE DEF events, rw, gw, ae, ge
<1>6. f \in Facts(events) => f \in Told(new)
    BY <1>2, <1>3, ToldOf
<1>7. f \in Told(new) /\ topic \in Topics(events) => f \in Facts(events)
    <2>1. CASE f = <<"app", None, new.app>>
        BY <1>1, <1>2, <2>1
    <2>2. CASE f = <<"url", None, new.url>>
        BY <1>1, <1>2, <2>2
    <2>3. CASE f = <<"blockers", None, Blockers(new)>>
        BY <1>2, <2>3
    <2>4. ASSUME NEW k \in DOMAIN new.elements, f = <<"elements", k, None>>, topic \in Topics(events)
          PROVE  f \in Facts(events)
        BY <1>1, <1>2, <1>4, <2>4
    <2>5. ASSUME NEW w \in DOMAIN new.windows, f = <<"windows", w, new.windows[w].state>>,
                 topic \in Topics(events)
          PROVE  f \in Facts(events)
        BY <1>1, <1>2, <1>4, <2>5
    <2> QED BY <2>1, <2>2, <2>3, <2>4, <2>5, ToldOf
<1>8. ASSUME topic \notin Topics(events) PROVE f \in Told(old) <=> f \in Told(new)
    <2>0. /\ new.app = old.app \/ topic # <<"app", None>>
          /\ new.url = old.url \/ topic # <<"url", None>>
          /\ topic # <<"blockers", None>>
          /\ \A k \in ae \cup ge : topic # <<"elements", k>>
          /\ \A w \in rw \cup gw : topic # <<"windows", w>>
        BY <1>1, <1>8
    <2>1. ASSUME NEW s \in {old, new}, f \in Told(s) PROVE f \in Told(old) /\ f \in Told(new)
        <3>1. CASE f = <<"app", None, s.app>>
            BY <2>0, <2>1, <3>1, ToldOf
        <3>2. CASE f = <<"url", None, s.url>>
            BY <2>0, <2>1, <3>2, ToldOf
        <3>3. CASE f = <<"blockers", None, Blockers(s)>>
            BY <2>0, <3>3
        <3>4. ASSUME NEW k \in DOMAIN s.elements, f = <<"elements", k, None>>
              PROVE  f \in Told(old) /\ f \in Told(new)
            <4>1. k \notin ae \cup ge
                BY <2>0, <3>4
            <4>2. k \in DOMAIN old.elements /\ k \in DOMAIN new.elements
                BY <1>4, <2>1, <3>4, <4>1
            <4> QED BY <3>4, <4>2, ToldOf
        <3>5. ASSUME NEW w \in DOMAIN s.windows, f = <<"windows", w, s.windows[w].state>>
              PROVE  f \in Told(old) /\ f \in Told(new)
            <4>1. w \notin rw \cup gw
                BY <2>0, <3>5
            <4>2. /\ w \in DOMAIN old.windows /\ w \in DOMAIN new.windows
                  /\ new.windows[w].state = old.windows[w].state
                BY <1>5, <2>1, <3>5, <4>1
            <4> QED BY <2>1, <3>5, <4>2, ToldOf
        <3> QED BY <2>1, <3>1, <3>2, <3>3, <3>4, <3>5, ToldOf
    <2> QED BY <2>1
<1> QED BY <1>6, <1>7, <1>8 DEF events

LEMMA EnvironmentLearnt ==
    ASSUME NEW old, NEW new, NEW known, NEW lost, Beyond(known, lost) = Beyond(Told(old), lost)
    PROVE  LET events == PerceivedEvents(old, new)
           IN  Beyond(Learnt(known, events), lost \ Topics(events)) = Beyond(Told(new), lost \ Topics(events))
<1> DEFINE events == PerceivedEvents(old, new)
           topics == Topics(events)
<1>1. ASSUME NEW f
      PROVE  f \in Beyond(Learnt(known, events), lost \ topics) <=> f \in Beyond(Told(new), lost \ topics)
    <2> DEFINE topic == <<f[1], f[2]>>
    <2>1. /\ f \in Facts(events) => f \in Told(new) /\ topic \in topics
          /\ f \in Told(new) /\ topic \in topics => f \in Facts(events)
          /\ topic \notin topics => (f \in Told(old) <=> f \in Told(new))
        BY EnvironmentTold, OnTopic
    <2>2. topic \notin lost => (f \in known <=> f \in Told(old))
        BY DEF Beyond
    <2> HIDE DEF events, topics
    <2>3. f \in Learnt(known, events) <=> (f \in known /\ topic \notin topics) \/ f \in Facts(events)
        BY DEF Learnt, Beyond, topics
    <2> QED BY <2>1, <2>2, <2>3 DEF Beyond
<1> QED BY <1>1

(* Of what is cut off nothing is claimed.                                  *)
LEMMA CutOffLearnt ==
    ASSUME NEW known, NEW s, NEW lost, NEW events, Beyond(known, lost) = Beyond(s, lost)
    PROVE  Beyond(Learnt(known, events), lost \cup Topics(events)) = Beyond(s, lost \cup Topics(events))
<1>1. ASSUME NEW f
      PROVE  f \in Beyond(Learnt(known, events), lost \cup Topics(events))
                <=> f \in Beyond(s, lost \cup Topics(events))
    <2>1. f \in Facts(events) => <<f[1], f[2]>> \in Topics(events)
        BY OnTopic
    <2>2. <<f[1], f[2]>> \notin lost => (f \in known <=> f \in s)
        BY DEF Beyond
    <2>3. f \in Learnt(known, events) <=> (f \in known /\ <<f[1], f[2]>> \notin Topics(events)) \/ f \in Facts(events)
        BY DEF Learnt, Beyond
    <2> QED BY <2>1, <2>2, <2>3 DEF Beyond
<1> QED BY <1>1

-----------------------------------------------------------------------------
(* The polls.                                                              *)

PointerInv ==
    kind = "pointer" =>
        /\ prev \in World["pointer"] \cup {None}
        /\ prev = None => dragged = {}
        /\ prev # None /\ ~overlap => Following(dragged, drag, prev.down)

PrevInv ==
    /\ kind \in {"files", "windows"} => prev \in World[kind] \cup {<<>>}
    /\ kind = "power" => prev \in World["power"] \cup {None}
    /\ kind = "timers" => \A t \in DOMAIN prev : prev[t] \in TimerRecord

PollTypeOK ==
    /\ kind \in Kind
    /\ drag \in Button \cup {None} /\ clicked \subseteq Button /\ dragged \subseteq Button
    /\ now \in 0..MaxTime /\ overlap \in BOOLEAN

PollInv == PollTypeOK /\ PrevInv /\ PointerInv /\ Mirrors

LEMMA InventoryMirrors ==
    ASSUME PollInv, NEW new \in World[kind], PollInventory(new), kind \in Inventory
    PROVE  Mirrors'
<1>0. prev' = new /\ kind' = kind /\ heard' = Replayed(heard, Report(new), Enters, Leaves)
    BY DEF PollInventory, Inventory, Reading
<1>f. Fcn(new) /\ "changed" \in Enters /\ "created" \in Enters /\ "removed" \in Leaves
      /\ "login" \in Enters /\ "session_changed" \in Enters /\ "logout" \in Leaves
    BY WorldAssumption DEF Enters, Leaves
<1>1. CASE kind = "files"
    <2>1. heard = Contents(prev) /\ Report(new) = FileEvents(prev, new) /\ prev \in World["files"] \cup {<<>>}
        BY <1>1 DEF PollInv, Mirrors, Report, PrevInv, Contents
    <2>2. heard' = Contents(new)
        BY <1>0, <1>1, <2>1, FilesTold
    <2> QED BY <1>0, <1>1, <2>2 DEF Mirrors, Contents
<1>2. CASE kind \in {"snapshot", "network"}
    <2>1. heard = prev /\ Report(new) = SnapshotEvents(prev, new)
        BY <1>2 DEF PollInv, Mirrors, Report
    <2>2. heard' = new
        BY <1>0, <1>f, <2>1, ValuesTold DEF SnapshotEvents
    <2> QED BY <1>0, <1>2, <2>2 DEF Mirrors
<1>3. CASE kind = "sessions"
    <2>1. heard = prev /\ Report(new) = SessionEvents(prev, new)
        BY <1>3 DEF PollInv, Mirrors, Report
    <2>2. heard' = new
        BY <1>0, <1>f, <2>1, ValuesTold DEF SessionEvents
    <2> QED BY <1>0, <1>3, <2>2 DEF Mirrors
<1>4. CASE kind = "windows"
    <2>1. heard = prev /\ Report(new) = WindowEvents(prev, new) /\ prev \in World["windows"] \cup {<<>>}
        BY <1>4 DEF PollInv, Mirrors, Report, PrevInv
    <2> QED BY <1>0, <1>4, <2>1, WindowsTold DEF Mirrors
<1>5. CASE kind = "processes"
    <2>1. DOMAIN heard = DOMAIN prev /\ Report(new) = ProcessEvents(prev, new)
        BY <1>5 DEF PollInv, Mirrors, Report
    <2> QED BY <1>0, <1>5, <2>1, ProcessesTold DEF Mirrors
<1>6. CASE kind = "devices"
    <2>1. DOMAIN heard = DOMAIN prev /\ Report(new) = DeviceEvents(prev, new)
        BY <1>6 DEF PollInv, Mirrors, Report
    <2> QED BY <1>0, <1>6, <2>1, DevicesTold DEF Mirrors
<1>7. CASE kind = "audio"
    <2>1. DOMAIN heard = DOMAIN prev /\ Report(new) = AudioEvents(prev, new)
        BY <1>7 DEF PollInv, Mirrors, Report
    <2> QED BY <1>0, <1>7, <2>1, AudioTold DEF Mirrors
<1>8. CASE kind = "notifications"
    <2>1. DOMAIN prev \subseteq DOMAIN heard /\ Report(new) = NotificationEvents(prev, new)
        BY <1>8 DEF PollInv, Mirrors, Report
    <2> QED BY <1>0, <1>8, <2>1, NotificationsTold DEF Mirrors
<1> QED BY <1>1, <1>2, <1>3, <1>4, <1>5, <1>6, <1>7, <1>8 DEF Inventory

LEMMA ReadingMirrors ==
    ASSUME PollInv, NEW new \in World[kind], PollInventory(new), kind \notin Inventory
    PROVE  Mirrors'
<1>0. /\ kind' = kind /\ prev' = (IF kind = "power" /\ new = None THEN prev ELSE new)
      /\ kind \in Reading \cup {"keyboard", "secrets"}
    BY DEF PollInventory, PollInv, PollTypeOK, Kind
<1>1. CASE kind \in Reading
    <2>1. heard' = LastValue(heard, Report(new)) /\ (kind # "clipboard" => heard = prev)
        BY <1>1 DEF PollInv, Mirrors, PollInventory, Reading, Inventory
    <2>4. CASE kind = "clipboard"
        <3>1. Report(new) = ClipboardEvents(prev, new) /\ heard = IF prev = None THEN None ELSE prev.length
            BY <2>4 DEF Report, PollInv, Mirrors
        <3>2. new \in World["clipboard"] /\ new # None
            BY <2>4, WorldAssumption
        <3>3. heard' = new.length
            BY <2>1, <3>1, <3>2, ClipboardTold
        <3> QED BY <1>0, <2>4, <3>2, <3>3 DEF Mirrors
    <2>2. CASE kind = "power"
        <3>1. Report(new) = PowerEvents(prev, new) /\ prev \in World["power"] \cup {None}
            BY <2>2 DEF Report, PollInv, PrevInv
        <3>2. heard' = prev'
            BY <1>0, <2>1, <2>2, <3>1, PowerTold
        <3> QED BY <1>0, <2>2, <3>2 DEF Mirrors
    <2>3. CASE kind \notin {"power", "clipboard"}
        <3>1. Report(new) \in {DisplayEvents(prev, new), PositionEvents(prev, new), DiskEvents(prev, new)}
            BY <1>1, <2>3 DEF Report, Reading
        <3>2. heard' = prev'
            BY <1>0, <2>1, <2>3, <3>1, ReadingsTold
        <3> QED BY <1>0, <1>1, <2>3, <3>2 DEF Mirrors, Reading
    <2> QED BY <2>2, <2>3, <2>4
<1>2. CASE kind = "keyboard"
    <2>1. /\ heard = prev /\ Report(new) = KeyEvents(prev, new, FALSE, TRUE)
          /\ heard' = (heard \ Ids(Report(new), {"key_up"})) \cup Ids(Report(new), {"key_down"})
        BY <1>2 DEF PollInv, Mirrors, Report, PollInventory, Inventory, Reading
    <2>2. heard' = new
        BY <2>1, KeysTold
    <2> QED BY <1>0, <1>2, <2>2 DEF Mirrors
<1>3. CASE kind = "secrets"
    <2>1. /\ heard = prev \cap Modifier /\ Report(new) = KeyEvents(prev, new, FALSE, FALSE)
          /\ heard' = LastValue(heard, Typed(Report(new), {"modifiers"}))
        BY <1>3 DEF PollInv, Mirrors, Report, PollInventory, Inventory, Reading
    <2>2. heard' = new \cap Modifier
        BY <2>1, ModifiersTold
    <2> QED BY <1>0, <1>3, <2>2 DEF Mirrors
<1> QED BY <1>0, <1>1, <1>2, <1>3

LEMMA InventoryKeeps ==
    ASSUME PollInv, NEW new \in World[kind], PollInventory(new)
    PROVE  PollInv'
<1>1. /\ kind' = kind /\ kind \notin {"pointer", "timers"} /\ UNCHANGED <<now, pointer>>
      /\ prev' = IF kind = "power" /\ new = None THEN prev ELSE new
    BY DEF PollInventory
<1>2. Mirrors'
    BY InventoryMirrors, ReadingMirrors
<1>3. PrevInv'
    BY <1>1 DEF PollInv, PrevInv
<1> QED BY <1>1, <1>2, <1>3 DEF PollInv, PollTypeOK, PointerInv, pointer

LEMMA PointerKeeps ==
    ASSUME PollInv, NEW new \in World[kind], PollPointer(new)
    PROVE  PollInv'
<1>0. kind = "pointer" /\ kind' = kind /\ prev' = new /\ now' = now
    BY DEF PollPointer
<1>t. /\ new \in World["pointer"] /\ new # None /\ new.down \subseteq Button
      /\ new = [at |-> new.at, target |-> new.target, down |-> new.down]
    BY <1>0, WorldAssumption
<1>k. PrevInv'
    BY <1>0 DEF PrevInv
<1>1. CASE prev = None
    <2>1. heard' = new /\ UNCHANGED pointer
        BY <1>1 DEF PollPointer
    <2>2. Mirrors'
        BY <1>0, <2>1 DEF Mirrors
    <2>3. dragged = {}
        BY <1>0, <1>1 DEF PollInv, PointerInv
    <2> QED BY <1>0, <1>k, <1>t, <2>1, <2>2, <2>3 DEF PollInv, PollTypeOK, PointerInv, Following, pointer
<1>2. CASE prev # None
    <2> DEFINE events == PointerEvents(prev, new, drag, clicked)
               moved == new.at # prev.at
               left(b) == DragBefore(b, prev, new, moved, drag)
               ends == {b \in prev.down \ new.down : left(b) = b}
               starts == {b \in IF moved THEN new.down ELSE {} : left(b) # b}
    <2>1. /\ heard' = [
                at |-> LastValue(heard.at, Typed(events, {"position"})),
                target |-> IF Typed(events, {"enter"}) # {}
                           THEN CHOOSE t \in Ids(events, {"enter"}) : TRUE
                           ELSE IF Typed(events, {"leave"}) # {} THEN None ELSE heard.target,
                down |-> (heard.down \ Ids(events, {"up"})) \cup Ids(events, {"down"})]
          /\ drag' = left(4)
          /\ clicked' = clicked \cup (new.down \ prev.down)
          /\ dragged' = (dragged \ Ids(events, {"drag_end"})) \cup Ids(events, {"drag_start"})
          /\ overlap' = (overlap \/ (moved /\ Cardinality(prev.down \cup new.down) > 1))
        BY <1>2 DEF PollPointer
    <2>s. PointerSays(events, prev, new) /\ ButtonsSay(events, prev, new) /\ DragsSay(events, prev, new, drag)
        BY <1>2, PointerTells
    <2>a. /\ Typed(events, {"position"}) = IF moved THEN {Ev("position", None, new.at)} ELSE {}
          /\ Ids(events, {"enter"}) = {new.target} \ {None, prev.target}
          /\ Ids(events, {"leave"}) = {prev.target} \ {None, new.target}
        BY <2>s DEF PointerSays
    <2>b. /\ Ids(events, {"down"}) = new.down \ prev.down
          /\ Ids(events, {"up"}) = prev.down \ new.down
        BY <2>s DEF ButtonsSay
    <2>c. Ids(events, {"drag_end"}) = ends /\ Ids(events, {"drag_start"}) = starts
        BY <2>s DEF DragsSay
    <2>3. /\ prev \in World["pointer"] /\ prev.down \subseteq Button
          /\ heard = prev /\ drag \in Button \cup {None}
          /\ ~overlap => Following(dragged, drag, prev.down)
        BY <1>0, <1>2, WorldAssumption DEF PollInv, PollTypeOK, PointerInv, Mirrors
    <2> HIDE DEF events
    <2>4. heard' = new
        <3>1. LastValue(heard.at, Typed(events, {"position"})) = new.at
            BY <2>a, <2>3, ReadingTold
        <3>2. (heard.down \ Ids(events, {"up"})) \cup Ids(events, {"down"}) = new.down
            BY <2>b, <2>3
        <3>3. \A types : Typed(events, types) = {} <=> Ids(events, types) = {}
            BY DEF Ids
        <3>4. (IF Typed(events, {"enter"}) # {} THEN CHOOSE t \in Ids(events, {"enter"}) : TRUE
               ELSE IF Typed(events, {"leave"}) # {} THEN None ELSE heard.target) = new.target
            <4>1. CASE new.target \in {None, prev.target}
                <5>1. Ids(events, {"enter"}) = {}
                    BY <2>a, <4>1
                <5> QED BY <2>a, <2>3, <3>3, <4>1, <5>1
            <4>2. CASE new.target \notin {None, prev.target}
                <5>1. Ids(events, {"enter"}) = {new.target}
                    BY <2>a, <4>2
                <5> QED BY <3>3, <5>1
            <4> QED BY <4>1, <4>2
        <3> QED BY <1>t, <2>1, <3>1, <3>2, <3>4
    <2>5. Mirrors'
        BY <1>0, <2>4 DEF Mirrors
    <2>6. ~overlap' => Following(dragged', drag', new.down)
        <3>1. SUFFICES ASSUME ~overlap'
                       PROVE  Following((dragged \ Ids(events, {"drag_end"})) \cup Ids(events, {"drag_start"}),
                                        left(4), new.down)
            BY <2>1
        <3>2. Following(dragged, drag, prev.down) /\ ~(moved /\ Cardinality(prev.down \cup new.down) > 1)
            BY <2>1, <2>3, <3>1
        <3> QED BY <1>t, <2>s, <2>3, <3>2, DragStep
    <2>7. PollTypeOK'
        <3>1. left(4) \in Button \cup {None}
            BY <2>3, DragIsButton
        <3>2. ends \subseteq Button /\ starts \subseteq Button
            BY <1>t, <2>3
        <3>3. overlap' \in BOOLEAN
            BY <2>1
        <3> HIDE DEF left, ends, starts
        <3> QED BY <1>0, <1>t, <2>1, <2>c, <3>1, <3>2, <3>3 DEF PollInv, PollTypeOK
    <2> QED BY <1>0, <1>k, <1>t, <2>5, <2>6, <2>7 DEF PollInv, PointerInv
<1> QED BY <1>1, <1>2

LEMMA PerceiveKeeps ==
    ASSUME PollInv, NEW found \in World[kind], Perceive(found) \/ PerceiveCutOff(found)
    PROVE  PollInv'
<1>1. kind = "environment" /\ kind' = kind /\ UNCHANGED <<now, pointer>>
    BY DEF Perceive, PerceiveCutOff
<1>2. prev # None => Beyond(heard, astray) = Beyond(Told(prev), astray)
    BY <1>1 DEF PollInv, Mirrors
<1>3. CASE Perceive(found)
    <2>1. PICK new \in Snapshots(found) :
            /\ prev' = new
            /\ IF prev = None THEN heard' = Told(new) /\ UNCHANGED astray
               ELSE /\ heard' = Learnt(heard, Published(new))
                    /\ astray' = astray \ Topics(Published(new))
        BY <1>3 DEF Perceive
    <2>2. new # None
        BY <1>1, WorldAssumption
    <2>3. Published(new) = PerceivedEvents(prev, new)
        BY DEF Published, PerceivedEvents
    <2>4. Beyond(heard', astray') = Beyond(Told(new), astray')
        BY <1>2, <2>1, <2>3, EnvironmentLearnt
    <2>5. Mirrors'
        BY <1>1, <2>1, <2>2, <2>4 DEF Mirrors
    <2> QED BY <1>1, <2>5 DEF PollInv, PollTypeOK, PrevInv, PointerInv, pointer
<1>4. CASE PerceiveCutOff(found)
    <2>1. PICK events : heard' = Learnt(heard, events) /\ astray' = astray \cup Topics(events)
        BY <1>4 DEF PerceiveCutOff
    <2>2. prev # None /\ prev' = prev
        BY <1>4 DEF PerceiveCutOff
    <2>3. Beyond(heard', astray') = Beyond(Told(prev), astray')
        BY <1>2, <2>1, <2>2, CutOffLearnt
    <2>4. Mirrors'
        BY <1>1, <2>2, <2>3 DEF Mirrors
    <2> QED BY <1>1, <2>4 DEF PollInv, PollTypeOK, PrevInv, PointerInv, pointer
<1> QED BY <1>3, <1>4

LEMMA TimersKeep ==
    ASSUME PollInv, kind = "timers", UNCHANGED <<kind, pointer>>, now' \in 0..MaxTime,
           heard' = DOMAIN prev', \A t \in DOMAIN prev' : prev'[t] \in TimerRecord
    PROVE  PollInv'
<1>1. PrevInv'
    <2>1. kind' = "timers"
        OBVIOUS
    <2> QED BY <2>1 DEF PrevInv
<1>2. Mirrors'
    BY DEF Mirrors
<1> QED BY <1>1, <1>2 DEF PollInv, PollTypeOK, PointerInv, pointer

LEMMA SchedulerKeeps ==
    ASSUME PollInv,
           \/ \E t \in Timer, when \in 0..MaxTime, interval \in 0..2 : Schedule(t, when, interval)
           \/ \E t \in Timer : Cancel(t)
           \/ PollTimers
    PROVE  PollInv'
<1>0. kind = "timers" /\ UNCHANGED <<kind, now, pointer>> /\ now \in 0..MaxTime
    BY DEF Schedule, Cancel, PollTimers, PollInv, PollTypeOK
<1>1. heard = DOMAIN prev /\ \A t \in DOMAIN prev : prev[t] \in TimerRecord
    BY <1>0 DEF PollInv, Mirrors, PrevInv
<1>2. ASSUME NEW t \in Timer, NEW when \in 0..MaxTime, NEW interval \in 0..2, Schedule(t, when, interval)
      PROVE  PollInv'
    <2>1. [when |-> when, interval |-> interval] \in TimerRecord
        BY TimeAssumption DEF TimerRecord
    <2> QED BY <1>0, <1>1, <1>2, <2>1, TimersKeep DEF Schedule
<1>3. ASSUME NEW t \in Timer, Cancel(t)
      PROVE  PollInv'
    BY <1>0, <1>1, <1>3, TimersKeep DEF Cancel
<1>4. CASE PollTimers
    <2>1. /\ prev' = TimersAfter(prev, now)
          /\ heard' = heard \ {e.id : e \in {f \in TimerEvents(prev, now) : f.value = 0}}
        BY <1>4 DEF PollTimers
    <2>2. now \in Int
        BY <1>0, TimeAssumption
    <2>3. /\ DOMAIN TimersAfter(prev, now)
                = DOMAIN prev \ {e.id : e \in {f \in TimerEvents(prev, now) : f.value = 0}}
          /\ \A u \in DOMAIN TimersAfter(prev, now) : TimersAfter(prev, now)[u] \in TimerRecord
        BY <1>1, <2>2, TimersTold
    <2>4. heard' = DOMAIN prev' /\ \A u \in DOMAIN prev' : prev'[u] \in TimerRecord
        BY <1>1, <2>1, <2>3
    <2> QED BY <1>0, <2>4, TimersKeep
<1> QED BY <1>2, <1>3, <1>4

LEMMA DetectorKeeps ==
    ASSUME PollInv, DetectorNext
    PROVE  PollInv'
<1>1. ASSUME NEW new \in World[kind], PollInventory(new) \/ PollPointer(new)
                                         \/ Perceive(new) \/ PerceiveCutOff(new)
      PROVE  PollInv'
    BY <1>1, InventoryKeeps, PointerKeeps, PerceiveKeeps
<1>2. CASE ClickAges
    <2>1. UNCHANGED <<kind, prev, now, heard, drag, dragged, overlap, astray>> /\ clicked' \subseteq clicked
        BY <1>2 DEF ClickAges
    <2> QED BY <2>1 DEF PollInv, PollTypeOK, PrevInv, PointerInv, Mirrors
<1>3. CASE Tick
    <2>1. UNCHANGED <<kind, prev, heard, drag, clicked, dragged, overlap, astray>> /\ now' \in 0..MaxTime
        BY <1>3, TimeAssumption DEF Tick, pointer, PollInv, PollTypeOK
    <2> QED BY <2>1 DEF PollInv, PollTypeOK, PrevInv, PointerInv, Mirrors
<1> QED BY <1>1, <1>2, <1>3, SchedulerKeeps DEF DetectorNext

LEMMA NextKeepsPoll ==
    ASSUME PollInv, [Next]_vars
    PROVE  PollInv'
<1>1. CASE Poll
    BY <1>1, DetectorKeeps DEF Poll
<1>2. CASE UNCHANGED detectorVars
    BY <1>2 DEF detectorVars, PollInv, PollTypeOK, PrevInv, PointerInv, Mirrors
<1> QED BY <1>1, <1>2, PollsOnly

LEMMA PollInitially == DetectorInit => PollInv
<1> SUFFICES ASSUME DetectorInit PROVE PollInv
    OBVIOUS
<1>1. PollTypeOK
    <2>1. kind \in Kind /\ drag = None /\ clicked = {} /\ now = 0 /\ dragged = {} /\ overlap \in BOOLEAN
        BY Zenon DEF DetectorInit
    <2> QED BY <2>1, TimeAssumption DEF PollTypeOK
<1>2. CASE kind \in Inventory \cup {"timers"}
    <2>1. prev = <<>> /\ DOMAIN prev = {} /\ heard = IF kind = "timers" THEN {} ELSE prev
        <3>1. prev = <<>> /\ heard = IF kind = "timers" THEN {} ELSE prev
            BY <1>2 DEF DetectorInit, Inventory
        <3> QED BY <3>1, EmptySeq
    <2> QED BY <1>1, <1>2, <2>1 DEF PollInv, PrevInv, PointerInv, Mirrors, Inventory
<1>3. CASE kind \in {"keyboard", "secrets"}
    <2>1. prev = {} /\ heard = {}
        BY <1>3 DEF DetectorInit, Inventory
    <2> QED BY <1>1, <1>3, <2>1 DEF PollInv, PrevInv, PointerInv, Mirrors
<1>4. CASE kind = "disk"
    <2>1. heard = prev
        BY <1>4 DEF DetectorInit
    <2> QED BY <1>1, <1>4, <2>1 DEF PollInv, PrevInv, PointerInv, Mirrors
<1>5. CASE kind \in {"power", "display", "clipboard", "position", "pointer", "environment"}
    <2>1. prev = None /\ heard = None /\ dragged = {}
        BY <1>5 DEF DetectorInit, Inventory
    <2> QED BY <1>1, <1>5, <2>1 DEF PollInv, PrevInv, PointerInv, Mirrors
<1> QED BY <1>1, <1>2, <1>3, <1>4, <1>5 DEF PollTypeOK, Kind, Reading

LEMMA LogInitially == Init => LogInv
<1> SUFFICES ASSUME Init PROVE LogInv
    OBVIOUS
<1>1. history \in Seq(Range(history)) /\ Len(history) = 0
    BY DEF Init
<1>2. batch = {} /\ seq = 0 /\ paused \in BOOLEAN /\ abandoned \in BOOLEAN /\ stops = 0 /\ calls = 0
    BY Zenon DEF Init
<1> QED BY <1>1, <1>2, Limits DEF LogInv

-----------------------------------------------------------------------------
(* The theorems that rest on all three parts.                              *)

IInv == PlatformInv /\ LogInv /\ PollInv

LEMMA IInvHolds == Spec => []IInv
<1>1. Init => IInv
    BY PlatformInitially, LogInitially, PollInitially DEF Init, IInv
<1>2. IInv /\ [Next]_vars => IInv'
    BY NextKeepsPlatform, NextKeepsLog, NextKeepsPoll DEF IInv
<1> QED BY <1>1, <1>2, PTL DEF Spec

(* The platform's variables stay in their types; no one waits for a free   *)
(* lock, a chain runs only inside a handler, the limiter counts exactly    *)
(* the agent's actions under way (bus.py, actions.py, building_blocks.py). *)
THEOREM TypeCorrect == Spec => []TypeOK
<1>1. IInv => TypeOK
    <2> SUFFICES ASSUME IInv PROVE TypeOK
        OBVIOUS
    <2>1. /\ pc \in [Task -> {"idle", "wait", "check", "deliver", "acting", "stuck", "dead"}]
          /\ lock \in Task \cup {None}
          /\ lock = None => waiters = <<>> /\ todo = {}
          /\ lock # None => pc[lock] \in {"check", "deliver", "acting", "stuck"}
          /\ \A t \in Task \ {lock} : pc[t] = "wait" <=> t \in Range(waiters)
        BY DEF IInv, PlatformInv, Forwarding, BusInv, Away, Routing
    <2>2. stopped \in BOOLEAN /\ open \in BOOLEAN /\ failures \in 0..3 /\ (failures = 3 => open)
        BY Zenon DEF IInv, PlatformInv, ActInv, Circuit
    <2>3. /\ exec \in [Execution -> Execs]
          /\ active = Cardinality(AtWork) /\ active <= Concurrent
          /\ exec["chain"].st # "none" <=> lock # None /\ pc[lock] = "acting"
        BY Zenon DEF IInv, PlatformInv, ActInv, ChainLink
    <2>4. LogInv /\ PollTypeOK
        BY DEF IInv, PollInv
    <2> QED BY <2>1, <2>2, <2>3, <2>4 DEF TypeOK, LogInv, PollTypeOK, Execs, AtWork
<1> QED BY <1>1, IInvHolds, PTL

(* Whoever applies the events poll after poll, of whichever detector and   *)
(* whatever it reads, knows what the detector read last (detectors.py,     *)
(* windows_detectors.py, change.py).                                       *)
THEOREM MirrorsHolds == Spec => []Mirrors
<1>1. IInv => Mirrors
    BY DEF IInv, PollInv
<1> QED BY <1>1, IInvHolds, PTL

(* An announced drag ends, and is announced to end, with its button up,    *)
(* but for a move with two buttons (windows_detectors.py:155-171): what    *)
(* the listener takes to be dragging is the one button the detector holds. *)
THEOREM DragsEndHolds == Spec => []DragsEnd
<1>1. IInv => DragsEnd
    BY DEF IInv, PollInv, PointerInv, DragsEnd, Following
<1> QED BY <1>1, IInvHolds, PTL
=============================================================================
