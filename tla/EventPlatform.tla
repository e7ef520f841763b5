--------------------------- MODULE EventPlatform ---------------------------
(***************************************************************************)
(* The desktop event platform: app/event_system bus.py, actions.py,        *)
(* building_blocks.py, factory.py and autowindow.py.                       *)
(*                                                                         *)
(* Two tasks publish: the poller, which publishes what its detector        *)
(* reports, and the user's.  Who publishes also routes: it takes the       *)
(* routing lock and hands the queued events to the subscribers, one after  *)
(* the other, until the queue is empty.  A handler returns, raises,        *)
(* publishes an event of its own, or runs an EventChain of actions.        *)
(* Actions go through the ActionRegistry, which retries them, counts their *)
(* failures and is stopped by the emergency stop.                          *)
(*                                                                         *)
(* Time is not modelled: an event that was published before may be within  *)
(* the duplicate window or not, a subscriber that was given one of its     *)
(* type within the throttle interval or not, and timeouts and back-offs    *)
(* end at any moment.  Steps of a chain may be delays, so other tasks run  *)
(* between any two of them.                                                *)
(***************************************************************************)
EXTENDS DetectorPolling, Sequences, SequencesExt

CONSTANTS
    OnBus,      \* detectors whose events are published; the bus does not look
                \* into them, so one is enough, and the others are only polled
    Subs,       \* the subscribers, in the order they subscribed
    Wants,      \* the event types each subscriber's filter names, or "*"
    Dispatcher, \* the subscriber that is the agents' dispatcher
    Subscribed, \* the types its agent subscribed to and is permitted, or "*"
    Retained,   \* EventHistory's limit
    Concurrent, \* max_concurrent_actions of the agent
    Retries,    \* ActionSpec.retries
    ChainSteps, \* actions in a chain
    MaxEvents,  \* bound on events accepted or replayed
    MaxStops,   \* bound on emergency stops
    MaxCalls    \* bound on actions called beside the chain

ASSUME LimitsAssumption ==
    /\ {Retained, Concurrent, Retries, MaxEvents, MaxStops, MaxCalls} \subseteq Nat
    /\ ChainSteps \in Nat \ {0}

VARIABLES
    batch,     \* what the last poll found and has not published yet
    pc,        \* where each task is
    lock,      \* the task that holds EventBus._routing_lock
    waiters,   \* tasks that wait for it, in order of arrival
    queue,     \* EventBus._queue, urgent events first
    seq,       \* EventBus._sequence
    history,   \* EventBus.history, the newest last
    recent,    \* events accepted before (_dedupe)
    cool,      \* <<subscriber, type>> delivered before (_last_delivery)
    todo,      \* the subscribers the event under way is still to be given to
    cur,       \* the event under way
    paused,    \* EventBus.paused
    stopped,   \* ActionRegistry.stopped
    exec,      \* what each execution does
    failures,  \* ActionRegistry._failures of the action, counted up to 3
    open,      \* its circuit is open
    active,    \* AgentResourceLimiter._active of the agent
    abandoned, \* history: the queue was left unrouted by an exception or by
               \* AutoWindow.resume_agent_system
    sleeping,  \* history: executions in back-off when the stop was pressed
    late,      \* history: operations begun while stopped, since the last stop
    stops, calls

busVars == <<lock, waiters, queue, seq, history, recent, cool, todo, cur, paused, abandoned>>
actVars == <<stopped, exec, failures, open, active, sleeping, late, stops, calls>>
vars == <<detectorVars, batch, pc, busVars, actVars>>

Task == {"poller", "user"}
Execution == {"chain", "call"}
ASSUME NoTaskAssumption == None \notin Task
Note == Ev("note", None, None)      \* what handlers and the user publish
Idle == [agent |-> TRUE, st |-> "none", attempt |-> 0, left |-> 0, expired |-> FALSE]

Underway(x) == exec[x].st \in {"run", "cancel", "backoff"}

(* Besides the types: no one waits for a free lock, an event is under way  *)
(* only while someone routes, a chain runs only inside a handler, and the  *)
(* limiter counts the agent's actions exactly, whatever ended them, and    *)
(* never more than the agent may have at once.                             *)
TypeOK ==
    /\ kind \in Kind
    /\ drag \in Button \cup {None} /\ clicked \subseteq Button /\ dragged \subseteq Button
    /\ now \in 0..MaxTime /\ overlap \in BOOLEAN
    /\ batch # {} => kind \in OnBus
    /\ pc \in [Task -> {"idle", "wait", "check", "deliver", "acting", "stuck", "dead"}]
    /\ lock \in Task \cup {None} /\ seq \in 0..MaxEvents
    /\ lock = None => waiters = <<>> /\ todo = {}
    /\ lock # None => pc[lock] \in {"check", "deliver", "acting", "stuck"}
    /\ \A t \in Task \ {lock} : pc[t] = "wait" <=> t \in Range(waiters)
    /\ paused \in BOOLEAN /\ stopped \in BOOLEAN /\ open \in BOOLEAN /\ abandoned \in BOOLEAN
    /\ failures \in 0..3 /\ (failures = 3 => open)
    /\ exec \in [Execution -> [agent : BOOLEAN, st : {"none", "start", "run", "cancel", "backoff", "done"},
                               attempt : 0..Retries, left : 0..ChainSteps, expired : BOOLEAN]]
    /\ exec["chain"].st # "none" <=> lock # None /\ pc[lock] = "acting"
    /\ active = Cardinality({x \in Execution : exec[x].agent /\ Underway(x)})
    /\ active <= Concurrent
    /\ Len(history) <= Retained
    /\ stops \in 0..MaxStops /\ calls \in 0..MaxCalls

Init ==
    /\ DetectorInit /\ batch = {}
    /\ pc = [t \in Task |-> "idle"]
    /\ lock = None /\ waiters = <<>> /\ queue = <<>> /\ seq = 0 /\ history = <<>>
    /\ recent = {} /\ cool = {} /\ todo = {} /\ cur = None
    /\ paused = FALSE /\ stopped = FALSE
    /\ exec = [x \in Execution |-> Idle]
    /\ failures = 0 /\ open = FALSE /\ active = 0 /\ abandoned = FALSE
    /\ sleeping = {} /\ late = [x \in Execution |-> 0]
    /\ stops = 0 /\ calls = 0

-----------------------------------------------------------------------------
(* Publishing and routing.                                                 *)

(* The queue is ordered by priority, then by sequence number.              *)
Queued(q, e) == LET urgent(f) == f.type = "note"
                    n == Len(SelectSeq(q, urgent))
                IN  IF e.type = "note" THEN InsertAt(q, n + 1, e) ELSE Append(q, e)

(* EventHistory.append: a deque forgets its oldest event.                  *)
Remembered(e) == LET all == Append(history, e)
                 IN  IF Len(all) > Retained THEN Tail(all) ELSE all

(* EventBus.publish up to its call of route_pending.                       *)
Accept(e) ==
    /\ seq < MaxEvents
    /\ recent' = recent \cup {e}
    /\ queue' = Queued(queue, e)
    /\ seq' = seq + 1
    /\ history' = Remembered(e)

(* `async with self._routing_lock`.                                        *)
Route(t) ==
    IF lock = None
    THEN lock' = t /\ pc' = [pc EXCEPT ![t] = "check"] /\ UNCHANGED waiters
    ELSE pc' = [pc EXCEPT ![t] = "wait"] /\ waiters' = Append(waiters, t) /\ UNCHANGED lock

(* EventManager.poll_once reads a detector: the snapshot is remembered     *)
(* before any of its events is published.                                  *)
Poll ==
    /\ kind \in OnBus => pc["poller"] = "idle" /\ batch = {}
    /\ DetectorNext
    /\ batch' = IF kind \in OnBus THEN Report(prev') ELSE {}
    /\ UNCHANGED <<pc, busVars, actVars>>

Publish(t, e) ==
    /\ kind \in OnBus /\ pc[t] = "idle"
    /\ IF t = "poller" THEN e \in batch /\ batch' = batch \ {e}
       ELSE e = Note /\ UNCHANGED batch
    /\ \/ e \in recent /\ UNCHANGED <<pc, busVars>>
       \/ /\ Accept(e)
          /\ IF paused THEN UNCHANGED <<pc, lock, waiters>> ELSE Route(t)
          /\ UNCHANGED <<cool, todo, cur, paused, abandoned>>
    /\ UNCHANGED <<detectorVars, actVars>>

(* The lock goes to whoever has waited longest.                            *)
Release(t, to) ==
    IF waiters = <<>>
    THEN lock' = None /\ UNCHANGED waiters /\ pc' = [pc EXCEPT ![t] = to]
    ELSE /\ lock' = Head(waiters)
         /\ waiters' = Tail(waiters)
         /\ pc' = [pc EXCEPT ![t] = to, ![Head(waiters)] = "check"]

(* EventBus.replay: the retained events of one type, or all of them, are   *)
(* queued and routed again, without the test for duplicates; even while    *)
(* the bus is paused, when routing ends at once.                           *)
Replay ==
    /\ kind \in OnBus /\ pc["user"] = "idle"
    /\ \E type \in {e.type : e \in Range(history)} \cup {"*"} :
         LET again(e) == type \in {"*", e.type}
             number == Cardinality({i \in DOMAIN history : again(history[i])})
         IN  /\ seq + number <= MaxEvents
             /\ seq' = seq + number
             /\ queue' = FoldLeft(Queued, queue, SelectSeq(history, again))
    /\ Route("user")
    /\ UNCHANGED <<detectorVars, batch, history, recent, cool, todo, cur, paused, abandoned, actVars>>

(* EventFilter.matches, of which only the event types are kept.            *)
Matches(s, e) == "*" \in Wants[s] \/ e.type \in Wants[s]

(* The loop of route_pending: the next event, for the subscribers that     *)
(* want it and are not within the interval of their last delivery of its   *)
(* type, or the end.                                                       *)
RouteNext(t) ==
    /\ lock = t /\ pc[t] = "check"
    /\ IF queue # <<>> /\ ~paused
       THEN \E skipped \in SUBSET {s \in Range(Subs) : <<s, Head(queue).type>> \in cool} :
            /\ cur' = Head(queue) /\ queue' = Tail(queue)
            /\ todo' = {s \in Range(Subs) \ skipped : Matches(s, Head(queue))}
            /\ pc' = [pc EXCEPT ![t] = IF todo' = {} THEN "check" ELSE "deliver"]
            /\ UNCHANGED <<lock, waiters, abandoned>>
       ELSE /\ Release(t, "idle")
            /\ abandoned' = (abandoned /\ queue # <<>>)
            /\ UNCHANGED <<queue, todo, cur>>
    /\ UNCHANGED <<detectorVars, batch, seq, history, recent, cool, paused, actVars>>

(* The subscriber whose turn it is, of those the event is still to reach.  *)
Upcoming == CHOOSE s \in todo : \A i, j \in DOMAIN Subs : Subs[i] = s /\ Subs[j] \in todo => i <= j

(* The handler returns: only now is the delivery recorded.                 *)
Delivered(t) ==
    /\ cool' = cool \cup {<<Upcoming, cur.type>>}
    /\ todo' = todo \ {Upcoming}
    /\ pc' = [pc EXCEPT ![t] = IF todo' = {} THEN "check" ELSE "deliver"]
    /\ UNCHANGED <<lock, waiters, cur, paused, abandoned>>

(* Mutant: an exception leaves the lock taken.                             *)
RaisesHolding(t) ==
    /\ todo' = {} /\ abandoned' = TRUE
    /\ pc' = [pc EXCEPT ![t] = "idle"]
    /\ batch' = batch
    /\ UNCHANGED <<lock, waiters, queue, seq, history, recent, cool, cur, paused, detectorVars>>

(* A handler's exception ends route_pending and the publish or resume that *)
(* called it.  It ends the poller's run, with the batch it was publishing. *)
Raises(t) ==
    /\ todo' = {} /\ abandoned' = TRUE
    /\ Release(t, IF t = "poller" THEN "dead" ELSE "idle")
    /\ batch' = IF t = "poller" THEN {} ELSE batch
    /\ UNCHANGED <<queue, seq, history, recent, cool, cur, paused, detectorVars>>

(* AgentEventDispatcher.dispatch: its handler runs for an agent that is    *)
(* subscribed to the event, holds the permissions it requires and is within*)
(* its event rate; for no agent, dispatch returns.                         *)
Hears(s, e) == s = Dispatcher => Subscribed \cap {"*", e.type} # {}

(* EventAgentRuntime.handle, or another subscriber's handler.              *)
Handles(t) == lock = t /\ pc[t] = "deliver" /\ Hears(Upcoming, cur)

HandlerReturns(t) ==
    /\ lock = t /\ pc[t] = "deliver"
    /\ Delivered(t)
    /\ UNCHANGED <<detectorVars, batch, queue, seq, history, recent, actVars>>

HandlerRaises(t) == Handles(t) /\ Raises(t) /\ UNCHANGED actVars

(* A handler publishes.  Unless the bus is paused or the event a duplicate *)
(* it waits for the lock its own task holds: bus.py:42.                    *)
HandlerPublishes(t) ==
    /\ Handles(t)
    /\ Accept(Note)
    /\ IF paused THEN Delivered(t)
       ELSE /\ pc' = [pc EXCEPT ![t] = "stuck"]
            /\ waiters' = Append(waiters, t)
            /\ UNCHANGED <<lock, cool, todo, cur, paused, abandoned>>
    /\ UNCHANGED <<detectorVars, batch, actVars>>

HandlerActs(t) ==
    /\ Handles(t)
    /\ pc' = [pc EXCEPT ![t] = "acting"]
    /\ exec' = [exec EXCEPT !["chain"] = [Idle EXCEPT !.st = "start", !.left = ChainSteps - 1]]
    /\ UNCHANGED <<detectorVars, batch, busVars, stopped, failures, open, active, sleeping, late, stops, calls>>

ChainReturns(t) ==
    /\ lock = t /\ pc[t] = "acting" /\ exec["chain"].st = "done"
    /\ exec' = [exec EXCEPT !["chain"] = Idle]
    /\ Delivered(t)
    /\ UNCHANGED <<detectorVars, batch, queue, seq, history, recent, stopped, failures, open,
                   active, sleeping, late, stops, calls>>

-----------------------------------------------------------------------------
(* ActionRegistry.execute.  A result that is not a success is a result     *)
(* like any other: the chain goes on with its next action.                 *)

After(x) == IF x = "call" THEN Idle
            ELSE IF exec[x].left = 0 THEN [exec[x] EXCEPT !.st = "done"]
            ELSE [exec[x] EXCEPT !.st = "start", !.attempt = 0, !.left = @ - 1]

(* Mutant: end_action is not in a finally block: an exception skips it.    *)
UnwindsReturned(x) ==
    active' = IF exec[x].agent /\ exec[x].st \in {"run", "cancel"} THEN active - 1 ELSE active

(* AgentActionExecutor's finally block: end_action.                        *)
Unwinds(x) ==
    active' = IF exec[x].agent /\ Underway(x) /\ active > 0 THEN active - 1 ELSE active

Ends(x) == exec' = [exec EXCEPT ![x] = After(x)] /\ Unwinds(x)

(* Mutant: the emergency stop only cancels what is pending.                *)
RefusedByCircuit == open

Refused == stopped \/ open

Counted(x) == late' = [late EXCEPT ![x] = IF stopped THEN @ + 1 ELSE 0]

(* begin_action; AutoWindow's own calls are not an agent's.                *)
Begins(agent) == active' = IF agent THEN active + 1 ELSE active

Operate(x, agent) ==
    /\ Begins(agent)
    /\ exec' = [exec EXCEPT ![x].st = "run", ![x].agent = agent]
    /\ Counted(x)

Limited(agent) == agent /\ active >= Concurrent

(* AutoWindow.call_action, or an agent's action outside the chain.  A call *)
(* may be denied: a permission, a boundary or the owner's consent lacks.   *)
Call ==
    /\ kind \in OnBus /\ exec["call"].st = "none" /\ calls < MaxCalls
    /\ calls' = calls + 1
    /\ \/ UNCHANGED <<exec, late, active>>
       \/ \E agent \in BOOLEAN :
            /\ ~Refused /\ ~Limited(agent)
            /\ Operate("call", agent)
    /\ UNCHANGED <<detectorVars, batch, pc, busVars, stopped, failures, open, sleeping, stops>>

(* AgentActionExecutor.execute, with the same ways to be denied.           *)
Start(x) ==
    /\ exec[x].st = "start"
    /\ \/ Ends(x) /\ UNCHANGED late
       \/ ~Refused /\ ~Limited(TRUE) /\ Operate(x, TRUE)
    /\ UNCHANGED <<detectorVars, batch, pc, busVars, stopped, failures, open, sleeping, stops, calls>>

(* The retry after a back-off looks neither at the stop nor at the circuit.*)
Retry(x) ==
    /\ exec[x].st = "backoff"
    /\ exec' = [exec EXCEPT ![x].st = "run", ![x].attempt = @ + 1]
    /\ Counted(x)
    /\ UNCHANGED <<detectorVars, batch, pc, busVars, stopped, failures, open, active, sleeping,
                   stops, calls>>

(* The operation returns, fails for the last time or times out, or fails   *)
(* with a retry left.                                                      *)
Operated(x) ==
    /\ exec[x].st = "run"
    /\ \/ failures' = 0 /\ UNCHANGED open /\ Ends(x)
       \/ /\ failures' = IF failures = 3 THEN 3 ELSE failures + 1
          /\ open' = (open \/ failures' = 3)
          /\ Ends(x)
       \/ /\ exec[x].attempt < Retries
          /\ exec' = [exec EXCEPT ![x].st = "backoff"]
          /\ UNCHANGED <<failures, open, active>>
    /\ UNCHANGED <<detectorVars, batch, pc, busVars, stopped, sleeping, late, stops, calls>>

Cancelled(x) ==
    /\ exec[x].st = "cancel" /\ Ends(x)
    /\ UNCHANGED <<detectorVars, batch, pc, busVars, stopped, failures, open,
                   sleeping, late, stops, calls>>

(* EventChain.run's timeout.  During an operation the registry turns the   *)
(* cancellation into a result and the chain goes on; anywhere else the     *)
(* handler sees a TimeoutError, which it handles or not.                   *)
ChainExpires(t) ==
    /\ lock = t /\ pc[t] = "acting" /\ ~exec["chain"].expired
    /\ Unwinds("chain")
    /\ \/ /\ exec["chain"].st = "run"
          /\ exec' = [exec EXCEPT !["chain"] = [After("chain") EXCEPT !.expired = TRUE]]
          /\ UNCHANGED <<detectorVars, batch, pc, busVars>>
       \/ /\ exec["chain"].st \in {"start", "backoff"}
          /\ exec' = [exec EXCEPT !["chain"] = Idle]
          /\ \/ Raises(t)
             \/ Delivered(t) /\ UNCHANGED <<detectorVars, batch, queue, seq, history, recent>>
    /\ UNCHANGED <<stopped, failures, open, sleeping, late, stops, calls>>

-----------------------------------------------------------------------------
(* EventPlatform.emergency_stop, AutoWindow.emergency_stop.                *)
EmergencyStop ==
    /\ kind \in OnBus /\ stops < MaxStops
    /\ stops' = stops + 1
    /\ stopped' = TRUE /\ paused' = TRUE
    /\ exec' = [x \in Execution |->
                  IF exec[x].st = "run" THEN [exec[x] EXCEPT !.st = "cancel"] ELSE exec[x]]
    /\ sleeping' = {x \in Execution : exec[x].st = "backoff"}
    /\ late' = [x \in Execution |-> 0]
    /\ UNCHANGED <<detectorVars, batch, pc, lock, waiters, queue, seq, history, recent, cool, todo,
                   cur, abandoned, failures, open, active, calls>>

Cleared ==
    /\ stopped' = FALSE /\ paused' = FALSE /\ open' = FALSE /\ failures' = 0
    /\ UNCHANGED <<detectorVars, batch, queue, seq, history, recent, cool, todo, cur,
                   exec, active, stops, calls>>
    /\ sleeping' = {} /\ late' = [x \in Execution |-> 0]

(* Mutant: the platform lifts the pause without routing what is queued.    *)
ResumeUnrouted == stopped /\ pc["user"] = "idle" /\ Cleared
                  /\ UNCHANGED <<pc, lock, waiters, abandoned>>

(* EventPlatform.resume.                                                   *)
Resume ==
    /\ stopped /\ pc["user"] = "idle"
    /\ Cleared
    /\ Route("user")
    /\ UNCHANGED abandoned

(* AutoWindow.resume_agent_system sets the flag and routes nothing.        *)
ResumeAgentSystem ==
    /\ stopped
    /\ Cleared
    /\ abandoned' = TRUE
    /\ UNCHANGED <<pc, lock, waiters>>

Handling(t) == HandlerReturns(t) \/ HandlerRaises(t) \/ HandlerPublishes(t) \/ HandlerActs(t)
Executing(x) == Start(x) \/ Retry(x) \/ Operated(x) \/ Cancelled(x)

Next ==
    \/ Poll
    \/ \E t \in Task, e \in batch \cup {Note} : Publish(t, e)
    \/ \E t \in Task : RouteNext(t) \/ Handling(t) \/ ChainReturns(t) \/ ChainExpires(t)
    \/ \E x \in Execution : Executing(x)
    \/ Call
    \/ EmergencyStop \/ Resume \/ ResumeAgentSystem \/ Replay

Spec == Init /\ [][Next]_vars

(* The event loop runs what is ready, handlers end, and operations end by  *)
(* themselves or by their timeout.                                         *)
FairSpec ==
    /\ Spec
    /\ \A t \in Task : WF_vars(RouteNext(t)) /\ WF_vars(Handling(t)) /\ WF_vars(ChainReturns(t))
    /\ \A x \in Execution : WF_vars(Executing(x))

-----------------------------------------------------------------------------
(* A handler that publishes while routing waits for the lock its own task  *)
(* holds, for ever (bus.py:42).                                            *)
SelfWaits == \E t \in Task : lock = t /\ pc[t] = "stuck"

(* No event is forgotten: while the bus is not paused a queued event has   *)
(* someone routing who gets to it, unless a handler's exception ended the  *)
(* routing, AutoWindow lifted the pause, or a handler waits for its own    *)
(* lock (bus.py:39-61, autowindow.py:26).                                  *)
NoEventForgotten ==
    queue # <<>> /\ ~paused =>
        (\E t \in Task : lock = t /\ pc[t] # "stuck") \/ abandoned \/ SelfWaits

(* Who routes gets out again, unless a handler waits for its own lock      *)
(* (bus.py:34-57).                                                         *)
RoutingEnds == \A t \in Task : (lock = t) ~> (lock # t \/ pc[t] = "stuck")

(* After an emergency stop no operation begins but the retries of          *)
(* executions that were in back-off when it was pressed                    *)
(* (actions.py:41-63, ACTIONS.md: it "blocks new executions").             *)
StopIsBounded ==
    stopped => \A x \in Execution : late[x] <= IF x \in sleeping THEN Retries ELSE 0
=============================================================================
