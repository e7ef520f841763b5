# Formal model of Brainless_agent

TLA+ models of the autonomous runtime of this repository, the TLC runs that check
them on small instances, and TLAPS proofs of what matters most for all instances.
Source paths below are relative to `src/app/` unless they start with `src/`.

To repeat a run: `tlc -config MCTaskEngine.cfg MCTaskEngine`. To check proofs:
`tlapm TaskEngineProofs.tla`. `PROJECT.json` lists the runs, maps every
definition to the lines it models, and lists the hazards and theorems.

## 1. The system

One process (`src/run_dashboard.py`, `serve`) runs everything on one asyncio event
loop: the mission operator, the dashboard's gateway, the runtime bridge, the
triggers and voice control. A coroutine is uninterrupted between two awaits; the
concurrency of the system is what happens at the awaits. Threads only carry
blocking calls (queue operations, model answers, desktop tools).

| Component | State | Operations | Hard part | What makes it correct |
|---|---|---|---|---|
| Mission operator (`autonomy/operator.py`, `mission.py`) | saved missions, takeover mode | create, run_once, process_event, run_background | load, await, save the old copy; restarts; one consumer of a bounded queue | user decisions stick, a running mission is really run, waiting missions get their turn |
| Task graph, scheduler (`autonomy/task_graph.py`) | node status, retries | next_tasks, complete, fail, pause, resume, cancel | transitive blocking, operations on running nodes | dependency order, disjoint resources, nothing stranded |
| Task engine, mission runner (`task_engine.py`, `task_runner.py`) | live graph, batch in flight, graph saved in the mission | run_graph, restore, serialize | crash between completion and save, stale copies saved over newer graphs, retries, judging | finished work repeats only after a stale copy, runs end, "completed" means all done |
| Action runtime (`executor.py`, `orchestrator.py`) | completed actions, budgets of a loop | execute, run_loop, perform | five different waits between decision and tool | what executes was approved itself, every run ends |
| Governor (`governor.py`, `production_mission.py`) | contracts, task identifiers, usage | register, evaluate, record | check, wait, act, count | authority and budgets hold for concurrent actions |
| Approvals, policy (`approvals.py`, `safety/permissions.py`) | requests, one-shot approvals | request, decide, approve_once, check | expiry against a late decision; approvals shared by an agent's actions | one approval buys at most one action |
| Agents (`agents/manager.py`, `registry.py`) | status, running task, permissions, tools | assign, start, pause, resume, terminate, execute_tool, grant, revoke, lease | cancellation, runs that outlive a pause | one run per agent, terminated is final |
| Resource locks, health (`resources.py`, `health.py`) | locks, owners | acquire, release_agent, inspect, replace | partial acquisition, timeouts, forced release | exclusion, accurate owners, no deadlock, no starvation |
| Event bus, triggers (`events.py`, `event_store.py`, `triggers.py`) | sequence numbers, history, store, queue, trigger file | publish, next, replay, tick, handle | a full queue, crashes between two writes, handlers that publish | published once, seen by an open page |
| Gateway, voice (`dashboard/service.py`, `voice/service.py`) | voice session | commands, intents | act on missions at the operator's awaits | the operator's properties |
| Runtime bridge, page (`dashboard/runtime_bridge.py`, `dashboard/static/app.js`) | offsets; last number | pump_once; stream, refresh | lists grow while it awaits; the server restarts | every record published once, every event seen |
| Agent tree, leases (`agents/manager.py`, `safety/leases.py`, `autonomy/health.py`, factory, definitions, blueprints) | parents, permissions, tools, leases | create, grant, revoke, lease, replace | stale grants, replacements | authority only flows down |
| Planner, registry, reasoning (`agents/planning.py`, `registry.py`, `reasoning_provider.py`, `proposals.py`) | registered agents, one lock | select_or_create, find, propose, validate | one conversation shared by all, half of it without a lock | no action on another task's answer, one mission per agent |
| Chat providers (`providers/base_provider.py`) | open page, prepared tab, response count | open, send, wait, extract | shared adapter state across awaits | the lock is given back |
| Browser runtime, window (`runtime/agent_runtime.py`, `gui.py`) | state, pause, emergency stop, records | run, _act | stop and pause from another thread against operations in flight | nothing starts after a stop, every attempt recorded, runs end |
| Desktop events (`event_system/`) | snapshots, queue, circuit, pending actions | poll, publish, route, execute, stop, resume | handlers that publish or raise under a lock, back-offs, chains with timeouts | no event forgotten, routing ends, a stop is a stop, listeners can mirror the desktop |
| Perception (`perception/`) | latest snapshot | observe | sources fail, requests see less | changes told completely |
| Learning (`learning/`) | skills and their status | record, register, approve, set_status | a life cycle with many callers | only tested and approved skills are trusted |
| Guided workflow, memory, adapters, shell | - | - | external I/O or data transformation | - |

How they interact: the gateway and the voice router change missions in the store
and put events on the bus; the operator reads both, and calls the mission runner;
the runner restores a task graph and calls the engine; the engine runs each node
with the orchestrator, which finds or creates an agent and starts a loop of
actions; each action passes governor, mode policy, contract, permission policy,
approval, lock and the agent manager's tool call. The health monitor releases the
locks of dead agents. The bridge turns agent events and audit records into bus
events.

Beside it stand two programs of their own: the older browser runtime, started by a
window on another thread, and the desktop event system, a library with its own bus.

## 2. The modules

### TaskGraph, TaskEngine, DependencyExecutor

`TaskGraph` has the pure part: `Runnable` (`runnable`), `NextTasks`
(`TaskScheduler.next_tasks`, stated as what the greedy loop selects) and
`BlockDependents` (`_block_dependents`, stated as the least set its recursion
marks). They are functions of a status function, so they apply to the live and to
the saved graph.

`TaskEngine` is one mission's graph and the coroutines that save it. `Turn` is the
head of the operator's turn, which loads the mission and awaits an observation;
`Call` saves that copy as running and goes on to the runner's first await
(`graph_for`, `_restore`); under a takeover the turn ends there (`Yield`). `Select`
is the head of `run_graph`'s loop, `NodeReturns` the end of one `execute_node`,
`GatherReturns` everything between `gather` and the next selection, `Return` the
judgement, the mapping to a mission status and the write-back. `Raise` is
`run_graph` failing: AGENT_FAILED is queued (`alarms`) and the copy loaded at the
start of the turn is saved. `Reopen` is such an event, handled whenever it comes:
it makes the mission recovering even after it was completed, and the runner is
called again. A mission is saved whole, its graph with its status, so whoever saves
a copy loaded before an await puts an older graph back: the turn itself (`loaded`),
and the writers beside it (`holding`, `copy`; actions `Take` and `SaveCopy`): the
gateway's pause for a capability gap (`dashboard/service.py:97`) and the voice
resume (`voice/service.py:100`). `Crash` ends turn, writers and queue; the graph is
serialized only on return, so the next call starts from what was saved last.
`Pause`, `Resume` and `Cancel` are the public operations of `TaskGraph` while the
engine awaits; nothing in the source calls them. The resources other agents hold
are any set at every selection. Two variables are history: `touched`, the nodes an
operator has intervened in, and `reported`, the nodes completed when a call
returned, without those that a stale copy saved since does not have.

`DependencyExecutor` is the promise, free of statuses, retries and schedules: start
work only behind done work, never two conflicting pieces together, fall back to
what was persisted, declare the goal reached only when all is done. Done work may be
withdrawn, a goal reopened, and whoever holds a copy of what was persisted may
persist it again, so it does not promise that done stays done; it promises that
nothing becomes done without having run. `TaskEngine` implements it under the
mapping `done` = the completed nodes, `running` = the batch, `durable` = the
completed nodes of the saved graph, `held` = those of the copies of turn and
writers, `reached` = outcome is completed (property `KeepsPromise`).

### MissionOperator

Two programs on one store: the operator's loop, whose pc names the await it is at
(observation, runner, publication of a failure, queue, trigger handler), and the user's
commands by dashboard and voice, each a single stretch or split at its own awaits
(`Create`/`PauseForGap`, `VoiceResume`/`VoiceWakes`). A mission is its saved status; a
turn keeps the status it loaded. The queue is bounded and an event is reduced to the
mission of an AGENT_FAILED event or None: USER_TAKEOVER, RESOURCE_CONFLICT and
TASK_FAILED have a row in `BlockerDetector` but nothing in the program publishes them.
An observation that publishes (perception, `ObservationChanges`) is at pc `notify`
before the turn goes on. `Restart` keeps the store and loses everything else; `stranded`
records the missions it caught in a turn.

### ResourceLocks

One context per use of `acquire`, with `asyncio.Lock` as a Boolean and a FIFO list
of waiters (external, from its use). `GiveUp` is a timeout or cancellation while
waiting, `Leave` the end of the body however it ends; both run the `finally` block
(`ReleaseHeld`), which drops an ownership only if it is still the agent's but
releases the lock if it is locked at all. `Inspect` and `Replace` are the forced
release; `forced` remembers that one hit an open context.

### ActionRuntime

A run is one `AutonomousRuntime.execute`. Its pc is the await it is at: `decide`
(observation, model, validation), `mode` and `policy` (the two places where `perform`
asks for an approval), `lock`, `before` (the observation under the lock), `tool` (from
the tool call to the verification). `Record` is `_result` with the end of `run_loop`'s
iteration. `End` is the end of `AgentManager._run`, which sets the agent's status;
`Leave`, a turn of the event loop later, is the `finally` of `start_agent`, which drops
the agent's entry in `_running` whatever run has it by then - a sibling may have found
the completed agent and started in between. `Terminate` cancels the run that has the
entry, `Cancelled` is the cancellation reaching it; what a run does of its own accord is
`Proceed`. `Check` is the policy check of `perform`, `MayInvoke` and `Invoke` the second
one in `execute_tool`. A request carries the action's identifier, so one decision
answers both questions about an action. `credit`, `executed`, `resumed` and `unlisted`
(the agents of which an open run lost its entry to an earlier run's `Leave`) are history
variables. Every tool is a controller tool, all of which are registered with high risk;
no action contract exists in the production wiring. The permission policy's mode
REQUIRE_APPROVAL is what the tests configure
(`src/tests/test_autonomous_runtime.py:122`), the autonomy mode "approval" is what
`src/run_dashboard.py:76` configures.

### RuntimeEvents

The way of one event. An event's identity is its place in `log`, a history
variable; `number` is what the bus numbers it with. `Publish` is the code up to the
history, `Store` the SQLite write - a crash may come between, nothing else can - and
`Put` a worker thread's put, which waits while the queue is full and comes in any
order. The bridge remembers a slice (`pump`) and afterwards sets the offset to the
length of the list (`EndOfPass`). The operator takes an event and looks at the copies
of the triggers it read. `Follows` and `Refreshes` are the page's stream and
snapshot: both use `Replay`, the oldest events after a number. `Restart` restores
history and numbers from the store; the page stays open.

### AgentAuthority, ProviderChat, AgentTeam

`AgentAuthority` is the tree of agents as its managers may change it, one action per
operation, since none awaits: it is an abstract specification, and its own module.
`ever` remembers what each agent had for good. `ProviderChat` is the chat adapter
step by step between its awaits, with what is typed, sent and answered in every tab;
the planner prepares a tab under its lock, the reasoner uses whatever was prepared
last. `AgentTeam` composes them: each mission asks for a selection, perhaps for a
definition, employs or makes an agent and reasons with it. An answer is the question
it answers: the provider says which task and requirements it was asked about, which
is all the validators can look at, and may say anything else. `Edit` is what is
managed by hand meanwhile. `AgentTeam` implements `AgentAuthority`.

### BrowserRuntime

One run of `AgentRuntime` and the window. The run is on a thread of its own, so pc is
a point of the code, not only an await: `enter` (the stop is looked at), `gate` (the
pause, then time and action budget), `op` (in flight: may return, raise, ask for the
user or hang), `shoot`/`shot` (a screenshot as evidence), `ocr`, `validate`,
`response`/`failure` (the record), `raised` (run's handler), `next`. `Returns` and
`Raises` say what follows each operation; extraction is retried with a reload and an
observation, then the clipboard and the screenshot are tried. The observation of a
verified page (`observe`) is awaited outside `_act`: no pause, budget, deadline or
stop applies to it, and its reads take no timeout. What begins while the stop is on is
counted in `begun`: operations that pass `_act`, operations begun inside one or beside
it without a look at the stop, and screenshots. The statuses are those of
`StateManager`.

### DesktopDetectors, DetectorPolling, EventPlatform

`DesktopDetectors` has the pure part: what each polling detector, and the perception
engine, reports when it finds a new snapshot where it left an old one.
An event has what the code's has: of the clipboard the length, not the text, though
the text decides whether there is one; of a file its size and times, not the inode.
`DetectorPolling` polls one of them again and again and keeps a listener that knows
only what it is told. Perception asks any set of capabilities; any of the sources
that have one of them answer, in any order (their timestamps), and the rest fail.
`Perceive` awaits each publication before it remembers the snapshot; in
`PerceiveCutOff` a publication fails or the observer is cancelled, so that some events
are out and the snapshot is not remembered. `astray` has the topics of those events
until the listener is told of them again.
`EventPlatform` puts the events on the bus. Poller and user publish; who publishes
routes, under a lock; handlers return, raise, publish themselves (and wait for the
lock their own task holds) or run a chain of actions. The registry retries with
back-off, opens its circuit after three failures and is stopped by the emergency
stop; the limiter counts an agent's actions; the dispatcher hears what its agent
subscribed to. `EventPlatform.resume` routes what was queued,
`AutoWindow.resume_agent_system` does not. Whether an event is a duplicate, throttled
or late is left open.

## 3. The runs

| Run | Instance | What it shows |
|---|---|---|
| `task_engine` | 4 nodes (a before b and c, b before d; c and d need the one resource), 1 retry, 2 in parallel, operator on b, 1 writer beside the turn, 1 queued failure | `DependencyOrder`, `NoConflict`, `CompletedNeverRerun`, `NoneStranded`, `BlockedHasCause`, `RunEnds`, the refinement `KeepsPromise` |
| `mission_operator` | 2 missions, queue of 2 | `DecisionSticks` with exactly the races it names, `RunningIsReal`, `TakeoverHonoured`, `WaitingIsVisited` |
| `resource_locks` | 3 contexts of 2 agents, 3 resources, the sets of the registered tools | exclusion, owner table, no circular wait, `EveryoneServed` |
| `action_runtime` | 3 runs of 1 agent, 2 under contract, 2 needing policy approval, 2 steps, 1 failure tolerated, budgets of 1 | `OwnApproval`, `OneShot`, `OneRun`, `TerminatedIsFinal`, `BudgetBounded`, `RunIsBounded` |
| `runtime_events` | 3 events, 2 records, a one-shot trigger and one on failures, queue of 1, history of 3, replays of 2, 1 restart | `ToldOnce`, and `NewestIsSeen` with its two exceptions |
| `agents` | root and 2 agents, 2 missions with the same needs, 2 questions each, 1 change by hand | authority, foreign answers, double employment |
| `browser_runtime` | 1 provider, 2 with an optional one, 2 with a synthesis; 26 actions, 1 retry, 1 pause | `StopIsPrompt`, `Accounted`, `RunEnds` |
| `event_platform` | every detector on small readings; 2 events, 2 subscribers, a chain of 2, 1 retry, 1 stop, 1 action at a time, 2 topics astray | `Mirrors`, `DragsEnd`, `NoEventForgotten`, `StopIsBounded`, `RoutingEnds`, the limiter's count in `TypeOK` |
| `paused_is_inert` | 2 missions, queue of 1 | violated: a pause can be overwritten (finding) |
| `turn_is_bounded` | 2 missions, queue of 1 | violated: a failing turn waits for a queue only it empties (finding) |
| `governor_gate` | 2 runs, 1 under contract, executed through `run_graph` | violated: the governor never recognises the node (finding) |
| `stop_is_recorded` | as `browser_runtime` | violated: a stopped task is recorded as completed (finding) |

Why the bounds suffice. A chain of two dependents (b and d behind a) is where direct and
transitive blocking differ; b and c run together, c and d compete for a resource that
others may hold too, and a c that was put off meets d when b is done; a second retry
repeats the first. The writers do not look at each other, so one beside the turn is as
stale as a copy can be: it may have loaded the mission in any state before, across
turns. A second queued failure reopens the mission once more. The operator acts on the
node in the middle, which has a dependency and a dependent. Two missions are the fewest
with which one's failure event waits behind another's, and a queue of two is filled by
the failures of the two or by any other publisher. Three contexts and three resources
allow a cycle of length three. With one agent every two runs that can meet do so in the
worst place; two contracted runs are what it takes for a second action to pass a check
the first has not yet charged, and a third run lets one approval be taken by an action
that is not the one it was given for. Only the `credit` and `executed` counters and
`usage` are unbounded in type; the step budgets bound them.

`runtime_events`: a queue of one is full whenever two publish; three retained events
are one more than a replay returns; two records let one be appended while the other
is published. `agents`: two agents are enough for a mission to find the agent of
another; both missions have the same needs, which is when answers can be confused
without being refused; permissions are one the root has and one it has not.
`browser_runtime`: the action budget runs out during the last of the longest task's
steps, in a screenshot as well as in an operation. `event_platform`: one event is
routed while the other is published, and the handler of the first may publish the
second; a history of one forgets; an agent that may do one action at a time refuses
the second. The stop is pressed once, at any moment. Three events exceed the time a
run may take. The three paths of the file detector are what a hard link and a move
need together, and of three texts on the clipboard two are equally long. With two
topics astray a second observation can be cut off before the first one's are told
again.

`CHECK_DEADLOCK FALSE` stands where the system may stop: a completed mission is not
run again, runs are done, the bounds on events, questions and starts are used up, or
a publisher waits for its own lock. The other two models never stop.

### Fairness

- `TaskEngine`: the engine's own steps. The event loop runs what can run, and an
  execution ends (`run_loop` has step and failure budgets, locks time out;
  `ActionRuntime` checks this as `RunIsBounded`). Nothing obliges anyone to take a
  turn, intervene, raise, save a copy or crash.
- `MissionOperator`: the operator's steps, not the user's and not restarts.
  `events.next` has a timeout; an observation and a runner come to an end.
  `WaitingIsVisited` is about behaviours with finitely many restarts.
- `ResourceLocks`: each context acquires when it can and its body ends. `GiveUp` has
  no fairness because `default_timeout` may be None.
- `ActionRuntime`: each run's steps. A cancelled run gets its turn to end, and a
  finished one its turn to clean up. The model's answer has 180 s
  (`reasoning_provider.py:23`), a request 300 s (`approvals.py:65`), a lock 30 s
  (`resources.py:13`). That a tool call ends is an assumption about the desktop
  adapters: without an action contract no timeout is put around it.
- `RuntimeEvents`: the page alone. It polls for as long as it is open; nothing else is
  needed for `NewestIsSeen`.
- `BrowserRuntime`: the run's own steps and the passing of time (`Deadline`). Neither
  the end of an operation nor the reading of a page, whose `evaluate` and `title` have
  no timeout: both may hang. Nor the owner's buttons.
- `EventPlatform`: routing, handlers, chains and executions, each by itself. Handlers
  end and operations have a timeout; publishing, polling, stops and resumptions are
  nobody's duty.

## 4. The proofs

For every value of the constants that satisfies the named assumptions of the
modules, and for all behaviours of `Spec` (no fairness is needed).

- `TaskEngineProofs`: type correctness, `DependencyOrder`, `NoConflict`,
  `CompletedNeverRerun`, `NoneStranded`, `BlockedHasCause` and `Implements`. The
  inductive invariant adds: what is running is the batch, and the batch was chosen with
  its dependencies settled; the saved graph, which a crash makes the live one, satisfies
  the same facts as the live one and has nothing running, and so do the copies of the
  turn and of every writer, any of which may become the saved one (`Stored`); blocked
  and cancelled nodes have their causes. Without the stored graphs' half, neither a
  crash nor a stale save could be shown to preserve anything. For `CompletedNeverRerun`,
  `Reported`: what a returned call reported, and no stale copy took back, is completed
  or cancelled in the saved graph, in the turn's copy while there is a turn, and in the
  live graph during a call. The proofs use that `Deps` and `Needs` are functions into
  sets of nodes and resources, that the ranks are distinct, that `MaxRetries` is a
  natural number and that operable nodes are nodes. They do not use that the graph is
  acyclic: a node on a cycle would never run.
- `ResourceLocksProofs`: type correctness, `Exclusive`, `OwnersAccurate`,
  `NoCircularWait`. Inductive: the waiters of a lock wait for the first resource
  they miss, each queued once; what a context holds precedes all it misses
  (`Climbs`, the reason why ordered acquisition cannot deadlock); an owner has a
  context; and until a forced release what is held is locked, owned and held once.
  `Climbs` and `NoCircularWait` survive forced releases.
- `ActionRuntimeProofs`: type correctness, `OwnApproval`, `OneShot`, `OneRun`,
  `TerminatedIsFinal`, and of the budget `BudgetByWiring`. Inductive: an open run has an
  agent, and what a termination would cancel is a run of that agent; unless the agent
  was resumed too early an open run is the only one, and the agent is running or paused;
  unless an earlier run's clean-up took its entry that run is the one registered, so a
  termination reaches it, and a run whose cancellation is on its way does nothing more;
  an action past its approvals has one of its own, or used up an older one that
  `execute_tool` then no longer finds, so it fails instead of acting on the wrong
  approval. For the budget the two wirings have two results in one theorem. Through
  `run_graph`, the production path, nothing is ever charged (`Unaccounted`). Where the
  governor recognises the nodes of its mission, `BudgetBounded`: the actions executed
  and those in flight between gate and tool keep within the bound together, and those
  executed but not counted are in the tool, or of runs that are over. The steps compare
  cardinalities of sets of runs that differ by one.
- `AgentTeamProofs`: `AuthorityFlowsDown` for `AgentAuthority` alone; that `AgentTeam`
  implements `AgentAuthority` step by step; hence `AuthorityFlowsDown`,
  `OneMissionPerAgent` and `NoForeignAction` for the team. Inductive for the tree:
  the root exists with its permissions and no parent, parents exist, what an agent
  has now it had at some time, what it ever had its parent ever had, and a lease is
  of something its agent's parent had. For the team: the worker of a mission that
  reasons is registered, runs and is assigned to that mission, so the registry, which
  returns only ready and completed agents, cannot return it to another; and an action
  was validated for the task its agent is assigned to and for the task its answer
  names, so the two are one. Type correctness of the team with the shared chat: the tabs
  hold sequences of questions, so the count of answers is a number; every way out of an
  exchange gives the lock back; a mission is over only when its exchange is; and no
  agent, once made, ceases to exist, so the registry names none that does not. Nothing
  is proved of whose answer is read.
- `MissionOperatorProofs`: type correctness, `RunningIsReal`, `TakeoverHonoured`,
  `DecisionSticks`. Inductive: in a turn there is a mission, and the copy loaded of it
  was neither terminal nor paused, because `run_once` returns early otherwise; without
  it a turn could not be shown to be one that began before the decision it undoes.
- `BrowserRuntimeProofs`: `StopIsPrompt` and `Accounted`, for any providers, selections
  that are not empty, and limits. For the stop, three counts: the operation that passes
  `_act` after it was past the check at entry, so it came from the pause, and nothing
  stands there any more; what begins without a look at the stop is bounded by the
  retries the extraction in flight has left, three for each, or is the one reading of a
  verified page; and a screenshot belongs to the provider of its turn, or to the one the
  stop met. For the accounts: whoever was left behind has answered or is the optional
  one, and a run that goes on to another provider has an answer.
- `RuntimeEventsProofs`: `ToldOnce`. Inductive: on its way to the operator an event is in
  one place (with its writer, in a publish that waits, on the queue, or handled), so it
  is handled once; a trigger has answered only events that are on none of the ways; a
  one-shot trigger still enabled has not fired; and the bridge is never ahead of what it
  published or missed. It needs that a trigger has one kind.
- `EventPlatformProofs`: type correctness, `NoEventForgotten`, `StopIsBounded`,
  `Mirrors` and `DragsEnd`, for any subscribers and handlers, limits, and readings. Four
  parts are inductive together. The bus: the lock's holder is routing and nobody else
  is; who waits is in the queue of waiters once, unless it waits for its own lock, which
  is the exception `SelfWaits` by name; nothing is being delivered while the holder
  looks at the queue. Then whoever gives the lock back has found the queue empty or the
  bus paused, or was ended by an exception. The actions: what an execution begins after
  a stop it begins as a retry, so the operations begun late never exceed its attempts,
  and one that is over cannot begin again; the limiter's count is the cardinality of the
  actions under way, which changes by the one that begins or ends, however it ends; a
  chain runs exactly while the lock's holder is in it. The log: sequence numbers,
  history and counters, and that only a detector on the bus has events to publish. The
  polls: for each kind of detector a lemma says what the events of one poll tell of the
  two readings (`FilesTold`, `WindowsTold`, `PowerTold`, ...), from a general one
  (`Rebuilt`: events that name all who came, changed and left, and nobody else, turn the
  old reading into the new one). A file's events do because a moved path is given to one
  that is gone, never to one that is still there. Of the clipboard they tell the length
  alone. What an observation that was cut off tells is of its topics (`Beyond`), and
  those stay astray until a whole observation speaks of them; of all others the listener
  knows the latest snapshot. For the pointer: unless a move involved two buttons, the
  button the listener takes to be dragging is the one the detector holds, and it is
  down. The proofs use that a reading has the form its detector gives it
  (`WorldAssumption`), and that no reading, path or button is None.

Only model-checked: the liveness properties `RunEnds`, `WaitingIsVisited`,
`EveryoneServed`, `RunIsBounded`, `RoutingEnds` and `NewestIsSeen`, because TLAPS does
not prove liveness under fairness here. Every safety property and type invariant the
passing runs check is also proved. What `Fused` makes of several observations is a fold
over a sequence, of which the proofs use only that it is not None.
`BlockDependents` and `NextTasks` are stated by
what the recursion and the loop compute; that they compute it for every graph would
need induction over the data and was checked by reading.

## 5. What the models show about the code

1. `paused_is_inert`: `src/README.md:165` promises that background events cannot restart
   a paused mission. A turn in progress or a queued failure event overwrites the
   pause. `DecisionSticks` says that these, the gap pause and the voice resume are
   the only ways a decision is lost. The same saves carry the graph: a gap pause
   (`dashboard/service.py:103`) or voice resume (`voice/service.py:104`) that began
   before a call returned puts the older graph back, and nodes recorded as completed
   are executed again. `CompletedNeverRerun` says that nothing else does it - no crash,
   failing call, reopened mission or the turn's own stale copy.
2. `turn_is_bounded`: the operator publishes to the bounded queue of which it is the
   only consumer; `WaitingIsVisited` names the three places where the loop can be
   lost (a full queue while publishing, a full queue in a trigger, an observation
   that raises), and that it is lost there for good.
3. `governor_gate`: `run_graph` puts the mission's identifier before node identifiers
   that already have it, so no contract is ever found for production missions.
   `BudgetByWiring` has both sides: through `run_graph` no action is ever charged.
   Where the contract is found, `BudgetBounded` shows the budget exceeded by at most one
   action for each further run in flight.
4. `stop_is_recorded`: a stop that cancels the extraction of a response is taken for a
   failed extraction (`runtime/agent_runtime.py:173`); the screenshot may still be read
   and the task recorded as completed, against `src/README.md:220`. What holds is
   `StopIsPrompt`: one more operation passes `_act`, the one a pause was holding back.
   Inside a retried extraction, though, reload, observation and extraction begin without
   a look at the stop (`runtime/agent_runtime.py:186`) until the cancellation reaches
   them, against `safety/emergency_stop.py:8`, "callers must check it before each
   external action". And the observation after the verification
   (`runtime/agent_runtime.py:115`, `browser/page_observer.py:22`) has no timeout and is
   ended by neither stop nor deadline: `RunEnds` names it as what a run may wait for for
   ever.
5. `NewestIsSeen` holds only while the history has no more events than a replay
   returns (200): beyond that every refresh sets the page's number back to that of the
   200th, and the page fetches the same events for ever. A crash between history and
   store gives a number out twice.
6. `ToldOnce`: a record appended while the bridge awaits the publication of an earlier
   one of the same list is never published.
7. As wired, mission triggers never fire: `dashboard/runtime_bridge.py:18` publishes
   task_completed without a mission, which `autonomy/triggers.py:43` needs. Condition
   triggers have no conditions to ask.
8. `AuthorityFlowsDown` is about what a parent ever had: a revocation does not reach
   children, tools or leases, so after one a child's permissions need not be a subset
   of its parent's, as `src/README.md:63` has it. A replacement for a failed agent has
   its permissions but not its application and directory boundaries
   (`autonomy/health.py:23`), and an empty boundary is none.
9. `StopIsBounded`: retries in back-off when the stop is pressed go on.
   `NoEventForgotten`: a handler's exception, or AutoWindow's resume, leaves the queue
   until the next publication. `RoutingEnds`: a handler that publishes through the bus
   never returns, and every event after it stays queued (`SelfWaits`,
   `event_system/bus.py:42`). An action cut short by its chain's timeout counts as
   cancelled and the chain goes on beyond it.
10. `Mirrors`: detectors can be followed by their events, as far as these report: of the
   clipboard only the length, so a text replaced by one as long is an event without
   news. Of a window that opens it is not said whether it is active; of two drags at
   once the first is not ended. An observation cut off between its events and
   `self.latest = snapshot` (`perception/engine.py:157`) leaves the listener astray.
   Perception compares with the latest snapshot whoever saw it: what a narrower
   request or a failed source does not cover is reported as gone.
11. `TerminatedIsFinal`: `start_agent` pops the agent's entry a turn of the event loop
   after the status is set (`agents/manager.py:167`), when a sibling's run may already be
   registered there. A termination then cancels nothing, and the run may later make the
   terminated agent failed; `src/AGENT_BUILDING.md:587` calls the status final. The other
   way is an agent paused and resumed while a run was open.
12. Met while reading, not modelled: the guided workflow asks its provider for a plan
   before the browser is started (`runtime/guided_workflow.py:99`, `:108`), which
   `browser/browser_manager.py:50` refuses; the tests' fakes accept it.

## 6. What is not modelled

The contents of proposals, application and directory boundaries, action contracts and
the recovery engine (no contract is registered), world state and predictions,
checkpoints (written, never read back to resume), the dashboard's views and
authentication, the voice session and audio, the guided workflow and the recorder, the
combinators of event chains (branch, parallel, repeat, retry), subscribing while events
are routed, grounding and OCR, the learning of skills, the graphical interface beyond
its buttons. `TaskGraph.replan`, `run_with_learning` and `resume_active` have no caller
in the production wiring; neither have the graph's `pause`, `resume` and `cancel`, which
are modelled all the same, as its public operations. Each is listed with its reason in
`PROJECT.json`.

## 7. Plan

What remains, in order of importance. A new question
extends one of the twelve runs rather than adds one.

1. `MissionRuntime`: operator and engine composed, with restarts between the engine's
   return and the operator's save, and the acceptance criterion's in-memory audit.
2. `VoiceSession` (the pending command), `SkillLifecycle`, and contracts with the
   recovery engine in `ActionRuntime` once a caller registers one.
