-------------------------- MODULE MissionOperator --------------------------
(***************************************************************************)
(* app/autonomy/operator.py (AutonomousOperator) with the mission store it *)
(* shares with the dashboard's command gateway (app/dashboard/service.py)  *)
(* and the voice router (app/voice/service.py), as run_dashboard.py wires  *)
(* them on one event loop.                                                 *)
(*                                                                         *)
(* Every coroutine loads a mission from the store, may await, and saves    *)
(* its whole copy back: the last save wins.  The operator's background     *)
(* loop gives each active mission a turn (run_once), then handles one      *)
(* event (process_event).  Commands and voice intents act at its awaits.   *)
(*                                                                         *)
(* An event on the queue is the mission of an AGENT_FAILED event, or None  *)
(* for any other event: the program publishes no other event that changes  *)
(* a mission's status, but every event takes a place in the queue.         *)
(***************************************************************************)
EXTENDS Integers, Sequences, FiniteSets

CONSTANTS
    Mission,
    None,       \* no mission
    Capacity    \* maxsize of the event queue

ASSUME NoneAssumption == None \notin Mission
ASSUME CapacityAssumption == Capacity \in Nat \ {0}

VARIABLES
    store,    \* MissionStore: the saved status of each mission
    mode,     \* UserTakeoverManager.mode
    pc,       \* where run_background is
    todo,     \* missions its for loop has still to visit
    turn,     \* the mission in its turn (run_once)
    loaded,   \* the status run_once loaded for it
    queue,    \* AutonomousEventBus._queue: events not yet consumed
    event,    \* the event whose handlers process_event awaits
    gap,      \* created missions about to be paused for a capability gap
    waking,   \* missions a voice RESUME holds a copy of, still to save
    stranded  \* history: missions whose turn a crash or an error cut off

vars == <<store, mode, pc, todo, turn, loaded, queue, event, gap, waking, stranded>>
loop == <<pc, todo, turn, loaded, event, stranded>>

(* "absent" stands for a mission not created yet.                          *)
Status == {"absent", "planning", "running", "waiting", "blocked", "paused",
           "awaiting_user", "recovering", "completed", "partially_completed",
           "failed", "cancelled"}

(* The terminal set of run_once and of the gateway; the store's active()   *)
(* also leaves out partially completed missions.                           *)
Terminal == {"completed", "failed", "cancelled"}
Inactive == Terminal \cup {"absent", "partially_completed"}

(* Mutant: a mission that waits is not active.                             *)
ActiveForgetful == {m \in Mission : store[m] \notin Inactive \cup {"waiting"}}

Active == {m \in Mission : store[m] \notin Inactive}

(* Mutant: one event more than the queue holds.                            *)
HasRoomForOneMore == Len(queue) <= Capacity

(* Queue.put goes through; it blocks while the queue is full.              *)
HasRoom == Len(queue) < Capacity

PutOther == HasRoom /\ queue' = Append(queue, None)

TypeOK ==
    /\ store \in [Mission -> Status]
    /\ mode \in {"autonomous", "takeover"}
    /\ pc \in {"visit", "observe", "notify", "run", "publish", "sleep", "trigger", "dead"}
    /\ todo \in SUBSET Mission
    /\ turn \in Mission \cup {None}
    /\ loaded \in Status
    /\ queue \in Seq(Mission \cup {None}) /\ Len(queue) <= Capacity
    /\ event \in Mission \cup {None}
    /\ gap \in SUBSET Mission
    /\ waking \in SUBSET Mission
    /\ stranded \in SUBSET Mission

Init ==
    /\ store = [m \in Mission |-> "absent"]
    /\ mode = "autonomous"
    /\ pc = "sleep" /\ todo = {} /\ turn = None /\ loaded = "absent"
    /\ queue = <<>> /\ event = None
    /\ gap = {} /\ waking = {} /\ stranded = {}

Save(m, s) == store' = [store EXCEPT ![m] = s]

EndTurn == pc' = "visit" /\ turn' = None /\ loaded' = "absent"

-----------------------------------------------------------------------------
(* run_background.                                                         *)

(* Mutant: a paused mission is given its turn like a waiting one.          *)
InertForgetful(s) == s \in Terminal

(* The early returns of run_once, before anything is observed.             *)
Inert(s) == s \in Terminal \cup {"paused", "blocked"}

Visit(m) ==
    /\ pc = "visit" /\ m \in todo
    /\ todo' = todo \ {m}
    /\ IF Inert(store[m])
       THEN UNCHANGED <<pc, turn, loaded>>
       ELSE pc' = "observe" /\ turn' = m /\ loaded' = store[m]
    /\ UNCHANGED <<store, mode, queue, event, gap, waking, stranded>>

(* Mutant: the takeover is not looked at after the observation.            *)
AfterObservationUnchecked == "running"

AfterObservation == IF mode = "takeover" THEN "awaiting_user" ELSE "running"

(* perception.observe saw the screen change, and publishes an event of it.  *)
ObservationChanges ==
    /\ pc = "observe"
    /\ pc' = "notify"
    /\ UNCHANGED <<store, mode, todo, turn, loaded, queue, event, gap, waking, stranded>>

(* perception.observe returns, its event on the queue if there was a       *)
(* change; the copy loaded before it is saved.                             *)
Observed ==
    /\ \/ pc = "observe" /\ UNCHANGED queue
       \/ pc = "notify" /\ PutOther
    /\ Save(turn, AfterObservation)
    /\ IF mode = "takeover" THEN EndTurn
       ELSE pc' = "run" /\ UNCHANGED <<turn, loaded>>
    /\ stranded' = stranded \ {turn}
    /\ UNCHANGED <<mode, todo, event, gap, waking>>

(* perception.observe raises outside run_once's try: run_background ends.  *)
ObservationRaises ==
    /\ pc = "observe"
    /\ pc' = "dead"
    /\ turn' = None /\ loaded' = "absent"
    /\ UNCHANGED <<store, mode, todo, queue, event, gap, waking, stranded>>

(* The runner returned a status, which overwrites what was saved meanwhile.*)
RunnerReturns ==
    /\ pc = "run"
    /\ \E s \in {"completed", "partially_completed", "blocked", "failed"} : Save(turn, s)
    /\ EndTurn
    /\ UNCHANGED <<mode, todo, queue, event, gap, waking, stranded>>

RunnerRaises ==
    /\ pc = "run"
    /\ pc' = "publish"
    /\ UNCHANGED <<store, mode, todo, turn, loaded, queue, event, gap, waking, stranded>>

(* Mutant: the mission of a failed runner is not saved again.              *)
SaveAfterFailureForgotten == UNCHANGED store

SaveAfterFailure == Save(turn, "recovering")

(* AGENT_FAILED is put on the bounded queue, which blocks while it is      *)
(* full; only then is the mission saved.                                   *)
PublishFailure ==
    /\ pc = "publish"
    /\ HasRoom
    /\ queue' = Append(queue, turn)
    /\ SaveAfterFailure
    /\ EndTurn
    /\ UNCHANGED <<mode, todo, event, gap, waking, stranded>>

Sleep ==
    /\ pc = "visit" /\ todo = {}
    /\ pc' = "sleep"
    /\ UNCHANGED <<store, mode, todo, turn, loaded, queue, event, gap, waking, stranded>>

NextPass == pc' = "visit" /\ todo' = Active' /\ UNCHANGED <<turn, loaded, stranded>>

(* BlockerDetector.classify and the save, once the handlers have returned: *)
(* whatever the mission's status is by now.                                *)
Classify(e) == IF e = None THEN UNCHANGED store ELSE Save(e, "recovering")

(* events.next returns an event; process_event is over at once unless a    *)
(* trigger of the trigger engine, its handler, fires on the event.         *)
HandleEvent ==
    /\ pc = "sleep" /\ queue # <<>>
    /\ queue' = Tail(queue)
    /\ \/ Classify(Head(queue)) /\ NextPass /\ UNCHANGED event
       \/ /\ pc' = "trigger" /\ event' = Head(queue)
          /\ UNCHANGED <<store, todo, turn, loaded, stranded>>
    /\ UNCHANGED <<mode, gap, waking>>

(* A trigger publishes its event; another may fire after it.               *)
TriggerFires ==
    /\ pc = "trigger"
    /\ PutOther
    /\ \/ UNCHANGED <<store, loop>>
       \/ Classify(event) /\ event' = None /\ NextPass
    /\ UNCHANGED <<mode, gap, waking>>

(* events.next times out.                                                  *)
TimeOut ==
    /\ pc = "sleep" /\ queue = <<>>
    /\ UNCHANGED <<store, mode, queue, event, gap, waking>>
    /\ NextPass

(* The runtime bridge, perception, voice, the triggers and the gateway     *)
(* publish their events on the same queue.                                 *)
PublishOther ==
    /\ PutOther
    /\ UNCHANGED <<store, mode, gap, waking, loop>>

(* The process restarts: the store survives, the event queue, the takeover *)
(* and every coroutine's copy do not.                                      *)
Restart ==
    /\ mode' = "autonomous"
    /\ pc' = "sleep" /\ todo' = {} /\ turn' = None /\ loaded' = "absent"
    /\ queue' = <<>> /\ event' = None /\ gap' = {} /\ waking' = {}
    /\ stranded' = IF turn = None THEN stranded ELSE stranded \cup {turn}
    /\ UNCHANGED store

-----------------------------------------------------------------------------
(* RuntimeCommandGateway.execute and VoiceRuntimeRouter.route.             *)

(* operator.create; with a capability gap the mission is paused once its   *)
(* first event has been put on the queue.                                  *)
Create(m) ==
    /\ store[m] = "absent"
    /\ Save(m, "planning")
    /\ gap' \in {gap, gap \cup {m}}
    /\ UNCHANGED <<mode, queue, waking, loop>>

PauseForGap(m) ==
    /\ m \in gap
    /\ PutOther
    /\ Save(m, "paused")
    /\ gap' = gap \ {m}
    /\ UNCHANGED <<mode, waking, loop>>

Changeable(m) == store[m] \notin Terminal \cup {"absent"}

Pause(m) ==
    /\ Changeable(m)
    /\ Save(m, "paused")
    /\ UNCHANGED <<mode, queue, gap, waking, loop>>

Cancel(m) ==
    /\ Changeable(m)
    /\ Save(m, "cancelled")
    /\ UNCHANGED <<mode, queue, gap, waking, loop>>

Resume(m) ==
    /\ store[m] \in {"paused", "waiting", "blocked", "awaiting_user", "recovering"}
    /\ Save(m, "waiting")
    /\ UNCHANGED <<mode, queue, gap, waking, loop>>

(* The gateway's TAKEOVER, and a blocker that perception finds a human is   *)
(* needed for, whose event is a PublishOther.                              *)
Takeover ==
    /\ mode' = "takeover"
    /\ UNCHANGED <<store, queue, gap, waking, loop>>

Release ==
    /\ mode' = "autonomous"
    /\ UNCHANGED <<store, queue, gap, waking, loop>>

(* STOP, PAUSE and EMERGENCY_STOP: no await between load and save.         *)
VoicePause ==
    /\ mode' = "takeover"
    /\ store' = [m \in Mission |-> IF m \in Active THEN "paused" ELSE store[m]]
    /\ UNCHANGED <<queue, gap, waking, loop>>

(* RESUME: active() is read once, then each copy that was paused or        *)
(* waiting for the user is saved, and its event published before the next. *)
Halted == {m \in Mission : store[m] \in {"paused", "awaiting_user"}}

VoiceResume ==
    /\ waking = {}
    /\ mode' = "autonomous"
    /\ \/ Halted = {} /\ UNCHANGED <<store, waking>>
       \/ \E m \in Halted : Save(m, "waiting") /\ waking' = Halted \ {m}
    /\ UNCHANGED <<queue, gap, loop>>

VoiceWakes(m) ==
    /\ m \in waking
    /\ PutOther
    /\ Save(m, "waiting")
    /\ waking' = waking \ {m}
    /\ UNCHANGED <<mode, gap, loop>>

-----------------------------------------------------------------------------
Operator ==
    \/ \E m \in Mission : Visit(m)
    \/ ObservationChanges \/ Observed \/ ObservationRaises \/ RunnerReturns \/ RunnerRaises
    \/ PublishFailure \/ Sleep \/ HandleEvent \/ TriggerFires \/ TimeOut

User ==
    \/ \E m \in Mission :
        \/ Create(m) \/ PauseForGap(m)
        \/ Pause(m) \/ Cancel(m) \/ Resume(m) \/ VoiceWakes(m)
    \/ Takeover \/ Release \/ VoicePause \/ VoiceResume \/ PublishOther

Next == Operator \/ User \/ Restart

Spec == Init /\ [][Next]_vars

(* The event loop runs the operator whenever it can run: observations and  *)
(* runs come to an end, and events.next is called with a timeout.          *)
FairSpec == Spec /\ WF_vars(Operator)

-----------------------------------------------------------------------------
(* The decision now in the store was made after the turn in progress       *)
(* loaded the mission, so that turn does not know of it.                   *)
Decided == Terminal \cup {"paused"}
Overtaken(m) == turn = m /\ loaded \notin Decided

FailureQueued(m) == event = m \/ \E i \in 1..Len(queue) : queue[i] = m

(* A mission that is over stays over, and a paused one is neither run nor  *)
(* finished, except by the races the code leaves open: a turn that started *)
(* before the decision and saves its copy, a failure event still queued,   *)
(* the pause of a capability gap, or a voice resume's older copy           *)
(* (operator.py run_once, process_event; service.py CREATE_MISSION;        *)
(* voice/service.py RESUME).                                               *)
DecisionSticks == [][\A m \in Mission :
    /\ store[m] \in Terminal /\ store'[m] # store[m]
         => Overtaken(m) \/ FailureQueued(m) \/ m \in gap \/ m \in waking
    /\ store[m] = "paused" /\ store'[m] \notin {"paused", "waiting", "cancelled"}
         => Overtaken(m) \/ FailureQueued(m)]_vars

(* A mission saved as running is being run, or its turn was cut off by a   *)
(* restart, in which case it is active and the loop runs it again          *)
(* (operator.py run_once; mission.py active).                              *)
RunningIsReal == \A m \in Mission :
    store[m] = "running" =>
        (turn = m /\ pc \in {"run", "publish"}) \/ m \in stranded

(* No mission starts to run under a takeover, although the mode is read    *)
(* after the observation, not when the turn begins (operator.py run_once). *)
TakeoverHonoured == [][\A m \in Mission :
    mode = "takeover" /\ store[m] # "running" => store'[m] # "running"]_vars

(* The loop has died of a failed observation, or it waits to put an event  *)
(* on the full queue that only it empties.                                 *)
LoopLost ==
    \/ pc = "dead"
    \/ pc \in {"notify", "publish", "trigger"} /\ ~HasRoom

(* Unless the process restarts for ever, a waiting mission is given its    *)
(* turn or the operator's loop is lost for good; that the loop merely      *)
(* passes an observation, a failure or a trigger does not excuse it        *)
(* (operator.py run_background, run_once and process_event).               *)
WaitingIsVisited == <>[][~Restart]_vars => \A m \in Mission :
    store[m] = "waiting" ~> (store[m] # "waiting" \/ []LoopLost)

(* README: "Explicitly paused missions are inert: background events cannot *)
(* re-observe or restart them until an authenticated dashboard or          *)
(* authorized voice-resume transition changes them back to waiting".       *)
PausedIsInert == [][\A m \in Mission :
    store[m] = "paused" => store'[m] \in {"paused", "waiting", "cancelled"}]_vars

(* AutonomousOperator: "Runs one bounded mission turn at a time, sleeping  *)
(* on its event queue when idle".                                          *)
TurnIsBounded == pc = "publish" ~> pc # "publish"
=============================================================================
