---------------------------- MODULE RuntimeEvents ----------------------------
(***************************************************************************)
(* The way of a runtime event: what the agents and the action runtime      *)
(* record is bridged to the event bus (app/dashboard/runtime_bridge.py,    *)
(* app/autonomy/events.py), numbered, kept in a bounded history and in     *)
(* SQLite (event_store.py), queued for the operator, whose trigger engine  *)
(* answers it (triggers.py), and followed by the dashboard's page          *)
(* (dashboard/server.py, static/app.js), as run_dashboard.py wires them.   *)
(*                                                                         *)
(* Bridge, ticker and operator are tasks of one event loop and change over *)
(* at the await of publish, which lasts until a worker thread has put the  *)
(* event on the queue; the page is served by threads of its own.  The      *)
(* mission's side of handling an event is in MissionOperator.  Left out as *)
(* they never fire as wired: condition triggers (no conditions are given)  *)
(* and mission triggers (task_completed is published without a mission).   *)
(***************************************************************************)
EXTENDS Integers, Sequences, FiniteSets, SequencesExt

CONSTANTS
    Timed,       \* triggers of kind TIME
    Reacting,    \* triggers of kind EVENT
    ReactsTo,    \* the type of event each of them waits for
    AgentTypes,  \* the types agent records are published under
    Capacity,    \* maxsize of the queue
    Retention,   \* maxlen of the history
    Limit,       \* events one replay returns at most
    Nobody,
    MaxEvents, MaxRecords, MaxRestarts   \* bounds

ASSUME SizesAssumption ==
    {Capacity, Retention, Limit, MaxEvents, MaxRecords, MaxRestarts} \subseteq Nat

(* TriggerKind: a trigger has one.                                         *)
ASSUME KindAssumption == Timed \cap Reacting = {}

Task == {"bridge", "ticker", "operator"}
List == {"agents", "actions"}

ASSUME NobodyAssumption == Nobody \notin Task \cup List

VARIABLES
    log,       \* history: every event ever recorded, by identity
    number,    \* AutonomousEventBus._sequence
    history,   \* the retained events, [number, id]
    saved,     \* the rows of runtime_events
    writer,    \* the task between history.append and store_event
    queue,     \* identities on the bus's queue
    putting,   \* the event each task's publish waits to put, or 0
    records,   \* AgentManager.events and ActionRuntime.audit
    offset,    \* _agent_offset and _action_offset
    pump,      \* the list the bridge is on, how far it is, where its slice ends
    late,      \* history: records appended while their list was pumped
    enabled,   \* triggers.json
    copies,    \* the triggers handle has read and not yet looked at
    handling,  \* the event the operator handles
    page,      \* the client: last number, and whether it must refresh
    seen,      \* history: identities the client was given
    torn,      \* history: a crash came between history.append and store_event
    life       \* restarts

bus == <<log, number, history, saved, writer, queue, putting>>
bridge == <<records, offset, pump, late>>
triggers == <<enabled, copies, handling>>
client == <<page, seen>>
vars == <<bus, bridge, triggers, client, torn, life>>

Idle == [list |-> Nobody, at |-> 0, upto |-> 0]

Init ==
    /\ log = <<>> /\ number = 0 /\ history = <<>> /\ saved = <<>> /\ writer = Nobody
    /\ queue = <<>> /\ putting = [t \in Task |-> 0]
    /\ records = [l \in List |-> <<>>] /\ offset = [l \in List |-> 0]
    /\ pump = Idle /\ late = {}
    /\ enabled = Timed \cup Reacting /\ copies = {} /\ handling = 0
    /\ page = [last |-> 0, stale |-> TRUE] /\ seen = {} /\ torn = FALSE /\ life = 0

-----------------------------------------------------------------------------
(* AutonomousEventBus.                                                     *)

LastOf(s, n) == SubSeq(s, Max({1, Len(s) - n + 1}), Len(s))

(* publish up to store_event; nothing of the loop runs until it is stored. *)
Publish(task, type, origin) ==
    /\ writer = Nobody /\ putting[task] = 0 /\ Len(log) < MaxEvents
    /\ log' = Append(log, [type |-> type, origin |-> origin])
    /\ number' = number + 1
    /\ history' = LastOf(Append(history, [number |-> number', id |-> Len(log')]), Retention)
    /\ writer' = task
    /\ UNCHANGED <<saved, queue, putting>>

(* INSERT OR REPLACE: a number taken twice leaves one row.  The event is   *)
(* the last one recorded: nobody publishes meanwhile.                      *)
Store ==
    /\ writer # Nobody
    /\ saved' = Append(SelectSeq(saved, LAMBDA e : e.number # number), Last(history))
    /\ putting' = [putting EXCEPT ![writer] = Len(log)]
    /\ writer' = Nobody
    /\ UNCHANGED <<log, number, history, queue, bridge, triggers, client, torn, life>>

(* A worker thread's Queue.put, in whatever order the threads come.        *)
Put(task) ==
    /\ putting[task] # 0 /\ Len(queue) < Capacity
    /\ queue' = Append(queue, putting[task])
    /\ putting' = [putting EXCEPT ![task] = 0]
    /\ UNCHANGED <<log, number, history, saved, writer, bridge, triggers, client, torn, life>>

(* replay: the oldest events after a number, Limit of them.                *)
Replay(since) == LET after == SelectSeq(history, LAMBDA e : e.number > since)
                 IN SubSeq(after, 1, Min({Limit, Len(after)}))

(* A task of the loop can go on.                                           *)
Ready(task) == writer = Nobody /\ putting[task] = 0

-----------------------------------------------------------------------------
(* RuntimeEventBridge.                                                     *)

(* An agent or an action is recorded.                                      *)
RecordType(l) == IF l = "agents" THEN AgentTypes ELSE {"action_recorded"}

Recorded(l) ==
    /\ writer = Nobody /\ Len(records["agents"]) + Len(records["actions"]) < MaxRecords
    /\ \E type \in RecordType(l) : records' = [records EXCEPT ![l] = Append(@, type)]
    /\ late' = IF pump.list = l THEN late \cup {<<life, l, Len(records'[l])>>} ELSE late
    /\ UNCHANGED <<bus, offset, pump, triggers, client, torn, life>>

Slice(l) == [list |-> l, at |-> offset[l], upto |-> Len(records[l])]
Behind(l) == offset[l] < Len(records[l])

PumpStarts ==
    /\ pump = Idle /\ Ready("bridge")
    /\ \/ Behind("agents") /\ pump' = Slice("agents")
       \/ ~Behind("agents") /\ Behind("actions") /\ pump' = Slice("actions")
    /\ UNCHANGED <<bus, records, offset, late, triggers, client, torn, life>>

PumpPublishes ==
    /\ pump # Idle /\ pump.at < pump.upto
    /\ Publish("bridge", records[pump.list][pump.at + 1], <<life, pump.list, pump.at + 1>>)
    /\ pump' = [pump EXCEPT !.at = @ + 1]
    /\ UNCHANGED <<records, offset, late, triggers, client, torn, life>>

(* The offset becomes the length of the list, not of the slice.            *)
EndOfPass == Len(records[pump.list])

PumpFinishes ==
    /\ pump # Idle /\ pump.at = pump.upto /\ Ready("bridge")
    /\ offset' = [offset EXCEPT ![pump.list] = EndOfPass]
    /\ pump' = IF pump.list = "agents" /\ Behind("actions") THEN Slice("actions") ELSE Idle
    /\ UNCHANGED <<bus, records, late, triggers, client, torn, life>>

-----------------------------------------------------------------------------
(* TriggerEngine.                                                          *)

(* Mutant: a one-shot trigger is saved enabled.                            *)
SavedAsFiredEnabled(t) == enabled' = enabled

(* _fire saves its copy before it publishes.                               *)
SavedAsFired(t) == enabled' = IF t \in Timed THEN enabled \ {t} ELSE enabled \cup {t}

(* tick: its time has come and the policy allows it.  The copies tick has  *)
(* read are good to the end: nobody else changes a timed trigger.          *)
TickFires(t) ==
    /\ t \in Timed \cap enabled
    /\ SavedAsFired(t)
    /\ Publish("ticker", "time_triggered", <<t>>)
    /\ UNCHANGED <<bridge, copies, handling, client, torn, life>>

(* handle: the file is read once, then each trigger is looked at.          *)
Takes ==
    /\ handling = 0 /\ Ready("operator") /\ queue # <<>>
    /\ handling' = Head(queue) /\ queue' = Tail(queue)
    /\ copies' = {t \in Reacting \cap enabled : ReactsTo[t] = log[Head(queue)].type}
    /\ UNCHANGED <<log, number, history, saved, writer, putting, bridge, enabled, client, torn, life>>

HandleFires(t) ==
    /\ t \in copies
    /\ copies' = copies \ {t}
    /\ SavedAsFired(t)
    /\ Publish("operator", "mission_triggered", <<t, handling>>)
    /\ UNCHANGED <<bridge, handling, client, torn, life>>

(* The policy refuses: the trigger's mission is over.                      *)
Refused(t) ==
    /\ t \in copies /\ Ready("operator")
    /\ copies' = copies \ {t}
    /\ UNCHANGED <<bus, bridge, enabled, handling, client, torn, life>>

Handled ==
    /\ handling # 0 /\ copies = {} /\ Ready("operator")
    /\ handling' = 0
    /\ UNCHANGED <<bus, bridge, enabled, copies, client, torn, life>>

Triggers ==
    \/ \E t \in Timed : TickFires(t)
    \/ \E t \in Reacting : HandleFires(t) \/ Refused(t)
    \/ Takes \/ Handled

-----------------------------------------------------------------------------
(* The page.                                                               *)
Given(events) == seen' = seen \cup {events[i].id : i \in DOMAIN events}
Newest(events) == IF events = <<>> THEN 0 ELSE Last(events).number

(* stream: the number of the newest event it got, then a refresh.          *)
Follows ==
    /\ ~page.stale
    /\ LET events == Replay(page.last) IN
        /\ events # <<>>
        /\ Given(events)
        /\ page' = [last |-> Newest(events), stale |-> TRUE]
    /\ UNCHANGED <<bus, bridge, triggers, torn, life>>

(* refresh: the snapshot's events, and the number of its newest.           *)
Refreshes ==
    /\ page.stale
    /\ Given(Replay(0))
    /\ page' = [last |-> Newest(Replay(0)), stale |-> FALSE]
    /\ UNCHANGED <<bus, bridge, triggers, torn, life>>

-----------------------------------------------------------------------------
(* Mutant: the numbers start over, as without a store.                     *)
RestoredNumberForgotten == 0

(* The history is restored from the store, and the numbers go on.          *)
RestoredNumber == Newest(saved)

Restart ==
    /\ life < MaxRestarts
    /\ life' = life + 1
    /\ history' = LastOf(saved, Retention) /\ number' = RestoredNumber
    /\ writer' = Nobody /\ queue' = <<>> /\ putting' = [t \in Task |-> 0]
    /\ records' = [l \in List |-> <<>>] /\ offset' = [l \in List |-> 0] /\ pump' = Idle
    /\ copies' = {} /\ handling' = 0
    /\ torn' = (torn \/ writer # Nobody)
    /\ UNCHANGED <<log, saved, late, enabled, client>>

Bridge == (\E l \in List : Recorded(l)) \/ PumpStarts \/ PumpPublishes \/ PumpFinishes
Bus == Store \/ \E task \in Task : Put(task)
Page == Follows \/ Refreshes
Next == Bridge \/ Bus \/ Triggers \/ Page \/ Restart

Spec == Init /\ [][Next]_vars

(* An open page polls.                                                     *)
FairSpec == Spec /\ WF_vars(Page)

-----------------------------------------------------------------------------
(* Over crashes, full queues and concurrent publishers no record and no    *)
(* one-shot trigger is published twice, nor an event trigger twice for one *)
(* event; and the bridge passes over no record of this run except those    *)
(* appended while it awaited a publish of the same list                    *)
(* (runtime_bridge.py:15-33, triggers.py:27-32).                           *)
Published == {log[i].origin : i \in DOMAIN log}

ToldOnce ==
    /\ Cardinality(Published) = Len(log)
    /\ \A l \in List : \A i \in 1..offset[l] : <<life, l, i>> \in Published \cup late

(* An open page is given every event, also over a restart of the server,   *)
(* as long as the history holds no more than one replay returns, and       *)
(* unless a crash took an event it had been given already before it was    *)
(* stored (events.py:47-59, app.js:208-240).                               *)
Crowded == Len(history) > Limit

NewestIsSeen == \A i \in 1..MaxEvents :
    (\E j \in DOMAIN history : history[j].id = i) ~>
        i \in seen \/ Crowded \/ torn \/ ~\E j \in DOMAIN history : history[j].id = i
=============================================================================
