-------------------------- MODULE DetectorPolling --------------------------
(***************************************************************************)
(* A detector of app/event_system that is polled again and again, or the   *)
(* perception engine, and a listener that knows of the desktop only what   *)
(* its events say.                                                         *)
(* Each behaviour is about the detector that Init chooses; EventPlatform   *)
(* composes this with the bus that carries the events.                     *)
(***************************************************************************)
EXTENDS DesktopDetectors

CONSTANTS
    World,      \* World[k]: the readings the detector k may find
    Senses,     \* the capabilities of each perception source
    Timer,      \* timer identifiers
    MaxTime,    \* bound on the scheduler's clock
    MaxAstray   \* bound on what is astray

Inventory == {"files", "snapshot", "network", "windows", "sessions", "processes", "devices", "audio",
              "notifications"}
Reading == {"power", "display", "clipboard", "position", "disk"}
Kind == Inventory \cup Reading \cup {"keyboard", "secrets", "pointer", "timers", "environment"}

(* What observe may make of what there is: of the sources that have        *)
(* something of what is asked for some fail, the others answer in any order*)
Snapshots(found) ==
    LET sources(caps) == {s \in DOMAIN Senses : Senses[s] \cap caps # {}}
        fused(order, caps) == Fused([i \in DOMAIN order |-> Scoped(found[order[i]], caps)])
    IN  UNION {UNION {{fused(order, caps) : order \in SetToSeqs(answered)} :
            answered \in SUBSET sources(caps) \ {{}}} : caps \in SUBSET UNION Range(Senses)}

Fcn(r) == r = [i \in DOMAIN r |-> r[i]]

(* A reading has the form its detector gives it.                           *)
ASSUME WorldAssumption ==
    /\ \A k \in Inventory : \A r \in World[k] : Fcn(r)
    /\ \A r \in World["files"] : None \notin DOMAIN r
    /\ \A r \in World["windows"] : \A w \in DOMAIN r :
        /\ r[w] = [title |-> r[w].title, position |-> r[w].position, size |-> r[w].size,
                   state |-> r[w].state]
        /\ r[w].state \in DOMAIN StateEvent
    /\ World["power"] \subseteq {None} \cup [charging : BOOLEAN, level : Nat]
    /\ None \notin World["clipboard"]
    /\ \A r \in World["pointer"] :
        /\ r = [at |-> r.at, target |-> r.target, down |-> r.down] /\ r # None
        /\ r.down \subseteq Button
    /\ \A found \in World["environment"] : None \notin Snapshots(found)

ASSUME TimeAssumption == MaxTime \in Nat /\ MaxAstray \in Nat
ASSUME NoButtonAssumption == None \notin Button

VARIABLES
    kind,     \* which detector it is
    prev,     \* its previous reading
    drag,     \* MouseDetector._dragging
    clicked,  \* buttons whose double-click time is open (_last_click)
    now,      \* the scheduler's clock
    heard,    \* what the listener takes the reading to be
    dragged,  \* buttons the listener takes to be dragging
    overlap,  \* history: a move from one poll to the next involved two buttons
    astray    \* history: what observations that were cut off told of, and no
              \* complete one since

detectorVars == <<kind, prev, drag, clicked, now, heard, dragged, overlap, astray>>
pointer == <<drag, clicked, dragged, overlap>>

DetectorInit ==
    /\ kind \in Kind
    /\ prev = CASE kind \in Inventory \cup {"timers"} -> <<>>
                [] kind \in {"keyboard", "secrets"}   -> {}
                [] kind = "disk"                      -> FALSE
                [] OTHER                              -> None
    /\ heard = IF kind = "timers" THEN {} ELSE prev
    /\ drag = None /\ clicked = {} /\ now = 0
    /\ dragged = {} /\ overlap = FALSE /\ astray = {}

(* What a poll that reads new reports.  The detector "secrets" is the      *)
(* keyboard's with its default privacy filter.                             *)
Report(new) ==
    CASE kind = "files"         -> FileEvents(prev, new)
      [] kind \in {"snapshot", "network"} -> SnapshotEvents(prev, new)
      [] kind = "windows"       -> WindowEvents(prev, new)
      [] kind = "sessions"      -> SessionEvents(prev, new)
      [] kind = "processes"     -> ProcessEvents(prev, new)
      [] kind = "devices"       -> DeviceEvents(prev, new)
      [] kind = "audio"         -> AudioEvents(prev, new)
      [] kind = "notifications" -> NotificationEvents(prev, new)
      [] kind = "power"         -> PowerEvents(prev, new)
      [] kind = "display"       -> DisplayEvents(prev, new)
      [] kind = "clipboard"     -> ClipboardEvents(prev, new)
      [] kind = "position"      -> PositionEvents(prev, new)
      [] kind = "disk"          -> DiskEvents(prev, new)
      [] kind = "keyboard"      -> KeyEvents(prev, new, FALSE, TRUE)
      [] kind = "secrets"       -> KeyEvents(prev, new, FALSE, FALSE)

Enters == {"moved", "created", "modified", "changed", "window_opened", "title_changed",
           "resized", "restored", "minimized", "maximized", "state_changed", "login",
           "session_changed", "started", "device_connected", "audio_now_connected",
           "notification"}
Leaves == {"deleted", "removed", "window_closed", "logout", "stopped",
           "device_disconnected", "audio_now_disconnected"}

PollInventory(new) ==
    LET events == Report(new)
    IN  /\ kind \notin {"pointer", "timers", "environment"}
        /\ prev' = IF kind = "power" /\ new = None THEN prev ELSE new
        /\ heard' =
            CASE kind \in Inventory -> Replayed(heard, events, Enters, Leaves)
              [] kind \in Reading   -> LastValue(heard, events)
              [] kind = "secrets"   -> LastValue(heard, Typed(events, {"modifiers"}))
              [] kind = "keyboard"  ->
                    (heard \ Ids(events, {"key_up"})) \cup Ids(events, {"key_down"})
        /\ UNCHANGED <<kind, now, pointer, astray>>

(* The first poll says where the pointer is and nothing of its buttons:    *)
(* from then on the listener follows.                                      *)
PollPointer(new) ==
    LET events == PointerEvents(prev, new, drag, clicked)
    IN  /\ kind = "pointer"
        /\ prev' = new
        /\ IF prev = None THEN heard' = new /\ UNCHANGED pointer
           ELSE /\ heard' = [
                    at |-> LastValue(heard.at, Typed(events, {"position"})),
                    target |-> IF Typed(events, {"enter"}) # {}
                               THEN CHOOSE t \in Ids(events, {"enter"}) : TRUE
                               ELSE IF Typed(events, {"leave"}) # {} THEN None ELSE heard.target,
                    down |-> (heard.down \ Ids(events, {"up"})) \cup Ids(events, {"down"})]
                /\ drag' = DragBefore(4, prev, new, new.at # prev.at, drag)
                /\ clicked' = clicked \cup (new.down \ prev.down)
                /\ dragged' = (dragged \ Ids(events, {"drag_end"})) \cup Ids(events, {"drag_start"})
                /\ overlap' = (overlap \/ (new.at # prev.at /\ Cardinality(prev.down \cup new.down) > 1))
        /\ UNCHANGED <<kind, now, astray>>

(* MultimodalPerceptionEngine.observe, one at a time: the changes from the *)
(* latest snapshot are published one by one, and what a human is needed    *)
(* for, and then the snapshot is the latest.  The first is compared with   *)
(* nothing.                                                                *)
Published(new) == EnvironmentEvents(prev, new) \cup {Ev("human_required", None, Blockers(new))}

Perceive(found) ==
    /\ kind = "environment"
    /\ \E new \in Snapshots(found) :
        /\ prev' = new
        /\ IF prev = None THEN heard' = Told(new) /\ UNCHANGED astray
           ELSE /\ heard' = Learnt(heard, Published(new))
                /\ astray' = astray \ Topics(Published(new))
    /\ UNCHANGED <<kind, now, pointer>>

(* A publication fails, or the observer is cancelled: some of the events   *)
(* are out, and the latest snapshot is the one before.                     *)
PerceiveCutOff(found) ==
    /\ kind = "environment" /\ prev # None
    /\ \E new \in Snapshots(found) : \E events \in SUBSET Published(new) :
        /\ Cardinality(astray \cup Topics(events)) <= MaxAstray
        /\ heard' = Learnt(heard, events)
        /\ astray' = astray \cup Topics(events)
    /\ UNCHANGED <<kind, prev, now, pointer>>

ClickAges ==
    /\ \E b \in clicked : clicked' = clicked \ {b}
    /\ UNCHANGED <<kind, prev, now, heard, drag, dragged, overlap, astray>>

(* SchedulerDetector: schedule, cancel, poll, and its clock.               *)
Schedule(t, when, interval) ==
    /\ kind = "timers"
    /\ prev' = [u \in DOMAIN prev \cup {t} |->
                  IF u = t THEN [when |-> when, interval |-> interval] ELSE prev[u]]
    /\ heard' = heard \cup {t}
    /\ UNCHANGED <<kind, now, pointer, astray>>

Cancel(t) ==
    /\ kind = "timers" /\ t \in DOMAIN prev
    /\ prev' = [u \in DOMAIN prev \ {t} |-> prev[u]]
    /\ heard' = heard \ {t}
    /\ UNCHANGED <<kind, now, pointer, astray>>

PollTimers ==
    LET events == TimerEvents(prev, now)
    IN  /\ kind = "timers" /\ events # {}
        /\ prev' = TimersAfter(prev, now)
        /\ heard' = heard \ {e.id : e \in {f \in events : f.value = 0}}
        /\ UNCHANGED <<kind, now, pointer, astray>>

Tick ==
    /\ kind = "timers" /\ now < MaxTime
    /\ now' = now + 1
    /\ UNCHANGED <<kind, prev, heard, pointer, astray>>

DetectorNext ==
    \/ \E new \in World[kind] : PollInventory(new) \/ PollPointer(new)
                              \/ Perceive(new) \/ PerceiveCutOff(new)
    \/ ClickAges
    \/ \E t \in Timer, when \in 0..MaxTime, interval \in 0..2 : Schedule(t, when, interval)
    \/ \E t \in Timer : Cancel(t)
    \/ PollTimers
    \/ Tick

-----------------------------------------------------------------------------
(* Who applies the events poll after poll knows of what the detector read  *)
(* what the events report: every file with its size and times, every       *)
(* window, session and other item with its value; which processes and      *)
(* devices there are; the last power, display, pointer and disk reading,   *)
(* and of the clipboard the length; the keys and buttons that are down, or *)
(* the modifiers alone under the default privacy filter; the timers still  *)
(* to fire.  Of notifications it knows at least those on the screen; of    *)
(* what is perceived, the latest snapshot but for the active window,       *)
(* however many sources answered - and but for what an observation told of *)
(* that was cut off before it remembered the snapshot, until it is told of *)
(* again (detectors.py, windows_detectors.py, change.py, engine.py).       *)
Mirrors ==
    CASE kind \in {"processes", "devices", "audio"} -> DOMAIN heard = DOMAIN prev
      [] kind = "files"          -> heard = [p \in DOMAIN prev |-> prev[p].content]
      [] kind = "clipboard"      -> heard = IF prev = None THEN None ELSE prev.length
      [] kind = "notifications"  -> DOMAIN prev \subseteq DOMAIN heard
      [] kind = "secrets"        -> heard = prev \cap Modifier
      [] kind = "timers"         -> heard = DOMAIN prev
      [] kind = "environment" /\ prev # None -> Beyond(heard, astray) = Beyond(Told(prev), astray)
      [] OTHER                   -> heard = prev

(* A drag that was announced is over, and announced so, when its button is *)
(* up - unless between two polls the pointer moved and two buttons were    *)
(* down or gave way to one another: then the detector may forget the first *)
(* drag (windows_detectors.py:155-171).                                    *)
DragsEnd == kind = "pointer" /\ prev # None /\ ~overlap => dragged \subseteq prev.down
=============================================================================
