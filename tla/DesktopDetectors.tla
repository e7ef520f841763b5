-------------------------- MODULE DesktopDetectors --------------------------
(***************************************************************************)
(* The polling detectors of app/event_system (detectors.py and             *)
(* windows_detectors.py), and the multimodal perception (app/perception):  *)
(* what a poll reports when it finds the snapshot new where the poll       *)
(* before it had left old.                                                 *)
(*                                                                         *)
(* A snapshot maps the identifiers that are present to what is read of     *)
(* them.  A poll's events are a set: their order within a poll is left     *)
(* out.  from is the path a moved file had before.                         *)
(***************************************************************************)
EXTENDS Integers, FiniteSets, Sequences, SequencesExt

CONSTANTS
    None,       \* no identifier, no reading
    Modifier,   \* keys that modify others
    Printable   \* keys whose names are single characters

Ev(type, id, value) == [type |-> type, id |-> id, value |-> value, from |-> None]

Appeared(old, new) == DOMAIN new \ DOMAIN old
Gone(old, new) == DOMAIN old \ DOMAIN new
Changed(old, new) == {k \in DOMAIN old \cap DOMAIN new : old[k] # new[k]}

Enter(type, old, new) == {Ev(type, k, new[k]) : k \in Appeared(old, new)}
Change(type, old, new) == {Ev(type, k, new[k]) : k \in Changed(old, new)}
Leave(type, old, new) == {Ev(type, k, old[k]) : k \in Gone(old, new)}

-----------------------------------------------------------------------------
(* Inventories.                                                            *)

(* SnapshotDetector.poll: network interfaces, and any injected reader.     *)
SnapshotEvents(old, new) == UNION {
    Enter("created", old, new), Change("changed", old, new), Leave("removed", old, new)}

(* A process identifier that is used again between two polls goes unseen.  *)
ProcessEvents(old, new) == Enter("started", old, new) \cup Leave("stopped", old, new)

(* Each device is reported in general and by its class.                    *)
DeviceEvents(old, new) == UNION {
    Enter("device_connected", old, new), Enter("class_connected", old, new),
    Leave("device_disconnected", old, new), Leave("class_disconnected", old, new)}

(* AudioDetector polls as DeviceDetector does but names other events.      *)
AudioEvents(old, new) == UNION {
    Enter("audio_connected", old, new), Enter("audio_now_connected", old, new),
    Leave("audio_disconnected", old, new), Leave("audio_now_disconnected", old, new)}

SessionEvents(old, new) == UNION {
    Enter("login", old, new), Change("session_changed", old, new), Leave("logout", old, new)}

(* Dialogs are announced once and never withdrawn.                         *)
NotificationEvents(old, new) == Enter("notification", old, new)

FieldEvent == [title |-> "title_changed", position |-> "moved", size |-> "resized"]
StateEvent == [normal |-> "restored", minimized |-> "minimized", maximized |-> "maximized"]

(* A window's value is [title, position, size, state], and every event of  *)
(* a window carries all of it.                                             *)
WindowEvents(old, new) ==
    LET differ(f) == {k \in Changed(old, new) : old[k][f] # new[k][f]}
    IN  UNION {Enter("window_created", old, new), Enter("window_opened", old, new),
               UNION {{Ev(FieldEvent[f], k, new[k]) : k \in differ(f)} : f \in DOMAIN FieldEvent},
               {Ev(StateEvent[new[k].state], k, new[k]) : k \in differ("state")},
               {Ev("state_changed", k, new[k]) : k \in differ("state")},
               Leave("window_destroyed", old, new), Leave("window_closed", old, new)}

(* Mutant: a new path is taken for a moved file if any path of the         *)
(* previous snapshot has its inode, also one that still exists.            *)
FileEventsByAnyInode(old, new) ==
    LET origins(k) == {g \in DOMAIN old : old[g].inode = new[k].inode}
        moved == {k \in Appeared(old, new) : new[k].inode # 0 /\ origins(k) # {}}
        origin(k) == CHOOSE g \in origins(k) : TRUE
    IN  UNION {{[Ev("moved", k, new[k].content) EXCEPT !.from = origin(k)] : k \in moved},
               {Ev("created", k, new[k].content) : k \in Appeared(old, new) \ moved},
               {Ev("modified", k, new[k].content) : k \in Changed(old, new)},
               {Ev("deleted", k, None) : k \in Gone(old, new) \ {origin(j) : j \in moved}}}

(* A file's value is [inode, content], content being its size and times,   *)
(* which an event reports; of a file that is deleted it names the path. A  *)
(* path that appears with the inode of one that is gone was moved, unless  *)
(* the file system has no inodes (0).                                      *)
FileEvents(old, new) ==
    LET origins(k) == {g \in Gone(old, new) : old[g].inode = new[k].inode}
        moved == {k \in Appeared(old, new) : new[k].inode # 0 /\ origins(k) # {}}
        origin(k) == CHOOSE g \in origins(k) : TRUE
    IN  UNION {{[Ev("moved", k, new[k].content) EXCEPT !.from = origin(k)] : k \in moved},
               {Ev("created", k, new[k].content) : k \in Appeared(old, new) \ moved},
               {Ev("modified", k, new[k].content) : k \in Changed(old, new)},
               {Ev("deleted", k, None) : k \in Gone(old, new) \ {origin(j) : j \in moved}}}

-----------------------------------------------------------------------------
(* Single readings.                                                        *)

PositionEvents(old, new) == IF new = old THEN {} ELSE {Ev("position", None, new)}
DiskEvents(old, new) == IF new = old THEN {} ELSE {Ev("disk_threshold", None, new)}

(* A clipboard reading is [text, length], the text known by its digest. An *)
(* event reports the length, never the text.                               *)
ClipboardEvents(old, new) == IF new = old THEN {} ELSE {Ev("clipboard", None, new.length)}

DisplayEvents(old, new) ==
    IF new = old THEN {}
    ELSE {Ev(IF old = None THEN "display_configuration" ELSE "resolution", None, new)}

(* A power reading is [charging, level], or None off Windows.              *)
PowerEvents(old, new) ==
    IF new \in {None, old} THEN {}
    ELSE {e \in {Ev("ac", None, new), Ev("level", None, new),
                 Ev("critical", None, new), Ev("low", None, new)} :
            CASE e.type = "ac"       -> old = None \/ old.charging # new.charging
              [] e.type = "level"    -> old # None /\ old.level # new.level
              [] e.type = "critical" -> new.level <= 5
              [] e.type = "low"      -> new.level \in 6..15}

(* SchedulerDetector: a timer is [when, interval], interval 0 for one that *)
(* fires once; one that repeats is due again an interval after the poll.   *)
Due(timers, now) == {t \in DOMAIN timers : timers[t].when <= now}
TimerEvents(timers, now) == {Ev("timer", t, timers[t].interval) : t \in Due(timers, now)}
TimersAfter(timers, now) ==
    [t \in {u \in DOMAIN timers : u \in Due(timers, now) => timers[u].interval > 0} |->
        IF t \in Due(timers, now) THEN [timers[t] EXCEPT !.when = now + timers[t].interval]
        ELSE timers[t]]

-----------------------------------------------------------------------------
(* Keyboard and pointer.                                                   *)

(* KeyboardPrivacyFilter.protect.                                          *)
Protect(key, sensitive, expose) ==
    IF sensitive \/ (key \in Printable /\ ~expose) THEN "[REDACTED]" ELSE key

(* old and new are the keys that are down.                                 *)
KeyEvents(old, new, sensitive, expose) ==
    LET safe(k) == Protect(k, sensitive, expose)
        mods == new \cap Modifier
    IN  UNION {{Ev("key_down", safe(k), mods) : k \in new \ old},
               {Ev("key_press", safe(k), mods) : k \in new \ old},
               {Ev("key_up", safe(k), mods) : k \in old \ new},
               IF mods = old \cap Modifier THEN {} ELSE {Ev("modifiers", None, mods)},
               IF new \subseteq old \/ mods = {} THEN {}
               ELSE {Ev("hotkey", None, {safe(k) : k \in new})}}

Button == 1..3   \* left, right, middle

(* Mutant: a drag is forgotten when the pointer rests.                     *)
DragWhileMoving(b, old, new, moved, drag) ==
    LET dragged == {c \in Button : c < b /\ moved /\ c \in new.down}
    IN  IF dragged # {} THEN CHOOSE c \in dragged : \A d \in dragged : d <= c ELSE None

(* The button that MouseDetector holds to be dragging once it has gone     *)
(* through the buttons before b; drag is the one it held before.           *)
DragBefore(b, old, new, moved, drag) ==
    LET dragged == {c \in Button : c < b /\ moved /\ c \in new.down}
    IN  IF dragged # {} THEN CHOOSE c \in dragged : \A d \in dragged : d <= c
        ELSE IF drag # None /\ drag < b /\ drag \in old.down \ new.down THEN None
        ELSE drag

(* MouseDetector.poll.  A pointer is [at, target, down]; clicked are the   *)
(* buttons pressed less than the double-click time ago.  The first poll    *)
(* reports a position only.                                                *)
PointerEvents(old, new, drag, clicked) ==
    IF old = None THEN {Ev("position", None, new.at)}
    ELSE
    LET moved == new.at # old.at
        left(b) == DragBefore(b, old, new, moved, drag)
        pressed == new.down \ old.down
        released == old.down \ new.down
        held == IF moved THEN new.down ELSE {}
    IN  UNION {
        IF moved THEN {Ev("move", None, new.at), Ev("position", None, new.at)} ELSE {},
        {Ev("leave", t, None) : t \in {old.target} \ {None, new.target}},
        {Ev("enter", t, None) : t \in {new.target} \ {None, old.target}},
        {Ev("down", b, None) : b \in pressed},
        {Ev("double_click", b, None) : b \in pressed \cap clicked},
        {Ev("up", b, None) : b \in released},
        {Ev("drag_end", b, None) : b \in {c \in released : left(c) = c}},
        {Ev("drag_start", b, None) : b \in {c \in held : left(c) # c}},
        {Ev("drag", b, None) : b \in held}}

-----------------------------------------------------------------------------
(* Perception.  An observation is [app, url, elements, windows]: elements  *)
(* maps identifiers to what an element is, windows to [state, active].     *)

(* _scope: what the caller did not ask for is taken out.                   *)
Scoped(o, caps) == [
    app |-> IF "window" \in caps THEN o.app ELSE None,
    url |-> IF "browser" \in caps THEN o.url ELSE None,
    elements |-> IF caps \cap {"screen", "browser"} # {} THEN o.elements ELSE <<>>,
    windows |-> IF "window" \in caps THEN o.windows ELSE <<>>]

(* PerceptionFusionEngine.fuse: what the latest observation says counts.   *)
Fused(obs) ==
    LET last(f) == FoldLeft(LAMBDA known, o : IF o[f] = None THEN known ELSE o[f], None, obs)
        merged(f) == FoldLeft(LAMBDA known, o : o[f] @@ known, <<>>, obs)
    IN  [app |-> last("app"), url |-> last("url"),
         elements |-> merged("elements"), windows |-> merged("windows")]

(* HumanBlockerDetector.detect, at every observation anew.                 *)
Blockers(s) == {s.elements[k] : k \in DOMAIN s.elements} \cap {"captcha", "mfa"}

(* VisualChangeDetector.compare.  Whether a window that opens is active,   *)
(* and what becomes of an element that stays, is not said.                 *)
EnvironmentEvents(old, new) ==
    LET differ(f) == {w \in Changed(old.windows, new.windows) :
                        old.windows[w][f] # new.windows[w][f]}
        appears(k) == IF new.elements[k] = "dialog" THEN "popup_appeared" ELSE "ui_appeared"
    IN  UNION {
        IF old.app = new.app THEN {} ELSE {Ev("application_changed", None, new.app)},
        IF old.url = new.url THEN {} ELSE {Ev("navigation", None, new.url)},
        {Ev(appears(k), k, new.elements[k]) : k \in Appeared(old.elements, new.elements)},
        Leave("ui_disappeared", old.elements, new.elements),
        {Ev("window_opened", w, new.windows[w].state) : w \in Appeared(old.windows, new.windows)},
        Leave("window_closed", old.windows, new.windows),
        {Ev("window_state_changed", w, new.windows[w].state) : w \in differ("state")},
        {Ev("window_focus_changed", w, new.windows[w].active) : w \in differ("active")}}

-----------------------------------------------------------------------------
(* What a listener can rebuild from the events of a poll.                  *)

Typed(events, types) == {e \in events : e.type \in types}
Ids(events, types) == {e.id : e \in Typed(events, types)}

(* The snapshot of a listener that held known and applies the events: the  *)
(* ids in `out` and the origins of moved files leave, the others have the  *)
(* value of their event.                                                   *)
Replayed(known, events, in, out) ==
    LET moved == {e.from : e \in events} \ {None}
        kept == DOMAIN known \ (Ids(events, out) \cup moved)
    IN  [k \in kept \cup Ids(events, in) |->
            IF k \in Ids(events, in) THEN (CHOOSE e \in Typed(events, in) : e.id = k).value
            ELSE known[k]]

(* The last value reported, or the one known.                              *)
LastValue(known, events) ==
    IF events = {} THEN known ELSE (CHOOSE e \in events : TRUE).value

(* Of what is perceived a listener knows facts <<part, id, value>>.  The   *)
(* part an event is about; it knows of an element only that it is there,   *)
(* and of a window not whether it is active.                               *)
Part == [application_changed |-> "app", navigation |-> "url", human_required |-> "blockers",
         ui_appeared |-> "elements", popup_appeared |-> "elements", ui_disappeared |-> "elements",
         window_opened |-> "windows", window_state_changed |-> "windows",
         window_closed |-> "windows"]

Told(s) ==
    {<<"app", None, s.app>>, <<"url", None, s.url>>, <<"blockers", None, Blockers(s)>>}
    \cup {<<"elements", k, None>> : k \in DOMAIN s.elements}
    \cup {<<"windows", w, s.windows[w].state>> : w \in DOMAIN s.windows}

Topics(events) == {<<Part[e.type], e.id>> : e \in Typed(events, DOMAIN Part)}
Facts(events) ==
    {<<Part[e.type], e.id, IF Part[e.type] = "elements" THEN None ELSE e.value>> :
        e \in Typed(events, DOMAIN Part \ {"ui_disappeared", "window_closed"})}

Beyond(facts, topics) == {f \in facts : <<f[1], f[2]>> \notin topics}
Learnt(facts, events) == Beyond(facts, Topics(events)) \cup Facts(events)
=============================================================================
