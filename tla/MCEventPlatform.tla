-------------------------- MODULE MCEventPlatform --------------------------
(* Small readings of every detector: three paths with hard links and a     *)
(* file system without inodes, two items, one window, battery levels on    *)
(* each side of both thresholds, two of the three buttons, three texts of  *)
(* which two are equally long.  The network detector drives the bus.  The  *)
(* agents' dispatcher wants every event, its agent only the interfaces     *)
(* that appear and the notes; the log only notes.                          *)
EXTENDS EventPlatform

Maps(D, V) == UNION {[S -> V] : S \in SUBSET D}

Files == Maps({"p", "q", "r"}, [inode : 0..2, content : {1}])
         \cup Maps({"p", "q"}, [inode : 0..2, content : 1..2])
Windows == Maps({"w"}, [title : 1..2, position : 1..2, size : 1..2,
                        state : {"normal", "minimized", "maximized"}])
Power == {None} \cup [charging : BOOLEAN, level : {4, 5, 6, 15, 16}]
Pointers == [at : 1..2, target : {None, 11, 12}, down : SUBSET {1, 2}]

(* The computer's controller, and the windows of the desktop.              *)
MCSenses == "controller" :> {"screen", "window", "browser"} @@ "windows" :> {"window"}
Observation(App, Url, E, W) == [app : App, url : Url, elements : E, windows : W]
Environments == [controller : Observation({1}, {None, 1}, Maps({"e"}, {"dialog", "captcha"}), {<<>>}),
                 windows : Observation({None}, {None}, {<<>>},
                                       Maps({"w"}, [state : {"normal", "minimized"}, active : BOOLEAN]))]

MCWorld == [k \in Kind |->
    CASE k = "files"                 -> Files
      [] k = "network"               -> Maps({"i"}, {1})
      [] k = "windows"               -> Windows
      [] k = "power"                 -> Power
      [] k = "pointer"               -> Pointers
      [] k = "disk"                  -> BOOLEAN
      [] k = "clipboard"             -> {[text |-> t, length |-> IF t = 3 THEN 2 ELSE 1] : t \in 1..3}
      [] k = "timers"                -> {}
      [] k = "environment"           -> Environments
      [] k \in {"keyboard", "secrets"} -> SUBSET {"A", "F1", "CTRL", "ALT"}
      [] k \in Reading \ {"power", "disk", "clipboard"} -> 1..3
      [] OTHER                       -> Maps({"i", "j"}, {1, 2})]

MCSubs == <<"agents", "log">>
MCSubscribed == {"created", "note"}
MCWants == "agents" :> {"*"} @@ "log" :> {"note"}
=============================================================================
