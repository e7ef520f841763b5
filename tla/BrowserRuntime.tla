--------------------------- MODULE BrowserRuntime ---------------------------
(***************************************************************************)
(* AgentRuntime (app/runtime/agent_runtime.py): one task asked of several  *)
(* chat providers in turn, and the window (app/gui.py) whose thread        *)
(* starts, pauses and stops it.                                            *)
(*                                                                         *)
(* The run is a coroutine on a thread of its own, the window on another,   *)
(* so the owner can act between any two steps: pc is a point of the code,  *)
(* an await or not.  An operation on the page may return, raise or hang.   *)
(***************************************************************************)
EXTENDS Integers, Sequences, FiniteSets

CONSTANTS
    Provider,
    Preferred,   \* "chatgpt": synthesizes when it is among the selected
    Optional,    \* "claude": may fail without failing the task
    Selections,  \* what the owner may tick, as sequences of providers
    MaxActions,  \* ActionManager.max_actions
    MaxRetries,  \* RecoveryManager.max_retries
    MaxRuns,     \* bound on starts
    MaxToggles   \* bound on the pause button

ASSUME BoundsAssumption == {MaxActions, MaxRetries, MaxRuns, MaxToggles} \subseteq Nat

(* TaskManager.create refuses a task without providers.                    *)
ASSUME SelectionsAssumption == Selections \subseteq Seq(Provider) \ {<<>>}

VARIABLES
    pc,        \* where the run is
    what,      \* the operation it is about
    why,       \* what a screenshot is taken for
    status,    \* StateManager.state
    task,      \* the task, as TaskManager.create made it
    turn,      \* how many providers were begun, the synthesis included
    records,   \* rows in memory.db: provider and outcome
    tries,     \* recovery attempts of this extraction
    count,     \* ActionManager.count
    late,      \* the task's time is over
    taken,     \* the last screenshot exists
    stop,      \* EmergencyStop
    paused,    \* PauseController
    begun,     \* history: what was begun on the page since the stop
    cancelled, \* history: the stop cancelled an operation of this run
    runs, toggles

control == <<pc, what, why, status>>
progress == <<task, turn, records, tries, count, taken>>
owner == <<stop, paused, runs, toggles>>
history == <<begun, cancelled>>
vars == <<control, progress, late, owner, history>>

(* TaskManager.create with the window's strategies.                        *)
CreateTask(selected, strategy) ==
    IF strategy = "single" \/ Len(selected) = 1
    THEN [providers |-> <<selected[1]>>, synthesis |-> FALSE, by |-> selected[1]]
    ELSE [providers |-> selected, synthesis |-> TRUE,
          by |-> IF \E i \in DOMAIN selected : selected[i] = Preferred
                 THEN Preferred ELSE selected[1]]

(* Operations that passed _act, those begun inside one or after it without *)
(* _act, and screenshots.                                                  *)
Nothing == [passed |-> 0, within |-> 0, pictures |-> 0]

Init ==
    /\ pc = "off" /\ what = "start" /\ why = "failure" /\ status = "idle"
    /\ task \in {CreateTask(s, "single") : s \in Selections}
    /\ turn = 0 /\ records = <<>> /\ tries = 0 /\ count = 0
    /\ late = FALSE /\ taken = FALSE /\ stop = FALSE /\ paused = FALSE
    /\ begun = Nothing /\ cancelled = FALSE /\ runs = 0 /\ toggles = 0

Counts(kind, begins) ==
    begun' = IF stop /\ begins THEN [begun EXCEPT ![kind] = @ + 1] ELSE begun

Synthesizing == turn > Len(task.providers)
Who == IF Synthesizing THEN task.by ELSE task.providers[turn]
Answered == {records[i].who : i \in {j \in DOMAIN records : records[j].outcome = "completed"}}

-----------------------------------------------------------------------------
(* The owner's buttons, and the clock.                                     *)

(* The button is disabled until the run is over.                           *)
Start ==
    /\ pc = "off" /\ runs < MaxRuns
    /\ \E s \in Selections, strategy \in {"single", "multi"} : task' = CreateTask(s, strategy)
    /\ pc' = "starting" /\ runs' = runs + 1
    /\ UNCHANGED <<what, why, status, turn, records, tries, count, taken, late, stop, paused,
                   toggles, history>>

Stop ==
    /\ pc # "off" /\ ~stop
    /\ paused' = FALSE /\ stop' = TRUE
    /\ UNCHANGED <<control, progress, late, history, runs, toggles>>

TogglePause ==
    /\ pc # "off" /\ toggles < MaxToggles
    /\ paused' = ~paused /\ toggles' = toggles + 1
    /\ UNCHANGED <<control, progress, late, history, stop, runs>>

(* The owner has signed in: the page is verified again.                    *)
Continue ==
    /\ pc = "user"
    /\ pc' = "enter" /\ status' = "verifying_page"
    /\ UNCHANGED <<what, why, progress, late, owner, history>>

Deadline ==
    /\ pc \notin {"off", "starting"} /\ ~late
    /\ late' = TRUE
    /\ UNCHANGED <<control, progress, owner, history>>

-----------------------------------------------------------------------------
(* What comes after an operation.                                          *)

(* The start of run: a stop that came before it is forgotten.              *)
Run ==
    /\ pc = "starting"
    /\ pc' = "enter" /\ what' = "start" /\ status' = "initializing"
    /\ turn' = 0 /\ records' = <<>> /\ count' = 0 /\ late' = FALSE
    /\ stop' = FALSE /\ paused' = FALSE /\ begun' = Nothing /\ cancelled' = FALSE
    /\ UNCHANGED <<why, task, tries, taken, runs, toggles>>

Enters(step, state) == what' = step /\ status' = state /\ pc' = "enter"

(* _capture: the action is recorded inside its own try.                    *)
Shoots(reason) == pc' = "shoot" /\ why' = reason /\ UNCHANGED <<what, status>>

(* An exception out of the operation, and who catches it.                  *)
Raises ==
    CASE what = "start" ->
            pc' = "off" /\ UNCHANGED <<what, why, status>>
      [] what \in {"extract", "recover", "reobserve"} ->
            pc' = "enter" /\ what' = "clipboard" /\ UNCHANGED <<why, status>>
      [] what = "clipboard" -> Shoots("ocr")
      [] OTHER -> Shoots("failure")

(* ActionManager.record, then on, or ActionLimitExceeded.                  *)
Records(onwards) ==
    IF count < MaxActions THEN count' = count + 1 /\ onwards
    ELSE UNCHANGED count /\ Raises

(* BrowserManager.start: the browser is open, or was left open by a run.    *)
Started ==
    /\ pc' = "next" /\ status' = "planning"
    /\ UNCHANGED <<what, why, count, tries>>

(* _observe: an action of its own, recorded before the page is read.       *)
Observes(at, step) ==
    Records(pc' = at /\ what' = step /\ UNCHANGED <<why, status>>) /\ UNCHANGED tries

(* _recover_response: the page is reloaded, then observed, then read again.*)
Recovers ==
    IF what = "recover" THEN Observes("op", "reobserve")
    ELSE /\ pc' = "op" /\ what' = "extract" /\ status' = "extracting_response"
         /\ UNCHANGED <<why, count, tries>>

Returns ==
    CASE what = "start" -> Started
      [] what = "open" -> Enters("verify", "verifying_page") /\ UNCHANGED <<why, count, tries>>
      [] what = "verify" -> Observes("observe", "verify")
      [] what = "focus" -> Enters("send", "sending_prompt") /\ UNCHANGED <<why, count, tries>>
      [] what = "send" -> Enters("wait", "waiting_response") /\ UNCHANGED <<why, count, tries>>
      [] what = "wait" ->
            Enters("extract", "extracting_response") /\ tries' = 0 /\ UNCHANGED <<why, count>>
      [] what \in {"recover", "reobserve"} -> Recovers
      [] OTHER ->
            /\ pc' = "validate" /\ status' = "validating_response"
            /\ UNCHANGED <<what, why, count, tries>>

-----------------------------------------------------------------------------
(* _act.                                                                   *)
rest == <<task, turn, records, taken, late, owner, cancelled>>

(* Mutant: the stop is looked at only while an operation is in flight.     *)
EnterUnchecked ==
    /\ pc = "enter"
    /\ pc' = "gate" /\ UNCHANGED <<what, why, status>>
    /\ UNCHANGED <<rest, begun, count, tries>>

Enter ==
    /\ pc = "enter"
    /\ IF stop THEN Raises ELSE pc' = "gate" /\ UNCHANGED <<what, why, status>>
    /\ UNCHANGED <<rest, begun, count, tries>>

(* Past the pause the time and the actions are checked, the stop is not.   *)
Gate ==
    /\ pc = "gate" /\ ~paused
    /\ IF late THEN Raises /\ UNCHANGED <<count, begun>>
       ELSE /\ Records(pc' = "op" /\ UNCHANGED <<what, why, status>>)
            /\ Counts("passed", pc' = "op")
    /\ UNCHANGED <<rest, tries>>

(* What follows without another look at the stop: the reading of a verified*)
(* page, and of a reloaded one.                                            *)
OpReturns ==
    /\ pc = "op" /\ Returns
    /\ Counts("within", pc' = "observe" \/ (what \in {"recover", "reobserve"} /\ pc' = "op"))
    /\ UNCHANGED rest

(* RecoveryManager.run retries a failed extraction, inside the operation.  *)
OpRaises ==
    /\ pc = "op"
    /\ IF what = "extract" /\ tries < MaxRetries
       THEN /\ tries' = tries + 1
            /\ IF count < MaxActions
               THEN count' = count + 1 /\ pc' = "op" /\ what' = "recover"
               ELSE UNCHANGED count /\ pc' = "enter" /\ what' = "clipboard"
            /\ status' = "recovering" /\ UNCHANGED why
       ELSE Raises /\ UNCHANGED <<tries, count>>
    /\ Counts("within", pc' = "op")
    /\ UNCHANGED rest

(* UserInterventionRequired.                                               *)
OpAsks ==
    /\ pc = "op" /\ what = "verify"
    /\ pc' = "user" /\ status' = "waiting_user_intervention"
    /\ UNCHANGED <<what, why, rest, begun, count, tries>>

(* Mutant: the time is checked only before an operation.                   *)
OverdueAtEntry == FALSE

Overdue == pc = "op" /\ late

(* The operation in flight is cancelled.                                   *)
Cancel ==
    /\ Overdue \/ (pc = "op" /\ stop)
    /\ Raises
    /\ cancelled' = (cancelled \/ stop)
    /\ UNCHANGED <<task, turn, records, taken, late, owner, begun, count, tries>>

(* UserInterventionGate.wait sees the stop.                                *)
UserStops ==
    /\ pc = "user" /\ stop
    /\ Shoots("failure")
    /\ UNCHANGED <<rest, begun, count, tries>>

-----------------------------------------------------------------------------
(* _run_provider around its operations.                                    *)

(* The page is read outside _act.                                          *)
Observed ==
    /\ pc = "observe"
    /\ \/ Enters("focus", "focusing_input") /\ UNCHANGED why
       \/ Shoots("failure")
    /\ UNCHANGED <<rest, begun, count, tries>>

Validate ==
    /\ pc = "validate"
    /\ \E reason \in {"response", "failure"} : Shoots(reason)
    /\ UNCHANGED <<rest, begun, count, tries>>

(* Mutant: the action is recorded outside the try: its limit loses the     *)
(* record.                                                                 *)
ShootOutsideTry ==
    /\ pc = "shoot"
    /\ IF count < MaxActions THEN count' = count + 1 /\ pc' = "shot"
       ELSE UNCHANGED count /\ pc' = "raised"
    /\ UNCHANGED <<what, why, status, rest, begun, tries>>

(* There may be no page to take it of.                                     *)
Shoot ==
    /\ pc = "shoot"
    /\ \/ count < MaxActions /\ count' = count + 1 /\ pc' = "shot" /\ UNCHANGED taken
       \/ pc' = why /\ taken' = FALSE /\ UNCHANGED count
    /\ Counts("pictures", pc' = "shot")
    /\ UNCHANGED <<what, why, status, task, turn, records, late, owner, cancelled, tries>>

Shot ==
    /\ pc = "shot"
    /\ pc' = why /\ taken' \in BOOLEAN
    /\ UNCHANGED <<what, why, status, task, turn, records, late, owner, history, count, tries>>

(* ResponseFallbackExtractor.extract_from_ocr reads the screenshot.        *)
ReadsScreenshot ==
    /\ pc = "ocr"
    /\ \/ taken /\ pc' = "validate" /\ status' = "validating_response" /\ UNCHANGED <<what, why>>
       \/ Shoots("failure")
    /\ UNCHANGED <<rest, begun, count, tries>>

Stores(outcome) ==
    /\ records' = Append(records, [who |-> Who, outcome |-> outcome])
    /\ UNCHANGED <<what, why, task, turn, taken, late, owner, history, count, tries>>

StoresResponse ==
    pc = "response" /\ pc' = "next" /\ status' = "storing_result" /\ Stores("completed")

StoresFailure ==
    pc = "failure" /\ pc' = "raised" /\ UNCHANGED status /\ Stores("failed")

(* A failure of the optional provider does not end a run with results.     *)
Handles ==
    /\ pc = "raised"
    /\ IF ~Synthesizing /\ Who = Optional /\ Answered # {}
       THEN pc' = "next" /\ UNCHANGED status
       ELSE pc' = "off" /\ status' = IF stop THEN "stopped" ELSE "failed"
    /\ UNCHANGED <<what, why, rest, begun, count, tries>>

NextProvider ==
    /\ pc = "next"
    /\ IF turn < Len(task.providers) \/
          (turn = Len(task.providers) /\ task.synthesis /\ Cardinality(Answered) > 1)
       THEN turn' = turn + 1 /\ Enters("open", "opening_browser")
       ELSE pc' = "off" /\ status' = "completed" /\ UNCHANGED <<what, turn>>
    /\ UNCHANGED <<why, task, records, taken, late, owner, history, count, tries>>

-----------------------------------------------------------------------------
(* What the run does by itself, an operation's or a reading's end aside.   *)
RunStep ==
    \/ Run \/ Enter \/ Gate \/ Cancel \/ UserStops \/ Validate \/ Shoot \/ Shot
    \/ ReadsScreenshot \/ StoresResponse \/ StoresFailure \/ Handles \/ NextProvider

Next ==
    \/ RunStep \/ OpReturns \/ OpRaises \/ OpAsks \/ Observed
    \/ Start \/ Stop \/ TogglePause \/ Continue \/ Deadline

Spec == Init /\ [][Next]_vars

(* The event loop goes on, screenshots have the browser's own timeout, and *)
(* time passes.  An operation and the reading of a page, whose evaluate and*)
(* title have no timeout, may hang, and the owner need never come back.    *)
FairSpec == Spec /\ WF_vars(RunStep) /\ WF_vars(Deadline)

-----------------------------------------------------------------------------
(* After an emergency stop at most one more operation passes _act, the one *)
(* that was waiting for the pause to end, whatever fallbacks and further   *)
(* providers were to come.  Beside it, what the stop met goes on until its *)
(* cancellation: a verified page is read, or an extraction reloads, reads  *)
(* and extracts again, three operations for each of its retries; and a     *)
(* screenshot is taken for every provider still turned to, and one more    *)
(* (agent_runtime.py _act, _recover_response, _capture).                   *)
StopIsPrompt ==
    /\ begun.passed <= 1
    /\ begun.within <= IF MaxRetries = 0 THEN 1 ELSE 3 * MaxRetries
    /\ begun.pictures <= turn + 1

(* Every provider that was begun leaves one record, completed or failed,   *)
(* whatever went wrong with it and with taking the evidence; and a task is *)
(* complete only if every provider but the optional one has answered       *)
(* (agent_runtime.py:129-140, 73-79).                                      *)
Attempting == pc \notin {"off", "starting", "next", "raised"} /\ what # "start"

Accounted ==
    /\ pc # "starting" => Len(records) = turn - (IF Attempting THEN 1 ELSE 0)
    /\ pc = "off" /\ status = "completed" =>
        /\ Answered # {}
        /\ \A i \in DOMAIN task.providers : task.providers[i] \in Answered \cup {Optional}

(* A run waits for nobody but its owner and the reading of a page: it ends,*)
(* or is paused, or waits for a sign-in, even if every operation hangs; and*)
(* once stopped it ends, unless it is paused again.  Only a verified page  *)
(* that never lets itself be read holds it, for ever (agent_runtime.py:115,*)
(* 150-160, intervention.py).                                              *)
ReadingHangs == [](pc = "observe")

RunEnds ==
    /\ (pc # "off") ~> (pc \in {"off", "user"} \/ paused \/ ReadingHangs)
    /\ (stop /\ pc \notin {"off", "starting"}) ~> (pc = "off" \/ paused \/ ReadingHangs)

(* README.md:220: "Emergency Stop cancels the in-flight browser operation  *)
(* and records the failure state".                                         *)
StopIsRecorded == cancelled => status # "completed"
=============================================================================
