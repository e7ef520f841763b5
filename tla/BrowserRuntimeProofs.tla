------------------------ MODULE BrowserRuntimeProofs ------------------------
(***************************************************************************)
(* What an emergency stop and a failing provider leave behind them, in     *)
(* BrowserRuntime, for any providers, selections and limits.               *)
(***************************************************************************)
EXTENDS BrowserRuntime, TLAPS

Attempts == {"enter", "gate", "op", "user", "observe", "validate", "shoot", "shot", "ocr",
             "response", "failure"}
Places == Attempts \cup {"off", "starting", "next", "raised"}
Tasks == [providers : Seq(Provider) \ {<<>>}, synthesis : BOOLEAN, by : Provider]
Rows == [who : Provider, outcome : {"completed", "failed"}]

Typed ==
    /\ pc \in Places /\ why \in {"ocr", "response", "failure"}
    /\ task \in Tasks /\ turn \in Nat /\ records \in Seq(Rows)

Under == pc \notin {"off", "starting"}

(* Before a provider is begun there is only the start of the browser.      *)
BrowserFirst ==
    /\ what = "start" => pc \in {"off", "starting", "enter", "gate", "op", "next"}
    /\ Under => turn <= Len(task.providers) + 1 /\ (what = "start" <=> turn = 0)
    /\ Under => status # "completed"

OneRowEach == pc # "starting" => Len(records) = turn - (IF Attempting THEN 1 ELSE 0)

(* Whoever was left behind has answered, or is optional.                   *)
LeftBehind ==
    Under => \A i \in DOMAIN task.providers :
        i < turn \/ (i = turn /\ pc = "next") => task.providers[i] \in Answered \cup {Optional}

SomeAnswer == pc = "next" /\ turn > 0 => Answered # {}

Complete ==
    pc = "off" /\ status = "completed" =>
        /\ Answered # {}
        /\ \A i \in DOMAIN task.providers : task.providers[i] \in Answered \cup {Optional}

IInv == Typed /\ BrowserFirst /\ OneRowEach /\ LeftBehind /\ SomeAnswer /\ Complete

-----------------------------------------------------------------------------
(* The accounts.                                                           *)
LEMMA TaskIsTyped ==
    ASSUME NEW s \in Selections, NEW strategy
    PROVE  CreateTask(s, strategy) \in Tasks
<1>1. s \in Seq(Provider) /\ s # <<>>
    BY SelectionsAssumption
<1>2. 1 \in DOMAIN s /\ s[1] \in Provider
    BY <1>1
<1>3. <<s[1]>> \in Seq(Provider) /\ <<s[1]>> # <<>>
    BY <1>2
<1>4. ASSUME NEW i \in DOMAIN s, s[i] = Preferred PROVE Preferred \in Provider
    BY <1>1, <1>4
<1> QED BY <1>1, <1>2, <1>3, <1>4 DEF CreateTask, Tasks

(* A step in the middle of an attempt, or of the start of the browser.     *)
Within ==
    /\ pc \in Attempts /\ pc' \in Attempts \cup {"off", "next"}
    /\ why' \in {"ocr", "response", "failure"}
    /\ what' = "start" <=> what = "start"
    /\ what = "start" => pc' \in {"enter", "gate", "op", "off", "next"}
    /\ what # "start" => pc' \in Attempts
    /\ status' # "completed"
    /\ UNCHANGED <<task, turn, records>>

LEMMA WithinKeeps == IInv /\ Within => IInv'
<1> SUFFICES ASSUME IInv, Within PROVE IInv'
    OBVIOUS
<1> USE DEF Attempts, Places
<1>1. Typed'
    BY DEF IInv, Typed, Within
<1>2. BrowserFirst'
    BY DEF IInv, BrowserFirst, Under, Within
<1>3. OneRowEach'
    BY DEF IInv, OneRowEach, Attempting, Within
<1>4. Answered' = Answered
    BY DEF Answered, Within
<1>5. LeftBehind'
    <2>1. \A i \in DOMAIN task.providers : ~(i = turn /\ pc' = "next")
        <3>1. turn = 0 \/ pc' # "next"
            BY DEF IInv, BrowserFirst, Under, Within
        <3>2. task.providers \in Seq(Provider)
            BY DEF IInv, Typed, Tasks
        <3> QED BY <3>1, <3>2
    <2> QED BY <1>4, <2>1 DEF IInv, LeftBehind, Under, Within
<1>6. SomeAnswer'
    BY DEF IInv, Typed, BrowserFirst, Under, SomeAnswer, Within
<1>7. Complete'
    BY DEF Complete, Within
<1> QED BY <1>1, <1>2, <1>3, <1>5, <1>6, <1>7 DEF IInv

LEMMA OperationsAreWithin ==
    ASSUME IInv, Enter \/ Gate \/ OpReturns \/ OpRaises \/ Cancel
    PROVE  Within
<1> USE DEF IInv, Typed, BrowserFirst, Under, Within, Attempts, Places
<1>1. ASSUME pc \in Attempts, Raises
      PROVE  /\ pc' \in {"off", "enter", "shoot"}
             /\ why' \in {"ocr", "response", "failure"}
             /\ what' = "start" <=> what = "start"
             /\ what = "start" => pc' = "off"
             /\ what # "start" => pc' # "off"
             /\ status' = status
    BY <1>1 DEF Raises, Shoots
<1>2. CASE Enter
    BY <1>1, <1>2 DEF Enter, rest
<1>3. CASE Gate
    BY <1>1, <1>3 DEF Gate, Records, rest
<1>4. CASE OpReturns
    BY <1>1, <1>4 DEF OpReturns, Returns, Started, Enters, Observes, Recovers, Records, rest
<1>5. CASE OpRaises
    BY <1>1, <1>5 DEF OpRaises, rest
<1>6. CASE Cancel
    BY <1>1, <1>6 DEF Cancel, Overdue
<1> QED BY <1>2, <1>3, <1>4, <1>5, <1>6

LEMMA EvidenceIsWithin ==
    ASSUME IInv,
           OpAsks \/ UserStops \/ Observed \/ Validate \/ Shoot \/ Shot \/ ReadsScreenshot \/
           Continue
    PROVE  Within
BY DEF IInv, Typed, BrowserFirst, Under, Within, Attempts, Places, OpAsks, UserStops, Observed,
       Validate, Shoot, Shot, ReadsScreenshot, Continue, Enters, Shoots, rest, progress

(* A row more.                                                             *)
LEMMA StoresAdds ==
    ASSUME IInv, NEW outcome \in {"completed", "failed"}, Stores(outcome),
           pc \in {"response", "failure"}
    PROVE  /\ Who \in Provider
           /\ records' \in Seq(Rows) /\ Len(records') = Len(records) + 1
           /\ Answered' = Answered \cup (IF outcome = "completed" THEN {Who} ELSE {})
           /\ UNCHANGED <<what, why, task, turn>>
<1>1. task \in Tasks /\ turn \in Nat /\ records \in Seq(Rows)
    BY DEF IInv, Typed
<1>2. turn \in 1..(Len(task.providers) + 1)
    BY <1>1 DEF IInv, BrowserFirst, Under, Tasks
<1>3. Who \in Provider
    BY <1>1, <1>2 DEF Who, Synthesizing, Tasks
<1> DEFINE row == [who |-> Who, outcome |-> outcome]
<1>4. row \in Rows
    BY <1>3 DEF Rows
<1>5. records' = Append(records, row)
    BY DEF Stores
<1> HIDE DEF row
<1>6. records' \in Seq(Rows) /\ Len(records') = Len(records) + 1
    BY <1>1, <1>4, <1>5
<1>7. DOMAIN records' = DOMAIN records \cup {Len(records) + 1}
    BY <1>1, <1>6
<1>8. /\ \A i \in DOMAIN records : records'[i] = records[i]
      /\ records'[Len(records) + 1] = row
    BY <1>1, <1>4, <1>5
<1>9. row.who = Who /\ row.outcome = outcome
    BY DEF row
<1>10. Answered' = Answered \cup (IF outcome = "completed" THEN {Who} ELSE {})
    BY <1>7, <1>8, <1>9 DEF Answered
<1> QED BY <1>3, <1>6, <1>10 DEF Stores

LEMMA RowsKeep == IInv /\ (StoresResponse \/ StoresFailure) => IInv'
<1> SUFFICES ASSUME IInv, StoresResponse \/ StoresFailure PROVE IInv'
    OBVIOUS
<1>0. PICK outcome \in {"completed", "failed"} :
          /\ Stores(outcome)
          /\ outcome = "completed" => pc = "response" /\ pc' = "next" /\ status' = "storing_result"
          /\ outcome = "failed" => pc = "failure" /\ pc' = "raised" /\ status' = status
    BY DEF StoresResponse, StoresFailure
<1>1. /\ Who \in Provider
      /\ records' \in Seq(Rows) /\ Len(records') = Len(records) + 1
      /\ Answered' = Answered \cup (IF outcome = "completed" THEN {Who} ELSE {})
      /\ UNCHANGED <<what, why, task, turn>>
    BY <1>0, StoresAdds
<1>2. /\ task.providers \in Seq(Provider) /\ turn \in Nat /\ what # "start" /\ turn # 0
      /\ turn <= Len(task.providers) + 1
    BY <1>0 DEF IInv, Typed, Tasks, BrowserFirst, Under
<1>3. Typed'
    BY <1>0, <1>1 DEF IInv, Typed, Places, Attempts
<1>4. BrowserFirst'
    BY <1>0, <1>1, <1>2 DEF IInv, BrowserFirst, Under
<1>5. OneRowEach'
    BY <1>0, <1>1, <1>2 DEF IInv, OneRowEach, Attempting
<1>6. LeftBehind'
    <2>1. \A i \in DOMAIN task.providers : i = turn => Who = task.providers[i]
        BY <1>2 DEF Who, Synthesizing
    <2> QED BY <1>0, <1>1, <1>2, <2>1 DEF IInv, LeftBehind, Under
<1>7. SomeAnswer'
    BY <1>0, <1>1 DEF SomeAnswer
<1>8. Complete'
    BY <1>0 DEF Complete
<1> QED BY <1>3, <1>4, <1>5, <1>6, <1>7, <1>8 DEF IInv

LEMMA HandlesKeeps == IInv /\ Handles => IInv'
<1> SUFFICES ASSUME IInv, Handles PROVE IInv'
    OBVIOUS
<1>1. /\ pc = "raised" /\ UNCHANGED <<what, why, task, turn, records>>
      /\ \/ /\ ~Synthesizing /\ Who = Optional /\ Answered # {}
            /\ pc' = "next" /\ status' = status
         \/ pc' = "off" /\ status' # "completed"
    BY DEF Handles, rest
<1>2. task.providers \in Seq(Provider) /\ turn \in Nat /\ what # "start" /\ turn # 0
    BY <1>1 DEF IInv, Typed, Tasks, BrowserFirst, Under
<1>3. Answered' = Answered
    BY <1>1 DEF Answered
<1>4. Typed'
    BY <1>1 DEF IInv, Typed, Places, Attempts
<1>5. BrowserFirst'
    BY <1>1, <1>2 DEF IInv, BrowserFirst, Under
<1>6. OneRowEach'
    BY <1>1 DEF IInv, OneRowEach, Attempting
<1>7. LeftBehind'
    <2>1. pc' = "next" => \A i \in DOMAIN task.providers : i = turn => task.providers[i] = Optional
        BY <1>1, <1>2 DEF Who, Synthesizing
    <2> QED BY <1>1, <1>3, <2>1 DEF IInv, LeftBehind, Under
<1>8. SomeAnswer' /\ Complete'
    BY <1>1, <1>3 DEF SomeAnswer, Complete
<1> QED BY <1>4, <1>5, <1>6, <1>7, <1>8 DEF IInv

LEMMA NextProviderKeeps == IInv /\ NextProvider => IInv'
<1> SUFFICES ASSUME IInv, NextProvider PROVE IInv'
    OBVIOUS
<1>1. pc = "next" /\ UNCHANGED <<why, task, records>>
    BY DEF NextProvider
<1>2. /\ task.providers \in Seq(Provider) /\ Len(task.providers) \in Nat \ {0}
      /\ DOMAIN task.providers = 1..Len(task.providers) /\ turn \in Nat
      /\ turn <= Len(task.providers) + 1
    BY <1>1 DEF IInv, Typed, Tasks, BrowserFirst, Under
<1>3. Answered' = Answered
    BY <1>1 DEF Answered
<1>4. CASE turn' = turn + 1
    <2>1. /\ turn <= Len(task.providers) /\ what' = "open" /\ pc' = "enter"
          /\ status' = "opening_browser"
        BY <1>2, <1>4 DEF NextProvider, Enters
    <2>2. Typed'
        BY <1>1, <1>4, <2>1 DEF IInv, Typed, Places, Attempts
    <2>3. BrowserFirst'
        BY <1>1, <1>2, <1>4, <2>1 DEF BrowserFirst, Under
    <2>4. OneRowEach'
        BY <1>1, <1>2, <1>4, <2>1 DEF IInv, OneRowEach, Attempting
    <2>5. LeftBehind'
        BY <1>1, <1>2, <1>3, <1>4, <2>1 DEF IInv, LeftBehind, Under
    <2>6. SomeAnswer' /\ Complete'
        BY <2>1 DEF SomeAnswer, Complete
    <2> QED BY <2>2, <2>3, <2>4, <2>5, <2>6 DEF IInv
<1>5. CASE turn' # turn + 1
    <2>1. pc' = "off" /\ turn >= Len(task.providers) /\ UNCHANGED <<what, turn>>
        BY <1>2, <1>5 DEF NextProvider, Enters
    <2>2. Typed'
        BY <1>1, <2>1 DEF IInv, Typed, Places, Attempts
    <2>3. BrowserFirst' /\ LeftBehind' /\ SomeAnswer'
        BY <2>1 DEF BrowserFirst, LeftBehind, SomeAnswer, Under
    <2>4. OneRowEach'
        BY <1>1, <2>1 DEF IInv, OneRowEach, Attempting
    <2>5. Complete'
        <3>1. \A i \in DOMAIN task.providers : i < turn \/ i = turn
            BY <1>2, <2>1
        <3> QED BY <1>1, <1>2, <1>3, <2>1, <3>1
                DEF IInv, LeftBehind, SomeAnswer, Complete, Under
    <2> QED BY <2>2, <2>3, <2>4, <2>5 DEF IInv
<1> QED BY <1>4, <1>5

LEMMA StartsKeep == IInv /\ (Start \/ Run) => IInv'
<1> SUFFICES ASSUME IInv, Start \/ Run PROVE IInv'
    OBVIOUS
<1>1. CASE Start
    <2>1. pc' = "starting" /\ UNCHANGED <<what, why, turn, records>> /\ task' \in Tasks
        BY <1>1, TaskIsTyped DEF Start
    <2> QED BY <2>1 DEF IInv, Typed, Places, BrowserFirst, OneRowEach, LeftBehind, SomeAnswer,
                    Complete, Under
<1>2. CASE Run
    <2>1. /\ pc' = "enter" /\ what' = "start" /\ status' = "initializing"
          /\ turn' = 0 /\ records' = <<>> /\ UNCHANGED <<why, task>>
        BY <1>2 DEF Run
    <2>2. task.providers \in Seq(Provider)
        BY DEF IInv, Typed, Tasks
    <2>3. Typed'
        BY <2>1 DEF IInv, Typed, Places, Attempts
    <2> QED BY <2>1, <2>2, <2>3 DEF IInv, BrowserFirst, OneRowEach, LeftBehind, SomeAnswer,
                    Complete, Under, Attempting
<1> QED BY <1>1, <1>2

LEMMA Elsewhere ==
    ASSUME IInv, UNCHANGED <<pc, what, why, status, task, turn, records>>
    PROVE  IInv'
BY DEF IInv, Typed, BrowserFirst, OneRowEach, LeftBehind, SomeAnswer, Complete, Under, Attempting,
       Answered

LEMMA NextKeeps == IInv /\ [Next]_vars => IInv'
<1> SUFFICES ASSUME IInv, [Next]_vars PROVE IInv'
    OBVIOUS
<1>1. CASE Enter \/ Gate \/ OpReturns \/ OpRaises \/ Cancel
    BY <1>1, OperationsAreWithin, WithinKeeps
<1>2. CASE OpAsks \/ UserStops \/ Observed \/ Validate \/ Shoot \/ Shot \/ ReadsScreenshot \/ Continue
    BY <1>2, EvidenceIsWithin, WithinKeeps
<1>3. CASE StoresResponse \/ StoresFailure \/ Handles \/ NextProvider \/ Start \/ Run
    BY <1>3, RowsKeep, HandlesKeeps, NextProviderKeeps, StartsKeep
<1>4. CASE Stop \/ TogglePause \/ Deadline
    BY <1>4, Elsewhere DEF Stop, TogglePause, Deadline, control, progress
<1>5. CASE UNCHANGED vars
    BY <1>5, Elsewhere DEF vars, control, progress
<1> QED BY <1>1, <1>2, <1>3, <1>4, <1>5 DEF Next, RunStep

LEMMA Initially == Init => IInv
<1> SUFFICES ASSUME Init PROVE IInv
    OBVIOUS
<1>1. task \in Tasks
    BY TaskIsTyped DEF Init
<1> QED BY <1>1 DEF Init, IInv, Typed, Places, BrowserFirst, OneRowEach, LeftBehind, SomeAnswer,
                    Complete, Under, Attempting

(* Every provider that was begun leaves one record, whatever went wrong;   *)
(* and a task is complete only if all but the optional provider answered   *)
(* (agent_runtime.py run, _run_provider).                                  *)
THEOREM AccountedHolds == Spec => []Accounted
<1>1. IInv => Accounted
    BY DEF IInv, OneRowEach, Complete, Accounted
<1> QED BY <1>1, Initially, NextKeeps, PTL DEF Spec

-----------------------------------------------------------------------------
(* The emergency stop.                                                     *)
(*                                                                         *)
(* At the gate nothing has begun since the stop: what passed the check was *)
(* not stopped yet.  So an extraction that passes it has only what its     *)
(* retries begin, three operations each, and no attempt that has taken a   *)
(* picture since the stop begins anything but pictures.                    *)

Tally == [passed : Nat, within : Nat, pictures : Nat]
Limit == IF MaxRetries = 0 THEN 1 ELSE 3 * MaxRetries

Counted ==
    /\ begun \in Tally
    /\ ~stop => begun = Nothing
    /\ begun.passed <= 1
    /\ pc = "gate" => begun = Nothing

InOrder ==
    /\ tries \in 0..MaxRetries
    /\ pc = "op" => begun.within <=
        CASE what = "recover" -> 3 * tries - 2
          [] what = "reobserve" -> 3 * tries - 1
          [] what = "extract" -> 3 * tries
          [] OTHER -> 0
    /\ pc = "op" /\ what \in {"recover", "reobserve"} => tries >= 1
    /\ pc \in {"enter", "gate", "user"} => what \notin {"recover", "reobserve"}
    /\ pc = "user" => begun.within = 0
    /\ begun.within <= Limit

Pictured ==
    /\ pc \in {"gate", "op", "user", "observe"} => begun.pictures = 0
    /\ pc = "enter" => begun.pictures <= IF what = "open" THEN turn ELSE 0
    /\ pc = "shoot" => begun.pictures <= IF why = "ocr" THEN 0 ELSE turn
    /\ pc = "shot" /\ why = "ocr" => begun.pictures <= 1
    /\ pc \in {"ocr", "validate"} => begun.pictures <= 1
    /\ begun.pictures <= turn + 1

SInv == Counted /\ InOrder /\ Pictured

LEMMA Numbers == MaxRetries \in Nat /\ Limit \in Nat /\ Limit >= 1 /\ 3 * MaxRetries <= Limit
BY BoundsAssumption DEF Limit

LEMMA CountsOne ==
    ASSUME begun \in Tally, NEW kind \in {"passed", "within", "pictures"}, NEW b, Counts(kind, b)
    PROVE  /\ begun' \in Tally
           /\ ~stop => begun' = begun
           /\ ~b => begun' = begun
           /\ \A k \in {"passed", "within", "pictures"} \ {kind} : begun'[k] = begun[k]
           /\ begun'[kind] <= begun[kind] + 1
<1>1. CASE stop /\ b
    <2>1. begun' = [begun EXCEPT ![kind] = @ + 1]
        BY <1>1 DEF Counts
    <2> QED BY <1>1, <2>1 DEF Tally
<1>2. CASE ~(stop /\ b)
    BY <1>2 DEF Counts, Tally
<1> QED BY <1>1, <1>2

LEMMA StopInitially == Init => SInv
BY Numbers DEF Init, SInv, Counted, InOrder, Pictured, Nothing, Tally

(* What an exception leads to.                                             *)
LEMMA RaisesLeads ==
    ASSUME Raises
    PROVE  /\ what = "start" => pc' = "off"
           /\ what \in {"extract", "recover", "reobserve"} => pc' = "enter" /\ what' = "clipboard"
           /\ what = "clipboard" => pc' = "shoot" /\ why' = "ocr"
           /\ what \notin {"start", "extract", "recover", "reobserve", "clipboard"} =>
                pc' = "shoot" /\ why' = "failure"
BY DEF Raises, Shoots

(* An exception where no picture was taken since the stop, or before the   *)
(* page is opened.                                                         *)
LEMMA RaisesKeepsStop ==
    ASSUME IInv, SInv, pc \in {"enter", "gate", "op"}, Raises,
           UNCHANGED <<begun, stop, turn>>, tries' \in 0..MaxRetries
    PROVE  SInv'
<1>1. turn \in Nat
    BY DEF IInv, Typed
<1>2. Counted'
    BY RaisesLeads DEF SInv, Counted
<1>3. InOrder'
    BY RaisesLeads DEF SInv, InOrder
<1>4. Pictured'
    BY <1>1, RaisesLeads DEF SInv, Pictured, Counted, Tally
<1> QED BY <1>2, <1>3, <1>4 DEF SInv

LEMMA GateKeepsStop == IInv /\ SInv /\ Gate => SInv'
<1> SUFFICES ASSUME IInv, SInv, Gate PROVE SInv'
    OBVIOUS
<1>1. CASE pc' = "op"
    <2>1. /\ pc = "gate" /\ begun = Nothing /\ UNCHANGED <<what, why, tries, stop, turn>>
          /\ Counts("passed", TRUE)
        <3>1. pc = "gate" /\ UNCHANGED <<tries, stop, turn>>
            BY DEF Gate, rest, owner
        <3>2. ~Raises
            BY <1>1, RaisesLeads
        <3>3. UNCHANGED <<what, why>> /\ Counts("passed", pc' = "op")
            BY <3>2 DEF Gate, Records
        <3> QED BY <1>1, <3>1, <3>3 DEF Counts, SInv, Counted
    <2>2. /\ begun' \in Tally /\ begun'.passed <= 1 /\ begun'.within = 0
          /\ begun'.pictures = 0 /\ (~stop => begun' = Nothing)
        <3>1. Nothing \in Tally
            BY DEF Nothing, Tally
        <3>2. /\ begun' \in Tally /\ (~stop => begun' = begun)
              /\ begun'["within"] = begun["within"] /\ begun'["pictures"] = begun["pictures"]
              /\ begun'["passed"] <= begun["passed"] + 1
            BY <2>1, <3>1, CountsOne
        <3>3. begun["passed"] = 0 /\ begun["within"] = 0 /\ begun["pictures"] = 0
            BY <2>1 DEF Nothing
        <3> QED BY <2>1, <3>2, <3>3
    <2>3. turn \in Nat /\ tries \in 0..MaxRetries
        BY DEF IInv, Typed, SInv, InOrder
    <2>4. what \notin {"recover", "reobserve"}
        BY <2>1 DEF SInv, InOrder
    <2> QED BY <1>1, <2>1, <2>2, <2>3, <2>4, Numbers DEF SInv, Counted, InOrder, Pictured
<1>2. CASE pc' # "op"
    <2>1. Raises /\ UNCHANGED <<tries, stop, turn>> /\ pc = "gate"
        BY <1>2 DEF Gate, Records, rest, owner
    <2>2. begun' = begun
        BY <1>2 DEF Gate, Counts
    <2> QED BY <2>1, <2>2, RaisesKeepsStop DEF SInv, InOrder
<1> QED BY <1>1, <1>2

LEMMA OpReturnsKeepsStop == IInv /\ SInv /\ OpReturns => SInv'
<1> SUFFICES ASSUME IInv, SInv, OpReturns PROVE SInv'
    OBVIOUS
<1> DEFINE goes == pc' = "observe" \/ (what \in {"recover", "reobserve"} /\ pc' = "op")
<1>1. pc = "op" /\ UNCHANGED <<stop, turn>> /\ Counts("within", goes) /\ Returns
    BY DEF OpReturns, rest, owner
<1>2. /\ turn \in Nat /\ tries \in 0..MaxRetries /\ begun \in Tally
      /\ begun.passed <= 1 /\ begun.pictures = 0 /\ begun.within <= Limit
    BY <1>1 DEF IInv, Typed, SInv, InOrder, Counted, Pictured
<1>3. /\ begun' \in Tally /\ (~stop => begun' = Nothing) /\ begun'.passed <= 1
      /\ begun'.pictures = 0 /\ begun'.within <= begun.within + 1
      /\ ~goes => begun' = begun
    BY <1>1, <1>2, CountsOne DEF SInv, Counted
<1> HIDE DEF goes
<1>4. CASE Raises /\ UNCHANGED tries
    <2>1. ~goes
        BY <1>4, RaisesLeads DEF goes
    <2> QED BY <1>1, <1>2, <1>3, <1>4, <2>1, RaisesKeepsStop
<1>5. CASE what = "verify" /\ pc' = "observe" /\ UNCHANGED <<what, tries>>
    <2>1. begun.within = 0 /\ begun \in Tally
        BY <1>1, <1>5 DEF SInv, InOrder, Counted, Tally
    <2>2. begun'.within <= 1
        BY <1>3, <2>1
    <2> QED BY <1>1, <1>2, <1>3, <1>5, <2>2, Numbers DEF SInv, Counted, InOrder, Pictured, Tally
<1>6. CASE /\ what \in {"recover", "reobserve"} /\ pc' = "op" /\ UNCHANGED tries
           /\ what' = IF what = "recover" THEN "reobserve" ELSE "extract"
    <2>1. tries >= 1 /\ begun.within <= IF what = "recover" THEN 3 * tries - 2 ELSE 3 * tries - 1
        BY <1>1, <1>6 DEF SInv, InOrder
    <2>2. begun'.within <= IF what' = "reobserve" THEN 3 * tries - 1 ELSE 3 * tries
        BY <1>2, <1>3, <1>6, <2>1, Numbers DEF Tally
    <2>3. begun'.within <= Limit
        BY <1>2, <1>3, <1>6, <2>2, Numbers DEF Tally
    <2> QED BY <1>1, <1>2, <1>3, <1>6, <2>1, <2>2, <2>3, Numbers
            DEF SInv, Counted, InOrder, Pictured
<1>7. CASE /\ pc' \in {"next", "enter", "validate"} /\ tries' \in {0, tries}
           /\ pc' = "enter" => what' \notin {"recover", "reobserve"}
    <2>1. begun' = begun
        BY <1>1, <1>3, <1>7 DEF goes
    <2> QED BY <1>1, <1>2, <1>3, <1>7, <2>1, Numbers DEF SInv, Counted, InOrder, Pictured
<1>8. \/ Raises /\ UNCHANGED tries
      \/ what = "verify" /\ pc' = "observe" /\ UNCHANGED <<what, tries>>
      \/ /\ what \in {"recover", "reobserve"} /\ pc' = "op" /\ UNCHANGED tries
         /\ what' = IF what = "recover" THEN "reobserve" ELSE "extract"
      \/ /\ pc' \in {"next", "enter", "validate"} /\ tries' \in {0, tries}
         /\ pc' = "enter" => what' \notin {"recover", "reobserve"}
    <2>1. CASE what = "verify"
        BY <1>1, <2>1 DEF Returns, Observes, Records
    <2>2. CASE what \in {"recover", "reobserve"}
        BY <1>1, <2>2 DEF Returns, Recovers, Observes, Records
    <2>3. CASE what \notin {"verify", "recover", "reobserve"}
        BY <1>1, <2>3 DEF Returns, Started, Enters
    <2> QED BY <2>1, <2>2, <2>3
<1> QED BY <1>4, <1>5, <1>6, <1>7, <1>8

LEMMA OpRaisesKeepsStop == IInv /\ SInv /\ OpRaises => SInv'
<1> SUFFICES ASSUME IInv, SInv, OpRaises PROVE SInv'
    OBVIOUS
<1>1. pc = "op" /\ UNCHANGED <<stop, turn>> /\ Counts("within", pc' = "op")
    BY DEF OpRaises, rest, owner
<1>2. /\ turn \in Nat /\ tries \in 0..MaxRetries /\ begun \in Tally
      /\ begun.passed <= 1 /\ begun.pictures = 0 /\ begun.within <= Limit
    BY <1>1 DEF IInv, Typed, SInv, InOrder, Counted, Pictured
<1>3. /\ begun' \in Tally /\ (~stop => begun' = Nothing) /\ begun'.passed <= 1
      /\ begun'.pictures = 0 /\ begun'.within <= begun.within + 1
      /\ pc' # "op" => begun' = begun
    BY <1>1, <1>2, CountsOne DEF SInv, Counted
<1>4. CASE Raises /\ UNCHANGED tries
    <2>1. pc' # "op"
        BY <1>4, RaisesLeads
    <2> QED BY <1>1, <1>2, <1>3, <1>4, <2>1, RaisesKeepsStop
<1>5. CASE what = "extract" /\ tries < MaxRetries /\ tries' = tries + 1
    <2>1. begun.within <= 3 * tries
        BY <1>1, <1>5 DEF SInv, InOrder
    <2>2. \/ pc' = "op" /\ what' = "recover"
          \/ pc' = "enter" /\ what' = "clipboard"
        BY <1>5 DEF OpRaises
    <2>3. begun'.within <= 3 * tries' - 2 /\ tries' \in 1..MaxRetries
        BY <1>2, <1>3, <1>5, <2>1, Numbers DEF Tally
    <2>4. begun'.within <= Limit
        BY <1>3, <2>3, Numbers DEF Tally
    <2> QED BY <1>1, <1>2, <1>3, <2>2, <2>3, <2>4, Numbers DEF SInv, Counted, InOrder, Pictured
<1> QED BY <1>4, <1>5 DEF OpRaises

(* Pictures, and what is done with them.                                   *)
LEMMA PicturesKeepStop ==
    IInv /\ SInv /\ (Shoot \/ Shot \/ ReadsScreenshot \/ Validate \/ UserStops) => SInv'
<1> SUFFICES ASSUME IInv, SInv, Shoot \/ Shot \/ ReadsScreenshot \/ Validate \/ UserStops
             PROVE  SInv'
    OBVIOUS
<1>1. /\ pc \in {"shoot", "shot", "ocr", "validate", "user"} /\ UNCHANGED <<what, stop, turn, tries>>
      /\ turn \in Nat /\ turn >= 1 /\ begun \in Tally /\ begun.passed <= 1
      /\ why \in {"ocr", "response", "failure"}
    <2>1. /\ pc \in {"shoot", "shot", "ocr", "validate", "user"}
          /\ UNCHANGED <<what, stop, turn, tries>>
        BY DEF Shoot, Shot, ReadsScreenshot, Validate, UserStops, Shoots, rest, owner
    <2> QED BY <2>1 DEF IInv, Typed, BrowserFirst, Under, SInv, Counted
<1>2. CASE Shoot
    <2>1. pc = "shoot" /\ Counts("pictures", pc' = "shot") /\ why' = why /\ pc' \in {"shot", why}
        BY <1>2 DEF Shoot
    <2>2. /\ begun' \in Tally /\ (~stop => begun' = Nothing) /\ begun'.passed <= 1
          /\ begun'.within = begun.within /\ begun'.pictures <= begun.pictures + 1
        BY <1>1, <2>1, CountsOne DEF SInv, Counted
    <2>3. pc' = why => begun' = begun
        BY <1>1, <2>1, CountsOne
    <2> QED BY <1>1, <2>1, <2>2, <2>3 DEF SInv, Counted, InOrder, Pictured, Tally
<1>3. CASE Shot
    <2>1. pc = "shot" /\ pc' = why /\ UNCHANGED <<why, begun>>
        BY <1>3 DEF Shot, history
    <2> QED BY <1>1, <2>1 DEF SInv, Counted, InOrder, Pictured, Tally
<1>4. CASE ReadsScreenshot \/ Validate \/ UserStops
    <2>1. /\ begun' = begun /\ pc \in {"ocr", "validate", "user"}
          /\ pc' = "validate" \/ (pc' = "shoot" /\ why' # "ocr")
        BY <1>4 DEF ReadsScreenshot, Validate, UserStops, Shoots
    <2> QED BY <1>1, <2>1 DEF SInv, Counted, InOrder, Pictured, Tally
<1> QED BY <1>2, <1>3, <1>4

LEMMA NextKeepsStop == IInv /\ SInv /\ [Next]_vars => SInv'
<1> SUFFICES ASSUME IInv, SInv, [Next]_vars PROVE SInv'
    OBVIOUS
<1>t. turn \in Nat /\ Nothing \in Tally /\ begun \in Tally /\ tries \in 0..MaxRetries
    BY DEF IInv, Typed, SInv, Counted, InOrder, Nothing, Tally
<1>1. CASE Run
    <2>1. /\ pc' = "enter" /\ what' = "start" /\ begun' = Nothing /\ turn' = 0
          /\ tries' = tries /\ stop' = FALSE
        BY <1>1 DEF Run
    <2> QED BY <1>t, <2>1, Numbers DEF SInv, Counted, InOrder, Pictured, Nothing
<1>2. CASE Enter
    <2>1. pc = "enter" /\ UNCHANGED <<begun, stop, turn, tries>>
        BY <1>2 DEF Enter, rest, owner
    <2>2. CASE stop
        BY <1>2, <1>t, <2>1, <2>2, RaisesKeepsStop DEF Enter
    <2>3. CASE ~stop
        <3>1. pc' = "gate" /\ UNCHANGED <<what, why>> /\ begun = Nothing
            BY <1>2, <2>3 DEF Enter, SInv, Counted
        <3> QED BY <1>t, <2>1, <3>1 DEF SInv, Counted, InOrder, Pictured, Nothing
    <2> QED BY <2>2, <2>3
<1>3. CASE Cancel
    BY <1>3, <1>t, RaisesKeepsStop DEF Cancel, Overdue, owner
<1>4. CASE Observed
    <2>1. /\ pc = "observe" /\ UNCHANGED <<begun, stop, turn, tries>>
          /\ (pc' = "enter" /\ what' = "focus") \/ (pc' = "shoot" /\ why' = "failure")
        BY <1>4 DEF Observed, Enters, Shoots, rest, owner
    <2> QED BY <1>t, <2>1 DEF SInv, Counted, InOrder, Pictured
<1>5. CASE OpAsks
    <2>1. /\ pc = "op" /\ what = "verify" /\ pc' = "user" /\ UNCHANGED <<what, begun, stop, turn, tries>>
        BY <1>5 DEF OpAsks, rest, owner
    <2>2. begun.within = 0
        BY <2>1, <1>t DEF SInv, InOrder, Tally
    <2> QED BY <1>t, <2>1, <2>2 DEF SInv, Counted, InOrder, Pictured
<1>6. CASE StoresResponse \/ StoresFailure \/ Handles
    <2>1. /\ UNCHANGED <<begun, stop, turn, tries>> /\ pc' \in {"next", "raised", "off"}
        BY <1>6 DEF StoresResponse, StoresFailure, Handles, Stores, rest, owner, history
    <2> QED BY <1>t, <2>1 DEF SInv, Counted, InOrder, Pictured
<1>7. CASE NextProvider
    <2>1. /\ UNCHANGED <<begun, stop, tries>> /\ pc = "next"
          /\ \/ turn' = turn + 1 /\ pc' = "enter" /\ what' = "open"
             \/ turn' = turn /\ pc' = "off"
        BY <1>7 DEF NextProvider, Enters, owner, history
    <2> QED BY <1>t, <2>1 DEF SInv, Counted, InOrder, Pictured, Tally
<1>8. CASE Start
    <2>1. UNCHANGED <<begun, stop, tries, turn>> /\ pc' = "starting"
        BY <1>8 DEF Start, history
    <2> QED BY <1>t, <2>1 DEF SInv, Counted, InOrder, Pictured
<1>9. CASE Continue
    <2>1. /\ UNCHANGED <<what, begun, stop, tries, turn>> /\ pc = "user" /\ pc' = "enter"
        BY <1>9 DEF Continue, progress, owner, history
    <2> QED BY <1>t, <2>1 DEF SInv, Counted, InOrder, Pictured
<1>10. CASE Stop
    <2>1. /\ UNCHANGED <<pc, what, why, begun, tries, turn>> /\ stop' = TRUE
        BY <1>10 DEF Stop, control, progress, history
    <2> QED BY <1>t, <2>1 DEF SInv, Counted, InOrder, Pictured
<1>11. CASE TogglePause \/ Deadline \/ UNCHANGED vars
    <2>1. UNCHANGED <<pc, what, why, begun, tries, turn, stop>>
        BY <1>11 DEF TogglePause, Deadline, vars, control, progress, owner, history
    <2> QED BY <1>t, <2>1 DEF SInv, Counted, InOrder, Pictured
<1> QED BY <1>1, <1>2, <1>3, <1>4, <1>5, <1>6, <1>7, <1>8, <1>9, <1>10, <1>11, GateKeepsStop,
           OpReturnsKeepsStop, OpRaisesKeepsStop, PicturesKeepStop DEF Next, RunStep

(* After an emergency stop at most one more operation passes _act; what is *)
(* begun beside it is what the stop met, up to three operations for each   *)
(* retry of an extraction, and a picture for every provider and one more   *)
(* (agent_runtime.py _act, _recover_response, _capture).                   *)
THEOREM StopIsPromptHolds == Spec => []StopIsPrompt
<1>1. IInv /\ SInv => StopIsPrompt
    BY DEF SInv, Counted, InOrder, Pictured, Limit, StopIsPrompt
<1> QED BY <1>1, Initially, NextKeeps, StopInitially, NextKeepsStop, PTL DEF Spec
=============================================================================
