----------------------- MODULE MissionOperatorProofs -----------------------
(* Proofs about MissionOperator: what the operator's loop, the user's      *)
(* commands and restarts preserve whatever the missions and the queue's    *)
(* size are.                                                               *)
EXTENDS MissionOperator, TLAPS

(* Who is in a turn has a mission, and one that was undecided when the     *)
(* turn began; there is no mission outside a turn.                         *)
InTurn == pc \in {"observe", "notify", "run", "publish"}

TurnIsOpen ==
    /\ InTurn => turn \in Mission /\ loaded \notin Decided
    /\ ~InTurn => turn = None

IInv == TypeOK /\ TurnIsOpen /\ RunningIsReal

-----------------------------------------------------------------------------
(* The queue stays a queue of at most Capacity events.                     *)

LEMMA QueueGrows ==
    ASSUME TypeOK, HasRoom, NEW e \in Mission \cup {None}, queue' = Append(queue, e)
    PROVE  queue' \in Seq(Mission \cup {None}) /\ Len(queue') <= Capacity
BY CapacityAssumption DEF TypeOK, HasRoom

LEMMA QueueShrinks ==
    ASSUME TypeOK, queue # <<>>, queue' = Tail(queue)
    PROVE  /\ queue' \in Seq(Mission \cup {None}) /\ Len(queue') <= Capacity
           /\ Head(queue) \in Mission \cup {None}
BY CapacityAssumption DEF TypeOK

LEMMA ActiveAreMissions == Active' \in SUBSET Mission
BY DEF Active

USE NoneAssumption DEF EndTurn, Save, Status, Terminal

-----------------------------------------------------------------------------
(* Types.                                                                  *)

LEMMA TypeInitially == Init => TypeOK
BY CapacityAssumption DEF Init, TypeOK

LEMMA TypePreserved == TypeOK /\ [Next]_vars => TypeOK'
<1> SUFFICES ASSUME TypeOK, [Next]_vars PROVE TypeOK'
    OBVIOUS
<1>1. ASSUME NEW m \in Mission, Visit(m) PROVE TypeOK'
    BY <1>1 DEF Visit, Inert, TypeOK
<1>2. CASE ObservationChanges
    BY <1>2 DEF ObservationChanges, TypeOK
<1>3. CASE Observed
    <2>1. queue' \in Seq(Mission \cup {None}) /\ Len(queue') <= Capacity
        BY <1>3, QueueGrows DEF Observed, PutOther, TypeOK
    <2> QED BY <1>3, <2>1 DEF Observed, AfterObservation, TypeOK
<1>4. CASE ObservationRaises
    BY <1>4 DEF ObservationRaises, TypeOK
<1>5. CASE RunnerReturns
    BY <1>5 DEF RunnerReturns, TypeOK
<1>6. CASE RunnerRaises
    BY <1>6 DEF RunnerRaises, TypeOK
<1>7. CASE PublishFailure
    <2>1. queue' \in Seq(Mission \cup {None}) /\ Len(queue') <= Capacity
        BY <1>7, QueueGrows DEF PublishFailure, TypeOK
    <2> QED BY <1>7, <2>1 DEF PublishFailure, SaveAfterFailure, TypeOK
<1>8. CASE Sleep
    BY <1>8 DEF Sleep, TypeOK
<1>9. CASE HandleEvent
    <2>1. /\ queue' \in Seq(Mission \cup {None}) /\ Len(queue') <= Capacity
          /\ Head(queue) \in Mission \cup {None}
        BY <1>9, QueueShrinks DEF HandleEvent
    <2>2. CASE Classify(Head(queue)) /\ NextPass /\ UNCHANGED event
        BY <1>9, <2>1, <2>2, ActiveAreMissions DEF HandleEvent, Classify, NextPass, TypeOK
    <2>3. CASE pc' = "trigger" /\ event' = Head(queue)
               /\ UNCHANGED <<store, todo, turn, loaded, stranded>>
        BY <1>9, <2>1, <2>3 DEF HandleEvent, TypeOK
    <2> QED BY <1>9, <2>2, <2>3 DEF HandleEvent
<1>10. CASE TriggerFires
    <2>1. queue' \in Seq(Mission \cup {None}) /\ Len(queue') <= Capacity
        BY <1>10, QueueGrows DEF TriggerFires, PutOther
    <2> QED
        BY <1>10, <2>1, ActiveAreMissions DEF TriggerFires, Classify, NextPass, TypeOK, loop
<1>11. CASE TimeOut
    BY <1>11, ActiveAreMissions DEF TimeOut, NextPass, TypeOK
<1>12. CASE Restart
    BY <1>12, CapacityAssumption DEF Restart, TypeOK
<1>13. ASSUME NEW m \in Mission, Create(m) PROVE TypeOK'
    BY <1>13 DEF Create, TypeOK, loop
<1>14. ASSUME NEW m \in Mission, PauseForGap(m) PROVE TypeOK'
    <2>1. queue' \in Seq(Mission \cup {None}) /\ Len(queue') <= Capacity
        BY <1>14, QueueGrows DEF PauseForGap, PutOther
    <2> QED BY <1>14, <2>1 DEF PauseForGap, TypeOK, loop
<1>15. ASSUME NEW m \in Mission, Pause(m) \/ Cancel(m) \/ Resume(m) PROVE TypeOK'
    BY <1>15 DEF Pause, Cancel, Resume, TypeOK, loop
<1>16. ASSUME NEW m \in Mission, VoiceWakes(m) PROVE TypeOK'
    <2>1. queue' \in Seq(Mission \cup {None}) /\ Len(queue') <= Capacity
        BY <1>16, QueueGrows DEF VoiceWakes, PutOther
    <2> QED BY <1>16, <2>1 DEF VoiceWakes, TypeOK, loop
<1>17. CASE Takeover \/ Release
    BY <1>17 DEF Takeover, Release, TypeOK, loop
<1>18. CASE VoicePause
    BY <1>18 DEF VoicePause, TypeOK, loop
<1>19. CASE VoiceResume
    BY <1>19 DEF VoiceResume, Halted, TypeOK, loop
<1>20. CASE PublishOther
    <2>1. queue' \in Seq(Mission \cup {None}) /\ Len(queue') <= Capacity
        BY <1>20, QueueGrows DEF PublishOther, PutOther
    <2> QED BY <1>20, <2>1 DEF PublishOther, TypeOK, loop
<1>21. CASE UNCHANGED vars
    BY <1>21 DEF vars, TypeOK
<1> QED
    BY <1>1, <1>2, <1>3, <1>4, <1>5, <1>6, <1>7, <1>8, <1>9, <1>10, <1>11, <1>12, <1>13,
       <1>14, <1>15, <1>16, <1>17, <1>18, <1>19, <1>20, <1>21 DEF Next, Operator, User

(* Every variable keeps its type (operator.py, mission.py, service.py).    *)
THEOREM TypeCorrect == Spec => []TypeOK
BY TypeInitially, TypePreserved, PTL DEF Spec

-----------------------------------------------------------------------------
(* Turns, and the missions saved as running.                               *)

LEMMA UserKeepsTheLoop ==
    ASSUME TypeOK, User
    PROVE  /\ UNCHANGED <<pc, turn, loaded, stranded>>
           /\ \A m \in Mission : store'[m] = "running" => store[m] = "running"
<1>1. ASSUME NEW m \in Mission, Create(m) \/ PauseForGap(m) \/ Pause(m) \/ Cancel(m) \/ Resume(m)
                                \/ VoiceWakes(m)
      PROVE  /\ UNCHANGED <<pc, turn, loaded, stranded>>
             /\ \A n \in Mission : store'[n] = "running" => store[n] = "running"
    BY <1>1 DEF Create, PauseForGap, Pause, Cancel, Resume, VoiceWakes, TypeOK, loop
<1>2. CASE Takeover \/ Release \/ PublishOther
    BY <1>2 DEF Takeover, Release, PublishOther, loop
<1>3. CASE VoicePause \/ VoiceResume
    BY <1>3 DEF VoicePause, VoiceResume, TypeOK, loop
<1> QED BY <1>1, <1>2, <1>3 DEF User

LEMMA TurnPreserved ==
    ASSUME IInv, [Next]_vars
    PROVE  TurnIsOpen'
<1>1. ASSUME NEW m \in Mission, Visit(m) PROVE TurnIsOpen'
    BY <1>1 DEF Visit, Inert, IInv, TypeOK, TurnIsOpen, InTurn, Decided
<1>2. CASE ObservationChanges \/ Observed \/ ObservationRaises
    BY <1>2 DEF ObservationChanges, Observed, ObservationRaises, IInv, TurnIsOpen, InTurn, Decided
<1>3. CASE RunnerReturns \/ RunnerRaises \/ PublishFailure \/ Sleep
    BY <1>3 DEF RunnerReturns, RunnerRaises, PublishFailure, Sleep, IInv, TurnIsOpen, InTurn, Decided
<1>4. CASE HandleEvent \/ TriggerFires \/ TimeOut
    BY <1>4 DEF HandleEvent, TriggerFires, TimeOut, NextPass, IInv, TurnIsOpen, InTurn, Decided, loop
<1>5. CASE Restart
    BY <1>5 DEF Restart, TurnIsOpen, InTurn
<1>6. CASE User
    BY <1>6, UserKeepsTheLoop DEF IInv, TurnIsOpen, InTurn, Decided
<1>7. CASE UNCHANGED vars
    BY <1>7 DEF vars, IInv, TurnIsOpen, InTurn, Decided
<1> QED BY <1>1, <1>2, <1>3, <1>4, <1>5, <1>6, <1>7 DEF Next, Operator

LEMMA RunningPreserved ==
    ASSUME IInv, [Next]_vars
    PROVE  RunningIsReal'
<1> USE DEF IInv, TypeOK, TurnIsOpen, InTurn, RunningIsReal
<1>1. ASSUME NEW m \in Mission, Visit(m) PROVE RunningIsReal'
    BY <1>1 DEF Visit
<1>2. CASE ObservationChanges \/ ObservationRaises
    BY <1>2 DEF ObservationChanges, ObservationRaises
<1>3. CASE Observed
    BY <1>3 DEF Observed, AfterObservation
<1>4. CASE RunnerReturns
    BY <1>4 DEF RunnerReturns
<1>5. CASE RunnerRaises \/ Sleep
    BY <1>5 DEF RunnerRaises, Sleep
<1>6. CASE PublishFailure
    BY <1>6 DEF PublishFailure, SaveAfterFailure
<1>7. CASE HandleEvent
    BY <1>7 DEF HandleEvent, Classify, NextPass
<1>8. CASE TriggerFires
    BY <1>8 DEF TriggerFires, Classify, NextPass, loop
<1>9. CASE TimeOut
    BY <1>9 DEF TimeOut, NextPass
<1>10. CASE Restart
    BY <1>10 DEF Restart
<1>11. CASE User
    BY <1>11, UserKeepsTheLoop
<1>12. CASE UNCHANGED vars
    BY <1>12 DEF vars
<1> QED
    BY <1>1, <1>2, <1>3, <1>4, <1>5, <1>6, <1>7, <1>8, <1>9, <1>10, <1>11, <1>12
    DEF Next, Operator

LEMMA Initially == Init => IInv
BY TypeInitially DEF Init, IInv, TurnIsOpen, InTurn, RunningIsReal

LEMMA Invariance == Spec => []IInv
<1>1. IInv /\ [Next]_vars => IInv'
    BY TypePreserved, TurnPreserved, RunningPreserved DEF IInv
<1> QED BY <1>1, Initially, PTL DEF Spec

(* What the store calls running is being run, or was cut off by a restart  *)
(* and is active still (operator.py run_once).                             *)
THEOREM RunningIsRealHolds == Spec => []RunningIsReal
<1>1. IInv => RunningIsReal
    BY DEF IInv
<1> QED BY <1>1, Invariance, PTL

-----------------------------------------------------------------------------
(* Steps.                                                                  *)

HonoursTakeover == \A m \in Mission :
    mode = "takeover" /\ store[m] # "running" => store'[m] # "running"

LEMMA StepHonoursTakeover ==
    ASSUME IInv, [Next]_vars
    PROVE  HonoursTakeover
<1> USE DEF HonoursTakeover, IInv, TypeOK
<1>1. ASSUME NEW m \in Mission, Visit(m) PROVE HonoursTakeover
    BY <1>1 DEF Visit
<1>2. CASE Observed
    BY <1>2 DEF Observed, AfterObservation
<1>3. CASE ObservationChanges \/ ObservationRaises \/ RunnerRaises \/ Sleep \/ TimeOut \/ Restart
    BY <1>3 DEF ObservationChanges, ObservationRaises, RunnerRaises, Sleep, TimeOut, Restart
<1>4. CASE RunnerReturns \/ PublishFailure
    BY <1>4 DEF RunnerReturns, PublishFailure, SaveAfterFailure
<1>5. CASE HandleEvent \/ TriggerFires
    BY <1>5 DEF HandleEvent, TriggerFires, Classify
<1>6. CASE User
    BY <1>6, UserKeepsTheLoop
<1>7. CASE UNCHANGED vars
    BY <1>7 DEF vars
<1> QED BY <1>1, <1>2, <1>3, <1>4, <1>5, <1>6, <1>7 DEF Next, Operator

(* Under a takeover no mission starts to run, whenever it was taken over   *)
(* (operator.py run_once).                                                 *)
THEOREM TakeoverIsHonoured == Spec => TakeoverHonoured
<1>1. IInv /\ [Next]_vars => [HonoursTakeover]_vars
    BY StepHonoursTakeover
<1> QED BY <1>1, Invariance, PTL DEF Spec, TakeoverHonoured, HonoursTakeover

Respects(m) ==
    /\ store[m] \in Terminal /\ store'[m] # store[m]
         => Overtaken(m) \/ FailureQueued(m) \/ m \in gap \/ m \in waking
    /\ store[m] = "paused" /\ store'[m] \notin {"paused", "waiting", "cancelled"}
         => Overtaken(m) \/ FailureQueued(m)

LEMMA TurnsRespect ==
    ASSUME IInv, Observed \/ RunnerReturns \/ PublishFailure, NEW m \in Mission
    PROVE  Respects(m)
<1>1. Overtaken(turn)
    BY DEF IInv, TurnIsOpen, InTurn, Overtaken, Observed, RunnerReturns, PublishFailure
<1>2. m # turn => store'[m] = store[m]
    BY DEF IInv, TypeOK, Observed, RunnerReturns, PublishFailure, SaveAfterFailure
<1> QED BY <1>1, <1>2 DEF Respects

LEMMA EventsRespect ==
    ASSUME IInv, HandleEvent \/ TriggerFires, NEW m \in Mission
    PROVE  Respects(m)
<1>1. CASE HandleEvent
    <2>1. Len(queue) \in Nat /\ Len(queue) >= 1 /\ Head(queue) = queue[1]
        BY <1>1 DEF HandleEvent, IInv, TypeOK
    <2>2. store'[m] # store[m] => m = Head(queue)
        BY <1>1 DEF HandleEvent, Classify, IInv, TypeOK
    <2>3. m = Head(queue) => FailureQueued(m)
        BY <2>1 DEF FailureQueued
    <2> QED BY <2>2, <2>3 DEF Respects
<1>2. CASE TriggerFires
    <2>1. store'[m] # store[m] => m = event
        BY <1>2 DEF TriggerFires, Classify, IInv, TypeOK
    <2> QED BY <2>1 DEF Respects, FailureQueued
<1> QED BY <1>1, <1>2

LEMMA UserRespects ==
    ASSUME IInv, User, NEW m \in Mission
    PROVE  Respects(m)
<1> USE DEF IInv, TypeOK, Respects
<1>1. ASSUME NEW n \in Mission, Create(n) \/ PauseForGap(n) PROVE Respects(m)
    BY <1>1 DEF Create, PauseForGap
<1>2. ASSUME NEW n \in Mission, Pause(n) \/ Cancel(n) \/ Resume(n) PROVE Respects(m)
    BY <1>2 DEF Pause, Cancel, Resume, Changeable
<1>3. ASSUME NEW n \in Mission, VoiceWakes(n) PROVE Respects(m)
    BY <1>3 DEF VoiceWakes
<1>4. CASE Takeover \/ Release \/ PublishOther
    BY <1>4 DEF Takeover, Release, PublishOther
<1>5. CASE VoicePause
    BY <1>5 DEF VoicePause, Active, Inactive
<1>6. CASE VoiceResume
    BY <1>6 DEF VoiceResume, Halted
<1> QED BY <1>1, <1>2, <1>3, <1>4, <1>5, <1>6 DEF User

LEMMA StepRespects ==
    ASSUME IInv, [Next]_vars, NEW m \in Mission
    PROVE  Respects(m)
<1>1. CASE UNCHANGED store
    BY <1>1 DEF Respects
<1>2. CASE Observed \/ RunnerReturns \/ PublishFailure
    BY <1>2, TurnsRespect
<1>3. CASE HandleEvent \/ TriggerFires
    BY <1>3, EventsRespect
<1>4. CASE User
    BY <1>4, UserRespects
<1>5. Restart => UNCHANGED store
    BY DEF Restart
<1>6. ASSUME NEW n \in Mission, Visit(n) PROVE UNCHANGED store
    BY <1>6 DEF Visit
<1>7. ObservationChanges \/ ObservationRaises \/ RunnerRaises \/ Sleep \/ TimeOut => UNCHANGED store
    BY DEF ObservationChanges, ObservationRaises, RunnerRaises, Sleep, TimeOut
<1>8. UNCHANGED vars => UNCHANGED store
    BY DEF vars
<1> QED BY <1>1, <1>2, <1>3, <1>4, <1>5, <1>6, <1>7, <1>8 DEF Next, Operator

(* A decision about a mission is undone only by a turn that began before   *)
(* it, a failure still queued, a gap's pause or a voice resume's copy      *)
(* (operator.py run_once, process_event; service.py; voice/service.py).    *)
THEOREM DecisionSticksHolds == Spec => DecisionSticks
<1> DEFINE Step == \A m \in Mission : Respects(m)
<1>1. IInv /\ [Next]_vars => [Step]_vars
    BY StepRespects
<1>2. Spec => [][Step]_vars
    BY <1>1, Invariance, PTL DEF Spec
<1> QED BY <1>2 DEF DecisionSticks, Respects
=============================================================================
