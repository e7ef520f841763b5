------------------------ MODULE RuntimeEventsProofs ------------------------
(***************************************************************************)
(* That nothing is published twice and what the bridge passes over, in     *)
(* RuntimeEvents, for any triggers, capacities and number of restarts.     *)
(***************************************************************************)
EXTENDS RuntimeEvents, FiniteSetTheorems, TLAPS

BridgeOrigin == Nat \X List \X Nat
TimeOrigin == {<<t>> : t \in Timed}
EventOrigin == Reacting \X Nat
Origins == BridgeOrigin \cup TimeOrigin \cup EventOrigin
Types == AgentTypes \cup {"action_recorded", "time_triggered", "mission_triggered"}

Typed ==
    /\ log \in Seq([type : Types, origin : Origins])
    /\ writer \in Task \cup {Nobody}
    /\ queue \in Seq(Nat) /\ putting \in [Task -> Nat]
    /\ records \in [List -> Seq(Types)] /\ offset \in [List -> Nat]
    /\ pump \in [list : List \cup {Nobody}, at : Nat, upto : Nat]
    /\ enabled \subseteq Timed \cup Reacting /\ copies \subseteq Reacting
    /\ handling \in Nat /\ life \in Nat

Distinct == IsFiniteSet(Published) /\ Cardinality(Published) = Len(log)

(* The bridge has been at the first Reached records of a list.             *)
Reached(l) == IF pump.list = l THEN pump.at ELSE offset[l]

Bridged ==
    /\ pump.list = Nobody => pump = Idle
    /\ \A l \in List :
        /\ offset[l] <= Len(records[l])
        /\ pump.list = l =>
            offset[l] <= pump.at /\ pump.at <= pump.upto /\ pump.upto <= Len(records[l])
        /\ \A n, i \in Nat :
            <<n, l, i>> \in Published => n < life \/ (n = life /\ i <= Reached(l))
        /\ \A i \in 1..Reached(l) : <<life, l, i>> \in Published \cup late
        /\ pump.list = l =>
            \A i \in (pump.upto + 1)..Len(records[l]) : <<life, l, i>> \in late

(* An event is in one place on its way to the operator.                    *)
Held(id) == (\E a \in Task : putting[a] = id) \/ (writer # Nobody /\ id = Len(log))
Queued(id) == \E i \in DOMAIN queue : queue[i] = id

OneWay ==
    /\ handling <= Len(log) /\ (handling = 0 => copies = {})
    /\ \A i \in DOMAIN queue : queue[i] \in 1..Len(log) /\ queue[i] # handling
    /\ \A i, j \in DOMAIN queue : queue[i] = queue[j] => i = j
    /\ \A a \in Task : putting[a] # 0 =>
        /\ putting[a] <= Len(log) /\ putting[a] # handling /\ ~Queued(putting[a])
        /\ \A b \in Task : putting[b] = putting[a] => b = a
    /\ writer # Nobody =>
        /\ putting[writer] = 0 /\ Len(log) # handling /\ Len(log) # 0
        /\ ~Queued(Len(log)) /\ \A a \in Task : putting[a] # Len(log)

(* A one-shot trigger that is enabled has not fired; a trigger is answered *)
(* only by the event the operator handles, or has handled.                 *)
Unfired ==
    /\ \A t \in Timed \cap enabled : <<t>> \notin Published
    /\ \A t \in copies : <<t, handling>> \notin Published
    /\ \A t \in Reacting, n \in Nat : <<t, n>> \in Published =>
        n <= Len(log) /\ ~Queued(n) /\ (n # 0 => ~Held(n))

IInv == Typed /\ Distinct /\ Bridged /\ OneWay /\ Unfired

-----------------------------------------------------------------------------
LEMMA Shapes ==
    ASSUME NEW t, NEW u, NEW m, NEW n, NEW l, NEW i
    PROVE  /\ <<t>> # <<u, m>> /\ <<t>> # <<n, l, i>> /\ <<u, m>> # <<n, l, i>>
           /\ \A x : <<t>> = <<x>> => t = x
           /\ \A x, y : <<u, m>> = <<x, y>> => u = x /\ m = y
           /\ \A x, y, z : <<n, l, i>> = <<x, y, z>> => n = x /\ l = y /\ i = z
<1>1. Len(<<t>>) = 1 /\ Len(<<u, m>>) = 2 /\ Len(<<n, l, i>>) = 3
    OBVIOUS
<1>2. <<t>> # <<u, m>> /\ <<t>> # <<n, l, i>> /\ <<u, m>> # <<n, l, i>>
    BY <1>1
<1> QED BY <1>2

(* publish, of an event that was not published yet.                        *)
LEMMA PublishAdds ==
    ASSUME Typed, Distinct, NEW task \in Task, NEW type \in Types, NEW origin \in Origins,
           origin \notin Published, Publish(task, type, origin)
    PROVE  /\ writer = Nobody /\ writer' = task /\ putting[task] = 0
           /\ log' \in Seq([type : Types, origin : Origins]) /\ Len(log') = Len(log) + 1
           /\ Published' = Published \cup {origin}
           /\ Distinct'
           /\ UNCHANGED <<queue, putting>>
<1> DEFINE event == [type |-> type, origin |-> origin]
<1>1. log \in Seq([type : Types, origin : Origins]) /\ event \in [type : Types, origin : Origins]
    BY DEF Typed
<1>2. log' = Append(log, event)
    BY DEF Publish
<1>3. event.origin = origin
    OBVIOUS
<1> HIDE DEF event
<1>4. log' \in Seq([type : Types, origin : Origins]) /\ Len(log') = Len(log) + 1
    BY <1>1, <1>2
<1>5. /\ DOMAIN log' = DOMAIN log \cup {Len(log) + 1}
      /\ \A i \in DOMAIN log : log'[i] = log[i]
      /\ log'[Len(log) + 1] = event
    BY <1>1, <1>2, <1>4
<1>6. Published' = Published \cup {origin}
    BY <1>3, <1>5 DEF Published
<1>7. Distinct'
    BY <1>4, <1>6, FS_AddElement DEF Distinct
<1> QED BY <1>4, <1>6, <1>7 DEF Publish

LEMMA PublishKeepsOneWay ==
    ASSUME IInv, NEW task \in Task, writer = Nobody, writer' = task, putting[task] = 0,
           Len(log') = Len(log) + 1, UNCHANGED <<queue, putting, handling>>, copies' \subseteq copies
    PROVE  OneWay'
<1>1. /\ Len(log) \in Nat /\ handling \in Nat /\ putting \in [Task -> Nat]
      /\ queue \in Seq(Nat)
    BY DEF IInv, Typed
<1>2. handling' <= Len(log') /\ (handling' = 0 => copies' = {})
    BY <1>1 DEF IInv, OneWay
<1>3. \A i \in DOMAIN queue : queue[i] \in 1..Len(log)
    BY DEF IInv, OneWay
<1>4. \A i \in DOMAIN queue' : queue'[i] \in 1..Len(log') /\ queue'[i] # handling'
    BY <1>1, <1>3 DEF IInv, OneWay
<1>5. \A i, j \in DOMAIN queue' : queue'[i] = queue'[j] => i = j
    BY DEF IInv, OneWay
<1>6. ASSUME NEW a \in Task, putting'[a] # 0
      PROVE  /\ putting'[a] <= Len(log') /\ putting'[a] # handling' /\ ~Queued(putting[a])'
             /\ \A b \in Task : putting'[b] = putting'[a] => b = a
    BY <1>1, <1>6 DEF IInv, OneWay, Queued
<1>7. /\ putting'[task] = 0 /\ Len(log') # handling' /\ Len(log') # 0
      /\ ~Queued(Len(log))' /\ \A a \in Task : putting'[a] # Len(log')
    <2>1. handling # Len(log) + 1 /\ ~Queued(Len(log) + 1)
        BY <1>1, <1>3 DEF IInv, OneWay, Queued
    <2>2. \A a \in Task : putting[a] # Len(log) + 1
        BY <1>1 DEF IInv, OneWay
    <2> QED BY <1>1, <2>1, <2>2 DEF Queued
<1> QED BY <1>2, <1>4, <1>5, <1>6, <1>7 DEF OneWay

(* What the bridge does not touch, and no event of its own disturbs.       *)
LEMMA OthersKeepBridged ==
    ASSUME IInv, UNCHANGED <<records, offset, pump, late, life>>,
           Published \subseteq Published',
           \A n, i \in Nat, l \in List : <<n, l, i>> \in Published' => <<n, l, i>> \in Published
    PROVE  Bridged'
<1> SUFFICES ASSUME NEW l \in List
    PROVE  /\ \A n, i \in Nat :
                <<n, l, i>> \in Published' => n < life \/ (n = life /\ i <= Reached(l))
           /\ \A i \in 1..Reached(l) : <<life, l, i>> \in Published' \cup late
    BY DEF IInv, Bridged, Reached
<1> QED BY DEF IInv, Bridged

-----------------------------------------------------------------------------
(* The triggers.                                                           *)
LEMMA TickFiresKeeps ==
    ASSUME IInv, NEW t \in Timed, TickFires(t)
    PROVE  IInv'
<1>1. t \in enabled /\ enabled' = enabled \ {t} /\ Publish("ticker", "time_triggered", <<t>>)
    BY DEF TickFires, SavedAsFired
<1>2. UNCHANGED <<records, offset, pump, late, copies, handling, life>>
    BY DEF TickFires, bridge
<1>3. <<t>> \notin Published /\ <<t>> \in Origins
    BY <1>1 DEF IInv, Unfired, Origins, TimeOrigin
<1>4. /\ writer = Nobody /\ writer' = "ticker" /\ putting["ticker"] = 0
      /\ log' \in Seq([type : Types, origin : Origins]) /\ Len(log') = Len(log) + 1
      /\ Published' = Published \cup {<<t>>}
      /\ Distinct' /\ UNCHANGED <<queue, putting>>
    BY <1>1, <1>3, PublishAdds DEF IInv, Types, Task
<1>5. Typed'
    BY <1>1, <1>2, <1>4 DEF IInv, Typed, Task
<1>6. Bridged'
    BY <1>2, <1>4, Shapes, OthersKeepBridged
<1>7. OneWay'
    BY <1>2, <1>4, PublishKeepsOneWay DEF Task
<1>8. Unfired'
    <2>1. \A u \in Timed \cap enabled' : <<u>> \notin Published'
        BY <1>1, <1>4, Shapes DEF IInv, Unfired
    <2>2. \A u, n : <<u, n>> \in Published' => <<u, n>> \in Published
        BY <1>4, Shapes
    <2>3. ASSUME NEW u \in Reacting, NEW n \in Nat, <<u, n>> \in Published'
          PROVE  n <= Len(log') /\ ~Queued(n)' /\ (n # 0 => ~Held(n)')
        BY <1>4, <2>2, <2>3 DEF IInv, Typed, Unfired, Queued, Held
    <2> QED BY <1>2, <2>1, <2>2, <2>3 DEF IInv, Unfired
<1> QED BY <1>4, <1>5, <1>6, <1>7, <1>8 DEF IInv

LEMMA HandleFiresKeeps ==
    ASSUME IInv, NEW t \in Reacting, HandleFires(t)
    PROVE  IInv'
<1> DEFINE origin == <<t, handling>>
<1>1. /\ t \in copies /\ copies' = copies \ {t}
      /\ enabled' = enabled \cup {t} /\ Publish("operator", "mission_triggered", origin)
    BY KindAssumption DEF HandleFires, SavedAsFired
<1>2. UNCHANGED <<records, offset, pump, late, handling, life>>
    BY DEF HandleFires, bridge
<1>3. origin \notin Published /\ origin \in Origins /\ handling \in Nat /\ handling # 0
    BY <1>1 DEF IInv, Typed, OneWay, Unfired, Origins, EventOrigin
<1>4. /\ writer = Nobody /\ writer' = "operator" /\ putting["operator"] = 0
      /\ log' \in Seq([type : Types, origin : Origins]) /\ Len(log') = Len(log) + 1
      /\ Published' = Published \cup {origin}
      /\ Distinct' /\ UNCHANGED <<queue, putting>>
    BY <1>1, <1>3, PublishAdds DEF IInv, Types, Task
<1>5. Typed'
    BY <1>1, <1>2, <1>4 DEF IInv, Typed, Task
<1>6. Bridged'
    BY <1>2, <1>4, Shapes, OthersKeepBridged
<1>7. OneWay'
    BY <1>1, <1>2, <1>4, PublishKeepsOneWay DEF Task
<1>8. Unfired'
    <2>1. \A u \in Timed \cap enabled' : <<u>> \notin Published'
        <3>1. \A u : <<u>> # origin
            BY Shapes
        <3>2. Timed \cap enabled' \subseteq Timed \cap enabled
            BY <1>1, KindAssumption
        <3> QED BY <1>4, <3>1, <3>2 DEF IInv, Unfired
    <2>2. \A u \in copies' : <<u, handling>> \notin Published'
        BY <1>1, <1>4, Shapes DEF IInv, Unfired
    <2>3. ~Queued(handling) /\ ~Held(handling) /\ handling <= Len(log)
        BY <1>3, <1>4 DEF IInv, Typed, OneWay, Queued, Held
    <2>4. ASSUME NEW u \in Reacting, NEW n \in Nat, <<u, n>> \in Published'
          PROVE  n <= Len(log') /\ ~Queued(n)' /\ (n # 0 => ~Held(n)')
        <3>1. <<u, n>> \in Published \/ n = handling
            BY <1>4, <2>4, Shapes
        <3>2. n <= Len(log) /\ ~Queued(n) /\ (n # 0 => ~Held(n))
            BY <2>3, <3>1 DEF IInv, Unfired
        <3> QED BY <1>4, <3>2 DEF IInv, Typed, Queued, Held
    <2> QED BY <1>2, <2>1, <2>2, <2>4 DEF Unfired
<1> QED BY <1>4, <1>5, <1>6, <1>7, <1>8 DEF IInv

-----------------------------------------------------------------------------
(* The bridge.                                                             *)
LEMMA PumpPublishesKeeps == IInv /\ PumpPublishes => IInv'
<1> SUFFICES ASSUME IInv, PumpPublishes PROVE IInv'
    OBVIOUS
<1> DEFINE l == pump.list
           i == pump.at + 1
           origin == <<life, l, i>>
           type == records[l][i]
<1>1. pump # Idle /\ pump.at < pump.upto /\ Publish("bridge", type, origin)
    BY DEF PumpPublishes
<1>2. UNCHANGED <<records, offset, late, copies, handling, enabled, life>>
    BY DEF PumpPublishes, triggers
<1>3. pump' = [pump EXCEPT !.at = @ + 1]
    BY DEF PumpPublishes
<1>4. l \in List /\ life \in Nat /\ pump.at \in Nat /\ pump.upto \in Nat
    BY <1>1 DEF IInv, Typed, Bridged
<1>5. pump'.list = l /\ pump'.at = i /\ pump'.upto = pump.upto
    BY <1>3 DEF IInv, Typed
<1>6. records[l] \in Seq(Types) /\ pump.upto <= Len(records[l]) /\ offset[l] <= pump.at
    BY <1>4 DEF IInv, Typed, Bridged
<1>7. i \in 1..Len(records[l]) /\ type \in Types
    BY <1>1, <1>4, <1>6
<1>8. origin \notin Published /\ origin \in Origins
    BY <1>4, <1>7 DEF IInv, Bridged, Reached, Origins, BridgeOrigin
<1>9. /\ writer = Nobody /\ writer' = "bridge" /\ putting["bridge"] = 0
      /\ log' \in Seq([type : Types, origin : Origins]) /\ Len(log') = Len(log) + 1
      /\ Published' = Published \cup {origin}
      /\ Distinct' /\ UNCHANGED <<queue, putting>>
    BY <1>1, <1>7, <1>8, PublishAdds DEF IInv, Task
<1>10. Typed'
    <2>1. pump' \in [list : List \cup {Nobody}, at : Nat, upto : Nat]
        <3>1. pump \in [list : List \cup {Nobody}, at : Nat, upto : Nat]
            BY DEF IInv, Typed
        <3>2. pump' = [list |-> pump.list, at |-> pump.at + 1, upto |-> pump.upto]
            BY <1>3, <3>1
        <3> QED BY <1>4, <3>2
    <2> QED BY <1>2, <1>9, <2>1 DEF IInv, Typed, Task
<1>11. Bridged'
    <2>1. pump'.list # Nobody
        BY <1>4, <1>5, NobodyAssumption
    <2>2. ASSUME NEW k \in List
          PROVE  Reached(k)' = IF k = l THEN i ELSE Reached(k)
        BY <1>2, <1>5 DEF Reached
    <2>3. ASSUME NEW k \in List, NEW n \in Nat, NEW j \in Nat, <<n, k, j>> \in Published'
          PROVE  n < life \/ (n = life /\ j <= Reached(k)')
        <3>1. CASE <<n, k, j>> \in Published
            BY <1>4, <2>2, <3>1 DEF IInv, Bridged, Reached
        <3>2. CASE <<n, k, j>> = origin
            BY <1>4, <2>2, <3>2, Shapes
        <3> QED BY <1>9, <2>3, <3>1, <3>2
    <2>4. ASSUME NEW k \in List, NEW j \in 1..Reached(k)'
          PROVE  <<life, k, j>> \in Published' \cup late
        <3>1. j \in 1..Reached(k) \/ (k = l /\ j = i)
            BY <1>4, <2>2, <2>4 DEF Reached, IInv, Typed
        <3> QED BY <1>9, <3>1 DEF IInv, Bridged
    <2>5. ASSUME NEW k \in List
          PROVE  /\ offset[k] <= Len(records[k])
                 /\ pump'.list = k =>
                      /\ offset[k] <= pump'.at /\ pump'.at <= pump'.upto
                      /\ pump'.upto <= Len(records[k])
                      /\ \A j \in (pump'.upto + 1)..Len(records[k]) : <<life, k, j>> \in late
        BY <1>1, <1>4, <1>5, <1>6 DEF IInv, Typed, Bridged
    <2> QED BY <1>2, <2>1, <2>3, <2>4, <2>5 DEF Bridged
<1>12. OneWay'
    BY <1>2, <1>9, PublishKeepsOneWay DEF Task
<1>13. Unfired'
    <2>1. \A u \in Timed \cap enabled' : <<u>> \notin Published'
        BY <1>2, <1>9, Shapes DEF IInv, Unfired
    <2>2. \A u, n : <<u, n>> \in Published' => <<u, n>> \in Published
        BY <1>9, Shapes
    <2>3. ASSUME NEW u \in Reacting, NEW n \in Nat, <<u, n>> \in Published'
          PROVE  n <= Len(log') /\ ~Queued(n)' /\ (n # 0 => ~Held(n)')
        BY <1>9, <2>2, <2>3 DEF IInv, Typed, Unfired, Queued, Held
    <2> QED BY <1>2, <2>1, <2>2, <2>3 DEF IInv, Unfired
<1> QED BY <1>9, <1>10, <1>11, <1>12, <1>13 DEF IInv

(* Where neither an event is recorded nor one moves.                       *)
LEMMA Quiet ==
    ASSUME IInv, UNCHANGED <<log, writer, queue, putting>>
    PROVE  /\ Published' = Published /\ Distinct'
           /\ (UNCHANGED <<enabled, copies, handling>> => OneWay' /\ Unfired')
<1>1. Published' = Published
    BY DEF Published
<1> QED BY <1>1 DEF IInv, Distinct, OneWay, Unfired, Queued, Held

LEMMA RecordedKeeps ==
    ASSUME IInv, NEW l \in List, Recorded(l)
    PROVE  IInv'
<1>1. UNCHANGED <<log, writer, queue, putting, enabled, copies, handling, offset, pump, life>>
    BY DEF Recorded, bus, triggers
<1>2. Published' = Published /\ Distinct' /\ OneWay' /\ Unfired'
    BY <1>1, Quiet
<1>3. PICK type \in RecordType(l) : records' = [records EXCEPT ![l] = Append(@, type)]
    BY DEF Recorded
<1>4. type \in Types
    BY <1>3 DEF RecordType, Types
<1>5. records \in [List -> Seq(Types)] /\ records[l] \in Seq(Types)
    BY DEF IInv, Typed
<1>6. /\ records' \in [List -> Seq(Types)]
      /\ \A k \in List : Len(records'[k]) = IF k = l THEN Len(records[l]) + 1 ELSE Len(records[k])
    BY <1>3, <1>4, <1>5
<1>7. Typed'
    BY <1>1, <1>6 DEF IInv, Typed
<1>8. late \subseteq late' /\ (pump.list = l => <<life, l, Len(records[l]) + 1>> \in late')
    BY <1>6 DEF Recorded
<1>9. Bridged'
    <2>1. \A k \in List : Reached(k)' = Reached(k)
        BY <1>1 DEF Reached
    <2>2. ASSUME NEW k \in List
          PROVE  /\ offset[k] <= Len(records'[k])
                 /\ pump.list = k =>
                      offset[k] <= pump.at /\ pump.at <= pump.upto /\ pump.upto <= Len(records'[k])
        BY <1>5, <1>6 DEF IInv, Typed, Bridged
    <2>3. ASSUME NEW k \in List, pump.list = k, NEW j \in (pump.upto + 1)..Len(records'[k])
          PROVE  <<life, k, j>> \in late'
        <3>1. j \in (pump.upto + 1)..Len(records[k]) \/ (k = l /\ j = Len(records[l]) + 1)
            BY <1>5, <1>6, <2>3 DEF IInv, Typed
        <3> QED BY <1>8, <2>3, <3>1 DEF IInv, Bridged
    <2>4. ASSUME NEW k \in List
          PROVE  /\ \A n, i \in Nat :
                      <<n, k, i>> \in Published => n < life \/ (n = life /\ i <= Reached(k))
                 /\ \A i \in 1..Reached(k) : <<life, k, i>> \in Published \cup late'
        BY <1>8 DEF IInv, Bridged
    <2>5. pump.list = Nobody => pump = Idle
        BY DEF IInv, Bridged
    <2> QED BY <1>1, <1>2, <2>1, <2>2, <2>3, <2>4, <2>5 DEF Bridged
<1> QED BY <1>2, <1>7, <1>9 DEF IInv

LEMMA SliceIsTyped ==
    ASSUME Typed, NEW l \in List
    PROVE  /\ Slice(l) \in [list : List \cup {Nobody}, at : Nat, upto : Nat]
           /\ Slice(l).list = l /\ Slice(l).at = offset[l] /\ Slice(l).upto = Len(records[l])
<1>1. offset[l] \in Nat /\ records[l] \in Seq(Types)
    BY DEF Typed
<1> QED BY <1>1 DEF Slice

LEMMA PumpStartsKeeps == IInv /\ PumpStarts => IInv'
<1> SUFFICES ASSUME IInv, PumpStarts PROVE IInv'
    OBVIOUS
<1>1. /\ pump = Idle
      /\ UNCHANGED <<log, writer, queue, putting, enabled, copies, handling, records, offset,
                     late, life>>
    BY DEF PumpStarts, bus, triggers
<1>2. PICK l \in List : pump' = Slice(l)
    BY DEF PumpStarts, List
<1>3. Published' = Published /\ Distinct' /\ OneWay' /\ Unfired'
    BY <1>1, Quiet
<1>4. /\ pump' \in [list : List \cup {Nobody}, at : Nat, upto : Nat]
      /\ pump'.list = l /\ pump'.at = offset[l] /\ pump'.upto = Len(records[l])
    BY <1>2, SliceIsTyped DEF IInv
<1>5. Typed'
    BY <1>1, <1>4 DEF IInv, Typed
<1>6. Bridged'
    <2>1. \A k \in List : Reached(k)' = offset[k] /\ Reached(k) = offset[k]
        BY <1>1, <1>4, NobodyAssumption DEF Reached, Idle
    <2>2. \A k \in List : offset[k] \in Nat /\ Len(records[k]) \in Nat /\ offset[k] <= Len(records[k])
        BY DEF IInv, Typed, Bridged
    <2>3. pump'.list # Nobody
        BY <1>4, NobodyAssumption
    <2>4. \A j \in (Len(records[l]) + 1)..Len(records[l]) : FALSE
        BY <2>2
    <2> QED BY <1>1, <1>3, <1>4, <2>1, <2>2, <2>3, <2>4 DEF IInv, Bridged
<1> QED BY <1>3, <1>5, <1>6 DEF IInv

LEMMA PumpFinishesKeeps == IInv /\ PumpFinishes => IInv'
<1> SUFFICES ASSUME IInv, PumpFinishes PROVE IInv'
    OBVIOUS
<1>0. PICK l \in List : pump.list = l
    BY DEF PumpFinishes, IInv, Typed, Bridged
<1>1. /\ pump.at = pump.upto
      /\ offset' = [offset EXCEPT ![l] = Len(records[l])]
      /\ pump' = Idle \/ (l = "agents" /\ pump' = Slice("actions"))
      /\ UNCHANGED <<log, writer, queue, putting, enabled, copies, handling, records, late, life>>
    BY <1>0 DEF PumpFinishes, EndOfPass, bus, triggers
<1>2. Published' = Published /\ Distinct' /\ OneWay' /\ Unfired'
    BY <1>1, Quiet
<1>3. /\ pump.at \in Nat /\ pump.upto \in Nat /\ life \in Nat
      /\ offset \in [List -> Nat] /\ \A k \in List : Len(records[k]) \in Nat
    BY DEF IInv, Typed
<1>4. /\ offset' \in [List -> Nat]
      /\ \A k \in List : offset'[k] = IF k = l THEN Len(records[l]) ELSE offset[k]
    BY <1>1, <1>3
<1>5. /\ pump' \in [list : List \cup {Nobody}, at : Nat, upto : Nat]
      /\ pump'.list = Nobody => pump' = Idle
      /\ \A k \in List : pump'.list = k =>
            k # l /\ pump'.at = offset[k] /\ pump'.upto = Len(records[k])
    <2>1. CASE pump' = Idle
        BY <2>1, NobodyAssumption DEF Idle
    <2>2. CASE l = "agents" /\ pump' = Slice("actions")
        BY <2>2, SliceIsTyped, NobodyAssumption DEF IInv, List
    <2> QED BY <1>1, <2>1, <2>2
<1>6. Typed'
    BY <1>1, <1>4, <1>5 DEF IInv, Typed
<1>7. Bridged'
    <2>1. \A k \in List : Reached(k)' = offset'[k]
        BY <1>4, <1>5 DEF Reached
    <2>2. \A k \in List \ {l} : Reached(k)' = Reached(k)
        BY <1>0, <1>4, <2>1 DEF Reached
    <2>3. Reached(l) = pump.at /\ pump.at <= Len(records[l]) /\ Reached(l)' = Len(records[l])
        <3>1. Reached(l) = pump.at
            BY <1>0 DEF Reached
        <3>2. pump.at <= pump.upto /\ pump.upto <= Len(records[l])
            BY <1>0 DEF IInv, Bridged
        <3>3. offset'[l] = Len(records[l])
            BY <1>3, <1>4
        <3>4. Len(records[l]) \in Nat
            BY <1>3
        <3> QED BY <1>1, <1>3, <2>1, <3>1, <3>2, <3>3, <3>4
    <2>4. ASSUME NEW k \in List, NEW n \in Nat, NEW i \in Nat, <<n, k, i>> \in Published
          PROVE  n < life \/ (n = life /\ i <= Reached(k)')
        <3>1. n < life \/ (n = life /\ i <= Reached(k))
            BY <2>4 DEF IInv, Bridged
        <3>2. CASE k # l
            BY <2>2, <3>1, <3>2
        <3>3. CASE k = l
            <4>1. i <= pump.at => i <= Len(records[l])
                BY <1>3, <2>3
            <4> QED BY <2>3, <3>1, <3>3, <4>1
        <3> QED BY <3>2, <3>3
    <2>5. ASSUME NEW k \in List, NEW i \in 1..Reached(k)'
          PROVE  <<life, k, i>> \in Published \cup late
        <3>1. CASE k # l
            BY <2>2, <2>5, <3>1 DEF IInv, Bridged
        <3>2. CASE k = l
            <4>1. i \in 1..pump.at \/ i \in (pump.upto + 1)..Len(records[l])
                <5>1. i \in 1..Len(records[l]) /\ Len(records[l]) \in Nat
                    BY <1>3, <2>3, <2>5, <3>2
                <5> QED BY <1>1, <1>3, <5>1
            <4>2. \A j \in 1..pump.at : <<life, l, j>> \in Published \cup late
                BY <1>0, <2>3 DEF IInv, Bridged
            <4>3. \A j \in (pump.upto + 1)..Len(records[l]) : <<life, l, j>> \in late
                BY <1>0 DEF IInv, Bridged
            <4> QED BY <3>2, <4>1, <4>2, <4>3
        <3> QED BY <3>1, <3>2
    <2>6. ASSUME NEW k \in List
          PROVE  /\ offset'[k] <= Len(records[k])
                 /\ pump'.list = k =>
                      /\ offset'[k] <= pump'.at /\ pump'.at <= pump'.upto
                      /\ pump'.upto <= Len(records[k])
                      /\ \A i \in (pump'.upto + 1)..Len(records[k]) : <<life, k, i>> \in late
        BY <1>3, <1>4, <1>5 DEF IInv, Bridged
    <2> QED BY <1>1, <1>2, <1>5, <2>4, <2>5, <2>6 DEF Bridged
<1> QED BY <1>2, <1>6, <1>7 DEF IInv

-----------------------------------------------------------------------------
(* An event on its way.                                                    *)
LEMMA StoreKeeps == IInv /\ Store => IInv'
<1> SUFFICES ASSUME IInv, Store PROVE IInv'
    OBVIOUS
<1>1. /\ writer # Nobody /\ writer' = Nobody /\ putting' = [putting EXCEPT ![writer] = Len(log)]
      /\ UNCHANGED <<log, queue, records, offset, pump, late, enabled, copies, handling, life>>
    BY DEF Store, bridge, triggers
<1>2. writer \in Task /\ Len(log) \in Nat /\ putting \in [Task -> Nat]
    BY <1>1 DEF IInv, Typed
<1>3. /\ putting' \in [Task -> Nat]
      /\ \A a \in Task : putting'[a] = IF a = writer THEN Len(log) ELSE putting[a]
    BY <1>1, <1>2
<1>4. Published' = Published
    BY <1>1 DEF Published
<1>5. Typed'
    BY <1>1, <1>3 DEF IInv, Typed
<1>6. Distinct' /\ Bridged'
    BY <1>1, <1>4, OthersKeepBridged DEF IInv, Distinct
<1>7. OneWay'
    BY <1>1, <1>2, <1>3 DEF IInv, OneWay, Queued
<1>8. \A n : Held(n)' => Held(n)
    BY <1>1, <1>3 DEF Held
<1>9. Unfired'
    BY <1>1, <1>4, <1>8 DEF IInv, Unfired, Queued
<1> QED BY <1>5, <1>6, <1>7, <1>9 DEF IInv

LEMMA PutKeeps ==
    ASSUME IInv, NEW task \in Task, Put(task)
    PROVE  IInv'
<1> DEFINE id == putting[task]
<1>1. /\ id # 0 /\ queue' = Append(queue, id) /\ putting' = [putting EXCEPT ![task] = 0]
      /\ UNCHANGED <<log, writer, records, offset, pump, late, enabled, copies, handling, life>>
    BY DEF Put, bridge, triggers
<1>2. id \in Nat /\ putting \in [Task -> Nat] /\ queue \in Seq(Nat) /\ Len(log) \in Nat
    BY DEF IInv, Typed
<1>3. /\ putting' \in [Task -> Nat]
      /\ \A a \in Task : putting'[a] = IF a = task THEN 0 ELSE putting[a]
    BY <1>1, <1>2
<1>4. /\ queue' \in Seq(Nat) /\ DOMAIN queue' = DOMAIN queue \cup {Len(queue) + 1}
      /\ Len(queue) + 1 \notin DOMAIN queue
      /\ \A i \in DOMAIN queue : queue'[i] = queue[i]
      /\ queue'[Len(queue) + 1] = id
    BY <1>1, <1>2
<1>5. /\ id <= Len(log) /\ id # handling /\ ~Queued(id)
      /\ \A b \in Task : putting[b] = id => b = task
    BY <1>1 DEF IInv, OneWay
<1>6. \A n : Queued(n)' <=> Queued(n) \/ n = id
    BY <1>4 DEF Queued
<1>7. Published' = Published
    BY <1>1 DEF Published
<1>8. Typed'
    BY <1>1, <1>3, <1>4 DEF IInv, Typed
<1>9. Distinct' /\ Bridged'
    BY <1>1, <1>7, OthersKeepBridged DEF IInv, Distinct
<1>10. OneWay'
    <2>1. handling <= Len(log) /\ (handling = 0 => copies = {})
        BY DEF IInv, OneWay
    <2>2. \A i \in DOMAIN queue' : queue'[i] \in 1..Len(log) /\ queue'[i] # handling
        BY <1>1, <1>2, <1>4, <1>5 DEF IInv, OneWay
    <2>3. \A i, j \in DOMAIN queue' : queue'[i] = queue'[j] => i = j
        BY <1>4, <1>5 DEF IInv, OneWay, Queued
    <2>4. ASSUME NEW a \in Task, putting'[a] # 0
          PROVE  /\ putting'[a] <= Len(log) /\ putting'[a] # handling /\ ~Queued(putting[a])'
                 /\ \A b \in Task : putting'[b] = putting'[a] => b = a
        <3>1. a # task /\ putting'[a] = putting[a] /\ putting[a] # id
            BY <1>3, <1>5, <2>4
        <3>2. /\ putting[a] <= Len(log) /\ putting[a] # handling /\ ~Queued(putting[a])
              /\ \A b \in Task : putting[b] = putting[a] => b = a
            BY <2>4, <3>1 DEF IInv, OneWay
        <3>3. \A i \in DOMAIN queue' : queue'[i] # putting[a]
            BY <1>4, <3>1, <3>2 DEF Queued
        <3>4. \A b \in Task : putting'[b] = putting'[a] => b = a
            BY <1>3, <2>4, <3>1, <3>2
        <3> QED BY <3>1, <3>2, <3>3, <3>4 DEF Queued
    <2>5. writer # Nobody =>
            /\ putting'[writer] = 0 /\ Len(log) # handling /\ Len(log) # 0
            /\ ~Queued(Len(log))' /\ \A a \in Task : putting'[a] # Len(log)
        <3> SUFFICES ASSUME writer # Nobody
            PROVE  /\ putting'[writer] = 0 /\ Len(log) # handling /\ Len(log) # 0
                   /\ ~Queued(Len(log))' /\ \A a \in Task : putting'[a] # Len(log)
            OBVIOUS
        <3>1. /\ writer \in Task /\ putting[writer] = 0 /\ Len(log) # handling /\ Len(log) # 0
              /\ ~Queued(Len(log)) /\ \A a \in Task : putting[a] # Len(log)
            BY DEF IInv, Typed, OneWay
        <3>2. ~Queued(Len(log))'
            BY <1>1, <1>4, <3>1 DEF Queued
        <3> QED BY <1>3, <3>1, <3>2
    <2> QED BY <1>1, <2>1, <2>2, <2>3, <2>4, <2>5 DEF OneWay, Queued
<1>11. Unfired'
    <2> SUFFICES ASSUME NEW t \in Reacting, NEW n \in Nat, <<t, n>> \in Published
        PROVE  n <= Len(log) /\ ~Queued(n)' /\ (n # 0 => ~Held(n)')
        BY <1>1, <1>7 DEF IInv, Unfired
    <2>1. n <= Len(log) /\ ~Queued(n) /\ (n # 0 => ~Held(n))
        BY DEF IInv, Unfired
    <2>2. n # id
        BY <1>1, <2>1 DEF Held
    <2> QED BY <1>1, <1>3, <1>4, <2>1, <2>2 DEF Held, Queued
<1> QED BY <1>8, <1>9, <1>10, <1>11 DEF IInv

LEMMA TakesKeeps == IInv /\ Takes => IInv'
<1> SUFFICES ASSUME IInv, Takes PROVE IInv'
    OBVIOUS
<1>1. /\ handling = 0 /\ writer = Nobody /\ queue # <<>>
      /\ handling' = Head(queue) /\ queue' = Tail(queue)
      /\ copies' \subseteq Reacting
      /\ UNCHANGED <<log, writer, putting, records, offset, pump, late, enabled, life>>
    BY DEF Takes, Ready, bridge
<1>2. queue \in Seq(Nat) /\ Len(log) \in Nat /\ putting \in [Task -> Nat]
    BY DEF IInv, Typed
<1>3. /\ Len(queue) \in Nat \ {0} /\ 1 \in DOMAIN queue /\ handling' = queue[1]
      /\ queue' \in Seq(Nat) /\ DOMAIN queue' = 1..(Len(queue) - 1)
      /\ \A i \in DOMAIN queue' : i + 1 \in DOMAIN queue /\ i + 1 # 1 /\ queue'[i] = queue[i + 1]
    BY <1>1, <1>2
<1>4. Published' = Published
    BY <1>1 DEF Published
<1>5. Typed'
    BY <1>1, <1>2, <1>3 DEF IInv, Typed
<1>6. Distinct' /\ Bridged'
    BY <1>1, <1>4, OthersKeepBridged DEF IInv, Distinct
<1>7. \A n : Queued(n)' => Queued(n)
    BY <1>3 DEF Queued
<1>8. handling' \in 1..Len(log) /\ Queued(handling')
    BY <1>3 DEF IInv, OneWay, Queued
<1>9. OneWay'
    <2>1. \A i \in DOMAIN queue' : queue'[i] \in 1..Len(log) /\ queue'[i] # handling'
        BY <1>3 DEF IInv, OneWay
    <2>2. \A i, j \in DOMAIN queue' : queue'[i] = queue'[j] => i = j
        <3> SUFFICES ASSUME NEW i \in DOMAIN queue', NEW j \in DOMAIN queue', queue'[i] = queue'[j]
            PROVE  i = j
            OBVIOUS
        <3>1. i + 1 = j + 1
            BY <1>3 DEF IInv, OneWay
        <3> QED BY <1>3, <3>1
    <2>3. ASSUME NEW a \in Task, putting[a] # 0
          PROVE  /\ putting[a] <= Len(log) /\ putting[a] # handling' /\ ~Queued(putting[a])'
                 /\ \A b \in Task : putting[b] = putting[a] => b = a
        <3>1. ~Queued(putting[a])
            BY <2>3 DEF IInv, OneWay
        <3> QED BY <1>1, <1>3, <1>8, <2>3, <3>1 DEF IInv, OneWay, Queued
    <2> QED BY <1>1, <1>2, <1>8, <2>1, <2>2, <2>3 DEF OneWay
<1>10. Unfired'
    <2>1. \A t \in copies' : <<t, handling'>> \notin Published
        BY <1>1, <1>2, <1>8 DEF IInv, Unfired
    <2> QED BY <1>1, <1>4, <1>7, <2>1 DEF IInv, Unfired, Held
<1> QED BY <1>5, <1>6, <1>9, <1>10 DEF IInv

LEMMA RefusedOrHandledKeeps ==
    ASSUME IInv, (\E t \in Reacting : Refused(t)) \/ Handled
    PROVE  IInv'
<1>1. /\ UNCHANGED <<log, writer, queue, putting, records, offset, pump, late, enabled, life>>
      /\ copies' \subseteq copies
      /\ handling' = handling \/ (handling' = 0 /\ copies' = {} /\ writer = Nobody)
    BY DEF Refused, Handled, Ready, bus, bridge
<1>2. Published' = Published /\ Distinct'
    BY <1>1, Quiet
<1>3. Typed'
    BY <1>1 DEF IInv, Typed
<1>4. Bridged'
    BY <1>1, <1>2, OthersKeepBridged
<1>5. OneWay'
    BY <1>1 DEF IInv, Typed, OneWay, Queued
<1>6. Unfired'
    BY <1>1, <1>2 DEF IInv, Unfired, Queued, Held
<1> QED BY <1>2, <1>3, <1>4, <1>5, <1>6 DEF IInv

LEMMA RestartKeeps == IInv /\ Restart => IInv'
<1> SUFFICES ASSUME IInv, Restart PROVE IInv'
    OBVIOUS
<1>1. /\ life' = life + 1 /\ writer' = Nobody /\ queue' = <<>>
      /\ putting' = [t \in Task |-> 0] /\ records' = [k \in List |-> <<>>]
      /\ offset' = [k \in List |-> 0] /\ pump' = Idle /\ copies' = {} /\ handling' = 0
      /\ UNCHANGED <<log, enabled, late>>
    BY DEF Restart
<1>2. Published' = Published
    BY <1>1 DEF Published
<1>3. life \in Nat /\ Len(log) \in Nat
    BY DEF IInv, Typed
<1>4. Typed'
    BY <1>1 DEF IInv, Typed, Idle
<1>5. Distinct'
    BY <1>1, <1>2 DEF IInv, Distinct
<1>6. Bridged'
    <2>1. \A k \in List : pump'.list # k /\ Reached(k)' = 0 /\ offset'[k] = 0 /\ Len(records'[k]) = 0
        BY <1>1, NobodyAssumption DEF Reached, Idle
    <2>2. ASSUME NEW k \in List, NEW n \in Nat, NEW i \in Nat, <<n, k, i>> \in Published
          PROVE  n < life + 1
        BY <1>3, <2>2 DEF IInv, Bridged
    <2> QED BY <1>1, <1>2, <2>1, <2>2 DEF Bridged
<1>7. OneWay'
    BY <1>1, <1>3 DEF OneWay
<1>8. Unfired'
    BY <1>1, <1>2 DEF IInv, Unfired, Queued, Held
<1> QED BY <1>4, <1>5, <1>6, <1>7, <1>8 DEF IInv

LEMMA Elsewhere ==
    ASSUME IInv, UNCHANGED <<log, writer, queue, putting, bridge, triggers, life>>
    PROVE  IInv'
<1>1. UNCHANGED <<records, offset, pump, late, enabled, copies, handling>>
    BY DEF bridge, triggers
<1>2. Published' = Published /\ Distinct' /\ OneWay' /\ Unfired'
    BY <1>1, Quiet
<1>3. Typed'
    BY <1>1 DEF IInv, Typed
<1>4. Bridged'
    BY <1>1, <1>2, OthersKeepBridged
<1> QED BY <1>2, <1>3, <1>4 DEF IInv

LEMMA NextKeeps == IInv /\ [Next]_vars => IInv'
<1> SUFFICES ASSUME IInv, [Next]_vars PROVE IInv'
    OBVIOUS
<1>1. CASE Bridge
    BY <1>1, RecordedKeeps, PumpStartsKeeps, PumpPublishesKeeps, PumpFinishesKeeps DEF Bridge
<1>2. CASE Bus
    BY <1>2, StoreKeeps, PutKeeps DEF Bus
<1>3. CASE Triggers
    BY <1>3, TickFiresKeeps, HandleFiresKeeps, TakesKeeps, RefusedOrHandledKeeps DEF Triggers
<1>4. CASE Page
    BY <1>4, Elsewhere DEF Page, Follows, Refreshes, bus
<1>5. CASE Restart
    BY <1>5, RestartKeeps
<1>6. CASE UNCHANGED vars
    BY <1>6, Elsewhere DEF vars, bus
<1> QED BY <1>1, <1>2, <1>3, <1>4, <1>5, <1>6 DEF Next

LEMMA Initially == Init => IInv
<1> SUFFICES ASSUME Init PROVE IInv
    OBVIOUS
<1>1. log = <<>> /\ Published = {}
    BY DEF Init, Published
<1>2. Typed
    BY DEF Init, Typed, Idle
<1>3. Distinct
    BY <1>1, FS_EmptySet DEF Distinct
<1>4. Bridged
    BY <1>1 DEF Init, Bridged, Reached, Idle
<1>5. OneWay /\ Unfired
    BY <1>1 DEF Init, OneWay, Unfired
<1> QED BY <1>2, <1>3, <1>4, <1>5 DEF IInv

(* Over crashes, full queues and concurrent publishers nothing is          *)
(* published twice, and the bridge passes over no record except those that *)
(* were appended while it awaited a publish of the same list               *)
(* (runtime_bridge.py _publish_agents, triggers.py _fire).                 *)
THEOREM ToldOnceHolds == Spec => []ToldOnce
<1>1. IInv => ToldOnce
    <2> SUFFICES ASSUME IInv PROVE ToldOnce
        OBVIOUS
    <2>1. ASSUME NEW l \in List, NEW i \in 1..offset[l] PROVE i \in 1..Reached(l)
        BY <2>1 DEF IInv, Typed, Bridged, Reached
    <2> QED BY <2>1 DEF IInv, Distinct, Bridged, ToldOnce
<1> QED BY <1>1, Initially, NextKeeps, PTL DEF Spec
=============================================================================
