------------------------ MODULE ResourceLocksProofs ------------------------
(***************************************************************************)
(* Proofs about ResourceLocks, for any contexts, agents and resources.     *)
(*                                                                         *)
(* The inductive invariant says, beside the types: the contexts queued for *)
(* a lock are waiting, for the first resource they miss, and each is       *)
(* queued once; what a context holds comes before everything it misses;    *)
(* and until a forced release what is held is locked, owned and held once. *)
(***************************************************************************)
EXTENDS ResourceLocks, SequenceTheorems, TLAPS

Queued ==
    /\ \A r \in Resource : \A i \in 1..Len(waiters[r]) :
        pc[waiters[r][i]] = "wait" /\ InOrder(waiters[r][i], r)
    /\ \A r \in Resource : \A i, j \in 1..Len(waiters[r]) :
        waiters[r][i] = waiters[r][j] => i = j

Climbs == \A c \in Context : \A r \in held[c] : \A s \in Missing(c) : Order[r] < Order[s]

OwnerHolds == \A r \in Resource : owner[r] # None =>
    \E c \in Context : AgentOf[c] = owner[r] /\ r \in held[c]

HeldOnce == ~forced =>
    /\ \A c \in Context : \A r \in held[c] : locked[r] /\ owner[r] = AgentOf[c]
    /\ \A c, d \in Context : c # d => held[c] \cap held[d] = {}
    /\ \A r \in Resource : locked[r] <=> owner[r] # None

IInv == TypeOK /\ Queued /\ Climbs /\ OwnerHolds /\ HeldOnce

-----------------------------------------------------------------------------
(* What the three operations on a list of waiters return.                  *)
LEMMA AppendIndex ==
    ASSUME NEW S, NEW q \in Seq(S), NEW e \in S
    PROVE  /\ Append(q, e) \in Seq(S)
           /\ Len(Append(q, e)) = Len(q) + 1
           /\ \A i \in 1..Len(q) : Append(q, e)[i] = q[i]
           /\ Append(q, e)[Len(q) + 1] = e
  OBVIOUS

LEMMA TailIndex ==
    ASSUME NEW S, NEW q \in Seq(S), q # <<>>
    PROVE  /\ Tail(q) \in Seq(S)
           /\ Len(Tail(q)) = Len(q) - 1
           /\ \A i \in 1..Len(Tail(q)) : Tail(q)[i] = q[i + 1]
           /\ Head(q) = q[1] /\ 1 \in 1..Len(q)
  OBVIOUS

LEMMA RemoveIndex ==
    ASSUME NEW S, NEW q \in Seq(S), NEW k \in 1..Len(q)
    PROVE  /\ RemoveAt(q, k) \in Seq(S)
           /\ Len(RemoveAt(q, k)) = Len(q) - 1
           /\ \A i \in 1..Len(RemoveAt(q, k)) :
                RemoveAt(q, k)[i] = q[IF i < k THEN i ELSE i + 1]
  <1> DEFINE a == SubSeq(q, 1, k - 1)
             b == SubSeq(q, k + 1, Len(q))
  <1>1. a \in Seq(S) /\ Len(a) = k - 1 /\ \A i \in 1..(k - 1) : a[i] = q[i]
    <2>1. \A i \in 1..(k - 1) : q[i] \in S
      OBVIOUS
    <2> QED BY <2>1, SubSeqProperties
  <1>2. /\ b \in Seq(S) /\ Len(b) = Len(q) - k
        /\ \A i \in 1..(Len(q) - k) : b[i] = q[k + i]
    <2>1. \A i \in (k + 1)..Len(q) : q[i] \in S
      OBVIOUS
    <2> QED BY <2>1, SubSeqProperties
  <1>3. RemoveAt(q, k) = a \o b
    BY DEF RemoveAt
  <1>4. /\ a \o b \in Seq(S) /\ Len(a \o b) = Len(q) - 1
        /\ \A i \in 1..(Len(q) - 1) :
            (a \o b)[i] = IF i <= Len(a) THEN a[i] ELSE b[i - Len(a)]
    <2> HIDE DEF a, b
    <2> QED BY <1>1, <1>2, ConcatProperties
  <1>5. \A i \in 1..(Len(q) - 1) : (a \o b)[i] = q[IF i < k THEN i ELSE i + 1]
    <2> HIDE DEF a, b
    <2> TAKE i \in 1..(Len(q) - 1)
    <2>1. CASE i < k
      BY <2>1, <1>1, <1>4
    <2>2. CASE ~(i < k)
      <3>1. i - (k - 1) \in 1..(Len(q) - k) /\ k + (i - (k - 1)) = i + 1
        BY <2>2
      <3>2. (a \o b)[i] = b[i - (k - 1)]
        BY <2>2, <1>1, <1>4
      <3> QED BY <2>2, <3>1, <3>2, <1>2
    <2> QED BY <2>1, <2>2
  <1> HIDE DEF a, b
  <1> QED BY <1>3, <1>4, <1>5

LEMMA InitInv == Init => IInv
  <1> SUFFICES ASSUME Init PROVE IInv
    OBVIOUS
  <1> USE DEF Init
  <1>1. TypeOK
    <2>1. <<>> \in Seq(Context)
      OBVIOUS
    <2> QED BY <2>1 DEF TypeOK
  <1>2. Queued
    <2>1. \A r \in Resource : waiters[r] = <<>>
      OBVIOUS
    <2> QED BY <2>1 DEF Queued
  <1>3. Climbs /\ OwnerHolds /\ HeldOnce
    BY DEF Climbs, OwnerHolds, HeldOnce
  <1> QED BY <1>1, <1>2, <1>3 DEF IInv

-----------------------------------------------------------------------------
(* The first missing resource is unique: no context is in two queues.      *)
LEMMA FirstMissingUnique ==
    ASSUME TypeOK, NEW c \in Context, NEW r \in Resource, NEW s \in Resource,
           InOrder(c, r), InOrder(c, s)
    PROVE  r = s
  BY OrderAssumption, WantedAssumption DEF InOrder, Missing, TypeOK

(* A context that is not waiting can change its part of the state without  *)
(* disturbing the queues.                                                  *)
LEMMA QueueFrame ==
    ASSUME TypeOK, Queued, UNCHANGED waiters,
           \A c \in Context : pc[c] = "wait" => pc'[c] = "wait" /\ held'[c] = held[c]
    PROVE  Queued'
  <1>1. \A r \in Resource : \A i \in 1..Len(waiters[r]) : waiters[r][i] \in Context
    BY DEF TypeOK
  <1> QED BY <1>1 DEF Queued, InOrder, Missing

(* Taking the first missing resource, free of other holders.               *)
LEMMA TakeInv ==
    ASSUME IInv, NEW c \in Context, NEW r \in Resource, InOrder(c, r), ~locked[r],
           Take(c, r), forced' = forced
    PROVE  Climbs' /\ OwnerHolds' /\ HeldOnce'
  <1> USE DEF IInv, Take
  <1>1. r \in Wanted[c] \ held[c]
    BY DEF InOrder, Missing
  <1>2. Climbs'
    <2> SUFFICES ASSUME NEW d \in Context, NEW s \in held'[d], NEW t \in Missing(d)'
                 PROVE  Order[s] < Order[t]
      BY DEF Climbs
    <2>1. s \in Resource /\ t \in Resource /\ Order[s] \in Int /\ Order[t] \in Int
      BY OrderAssumption, WantedAssumption, <1>1 DEF TypeOK, Missing
    <2>2. CASE d # c
      BY <2>2 DEF Climbs, Missing, TypeOK
    <2>3. CASE d = c /\ s # r
      BY <2>3 DEF Climbs, Missing, TypeOK
    <2>4. CASE d = c /\ s = r
      <3>1. t \in Missing(c) /\ t # r
        BY <2>4 DEF Missing, TypeOK
      <3>2. Order[r] <= Order[t] /\ Order[r] # Order[t]
        BY <3>1, <2>1, <2>4, OrderAssumption DEF InOrder
      <3> QED BY <3>2, <2>1, <2>4
    <2> QED BY <2>2, <2>3, <2>4
  <1>3. OwnerHolds'
    <2> SUFFICES ASSUME NEW s \in Resource, owner'[s] # None
                 PROVE  \E d \in Context : AgentOf[d] = owner'[s] /\ s \in held'[d]
      BY DEF OwnerHolds
    <2>1. CASE s = r
      BY <2>1 DEF TypeOK
    <2>2. CASE s # r
      <3>1. PICK d \in Context : AgentOf[d] = owner[s] /\ s \in held[d]
        BY <2>2 DEF OwnerHolds, TypeOK
      <3> QED BY <3>1, <2>2 DEF TypeOK
    <2> QED BY <2>1, <2>2
  <1>4. HeldOnce'
    <2> SUFFICES ASSUME ~forced PROVE HeldOnce'
      BY DEF HeldOnce
    <2>1. \A d \in Context : r \notin held[d]
      BY DEF HeldOnce
    <2>2. \A d \in Context : \A s \in held'[d] : locked'[s] /\ owner'[s] = AgentOf[d]
      BY <2>1 DEF HeldOnce, TypeOK
    <2>3. \A d, e \in Context : d # e => held'[d] \cap held'[e] = {}
      BY <2>1 DEF HeldOnce, TypeOK
    <2>4. \A s \in Resource : locked'[s] <=> owner'[s] # None
      <3> TAKE s \in Resource
      <3>1. CASE s = r
        <4>1. locked'[s] = TRUE /\ owner'[s] = AgentOf[c]
          BY <3>1 DEF TypeOK
        <4> QED BY <4>1, AgentAssumption
      <3>2. CASE s # r
        <4>1. locked'[s] = locked[s] /\ owner'[s] = owner[s]
          BY <3>2 DEF TypeOK
        <4> QED BY <4>1 DEF HeldOnce
      <3> QED BY <3>1, <3>2
    <2> QED BY <2>2, <2>3, <2>4 DEF HeldOnce
  <1> QED BY <1>2, <1>3, <1>4

(* Releasing everything a context holds.                                   *)
LEMMA ReleaseInv ==
    ASSUME IInv, NEW c \in Context, ReleaseHeld(c), forced' = forced
    PROVE  Climbs' /\ OwnerHolds' /\ HeldOnce'
  <1> USE DEF IInv, ReleaseHeld
  <1>1. Climbs'
    BY DEF Climbs, Missing, TypeOK
  <1>2. OwnerHolds'
    <2> SUFFICES ASSUME NEW s \in Resource, owner'[s] # None
                 PROVE  \E d \in Context : AgentOf[d] = owner'[s] /\ s \in held'[d]
      BY DEF OwnerHolds
    <2>1. owner'[s] = owner[s] /\ ~(s \in held[c] /\ owner[s] = AgentOf[c])
      BY DEF TypeOK
    <2>2. PICK d \in Context : AgentOf[d] = owner[s] /\ s \in held[d]
      BY <2>1 DEF OwnerHolds
    <2>3. d # c
      BY <2>1, <2>2
    <2> QED BY <2>1, <2>2, <2>3 DEF TypeOK
  <1>3. HeldOnce'
    <2> SUFFICES ASSUME ~forced PROVE HeldOnce'
      BY DEF HeldOnce
    <2>1. \A d \in Context : \A s \in held'[d] : locked'[s] /\ owner'[s] = AgentOf[d]
      <3> SUFFICES ASSUME NEW d \in Context, NEW s \in held'[d]
                   PROVE  locked'[s] /\ owner'[s] = AgentOf[d]
        OBVIOUS
      <3>1. d # c /\ s \in held[d] /\ s \in Resource
        BY DEF TypeOK
      <3>2. s \notin held[c]
        BY <3>1 DEF HeldOnce
      <3> QED BY <3>1, <3>2 DEF HeldOnce, TypeOK
    <2>2. \A d, e \in Context : d # e => held'[d] \cap held'[e] = {}
      BY DEF HeldOnce, TypeOK
    <2>3. \A s \in Resource : locked'[s] <=> owner'[s] # None
      BY DEF HeldOnce, TypeOK
    <2> QED BY <2>1, <2>2, <2>3 DEF HeldOnce
  <1> QED BY <1>1, <1>2, <1>3

-----------------------------------------------------------------------------
(* One lemma per action: the types and the queues.  What an action does to *)
(* the resources is TakeInv, ReleaseInv or nothing.                        *)
LEMMA EnterInv == ASSUME IInv, NEW c \in Context, Enter(c) PROVE IInv'
  <1> USE DEF IInv, Enter, locks
  <1>1. TypeOK'
    BY WantedAssumption DEF TypeOK
  <1>2. Queued'
    BY QueueFrame DEF TypeOK
  <1>3. Climbs' /\ OwnerHolds' /\ HeldOnce'
    BY DEF Climbs, OwnerHolds, HeldOnce, Missing
  <1> QED BY <1>1, <1>2, <1>3

LEMMA AcquireAtOnceInv == ASSUME IInv, NEW c \in Context, AcquireAtOnce(c) PROVE IInv'
  <1> USE DEF IInv
  <1> PICK r \in Resource :
        /\ pc[c] = "acquire" /\ InOrder(c, r) /\ ~locked[r] /\ Take(c, r)
        /\ UNCHANGED <<waiters, pc, dead, forced>>
    BY DEF AcquireAtOnce
  <1>1. TypeOK'
    BY AgentAssumption DEF TypeOK, Take, InOrder, Missing
  <1>2. Queued'
    BY QueueFrame DEF TypeOK, Take
  <1>3. Climbs' /\ OwnerHolds' /\ HeldOnce'
    BY TakeInv
  <1> QED BY <1>1, <1>2, <1>3

LEMMA WaitInv == ASSUME IInv, NEW c \in Context, Wait(c) PROVE IInv'
  <1> USE DEF IInv
  <1> PICK r \in Resource :
        /\ pc[c] = "acquire" /\ InOrder(c, r)
        /\ waiters' = [waiters EXCEPT ![r] = Append(@, c)]
        /\ pc' = [pc EXCEPT ![c] = "wait"]
        /\ UNCHANGED <<locked, owner, held, dead, forced>>
    BY DEF Wait
  <1>1. TypeOK'
    <2>1. Append(waiters[r], c) \in Seq(Context)
      BY AppendIndex DEF TypeOK
    <2> QED BY <2>1 DEF TypeOK
  <1>2. Queued'
    <2>1. \A s \in Resource : \A i \in 1..Len(waiters[s]) :
            waiters[s][i] \in Context /\ waiters[s][i] # c
      BY DEF TypeOK, Queued
    <2> DEFINE q == Append(waiters[r], c)
    <2>2. /\ Len(q) = Len(waiters[r]) + 1 /\ Len(waiters[r]) \in Nat
          /\ \A i \in 1..Len(waiters[r]) : q[i] = waiters[r][i]
          /\ q[Len(waiters[r]) + 1] = c
      BY AppendIndex DEF TypeOK
    <2>3. waiters'[r] = q /\ \A s \in Resource : s # r => waiters'[s] = waiters[s]
      BY DEF TypeOK
    <2> HIDE DEF q
    <2>4. ASSUME NEW s \in Resource, NEW i \in 1..Len(waiters'[s])
          PROVE  (pc[waiters[s][i]] = "wait" /\ InOrder(waiters[s][i], s))'
      <3>1. CASE s = r /\ i = Len(waiters[r]) + 1
        <4>1. waiters'[s][i] = c /\ pc'[c] = "wait"
          BY <3>1, <2>2, <2>3 DEF TypeOK
        <4> QED BY <3>1, <4>1 DEF InOrder, Missing
      <3>2. CASE ~(s = r /\ i = Len(waiters[r]) + 1)
        <4>1. i \in 1..Len(waiters[s]) /\ waiters'[s][i] = waiters[s][i]
          BY <3>2, <2>2, <2>3
        <4>2. pc'[waiters[s][i]] = pc[waiters[s][i]]
          BY <4>1, <2>1 DEF TypeOK
        <4> QED BY <4>1, <4>2 DEF Queued, InOrder, Missing
      <3> QED BY <3>1, <3>2
    <2>5. ASSUME NEW s \in Resource, NEW i \in 1..Len(waiters'[s]),
                 NEW j \in 1..Len(waiters'[s]), waiters'[s][i] = waiters'[s][j]
          PROVE  i = j
      <3>1. CASE s = r
        BY <3>1, <2>1, <2>2, <2>3, <2>5 DEF Queued
      <3>2. CASE s # r
        BY <3>2, <2>3, <2>5 DEF Queued
      <3> QED BY <3>1, <3>2
    <2> QED BY <2>4, <2>5 DEF Queued
  <1>3. Climbs' /\ OwnerHolds' /\ HeldOnce'
    BY DEF Climbs, OwnerHolds, HeldOnce, Missing
  <1> QED BY <1>1, <1>2, <1>3

LEMMA AcquireAfterWaitInv ==
    ASSUME IInv, NEW c \in Context, AcquireAfterWait(c) PROVE IInv'
  <1> USE DEF IInv
  <1> PICK r \in Resource :
        /\ pc[c] = "wait" /\ Wakes(c, r) /\ Take(c, r)
        /\ waiters' = [waiters EXCEPT ![r] = Tail(@)]
        /\ pc' = [pc EXCEPT ![c] = "acquire"]
        /\ UNCHANGED <<dead, forced>>
    BY DEF AcquireAfterWait
  <1> DEFINE q == Tail(waiters[r])
  <1>1. /\ q \in Seq(Context) /\ Len(q) = Len(waiters[r]) - 1 /\ Len(waiters[r]) \in Nat
        /\ \A i \in 1..Len(q) : q[i] = waiters[r][i + 1]
        /\ waiters[r][1] = c /\ 1 \in 1..Len(waiters[r])
    BY TailIndex DEF Wakes, TypeOK
  <1>2. waiters'[r] = q /\ \A s \in Resource : s # r => waiters'[s] = waiters[s]
    BY DEF TypeOK
  <1> HIDE DEF q
  <1>3. InOrder(c, r)
    BY <1>1 DEF Queued
  <1>4. TypeOK'
    <2>1. waiters' \in [Resource -> Seq(Context)]
      BY <1>1, <1>2 DEF TypeOK
    <2>2. pc' \in [Context -> {"out", "acquire", "wait", "inside"}]
      BY DEF TypeOK
    <2>3. /\ locked' \in [Resource -> BOOLEAN]
          /\ owner' \in [Resource -> Agent \cup {None}]
          /\ held' \in [Context -> SUBSET Resource]
      BY AgentAssumption DEF TypeOK, Take
    <2>4. \A d \in Context :
            /\ held'[d] \subseteq Wanted[d]
            /\ pc'[d] = "out" => held'[d] = {}
            /\ pc'[d] = "inside" => held'[d] = Wanted[d]
      <3>1. r \in Wanted[c]
        BY <1>3 DEF InOrder, Missing
      <3> QED BY <3>1 DEF TypeOK, Take
    <2> QED BY <2>1, <2>2, <2>3, <2>4 DEF TypeOK
  <1>5. Queued'
    <2>1. ASSUME NEW s \in Resource, NEW i \in 1..Len(waiters'[s])
          PROVE  \E j \in 1..Len(waiters[s]) :
                    /\ waiters'[s][i] = waiters[s][j]
                    /\ j = IF s = r THEN i + 1 ELSE i
                    /\ waiters[s][j] # c
      <3>1. CASE s = r
        <4>1. i + 1 \in 1..Len(waiters[r]) /\ waiters'[s][i] = waiters[r][i + 1]
          BY <3>1, <1>1, <1>2
        <4>2. waiters[r][i + 1] # c
          BY <4>1, <1>1 DEF Queued
        <4> QED BY <4>1, <4>2, <3>1
      <3>2. CASE s # r
        <4>1. i \in 1..Len(waiters[s]) /\ waiters'[s][i] = waiters[s][i]
          BY <3>2, <1>2
        <4>2. waiters[s][i] # c
          <5> SUFFICES ASSUME waiters[s][i] = c PROVE FALSE
            OBVIOUS
          <5>1. InOrder(c, s)
            BY <4>1 DEF Queued
          <5> QED BY <5>1, <1>3, <3>2, FirstMissingUnique
        <4> QED BY <4>1, <4>2, <3>2
      <3> QED BY <3>1, <3>2
    <2>2. ASSUME NEW s \in Resource, NEW i \in 1..Len(waiters'[s])
          PROVE  (pc[waiters[s][i]] = "wait" /\ InOrder(waiters[s][i], s))'
      <3>1. PICK j \in 1..Len(waiters[s]) :
              waiters'[s][i] = waiters[s][j] /\ waiters[s][j] # c
        BY <2>1
      <3>2. waiters[s][j] \in Context /\ pc[waiters[s][j]] = "wait" /\ InOrder(waiters[s][j], s)
        BY DEF TypeOK, Queued
      <3>3. held'[waiters[s][j]] = held[waiters[s][j]]
        BY <3>1, <3>2 DEF Take, TypeOK
      <3>4. pc'[waiters[s][j]] = pc[waiters[s][j]]
        BY <3>1, <3>2 DEF TypeOK
      <3> QED BY <3>1, <3>2, <3>3, <3>4 DEF InOrder, Missing
    <2>3. ASSUME NEW s \in Resource, NEW i \in 1..Len(waiters'[s]),
                 NEW j \in 1..Len(waiters'[s]), waiters'[s][i] = waiters'[s][j]
          PROVE  i = j
      <3>1. PICK k \in 1..Len(waiters[s]) :
              waiters'[s][i] = waiters[s][k] /\ k = IF s = r THEN i + 1 ELSE i
        BY <2>1
      <3>2. PICK l \in 1..Len(waiters[s]) :
              waiters'[s][j] = waiters[s][l] /\ l = IF s = r THEN j + 1 ELSE j
        BY <2>1
      <3>3. k = l
        BY <2>3, <3>1, <3>2 DEF Queued
      <3> QED BY <3>1, <3>2, <3>3
    <2> QED BY <2>2, <2>3 DEF Queued
  <1>6. Climbs' /\ OwnerHolds' /\ HeldOnce'
    BY <1>3, TakeInv DEF Wakes
  <1> QED BY <1>4, <1>5, <1>6

LEMMA YieldInv == ASSUME IInv, NEW c \in Context, Yield(c) PROVE IInv'
  <1> USE DEF IInv, Yield, locks
  <1>1. TypeOK'
    BY DEF TypeOK, Missing
  <1>2. Queued'
    BY QueueFrame DEF TypeOK
  <1>3. Climbs' /\ OwnerHolds' /\ HeldOnce'
    BY DEF Climbs, OwnerHolds, HeldOnce, Missing
  <1> QED BY <1>1, <1>2, <1>3

(* The types after the finally block.                                      *)
LEMMA ReleaseType ==
    ASSUME TypeOK, NEW c \in Context, ReleaseHeld(c), UNCHANGED <<dead, forced>>,
           waiters' \in [Resource -> Seq(Context)]
    PROVE  TypeOK'
  BY DEF TypeOK, ReleaseHeld

LEMMA LeaveInv == ASSUME IInv, NEW c \in Context, Leave(c) PROVE IInv'
  <1> USE DEF IInv, Leave
  <1>1. TypeOK'
    BY ReleaseType DEF TypeOK
  <1>2. Queued'
    BY QueueFrame DEF TypeOK, ReleaseHeld
  <1>3. Climbs' /\ OwnerHolds' /\ HeldOnce'
    BY ReleaseInv
  <1> QED BY <1>1, <1>2, <1>3

LEMMA WaiterRemoved ==
    ASSUME IInv, NEW r \in Resource, NEW k \in DOMAIN waiters[r]
    PROVE  /\ RemoveAt(waiters[r], k) \in Seq(Context)
           /\ Len(RemoveAt(waiters[r], k)) = Len(waiters[r]) - 1
           /\ \A i \in 1..Len(RemoveAt(waiters[r], k)) :
                RemoveAt(waiters[r], k)[i] = waiters[r][IF i < k THEN i ELSE i + 1]
  <1> DEFINE p == waiters[r]
  <1>1. p \in Seq(Context) /\ k \in 1..Len(p)
    BY DEF IInv, TypeOK
  <1> HIDE DEF p
  <1>2. /\ RemoveAt(p, k) \in Seq(Context)
        /\ Len(RemoveAt(p, k)) = Len(p) - 1
        /\ \A i \in 1..Len(RemoveAt(p, k)) :
             RemoveAt(p, k)[i] = p[IF i < k THEN i ELSE i + 1]
    BY ONLY <1>1, RemoveIndex
  <1> QED BY <1>2 DEF p

LEMMA GiveUpInv == ASSUME IInv, NEW c \in Context, GiveUp(c) PROVE IInv'
  <1> USE DEF IInv
  <1> PICK r \in Resource : \E k \in DOMAIN waiters[r] :
        /\ pc[c] = "wait" /\ waiters[r][k] = c
        /\ waiters' = [waiters EXCEPT ![r] = RemoveAt(@, k)]
        /\ ReleaseHeld(c) /\ UNCHANGED <<dead, forced>>
    BY DEF GiveUp
  <1> PICK k \in DOMAIN waiters[r] :
        /\ pc[c] = "wait" /\ waiters[r][k] = c
        /\ waiters' = [waiters EXCEPT ![r] = RemoveAt(@, k)]
        /\ ReleaseHeld(c) /\ UNCHANGED <<dead, forced>>
    OBVIOUS
  <1> DEFINE q == RemoveAt(waiters[r], k)
  <1>1. waiters[r] \in Seq(Context) /\ k \in 1..Len(waiters[r]) /\ Len(waiters[r]) \in Nat
    BY DEF TypeOK
  <1>2. /\ q \in Seq(Context) /\ Len(q) = Len(waiters[r]) - 1
        /\ \A i \in 1..Len(q) : q[i] = waiters[r][IF i < k THEN i ELSE i + 1]
    BY WaiterRemoved
  <1>3. waiters'[r] = q /\ \A s \in Resource : s # r => waiters'[s] = waiters[s]
    BY DEF TypeOK
  <1> HIDE DEF q
  <1>4. TypeOK'
    <2>1. waiters' \in [Resource -> Seq(Context)]
      BY <1>2, <1>3 DEF TypeOK
    <2> QED BY <2>1, ReleaseType
  <1>5. InOrder(c, r)
    BY <1>1 DEF Queued
  <1> DEFINE Old(s, i) == IF s = r /\ i >= k THEN i + 1 ELSE i
  <1>6. ASSUME NEW s \in Resource, NEW i \in 1..Len(waiters'[s])
        PROVE  /\ Old(s, i) \in 1..Len(waiters[s])
               /\ waiters'[s][i] = waiters[s][Old(s, i)]
               /\ waiters[s][Old(s, i)] # c
    <2>1. CASE s = r
      <3>1. /\ Old(s, i) \in 1..Len(waiters[s]) /\ Old(s, i) # k
            /\ waiters'[s][i] = waiters[s][Old(s, i)]
        BY <2>1, <1>1, <1>2, <1>3
      <3>2. waiters[s][Old(s, i)] # c
        <4> HIDE DEF Old
        <4> QED BY <2>1, <3>1, <1>1 DEF Queued
      <3> QED BY <3>1, <3>2
    <2>2. CASE s # r
      <3>1. Old(s, i) = i /\ i \in 1..Len(waiters[s]) /\ waiters'[s][i] = waiters[s][i]
        BY <2>2, <1>3
      <3>2. waiters[s][i] # c
        <4> SUFFICES ASSUME waiters[s][i] = c PROVE FALSE
          OBVIOUS
        <4>1. InOrder(c, s)
          BY <3>1 DEF Queued
        <4> QED BY <4>1, <1>5, <2>2, FirstMissingUnique
      <3> HIDE DEF Old
      <3> QED BY <3>1, <3>2
    <2> QED BY <2>1, <2>2
  <1>7. Queued'
    <2>1. ASSUME NEW s \in Resource, NEW i \in 1..Len(waiters'[s])
          PROVE  (pc[waiters[s][i]] = "wait" /\ InOrder(waiters[s][i], s))'
      <3> HIDE DEF Old
      <3>1. PICK j \in 1..Len(waiters[s]) :
              waiters'[s][i] = waiters[s][j] /\ waiters[s][j] # c
        BY <1>6
      <3>2. waiters[s][j] \in Context /\ pc[waiters[s][j]] = "wait" /\ InOrder(waiters[s][j], s)
        BY DEF TypeOK, Queued
      <3>3. /\ held'[waiters[s][j]] = held[waiters[s][j]]
            /\ pc'[waiters[s][j]] = pc[waiters[s][j]]
        BY <3>1, <3>2 DEF ReleaseHeld, TypeOK
      <3> QED BY <3>1, <3>2, <3>3 DEF InOrder, Missing
    <2>2. ASSUME NEW s \in Resource, NEW i \in 1..Len(waiters'[s]),
                 NEW j \in 1..Len(waiters'[s]), waiters'[s][i] = waiters'[s][j]
          PROVE  i = j
      <3>1. Old(s, i) = Old(s, j)
        <4> HIDE DEF Old
        <4> QED BY <2>2, <1>6 DEF Queued
      <3> QED BY <3>1, <1>1
    <2> QED BY <2>1, <2>2 DEF Queued
  <1>8. Climbs' /\ OwnerHolds' /\ HeldOnce'
    BY ReleaseInv
  <1> QED BY <1>4, <1>7, <1>8

LEMMA ReleaseAgentsInv ==
    ASSUME IInv, NEW A \in SUBSET Agent, ReleaseAgents(A) PROVE IInv'
  <1> USE DEF IInv, ReleaseAgents
  <1>1. TypeOK'
    BY DEF TypeOK
  <1>2. Queued'
    BY QueueFrame
  <1>3. Climbs'
    BY DEF Climbs, Missing
  <1>4. OwnerHolds'
    BY DEF OwnerHolds, Owned, TypeOK
  <1>5. HeldOnce'
    <2>1. PICK r \in Resource : owner[r] \in A
      BY DEF Owned
    <2>2. owner[r] # None
      BY <2>1, AgentAssumption
    <2>3. PICK c \in Context : r \in held[c]
      BY <2>2 DEF OwnerHolds
    <2>4. r \in held[c] \cap Owned(A)
      BY <2>1, <2>3 DEF Owned
    <2>5. forced'
      BY <2>4
    <2> QED BY <2>5 DEF HeldOnce
  <1> QED BY <1>1, <1>2, <1>3, <1>4, <1>5

LEMMA NextInv == IInv /\ [Next]_vars => IInv'
  <1> SUFFICES ASSUME IInv, [Next]_vars PROVE IInv'
    OBVIOUS
  <1>1. CASE UNCHANGED vars
    BY <1>1 DEF vars, locks, IInv, TypeOK, Queued, Climbs, OwnerHolds, HeldOnce,
       InOrder, Missing
  <1>2. ASSUME NEW c \in Context, Enter(c) \/ Acquire(c) \/ Leave(c) \/ GiveUp(c)
        PROVE  IInv'
    BY <1>2, EnterInv, AcquireAtOnceInv, WaitInv, AcquireAfterWaitInv, YieldInv,
       LeaveInv, GiveUpInv DEF Acquire
  <1>3. ASSUME NEW a \in Agent, Die(a) \/ Recover(a) PROVE IInv'
    <2>1. dead' \in SUBSET Agent /\ UNCHANGED <<locks, held, pc, forced>>
      BY <1>3 DEF Die, Recover, IInv, TypeOK
    <2> QED BY <2>1 DEF locks, IInv, TypeOK, Queued, Climbs, OwnerHolds, HeldOnce,
               InOrder, Missing
  <1>4. ASSUME NEW a \in Agent, Replace(a) PROVE IInv'
    BY <1>4, ReleaseAgentsInv DEF Replace
  <1>5. CASE Inspect
    BY <1>5, ReleaseAgentsInv DEF Inspect, IInv, TypeOK
  <1> QED BY <1>1, <1>2, <1>3, <1>4, <1>5 DEF Next

LEMMA Invariance == Spec => []IInv
  BY InitInv, NextInv, PTL DEF Spec

(* The state of the lock manager keeps its types; a context that is out    *)
(* holds nothing and one that is inside holds all it asked for.            *)
THEOREM TypeCorrect == Spec => []TypeOK
  <1>1. IInv => TypeOK
    BY DEF IInv
  <1> QED BY <1>1, Invariance, PTL

(* Mutual exclusion, until the monitor releases under an open context.     *)
THEOREM ExclusiveHolds == Spec => []Exclusive
  <1>1. IInv => Exclusive
    BY DEF IInv, HeldOnce, Exclusive, TypeOK
  <1> QED BY <1>1, Invariance, PTL

(* The record of owners is accurate.                                       *)
THEOREM OwnersAccurateHolds == Spec => []OwnersAccurate
  <1>1. IInv => OwnersAccurate
    BY DEF IInv, HeldOnce, OwnerHolds, OwnersAccurate
  <1> QED BY <1>1, Invariance, PTL

(* Waits climb in the order of the resources, whatever was forced.         *)
THEOREM NoCircularWaitHolds == Spec => []NoCircularWait
  <1>1. IInv => NoCircularWait
    <2> SUFFICES ASSUME IInv, NEW c \in Context, NEW d \in Context,
                        NEW r \in Resource, NEW s \in Resource,
                        r \in held[d], d \in ToSet(waiters[s])
                 PROVE  Order[r] < Order[s]
      BY DEF NoCircularWait
    <2>1. PICK i \in DOMAIN waiters[s] : waiters[s][i] = d
      BY DEF ToSet
    <2>2. i \in 1..Len(waiters[s])
      BY DEF IInv, TypeOK
    <2>3. s \in Missing(d)
      BY <2>1, <2>2 DEF IInv, Queued, InOrder
    <2> QED BY <2>3 DEF IInv, Climbs
  <1> QED BY <1>1, Invariance, PTL
=============================================================================
