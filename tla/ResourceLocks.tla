--------------------------- MODULE ResourceLocks ---------------------------
(***************************************************************************)
(* app/autonomy/resources.py (ResourceLockManager) with the clean-up that  *)
(* app/autonomy/health.py runs beside it.                                  *)
(*                                                                         *)
(* A context is one use of `async with locks.acquire(agent, resources)`.   *)
(* It takes the locks one after the other in sorted order, waiting for     *)
(* each, and releases what it took when it ends, however it ends.  Beside  *)
(* it the health monitor releases what dead agents still own.              *)
(*                                                                         *)
(* The locks are asyncio.Lock: a boolean and a first-in first-out list of  *)
(* waiters; a lock that is free but has waiters goes to the first of them. *)
(***************************************************************************)
EXTENDS Integers, Sequences, SequencesExt

CONSTANTS
    Context,    \* uses of acquire
    Agent,
    None,       \* no agent
    AgentOf,    \* AgentOf[c]: the agent_id c passes
    Resource,
    Wanted,     \* Wanted[c]: the resources c passes
    Order       \* Order[r]: position of r among the sorted names

ASSUME AgentAssumption == AgentOf \in [Context -> Agent] /\ None \notin Agent
ASSUME WantedAssumption == Wanted \in [Context -> (SUBSET Resource) \ {{}}]
ASSUME OrderAssumption ==
    /\ Order \in [Resource -> Int]
    /\ \A r, s \in Resource : Order[r] = Order[s] => r = s

VARIABLES
    locked,   \* asyncio.Lock.locked() of each resource
    waiters,  \* contexts waiting for each lock, in order of arrival
    owner,    \* ResourceLockManager._owners
    held,     \* the list `acquired` of each context
    pc,       \* where each context is
    dead,     \* agents whose status is FAILED or TERMINATED
    forced    \* history: the monitor released a lock of an open context

locks == <<locked, waiters, owner>>
vars == <<locked, waiters, owner, held, pc, dead, forced>>

TypeOK ==
    /\ locked \in [Resource -> BOOLEAN]
    /\ waiters \in [Resource -> Seq(Context)]
    /\ owner \in [Resource -> Agent \cup {None}]
    /\ held \in [Context -> SUBSET Resource]
    /\ pc \in [Context -> {"out", "acquire", "wait", "inside"}]
    /\ dead \in SUBSET Agent
    /\ forced \in BOOLEAN
    /\ \A c \in Context :
        /\ held[c] \subseteq Wanted[c]
        /\ pc[c] = "out" => held[c] = {}
        /\ pc[c] = "inside" => held[c] = Wanted[c]

Init ==
    /\ locked = [r \in Resource |-> FALSE]
    /\ waiters = [r \in Resource |-> <<>>]
    /\ owner = [r \in Resource |-> None]
    /\ held = [c \in Context |-> {}]
    /\ pc = [c \in Context |-> "out"]
    /\ dead = {}
    /\ forced = FALSE

Missing(c) == Wanted[c] \ held[c]

(* Mutant: the resources are taken in any order.                           *)
InAnyOrder(c, r) == r \in Missing(c)

(* r is the next resource in c's loop over sorted(resources).              *)
InOrder(c, r) == r \in Missing(c) /\ \A s \in Missing(c) : Order[r] <= Order[s]

Enter(c) ==
    /\ pc[c] = "out"
    /\ pc' = [pc EXCEPT ![c] = "acquire"]
    /\ UNCHANGED <<locks, held, dead, forced>>

(* The lock is acquired: it is recorded in `acquired` and in _owners.      *)
Take(c, r) ==
    /\ locked' = [locked EXCEPT ![r] = TRUE]
    /\ held' = [held EXCEPT ![c] = @ \cup {r}]
    /\ owner' = [owner EXCEPT ![r] = AgentOf[c]]

(* Lock.acquire: at once if the lock is free and nobody waits for it.      *)
AcquireAtOnce(c) == \E r \in Resource :
    /\ pc[c] = "acquire"
    /\ InOrder(c, r)
    /\ ~locked[r] /\ waiters[r] = <<>>
    /\ Take(c, r)
    /\ UNCHANGED <<waiters, pc, dead, forced>>

Wait(c) == \E r \in Resource :
    /\ pc[c] = "acquire"
    /\ InOrder(c, r)
    /\ locked[r] \/ waiters[r] # <<>>
    /\ waiters' = [waiters EXCEPT ![r] = Append(@, c)]
    /\ pc' = [pc EXCEPT ![c] = "wait"]
    /\ UNCHANGED <<locked, owner, held, dead, forced>>

(* Mutant: a woken waiter does not look whether the lock is still free.    *)
WakesAnyway(c, r) == waiters[r] # <<>> /\ Head(waiters[r]) = c

(* The lock was released: its first waiter gets it.                        *)
Wakes(c, r) == waiters[r] # <<>> /\ Head(waiters[r]) = c /\ ~locked[r]

AcquireAfterWait(c) == \E r \in Resource :
    /\ pc[c] = "wait"
    /\ Wakes(c, r)
    /\ Take(c, r)
    /\ waiters' = [waiters EXCEPT ![r] = Tail(@)]
    /\ pc' = [pc EXCEPT ![c] = "acquire"]
    /\ UNCHANGED <<dead, forced>>

Yield(c) ==
    /\ pc[c] = "acquire" /\ Missing(c) = {}
    /\ pc' = [pc EXCEPT ![c] = "inside"]
    /\ UNCHANGED <<locks, held, dead, forced>>

(* Mutant: the locks are released and stay recorded as owned.              *)
ReleaseHeldOwnerKept(c) ==
    /\ locked' = [r \in Resource |-> locked[r] /\ r \notin held[c]]
    /\ held' = [held EXCEPT ![c] = {}]
    /\ pc' = [pc EXCEPT ![c] = "out"]
    /\ UNCHANGED owner

(* The finally block: the ownership of a resource is dropped if it is      *)
(* still this agent's, its lock is released if it is locked at all.        *)
ReleaseHeld(c) ==
    /\ locked' = [r \in Resource |-> locked[r] /\ r \notin held[c]]
    /\ owner' = [r \in Resource |->
                    IF r \in held[c] /\ owner[r] = AgentOf[c] THEN None ELSE owner[r]]
    /\ held' = [held EXCEPT ![c] = {}]
    /\ pc' = [pc EXCEPT ![c] = "out"]

(* The body ends: it returns, raises or is cancelled.                      *)
Leave(c) ==
    /\ pc[c] = "inside"
    /\ ReleaseHeld(c)
    /\ UNCHANGED <<waiters, dead, forced>>

(* Mutant: a timeout skips the finally block.                              *)
GiveUpWithoutFinally(c) == \E r \in Resource :
    /\ pc[c] = "wait"
    /\ \E i \in DOMAIN waiters[r] :
        /\ waiters[r][i] = c
        /\ waiters' = [waiters EXCEPT ![r] = RemoveAt(@, i)]
    /\ pc' = [pc EXCEPT ![c] = "out"]
    /\ UNCHANGED <<locked, owner, held, dead, forced>>

(* wait_for times out, or the waiting context is cancelled.                *)
GiveUp(c) == \E r \in Resource :
    /\ pc[c] = "wait"
    /\ \E i \in DOMAIN waiters[r] :
        /\ waiters[r][i] = c
        /\ waiters' = [waiters EXCEPT ![r] = RemoveAt(@, i)]
    /\ ReleaseHeld(c)
    /\ UNCHANGED <<dead, forced>>

(* AgentManager changes the status of an agent, its contexts open or not.  *)
Die(a) ==
    /\ dead' = dead \cup {a}
    /\ UNCHANGED <<locks, held, pc, forced>>

Recover(a) ==
    /\ dead' = dead \ {a}
    /\ UNCHANGED <<locks, held, pc, forced>>

(* release_agent for every agent in A, a set of dead agents.               *)
Owned(A) == {r \in Resource : owner[r] \in A}

ReleaseAgents(A) ==
    /\ Owned(A) # {}
    /\ locked' = [r \in Resource |-> locked[r] /\ r \notin Owned(A)]
    /\ owner' = [r \in Resource |-> IF r \in Owned(A) THEN None ELSE owner[r]]
    /\ forced' = (forced \/ \E c \in Context : held[c] \cap Owned(A) # {})
    /\ UNCHANGED <<waiters, held, pc, dead>>

(* AgentHealthMonitor.inspect cleans up after all dead agents, replace     *)
(* after the one it replaces.                                              *)
Inspect == ReleaseAgents(dead)

Replace(a) == a \in dead /\ ReleaseAgents({a})

Acquire(c) == AcquireAtOnce(c) \/ Wait(c) \/ AcquireAfterWait(c) \/ Yield(c)

Next ==
    \/ \E c \in Context : Enter(c) \/ Acquire(c) \/ Leave(c) \/ GiveUp(c)
    \/ \E a \in Agent : Die(a) \/ Recover(a) \/ Replace(a)
    \/ Inspect

Spec == Init /\ [][Next]_vars

(* A coroutine that can go on does, and the body of a context ends.  No    *)
(* wait is obliged to time out: the default timeout may be None.           *)
FairSpec == Spec /\ \A c \in Context : WF_vars(Acquire(c)) /\ WF_vars(Leave(c))

-----------------------------------------------------------------------------
(* As long as the monitor has not released a lock under an open context,   *)
(* no two contexts hold the same resource, and what is held is locked      *)
(* (resources.py acquire).                                                 *)
Exclusive == ~forced =>
    \A c \in Context : \A r \in held[c] :
        /\ locked[r]
        /\ \A d \in Context \ {c} : r \notin held[d]

(* The record of owners is what the scheduler avoids as busy and what the  *)
(* monitor cleans up (resources.py owners, task_engine.py run_graph): an   *)
(* owner always has an open context on what it owns, so nothing free is    *)
(* ever avoided, and until a forced release every taken lock has an owner. *)
OwnersAccurate ==
    /\ \A r \in Resource : owner[r] # None =>
        \E c \in Context : AgentOf[c] = owner[r] /\ r \in held[c]
    /\ ~forced => \A r \in Resource : locked[r] <=> owner[r] # None

(* Ordered locks prevent deadlocks: a context that waits for a resource    *)
(* holds only earlier ones, so a chain of waits climbs and never closes.   *)
NoCircularWait == \A c, d \in Context : \A r, s \in Resource :
    /\ c \in ToSet(waiters[r]) /\ r \in held[d]
    /\ d \in ToSet(waiters[s])
    => Order[r] < Order[s]

(* Every context that asks for its resources gets them all or gives up,    *)
(* even when no wait ever times out (resources.py acquire, timeout None).  *)
EveryoneServed == \A c \in Context :
    pc[c] \in {"acquire", "wait"} ~> pc[c] \in {"inside", "out"}
=============================================================================
