-------------------------- MODULE ConcurrencyGate --------------------------
(***************************************************************************)
(* analysis/pool.py, class ConcurrencyGate: the FIFO gate that bounds how  *)
(* many requests of one model are processed at once.                       *)
(*                                                                         *)
(* Requests run as tasks of one asyncio event loop.  A task runs alone     *)
(* until it awaits, so `running` names the task inside such a stretch; the *)
(* thread that serves /status is not a task and may call stats() between   *)
(* any two steps.  Each action below is one section of acquire() that      *)
(* such a thread cannot split: a block under _lock, or a call on the       *)
(* semaphore.                                                              *)
(*                                                                         *)
(* The asyncio.Semaphore itself is library code.  It is modelled by its    *)
(* counter, its queue of waiters and the number of waiters (a prefix of    *)
(* the queue) whose future has been completed but whose task has not run   *)
(* yet.  Completed futures put their tasks on the loop's ready queue in    *)
(* that order, hence only the first waiter may resume.  Tasks of this      *)
(* server are not cancelled while it serves, so no waiter is ever          *)
(* cancelled.                                                              *)
(***************************************************************************)
EXTENDS Integers, Sequences, FiniteSets

CONSTANTS Requests,  \* clients of the model, one request each at a time
          Limit,     \* MAX_CONCURRENT_REQUESTS[model_id]
          Nobody     \* the event loop is between two tasks

\* pool.py builds a gate only for a limit that is set; Semaphore refuses a
\* negative one.
ASSUME GateAssumption ==
    /\ Limit \in Nat \ {0}
    /\ IsFiniteSet(Requests)
    /\ Nobody \notin Requests

VARIABLES
    value,     \* Semaphore._value
    waiters,   \* Semaphore._waiters: the requests queued on it, oldest first
    granted,   \* how many of the waiters, from the front, were handed a slot
    waiting,   \* ConcurrencyGate._waiting
    inFlight,  \* ConcurrencyGate._in_flight
    pc,        \* where each request is in acquire()
    running    \* the request whose task runs, or Nobody

vars == <<value, waiters, granted, waiting, inFlight, pc, running>>
semaphore == <<value, waiters, granted>>
gauges == <<waiting, inFlight>>

Places == {"idle", "arrived", "queued", "entered", "holding", "leaving"}

TypeOK ==
    /\ value \in Nat
    /\ waiters \in Seq(Requests)
    /\ granted \in 0..Len(waiters)
    /\ waiting \in Nat
    /\ inFlight \in Nat
    /\ pc \in [Requests -> Places]
    /\ running \in Requests \cup {Nobody}

Init ==
    /\ value = Limit
    /\ waiters = <<>>
    /\ granted = 0
    /\ waiting = 0
    /\ inFlight = 0
    /\ pc = [r \in Requests |-> "idle"]
    /\ running = Nobody

-----------------------------------------------------------------------------
\* Mutant: locked() looks at the counter only.
LockedByCounter == value = 0

\* Semaphore.locked(): a newcomer may not overtake requests that are queued,
\* even when the counter is positive.
Locked == value = 0 \/ waiters # <<>>

\* Mutant: the resumed task keeps the spare slots to itself.
WakesNobody(spare, asleep) == {0}

\* How many waiters a resumed task wakes with the spare slots: CPython 3.11
\* wakes one, later versions wake as many as there are slots.
Wakes(spare, asleep) ==
    IF spare = 0 \/ asleep = 0
    THEN {0}
    ELSE {1, IF spare < asleep THEN spare ELSE asleep}

Go(r, from, to) == pc[r] = from /\ pc' = [pc EXCEPT ![r] = to]

\* Mutant: only a request that finds no slot is counted as waiting.
CountWaitingIfLocked == waiting' = IF Locked THEN waiting + 1 ELSE waiting

\* `with self._lock: self._waiting += 1`
CountWaiting == waiting' = waiting + 1

\* acquire() up to the semaphore.
Arrive(r) ==
    /\ running = Nobody
    /\ Go(r, "idle", "arrived")
    /\ running' = r
    /\ CountWaiting
    /\ UNCHANGED <<inFlight, semaphore>>

\* Semaphore.acquire() on its fast path: it returns without suspending.
TakeFree(r) ==
    /\ running = r
    /\ Go(r, "arrived", "entered")
    /\ ~Locked
    /\ value' = value - 1
    /\ UNCHANGED <<waiters, granted, gauges, running>>

\* Semaphore.acquire() with no slot to take: the task waits for its future.
Enqueue(r) ==
    /\ running = r
    /\ Go(r, "arrived", "queued")
    /\ Locked
    /\ waiters' = Append(waiters, r)
    /\ running' = Nobody
    /\ UNCHANGED <<value, granted, gauges>>

\* Semaphore.acquire() continued by the task that was handed a slot.
Resume(r) ==
    /\ running = Nobody
    /\ granted > 0 /\ r = Head(waiters)
    /\ Go(r, "queued", "entered")
    /\ running' = r
    /\ waiters' = Tail(waiters)
    /\ \E k \in Wakes(value, Len(waiters) - granted) :
          /\ value' = value - k
          /\ granted' = granted - 1 + k
    /\ UNCHANGED gauges

\* Mutant: the request is counted in flight and still counted as waiting.
CountInOnly == inFlight' = inFlight + 1 /\ UNCHANGED waiting

\* `self._waiting -= 1; self._in_flight += 1`
CountIn == waiting' = waiting - 1 /\ inFlight' = inFlight + 1

\* The block under _lock, then the body of the `async with` runs to its first
\* await.
Enter(r) ==
    /\ running = r
    /\ Go(r, "entered", "holding")
    /\ CountIn
    /\ running' = Nobody
    /\ UNCHANGED semaphore

\* `finally: with self._lock: self._in_flight -= 1`
CountOut == inFlight' = inFlight - 1

\* The body ends, by returning or by raising.
Leave(r) ==
    /\ running = Nobody
    /\ Go(r, "holding", "leaving")
    /\ running' = r
    /\ CountOut
    /\ UNCHANGED <<waiting, semaphore>>

\* Semaphore.release(): the slot goes to the first waiter that has none, or
\* back to the counter.
GiveBack ==
    \/ granted < Len(waiters) /\ granted' = granted + 1 /\ UNCHANGED value
    \/ granted = Len(waiters) /\ value' = value + 1 /\ UNCHANGED granted

\* Mutant: the slot is given back only when the body succeeds.
ExitOnSuccess == GiveBack \/ UNCHANGED <<value, granted>>

\* `__aexit__` of the semaphore, however the body ended.
Exit == GiveBack

\* The end of `async with self._semaphore`.
Release(r) ==
    /\ running = r
    /\ Go(r, "leaving", "idle")
    /\ running' = Nobody
    /\ Exit
    /\ UNCHANGED <<waiters, gauges>>

Next == \E r \in Requests :
    \/ Arrive(r)
    \/ TakeFree(r)
    \/ Enqueue(r)
    \/ Resume(r)
    \/ Enter(r)
    \/ Leave(r)
    \/ Release(r)

Spec == Init /\ [][Next]_vars

(***************************************************************************)
(* Fairness.  A task that runs gets to its next await (weak fairness).  A  *)
(* task whose future is complete is on the loop's FIFO ready queue, and    *)
(* the body of a request always ends, at the latest by the timeout of      *)
(* worker.analyze; other tasks run in between, so for these two the        *)
(* fairness is strong.  No request is obliged to arrive.                   *)
(***************************************************************************)
Fairness == \A r \in Requests :
    /\ WF_vars(TakeFree(r) \/ Enqueue(r) \/ Enter(r) \/ Release(r))
    /\ SF_vars(Resume(r))
    /\ SF_vars(Leave(r))

LiveSpec == Spec /\ Fairness

-----------------------------------------------------------------------------
\* What the /status thread reads, in any state: ConcurrencyGate.stats().
Stats == [limit |-> Limit, in_flight |-> inFlight, waiting |-> waiting]

Holders == {r \in Requests : pc[r] = "holding"}
Outside == {r \in Requests : pc[r] \in {"arrived", "queued", "entered"}}

\* A slot that the running task has taken and not counted yet, or has
\* uncounted and not given back yet.
InTransit ==
    IF running # Nobody /\ pc[running] \in {"entered", "leaving"} THEN 1 ELSE 0

\* However the steps of requests interleave, /status never reports more
\* requests in flight than the gate admits (pool.py:59-73).
InFlightWithinLimit == Stats.in_flight <= Stats.limit

\* No slot is lost or made up: every slot is free, handed to a waiter, in the
\* hands of the running task or counted in flight (pool.py:47-63).
SlotConservation == value + granted + InTransit + inFlight = Limit

\* No lost wake-up: while requests are queued and none of them has been handed
\* a slot, no slot is free (pool.py:47).
NoIdleSlotWhileQueued == waiters # <<>> /\ granted = 0 => value = 0

\* The gauges of /status are the truth in every state a thread can see: in
\* flight are exactly the requests inside, waiting exactly those that asked
\* and are not in (pool.py:44-51, 62-73).
GaugesAreTrue ==
    /\ Stats.in_flight = Cardinality(Holders)
    /\ Stats.waiting = Cardinality(Outside)

\* Every request that asks for a slot gets one (pool.py:29, "FIFO").
EveryRequestGetsIn == \A r \in Requests : pc[r] = "arrived" ~> pc[r] = "holding"

-----------------------------------------------------------------------------
\* The gate as FifoGate sees it: a request is in the queue from the moment it
\* is counted as waiting until it is counted as in flight.
TaskAt(place) ==
    IF running # Nobody /\ pc[running] = place THEN <<running>> ELSE <<>>

GateQueue == TaskAt("entered") \o waiters \o TaskAt("arrived")

Fifo == INSTANCE FifoGate WITH queue <- GateQueue, holders <- Holders

\* The gate implements FifoGate (pool.py:26-31: at most N at once, and slots
\* in order of arrival).
ImplementsFifoGate == Fifo!Spec
=============================================================================
