----------------------- MODULE ConcurrencyGateProofs -----------------------
(***************************************************************************)
(* Proofs about ConcurrencyGate, for every number of clients and every     *)
(* limit.  The inductive invariant IInv joins the type invariant, the      *)
(* control invariant of the event loop (only the running task is between   *)
(* two awaits), the conservation of slots, and the two facts that are      *)
(* inductive next to them: no free slot while a request sleeps, and gauges *)
(* that count what they say they count.                                    *)
(*                                                                         *)
(* The second part shows that ConcurrencyGate implements FifoGate: the     *)
(* requests between the two updates of the gauges form a FIFO queue, and   *)
(* no more than Limit of them are inside.  The steps of the semaphore are  *)
(* stuttering steps of FifoGate; entering needs the conservation of slots, *)
(* asking needs that nobody queues twice (QueueInv).                       *)
(***************************************************************************)
EXTENDS ConcurrencyGate, FiniteSetTheorems, SequenceTheorems, TLAPS

\* A task is in the middle of acquire() or of its exit only while it runs.
OneTaskRuns ==
    \A r \in Requests : pc[r] \in {"arrived", "entered", "leaving"} <=> running = r

IInv ==
    /\ TypeOK
    /\ OneTaskRuns
    /\ SlotConservation
    /\ NoIdleSlotWhileQueued
    /\ GaugesAreTrue

-----------------------------------------------------------------------------
\* How many waiters a resumed task wakes: never more than there are slots to
\* hand out or waiters asleep, and at least one if there is one of each.
LEMMA WakesBounded ==
    ASSUME NEW spare \in Nat, NEW asleep \in Nat, NEW k \in Wakes(spare, asleep)
    PROVE  /\ k \in Nat /\ k <= spare /\ k <= asleep
           /\ k = 0 => spare = 0 \/ asleep = 0
  BY DEF Wakes

\* Cardinality of a set of requests that gains or loses one member.
LEMMA SetOfRequests ==
    ASSUME NEW S \in SUBSET Requests, NEW r \in Requests
    PROVE  /\ IsFiniteSet(S)
           /\ Cardinality(S) \in Nat
           /\ r \notin S => Cardinality(S \cup {r}) = Cardinality(S) + 1
           /\ r \in S => Cardinality(S \ {r}) = Cardinality(S) - 1
<1>1. IsFiniteSet(S)
  BY FS_Subset, GateAssumption DEF GateAssumption
<1> QED
  BY <1>1, FS_CardinalityType, FS_AddElement, FS_RemoveElement

\* The gate starts with every slot free and nobody about.
LEMMA InitEstablishesIInv == Init => IInv
<1> SUFFICES ASSUME Init PROVE IInv
  OBVIOUS
<1> USE GateAssumption DEF GateAssumption, Init
<1>1. TypeOK
  BY DEF TypeOK, Places
<1>2. OneTaskRuns
  BY DEF OneTaskRuns
<1>3. SlotConservation
  BY DEF SlotConservation, InTransit
<1>4. NoIdleSlotWhileQueued
  BY DEF NoIdleSlotWhileQueued
<1>5. GaugesAreTrue
  <2>1. Holders = {} /\ Outside = {}
    BY DEF Holders, Outside
  <2> QED
    BY <2>1, FS_EmptySet DEF GaugesAreTrue, Stats
<1> QED
  BY <1>1, <1>2, <1>3, <1>4, <1>5 DEF IInv

-----------------------------------------------------------------------------
\* Every step moves at most one request, and counts it where it goes.
LEMMA StepKeepsGauges == IInv /\ Next => GaugesAreTrue'
<1> SUFFICES ASSUME IInv, NEW r \in Requests,
                    \/ Arrive(r) \/ TakeFree(r) \/ Enqueue(r) \/ Resume(r)
                    \/ Enter(r) \/ Leave(r) \/ Release(r)
             PROVE  GaugesAreTrue'
  BY DEF Next
<1> DEFINE H == Holders  O == Outside
<1> USE DEF IInv, TypeOK, GaugesAreTrue, Stats, Go, semaphore, gauges
<1>0. /\ H \in SUBSET Requests /\ O \in SUBSET Requests
      /\ r \in H <=> pc[r] = "holding"
      /\ r \in O <=> pc[r] \in {"arrived", "queued", "entered"}
  BY DEF Holders, Outside
<1>1. CASE Arrive(r)
  <2>1. H' = H /\ O' = O \cup {r}
    BY <1>1 DEF Arrive, Holders, Outside
  <2>2. r \notin O
    BY <1>0, <1>1 DEF Arrive
  <2> QED
    BY <1>0, <1>1, <2>1, <2>2, SetOfRequests DEF Arrive, CountWaiting
<1>2. CASE TakeFree(r) \/ Enqueue(r) \/ Resume(r)
  <2>1. H' = H /\ O' = O
    BY <1>2 DEF TakeFree, Enqueue, Resume, Holders, Outside
  <2>2. UNCHANGED <<waiting, inFlight>>
    BY <1>2 DEF TakeFree, Enqueue, Resume
  <2> QED
    BY <2>1, <2>2
<1>3. CASE Enter(r)
  <2>1. H' = H \cup {r} /\ O' = O \ {r}
    BY <1>3 DEF Enter, Holders, Outside
  <2>2. r \notin H /\ r \in O
    BY <1>0, <1>3 DEF Enter
  <2> QED
    BY <1>0, <1>3, <2>1, <2>2, SetOfRequests DEF Enter, CountIn
<1>4. CASE Leave(r)
  <2>1. H' = H \ {r} /\ O' = O
    BY <1>4 DEF Leave, Holders, Outside
  <2>2. r \in H
    BY <1>0, <1>4 DEF Leave
  <2> QED
    BY <1>0, <1>4, <2>1, <2>2, SetOfRequests DEF Leave, CountOut
<1>5. CASE Release(r)
  <2>1. H' = H /\ O' = O
    BY <1>5 DEF Release, Holders, Outside
  <2> QED
    BY <1>5, <2>1 DEF Release
<1> QED
  BY <1>1, <1>2, <1>3, <1>4, <1>5

\* The type invariant is preserved; what carries it is that a slot is taken
\* only when there is one, and handed only to a waiter.  The gauges are not
\* negative because they are the sizes of sets.
LEMMA StepKeepsTypeOK == IInv /\ Next => TypeOK'
<1> SUFFICES ASSUME IInv, NEW r \in Requests,
                    \/ Arrive(r) \/ TakeFree(r) \/ Enqueue(r) \/ Resume(r)
                    \/ Enter(r) \/ Leave(r) \/ Release(r)
             PROVE  TypeOK'
  BY DEF Next
<1> USE GateAssumption DEF GateAssumption, IInv, TypeOK, Places, Go, semaphore, gauges
<1>0. waiting' \in Nat /\ inFlight' \in Nat
  <2>1. waiting' = Cardinality(Outside') /\ inFlight' = Cardinality(Holders')
    BY StepKeepsGauges DEF Next, GaugesAreTrue, Stats
  <2>2. Outside' \in SUBSET Requests /\ Holders' \in SUBSET Requests
    BY DEF Outside, Holders
  <2> QED
    BY <2>1, <2>2, SetOfRequests
<1>1. CASE Arrive(r)
  BY <1>0, <1>1 DEF Arrive
<1>2. CASE TakeFree(r)
  BY <1>0, <1>2 DEF TakeFree, Locked
<1>3. CASE Enqueue(r)
  BY <1>0, <1>3 DEF Enqueue
<1>4. CASE Resume(r)
  <2>1. PICK k \in Wakes(value, Len(waiters) - granted) :
           value' = value - k /\ granted' = granted - 1 + k
    BY <1>4 DEF Resume
  <2>2. k \in Nat /\ k <= value /\ k <= Len(waiters) - granted
    BY <2>1, WakesBounded
  <2>3. waiters # <<>> /\ waiters' = Tail(waiters)
    BY <1>4 DEF Resume
  <2>4. waiters' \in Seq(Requests) /\ Len(waiters') = Len(waiters) - 1
    BY <2>3
  <2>5. value' \in Nat /\ granted' \in 0..Len(waiters')
    BY <1>4, <2>1, <2>2, <2>4 DEF Resume
  <2> QED
    BY <1>0, <1>4, <2>4, <2>5 DEF Resume
<1>5. CASE Enter(r)
  BY <1>0, <1>5 DEF Enter
<1>6. CASE Leave(r)
  BY <1>0, <1>6 DEF Leave
<1>7. CASE Release(r)
  BY <1>0, <1>7 DEF Release, Exit, GiveBack
<1> QED
  BY <1>1, <1>2, <1>3, <1>4, <1>5, <1>6, <1>7

\* The loop starts or resumes a task only while none runs, and the task names
\* itself the running one until it awaits.
LEMMA StepKeepsOneTaskRuns == IInv /\ Next => OneTaskRuns'
<1> SUFFICES ASSUME IInv, NEW r \in Requests,
                    \/ Arrive(r) \/ TakeFree(r) \/ Enqueue(r) \/ Resume(r)
                    \/ Enter(r) \/ Leave(r) \/ Release(r)
             PROVE  OneTaskRuns'
  BY DEF Next
<1> QED
  BY GateAssumption DEF GateAssumption, IInv, TypeOK, OneTaskRuns, Go, Arrive,
     TakeFree, Enqueue, Resume, Enter, Leave, Release

\* Slots only move between the counter, the waiters, the running task and the
\* requests in flight.
LEMMA StepKeepsSlots == IInv /\ Next => SlotConservation'
<1> SUFFICES ASSUME IInv, NEW r \in Requests,
                    \/ Arrive(r) \/ TakeFree(r) \/ Enqueue(r) \/ Resume(r)
                    \/ Enter(r) \/ Leave(r) \/ Release(r)
             PROVE  SlotConservation'
  BY DEF Next
<1> USE GateAssumption DEF GateAssumption, IInv, TypeOK, SlotConservation,
        InTransit, Go, semaphore, gauges
<1>1. CASE Arrive(r)
  BY <1>1 DEF Arrive
<1>2. CASE TakeFree(r)
  BY <1>2 DEF TakeFree
<1>3. CASE Enqueue(r)
  BY <1>3 DEF Enqueue
<1>4. CASE Resume(r)
  <2>1. PICK k \in Wakes(value, Len(waiters) - granted) :
           value' = value - k /\ granted' = granted - 1 + k
    BY <1>4 DEF Resume
  <2>2. k \in Nat
    BY <2>1, WakesBounded
  <2>3. InTransit = 0 /\ InTransit' = 1
    BY <1>4 DEF Resume
  <2> QED
    BY <1>4, <2>1, <2>2, <2>3 DEF Resume
<1>5. CASE Enter(r)
  BY <1>5 DEF Enter, CountIn
<1>6. CASE Leave(r)
  BY <1>6 DEF Leave, CountOut
<1>7. CASE Release(r)
  BY <1>7 DEF Release, Exit, GiveBack
<1> QED
  BY <1>1, <1>2, <1>3, <1>4, <1>5, <1>6, <1>7

\* Whoever frees a slot wakes a sleeper, and a newcomer sleeps only behind
\* others or when no slot is free.
LEMMA StepKeepsNoIdleSlot == IInv /\ Next => NoIdleSlotWhileQueued'
<1> SUFFICES ASSUME IInv, NEW r \in Requests,
                    \/ Arrive(r) \/ TakeFree(r) \/ Enqueue(r) \/ Resume(r)
                    \/ Enter(r) \/ Leave(r) \/ Release(r)
             PROVE  NoIdleSlotWhileQueued'
  BY DEF Next
<1> USE GateAssumption DEF GateAssumption, IInv, TypeOK, NoIdleSlotWhileQueued,
        semaphore, gauges
<1>1. CASE Arrive(r)
  BY <1>1 DEF Arrive
<1>2. CASE TakeFree(r)
  BY <1>2 DEF TakeFree, Locked
<1>3. CASE Enqueue(r)
  BY <1>3 DEF Enqueue, Locked
<1>4. CASE Resume(r)
  <2>1. PICK k \in Wakes(value, Len(waiters) - granted) :
           value' = value - k /\ granted' = granted - 1 + k
    BY <1>4 DEF Resume
  <2>2. /\ k \in Nat /\ k <= value
        /\ k = 0 => value = 0 \/ Len(waiters) - granted = 0
    BY <2>1, WakesBounded
  <2>3. waiters # <<>> /\ waiters' = Tail(waiters) /\ granted > 0
    BY <1>4 DEF Resume
  <2>4. waiters' \in Seq(Requests) /\ Len(waiters') = Len(waiters) - 1
    BY <2>3
  <2>5. Len(waiters') = 0 => waiters' = <<>>
    BY <2>4
  <2>6. granted' = 0 => k = 0 /\ granted = 1
    BY <2>1, <2>2, <2>3
  <2> QED
    BY <2>1, <2>2, <2>4, <2>5, <2>6
<1>5. CASE Enter(r)
  BY <1>5 DEF Enter
<1>6. CASE Leave(r)
  BY <1>6 DEF Leave
<1>7. CASE Release(r)
  BY <1>7 DEF Release, Exit, GiveBack
<1> QED
  BY <1>1, <1>2, <1>3, <1>4, <1>5, <1>6, <1>7

\* A step that changes nothing changes no part of the invariant.
LEMMA StutterKeepsIInv == IInv /\ UNCHANGED vars => IInv'
  BY DEF IInv, vars, TypeOK, OneTaskRuns, SlotConservation, InTransit,
     NoIdleSlotWhileQueued, GaugesAreTrue, Stats, Holders, Outside

\* IInv holds in every reachable state.
THEOREM Invariance == Spec => []IInv
<1>1. IInv /\ [Next]_vars => IInv'
  BY StepKeepsTypeOK, StepKeepsOneTaskRuns, StepKeepsSlots, StepKeepsNoIdleSlot,
     StepKeepsGauges, StutterKeepsIInv DEF IInv
<1> QED
  BY InitEstablishesIInv, <1>1, PTL DEF Spec

\* The state of the gate is what the code takes it for: in particular the
\* counter of the semaphore is never negative and no more slots are handed out
\* than there are waiters.
THEOREM TypeCorrectness == Spec => []TypeOK
<1>1. IInv => TypeOK
  BY DEF IInv
<1> QED
  BY Invariance, <1>1, PTL

\* No slot is lost or made up, whatever the limit and the number of clients.
THEOREM SlotsConserved == Spec => []SlotConservation
<1>1. IInv => SlotConservation
  BY DEF IInv
<1> QED
  BY Invariance, <1>1, PTL

\* /status never reports more requests in flight than the limit.
THEOREM LimitHolds == Spec => []InFlightWithinLimit
<1>1. IInv => InFlightWithinLimit
  BY GateAssumption DEF GateAssumption, IInv, TypeOK, SlotConservation,
     InTransit, InFlightWithinLimit, Stats
<1> QED
  BY Invariance, <1>1, PTL

\* No wake-up is lost.
THEOREM NoLostWakeUp == Spec => []NoIdleSlotWhileQueued
<1>1. IInv => NoIdleSlotWhileQueued
  BY DEF IInv
<1> QED
  BY Invariance, <1>1, PTL

\* The gauges of /status are true in every state a thread can see, hence at
\* most Limit requests are really inside.
THEOREM GaugesTrue == Spec => [](GaugesAreTrue /\ Cardinality(Holders) <= Limit)
<1>1. IInv => GaugesAreTrue /\ Cardinality(Holders) <= Limit
  BY GateAssumption DEF GateAssumption, IInv, TypeOK, SlotConservation,
     InTransit, GaugesAreTrue, Stats
<1> QED
  BY Invariance, <1>1, PTL

-----------------------------------------------------------------------------
\* The semaphore's queue holds requests that wait in it, each of them once.
QueueInv ==
    /\ \A i \in DOMAIN waiters : pc[waiters[i]] = "queued"
    /\ \A i, j \in DOMAIN waiters : waiters[i] = waiters[j] => i = j

-----------------------------------------------------------------------------
\* The queue seen by FifoGate, depending on where the running task is.
LEMMA QueueViews ==
    ASSUME NEW w \in Seq(Requests), NEW r \in Requests
    PROVE  /\ <<>> \o w \o <<>> = w
           /\ <<>> \o w \o <<r>> = Append(w, r)
           /\ <<r>> \o w \o <<>> = <<r>> \o w
           /\ <<r>> \o <<>> \o <<>> = <<r>>
           /\ <<>> \o <<>> \o <<r>> = <<r>>
           /\ <<r>> \o w # <<>>
           /\ Head(<<r>> \o w) = r
           /\ Tail(<<r>> \o w) = w
<1>1. <<r>> \in Seq(Requests) /\ <<>> \in Seq(Requests) /\ Len(<<r>>) = 1
  OBVIOUS
<1>2. <<r>> \o w \in Seq(Requests)
  BY <1>1, ConcatProperties
<1>3. <<>> \o w = w /\ w \o <<>> = w /\ (<<r>> \o w) \o <<>> = <<r>> \o w
  BY <1>1, <1>2, ConcatEmptySeq
<1>4. /\ <<r>> \o <<>> = <<r>> /\ <<>> \o <<r>> = <<r>> /\ <<>> \o <<>> = <<>>
  BY <1>1, ConcatEmptySeq
<1>5. /\ Len(<<r>> \o w) = 1 + Len(w)
      /\ \A i \in 1 .. 1 + Len(w) :
            (<<r>> \o w)[i] = IF i <= 1 THEN <<r>>[i] ELSE w[i - 1]
  BY <1>1, ConcatProperties
<1>6. <<r>> \o w # <<>> /\ Head(<<r>> \o w) = r
  BY <1>2, <1>5
<1>7. Tail(<<r>> \o w) = w
  <2>1. /\ Tail(<<r>> \o w) \in Seq(Requests)
        /\ Len(Tail(<<r>> \o w)) = Len(w)
        /\ \A i \in 1 .. Len(w) : Tail(<<r>> \o w)[i] = (<<r>> \o w)[i + 1]
    BY <1>2, <1>5, <1>6, HeadTailProperties
  <2>2. \A i \in 1 .. Len(w) : Tail(<<r>> \o w)[i] = w[i]
    BY <1>5, <2>1
  <2> QED
    BY <2>1, <2>2, SeqEqual
<1>8. w \o <<r>> = Append(w, r)
  <2>1. /\ Append(w, r) \in Seq(Requests) /\ Len(Append(w, r)) = Len(w) + 1
        /\ \A i \in 1 .. Len(w) + 1 :
              Append(w, r)[i] = IF i <= Len(w) THEN w[i] ELSE r
    OBVIOUS
  <2>2. /\ w \o <<r>> \in Seq(Requests) /\ Len(w \o <<r>>) = Len(w) + 1
        /\ \A i \in 1 .. Len(w) + 1 :
              (w \o <<r>>)[i] = IF i <= Len(w) THEN w[i] ELSE <<r>>[i - Len(w)]
    BY <1>1, ConcatProperties
  <2> QED
    BY <2>1, <2>2, SeqEqual
<1> QED
  BY <1>3, <1>4, <1>6, <1>7, <1>8

\* A sequence splits into its head and its tail.
LEMMA HeadAndTail ==
    ASSUME NEW w \in Seq(Requests), w # <<>>
    PROVE  Head(w) \in Requests /\ Tail(w) \in Seq(Requests) /\ <<Head(w)>> \o Tail(w) = w
<1>1. /\ Head(w) \in Requests /\ Tail(w) \in Seq(Requests)
      /\ Len(Tail(w)) = Len(w) - 1
      /\ \A i \in 1 .. Len(Tail(w)) : Tail(w)[i] = w[i + 1]
  BY HeadTailProperties
<1>2. <<Head(w)>> \in Seq(Requests) /\ Len(<<Head(w)>>) = 1 /\ Head(w) = w[1]
  BY <1>1
<1>3. /\ <<Head(w)>> \o Tail(w) \in Seq(Requests)
      /\ Len(<<Head(w)>> \o Tail(w)) = 1 + Len(Tail(w))
      /\ \A i \in 1 .. 1 + Len(Tail(w)) : (<<Head(w)>> \o Tail(w))[i] =
            IF i <= 1 THEN <<Head(w)>>[i] ELSE Tail(w)[i - 1]
  BY <1>1, <1>2, ConcatProperties
<1>4. \A i \in 1 .. Len(w) : (<<Head(w)>> \o Tail(w))[i] = w[i]
  BY <1>1, <1>2, <1>3
<1> QED
  BY <1>1, <1>3, <1>4, SeqEqual

-----------------------------------------------------------------------------
\* Nobody queues in the semaphore at the start.
LEMMA InitEstablishesQueueInv == Init => QueueInv
  BY DEF Init, QueueInv

\* A request queues only when it has just arrived, and leaves the queue when it
\* stops being queued.
LEMMA StepKeepsQueueInv == IInv /\ QueueInv /\ [Next]_vars => QueueInv'
<1> SUFFICES ASSUME IInv, QueueInv, [Next]_vars
             PROVE  QueueInv'
  OBVIOUS
<1> USE DEF IInv, TypeOK, QueueInv, Go, semaphore, gauges
<1>1. ASSUME NEW r \in Requests, pc[r] # "queued",
             Arrive(r) \/ TakeFree(r) \/ Enter(r) \/ Leave(r) \/ Release(r)
      PROVE  QueueInv'
  BY <1>1 DEF Arrive, TakeFree, Enter, Leave, Release
<1>2. ASSUME NEW r \in Requests, Enqueue(r)
      PROVE  QueueInv'
  <2>1. waiters' = Append(waiters, r) /\ pc[r] = "arrived" /\ pc' = [pc EXCEPT ![r] = "queued"]
    BY <1>2 DEF Enqueue
  <2>2. /\ DOMAIN waiters' = 1 .. Len(waiters) + 1
        /\ \A i \in 1 .. Len(waiters) : waiters'[i] = waiters[i] /\ waiters[i] \in Requests
        /\ waiters'[Len(waiters) + 1] = r
    BY <2>1
  <2>3. \A i \in 1 .. Len(waiters) : waiters[i] # r
    BY <2>1
  <2> QED
    BY <2>1, <2>2, <2>3
<1>3. ASSUME NEW r \in Requests, Resume(r)
      PROVE  QueueInv'
  <2>1. /\ waiters # <<>> /\ waiters' = Tail(waiters) /\ r = waiters[1]
        /\ pc' = [pc EXCEPT ![r] = "entered"]
    BY <1>3 DEF Resume
  <2>2. /\ DOMAIN waiters' = 1 .. Len(waiters) - 1
        /\ \A i \in 1 .. Len(waiters) - 1 : waiters'[i] = waiters[i + 1]
    BY <2>1, HeadTailProperties
  <2>3. \A i \in 1 .. Len(waiters) - 1 : waiters[i + 1] # r /\ waiters[i + 1] \in Requests
    BY <2>1
  <2>4. \A i \in DOMAIN waiters' : pc'[waiters'[i]] = "queued"
    BY <2>1, <2>2, <2>3
  <2>5. \A i, j \in DOMAIN waiters' : waiters'[i] = waiters'[j] => i = j
    <3>1. SUFFICES ASSUME NEW i \in 1 .. Len(waiters) - 1, NEW j \in 1 .. Len(waiters) - 1,
                          waiters[i + 1] = waiters[j + 1]
                   PROVE  i = j
      BY <2>2
    <3>2. i + 1 = j + 1
      BY <3>1
    <3> QED
      BY <3>2
  <2> QED
    BY <2>4, <2>5
<1>4. CASE UNCHANGED vars
  BY <1>4 DEF vars
<1> QED
  BY <1>1, <1>2, <1>3, <1>4 DEF Next, Arrive, TakeFree, Enter, Leave, Release

\* There is room for the request that is about to be counted in.
LEMMA RoomToEnter ==
    ASSUME IInv, NEW r \in Requests, Enter(r)
    PROVE  Cardinality(Holders) < Limit
<1>1. InTransit = 1
  BY GateAssumption DEF GateAssumption, Enter, Go, InTransit
<1> QED
  BY <1>1, GateAssumption DEF GateAssumption, IInv, TypeOK, SlotConservation,
     GaugesAreTrue, Stats

-----------------------------------------------------------------------------
\* Each step of the gate is a step of FifoGate or changes nothing of it.
LEMMA StepImplements ==
    IInv /\ QueueInv /\ [Next]_vars => [Fifo!Next]_<<GateQueue, Holders>>
<1> SUFFICES ASSUME IInv, QueueInv, [Next]_vars
             PROVE  [Fifo!Next]_<<GateQueue, Holders>>
  OBVIOUS
<1> USE GateAssumption DEF GateAssumption, IInv, TypeOK, OneTaskRuns, Go,
        semaphore, gauges, GateQueue, TaskAt
<1>0. waiters \in Seq(Requests) /\ <<>> \in Seq(Requests)
  OBVIOUS
<1>1. ASSUME NEW r \in Requests, Arrive(r)
      PROVE  Fifo!Ask(r)
  <2>1. GateQueue = waiters
    BY <1>1, <1>0, QueueViews DEF Arrive
  <2>2. GateQueue' = Append(waiters, r)
    BY <1>1, <1>0, QueueViews DEF Arrive
  <2>3. Holders' = Holders /\ r \notin Holders
    BY <1>1 DEF Arrive, Holders
  <2>4. \A i \in DOMAIN waiters : waiters[i] # r
    BY <1>1 DEF Arrive, QueueInv
  <2> QED
    BY <2>1, <2>2, <2>3, <2>4 DEF Fifo!Ask
<1>2. ASSUME NEW r \in Requests, TakeFree(r)
      PROVE  UNCHANGED <<GateQueue, Holders>>
  <2>1. waiters = <<>> /\ waiters' = <<>>
    BY <1>2 DEF TakeFree, Locked
  <2>2. GateQueue = <<r>> /\ GateQueue' = <<r>>
    BY <1>2, <1>0, <2>1, QueueViews DEF TakeFree
  <2>3. Holders' = Holders
    BY <1>2 DEF TakeFree, Holders
  <2> QED
    BY <2>2, <2>3
<1>3. ASSUME NEW r \in Requests, Enqueue(r)
      PROVE  UNCHANGED <<GateQueue, Holders>>
  <2>1. waiters' = Append(waiters, r) /\ waiters' \in Seq(Requests)
    BY <1>3 DEF Enqueue
  <2>2. GateQueue = Append(waiters, r)
    BY <1>3, <1>0, QueueViews DEF Enqueue
  <2>3. GateQueue' = waiters'
    BY <1>3, <2>1, QueueViews DEF Enqueue
  <2>4. Holders' = Holders
    BY <1>3 DEF Enqueue, Holders
  <2> QED
    BY <2>1, <2>2, <2>3, <2>4
<1>4. ASSUME NEW r \in Requests, Resume(r)
      PROVE  UNCHANGED <<GateQueue, Holders>>
  <2>1. waiters # <<>> /\ r = Head(waiters) /\ waiters' = Tail(waiters)
    BY <1>4 DEF Resume
  <2>2. GateQueue = waiters
    BY <1>4, <1>0, QueueViews DEF Resume
  <2>3. waiters' \in Seq(Requests) /\ <<r>> \o waiters' = waiters
    BY <1>0, <2>1, HeadAndTail
  <2>4. GateQueue' = <<r>> \o waiters'
    BY <1>4, <2>3, QueueViews DEF Resume
  <2>5. Holders' = Holders
    BY <1>4 DEF Resume, Holders
  <2> QED
    BY <2>2, <2>3, <2>4, <2>5
<1>5. ASSUME NEW r \in Requests, Enter(r)
      PROVE  Fifo!GetIn(r)
  <2>1. GateQueue = <<r>> \o waiters
    BY <1>5, <1>0, QueueViews DEF Enter
  <2>2. GateQueue' = waiters
    BY <1>5, <1>0, QueueViews DEF Enter
  <2>3. Holders' = Holders \cup {r}
    BY <1>5 DEF Enter, Holders
  <2>4. Cardinality(Holders) < Limit
    BY <1>5, RoomToEnter
  <2>5. Fifo!Cardinality(Holders) = Cardinality(Holders)
    BY DEF Fifo!Cardinality, Cardinality
  <2> HIDE DEF GateQueue, TaskAt
  <2>6. GateQueue # <<>> /\ r = Head(GateQueue) /\ GateQueue' = Tail(GateQueue)
    BY <1>0, <2>1, <2>2, QueueViews
  <2> QED
    BY <2>3, <2>4, <2>5, <2>6 DEF Fifo!GetIn
<1>6. ASSUME NEW r \in Requests, Leave(r)
      PROVE  Fifo!GetOut(r)
  <2>1. GateQueue = waiters /\ GateQueue' = waiters
    BY <1>6, <1>0, QueueViews DEF Leave
  <2>2. r \in Holders /\ Holders' = Holders \ {r}
    BY <1>6 DEF Leave, Holders
  <2> QED
    BY <2>1, <2>2 DEF Fifo!GetOut
<1>7. ASSUME NEW r \in Requests, Release(r)
      PROVE  UNCHANGED <<GateQueue, Holders>>
  <2>1. GateQueue = waiters /\ GateQueue' = waiters
    BY <1>7, <1>0, QueueViews DEF Release
  <2>2. Holders' = Holders
    BY <1>7 DEF Release, Holders
  <2> QED
    BY <2>1, <2>2
<1>8. CASE UNCHANGED vars
  BY <1>8 DEF vars, Holders
<1> QED
  BY <1>1, <1>2, <1>3, <1>4, <1>5, <1>6, <1>7, <1>8 DEF Next, Fifo!Next

\* The gate implements FifoGate (the property of the run that checks the gate):
\* every client gets in in the order of arrival, and at most Limit at a time.
THEOREM Refinement == Spec => ImplementsFifoGate
<1>1. Init => Fifo!Init
  <2> SUFFICES ASSUME Init PROVE GateQueue = <<>> /\ Holders = {}
    BY DEF GateQueue, Fifo!Init
  <2>1. TaskAt("entered") = <<>> /\ TaskAt("arrived") = <<>> /\ waiters = <<>>
    BY DEF Init, TaskAt
  <2>2. GateQueue = <<>>
    BY <2>1, ConcatEmptySeq DEF GateQueue
  <2> QED
    BY <2>2 DEF Init, Holders
<1>2. IInv /\ QueueInv /\ [Next]_vars => [Fifo!Next]_Fifo!vars
  BY StepImplements DEF Fifo!vars, GateQueue
<1> QED
  BY Invariance, InitEstablishesQueueInv, StepKeepsQueueInv, <1>1, <1>2, PTL
     DEF Spec, ImplementsFifoGate, Fifo!Spec
=============================================================================
