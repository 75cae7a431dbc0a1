------------------------------ MODULE FifoGate ------------------------------
(***************************************************************************)
(* What a ConcurrencyGate promises to the requests of one model: at most   *)
(* Limit of them are inside the gated section, and they get in in the      *)
(* order in which they asked.  Semaphores, futures and the event loop are  *)
(* not mentioned here; ConcurrencyGate.tla is shown to implement this.     *)
(***************************************************************************)
EXTENDS Naturals, Sequences, FiniteSets

CONSTANTS Requests,  \* clients of the gated model, one request each at a time
          Limit      \* how many requests may be inside at once

VARIABLES queue,     \* requests that asked and are not in yet, oldest first
          holders    \* requests that are inside

vars == <<queue, holders>>

TypeOK == queue \in Seq(Requests) /\ holders \subseteq Requests

Init == queue = <<>> /\ holders = {}

Ask(r) ==
    /\ r \notin holders
    /\ \A i \in DOMAIN queue : queue[i] # r
    /\ queue' = Append(queue, r)
    /\ UNCHANGED holders

GetIn(r) ==
    /\ queue # <<>> /\ r = Head(queue)
    /\ Cardinality(holders) < Limit
    /\ queue' = Tail(queue)
    /\ holders' = holders \cup {r}

GetOut(r) ==
    /\ r \in holders
    /\ holders' = holders \ {r}
    /\ UNCHANGED queue

Next == \E r \in Requests : Ask(r) \/ GetIn(r) \/ GetOut(r)

Spec == Init /\ [][Next]_vars
=============================================================================
