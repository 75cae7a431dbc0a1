---------------------------- MODULE RequestReply ----------------------------
(***************************************************************************)
(* What KataGoWorker.analyze promises its callers: every call is answered  *)
(* at most once, either with a timeout or with the engine's answer to that *)
(* very call: one line for each position it asked about, or the engine's   *)
(* error, carrying the caller's own id.  Processes, pipes, threads and     *)
(* futures are not mentioned; KataGoWorker.tla is shown to implement this. *)
(***************************************************************************)
EXTENDS Naturals, Sequences

CONSTANTS Requests,    \* calls of analyze
          Positions,   \* [Requests -> set of the positions the call asks about]
          ExternalId,  \* [Requests -> the id the caller put in its payload]
          Error        \* in place of a position: the engine refused the query

VARIABLES asked,       \* calls made so far
          reply        \* [Requests -> what the call returned]

vars == <<asked, reply>>

Nothing == [kind |-> "nothing", lines |-> <<>>]
Timeout == [kind |-> "timeout", lines |-> <<>>]
Answer(lines) == [kind |-> "lines", lines |-> lines]

Line(r, t) == [id |-> ExternalId[r], about |-> r, turn |-> t]

\* Refused outright, or answered for every position once, in any order.
Complete(r, lines) ==
    \/ lines = <<Line(r, Error)>>
    \/ /\ \A i \in DOMAIN lines : \E t \in Positions[r] : lines[i] = Line(r, t)
       /\ \A t \in Positions[r] : \E i \in DOMAIN lines : lines[i] = Line(r, t)
       /\ \A i, j \in DOMAIN lines : lines[i] = lines[j] => i = j

Init == asked = {} /\ reply = [r \in Requests |-> Nothing]

Ask(r) ==
    /\ r \notin asked
    /\ asked' = asked \cup {r}
    /\ UNCHANGED reply

\* The answer is read off the next state: any complete one will do.
Return(r) ==
    /\ r \in asked /\ reply[r] = Nothing
    /\ reply'[r].kind = "lines"
    /\ Complete(r, reply'[r].lines)
    /\ reply' = [reply EXCEPT ![r] = Answer(reply'[r].lines)]
    /\ UNCHANGED asked

Expire(r) ==
    /\ r \in asked /\ reply[r] = Nothing
    /\ reply' = [reply EXCEPT ![r] = Timeout]
    /\ UNCHANGED asked

Next == \E r \in Requests : Ask(r) \/ Return(r) \/ Expire(r)

Spec == Init /\ [][Next]_vars
=============================================================================
