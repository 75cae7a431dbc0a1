------------------------- MODULE KataGoWorkerProofs -------------------------
(***************************************************************************)
(* Safety of KataGoWorker, for every set of calls, every payload and every *)
(* pipe size.  The inductive invariant has three parts: the types; CallInv *)
(* for each call, which ties the place of the call in analyze to its       *)
(* future, to the reader's table and to the completion that may be on its  *)
(* way through the loop; ExitInv for the record of the end of the process. *)
(***************************************************************************)
EXTENDS KataGoWorker, SequenceLemmas, SequenceTheorems, FiniteSetTheorems

-----------------------------------------------------------------------------
(* Types.                                                                  *)

\* Every query is about some position, and no position is the error line.
LEMMA PositionsType ==
    ASSUME NEW r \in Requests
    PROVE  Positions[r] \subseteq Position \ {Error} /\ Positions[r] # {}
<1>1. Positions[r] = IF Turns[r] = Unset THEN {Current} ELSE {Turns[r][i] : i \in DOMAIN Turns[r]}
  BY DEF Positions
<1>2. CASE Turns[r] = Unset
  <2>1. Positions[r] = {Current} /\ Current # Error
    BY <1>1, <1>2, WorkerAssumption DEF WorkerAssumption
  <2> QED
    BY <2>1 DEF Position
<1>3. CASE Turns[r] # Unset
  <2>1. Turns[r] \in Seq(Position \ {Error}) /\ Turns[r] # <<>>
    BY <1>3, WorkerAssumption DEF WorkerAssumption
  <2>2. 1 \in DOMAIN Turns[r]
    BY <2>1
  <2>3. \A i \in DOMAIN Turns[r] : Turns[r][i] \in Position \ {Error}
    BY <2>1
  <2>4. Positions[r] = {Turns[r][i] : i \in DOMAIN Turns[r]}
    BY <1>1, <1>3
  <2> QED
    BY <2>2, <2>3, <2>4
<1> QED
  BY <1>2, <1>3

\* A line of the engine is about the query whose id it carries.
LEMMA LineParts ==
    ASSUME NEW l \in EngineLines
    PROVE  /\ l \in [id : Requests, about : Requests, turn : Position]
           /\ l.id \in Requests /\ l.about = l.id /\ l.turn \in Position
           /\ l = EngineLine(l.id, l.turn)
BY DEF EngineLines, EngineLine

\* `result["id"] = external_id`
LEMMA Relabelled ==
    ASSUME NEW l \in EngineLines, NEW x
    PROVE  [l EXCEPT !.id = x] = [id |-> x, about |-> l.about, turn |-> l.turn]
<1>1. l \in [id : Requests, about : Requests, turn : Position]
  BY LineParts
<1>2. [l EXCEPT !.id = x] \in [id : {x}, about : Requests, turn : Position]
  BY <1>1
<1> QED
  BY <1>1, <1>2

\* Every step keeps the types.
LEMMA TypeStep == TypeOK /\ [Next]_vars => TypeOK'
<1> SUFFICES ASSUME TypeOK, [Next]_vars PROVE TypeOK'
  OBVIOUS
<1> USE DEF TypeOK, callVars, taskVars, futureVars, readerVars, writerVars, exitVars,
            processVars, engineVars, threadVars
<1>1. ASSUME NEW r \in Requests, Register(r) PROVE TypeOK'
  BY <1>1 DEF Register, Begin, Go, RegisteredWith
<1>2. ASSUME NEW r \in Requests, Enqueue(r) PROVE TypeOK'
  BY <1>2 DEF Enqueue, End, Go
<1>3. ASSUME NEW r \in Requests, TimerFires(r) PROVE TypeOK'
  BY <1>3 DEF TimerFires
<1>4. ASSUME NEW r \in Requests, Return(r) PROVE TypeOK'
  <2> DEFINE ls == [i \in DOMAIN result[r] |-> [result[r][i] EXCEPT !.id = ExternalId[r]]]
  <2>1. ASSUME NEW i \in DOMAIN result[r] PROVE ls[i] \in ReplyLines
    <3>1. result[r] \in Seq(EngineLines)
      OBVIOUS
    <3>2. result[r][i] \in EngineLines
      BY <3>1
    <3>3. ls[i] = [id |-> ExternalId[r], about |-> result[r][i].about, turn |-> result[r][i].turn]
      BY <3>2, Relabelled
    <3>4. result[r][i].about \in Requests /\ result[r][i].turn \in Position
      BY <3>2, LineParts
    <3> QED
      BY <3>3, <3>4 DEF ReplyLines
  <2>2. ls \in Seq(ReplyLines)
    <3>1. Len(result[r]) \in Nat /\ DOMAIN result[r] = 1 .. Len(result[r])
      OBVIOUS
    <3>2. ls \in [1 .. Len(result[r]) -> ReplyLines]
      BY <2>1, <3>1
    <3> QED
      BY <3>1, <3>2
  <2>3. reply' = [reply EXCEPT ![r] = Answer(ls)]
    BY <1>4 DEF Return
  <2>4. Answer(ls) \in [kind : {"nothing", "timeout", "lines"}, lines : Seq(ReplyLines)]
    BY <2>2 DEF Answer
  <2>5. /\ UNCHANGED <<running, future, result, timerFired, readerVars, writeQueue, threadVars>>
        /\ pc' = [pc EXCEPT ![r] = "answered"]
    BY <1>4 DEF Return, Go
  <2>6. reply' \in [Requests ->
          [kind : {"nothing", "timeout", "lines"}, lines : Seq(ReplyLines)]]
    BY <2>3, <2>4, Zenon
  <2> QED
    BY <2>5, <2>6
<1>5. ASSUME NEW r \in Requests, Expire(r) PROVE TypeOK'
  BY <1>5 DEF Expire, Begin, Go
<1>6. ASSUME NEW r \in Requests, Forget(r) PROVE TypeOK'
  BY <1>6 DEF Forget, End, Go, RegisteredAfterTimeout, Timeout
<1>7. ASSUME NEW r \in Requests, EngineRefuses(r) PROVE TypeOK'
  <2>1. EngineLine(r, Error) \in EngineLines
    <3>1. Error \in Position
      BY DEF Position
    <3> QED
      BY <3>1 DEF EngineLines
  <2>2. stdout' \in Seq(EngineLines)
    BY <1>7, <2>1, AppendType DEF EngineRefuses, EnginePrints
  <2>3. left' \in [Requests -> SUBSET Position]
    BY <1>7 DEF EngineRefuses
  <2> QED
    BY <1>7, <2>2, <2>3 DEF EngineRefuses, EnginePrints
<1>8. ASSUME NEW r \in Requests, NEW t \in Positions[r], EngineAnswers(r, t) PROVE TypeOK'
  <2>1. EngineLine(r, t) \in EngineLines
    BY PositionsType DEF EngineLines
  <2>2. stdout' \in Seq(EngineLines)
    BY <1>8, <2>1, AppendType DEF EngineAnswers, EnginePrints
  <2>3. left' \in [Requests -> SUBSET Position]
    BY <1>8 DEF EngineAnswers
  <2> QED
    BY <1>8, <2>2, <2>3 DEF EngineAnswers, EnginePrints
<1>9. CASE RunCallback
  <2> DEFINE Calls == [call : Requests, lines : Seq(EngineLines)]
  <2>1. ready # <<>> /\ ready \in Seq(Calls)
    BY <1>9 DEF RunCallback
  <2>2. Head(ready) \in Calls /\ Tail(ready) \in Seq(Calls)
    BY <2>1, InTail
  <2> QED
    BY <1>9, <2>2 DEF RunCallback
<1>10. CASE WriterTake
  BY <1>10 DEF WriterTake
<1>11. CASE WriterSend
  BY <1>11 DEF WriterSend
<1>12. CASE ReadLine
  <2> DEFINE line == Head(stdout)
             r    == line.id
             all  == Append(lines[r], line)
  <2>1. stdout # <<>> /\ stdout' = Tail(stdout)
    BY <1>12 DEF ReadLine
  <2> DEFINE Calls == [call : Requests, lines : Seq(EngineLines)]
  <2>2. line \in EngineLines /\ Tail(stdout) \in Seq(EngineLines) /\ r \in Requests
    BY <2>1, InTail DEF EngineLines, EngineLine
  <2>3. all \in Seq(EngineLines)
    BY <2>2
  <2>4. [call |-> r, lines |-> all] \in Calls
    BY <2>2, <2>3
  <2>5. /\ registered' \subseteq registered
        /\ ready' \in {ready, Append(ready, [call |-> r, lines |-> all])}
        /\ lines' \in {lines, [lines EXCEPT ![r] = all]}
    BY <1>12 DEF ReadLine, Complete
  <2>6. ready' \in Seq(Calls)
    <3>1. ready \in Seq(Calls)
      OBVIOUS
    <3>2. Append(ready, [call |-> r, lines |-> all]) \in Seq(Calls)
      BY <2>4, <3>1, AppendType
    <3> QED
      BY <2>5, <3>1, <3>2
  <2>7. lines' \in [Requests -> Seq(EngineLines)]
    BY <2>2, <2>3, <2>5
  <2> QED
    BY <1>12, <2>1, <2>2, <2>5, <2>6, <2>7 DEF ReadLine
<1>13. ASSUME NEW t \in Readers, CheckExitLogged(t) \/ ClaimExitLog(t) \/ LogExit(t)
       PROVE  TypeOK'
  <2>1. /\ exitPc' \in [Readers -> {"reading", "checked", "waiting", "done"}]
        /\ exitLogged' \in BOOLEAN
    BY <1>13 DEF CheckExitLogged, ClaimExitLog, LogExit, ExitStep
  <2>2. exitLog' \in Seq({"info", "error"})
    <3>1. <<"info">> \in Seq({"info", "error"}) /\ <<"error">> \in Seq({"info", "error"})
      OBVIOUS
    <3>2. ExitRecord \in Seq({"info", "error"})
      BY <3>1 DEF ExitRecord
    <3>3. exitLog \o ExitRecord \in Seq({"info", "error"})
      BY <3>2
    <3> QED
      BY <1>13, <3>3 DEF CheckExitLogged, ClaimExitLog, LogExit
  <2> QED
    BY <1>13, <2>1, <2>2 DEF CheckExitLogged, ClaimExitLog, LogExit, ExitStep
<1>14. CASE EngineRead
  <2>1. stdin # <<>> /\ Head(stdin) \in Requests /\ Tail(stdin) \in Seq(Requests)
    BY <1>14 DEF EngineRead
  <2>2. Positions[Head(stdin)] \in SUBSET Position
    BY <2>1, PositionsType
  <2> QED
    BY <1>14, <2>1, <2>2 DEF EngineRead
<1>15. ASSUME NEW code \in {"sigterm", "other"}, EngineDies(code) PROVE TypeOK'
  BY <1>15 DEF EngineDies
<1>16. CASE UNCHANGED vars
  BY <1>16 DEF vars
<1> QED
  BY <1>1, <1>2, <1>3, <1>4, <1>5, <1>6, <1>7, <1>8, <1>9, <1>10, <1>11, <1>12, <1>13, <1>14,
     <1>15, <1>16 DEF Next

-----------------------------------------------------------------------------
(* Calls, futures and completions.                                         *)

\* Where call r is, and what the reader, the loop and the timer may still do
\* to it.
CallInv(r) ==
    /\ pc[r] \in {"registered", "expired"} <=> running = r
    /\ r \in registered => pc[r] \in {"registered", "awaiting", "expired"}
                           /\ future[r] \in {"pending", "cancelled"}
    /\ pc[r] = "registered" => future[r] = "pending"
    /\ pc[r] \in {"new", "registered"} => r \notin timerFired
    /\ pc[r] = "new" => ~CallbackFor(r)
    /\ pc[r] \in {"registered", "awaiting"} =>
          /\ future[r] = "pending" => r \in registered \/ CallbackFor(r)
          /\ r \notin timerFired => future[r] \in {"pending", "done"}
    /\ CallbackFor(r) => future[r] # "done" /\ r \notin registered
    /\ pc[r] # "answered" => reply[r] = Nothing

\* At most one completion is on its way for each call.
OneCallback ==
    /\ Distinct(ready)
    /\ \A x, y : In(ready, x) /\ In(ready, y) /\ x.call = y.call => x = y

CallsInv == OneCallback /\ \A r \in Requests : CallInv(r)

\* A completion of r is an element of the queue of callbacks that names r.
LEMMA CallbackIn == \A r : CallbackFor(r) <=> \E x : In(ready, x) /\ x.call = r
BY DEF CallbackFor, In

\* What the event loop finds when it takes the next callback.
LEMMA NextCallback ==
    ASSUME TypeOK, OneCallback, ready # <<>>, ready' = Tail(ready)
    PROVE  /\ In(ready, Head(ready)) /\ Head(ready).call \in Requests
           /\ \A x : In(ready', x) => In(ready, x)
           /\ \A r : CallbackFor(r) <=> CallbackFor(r)' \/ r = Head(ready).call
           /\ \A r : r = Head(ready).call => ~CallbackFor(r)'
           /\ OneCallback'
<1> DEFINE Calls == [call : Requests, lines : Seq(EngineLines)]
<1>1. ready \in Seq(Calls)
  BY DEF TypeOK
<1>2. /\ \A x : In(ready, x) <=> In(ready', x) \/ x = Head(ready)
      /\ Distinct(ready') /\ ~In(ready', Head(ready)) /\ Head(ready) \in Calls
  BY <1>1, InTail DEF OneCallback
<1>3. \A r : CallbackFor(r)' <=> \E x : In(ready', x) /\ x.call = r
  BY DEF CallbackFor, In
<1>4. OneCallback'
  BY <1>2 DEF OneCallback
<1>5. \A r : r = Head(ready).call => ~CallbackFor(r)'
  <2> SUFFICES ASSUME NEW r, r = Head(ready).call, CallbackFor(r)' PROVE FALSE
    OBVIOUS
  <2>1. PICK x : In(ready', x) /\ x.call = r
    BY <1>3
  <2>2. In(ready, x) /\ In(ready, Head(ready))
    BY <1>2, <2>1
  <2>3. x = Head(ready)
    BY <2>1, <2>2 DEF OneCallback
  <2> QED
    BY <1>2, <2>1, <2>3
<1>6. \A r : CallbackFor(r) <=> CallbackFor(r)' \/ r = Head(ready).call
  BY <1>2, <1>3, CallbackIn
<1> QED
  BY <1>2, <1>4, <1>5, <1>6

\* What is scheduled when the reader completes a call.
LEMMA NewCallback ==
    ASSUME TypeOK, OneCallback, NEW r \in Requests, NEW ls \in Seq(EngineLines),
           ~CallbackFor(r), ready' = Append(ready, [call |-> r, lines |-> ls])
    PROVE  /\ \A x : In(ready', x) <=> In(ready, x) \/ x = [call |-> r, lines |-> ls]
           /\ \A q : CallbackFor(q)' <=> CallbackFor(q) \/ q = r
           /\ OneCallback'
<1> DEFINE Calls == [call : Requests, lines : Seq(EngineLines)]
           new == [call |-> r, lines |-> ls]
<1>1. ready \in Seq(Calls) /\ new \in Calls /\ new.call = r
  BY DEF TypeOK
<1> HIDE DEF Calls, new
<1>2. ready' = Append(ready, new)
  BY DEF new
<1>3. ~In(ready, new)
  BY <1>1, CallbackIn
<1>4. (\A x : In(ready', x) <=> In(ready, x) \/ x = new) /\ Distinct(ready')
  BY <1>1, <1>2, <1>3, InAppend DEF OneCallback
<1>5. \A q : CallbackFor(q)' <=> \E x : In(ready', x) /\ x.call = q
  BY DEF CallbackFor, In
<1>6. \A q : CallbackFor(q)' <=> CallbackFor(q) \/ q = r
  BY <1>1, <1>4, <1>5, CallbackIn
<1>7. OneCallback'
  BY <1>1, <1>4, CallbackIn DEF OneCallback
<1> QED
  BY <1>4, <1>6, <1>7 DEF new

\* One line of stdout and what it means to the reader.
LEMMA ReadLineFacts ==
    ASSUME TypeOK, ReadLine
    PROVE  \E r \in Requests, t \in Position :
              LET line == EngineLine(r, t)
                  all  == Append(lines[r], line)
              IN  /\ stdout # <<>> /\ Head(stdout) = line /\ stdout' = Tail(stdout)
                  /\ all \in Seq(EngineLines)
                  /\ \/ r \notin registered /\ UNCHANGED readerVars
                     \/ /\ r \in registered
                        /\ lines' = [lines EXCEPT ![r] = all]
                        /\ \/ /\ t = Error \/ Len(all) >= ExpectedCount(Turns[r])
                              /\ registered' = registered \ {r}
                              /\ ready' = Append(ready, [call |-> r, lines |-> all])
                           \/ /\ t # Error /\ ~(Len(all) >= ExpectedCount(Turns[r]))
                              /\ UNCHANGED <<registered, ready>>
<1> DEFINE line == Head(stdout)
           r == line.id
           t == line.turn
           all == Append(lines[r], line)
<1>1. stdout # <<>> /\ stdout' = Tail(stdout) /\ stdout \in Seq(EngineLines)
  BY DEF ReadLine, TypeOK
<1>2. line \in EngineLines
  BY <1>1, InTail
<1>3. r \in Requests /\ t \in Position /\ line = EngineLine(r, t)
  BY <1>2, LineParts
<1>4. lines[r] \in Seq(EngineLines)
  BY <1>3 DEF TypeOK
<1>5. all \in Seq(EngineLines)
  BY <1>2, <1>4, AppendType
<1>6. \/ r \notin registered /\ UNCHANGED readerVars
      \/ /\ r \in registered
         /\ lines' = [lines EXCEPT ![r] = all]
         /\ \/ /\ t = Error \/ Len(all) >= ExpectedCount(Turns[r])
               /\ registered' = registered \ {r}
               /\ ready' = Append(ready, [call |-> r, lines |-> all])
            \/ /\ t # Error /\ ~(Len(all) >= ExpectedCount(Turns[r]))
               /\ UNCHANGED <<registered, ready>>
  BY DEF ReadLine, Complete, Completes
<1> HIDE DEF line, r, t
<1> QED
  BY <1>1, <1>3, <1>5, <1>6 DEF line

\* Every step keeps the invariant of the calls.
LEMMA CallsStep == TypeOK /\ CallsInv /\ [Next]_vars => CallsInv'
<1> SUFFICES ASSUME TypeOK, CallsInv, [Next]_vars PROVE CallsInv'
  OBVIOUS
<1> USE DEF callVars, taskVars, futureVars, readerVars, writerVars, exitVars,
            processVars, engineVars, threadVars
<1>0. Nobody \notin Requests
  BY WorkerAssumption DEF WorkerAssumption
<1>a. ASSUME ready' = ready PROVE OneCallback' /\ \A q : CallbackFor(q)' <=> CallbackFor(q)
  BY <1>a DEF CallsInv, OneCallback, CallbackFor, In, Distinct
<1>1. ASSUME NEW r \in Requests, Register(r) PROVE CallsInv'
  <2>1. ASSUME NEW q \in Requests PROVE CallInv(q)'
    BY <1>0, <1>1, <1>a, <2>1 DEF Register, Begin, Go, RegisteredWith, CallsInv, CallInv, TypeOK
  <2> QED
    BY <1>1, <1>a, <2>1 DEF Register, CallsInv
<1>2. ASSUME NEW r \in Requests, Enqueue(r) PROVE CallsInv'
  <2>1. ASSUME NEW q \in Requests PROVE CallInv(q)'
    BY <1>0, <1>2, <1>a, <2>1 DEF Enqueue, End, Go, CallsInv, CallInv, TypeOK
  <2> QED
    BY <1>2, <1>a, <2>1 DEF Enqueue, CallsInv
<1>3. ASSUME NEW r \in Requests, TimerFires(r) PROVE CallsInv'
  <2>1. ASSUME NEW q \in Requests PROVE CallInv(q)'
    BY <1>0, <1>3, <1>a, <2>1 DEF TimerFires, CallsInv, CallInv, TypeOK
  <2> QED
    BY <1>3, <1>a, <2>1 DEF TimerFires, CallsInv
<1>4. ASSUME NEW r \in Requests, Return(r) PROVE CallsInv'
  <2>0. \A q \in Requests : q # r => reply'[q] = reply[q]
    BY <1>4 DEF Return, TypeOK
  <2>1. ASSUME NEW q \in Requests PROVE CallInv(q)'
    BY <1>0, <1>4, <1>a, <2>0, <2>1 DEF Return, Go, CallsInv, CallInv, TypeOK
  <2> QED
    BY <1>4, <1>a, <2>1 DEF Return, CallsInv
<1>5. ASSUME NEW r \in Requests, Expire(r) PROVE CallsInv'
  <2>1. ASSUME NEW q \in Requests PROVE CallInv(q)'
    BY <1>0, <1>5, <1>a, <2>1 DEF Expire, Begin, Go, CallsInv, CallInv, TypeOK
  <2> QED
    BY <1>5, <1>a, <2>1 DEF Expire, CallsInv
<1>6. ASSUME NEW r \in Requests, Forget(r) PROVE CallsInv'
  <2>0. \A q \in Requests : q # r => reply'[q] = reply[q]
    BY <1>6 DEF Forget, TypeOK
  <2>1. ASSUME NEW q \in Requests PROVE CallInv(q)'
    BY <1>0, <1>6, <1>a, <2>0, <2>1
       DEF Forget, End, Go, RegisteredAfterTimeout, CallsInv, CallInv, TypeOK
  <2> QED
    BY <1>6, <1>a, <2>1 DEF Forget, CallsInv
<1>7. CASE RunCallback
  <2>0. ready # <<>> /\ ready' = Tail(ready) /\ OneCallback
    BY <1>7 DEF RunCallback, CallsInv
  <2>a. /\ UNCHANGED <<pc, running, timerFired, reply, registered>>
        /\ Head(ready).call \in Requests
        /\ \A r : CallbackFor(r) <=> CallbackFor(r)' \/ r = Head(ready).call
        /\ \A r : r = Head(ready).call => ~CallbackFor(r)'
    BY <1>7, <2>0, NextCallback DEF RunCallback
  <2>b. \A q \in Requests :
           future'[q] = IF q = Head(ready).call /\ future[q] = "pending" THEN "done" ELSE future[q]
    BY <1>7, <2>a DEF RunCallback, TypeOK
  <2>1. ASSUME NEW q \in Requests PROVE CallInv(q)'
    <3>1. CallInv(q) /\ future[q] \in {"none", "pending", "done", "cancelled"}
      BY DEF CallsInv, TypeOK
    <3>2. CASE q = Head(ready).call
      <4>1. CallbackFor(q) /\ ~CallbackFor(q)'
        BY <2>a, <3>2
      <4>2. future'[q] = IF future[q] = "pending" THEN "done" ELSE future[q]
        BY <2>b, <3>2
      <4>3. pc[q] \notin {"new", "registered"} /\ future[q] # "done" /\ q \notin registered
        BY <1>0, <1>7, <3>1, <4>1 DEF CallInv, RunCallback
      <4> QED
        BY <2>a, <3>1, <4>1, <4>2, <4>3 DEF CallInv
    <3>3. CASE q # Head(ready).call
      <4>1. CallbackFor(q)' <=> CallbackFor(q)
        BY <2>a, <3>3
      <4>2. future'[q] = future[q]
        BY <2>b, <3>3
      <4> QED
        BY <2>a, <3>1, <4>1, <4>2 DEF CallInv
    <3> QED
      BY <3>2, <3>3
  <2> QED
    BY <2>0, <2>1, NextCallback DEF CallsInv
<1>8. CASE ReadLine
  <2>1. UNCHANGED callVars
    BY <1>8 DEF ReadLine
  <2>2. CASE UNCHANGED <<registered, ready>>
    BY <1>a, <2>1, <2>2 DEF CallsInv, CallInv
  <2>3. ASSUME NEW r \in Requests, NEW ls \in Seq(EngineLines), r \in registered,
               registered' = registered \ {r}, ready' = Append(ready, [call |-> r, lines |-> ls])
        PROVE  CallsInv'
    <3>1. OneCallback /\ ~CallbackFor(r)
      BY <2>3 DEF CallsInv, CallInv
    <3>2. ASSUME NEW q \in Requests PROVE CallInv(q)'
      BY <2>1, <2>3, <3>1, <3>2, NewCallback DEF CallsInv, CallInv
    <3> QED
      BY <2>3, <3>1, <3>2, NewCallback DEF CallsInv
  <2> QED
    BY <1>8, <2>2, <2>3, ReadLineFacts
<1>9. ASSUME UNCHANGED <<pc, running, future, timerFired, ready, registered, reply>> PROVE CallsInv'
  BY <1>9, <1>a DEF CallsInv, CallInv
<1> QED
  BY <1>1, <1>2, <1>3, <1>4, <1>5, <1>6, <1>7, <1>8, <1>9
     DEF Next, vars, EngineRefuses, EngineAnswers, EnginePrints, WriterTake, WriterSend,
         CheckExitLogged, ClaimExitLog, LogExit, ExitStep, EngineRead, EngineDies

-----------------------------------------------------------------------------
(* The end of the process.                                                 *)

\* A reader that has claimed the record of the exit has made it or is about to;
\* one that left without it left it to the other.
ExitInv ==
    /\ exitLogged /\ exitLog = <<>> => \E t \in Readers : exitPc[t] = "waiting"
    /\ \A t \in Readers : exitPc[t] = "done" /\ exitLog = <<>> => exitLogged

\* Every step keeps the invariant of the exit record.
LEMMA ExitStepKeeps == TypeOK /\ ExitInv /\ [Next]_vars => ExitInv'
<1> SUFFICES ASSUME TypeOK, ExitInv, [Next]_vars PROVE ExitInv'
  OBVIOUS
<1> USE DEF callVars, taskVars, futureVars, readerVars, writerVars, exitVars,
            processVars, engineVars, threadVars
<1>1. ASSUME NEW t \in Readers, CheckExitLogged(t) PROVE ExitInv'
  <2>1. /\ exitPc[t] = "reading" /\ UNCHANGED <<exitLogged, exitLog>>
        /\ \A u \in Readers : exitPc'[u] =
              IF u = t THEN IF exitLogged THEN "done" ELSE "checked" ELSE exitPc[u]
    BY <1>1 DEF CheckExitLogged, ExitStep, LoggedByOther, TypeOK
  <2>2. \A u \in Readers : exitPc[u] = "waiting" => exitPc'[u] = "waiting"
    BY <2>1, Zenon
  <2>3. \A u \in Readers : exitPc'[u] = "done" => exitPc[u] = "done" \/ exitLogged
    BY <2>1, Zenon
  <2> QED
    BY <2>1, <2>2, <2>3, Zenon DEF ExitInv
<1>2. ASSUME NEW t \in Readers, ClaimExitLog(t) PROVE ExitInv'
  <2>1. exitPc'[t] = "waiting" /\ exitLogged'
    BY <1>2 DEF ClaimExitLog, ExitStep, TypeOK
  <2> QED
    BY <2>1 DEF ExitInv
<1>3. ASSUME NEW t \in Readers, LogExit(t) PROVE ExitInv'
  <2>1. ExitRecord \in {<<"info">>, <<"error">>} /\ exitLog \in Seq({"info", "error"})
    BY DEF ExitRecord, TypeOK
  <2>2. exitLog \o ExitRecord # <<>>
    BY <2>1
  <2> QED
    BY <1>3, <2>2 DEF LogExit, ExitInv
<1>4. ASSUME UNCHANGED exitVars PROVE ExitInv'
  BY <1>4 DEF ExitInv
<1> QED
  BY <1>1, <1>2, <1>3, <1>4
     DEF Next, vars, Register, Enqueue, TimerFires, Return, Expire, Forget, RunCallback,
         WriterTake, WriterSend, ReadLine, EngineRefuses, EngineAnswers, EnginePrints,
         EngineRead, EngineDies

-----------------------------------------------------------------------------
IInv == TypeOK /\ CallsInv /\ ExitInv

\* The invariant holds when the worker is started.
LEMMA Initially == Init => IInv
<1> SUFFICES ASSUME Init PROVE IInv
  OBVIOUS
<1>1. TypeOK
  <2>1. \A S : <<>> \in Seq(S)
    OBVIOUS
  <2>2. Nothing \in [kind : {"nothing", "timeout", "lines"}, lines : Seq(ReplyLines)]
    BY <2>1 DEF Nothing
  <2> QED
    BY <2>1, <2>2, WorkerAssumption DEF Init, TypeOK, WorkerAssumption
<1>2. OneCallback /\ \A r : ~CallbackFor(r)
  BY DEF Init, OneCallback, CallbackFor, In, Distinct
<1>3. \A r \in Requests : CallInv(r)
  BY <1>2, WorkerAssumption DEF Init, CallInv, WorkerAssumption
<1>4. ExitInv
  BY DEF Init, ExitInv
<1> QED
  BY <1>1, <1>2, <1>3, <1>4 DEF IInv, CallsInv

\* And every step keeps it.
LEMMA Inductive == IInv /\ [Next]_vars => IInv'
BY TypeStep, CallsStep, ExitStepKeeps DEF IInv

\* The worker never leaves the invariant (worker.py:65-164).
THEOREM Invariance == Spec => []IInv
BY Initially, Inductive, PTL DEF Spec

\* Every variable of the worker keeps its type.
THEOREM TypeCorrectness == Spec => []TypeOK
<1>1. IInv => TypeOK
  BY DEF IInv
<1> QED
  BY <1>1, Invariance, PTL

\* A call that waits in time can be completed: its future is in self.futures or
\* its completion is on the way (worker.py:119-128, 148-152).
THEOREM NobodyStranded == Spec => []NoStrandedRequest
<1>1. IInv => NoStrandedRequest
  BY DEF IInv, CallsInv, CallInv, NoStrandedRequest, Waiting
<1> QED
  BY <1>1, Invariance, PTL

\* No future is completed twice, whatever the engine prints: set_result meets a
\* future that is not done, and nothing else will complete it (worker.py:126-128).
THEOREM CompletedOnce == Spec => []AtMostOneCompletion
<1>1. ASSUME IInv, NEW i \in DOMAIN ready
      PROVE  /\ future[ready[i].call] # "done"
             /\ ready[i].call \notin registered
             /\ \A j \in DOMAIN ready : ready[j].call = ready[i].call => i = j
  <2>1. ready[i].call \in Requests
    <3>1. ready \in Seq([call : Requests, lines : Seq(EngineLines)])
      BY <1>1 DEF IInv, TypeOK
    <3>2. ready[i] \in [call : Requests, lines : Seq(EngineLines)]
      BY <3>1, MemberType
    <3> QED
      BY <3>2
  <2>2. CallbackFor(ready[i].call)
    BY DEF CallbackFor
  <2>3. OneCallback /\ CallInv(ready[i].call)
    BY <1>1, <2>1 DEF IInv, CallsInv
  <2>4. ASSUME NEW j \in DOMAIN ready, ready[j].call = ready[i].call PROVE i = j
    <3>1. In(ready, ready[i]) /\ In(ready, ready[j])
      BY DEF In
    <3>2. ready[i] = ready[j]
      BY <2>3, <2>4, <3>1 DEF OneCallback
    <3> QED
      BY <2>3, <3>2 DEF OneCallback, Distinct
  <2> QED
    BY <2>2, <2>3, <2>4 DEF CallInv
<1>2. IInv => AtMostOneCompletion
  BY <1>1 DEF AtMostOneCompletion
<1> QED
  BY <1>2, Invariance, PTL

\* self.futures has no entry of a call that has returned, so it does not grow with
\* timeouts (worker.py:160-164).
THEOREM EntriesDropped == Spec => []AnsweredRequestForgotten
<1>1. IInv => AnsweredRequestForgotten
  BY DEF IInv, CallsInv, CallInv, AnsweredRequestForgotten
<1> QED
  BY <1>1, Invariance, PTL

\* When both readers are through with the end of the process, one of them has
\* logged it, however the two raced for the flag (worker.py:65-91).
THEOREM ExitsLogged == Spec => []ExitIsLogged
<1>1. IInv => ExitIsLogged
  BY DEF IInv, ExitInv, ExitIsLogged, Readers
<1> QED
  BY <1>1, Invariance, PTL
\* Every record of the exit was made by a reader that is through with it.
RecordsInv ==
    /\ exitLog # <<>> => \E t \in Readers : exitPc[t] = "done"
    /\ Len(exitLog) > 1 => Len(exitLog) = 2 /\ \A t \in Readers : exitPc[t] = "done"

\* Every step keeps that.
LEMMA RecordsStep == TypeOK /\ RecordsInv /\ [Next]_vars => RecordsInv'
<1> SUFFICES ASSUME TypeOK, RecordsInv, [Next]_vars PROVE RecordsInv'
  OBVIOUS
<1> USE DEF callVars, taskVars, futureVars, readerVars, writerVars, exitVars,
            processVars, engineVars, threadVars
<1>1. ASSUME NEW t \in Readers, CheckExitLogged(t) \/ ClaimExitLog(t) PROVE RecordsInv'
  <2>1. /\ exitPc[t] # "done" /\ exitLog' = exitLog
        /\ \A u \in Readers : exitPc[u] = "done" => exitPc'[u] = "done"
    BY <1>1 DEF CheckExitLogged, ClaimExitLog, ExitStep, TypeOK
  <2> QED
    BY <2>1 DEF RecordsInv
<1>2. ASSUME NEW t \in Readers, LogExit(t) PROVE RecordsInv'
  <2>1. /\ exitPc[t] = "waiting" /\ exitPc' = [exitPc EXCEPT ![t] = "done"]
        /\ exitLog' = exitLog \o ExitRecord
    BY <1>2 DEF LogExit, ExitStep
  <2>2. exitPc'[t] = "done" /\ \A u \in Readers : u # t => exitPc'[u] = exitPc[u]
    BY <2>1 DEF TypeOK
  <2>3. exitLog \in Seq({"info", "error"}) /\ Len(exitLog) \in Nat
    BY DEF TypeOK
  <2>4. Len(exitLog') = Len(exitLog) + 1
    <3>1. PICK level \in {"info", "error"} : ExitRecord = <<level>>
      BY DEF ExitRecord
    <3>2. exitLog \o <<level>> = Append(exitLog, level)
      BY <2>3, <3>1, AppendIsConcat
    <3>3. Len(Append(exitLog, level)) = Len(exitLog) + 1
      BY <2>3, <3>1
    <3> QED
      BY <2>1, <3>1, <3>2, <3>3
  <2>5. Len(exitLog) = 0 \/ Len(exitLog) = 1
    <3>1. ~(Len(exitLog) > 1)
      BY <2>1 DEF RecordsInv
    <3>2. \A n \in Nat : ~(n > 1) => n = 0 \/ n = 1
      OBVIOUS
    <3> QED
      BY <2>3, <3>1, <3>2
  <2>6. Len(exitLog) = 1 => \A u \in Readers : exitPc'[u] = "done"
    <3> SUFFICES ASSUME Len(exitLog) = 1 PROVE \A u \in Readers : exitPc'[u] = "done"
      OBVIOUS
    <3>1. PICK u \in Readers : exitPc[u] = "done"
      BY DEF RecordsInv
    <3>2. Readers = {t, u}
      BY <2>1, <3>1 DEF Readers
    <3> QED
      BY <2>2, <3>1, <3>2
  <2> QED
    BY <2>2, <2>4, <2>5, <2>6 DEF RecordsInv
<1>3. ASSUME UNCHANGED exitVars PROVE RecordsInv'
  BY <1>3 DEF RecordsInv
<1> QED
  BY <1>1, <1>2, <1>3
     DEF Next, vars, Register, Enqueue, TimerFires, Return, Expire, Forget, RunCallback,
         WriterTake, WriterSend, ReadLine, EngineRefuses, EngineAnswers, EnginePrints,
         EngineRead, EngineDies

\* The end of the process is logged twice at most, once by each reader: that is
\* all the race for the flag can do (worker.py:65-91).
THEOREM SecondRecordIsTheOtherReaders ==
    Spec => [](~ExitLoggedOnce => Len(exitLog) = 2 /\ \A t \in Readers : exitPc[t] = "done")
<1>1. Init => RecordsInv
  BY DEF Init, RecordsInv
<1>2. TypeOK /\ RecordsInv =>
         (~ExitLoggedOnce => Len(exitLog) = 2 /\ \A t \in Readers : exitPc[t] = "done")
  BY DEF TypeOK, RecordsInv, ExitLoggedOnce
<1> QED
  BY <1>1, <1>2, RecordsStep, TypeCorrectness, PTL DEF Spec
=============================================================================
