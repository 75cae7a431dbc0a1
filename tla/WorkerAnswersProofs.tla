------------------------ MODULE WorkerAnswersProofs ------------------------
(***************************************************************************)
(* What the calls of analyze are answered with.  Three invariants are      *)
(* added to those of KataGoWorkerProofs: PathInv, a query is in one place  *)
(* on its way to the engine and is read by it once; LedgerInv, a position  *)
(* of an accepted query is not answered yet, or its line is in the pipe,   *)
(* or it was read, and never two of these; AnswerInv, a call is completed  *)
(* with an error alone or with one line for each of its positions, and     *)
(* then the engine has nothing left to say about it.  That the count of    *)
(* lines means a whole answer is the pigeonhole principle (Enough).        *)
(* They give that no line of a waiting call is dropped, that a call whose  *)
(* lines are all read is completed, and that KataGoWorker implements       *)
(* RequestReply.                                                           *)
(***************************************************************************)
EXTENDS KataGoWorkerProofs

-----------------------------------------------------------------------------
(* The way of a query to the engine: it is in one place at a time.         *)

Sent(r) == In(writeQueue, r) \/ writing = r \/ In(stdin, r) \/ r \in accepted

\* Query r is in at most one place, and nowhere before it is put in the queue.
PathOf(r) ==
    /\ pc[r] \in {"new", "registered"} => ~Sent(r)
    /\ In(writeQueue, r) => writing # r /\ ~In(stdin, r) /\ r \notin accepted
    /\ writing = r => ~In(stdin, r) /\ r \notin accepted
    /\ In(stdin, r) => r \notin accepted

PathInv == Distinct(writeQueue) /\ Distinct(stdin) /\ \A r \in Requests : PathOf(r)

\* Every step keeps the queries in one place.
LEMMA PathStep == TypeOK /\ PathInv /\ [Next]_vars => PathInv'
<1> SUFFICES ASSUME TypeOK, PathInv, [Next]_vars PROVE PathInv'
  OBVIOUS
<1> USE DEF callVars, taskVars, futureVars, readerVars, writerVars, exitVars,
            processVars, engineVars, threadVars
<1>0. /\ writeQueue \in Seq(Requests) /\ stdin \in Seq(Requests)
      /\ writing \in Requests \cup {Nobody} /\ Nobody \notin Requests
  BY WorkerAssumption DEF TypeOK, WorkerAssumption
<1>a. ASSUME UNCHANGED <<writeQueue, writing, stdin, accepted>>,
             \A q \in Requests : pc'[q] \in {"new", "registered"} => pc[q] \in {"new", "registered"}
      PROVE  PathInv'
  BY <1>a DEF PathInv, PathOf, Sent, Distinct, In
<1>1. ASSUME NEW r \in Requests, Enqueue(r) PROVE PathInv'
  <2>1. /\ writeQueue' = Append(writeQueue, r) /\ UNCHANGED <<writing, stdin, accepted>>
        /\ \A q \in Requests : pc'[q] = IF q = r THEN "awaiting" ELSE pc[q]
        /\ pc[r] = "registered"
    BY <1>1 DEF Enqueue, End, Go, TypeOK
  <2>2. ~Sent(r)
    BY <2>1 DEF PathInv, PathOf
  <2>3. Distinct(writeQueue)' /\ \A x : In(writeQueue, x)' <=> In(writeQueue, x) \/ x = r
    <3>1. Distinct(writeQueue) /\ ~In(writeQueue, r)
      BY <2>2 DEF PathInv, Sent
    <3>2. Distinct(Append(writeQueue, r))
          /\ \A x : In(Append(writeQueue, r), x) <=> In(writeQueue, x) \/ x = r
      BY <1>0, <3>1, InAppend
    <3> QED
      BY <2>1, <3>2 DEF Distinct, In
  <2>4. Distinct(stdin)' /\ \A x : In(stdin, x)' <=> In(stdin, x)
    BY <2>1 DEF PathInv, Distinct, In
  <2>5. ASSUME NEW q \in Requests PROVE PathOf(q)'
    BY <2>1, <2>2, <2>3, <2>4 DEF PathInv, PathOf, Sent
  <2> QED
    BY <2>3, <2>4, <2>5 DEF PathInv
<1>2. CASE WriterTake
  <2>1. /\ writeQueue # <<>> /\ writing = Nobody /\ writeQueue' = Tail(writeQueue)
        /\ writing' = Head(writeQueue) /\ UNCHANGED <<pc, stdin, accepted>>
    BY <1>2 DEF WriterTake
  <2>2. /\ Distinct(Tail(writeQueue)) /\ ~In(Tail(writeQueue), Head(writeQueue))
        /\ \A x : In(writeQueue, x) <=> In(Tail(writeQueue), x) \/ x = Head(writeQueue)
        /\ Head(writeQueue) \in Requests
    BY <1>0, <2>1, InTail DEF PathInv
  <2>3. /\ Distinct(writeQueue)' /\ Distinct(stdin)'
        /\ \A x : In(writeQueue, x)' <=> In(Tail(writeQueue), x)
        /\ \A x : In(stdin, x)' <=> In(stdin, x)
    BY <2>1, <2>2 DEF PathInv, Distinct, In
  <2>4. ASSUME NEW q \in Requests PROVE PathOf(q)'
    BY <1>0, <2>1, <2>2, <2>3 DEF PathInv, PathOf, Sent
  <2> QED
    BY <2>3, <2>4 DEF PathInv
<1>3. CASE WriterSend
  <2>1. /\ writing \in Requests /\ writing' = Nobody /\ UNCHANGED <<pc, writeQueue, accepted>>
        /\ stdin' \in {stdin, Append(stdin, writing)}
    BY <1>0, <1>3 DEF WriterSend
  <2>2. Distinct(stdin) /\ ~In(stdin, writing)
    BY <2>1 DEF PathInv, PathOf
  <2>3. /\ Distinct(Append(stdin, writing))
        /\ \A x : In(Append(stdin, writing), x) <=> In(stdin, x) \/ x = writing
    BY <1>0, <2>1, <2>2, InAppend
  <2>4. /\ Distinct(writeQueue)' /\ Distinct(stdin)'
        /\ \A x : In(writeQueue, x)' <=> In(writeQueue, x)
        /\ \A x : In(stdin, x)' => In(stdin, x) \/ x = writing
    BY <2>1, <2>2, <2>3 DEF PathInv, Distinct, In
  <2>5. ASSUME NEW q \in Requests PROVE PathOf(q)'
    BY <1>0, <2>1, <2>4 DEF PathInv, PathOf, Sent
  <2> QED
    BY <2>4, <2>5 DEF PathInv
<1>4. CASE EngineRead
  <2>1. /\ stdin # <<>> /\ stdin' = Tail(stdin) /\ accepted' = accepted \cup {Head(stdin)}
        /\ UNCHANGED <<pc, writeQueue, writing>>
    BY <1>4 DEF EngineRead
  <2>2. /\ Distinct(Tail(stdin)) /\ ~In(Tail(stdin), Head(stdin))
        /\ \A x : In(stdin, x) <=> In(Tail(stdin), x) \/ x = Head(stdin)
    BY <1>0, <2>1, InTail DEF PathInv
  <2>3. /\ Distinct(writeQueue)' /\ Distinct(stdin)'
        /\ \A x : In(stdin, x)' <=> In(Tail(stdin), x)
        /\ \A x : In(writeQueue, x)' <=> In(writeQueue, x)
    BY <2>1, <2>2 DEF PathInv, Distinct, In
  <2>4. ASSUME NEW q \in Requests PROVE PathOf(q)'
    BY <1>0, <2>1, <2>2, <2>3 DEF PathInv, PathOf, Sent
  <2> QED
    BY <2>3, <2>4 DEF PathInv
<1>5. ASSUME NEW r \in Requests,
             Register(r) \/ Return(r) \/ Expire(r) \/ Forget(r) \/ TimerFires(r)
      PROVE  PathInv'
  <2>1. UNCHANGED <<writeQueue, writing, stdin, accepted>>
    BY <1>5 DEF Register, Return, Expire, Forget, TimerFires
  <2>2. \A q \in Requests : pc'[q] \in {"new", "registered"} => pc[q] \in {"new", "registered"}
    BY <1>5 DEF Register, Return, Expire, Forget, TimerFires, Begin, End, Go, TypeOK
  <2> QED
    BY <1>a, <2>1, <2>2
<1>6. ASSUME UNCHANGED <<pc, writeQueue, writing, stdin, accepted>> PROVE PathInv'
  BY <1>a, <1>6
<1> QED
  BY <1>1, <1>2, <1>3, <1>4, <1>5, <1>6
     DEF Next, vars, RunCallback, ReadLine, EngineRefuses, EngineAnswers, EnginePrints,
         CheckExitLogged, ClaimExitLog, LogExit, ExitStep, EngineDies

-----------------------------------------------------------------------------
(* The lines of a query: not answered yet, printed, or read.               *)

Printed(r, t) == In(stdout, EngineLine(r, t))
Read(r, t) == In(lines[r], EngineLine(r, t))
Seen(r, t) == Printed(r, t) \/ Read(r, t)

\* What was printed or read about query r: only its positions, each once and none
\* that is still to be answered; an error only in place of everything else.
LedgerOf(r) ==
    /\ left[r] \subseteq Positions[r]
    /\ Distinct(lines[r]) /\ \A i \in DOMAIN lines[r] : lines[r][i].id = r
    /\ r \notin accepted => /\ left[r] = {} /\ lines[r] = <<>>
                            /\ \A t \in Position : ~Printed(r, t)
    /\ \A t \in Position :
          /\ ~(Printed(r, t) /\ Read(r, t))
          /\ Seen(r, t) => t \in Positions[r] \cup {Error} /\ t \notin left[r]
    /\ Seen(r, Error) => left[r] = {} /\ \A t \in Positions[r] : ~Seen(r, t)

LedgerInv == Distinct(stdout) /\ \A r \in Requests : LedgerOf(r)

\* Lines are the same if query and position are.
LEMMA SameLine == \A r, q, t, u : EngineLine(r, t) = EngineLine(q, u) <=> r = q /\ t = u
BY DEF EngineLine

\* The lines of the model are lines of the engine.
LEMMA LineType ==
    ASSUME NEW r \in Requests, NEW t \in Position PROVE EngineLine(r, t) \in EngineLines
BY DEF EngineLines

\* What printing a new line does to the ledger.
LEMMA PrintStep ==
    ASSUME TypeOK, LedgerInv, NEW r \in Requests, NEW t \in Position, ~Printed(r, t),
           stdout' = Append(stdout, EngineLine(r, t)), lines' = lines
    PROVE  /\ Distinct(stdout)'
           /\ \A q, u : Printed(q, u)' <=> Printed(q, u) \/ (q = r /\ u = t)
           /\ \A q, u : Read(q, u)' <=> Read(q, u)
<1>1. /\ Distinct(Append(stdout, EngineLine(r, t)))
      /\ \A x : In(Append(stdout, EngineLine(r, t)), x) <=> In(stdout, x) \/ x = EngineLine(r, t)
  <2>1. stdout \in Seq(EngineLines) /\ Distinct(stdout) /\ ~In(stdout, EngineLine(r, t))
    BY DEF TypeOK, LedgerInv, Printed
  <2> QED
    BY <2>1, LineType, InAppend
<1>2. Distinct(stdout)' /\ \A x : In(stdout, x)' <=> In(stdout, x) \/ x = EngineLine(r, t)
  BY <1>1 DEF Distinct, In
<1>3. ASSUME NEW q, NEW u PROVE Printed(q, u)' <=> Printed(q, u) \/ (q = r /\ u = t)
  <2>1. Printed(q, u)' <=> \E i \in DOMAIN stdout' : stdout'[i] = EngineLine(q, u)
    BY DEF Printed, In, EngineLine
  <2>2. In(stdout', EngineLine(q, u)) <=> Printed(q, u) \/ EngineLine(q, u) = EngineLine(r, t)
    BY <1>2 DEF Printed, In
  <2> QED
    BY <2>1, <2>2, SameLine DEF In
<1>4. \A q, u : Read(q, u)' <=> Read(q, u)
  BY DEF Read, In, EngineLine
<1> QED
  BY <1>2, <1>3, <1>4

\* What reading a line does to the ledger: it is a line that was printed and had
\* not been read before.
LEMMA ReadStep ==
    ASSUME TypeOK, LedgerInv, ReadLine
    PROVE  \E r \in Requests, t \in Position :
              LET all == Append(lines[r], EngineLine(r, t))
              IN  /\ Printed(r, t)
                  /\ stdout # <<>> /\ Head(stdout) = EngineLine(r, t)
                  /\ Distinct(stdout)'
                  /\ \A q, u : Printed(q, u)' <=> Printed(q, u) /\ ~(q = r /\ u = t)
                  /\ \/ r \notin registered /\ UNCHANGED readerVars
                     \/ /\ r \in registered
                        /\ all \in Seq(EngineLines) /\ Distinct(all)
                        /\ Len(all) = Len(lines[r]) + 1
                        /\ \A u : In(all, EngineLine(r, u)) <=> Read(r, u) \/ u = t
                        /\ \A i \in DOMAIN all : all[i].id = r
                        /\ lines' = [lines EXCEPT ![r] = all]
                        /\ \/ /\ t = Error \/ Len(all) >= ExpectedCount(Turns[r])
                              /\ registered' = registered \ {r}
                              /\ ready' = Append(ready, [call |-> r, lines |-> all])
                           \/ /\ t # Error /\ ~(Len(all) >= ExpectedCount(Turns[r]))
                              /\ UNCHANGED <<registered, ready>>
<1>1. PICK r \in Requests, t \in Position :
         LET line == EngineLine(r, t)
             all  == Append(lines[r], line)
         IN  /\ stdout # <<>> /\ Head(stdout) = line /\ stdout' = Tail(stdout)
             /\ all \in Seq(EngineLines)
             /\ \/ r \notin registered /\ UNCHANGED readerVars
                \/ /\ r \in registered
                   /\ lines' = [lines EXCEPT ![r] = all]
                   /\ \/ /\ t = Error \/ Len(all) >= ExpectedCount(Turns[r])
                         /\ registered' = registered \ {r}
                         /\ ready' = Append(ready, [call |-> r, lines |-> all])
                      \/ /\ t # Error /\ ~(Len(all) >= ExpectedCount(Turns[r]))
                         /\ UNCHANGED <<registered, ready>>
  BY ReadLineFacts
<1> DEFINE line == EngineLine(r, t)
           all == Append(lines[r], line)
<1>2. /\ stdout \in Seq(EngineLines) /\ stdout # <<>> /\ Head(stdout) = line
      /\ stdout' = Tail(stdout) /\ lines[r] \in Seq(EngineLines) /\ line \in EngineLines
  BY <1>1, LineType DEF TypeOK
<1>3. /\ \A x : In(stdout, x) <=> In(Tail(stdout), x) \/ x = line
      /\ Distinct(Tail(stdout)) /\ ~In(Tail(stdout), line)
  BY <1>2, InTail DEF LedgerInv
<1>4. Distinct(stdout)' /\ \A x : In(stdout, x)' <=> In(stdout, x) /\ x # line
  BY <1>2, <1>3 DEF Distinct, In
<1>5. ASSUME NEW q, NEW u PROVE Printed(q, u)' <=> Printed(q, u) /\ ~(q = r /\ u = t)
  <2>1. Printed(q, u)' <=> \E i \in DOMAIN stdout' : stdout'[i] = EngineLine(q, u)
    BY DEF Printed, In, EngineLine
  <2>2. In(stdout', EngineLine(q, u)) <=> Printed(q, u) /\ EngineLine(q, u) # line
    BY <1>4 DEF Printed, In
  <2> QED
    BY <2>1, <2>2, SameLine DEF In
<1>6. Printed(r, t)
  BY <1>3 DEF Printed
<1>7. ~Read(r, t) /\ Distinct(lines[r]) /\ \A i \in DOMAIN lines[r] : lines[r][i].id = r
  BY <1>6 DEF LedgerInv, LedgerOf
<1>8. Distinct(all) /\ \A x : In(all, x) <=> In(lines[r], x) \/ x = line
  BY <1>2, <1>7, InAppend DEF Read
<1>9. \A u : In(all, EngineLine(r, u)) <=> Read(r, u) \/ u = t
  BY <1>8, SameLine DEF Read
<1>10. Len(all) = Len(lines[r]) + 1 /\ \A i \in DOMAIN all : all[i].id = r
  <2>1. /\ Len(all) = Len(lines[r]) + 1 /\ line.id = r
        /\ \A i \in DOMAIN all : (i \in DOMAIN lines[r] /\ all[i] = lines[r][i]) \/ all[i] = line
    BY <1>2 DEF EngineLine
  <2> QED
    BY <1>7, <2>1
<1> QED
  BY <1>1, <1>2, <1>4, <1>5, <1>6, <1>8, <1>9, <1>10

\* Every step keeps the ledger.
LEMMA LedgerStep == TypeOK /\ PathInv /\ LedgerInv /\ [Next]_vars => LedgerInv'
<1> SUFFICES ASSUME TypeOK, PathInv, LedgerInv, [Next]_vars PROVE LedgerInv'
  OBVIOUS
<1> USE DEF callVars, taskVars, futureVars, readerVars, writerVars, exitVars,
            processVars, engineVars, threadVars
<1>0. /\ \A r \in Requests : Positions[r] \subseteq Position \ {Error} /\ Positions[r] # {}
      /\ Error \in Position
  BY PositionsType DEF Position
<1>1. ASSUME NEW r \in Requests, NEW t \in Position, ~Printed(r, t), ~Read(r, t),
             stdout' = Append(stdout, EngineLine(r, t)), UNCHANGED <<lines, accepted>>,
             r \in accepted,
             \/ t \in left[r] /\ left' = [left EXCEPT ![r] = @ \ {t}]
             \/ t = Error /\ left[r] = Positions[r] /\ left' = [left EXCEPT ![r] = {}]
      PROVE  LedgerInv'
  <2>1. /\ Distinct(stdout)'
        /\ \A q, u : Printed(q, u)' <=> Printed(q, u) \/ (q = r /\ u = t)
        /\ \A q, u : Read(q, u)' <=> Read(q, u)
    BY <1>1, PrintStep
  <2>2. ASSUME NEW q \in Requests PROVE LedgerOf(q)'
    <3>1. LedgerOf(q) /\ LedgerOf(r)
      BY DEF LedgerInv
    <3>2. CASE q # r
      <4>1. left'[q] = left[q] /\ lines'[q] = lines[q] /\ (q \in accepted' <=> q \in accepted)
        BY <1>1, <3>2 DEF TypeOK
      <4>2. \A u : Seen(q, u)' <=> Seen(q, u)
        BY <2>1, <3>2 DEF Seen
      <4> QED
        BY <2>1, <3>1, <3>2, <4>1, <4>2 DEF LedgerOf, Distinct
    <3>3. CASE q = r
      <4>1. /\ left'[r] = IF t = Error THEN {} ELSE left[r] \ {t}
            /\ lines'[r] = lines[r] /\ r \in accepted'
        BY <1>0, <1>1, <3>1 DEF TypeOK, LedgerOf
      <4>2. \A u : Seen(r, u)' <=> Seen(r, u) \/ u = t
        BY <2>1 DEF Seen
      <4>3. t \in Positions[r] \cup {Error} /\ (t = Error => left[r] = Positions[r])
            /\ (t # Error => t \in left[r])
        BY <1>0, <1>1, <3>1 DEF LedgerOf
      <4>4. \A u \in Position :
               /\ ~(Printed(r, u)' /\ Read(r, u)')
               /\ Seen(r, u)' => u \in Positions[r] \cup {Error} /\ u \notin left'[r]
        BY <1>1, <2>1, <3>1, <4>1, <4>2, <4>3 DEF LedgerOf
      <4>5. Seen(r, Error)' => left'[r] = {} /\ \A u \in Positions[r] : ~Seen(r, u)'
        BY <1>0, <1>1, <2>1, <3>1, <4>1, <4>2, <4>3 DEF LedgerOf
      <4>6. left'[r] \subseteq Positions[r] /\ Distinct(lines'[r])
            /\ \A i \in DOMAIN lines'[r] : lines'[r][i].id = r
        BY <3>1, <4>1 DEF LedgerOf
      <4> QED
        BY <3>3, <4>1, <4>4, <4>5, <4>6 DEF LedgerOf, Distinct
    <3> QED
      BY <3>2, <3>3
  <2> QED
    BY <2>1, <2>2 DEF LedgerInv
<1>2. ASSUME NEW r \in Requests, EngineRefuses(r) PROVE LedgerInv'
  <2>1. LedgerOf(r) /\ r \in accepted /\ left[r] = Positions[r] /\ left[r] # {}
    BY <1>0, <1>2 DEF LedgerInv, EngineRefuses
  <2>2. ~Seen(r, Error)
    BY <2>1 DEF LedgerOf
  <2> QED
    BY <1>0, <1>1, <1>2, <2>1, <2>2 DEF EngineRefuses, EnginePrints, Seen
<1>3. ASSUME NEW r \in Requests, NEW t \in Positions[r], EngineAnswers(r, t) PROVE LedgerInv'
  <2>1. LedgerOf(r) /\ t \in left[r] /\ t \in Position
    BY <1>0, <1>3 DEF LedgerInv, EngineAnswers
  <2>2. ~Seen(r, t) /\ r \in accepted
    BY <2>1 DEF LedgerOf
  <2> QED
    BY <1>1, <1>3, <2>1, <2>2 DEF EngineAnswers, EnginePrints, Seen
<1>4. CASE EngineRead
  <2> DEFINE r == Head(stdin)
  <2>1. /\ stdin # <<>> /\ accepted' = accepted \cup {r} /\ UNCHANGED <<stdout, lines>>
        /\ left' = [left EXCEPT ![r] = Positions[r]]
    BY <1>4 DEF EngineRead
  <2>2. r \in Requests /\ In(stdin, r)
    BY <2>1, InTail DEF TypeOK
  <2>3. r \notin accepted
    BY <2>2 DEF PathInv, PathOf
  <2> HIDE DEF r
  <2>4. \A q, u : /\ Printed(q, u)' <=> Printed(q, u)
                  /\ Read(q, u)' <=> Read(q, u)
                  /\ Seen(q, u)' <=> Seen(q, u)
    BY <2>1 DEF Printed, Read, Seen, In, EngineLine
  <2>5. ASSUME NEW q \in Requests PROVE LedgerOf(q)'
    <3>1. LedgerOf(q) /\ lines'[q] = lines[q] /\ left'[q] = IF q = r THEN Positions[r] ELSE left[q]
      BY <2>1, <2>2 DEF LedgerInv, TypeOK
    <3>2. CASE q = r
      <4>1. lines[r] = <<>> /\ \A u \in Position : ~Printed(r, u) /\ ~Read(r, u) /\ ~Seen(r, u)
        <5>1. lines[r] = <<>> /\ \A u \in Position : ~Printed(r, u)
          BY <2>3, <3>1, <3>2 DEF LedgerOf
        <5> QED
          BY <5>1 DEF Read, Seen, In
      <4> QED
        BY <1>0, <2>1, <2>2, <2>4, <3>1, <3>2, <4>1 DEF LedgerOf, Distinct
    <3>3. CASE q # r
      BY <2>1, <2>4, <3>1, <3>3 DEF LedgerOf, Distinct
    <3> QED
      BY <3>2, <3>3
  <2>6. Distinct(stdout)'
    BY <2>1 DEF LedgerInv, Distinct
  <2> QED
    BY <2>5, <2>6 DEF LedgerInv
<1>5. CASE ReadLine
  <2>0. UNCHANGED <<left, accepted>>
    BY <1>5 DEF ReadLine
  <2>1. PICK r \in Requests, t \in Position :
              LET all == Append(lines[r], EngineLine(r, t))
              IN  /\ Printed(r, t) /\ Distinct(stdout)'
                  /\ \A q, u : Printed(q, u)' <=> Printed(q, u) /\ ~(q = r /\ u = t)
                  /\ \/ lines' = lines
                     \/ /\ Distinct(all)
                        /\ \A u : In(all, EngineLine(r, u)) <=> Read(r, u) \/ u = t
                        /\ \A i \in DOMAIN all : all[i].id = r
                        /\ lines' = [lines EXCEPT ![r] = all]
    BY <1>5, ReadStep
  <2>2. ASSUME NEW q \in Requests, NEW u PROVE Read(q, u)' <=> In(lines'[q], EngineLine(q, u))
    BY DEF Read, In, EngineLine
  <2>3. ASSUME NEW q \in Requests PROVE LedgerOf(q)'
    <3>1. LedgerOf(q)
      BY DEF LedgerInv
    <3>2. CASE lines'[q] = lines[q]
      <4>1. \A u : Read(q, u)' <=> Read(q, u)
        BY <2>2, <3>2 DEF Read
      <4>2. \A u : Printed(q, u)' => Printed(q, u)
        BY <2>1
      <4>3. \A u : Seen(q, u)' => Seen(q, u)
        BY <4>1, <4>2 DEF Seen
      <4> QED
        BY <2>0, <3>1, <3>2, <4>1, <4>2, <4>3 DEF LedgerOf, Distinct
    <3>3. CASE lines'[q] # lines[q]
      <4>1. /\ q = r /\ Distinct(lines'[r]) /\ \A i \in DOMAIN lines'[r] : lines'[r][i].id = r
            /\ \A u : In(lines'[r], EngineLine(r, u)) <=> Read(r, u) \/ u = t
        BY <2>1, <3>3 DEF TypeOK
      <4>2. \A u : Read(r, u)' <=> Read(r, u) \/ u = t
        BY <2>2, <4>1
      <4>3. \A u : Printed(r, u)' <=> Printed(r, u) /\ u # t
        BY <2>1
      <4>4. \A u : Seen(r, u)' <=> Seen(r, u)
        BY <2>1, <4>2, <4>3 DEF Seen
      <4>5. r \in accepted
        BY <2>1, <3>1, <4>1 DEF LedgerOf
      <4> QED
        BY <2>0, <3>1, <4>1, <4>2, <4>3, <4>4, <4>5 DEF LedgerOf, Distinct
    <3> QED
      BY <3>2, <3>3
  <2> QED
    BY <2>1, <2>3 DEF LedgerInv
<1>6. ASSUME UNCHANGED <<stdout, lines, left, accepted>> PROVE LedgerInv'
  BY <1>6 DEF LedgerInv, LedgerOf, Printed, Read, Seen, In, Distinct, EngineLine
<1> QED
  BY <1>2, <1>3, <1>4, <1>5, <1>6
     DEF Next, vars, Register, Enqueue, TimerFires, Return, Expire, Forget, RunCallback,
         WriterTake, WriterSend, CheckExitLogged, ClaimExitLog, LogExit, ExitStep, EngineDies

-----------------------------------------------------------------------------
(* What a call is completed with.                                          *)

\* The whole answer to query r: an error alone, or every position once.
Whole(r, ls) ==
    \/ ls = <<EngineLine(r, Error)>>
    \/ /\ \A i \in DOMAIN ls : \E t \in Positions[r] : ls[i] = EngineLine(r, t)
       /\ \A t \in Positions[r] : In(ls, EngineLine(r, t))
       /\ Distinct(ls)

\* At least one line is waited for.
LEMMA ExpectedIsPositive ==
    ASSUME NEW r \in Requests PROVE ExpectedCount(Turns[r]) \in Nat \ {0}
<1>1. CASE Turns[r] = Unset
  BY <1>1 DEF ExpectedCount
<1>2. CASE Turns[r] # Unset
  <2>1. Turns[r] \in Seq(Position \ {Error})
    BY <1>2, WorkerAssumption DEF WorkerAssumption
  <2>2. Len(Turns[r]) \in Nat
    BY <2>1
  <2> QED
    BY <1>2, <2>2 DEF ExpectedCount
<1> QED
  BY <1>1, <1>2

\* There are at most as many positions as lines are waited for.
LEMMA PositionsCounted ==
    ASSUME NEW r \in Requests
    PROVE  /\ IsFiniteSet(Positions[r])
           /\ Cardinality(Positions[r]) <= ExpectedCount(Turns[r])
<1>0. Positions[r] = IF Turns[r] = Unset THEN {Current} ELSE {Turns[r][i] : i \in DOMAIN Turns[r]}
  BY DEF Positions
<1>1. CASE Turns[r] = Unset
  <2>1. Positions[r] = {Current} /\ ExpectedCount(Turns[r]) = 1
    BY <1>0, <1>1 DEF ExpectedCount
  <2>2. IsFiniteSet({Current}) /\ Cardinality({Current}) = 1
    BY FS_Singleton
  <2> QED
    BY <2>1, <2>2
<1>2. CASE Turns[r] # Unset
  <2> DEFINE n == Len(Turns[r])
  <2>1. /\ Turns[r] \in Seq(Position \ {Error}) /\ Turns[r] # <<>>
    BY <1>2, WorkerAssumption DEF WorkerAssumption
  <2>2. /\ n \in Nat /\ DOMAIN Turns[r] = 1 .. n /\ n >= 1
        /\ Turns[r] \in [1 .. n -> Position \ {Error}]
    BY <2>1
  <2>3. Positions[r] = {Turns[r][i] : i \in 1 .. n}
    BY <1>0, <1>2, <2>2
  <2>4. \A t \in Positions[r] : \E i \in 1 .. n : Turns[r][i] = t
    BY <2>3
  <2>5. Turns[r] \in [1 .. n -> Positions[r]]
    BY <2>2, <2>3
  <2>6. Turns[r] \in Surjection(1 .. n, Positions[r])
    BY <2>4, <2>5 DEF Surjection
  <2>7. IsFiniteSet(1 .. n) /\ Cardinality(1 .. n) = n
    BY <2>2, FS_Interval
  <2>8. IsFiniteSet(Positions[r]) /\ Cardinality(Positions[r]) <= n
    BY <2>6, <2>7, FS_Surjection
  <2>9. ExpectedCount(Turns[r]) = n
    BY <1>2, <2>2 DEF ExpectedCount
  <2> QED
    BY <2>8, <2>9
<1> QED
  BY <1>1, <1>2

\* Different lines about a query's positions, as many as are waited for, are
\* one for each of them.
LEMMA Enough ==
    ASSUME NEW r \in Requests, NEW ls \in Seq(EngineLines), Distinct(ls),
           \A i \in DOMAIN ls : \E t \in Positions[r] : ls[i] = EngineLine(r, t),
           Len(ls) >= ExpectedCount(Turns[r])
    PROVE  \A t \in Positions[r] : In(ls, EngineLine(r, t))
<1> DEFINE n == Len(ls)
           f == [i \in 1 .. n |-> ls[i].turn]
<1>1. n \in Nat /\ DOMAIN ls = 1 .. n
  OBVIOUS
<1>2. \A i \in 1 .. n : f[i] \in Positions[r] /\ ls[i] = EngineLine(r, f[i])
  BY <1>1 DEF EngineLine
<1>3. f \in [1 .. n -> Positions[r]]
  BY <1>2
<1>4. \A i, j \in 1 .. n : f[i] = f[j] => i = j
  BY <1>1, <1>2 DEF Distinct
<1> HIDE DEF f
<1>5. f \in Injection(1 .. n, Positions[r])
  BY <1>3, <1>4 DEF Injection, IsInjective
<1>6. IsFiniteSet(1 .. n) /\ Cardinality(1 .. n) = n
  BY <1>1, FS_Interval
<1>7. /\ IsFiniteSet(Positions[r]) /\ Cardinality(Positions[r]) <= ExpectedCount(Turns[r])
      /\ Cardinality(Positions[r]) \in Nat
  BY PositionsCounted, FS_CardinalityType
<1>8. /\ Cardinality(1 .. n) <= Cardinality(Positions[r])
      /\ Cardinality(1 .. n) = Cardinality(Positions[r]) <=> f \in Surjection(1 .. n, Positions[r])
  BY <1>5, <1>7, FS_Injection
<1>9. f \in Surjection(1 .. n, Positions[r])
  <2>1. Cardinality(1 .. n) = Cardinality(Positions[r])
    BY <1>1, <1>6, <1>7, <1>8, ExpectedIsPositive
  <2> QED
    BY <1>8, <2>1
<1>10. \A t \in Positions[r] : \E i \in 1 .. n : f[i] = t
  BY <1>9 DEF Surjection
<1> QED
  BY <1>1, <1>2, <1>10 DEF In

Done(r) == CallbackFor(r) \/ future[r] = "done"

\* What call r was or will be completed with is whole, and completed calls have no
\* line to come; a call that is still registered has not been told an error, waits
\* for more lines, and each of its positions is accounted for.
AnswerOf(r) ==
    /\ \A x : In(ready, x) /\ x.call = r => Whole(r, x.lines)
    /\ future[r] = "done" => Whole(r, result[r])
    /\ Done(r) => r \in accepted /\ left[r] = {} /\ \A t \in Position : ~Printed(r, t)
    /\ r \in registered => ~Read(r, Error) /\ Len(lines[r]) < ExpectedCount(Turns[r])
    /\ r \in registered /\ r \in accepted /\ ~Printed(r, Error) =>
          \A t \in Positions[r] : t \in left[r] \/ Seen(r, t)

AnswerInv == \A r \in Requests : AnswerOf(r)

\* The line with which the reader completes a call makes its answer whole,
\* and nothing more is printed for that call.
LEMMA Completion ==
    ASSUME TypeOK, LedgerInv, AnswerInv, NEW r \in Requests, NEW t \in Position,
           r \in registered, Printed(r, t),
           NEW all \in Seq(EngineLines), all = Append(lines[r], EngineLine(r, t)), Distinct(all),
           \A u : In(all, EngineLine(r, u)) <=> Read(r, u) \/ u = t,
           \A i \in DOMAIN all : all[i].id = r,
           t = Error \/ Len(all) >= ExpectedCount(Turns[r])
    PROVE  /\ Whole(r, all) /\ r \in accepted /\ left[r] = {}
           /\ \A u \in Position : Printed(r, u) => u = t
<1>1. LedgerOf(r) /\ AnswerOf(r)
  BY DEF LedgerInv, AnswerInv
<1>2. r \in accepted /\ ~Read(r, t) /\ Seen(r, t) /\ ~Read(r, Error)
  BY <1>1 DEF LedgerOf, AnswerOf, Seen
<1>3. /\ Positions[r] \subseteq Position \ {Error} /\ Positions[r] # {} /\ Error \in Position
  BY PositionsType DEF Position
<1>4. \A i \in DOMAIN all : all[i].turn \in Position /\ all[i] = EngineLine(r, all[i].turn)
  <2> TAKE i \in DOMAIN all
  <2>1. all[i] \in EngineLines
    BY MemberType
  <2> QED
    BY <2>1, LineParts
<1>5. \A i \in DOMAIN lines[r] : Read(r, lines[r][i].turn) /\ lines[r][i].turn \in Position
  <2> TAKE i \in DOMAIN lines[r]
  <2>1. lines[r] \in Seq(EngineLines)
    BY DEF TypeOK
  <2>2. lines[r][i] \in EngineLines
    BY <2>1, MemberType
  <2>3. lines[r][i].id = r
    BY <1>1 DEF LedgerOf
  <2>4. lines[r][i].turn \in Position /\ lines[r][i] = EngineLine(r, lines[r][i].turn)
    BY <2>2, <2>3, LineParts
  <2> QED
    BY <2>4 DEF Read, In
<1>6. CASE t = Error
  <2>1. left[r] = {} /\ \A u \in Positions[r] : ~Seen(r, u)
    BY <1>1, <1>2, <1>6 DEF LedgerOf
  <2>2. \A u \in Position : Seen(r, u) => u = t
    BY <1>1, <1>6, <2>1 DEF LedgerOf
  <2>3. lines[r] = <<>>
    <3>1. SUFFICES ASSUME lines[r] # <<>> PROVE FALSE
      OBVIOUS
    <3>2. 1 \in DOMAIN lines[r]
      <4>1. lines[r] \in Seq(EngineLines)
        BY DEF TypeOK
      <4> QED
        BY <3>1, <4>1
    <3>3. Read(r, lines[r][1].turn) /\ lines[r][1].turn = t
      BY <1>5, <2>2, <3>2 DEF Seen
    <3> QED
      BY <1>2, <3>3
  <2>4. all = <<EngineLine(r, Error)>>
    BY <1>6, <2>3
  <2> QED
    BY <1>2, <2>1, <2>2, <2>4 DEF Whole, Seen
<1>7. CASE t # Error
  <2>1. t \in Positions[r] /\ ~Seen(r, Error)
    BY <1>1, <1>2, <1>7 DEF LedgerOf
  <2>2. \A u \in Position : Read(r, u) => u \in Positions[r]
    BY <1>1, <2>1 DEF LedgerOf, Seen
  <2>3. \A i \in DOMAIN all : \E u \in Positions[r] : all[i] = EngineLine(r, u)
    <3> TAKE i \in DOMAIN all
    <3>1. In(all, EngineLine(r, all[i].turn)) /\ all[i].turn \in Position
      BY <1>4 DEF In
    <3>2. all[i].turn \in Positions[r]
      BY <2>1, <2>2, <3>1
    <3> QED
      BY <1>4, <3>2
  <2>4. \A u \in Positions[r] : In(all, EngineLine(r, u))
    BY <1>7, <2>3, Enough
  <2>5. \A u \in Positions[r] : Read(r, u) \/ u = t
    BY <2>4
  <2>6. \A u \in Positions[r] : Seen(r, u) /\ u \notin left[r]
    BY <1>1, <1>2, <1>3, <2>5 DEF LedgerOf, Seen
  <2>7. left[r] = {}
    BY <1>1, <2>6 DEF LedgerOf
  <2>8. \A u \in Position : Printed(r, u) => u \in Positions[r] /\ ~Read(r, u)
    BY <1>1, <2>1 DEF LedgerOf, Seen
  <2>9. \A u \in Position : Printed(r, u) => u = t
    BY <2>5, <2>8
  <2> QED
    BY <1>2, <2>3, <2>4, <2>7, <2>9 DEF Whole
<1> QED
  BY <1>6, <1>7

\* Every step keeps the answers whole.
LEMMA AnswerStep ==
    TypeOK /\ CallsInv /\ PathInv /\ LedgerInv /\ AnswerInv /\ [Next]_vars => AnswerInv'
<1> SUFFICES ASSUME TypeOK, CallsInv, PathInv, LedgerInv, AnswerInv, [Next]_vars
             PROVE  AnswerInv'
  OBVIOUS
<1> USE DEF callVars, taskVars, futureVars, readerVars, writerVars, exitVars,
            processVars, engineVars, threadVars
<1>0. /\ \A r \in Requests : Positions[r] \subseteq Position \ {Error} /\ Positions[r] # {}
      /\ Error \in Position
  BY PositionsType DEF Position
<1>a. ASSUME ready' = ready
      PROVE  \A q : (CallbackFor(q)' <=> CallbackFor(q)) /\ (In(ready, q)' <=> In(ready, q))
  BY <1>a DEF CallbackFor, In
<1>b. ASSUME stdout' = stdout, lines' = lines
      PROVE  \A q, u : /\ Printed(q, u)' <=> Printed(q, u)
                       /\ Read(q, u)' <=> Read(q, u)
                       /\ Seen(q, u)' <=> Seen(q, u)
  BY <1>b DEF Printed, Read, Seen, In, EngineLine
<1>c. ASSUME NEW q, NEW ls PROVE Whole(q, ls)' <=> Whole(q, ls)
  BY DEF Whole, In, Distinct, EngineLine
<1>1. ASSUME NEW r \in Requests, Register(r) PROVE AnswerInv'
  <2>1. /\ UNCHANGED <<result, ready, lines, stdout, left, accepted>> /\ pc[r] = "new"
        /\ registered' = registered \cup {r}
        /\ \A q \in Requests : future'[q] = IF q = r THEN "pending" ELSE future[q]
    BY <1>1 DEF Register, Begin, Go, RegisteredWith, TypeOK
  <2>2. r \notin accepted
    BY <2>1 DEF PathInv, PathOf, Sent
  <2>3. lines[r] = <<>> /\ ~Read(r, Error)
    BY <2>2 DEF LedgerInv, LedgerOf, Read, In
  <2>4. Len(lines[r]) < ExpectedCount(Turns[r])
    BY <2>3, ExpectedIsPositive
  <2>5. ASSUME NEW q \in Requests PROVE AnswerOf(q)'
    BY <1>a, <1>b, <1>c, <2>1, <2>2, <2>3, <2>4 DEF AnswerInv, AnswerOf, Done
  <2> QED
    BY <2>5 DEF AnswerInv
<1>2. CASE RunCallback
  <2> DEFINE r == Head(ready).call
             x == Head(ready)
  <2>1. /\ ready # <<>> /\ ready' = Tail(ready)
        /\ UNCHANGED <<registered, lines, stdout, left, accepted>> /\ OneCallback
    BY <1>2 DEF RunCallback, CallsInv
  <2>2. /\ In(ready, x) /\ r \in Requests
        /\ \A y : In(ready', y) => In(ready, y)
        /\ \A q : CallbackFor(q) <=> CallbackFor(q)' \/ q = r
    BY <2>1, NextCallback
  <2>3. \A q \in Requests :
           \/ future'[q] = future[q] /\ result'[q] = result[q]
           \/ q = r /\ future'[q] = "done" /\ result'[q] = x.lines
    BY <1>2, <2>2 DEF RunCallback, TypeOK
  <2> HIDE DEF r
  <2>4. ASSUME NEW q \in Requests PROVE AnswerOf(q)'
    <3>1. AnswerOf(q) /\ (q = r => Whole(q, x.lines))
      BY <2>2 DEF AnswerInv, AnswerOf, r
    <3>2. Done(q)' => Done(q)
      BY <2>2, <2>3 DEF Done
    <3>3. future'[q] = "done" => Whole(q, result'[q])
      BY <2>3, <3>1 DEF AnswerOf
    <3>4. ASSUME NEW y, In(ready', y), y.call = q PROVE Whole(q, y.lines)
      BY <2>2, <3>1, <3>4 DEF AnswerOf
    <3> QED
      BY <1>b, <1>c, <2>1, <3>1, <3>2, <3>3, <3>4 DEF AnswerOf, In
  <2> QED
    BY <2>4 DEF AnswerInv
<1>3. ASSUME NEW r \in Requests, NEW t \in Position, ~Printed(r, t), left[r] # {},
             stdout' = Append(stdout, EngineLine(r, t)),
             UNCHANGED <<ready, future, result, registered, lines, accepted>>,
             \/ left' = [left EXCEPT ![r] = @ \ {t}]
             \/ t = Error /\ left' = [left EXCEPT ![r] = {}]
      PROVE  AnswerInv'
  <2>1. /\ \A q, u : Printed(q, u)' <=> Printed(q, u) \/ (q = r /\ u = t)
        /\ \A q, u : Read(q, u)' <=> Read(q, u)
    BY <1>3, PrintStep
  <2>2. ASSUME NEW q \in Requests PROVE AnswerOf(q)'
    <3>1. AnswerOf(q) /\ (Done(q)' <=> Done(q)) /\ (Done(q) => q # r)
      BY <1>3, <1>a DEF AnswerInv, AnswerOf, Done
    <3>2. /\ q # r => left'[q] = left[q]
          /\ q = r /\ t # Error => left'[q] = left[q] \ {t}
      BY <1>3 DEF TypeOK
    <3>3. \A u : Seen(q, u)' <=> Seen(q, u) \/ (q = r /\ u = t)
      BY <2>1 DEF Seen
    <3>4. /\ \A x : In(ready, x)' /\ x.call = q => Whole(q, x.lines)
          /\ future'[q] = "done" => Whole(q, result'[q])
      BY <1>3, <1>a, <1>c, <3>1 DEF AnswerOf
    <3>5. Done(q)' => q \in accepted' /\ left'[q] = {} /\ \A u \in Position : ~Printed(q, u)'
      BY <1>3, <2>1, <3>1, <3>2 DEF AnswerOf
    <3>6. q \in registered' => ~Read(q, Error)' /\ Len(lines'[q]) < ExpectedCount(Turns[q])
      BY <1>3, <2>1, <3>1 DEF AnswerOf
    <3>7. q \in registered' /\ q \in accepted' /\ ~Printed(q, Error)' =>
             \A u \in Positions[q] : u \in left'[q] \/ Seen(q, u)'
      BY <1>3, <2>1, <3>1, <3>2, <3>3 DEF AnswerOf
    <3> QED
      BY <3>4, <3>5, <3>6, <3>7 DEF AnswerOf
  <2> QED
    BY <2>2 DEF AnswerInv
<1>4. ASSUME NEW r \in Requests, EngineRefuses(r) PROVE AnswerInv'
  <2>1. LedgerOf(r) /\ left[r] = Positions[r] /\ left[r] # {}
    BY <1>0, <1>4 DEF LedgerInv, EngineRefuses
  <2>2. ~Printed(r, Error)
    BY <2>1 DEF LedgerOf, Seen
  <2> QED
    BY <1>0, <1>3, <1>4, <2>1, <2>2 DEF EngineRefuses, EnginePrints
<1>5. ASSUME NEW r \in Requests, NEW t \in Positions[r], EngineAnswers(r, t) PROVE AnswerInv'
  <2>1. LedgerOf(r) /\ t \in left[r] /\ t \in Position
    BY <1>0, <1>5 DEF LedgerInv, EngineAnswers
  <2>2. ~Printed(r, t) /\ left[r] # {}
    BY <2>1 DEF LedgerOf, Seen
  <2> QED
    BY <1>3, <1>5, <2>1, <2>2 DEF EngineAnswers, EnginePrints
<1>6. CASE EngineRead
  <2> DEFINE r == Head(stdin)
  <2>1. /\ stdin # <<>> /\ accepted' = accepted \cup {r}
        /\ UNCHANGED <<ready, future, result, registered, stdout, lines>>
        /\ left' = [left EXCEPT ![r] = Positions[r]]
    BY <1>6 DEF EngineRead
  <2>2. r \in Requests /\ In(stdin, r)
    BY <2>1, InTail DEF TypeOK
  <2>3. r \notin accepted
    BY <2>2 DEF PathInv, PathOf
  <2> HIDE DEF r
  <2>4. ASSUME NEW q \in Requests PROVE AnswerOf(q)'
    <3>1. /\ AnswerOf(q) /\ (Done(q)' <=> Done(q)) /\ (Done(q) => q # r)
          /\ left'[q] = IF q = r THEN Positions[q] ELSE left[q]
          /\ q # r => (q \in accepted' <=> q \in accepted)
      BY <1>a, <2>1, <2>2, <2>3 DEF AnswerInv, AnswerOf, Done, TypeOK
    <3>2. /\ \A x : In(ready, x)' /\ x.call = q => Whole(q, x.lines)
          /\ future'[q] = "done" => Whole(q, result'[q])
          /\ q \in registered' => ~Read(q, Error)' /\ Len(lines'[q]) < ExpectedCount(Turns[q])
      BY <1>a, <1>b, <1>c, <2>1, <3>1 DEF AnswerOf
    <3>3. Done(q)' => q \in accepted' /\ left'[q] = {} /\ \A u \in Position : ~Printed(q, u)'
      BY <1>b, <2>1, <3>1 DEF AnswerOf
    <3>4. q \in registered' /\ q \in accepted' /\ ~Printed(q, Error)' =>
             \A u \in Positions[q] : u \in left'[q] \/ Seen(q, u)'
      BY <1>b, <2>1, <3>1 DEF AnswerOf
    <3> QED
      BY <3>2, <3>3, <3>4 DEF AnswerOf
  <2> QED
    BY <2>4 DEF AnswerInv
<1>7. CASE ReadLine
  <2>0. UNCHANGED <<future, result, left, accepted>>
    BY <1>7 DEF ReadLine
  <2>1. PICK r \in Requests, t \in Position :
              LET all == Append(lines[r], EngineLine(r, t))
              IN  /\ Printed(r, t)
                  /\ \A q, u : Printed(q, u)' <=> Printed(q, u) /\ ~(q = r /\ u = t)
                  /\ \/ r \notin registered /\ UNCHANGED readerVars
                     \/ /\ r \in registered
                        /\ all \in Seq(EngineLines) /\ Distinct(all)
                        /\ \A u : In(all, EngineLine(r, u)) <=> Read(r, u) \/ u = t
                        /\ \A i \in DOMAIN all : all[i].id = r
                        /\ lines' = [lines EXCEPT ![r] = all]
                        /\ \/ /\ t = Error \/ Len(all) >= ExpectedCount(Turns[r])
                              /\ registered' = registered \ {r}
                              /\ ready' = Append(ready, [call |-> r, lines |-> all])
                           \/ /\ t # Error /\ ~(Len(all) >= ExpectedCount(Turns[r]))
                              /\ UNCHANGED <<registered, ready>>
    BY <1>7, ReadStep
  <2> DEFINE all == Append(lines[r], EngineLine(r, t))
  <2>2. ASSUME NEW q \in Requests, NEW u PROVE Read(q, u)' <=> In(lines'[q], EngineLine(q, u))
    BY DEF Read, In, EngineLine
  <2>3. ASSUME NEW q \in Requests, lines'[q] = lines[q],
               q \in registered' <=> q \in registered, q # r \/ q \notin registered,
               CallbackFor(q)' <=> CallbackFor(q),
               \A x : In(ready, x)' /\ x.call = q => In(ready, x)
        PROVE  AnswerOf(q)'
    <3>1. AnswerOf(q) /\ (Done(q)' <=> Done(q))
      BY <2>0, <2>3 DEF AnswerInv, Done
    <3>2. \A u : Read(q, u)' <=> Read(q, u)
      BY <2>2, <2>3 DEF Read
    <3>3. /\ \A u : Printed(q, u)' => Printed(q, u)
          /\ q # r => \A u : Printed(q, u)' <=> Printed(q, u)
      BY <2>1
    <3>4. /\ q # r => \A u : Seen(q, u)' <=> Seen(q, u)
      BY <3>2, <3>3 DEF Seen
    <3> QED
      BY <1>c, <2>0, <2>3, <3>1, <3>2, <3>3, <3>4 DEF AnswerOf
  <2>4. CASE r \notin registered /\ UNCHANGED readerVars
    BY <1>a, <2>3, <2>4 DEF AnswerInv
  <2>5. CASE /\ r \in registered /\ lines' = [lines EXCEPT ![r] = all]
             /\ t = Error \/ Len(all) >= ExpectedCount(Turns[r])
             /\ registered' = registered \ {r}
             /\ ready' = Append(ready, [call |-> r, lines |-> all])
             /\ all \in Seq(EngineLines) /\ Distinct(all)
             /\ \A u : In(all, EngineLine(r, u)) <=> Read(r, u) \/ u = t
             /\ \A i \in DOMAIN all : all[i].id = r
    <3>1. OneCallback /\ ~CallbackFor(r) /\ future[r] # "done"
      BY <2>5 DEF CallsInv, CallInv
    <3>2. /\ Whole(r, all) /\ r \in accepted /\ left[r] = {}
          /\ \A u \in Position : Printed(r, u) => u = t
      <4>1. /\ r \in registered /\ Printed(r, t) /\ all \in Seq(EngineLines) /\ Distinct(all)
            /\ \A u : In(all, EngineLine(r, u)) <=> Read(r, u) \/ u = t
            /\ \A i \in DOMAIN all : all[i].id = r
            /\ t = Error \/ Len(all) >= ExpectedCount(Turns[r])
        BY <2>1, <2>5
      <4>2. PICK ls \in Seq(EngineLines) : ls = Append(lines[r], EngineLine(r, t)) /\ ls = all
        BY <4>1
      <4> QED
        BY <4>1, <4>2, Completion
    <3> HIDE DEF all
    <3>3. /\ \A x : In(ready', x) <=> In(ready, x) \/ x = [call |-> r, lines |-> all]
          /\ \A q : CallbackFor(q)' <=> CallbackFor(q) \/ q = r
      BY <2>5, <3>1, NewCallback
    <3>4. ASSUME NEW q \in Requests PROVE AnswerOf(q)'
      <4>1. CASE q # r
        <5>1. /\ lines'[q] = lines[q] /\ (q \in registered' <=> q \in registered)
          BY <2>5, <4>1 DEF TypeOK
        <5>2. \A x : In(ready, x)' /\ x.call = q => In(ready, x)
          BY <3>3, <4>1 DEF In
        <5> QED
          BY <2>3, <3>3, <4>1, <5>1, <5>2
      <4>2. CASE q = r
        <5>1. \A x : In(ready, x)' /\ x.call = r => x = [call |-> r, lines |-> all]
          BY <3>1, <3>3, CallbackIn DEF In
        <5>2. \A x : In(ready, x)' /\ x.call = r => Whole(r, x.lines)
          BY <1>c, <3>2, <5>1
        <5>3. r \notin registered' /\ future'[r] # "done"
          BY <2>0, <2>5, <3>1
        <5>4. r \in accepted' /\ left'[r] = {} /\ \A u \in Position : ~Printed(r, u)'
          BY <2>0, <2>1, <3>2
        <5> QED
          BY <4>2, <5>2, <5>3, <5>4 DEF AnswerOf
      <4> QED
        BY <4>1, <4>2
    <3> QED
      BY <3>4 DEF AnswerInv
  <2>6. CASE /\ r \in registered /\ lines' = [lines EXCEPT ![r] = all]
             /\ t # Error /\ ~(Len(all) >= ExpectedCount(Turns[r]))
             /\ UNCHANGED <<registered, ready>>
             /\ all \in Seq(EngineLines)
             /\ \A u : In(all, EngineLine(r, u)) <=> Read(r, u) \/ u = t
    <3>1. ASSUME NEW q \in Requests PROVE AnswerOf(q)'
      <4>1. CASE q # r
        <5>1. lines'[q] = lines[q] /\ (q \in registered' <=> q \in registered)
          BY <2>6, <4>1 DEF TypeOK
        <5> QED
          BY <1>a, <2>3, <2>6, <4>1, <5>1
      <4>2. CASE q = r
        <5>1. AnswerOf(r) /\ ~Done(r) /\ ~Done(r)' /\ lines'[r] = all
          BY <1>a, <2>0, <2>6 DEF AnswerInv, CallsInv, CallInv, Done, TypeOK
        <5>2. \A u : Read(r, u)' <=> Read(r, u) \/ u = t
          BY <2>2, <2>6, <5>1
        <5>3. \A u : Printed(r, u)' <=> Printed(r, u) /\ u # t
          BY <2>1
        <5>4. \A u : Seen(r, u)' <=> Seen(r, u)
          BY <2>1, <5>2, <5>3 DEF Seen
        <5>5. Len(all) < ExpectedCount(Turns[r])
          BY <2>6, ExpectedIsPositive
        <5>6. ~Read(r, Error)'
          BY <2>6, <5>1, <5>2 DEF AnswerOf
        <5>7. r \in accepted /\ ~Printed(r, Error)' =>
                 \A u \in Positions[r] : u \in left'[r] \/ Seen(r, u)'
          BY <2>0, <2>6, <5>1, <5>3, <5>4 DEF AnswerOf
        <5>8. \A x : In(ready, x)' => x.call # r
          BY <1>a, <2>6, <5>1, CallbackIn DEF Done
        <5> QED
          BY <2>0, <4>2, <5>1, <5>5, <5>6, <5>7, <5>8 DEF AnswerOf, Done
      <4> QED
        BY <4>1, <4>2
    <3> QED
      BY <3>1 DEF AnswerInv
  <2> QED
    BY <2>1, <2>4, <2>5, <2>6
<1>8. ASSUME NEW r \in Requests, TimerFires(r) \/ Expire(r) \/ Forget(r) \/ Return(r)
      PROVE  AnswerInv'
  <2>1. /\ UNCHANGED <<result, ready, lines, stdout, left, accepted>>
        /\ registered' \subseteq registered
    BY <1>8 DEF TimerFires, Expire, Forget, Return, RegisteredAfterTimeout
  <2>2. \A q \in Requests : future'[q] = "done" => future[q] = "done"
    BY <1>8 DEF TimerFires, Expire, Forget, Return, TypeOK
  <2>3. ASSUME NEW q \in Requests PROVE AnswerOf(q)'
    BY <1>a, <1>b, <1>c, <2>1, <2>2 DEF AnswerInv, AnswerOf, Done
  <2> QED
    BY <2>3 DEF AnswerInv
<1>9. ASSUME UNCHANGED <<result, future, ready, lines, stdout, left, accepted, registered>>
      PROVE  AnswerInv'
  BY <1>a, <1>b, <1>c, <1>9 DEF AnswerInv, AnswerOf, Done
<1> QED
  BY <1>1, <1>2, <1>4, <1>5, <1>6, <1>7, <1>8, <1>9
     DEF Next, vars, Enqueue, WriterTake, WriterSend, CheckExitLogged, ClaimExitLog, LogExit,
         ExitStep, EngineDies

-----------------------------------------------------------------------------
(* The theorems.                                                           *)

AInv == IInv /\ PathInv /\ LedgerInv /\ AnswerInv

\* The invariant holds when the worker is started.
LEMMA AnswersInitially == Init => AInv
<1> SUFFICES ASSUME Init PROVE AInv
  OBVIOUS
<1>1. IInv
  BY Initially
<1>2. /\ \A x : ~In(writeQueue, x) /\ ~In(stdin, x) /\ ~In(stdout, x) /\ ~In(ready, x)
      /\ Distinct(writeQueue) /\ Distinct(stdin) /\ Distinct(stdout)
  BY DEF Init, In, Distinct
<1>3. \A r \in Requests : \A x : ~In(lines[r], x) /\ Distinct(lines[r]) /\ DOMAIN lines[r] = {}
  BY DEF Init, In, Distinct
<1>4. PathInv
  BY <1>2, WorkerAssumption DEF Init, PathInv, PathOf, Sent, WorkerAssumption
<1>5. LedgerInv
  BY <1>2, <1>3 DEF Init, LedgerInv, LedgerOf, Printed, Read, Seen
<1>6. AnswerInv
  BY <1>2, CallbackIn DEF Init, AnswerInv, AnswerOf, Done
<1> QED
  BY <1>1, <1>4, <1>5, <1>6 DEF AInv

\* And every step keeps it.
LEMMA AnswersInductive == AInv /\ [Next]_vars => AInv'
BY Inductive, PathStep, LedgerStep, AnswerStep DEF AInv, IInv

\* The worker never leaves the invariant.
THEOREM AnswersInvariance == Spec => []AInv
BY AnswersInitially, AnswersInductive, PTL DEF Spec

\* The action of NoLineDropped.
KeepsLines ==
    \A r \in Waiting : stdout # <<>> /\ stdout' = Tail(stdout) /\ Head(stdout).id = r
       => lines'[r] = Append(lines[r], Head(stdout))

\* A line about a call that waits in time is added to that call's results: none is
\* skipped as a line of an unknown query (worker.py:116-131).
THEOREM LinesKept == Spec => NoLineDropped
<1>1. ASSUME AInv, Next PROVE KeepsLines
  <2> SUFFICES ASSUME NEW q \in Waiting, stdout # <<>>, stdout' = Tail(stdout),
                      Head(stdout).id = q
               PROVE  lines'[q] = Append(lines[q], Head(stdout))
    BY DEF KeepsLines
  <2>0. TypeOK /\ CallsInv /\ LedgerInv /\ AnswerInv /\ q \in Requests
        /\ pc[q] = "awaiting" /\ q \notin timerFired
    BY <1>1 DEF AInv, IInv, Waiting
  <2>1. stdout \in Seq(EngineLines)
    BY <2>0 DEF TypeOK
  <2>2. stdout' # stdout /\ \A l : stdout' # Append(stdout, l)
    BY <2>1
  <2>3. ReadLine
    BY <1>1, <2>2
       DEF Next, Register, Enqueue, TimerFires, Return, Expire, Forget, RunCallback,
           WriterTake, WriterSend, CheckExitLogged, ClaimExitLog, LogExit, ExitStep,
           EngineRefuses, EngineAnswers, EnginePrints, EngineRead, EngineDies, threadVars,
           processVars
  <2>4. PICK r \in Requests, t \in Position :
              /\ Printed(r, t) /\ Head(stdout) = EngineLine(r, t)
              /\ \/ r \notin registered
                 \/ lines' = [lines EXCEPT ![r] = Append(lines[r], EngineLine(r, t))]
    BY <2>0, <2>3, ReadStep
  <2>5. r = q
    BY <2>4 DEF EngineLine
  <2>6. q \in registered
    BY <2>0, <2>4, <2>5 DEF CallsInv, CallInv, AnswerInv, AnswerOf, Done
  <2> QED
    BY <2>0, <2>4, <2>5, <2>6 DEF TypeOK
<1>2. ASSUME AInv, UNCHANGED vars PROVE [KeepsLines]_vars
  BY <1>2
<1>3. AInv /\ [Next]_vars => [KeepsLines]_vars
  BY <1>1
<1> QED
  BY <1>3, AnswersInvariance, PTL DEF Spec, NoLineDropped, KeepsLines

\* If no payload names a position twice, a call whose lines have all been read is
\* completed: the count of get_expected_response_count is the number of lines that
\* the engine prints (payload_analyzer.py:1-9, worker.py:124-125).
THEOREM AllLinesReadCompletes ==
    ASSUME \A r \in Requests : Turns[r] # Unset => Distinct(Turns[r])
    PROVE  Spec => []CompletedQueryNotLeftWaiting
<1>1. ASSUME NEW r \in Requests PROVE Cardinality(Positions[r]) = ExpectedCount(Turns[r])
  <2>0. Positions[r] =
           IF Turns[r] = Unset THEN {Current} ELSE {Turns[r][i] : i \in DOMAIN Turns[r]}
    BY DEF Positions
  <2>1. CASE Turns[r] = Unset
    <3>1. Positions[r] = {Current} /\ ExpectedCount(Turns[r]) = 1
      BY <2>0, <2>1 DEF ExpectedCount
    <3> QED
      BY <3>1, FS_Singleton
  <2>2. CASE Turns[r] # Unset
    <3> DEFINE n == Len(Turns[r])
    <3>1. Turns[r] \in Seq(Position \ {Error}) /\ Turns[r] # <<>> /\ Distinct(Turns[r])
      BY <2>2, WorkerAssumption DEF WorkerAssumption
    <3>2. /\ n \in Nat /\ DOMAIN Turns[r] = 1 .. n /\ n >= 1
          /\ Turns[r] \in [1 .. n -> Position \ {Error}]
      BY <3>1
    <3>3. Positions[r] = {Turns[r][i] : i \in 1 .. n}
      BY <2>0, <2>2, <3>2
    <3>4. /\ \A t \in Positions[r] : \E i \in 1 .. n : Turns[r][i] = t
          /\ Turns[r] \in [1 .. n -> Positions[r]]
      BY <3>2, <3>3
    <3>5. /\ Turns[r] \in Surjection(1 .. n, Positions[r])
          /\ Turns[r] \in Injection(1 .. n, Positions[r])
      BY <3>1, <3>2, <3>4 DEF Surjection, Injection, IsInjective, Distinct
    <3>6. IsFiniteSet(1 .. n) /\ Cardinality(1 .. n) = n
      BY <3>2, FS_Interval
    <3>7. Cardinality(Positions[r]) = n
      BY <3>5, <3>6, FS_Surjection
    <3> QED
      BY <2>2, <3>2, <3>7 DEF ExpectedCount
  <2> QED
    BY <2>1, <2>2
<1>2. ASSUME AInv, NEW r \in registered, r \in accepted, left[r] = {},
             \A i \in DOMAIN stdout : stdout[i].id # r
      PROVE  FALSE
  <2> DEFINE n == Len(lines[r])
             g == [i \in 1 .. n |-> lines[r][i].turn]
  <2>0. /\ r \in Requests /\ LedgerOf(r) /\ AnswerOf(r) /\ lines[r] \in Seq(EngineLines)
    BY <1>2 DEF AInv, IInv, TypeOK, LedgerInv, AnswerInv
  <2>1. \A t : ~Printed(r, t)
    BY <1>2 DEF Printed, In, EngineLine
  <2>2. Error \in Position /\ Positions[r] \subseteq Position
    BY <2>0, PositionsType DEF Position
  <2>3. \A t \in Positions[r] : Read(r, t)
    BY <1>2, <2>0, <2>1, <2>2 DEF AnswerOf, Seen
  <2>4. n \in Nat /\ DOMAIN lines[r] = 1 .. n
    BY <2>0
  <2>5. ASSUME NEW i \in 1 .. n PROVE lines[r][i].turn \in Positions[r]
    <3>1. lines[r][i] \in EngineLines /\ lines[r][i].id = r
      BY <2>0, <2>4, MemberType DEF LedgerOf
    <3>2. lines[r][i].turn \in Position /\ lines[r][i] = EngineLine(r, lines[r][i].turn)
      BY <3>1, LineParts
    <3>3. Read(r, lines[r][i].turn)
      BY <2>4, <3>2 DEF Read, In
    <3> QED
      BY <1>2, <2>0, <3>2, <3>3 DEF LedgerOf, AnswerOf, Seen
  <2>6. \A t \in Positions[r] : \E i \in 1 .. n : g[i] = t
    <3> TAKE t \in Positions[r]
    <3>1. PICK i \in 1 .. n : lines[r][i] = EngineLine(r, t)
      BY <2>3, <2>4 DEF Read, In
    <3> QED
      BY <3>1 DEF EngineLine
  <2>7. g \in [1 .. n -> Positions[r]]
    BY <2>5
  <2> HIDE DEF g
  <2>8. g \in Surjection(1 .. n, Positions[r])
    BY <2>6, <2>7 DEF Surjection
  <2>9. IsFiniteSet(1 .. n) /\ Cardinality(1 .. n) = n
    BY <2>4, FS_Interval
  <2>10. Cardinality(Positions[r]) <= n
    BY <2>8, <2>9, FS_Surjection
  <2>11. n < ExpectedCount(Turns[r])
    BY <1>2, <2>0 DEF AnswerOf
  <2>12. ExpectedCount(Turns[r]) = Cardinality(Positions[r]) /\ ExpectedCount(Turns[r]) \in Nat
    BY <1>1, <2>0, ExpectedIsPositive
  <2> QED
    BY <2>4, <2>10, <2>11, <2>12
<1>3. AInv => CompletedQueryNotLeftWaiting
  BY <1>2 DEF CompletedQueryNotLeftWaiting, AInv, IInv, TypeOK
<1> QED
  BY <1>3, AnswersInvariance, PTL

-----------------------------------------------------------------------------
(* The refinement.                                                         *)

\* The calls made so far, as RequestReply sees them.
Asked == {r \in Requests : pc[r] # "new"}

\* A whole answer under the id of the caller is complete for RequestReply.
LEMMA WholeIsComplete ==
    ASSUME NEW r \in Requests, NEW rs \in Seq(EngineLines), Whole(r, rs)
    PROVE  Promise!Complete(r, [i \in DOMAIN rs |-> [rs[i] EXCEPT !.id = ExternalId[r]]])
<1> DEFINE ls == [i \in DOMAIN rs |-> [rs[i] EXCEPT !.id = ExternalId[r]]]
<1>1. ASSUME NEW i \in DOMAIN rs
      PROVE  /\ ls[i] = [id |-> ExternalId[r], about |-> rs[i].about, turn |-> rs[i].turn]
             /\ rs[i] = EngineLine(rs[i].about, rs[i].turn)
  <2>1. rs[i] \in EngineLines
    BY MemberType
  <2> QED
    BY <2>1, Relabelled, LineParts
<1>2. ASSUME NEW i \in DOMAIN rs, NEW t, rs[i] = EngineLine(r, t)
      PROVE  ls[i] = Promise!Line(r, t)
  BY <1>1, <1>2 DEF Promise!Line, EngineLine
<1>3. ASSUME NEW i \in DOMAIN rs, NEW j \in DOMAIN rs, ls[i] = ls[j] PROVE rs[i] = rs[j]
  BY <1>1, <1>3
<1>4. DOMAIN ls = DOMAIN rs
  OBVIOUS
<1>5. CASE rs = <<EngineLine(r, Error)>>
  <2>1. DOMAIN rs = 1 .. 1 /\ rs[1] = EngineLine(r, Error)
    BY <1>5
  <2>2. ls[1] = Promise!Line(r, Error)
    BY <1>2, <2>1
  <2>3. ls = [i \in 1 .. 1 |-> ls[i]]
    BY <2>1
  <2> HIDE DEF ls
  <2>4. ls = <<Promise!Line(r, Error)>>
    BY <2>2, <2>3
  <2> QED
    BY <2>4 DEF Promise!Complete, ls
<1>6. CASE /\ \A i \in DOMAIN rs : \E t \in Positions[r] : rs[i] = EngineLine(r, t)
           /\ \A t \in Positions[r] : In(rs, EngineLine(r, t))
           /\ Distinct(rs)
  <2> HIDE DEF ls
  <2>1. /\ \A i \in DOMAIN ls : \E t \in Positions[r] : ls[i] = Promise!Line(r, t)
        /\ \A t \in Positions[r] : \E i \in DOMAIN ls : ls[i] = Promise!Line(r, t)
    BY <1>2, <1>4, <1>6 DEF In
  <2>2. \A i, j \in DOMAIN ls : ls[i] = ls[j] => i = j
    BY <1>3, <1>4, <1>6 DEF Distinct
  <2> QED
    BY <2>1, <2>2 DEF Promise!Complete, ls
<1> QED
  BY <1>5, <1>6 DEF Whole

\* Every behaviour of the worker is one of RequestReply: a call returns at most
\* once, a timeout or the whole answer to its own query (worker.py:135-164).
THEOREM Implementation == Spec => ImplementsRequestReply
<1>1. Init => Promise!Init
  BY DEF Init, Promise!Init, Nothing, Promise!Nothing
<1>2. AInv /\ [Next]_vars => [Promise!Next]_(Promise!vars)
  <2> SUFFICES ASSUME AInv, [Next]_vars PROVE [Promise!Next]_(Promise!vars)
    OBVIOUS
  <2>0. TypeOK /\ CallsInv /\ AnswerInv
    BY DEF AInv, IInv
  <2>1. ASSUME NEW r \in Requests, Register(r) PROVE Promise!Ask(r)
    BY <2>0, <2>1 DEF Register, Begin, Go, Promise!Ask, TypeOK, threadVars
  <2>2. ASSUME NEW r \in Requests, Return(r) PROVE Promise!Return(r)
    <3> DEFINE ls == [i \in DOMAIN result[r] |-> [result[r][i] EXCEPT !.id = ExternalId[r]]]
    <3>1. reply[r] = Nothing /\ Whole(r, result[r]) /\ result[r] \in Seq(EngineLines)
      BY <2>0, <2>2 DEF Return, Go, CallsInv, CallInv, AnswerInv, AnswerOf, TypeOK
    <3>2. Promise!Complete(r, ls)
      BY <3>1, WholeIsComplete
    <3> HIDE DEF ls
    <3>3. reply' = [reply EXCEPT ![r] = Answer(ls)] /\ reply'[r] = Answer(ls)
      BY <2>0, <2>2 DEF Return, TypeOK, ls
    <3>4. reply'[r].kind = "lines" /\ reply'[r].lines = ls
      BY <3>3 DEF Answer
    <3>5. {q \in Requests : pc[q] # "new"}' = {q \in Requests : pc[q] # "new"}
          /\ pc[r] # "new"
      BY <2>0, <2>2 DEF Return, Go, TypeOK
    <3> QED
      BY <3>1, <3>2, <3>3, <3>4, <3>5
         DEF Promise!Return, Nothing, Promise!Nothing, Answer, Promise!Answer
  <2>3. ASSUME NEW r \in Requests, Forget(r) PROVE Promise!Expire(r)
    BY <2>0, <2>3 DEF Forget, End, Go, Promise!Expire, CallsInv, CallInv, Nothing, Timeout,
                      Promise!Nothing, Promise!Timeout, TypeOK
  <2>4. ASSUME UNCHANGED reply, \A q \in Requests : pc'[q] = "new" <=> pc[q] = "new"
        PROVE  UNCHANGED Promise!vars
    BY <2>4 DEF Promise!vars
  <2>5. ASSUME NEW r \in Requests, Enqueue(r) \/ Expire(r) PROVE UNCHANGED Promise!vars
    BY <2>0, <2>4, <2>5 DEF Enqueue, Expire, Begin, End, Go, TypeOK, futureVars
  <2>6. ASSUME UNCHANGED <<pc, reply>> PROVE UNCHANGED Promise!vars
    BY <2>4, <2>6
  <2> QED
    BY <2>1, <2>2, <2>3, <2>5, <2>6
       DEF Next, vars, Promise!Next, callVars, taskVars, futureVars, TimerFires, RunCallback,
           WriterTake, WriterSend, ReadLine, CheckExitLogged, ClaimExitLog, LogExit, ExitStep,
           EngineRefuses, EngineAnswers, EnginePrints, EngineRead, EngineDies
<1> QED
  BY <1>1, <1>2, AnswersInvariance, PTL DEF Spec, ImplementsRequestReply, Promise!Spec
=============================================================================
