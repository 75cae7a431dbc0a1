------------------------ MODULE AnalyzeServiceProofs ------------------------
(***************************************************************************)
(* Safety of AnalyzeService, for any number of models, workers, slots and  *)
(* requests.  The inductive invariant says in its parts how far a request  *)
(* has come and what it was sent (RequestInv), that what a health check    *)
(* has found dead is dead (HealthInv), that the statistics count the       *)
(* responses, and that of the workers of a model those before the round    *)
(* robin index were chosen once more (BalanceInv).  The load of an engine  *)
(* is related to the slots of its gate by LoadInv.                         *)
(***************************************************************************)
EXTENDS AnalyzeService, FiniteSetTheorems, TLAPS

-----------------------------------------------------------------------------
(* Operators of the model.                                                 *)

\* The results of engines in an instance are among those there are.
LEMMA ResultsAssumption == Results \subseteq ResultKinds
BY ServiceAssumption DEF ServiceAssumption

\* The four results that a call can return, and what the endpoint makes of
\* each: success only of one without an error.
LEMMA Verdicts ==
    ASSUME NEW items \in Results \cup {TimedOut}
    PROVE  /\ Verdict(items).status \in {200, 400, 500, 504}
           /\ Verdict(items).outcome \in {"ok", "timeout", "error"}
           /\ Verdict(items).outcome = "ok" <=> Verdict(items).status = 200
           /\ Verdict(items).outcome = "timeout" <=> Verdict(items).status = 504
           /\ Verdict(items).status = 200 => items \in Results /\ ~Failed(items)
<1> USE DEF IsError, Failed, FirstError, Verdict, StatusOf, OutcomeOf, TimedOut
<1>0. items \in ResultKinds \cup {TimedOut} /\ (items # TimedOut => items \in Results)
  BY ResultsAssumption
<1>1. CASE items = <<"ok">>
  BY <1>1
<1>2. ASSUME NEW text \in Texts, items = <<text>> PROVE FirstError(items) = text /\ Failed(items)
  BY <1>2 DEF Texts
<1>3. CASE items = <<"ok", "internal">>
  <2>1. FirstError(items) = "internal" /\ Failed(items)
    <3> DEFINE i == CHOOSE i \in DOMAIN items :
                       IsError(items[i]) /\ \A j \in 1..(i - 1) : ~IsError(items[j])
    <3>1. DOMAIN items = 1..2 /\ items[1] = "ok" /\ items[2] = "internal"
      BY <1>3
    <3>2. \E k \in DOMAIN items : IsError(items[k]) /\ \A j \in 1..(k - 1) : ~IsError(items[j])
      <4>1. 2 \in 1..2 /\ \A j \in 1..(2 - 1) : j = 1
        OBVIOUS
      <4> QED
        BY <3>1, <4>1
    <3>3. i \in DOMAIN items /\ IsError(items[i])
      BY <3>2
    <3>4. i = 2
      BY <3>1, <3>3
    <3> QED
      BY <3>1, <3>4
  <2> QED
    BY <2>1
<1>4. CASE items = <<"other">> \/ items = <<"timeout">>
  <2>1. PICK text \in {"other", "timeout"} : items = <<text>>
    BY <1>4
  <2>2. FirstError(items) = text /\ Failed(items)
    BY <1>2, <2>1 DEF Texts
  <2> QED
    BY <2>1, <2>2
<1>5. TimedOut \notin ResultKinds
  BY DEF ResultKinds
<1> QED
  BY <1>0, <1>1, <1>3, <1>4, <1>5 DEF ResultKinds

\* A timeout is sent as 504.
LEMMA TimeoutVerdict == Verdict(TimedOut).status = 504
<1>1. IsError(TimedOut[1]) /\ DOMAIN TimedOut = {1} /\ TimedOut[1] = "timeout"
  BY DEF TimedOut, IsError
<1>2. FirstError(TimedOut) = "timeout"
  BY <1>1 DEF FirstError
<1> QED
  BY <1>1, <1>2 DEF Verdict, Failed, StatusOf

\* The k-th worker is a worker.
LEMMA WorkersCounted ==
    ASSUME NEW k \in 1..(Len(ModelOrder) * NumWorkers) PROVE WorkerAt(k) \in Workers
<1> DEFINE n == NumWorkers
           l == Len(ModelOrder)
           q == (k - 1) \div n
<1>1. n \in Nat /\ n > 0 /\ ModelOrder \in Seq(Models)
  BY ServiceAssumption DEF ServiceAssumption
<1>2. l \in Nat /\ DOMAIN ModelOrder = 1..l
  BY <1>1
<1>3. k - 1 \in Nat /\ k - 1 < l * n /\ k \in Int
  BY <1>1, <1>2
<1>4. (k - 1) % n \in 0..(n - 1)
  BY <1>1, <1>3
<1>5. q \in Nat /\ q * n <= k - 1
  BY <1>1, <1>3
<1>6. q < l
  <2>1. q * n < l * n
    <3>1. q * n \in Int /\ l * n \in Int
      BY <1>1, <1>2, <1>5
    <3> QED
      BY <1>3, <1>5, <3>1
  <2> QED
    BY <1>1, <1>2, <1>5, <2>1
<1>7. q + 1 \in 1..l
  BY <1>2, <1>5, <1>6
<1>8. ModelOrder[q + 1] \in Models
  BY <1>1, <1>2, <1>7
<1> QED
  BY <1>4, <1>8 DEF WorkerAt, Workers, Index

\* The round robin index goes on by one and wraps.
LEMMA Wraps ==
    ASSUME NEW i \in Index
    PROVE  /\ NextIndex(i) \in Index
           /\ NextIndex(i) = IF i + 1 = NumWorkers THEN 0 ELSE i + 1
<1>1. NumWorkers \in Nat /\ NumWorkers > 0 /\ i \in 0..(NumWorkers - 1)
  BY ServiceAssumption DEF ServiceAssumption, Index
<1>2. CASE i + 1 = NumWorkers
  BY <1>1, <1>2 DEF NextIndex, Index
<1>3. CASE i + 1 # NumWorkers
  <2>1. i + 1 \in 0..(NumWorkers - 1)
    BY <1>1, <1>3
  <2>2. (i + 1) % NumWorkers = i + 1
    BY <1>1, <2>1
  <2> QED
    BY <1>3, <2>1, <2>2 DEF NextIndex, Index
<1> QED
  BY <1>2, <1>3

-----------------------------------------------------------------------------
(* Types.                                                                  *)

\* How far a request has come, and what it was sent.
RequestInv ==
    \A r \in Requests :
       /\ pc[r] = "queued" => ModelOf[r] \in Gated
       /\ pc[r] = "waiting" => ModelOf[r] \in Models
       /\ pc[r] # "answered" => status[r] = 0
       /\ pc[r] = "answered" => status[r] # 0
       /\ status[r] = 200 => result[r] # NoResult /\ ~Failed(result[r])

\* What the answer of worker.analyze does, whichever comes first.
LEMMA Responses ==
    ASSUME TypeOK, NEW r \in Requests, ReturnLines(r) \/ ReturnTimeout(r)
    PROVE  \E items \in Results \cup {TimedOut} :
              /\ Respond(r, items)
              /\ items # TimedOut => items = result[r]
BY ResultsAssumption DEF ReturnLines, ReturnTimeout, TypeOK, NoResult, ResultKinds, TimedOut

\* Every step keeps the types.
LEMMA TypeStep == TypeOK /\ RequestInv /\ [Next]_vars => TypeOK'
<1> SUFFICES ASSUME TypeOK, RequestInv, [Next]_vars PROVE TypeOK'
  OBVIOUS
<1> USE DEF TypeOK, routing, gates, engines, metrics, health
<1>0. NumWorkers \in Nat \ {0} /\ Len(ModelOrder) \in Nat /\ Gated \subseteq Models
  BY ServiceAssumption DEF ServiceAssumption
<1>1. ASSUME NEW r \in Requests, UnknownModel(r) PROVE TypeOK'
  BY <1>1 DEF UnknownModel, Go
<1>2. ASSUME NEW r \in Requests, Choose(r)
      PROVE  rrIndex' \in [Models -> Index] /\ worker' \in [Requests -> Index]
  BY <1>2, Wraps DEF Choose
<1>3. ASSUME NEW r \in Requests, NEW w \in Workers, Submit(w, r)
      PROVE  working' \in [Workers -> SUBSET Requests]
  BY <1>3 DEF Submit
<1>4. ASSUME NEW r \in Requests, ArriveGated(r) PROVE TypeOK'
  <2>1. queue' \in [Gated -> Seq(Requests)]
    <3>1. ModelOf[r] \in Gated /\ queue[ModelOf[r]] \in Seq(Requests)
      BY <1>4 DEF ArriveGated
    <3>2. Append(queue[ModelOf[r]], r) \in Seq(Requests)
      BY <3>1
    <3> QED
      BY <1>4, <3>2 DEF ArriveGated
  <2> QED
    BY <1>2, <1>4, <2>1 DEF ArriveGated, Go
<1>5. ASSUME NEW r \in Requests, ArriveFree(r) PROVE TypeOK'
  <2>1. working' \in [Workers -> SUBSET Requests]
    <3>1. <<ModelOf[r], rrIndex[ModelOf[r]]>> \in Workers
      BY <1>5 DEF ArriveFree, Choose, Workers
    <3> QED
      BY <1>3, <1>5, <3>1 DEF ArriveFree
  <2> QED
    BY <1>2, <1>5, <2>1 DEF ArriveFree, Go
<1>6. ASSUME NEW r \in Requests, GetSlot(r) PROVE TypeOK'
  <2>1. queue' \in [Gated -> Seq(Requests)]
    <3> DEFINE m == ModelOf[r]
    <3>1. queue[m] # <<>> /\ queue' = [queue EXCEPT ![m] = Tail(@)]
      BY <1>6 DEF GetSlot, IsNext
    <3>2. m \in Gated /\ queue[m] \in Seq(Requests)
      BY <1>6 DEF GetSlot, Go, RequestInv
    <3>3. Tail(queue[m]) \in Seq(Requests)
      BY <3>1, <3>2
    <3> QED
      BY <3>1, <3>3
  <2>2. working' \in [Workers -> SUBSET Requests]
    <3>1. WorkerOf(r) \in Workers
      BY <1>0, <1>6 DEF GetSlot, Go, RequestInv, WorkerOf, Workers
    <3> QED
      BY <1>3, <1>6, <3>1 DEF GetSlot
  <2> QED
    BY <1>6, <2>1, <2>2 DEF GetSlot, Go
<1>7. ASSUME NEW r \in Requests, ReturnLines(r) \/ ReturnTimeout(r) PROVE TypeOK'
  <2>1. PICK items \in Results \cup {TimedOut} : Respond(r, items)
    BY <1>7, Responses
  <2>2. /\ Verdict(items).status \in {200, 400, 500, 504}
        /\ Verdict(items).outcome \in {"ok", "timeout", "error"}
    BY Verdicts
  <2>3. holders' \in [Gated -> SUBSET Requests]
    BY <2>1 DEF Respond, FreeSlot
  <2>a. ModelOf[r] \in Models
    BY <2>1 DEF Respond, Go, RequestInv
  <2>4. outcomes' \in [Models -> [{"ok", "timeout", "error"} -> Nat]]
    BY <2>1, <2>2, <2>a DEF Respond, CountOutcome
  <2>5. latencies' \in [Models -> Nat] /\ status' \in [Requests -> {0, 200, 400, 500, 504}]
    BY <2>1, <2>2, <2>a DEF Respond
  <2> QED
    BY <2>1, <2>3, <2>4, <2>5 DEF Respond, Go
<1>8. ASSUME NEW r \in Requests, NEW w \in Workers, EngineFinishes(w, r) PROVE TypeOK'
  <2>1. working' \in [Workers -> SUBSET Requests]
    BY <1>8 DEF EngineFinishes
  <2>2. result' \in [Requests -> Results \cup {NoResult}]
    <3>0. result \in [Requests -> Results \cup {NoResult}]
      OBVIOUS
    <3>1. CASE pc[r] = "waiting"
      <4>1. \E items \in Results : result' = [result EXCEPT ![r] = items]
        BY <1>8, <3>1 DEF EngineFinishes
      <4> QED
        BY <3>0, <4>1
    <3>2. CASE pc[r] # "waiting"
      BY <1>8, <3>0, <3>2 DEF EngineFinishes
    <3> QED
      BY <3>1, <3>2
  <2> QED
    BY <1>8, <2>1, <2>2 DEF EngineFinishes
<1>9. ASSUME NEW w \in Workers, WorkerDies(w) PROVE TypeOK'
  BY <1>9 DEF WorkerDies
<1>10. CASE PollWorker
  <2>1. polled + 1 \in 1..(Len(ModelOrder) * NumWorkers)
    BY <1>0, <1>10 DEF PollWorker
  <2>2. WorkerAt(polled + 1) \in Workers
    BY <2>1, WorkersCounted
  <2>3. polled' \in 0..(Len(ModelOrder) * NumWorkers)
    BY <1>10, <2>1 DEF PollWorker
  <2> QED
    BY <1>10, <2>2, <2>3 DEF PollWorker
<1>11. CASE ReportHealth
  <2>1. 0 \in 0..(Len(ModelOrder) * NumWorkers)
    BY <1>0
  <2> QED
    BY <1>11, <2>1 DEF ReportHealth, DeadModels
<1>12. CASE UNCHANGED vars
  BY <1>12 DEF vars
<1> QED
  BY <1>1, <1>4, <1>5, <1>6, <1>7, <1>8, <1>9, <1>10, <1>11, <1>12 DEF Next

-----------------------------------------------------------------------------
(* Requests and the answers they get.                                      *)

\* Every step keeps the invariant of the requests.
LEMMA RequestStep == TypeOK /\ RequestInv /\ [Next]_vars => RequestInv'
<1> SUFFICES ASSUME TypeOK, RequestInv, [Next]_vars, NEW q \in Requests
             PROVE  /\ pc'[q] = "queued" => ModelOf[q] \in Gated
                    /\ pc'[q] = "waiting" => ModelOf[q] \in Models
                    /\ pc'[q] # "answered" => status'[q] = 0
                    /\ pc'[q] = "answered" => status'[q] # 0
                    /\ status'[q] = 200 => result'[q] # NoResult /\ ~Failed(result'[q])
  BY DEF RequestInv, Failed, IsError
<1> USE DEF routing, gates, engines, metrics, health
<1>0. Gated \subseteq Models
  BY ServiceAssumption DEF ServiceAssumption
<1>1. ASSUME NEW r \in Requests, UnknownModel(r) \/ ArriveGated(r) \/ ArriveFree(r) \/ GetSlot(r)
      PROVE  /\ pc'[q] = "queued" => ModelOf[q] \in Gated
             /\ pc'[q] = "waiting" => ModelOf[q] \in Models
             /\ pc'[q] # "answered" => status'[q] = 0
             /\ pc'[q] = "answered" => status'[q] # 0
             /\ status'[q] = 200 => result'[q] # NoResult /\ ~Failed(result'[q])
  <2>1. CASE UnknownModel(r)
    BY <2>1 DEF UnknownModel, Go, TypeOK, RequestInv
  <2>2. CASE ArriveGated(r)
    BY <2>2 DEF ArriveGated, Go, TypeOK, RequestInv
  <2>3. CASE ArriveFree(r)
    BY <2>3 DEF ArriveFree, Choose, Go, TypeOK, RequestInv
  <2>4. CASE GetSlot(r)
    BY <1>0, <2>4 DEF GetSlot, Go, TypeOK, RequestInv
  <2> QED
    BY <1>1, <2>1, <2>2, <2>3, <2>4
<1>3. ASSUME NEW r \in Requests, ReturnLines(r) \/ ReturnTimeout(r)
      PROVE  /\ pc'[q] = "queued" => ModelOf[q] \in Gated
             /\ pc'[q] = "waiting" => ModelOf[q] \in Models
             /\ pc'[q] # "answered" => status'[q] = 0
             /\ pc'[q] = "answered" => status'[q] # 0
             /\ status'[q] = 200 => result'[q] # NoResult /\ ~Failed(result'[q])
  <2>1. PICK items \in Results \cup {TimedOut} :
           Respond(r, items) /\ (items # TimedOut => items = result[r])
    BY <1>3, Responses
  <2>2. /\ Verdict(items).status \in {200, 400, 500, 504}
        /\ Verdict(items).status = 200 => items \in Results /\ ~Failed(items)
    BY Verdicts
  <2>3. /\ UNCHANGED result /\ pc' = [pc EXCEPT ![r] = "answered"]
        /\ status' = [status EXCEPT ![r] = Verdict(items).status]
    BY <2>1 DEF Respond, Go
  <2>4. Verdict(items).status = 200 => result[r] # NoResult /\ ~Failed(result[r])
    <3>1. items \in Results => items # TimedOut /\ items # NoResult
      BY ResultsAssumption DEF ResultKinds, TimedOut, NoResult
    <3> QED
      BY <2>1, <2>2, <3>1
  <2>5. CASE q = r
    BY <2>2, <2>3, <2>4, <2>5 DEF TypeOK
  <2>6. CASE q # r
    BY <2>3, <2>6 DEF TypeOK, RequestInv
  <2> QED
    BY <2>5, <2>6
<1>4. ASSUME NEW r \in Requests, NEW w \in Workers, EngineFinishes(w, r)
      PROVE  /\ UNCHANGED <<pc, status>>
             /\ pc[q] = "answered" => result'[q] = result[q]
  BY <1>4 DEF EngineFinishes, TypeOK
<1>5. ASSUME UNCHANGED <<pc, status, result>>
      PROVE  /\ pc'[q] = "queued" => ModelOf[q] \in Gated
             /\ pc'[q] = "waiting" => ModelOf[q] \in Models
             /\ pc'[q] # "answered" => status'[q] = 0
             /\ pc'[q] = "answered" => status'[q] # 0
             /\ status'[q] = 200 => result'[q] # NoResult /\ ~Failed(result'[q])
  BY <1>5 DEF RequestInv
<1> QED
  BY <1>1, <1>3, <1>4, <1>5 DEF Next, vars, WorkerDies, PollWorker, ReportHealth, RequestInv

-----------------------------------------------------------------------------
(* Health checks: a worker found dead is dead, and stays so.               *)

\* What the check in progress and the last report name is dead.
HealthInv == (\A w \in found : w \in Workers /\ ~alive[w]) /\ HealthReportsOnlyDeath

\* Every step keeps that: the dead stay dead.
LEMMA HealthStep == TypeOK /\ HealthInv /\ [Next]_vars => HealthInv'
<1> SUFFICES ASSUME TypeOK, HealthInv, [Next]_vars PROVE HealthInv'
  OBVIOUS
<1> USE DEF routing, gates, engines, metrics, health
<1>0. /\ \A m \in Models, i \in Index : <<m, i>> \in Workers
      /\ report \subseteq Models
  BY DEF Workers, TypeOK
<1>1. ASSUME NEW w \in Workers, WorkerDies(w) PROVE HealthInv'
  <2>1. UNCHANGED <<found, report>> /\ \A v \in Workers : alive'[v] = TRUE => alive[v] = TRUE
    BY <1>1 DEF WorkerDies, TypeOK
  <2>2. \A v \in Workers : ~alive[v] => ~alive'[v]
    BY <1>1 DEF WorkerDies, TypeOK
  <2> QED
    BY <1>0, <2>1, <2>2 DEF HealthInv, HealthReportsOnlyDeath
<1>2. CASE PollWorker
  <2>1. polled + 1 \in 1..(Len(ModelOrder) * NumWorkers)
    BY <1>2, ServiceAssumption DEF PollWorker, TypeOK, ServiceAssumption
  <2>2. WorkerAt(polled + 1) \in Workers
    BY <2>1, WorkersCounted
  <2> QED
    BY <1>2, <2>2 DEF PollWorker, HealthInv, HealthReportsOnlyDeath
<1>3. CASE ReportHealth
  <2>1. UNCHANGED alive /\ report' = DeadModels(found) /\ found' = {}
    BY <1>3 DEF ReportHealth
  <2>2. \A m \in DeadModels(found) : \E i \in Index : ~alive[<<m, i>>]
    BY DEF DeadModels, HealthInv
  <2> QED
    BY <2>1, <2>2 DEF HealthInv, HealthReportsOnlyDeath
<1>4. ASSUME UNCHANGED <<alive, found, report>> PROVE HealthInv'
  BY <1>4 DEF HealthInv, HealthReportsOnlyDeath
<1> QED
  BY <1>1, <1>2, <1>3, <1>4
     DEF Next, vars, UnknownModel, ArriveGated, ArriveFree, GetSlot, ReturnLines, ReturnTimeout,
         Respond, EngineFinishes

-----------------------------------------------------------------------------
(* Counting responses.                                                     *)

\* Sending a response counts it where it belongs, and nowhere else.
LEMMA OneMoreResponse ==
    ASSUME TypeOK, NEW r \in Requests, status[r] = 0,
           \A q \in Requests : q # r => status'[q] = status[q],
           NEW m, NEW codes, 0 \notin codes
    PROVE  /\ Answered(m, codes) \in Nat
           /\ Answered(m, codes)' = IF ModelOf[r] = m /\ status'[r] \in codes
                                    THEN Answered(m, codes) + 1
                                    ELSE Answered(m, codes)
<1> DEFINE S == {q \in Requests : ModelOf[q] = m /\ status[q] \in codes}
           T == {q \in Requests : ModelOf[q] = m /\ status'[q] \in codes}
<1>1. IsFiniteSet(S) /\ Cardinality(S) \in Nat
  <2>1. IsFiniteSet(Requests) /\ S \subseteq Requests
    BY ServiceAssumption DEF ServiceAssumption
  <2> QED
    BY <2>1, FS_Subset, FS_CardinalityType
<1>2. r \notin S
  OBVIOUS
<1>3. T = IF ModelOf[r] = m /\ status'[r] \in codes THEN S \cup {r} ELSE S
  BY <1>2
<1>4. Cardinality(S \cup {r}) = Cardinality(S) + 1
  BY <1>1, <1>2, FS_AddElement
<1>5. Answered(m, codes) = Cardinality(S) /\ Answered(m, codes)' = Cardinality(T)
  BY DEF Answered
<1> QED
  BY <1>1, <1>3, <1>4, <1>5

\* Every step keeps the statistics true.
LEMMA CountStep ==
    TypeOK /\ RequestInv /\ OutcomesMatchResponses /\ [Next]_vars => OutcomesMatchResponses'
<1> SUFFICES ASSUME TypeOK, RequestInv, OutcomesMatchResponses, [Next]_vars
             PROVE  OutcomesMatchResponses'
  OBVIOUS
<1> USE DEF routing, gates, engines, metrics, health
<1>1. ASSUME NEW r \in Requests, UnknownModel(r) PROVE OutcomesMatchResponses'
  <2>1. /\ status' = [status EXCEPT ![r] = 400] /\ status[r] = 0
        /\ UNCHANGED <<outcomes, latencies>> /\ ModelOf[r] \notin Models
        /\ \A q \in Requests : q # r => status'[q] = status[q]
    BY <1>1 DEF UnknownModel, Go, RequestInv, TypeOK
  <2>2. ASSUME NEW m \in Models, NEW codes, 0 \notin codes
        PROVE  Answered(m, codes)' = Answered(m, codes)
    BY <2>1, <2>2, OneMoreResponse
  <2> QED
    BY <2>1, <2>2 DEF OutcomesMatchResponses
<1>2. ASSUME NEW r \in Requests, ReturnLines(r) \/ ReturnTimeout(r) PROVE OutcomesMatchResponses'
  <2>1. PICK items \in Results \cup {TimedOut} : Respond(r, items)
    BY <1>2, Responses
  <2> DEFINE c == Verdict(items).status
             o == Verdict(items).outcome
             k == ModelOf[r]
  <2>2. /\ c \in {200, 400, 500, 504} /\ o \in {"ok", "timeout", "error"}
        /\ o = "ok" <=> c = 200
        /\ o = "timeout" <=> c = 504
    BY Verdicts
  <2>3. /\ status'[r] = c /\ status[r] = 0 /\ k \in Models
        /\ \A q \in Requests : q # r => status'[q] = status[q]
        /\ latencies' = [latencies EXCEPT ![k] = @ + 1]
        /\ outcomes' = [outcomes EXCEPT ![k][o] = @ + 1]
    BY <2>1 DEF Respond, Go, CountOutcome, RequestInv, TypeOK
  <2> HIDE DEF c, o, k
  <2>4. ASSUME NEW m \in Models, NEW codes, 0 \notin codes
        PROVE  /\ Answered(m, codes) \in Nat
               /\ Answered(m, codes)' = IF k = m /\ c \in codes THEN Answered(m, codes) + 1
                                        ELSE Answered(m, codes)
    BY <2>3, <2>4, OneMoreResponse DEF k
  <2>5. ASSUME NEW m \in Models
        PROVE  /\ outcomes'[m]["ok"] = Answered(m, {200})'
               /\ outcomes'[m]["timeout"] = Answered(m, {504})'
               /\ outcomes'[m]["error"] = Answered(m, {400, 500})'
               /\ latencies'[m] = Answered(m, {200, 400, 500, 504})'
    <3>1. /\ outcomes[m]["ok"] = Answered(m, {200})
          /\ outcomes[m]["timeout"] = Answered(m, {504})
          /\ outcomes[m]["error"] = Answered(m, {400, 500})
          /\ latencies[m] = Answered(m, {200, 400, 500, 504})
      BY DEF OutcomesMatchResponses
    <3>2. \A x \in {"ok", "timeout", "error"} :
             outcomes'[m][x] = IF m = k /\ x = o THEN outcomes[m][x] + 1 ELSE outcomes[m][x]
      BY <2>2, <2>3 DEF TypeOK
    <3>3. latencies'[m] = IF m = k THEN latencies[m] + 1 ELSE latencies[m]
      BY <2>3 DEF TypeOK
    <3>4. Answered(m, {200})' = IF k = m /\ c = 200 THEN Answered(m, {200}) + 1
                                ELSE Answered(m, {200})
      BY <2>4
    <3>5. Answered(m, {504})' = IF k = m /\ c = 504 THEN Answered(m, {504}) + 1
                                ELSE Answered(m, {504})
      BY <2>4
    <3>6. Answered(m, {400, 500})' = IF k = m /\ c \in {400, 500} THEN Answered(m, {400, 500}) + 1
                                     ELSE Answered(m, {400, 500})
      BY <2>4
    <3>7. Answered(m, {200, 400, 500, 504})' =
             IF k = m THEN Answered(m, {200, 400, 500, 504}) + 1
             ELSE Answered(m, {200, 400, 500, 504})
      BY <2>2, <2>4
    <3>8. outcomes'[m]["ok"] = Answered(m, {200})'
      BY <2>2, <3>1, <3>2, <3>4
    <3>9. outcomes'[m]["timeout"] = Answered(m, {504})'
      BY <2>2, <3>1, <3>2, <3>5
    <3>10. outcomes'[m]["error"] = Answered(m, {400, 500})'
      <4>1. o = "error" <=> c \in {400, 500}
        BY <2>2
      <4> QED
        BY <3>1, <3>2, <3>6, <4>1
    <3> QED
      BY <3>1, <3>3, <3>7, <3>8, <3>9, <3>10
  <2> QED
    BY <2>5 DEF OutcomesMatchResponses
<1>3. ASSUME UNCHANGED <<status, outcomes, latencies>> PROVE OutcomesMatchResponses'
  BY <1>3 DEF OutcomesMatchResponses, Answered
<1> QED
  BY <1>1, <1>2, <1>3
     DEF Next, vars, ArriveGated, ArriveFree, GetSlot, EngineFinishes, WorkerDies, PollWorker,
         ReportHealth

-----------------------------------------------------------------------------
(* Round robin.                                                            *)

\* The workers before the index have been chosen once more than the others.
BalanceInv ==
    \A m \in Models : \E c \in Nat : \A i \in Index :
       Chosen(<<m, i>>) = IF i < rrIndex[m] THEN c + 1 ELSE c

\* A request that arrives adds one to the worker at the index.
LEMMA OneMoreChosen ==
    ASSUME TypeOK, NEW r \in Requests, Choose(r), pc[r] = "new",
           pc' = [pc EXCEPT ![r] = "queued"] \/ pc' = [pc EXCEPT ![r] = "waiting"],
           NEW w
    PROVE  /\ Chosen(w) \in Nat
           /\ Chosen(w)' = IF w = <<ModelOf[r], rrIndex[ModelOf[r]]>> THEN Chosen(w) + 1
                           ELSE Chosen(w)
<1> DEFINE S == {q \in Requests : ModelOf[q] \in Models /\ pc[q] # "new"
                                  /\ <<ModelOf[q], worker[q]>> = w}
           T == {q \in Requests : ModelOf[q] \in Models /\ pc'[q] # "new"
                                  /\ <<ModelOf[q], worker'[q]>> = w}
<1>1. IsFiniteSet(S) /\ Cardinality(S) \in Nat
  <2>1. IsFiniteSet(Requests) /\ S \subseteq Requests
    BY ServiceAssumption DEF ServiceAssumption
  <2> QED
    BY <2>1, FS_Subset, FS_CardinalityType
<1>2. /\ \A q \in Requests : q # r => pc'[q] = pc[q] /\ worker'[q] = worker[q]
      /\ pc'[r] # "new" /\ worker'[r] = rrIndex[ModelOf[r]] /\ ModelOf[r] \in Models
  BY DEF TypeOK, Choose
<1>3. T = IF w = <<ModelOf[r], rrIndex[ModelOf[r]]>> THEN S \cup {r} ELSE S
  BY <1>2
<1>4. Cardinality(S \cup {r}) = Cardinality(S) + 1
  BY <1>1, FS_AddElement
<1>5. Chosen(w) = Cardinality(S) /\ Chosen(w)' = Cardinality(T)
  BY DEF Chosen, WorkerOf
<1> QED
  BY <1>1, <1>3, <1>4, <1>5

\* Every step keeps the balance.
LEMMA BalanceStep == TypeOK /\ BalanceInv /\ [Next]_vars => BalanceInv'
<1> SUFFICES ASSUME TypeOK, BalanceInv, [Next]_vars, NEW m \in Models
             PROVE  \E c \in Nat : \A i \in Index :
                       Chosen(<<m, i>>)' = IF i < rrIndex'[m] THEN c + 1 ELSE c
  BY DEF BalanceInv
<1> USE DEF routing, gates, engines, metrics, health
<1>0. PICK c \in Nat : \A i \in Index : Chosen(<<m, i>>) = IF i < rrIndex[m] THEN c + 1 ELSE c
  BY DEF BalanceInv
<1>1. ASSUME NEW r \in Requests, ArriveGated(r) \/ ArriveFree(r)
      PROVE  \E d \in Nat : \A i \in Index :
                Chosen(<<m, i>>)' = IF i < rrIndex'[m] THEN d + 1 ELSE d
  <2>1. /\ Choose(r) /\ pc[r] = "new" /\ ModelOf[r] \in Models
        /\ pc' = [pc EXCEPT ![r] = "queued"] \/ pc' = [pc EXCEPT ![r] = "waiting"]
    BY <1>1 DEF ArriveGated, ArriveFree, Choose, Go
  <2>2. \A i \in Index : Chosen(<<m, i>>)' =
           IF <<m, i>> = <<ModelOf[r], rrIndex[ModelOf[r]]>> THEN Chosen(<<m, i>>) + 1
           ELSE Chosen(<<m, i>>)
    BY <2>1, OneMoreChosen
  <2>3. /\ rrIndex[m] \in Index
        /\ rrIndex'[m] = IF m = ModelOf[r] THEN NextIndex(rrIndex[m]) ELSE rrIndex[m]
    BY <2>1 DEF Choose, TypeOK
  <2>4. CASE m # ModelOf[r]
    BY <1>0, <2>2, <2>3, <2>4
  <2>5. CASE m = ModelOf[r]
    <3>1. \A i \in Index : Chosen(<<m, i>>)' = IF i <= rrIndex[m] THEN c + 1 ELSE c
      <4> TAKE i \in Index
      <4>1. Index \subseteq Int /\ <<m, i>> = <<m, rrIndex[m]>> <=> i = rrIndex[m]
        BY ServiceAssumption DEF Index, ServiceAssumption
      <4>2. Chosen(<<m, i>>)' = IF i = rrIndex[m] THEN Chosen(<<m, i>>) + 1 ELSE Chosen(<<m, i>>)
        BY <2>2, <2>5
      <4>3. i \in Int /\ rrIndex[m] \in Int
        BY <2>3 DEF Index
      <4> QED
        BY <1>0, <4>2, <4>3
    <3>2. CASE rrIndex[m] + 1 = NumWorkers
      <4>1. rrIndex'[m] = 0
        BY <2>3, <2>5, <3>2, Wraps
      <4>2. \A i \in Index : i <= rrIndex[m] /\ ~(i < 0)
        BY <2>3, <3>2, ServiceAssumption DEF Index, ServiceAssumption
      <4>3. \A i \in Index : Chosen(<<m, i>>)' = IF i < rrIndex'[m] THEN (c + 1) + 1 ELSE c + 1
        BY <3>1, <4>1, <4>2
      <4> QED
        BY <4>3
    <3>3. CASE rrIndex[m] + 1 # NumWorkers
      <4>1. rrIndex'[m] = rrIndex[m] + 1
        BY <2>3, <2>5, <3>3, Wraps
      <4>2. \A i \in Index : i <= rrIndex[m] <=> i < rrIndex'[m]
        BY <2>3, <4>1 DEF Index
      <4> QED
        BY <3>1, <4>2
    <3> QED
      BY <3>2, <3>3
  <2> QED
    BY <2>4, <2>5
<1>2. ASSUME NEW r \in Requests, UnknownModel(r)
      PROVE  \E d \in Nat : \A i \in Index :
                Chosen(<<m, i>>)' = IF i < rrIndex'[m] THEN d + 1 ELSE d
  <2>1. /\ UNCHANGED <<rrIndex, worker>> /\ ModelOf[r] \notin Models
        /\ pc' = [pc EXCEPT ![r] = "answered"]
    BY <1>2 DEF UnknownModel, Go
  <2>2. \A i \in Index : Chosen(<<m, i>>)' = Chosen(<<m, i>>)
    BY <2>1 DEF Chosen, WorkerOf, TypeOK
  <2> QED
    BY <1>0, <2>1, <2>2
<1>3. ASSUME UNCHANGED routing, \A q \in Requests : pc'[q] = "new" <=> pc[q] = "new"
      PROVE  \E d \in Nat : \A i \in Index :
                Chosen(<<m, i>>)' = IF i < rrIndex'[m] THEN d + 1 ELSE d
  <2>1. \A i \in Index : Chosen(<<m, i>>)' = Chosen(<<m, i>>)
    BY <1>3 DEF Chosen, WorkerOf
  <2> QED
    BY <1>0, <1>3, <2>1
<1>4. ASSUME NEW r \in Requests, GetSlot(r) \/ ReturnLines(r) \/ ReturnTimeout(r)
      PROVE  UNCHANGED routing /\ \A q \in Requests : pc'[q] = "new" <=> pc[q] = "new"
  BY <1>4 DEF GetSlot, ReturnLines, ReturnTimeout, Respond, Go, TypeOK
<1> QED
  BY <1>1, <1>2, <1>3, <1>4
     DEF Next, vars, EngineFinishes, WorkerDies, PollWorker, ReportHealth

-----------------------------------------------------------------------------
(* The theorems.                                                           *)

\* The inductive invariant.
IInv == TypeOK /\ RequestInv /\ HealthInv /\ OutcomesMatchResponses /\ BalanceInv

\* The invariant holds when the server is started.
LEMMA Initially == Init => IInv
<1> SUFFICES ASSUME Init PROVE IInv
  OBVIOUS
<1>0. /\ NumWorkers \in Nat \ {0} /\ Len(ModelOrder) \in Nat
      /\ 0 \in Index /\ \A i \in Index : ~(i < 0)
  BY ServiceAssumption DEF ServiceAssumption, Index
<1>1. TypeOK
  <2>1. 0 \in 0..(Len(ModelOrder) * NumWorkers)
    BY <1>0
  <2> QED
    BY <1>0, <2>1 DEF Init, TypeOK
<1>2. RequestInv
  BY DEF Init, RequestInv
<1>3. HealthInv
  BY DEF Init, HealthInv, HealthReportsOnlyDeath
<1>4. OutcomesMatchResponses
  <2>1. ASSUME NEW m \in Models, NEW codes \in SUBSET {200, 400, 500, 504}
        PROVE  Answered(m, codes) = 0
    <3>1. {r \in Requests : ModelOf[r] = m /\ status[r] \in codes} = {}
      BY DEF Init
    <3> QED
      BY <3>1, FS_EmptySet DEF Answered
  <2>2. \A m \in Models : /\ Answered(m, {200}) = 0 /\ Answered(m, {504}) = 0
                          /\ Answered(m, {400, 500}) = 0
                          /\ Answered(m, {200, 400, 500, 504}) = 0
    <3>1. /\ {200} \in SUBSET {200, 400, 500, 504} /\ {504} \in SUBSET {200, 400, 500, 504}
          /\ {400, 500} \in SUBSET {200, 400, 500, 504}
          /\ {200, 400, 500, 504} \in SUBSET {200, 400, 500, 504}
      OBVIOUS
    <3> QED
      BY <2>1, <3>1
  <2> QED
    BY <2>2 DEF Init, OutcomesMatchResponses
<1>5. BalanceInv
  <2>1. ASSUME NEW w PROVE Chosen(w) = 0
    <3>1. {r \in Requests : ModelOf[r] \in Models /\ pc[r] # "new" /\ WorkerOf(r) = w} = {}
      BY DEF Init
    <3> QED
      BY <3>1, FS_EmptySet DEF Chosen
  <2>2. \A m \in Models : rrIndex[m] = 0
    BY DEF Init
  <2> QED
    BY <1>0, <2>1, <2>2 DEF BalanceInv
<1> QED
  BY <1>1, <1>2, <1>3, <1>4, <1>5 DEF IInv

\* And every step keeps it.
LEMMA Inductive == IInv /\ [Next]_vars => IInv'
BY TypeStep, RequestStep, HealthStep, CountStep, BalanceStep DEF IInv

\* The service never leaves the invariant.
THEOREM Invariance == Spec => []IInv
BY Initially, Inductive, PTL DEF Spec

\* Every variable of the service keeps its type.
THEOREM TypeCorrectness == Spec => []TypeOK
<1>1. IInv => TypeOK
  BY DEF IInv
<1> QED
  BY <1>1, Invariance, PTL

\* The workers of a model are given the same number of requests, or one more, in
\* whatever order requests come and end (pool.py:138-146).
THEOREM Balanced == Spec => []RoundRobinBalanced
<1>1. IInv => RoundRobinBalanced
  <2> SUFFICES ASSUME IInv, NEW m \in Models, NEW i \in Index, NEW j \in Index
               PROVE  Chosen(<<m, i>>) <= Chosen(<<m, j>>) + 1
    BY DEF RoundRobinBalanced
  <2>1. PICK c \in Nat : \A k \in Index : Chosen(<<m, k>>) = IF k < rrIndex[m] THEN c + 1 ELSE c
    BY DEF IInv, BalanceInv
  <2>2. Chosen(<<m, i>>) \in {c, c + 1} /\ Chosen(<<m, j>>) \in {c, c + 1}
    BY <2>1
  <2> QED
    BY <2>2
<1> QED
  BY <1>1, Invariance, PTL

\* The outcome counters and the number of latency samples of a model agree with the
\* responses its clients were sent (main.py:130, 141-164).
THEOREM Statistics == Spec => []OutcomesMatchResponses
<1>1. IInv => OutcomesMatchResponses
  BY DEF IInv
<1> QED
  BY <1>1, Invariance, PTL

\* A response of success has the engine's answer, with no error among its items
\* (main.py:156-165).
THEOREM Successes == Spec => []SuccessIsComplete
<1>1. IInv => SuccessIsComplete
  BY DEF IInv, RequestInv, SuccessIsComplete, Failed, IsError
<1> QED
  BY <1>1, Invariance, PTL

\* A model is reported only if one of its workers is dead when the report is read,
\* although the workers were asked one after the other (health.py:35-37).
THEOREM HealthReports == Spec => []HealthReportsOnlyDeath
<1>1. IInv => HealthReportsOnlyDeath
  BY DEF IInv, HealthInv
<1> QED
  BY <1>1, Invariance, PTL

-----------------------------------------------------------------------------
(* The load of the engines.                                                *)

\* What an engine works on was submitted to it, and either its call still waits,
\* with a slot if the model has a limit, or it was given up after a timeout.
LoadInv ==
    \A w \in Workers : \A r \in working[w] :
       /\ w = WorkerOf(r) /\ pc[r] \in {"waiting", "answered"}
       /\ pc[r] = "waiting" => result[r] = NoResult
       /\ pc[r] = "waiting" /\ ModelOf[r] \in Gated => r \in holders[ModelOf[r]]
       /\ pc[r] = "answered" => status[r] = 504

SlotsInv == \A m \in Gated : Cardinality(holders[m]) <= Limit

\* Requests that wait for their engine were not given an answer yet.
FreshInv == \A r \in Requests : pc[r] \in {"new", "queued"} => result[r] = NoResult

\* A set with one element more or less.
LEMMA OneSlotMoreOrLess ==
    ASSUME NEW S, IsFiniteSet(S), NEW x
    PROVE  /\ Cardinality(S \cup {x}) \in Nat /\ Cardinality(S \cup {x}) <= Cardinality(S) + 1
           /\ Cardinality(S \ {x}) \in Nat /\ Cardinality(S \ {x}) <= Cardinality(S)
BY FS_AddElement, FS_RemoveElement, FS_CardinalityType

\* The gates let no more than Limit requests in.
LEMMA SlotsStep == TypeOK /\ SlotsInv /\ [Next]_vars => SlotsInv'
<1> SUFFICES ASSUME TypeOK, SlotsInv, [Next]_vars, NEW m \in Gated
             PROVE  Cardinality(holders'[m]) <= Limit
  BY DEF SlotsInv
<1> USE DEF routing, gates, engines, metrics, health
<1>1. /\ IsFiniteSet(holders[m]) /\ Cardinality(holders[m]) \in Nat
      /\ Cardinality(holders[m]) <= Limit /\ Limit \in Nat
  <2>1. holders[m] \subseteq Requests
    BY DEF TypeOK
  <2> QED
    BY <2>1, FS_Subset, FS_CardinalityType, ServiceAssumption DEF ServiceAssumption, SlotsInv
<1>2. ASSUME NEW r \in Requests, GetSlot(r) PROVE Cardinality(holders'[m]) <= Limit
  <2>1. CASE ModelOf[r] = m
    <3>1. holders'[m] = holders[m] \cup {r} /\ Cardinality(holders[m]) < Limit
      BY <1>2, <2>1 DEF GetSlot, SlotFree, TypeOK
    <3>2. /\ Cardinality(holders[m] \cup {r}) <= Cardinality(holders[m]) + 1
          /\ Cardinality(holders[m] \cup {r}) \in Nat
      BY <1>1, OneSlotMoreOrLess
    <3> QED
      BY <1>1, <3>1, <3>2
  <2>2. CASE ModelOf[r] # m
    <3>1. holders'[m] = holders[m]
      BY <1>2, <2>2 DEF GetSlot, TypeOK
    <3> QED
      BY <1>1, <3>1
  <2> QED
    BY <2>1, <2>2
<1>3. ASSUME NEW r \in Requests, ReturnLines(r) \/ ReturnTimeout(r)
      PROVE  Cardinality(holders'[m]) <= Limit
  <2>1. holders'[m] = holders[m] \ {r}
    BY <1>3 DEF ReturnLines, ReturnTimeout, Respond, FreeSlot
  <2>2. /\ Cardinality(holders[m] \ {r}) <= Cardinality(holders[m])
        /\ Cardinality(holders[m] \ {r}) \in Nat
    BY <1>1, OneSlotMoreOrLess
  <2> QED
    BY <1>1, <2>1, <2>2
<1>4. ASSUME UNCHANGED holders PROVE Cardinality(holders'[m]) <= Limit
  BY <1>1, <1>4
<1> QED
  BY <1>2, <1>3, <1>4 DEF Next, vars, UnknownModel, ArriveGated, ArriveFree, EngineFinishes,
     WorkerDies, PollWorker, ReportHealth
\* A request gets no answer before it was submitted.
LEMMA FreshStep == TypeOK /\ RequestInv /\ FreshInv /\ [Next]_vars => FreshInv'
<1> SUFFICES ASSUME TypeOK, RequestInv, FreshInv, [Next]_vars, NEW q \in Requests,
                    pc'[q] \in {"new", "queued"}
             PROVE  result'[q] = NoResult
  BY DEF FreshInv
<1> USE DEF routing, gates, engines, metrics, health
<1>1. ASSUME NEW r \in Requests, UnknownModel(r) \/ ArriveGated(r) \/ ArriveFree(r) \/ GetSlot(r)
      PROVE  result'[q] = NoResult
  BY <1>1 DEF UnknownModel, ArriveGated, ArriveFree, GetSlot, Go, TypeOK, FreshInv
<1>2. ASSUME NEW r \in Requests, ReturnLines(r) \/ ReturnTimeout(r)
      PROVE  result'[q] = NoResult
  BY <1>2 DEF ReturnLines, ReturnTimeout, Respond, Go, TypeOK, FreshInv
<1>3. ASSUME NEW r \in Requests, NEW w \in Workers, EngineFinishes(w, r)
      PROVE  result'[q] = NoResult
  BY <1>3 DEF EngineFinishes, TypeOK, FreshInv
<1>4. ASSUME UNCHANGED <<pc, result>> PROVE result'[q] = NoResult
  BY <1>4 DEF FreshInv
<1> QED
  BY <1>1, <1>2, <1>3, <1>4 DEF Next, vars, WorkerDies, PollWorker, ReportHealth

\* What a submission adds to the work of the engines.
LEMMA Submitted ==
    ASSUME TypeOK, NEW v, NEW r, Submit(v, r), NEW w \in Workers, NEW q \in working'[w]
    PROVE  q \in working[w] \/ (q = r /\ w = v)
<1>1. working' = working \/ working' = [working EXCEPT ![v] = @ \cup {r}]
  BY DEF Submit
<1>2. working \in [Workers -> SUBSET Requests]
  BY DEF TypeOK
<1>3. CASE w = v
  BY <1>1, <1>2, <1>3
<1>4. CASE w # v
  BY <1>1, <1>2, <1>4
<1> QED
  BY <1>3, <1>4

\* Every step keeps the invariant of the load.
LEMMA LoadStep == TypeOK /\ RequestInv /\ FreshInv /\ LoadInv /\ [Next]_vars => LoadInv'
<1> DEFINE Owned(q, w) ==
       /\ w = <<ModelOf[q], worker'[q]>> /\ pc'[q] \in {"waiting", "answered"}
       /\ pc'[q] = "waiting" => result'[q] = NoResult
       /\ pc'[q] = "waiting" /\ ModelOf[q] \in Gated => q \in holders'[ModelOf[q]]
       /\ pc'[q] = "answered" => status'[q] = 504
<1> SUFFICES ASSUME TypeOK, RequestInv, FreshInv, LoadInv, [Next]_vars,
                    NEW w \in Workers, NEW q \in working'[w]
             PROVE  Owned(q, w)
  BY DEF LoadInv, WorkerOf
<1> USE DEF routing, gates, engines, metrics, health
<1>1. ASSUME q \in working[w]
      PROVE  /\ q \in Requests
             /\ w = <<ModelOf[q], worker[q]>> /\ pc[q] \in {"waiting", "answered"}
             /\ pc[q] = "waiting" => result[q] = NoResult
             /\ pc[q] = "waiting" /\ ModelOf[q] \in Gated => q \in holders[ModelOf[q]]
             /\ pc[q] = "answered" => status[q] = 504
  BY <1>1 DEF TypeOK, LoadInv, WorkerOf
<1>2. ASSUME NEW r \in Requests, UnknownModel(r) \/ ArriveGated(r) PROVE Owned(q, w)
  <2>1. q \in working[w] /\ pc[r] = "new"
    BY <1>2 DEF UnknownModel, ArriveGated, Go
  <2>2. q # r
    BY <1>1, <2>1
  <2> QED
    BY <1>1, <1>2, <2>1, <2>2 DEF UnknownModel, ArriveGated, Choose, Go, TypeOK
<1>3. ASSUME NEW r \in Requests, ArriveFree(r) PROVE Owned(q, w)
  <2>1. /\ pc[r] = "new" /\ pc' = [pc EXCEPT ![r] = "waiting"] /\ ModelOf[r] \notin Gated
        /\ worker' = [worker EXCEPT ![r] = rrIndex[ModelOf[r]]]
        /\ UNCHANGED <<holders, result, status>>
    BY <1>3 DEF ArriveFree, Go, Choose
  <2>2. q \in working[w] \/ (q = r /\ w = <<ModelOf[r], rrIndex[ModelOf[r]]>>)
    <3>1. q \in working[w] \/ \E v : Submit(v, r) /\ v = <<ModelOf[r], rrIndex[ModelOf[r]]>>
      BY <1>3 DEF ArriveFree
    <3> QED
      BY <3>1, Submitted
  <2>3. CASE q \in working[w]
    BY <1>1, <2>1, <2>3 DEF TypeOK
  <2>4. CASE q = r /\ w = <<ModelOf[r], rrIndex[ModelOf[r]]>>
    BY <2>1, <2>4 DEF TypeOK, FreshInv
  <2> QED
    BY <2>2, <2>3, <2>4
<1>4. ASSUME NEW r \in Requests, GetSlot(r) PROVE Owned(q, w)
  <2>1. /\ pc[r] = "queued" /\ pc' = [pc EXCEPT ![r] = "waiting"]
        /\ holders' = [holders EXCEPT ![ModelOf[r]] = @ \cup {r}]
        /\ UNCHANGED <<worker, result, status>>
    BY <1>4 DEF GetSlot, Go
  <2>2. q \in working[w] \/ (q = r /\ w = <<ModelOf[r], worker[r]>>)
    BY <1>4, Submitted DEF GetSlot, WorkerOf
  <2>3. CASE q \in working[w]
    BY <1>1, <2>1, <2>3 DEF TypeOK
  <2>4. CASE q = r /\ w = <<ModelOf[r], worker[r]>>
    BY <2>1, <2>4 DEF TypeOK, FreshInv
  <2> QED
    BY <2>2, <2>3, <2>4
<1>5. ASSUME NEW r \in Requests, ReturnLines(r) \/ ReturnTimeout(r) PROVE Owned(q, w)
  <2>1. q \in working[w] /\ UNCHANGED <<worker, result>>
    BY <1>5 DEF ReturnLines, ReturnTimeout, Respond
  <2>2. PICK items \in Results \cup {TimedOut} :
           Respond(r, items) /\ (items # TimedOut => items = result[r])
    BY <1>5, Responses
  <2>3. /\ pc[r] = "waiting" /\ pc' = [pc EXCEPT ![r] = "answered"]
        /\ status' = [status EXCEPT ![r] = Verdict(items).status]
        /\ holders' = [m \in Gated |-> holders[m] \ {r}]
    BY <2>2 DEF Respond, Go, FreeSlot
  <2>4. CASE q = r
    <3>1. result[r] = NoResult
      BY <1>1, <2>1, <2>3, <2>4
    <3>2. NoResult \notin Results
      BY ResultsAssumption DEF NoResult, ResultKinds
    <3>3. items = TimedOut
      BY <2>2, <3>1, <3>2
    <3>4. Verdict(items).status = 504
      BY <3>3, TimeoutVerdict
    <3> QED
      BY <1>1, <2>1, <2>3, <2>4, <3>4 DEF TypeOK
  <2>5. CASE q # r
    BY <1>1, <2>1, <2>3, <2>5 DEF TypeOK
  <2> QED
    BY <2>4, <2>5
<1>6. ASSUME NEW r \in Requests, NEW v \in Workers, EngineFinishes(v, r) PROVE Owned(q, w)
  <2>1. /\ r \in working[v] /\ working' = [working EXCEPT ![v] = @ \ {r}]
        /\ UNCHANGED <<pc, worker, holders, status>>
        /\ pc[r] # "waiting" => UNCHANGED result
    BY <1>6 DEF EngineFinishes
  <2>2. q \in working[w] /\ ~(w = v /\ q = r)
    BY <2>1 DEF TypeOK
  <2>3. q # r
    BY <1>1, <2>1, <2>2 DEF LoadInv, WorkerOf
  <2>4. result'[q] = result[q]
    BY <1>1, <1>6, <2>2, <2>3 DEF EngineFinishes, TypeOK
  <2> QED
    BY <1>1, <2>1, <2>2, <2>4
<1>7. ASSUME NEW v \in Workers, WorkerDies(v) PROVE Owned(q, w)
  <2>1. q \in working[w] /\ UNCHANGED <<pc, worker, holders, status, result>>
    BY <1>7 DEF WorkerDies, TypeOK
  <2> QED
    BY <1>1, <2>1
<1>8. ASSUME UNCHANGED <<working, pc, worker, holders, status, result>> PROVE Owned(q, w)
  BY <1>1, <1>8
<1> QED
  BY <1>2, <1>3, <1>4, <1>5, <1>6, <1>7, <1>8 DEF Next, vars, PollWorker, ReportHealth

\* A query of a model is with one of its engines.
LEMMA InLoad ==
    ASSUME NEW m, NEW r \in Load(m) PROVE \E i \in Index : r \in working[<<m, i>>]
<1> DEFINE parts == {working[<<m, i>>] : i \in Index}
<1>1. PICK part \in parts : r \in part
  <2>1. r \in UNION parts
    BY DEF Load
  <2> HIDE DEF parts
  <2> QED
    BY <2>1
<1> QED
  BY <1>1

\* The gate bounds what it can see: of the queries that the engines of a gated
\* model work on, at most Limit were not given up (main.py:118-128).
THEOREM LiveLoadBounded == Spec => []LiveLoadWithinLimit
<1>1. Init => FreshInv /\ LoadInv /\ SlotsInv
  <2>1. Limit \in Nat /\ Cardinality({}) = 0
    BY ServiceAssumption, FS_EmptySet DEF ServiceAssumption
  <2> QED
    BY <2>1 DEF Init, FreshInv, LoadInv, SlotsInv
<1>2. ASSUME TypeOK, RequestInv, LoadInv, SlotsInv, NEW m \in Gated
      PROVE  Cardinality(LiveLoad(m)) <= Limit
  <2>1. /\ holders[m] \subseteq Requests /\ IsFiniteSet(Requests) /\ Limit \in Nat
        /\ m \in Models /\ Cardinality(holders[m]) <= Limit
    BY <1>2, ServiceAssumption DEF TypeOK, ServiceAssumption, SlotsInv
  <2>2. LiveLoad(m) \subseteq holders[m]
    <3> SUFFICES ASSUME NEW i \in Index, NEW r \in working[<<m, i>>], status[r] # 504
                 PROVE  r \in holders[m]
      BY InLoad DEF LiveLoad
    <3>1. <<m, i>> \in Workers
      BY <2>1 DEF Workers
    <3>2. /\ <<m, i>> = <<ModelOf[r], worker[r]>> /\ pc[r] = "waiting"
          /\ pc[r] = "waiting" /\ ModelOf[r] \in Gated => r \in holders[ModelOf[r]]
      BY <1>2, <3>1 DEF LoadInv, WorkerOf
    <3>3. ModelOf[r] = m
      BY <3>2
    <3> QED
      BY <3>2, <3>3
  <2>3. IsFiniteSet(holders[m])
    BY <2>1, FS_Subset
  <2>4. /\ Cardinality(LiveLoad(m)) <= Cardinality(holders[m])
        /\ Cardinality(LiveLoad(m)) \in Nat /\ Cardinality(holders[m]) \in Nat
    BY <2>2, <2>3, FS_Subset, FS_CardinalityType
  <2> QED
    BY <2>1, <2>4
<1>3. TypeOK /\ RequestInv /\ LoadInv /\ SlotsInv => LiveLoadWithinLimit
  BY <1>2 DEF LiveLoadWithinLimit
<1>4. IInv => TypeOK /\ RequestInv
  BY DEF IInv
<1> QED
  BY <1>1, <1>3, <1>4, Invariance, FreshStep, LoadStep, SlotsStep, PTL DEF Spec

\* So as long as no call has timed out, an engine is never given more than the
\* limit: abandoned queries are the only way past it (config.py:90-93).
THEOREM LimitHoldsUntilATimeout ==
    Spec => []((\A r \in Requests : status[r] # 504) => EngineLoadWithinLimit)
<1>1. TypeOK /\ LiveLoadWithinLimit
         => ((\A r \in Requests : status[r] # 504) => EngineLoadWithinLimit)
  <2> SUFFICES ASSUME TypeOK, \A r \in Requests : status[r] # 504, NEW m \in Gated,
                      Cardinality(LiveLoad(m)) <= Limit
               PROVE  Cardinality(Load(m)) <= Limit
    BY DEF EngineLoadWithinLimit, LiveLoadWithinLimit
  <2>1. \A i \in Index : working[<<m, i>>] \subseteq Requests
    BY ServiceAssumption DEF TypeOK, Workers, ServiceAssumption
  <2>2. Load(m) \subseteq Requests
    BY <2>1, InLoad
  <2>3. LiveLoad(m) = Load(m)
    BY <2>2 DEF LiveLoad
  <2> QED
    BY <2>3
<1> QED
  BY <1>1, LiveLoadBounded, TypeCorrectness, PTL
=============================================================================
