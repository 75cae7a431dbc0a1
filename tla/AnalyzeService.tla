--------------------------- MODULE AnalyzeService ---------------------------
(***************************************************************************)
(* POST /analyze/{model_id} and GET /health: the endpoint of main.py on    *)
(* top of the worker pool of analysis/pool.py.                             *)
(*                                                                         *)
(* The parts below the endpoint appear as the steps they are specified to  *)
(* take: the gate of a model lets requests in in order, as FifoGate does   *)
(* (ConcurrencyGate.tla implements that); worker.analyze is a call that    *)
(* returns lines or a timeout, whichever comes first, as in RequestReply   *)
(* (KataGoWorker.tla implements that).  What is kept of an engine is which *)
(* queries it still works on: a query whose call has timed out is not      *)
(* withdrawn from it.                                                      *)
(*                                                                         *)
(* A result is the sequence of its items, each reduced to "ok" or to what  *)
(* its error text contains.  Rolling windows of the statistics are left    *)
(* out: they are counters here.                                            *)
(***************************************************************************)
EXTENDS Integers, Sequences, FiniteSets

CONSTANTS Requests,   \* HTTP requests
          ModelOrder, \* keys of SERVING_MODELS, in their order
          ModelOf,    \* [Requests -> the model_id in the path]
          NumWorkers, \* NUM_WORKERS_PER_MODEL
          Gated,      \* the models with a concurrency limit
          Limit,      \* that limit
          Results     \* what engines return, some or all of ResultKinds

Models == {ModelOrder[i] : i \in DOMAIN ModelOrder}

\* All is well, a refusal, a refusal after a first line.
ResultKinds == {<<"ok">>, <<"other">>, <<"ok", "internal">>}

ASSUME ServiceAssumption ==
    /\ IsFiniteSet(Requests)
    /\ ModelOrder \in Seq(Models)
    /\ \A i, j \in DOMAIN ModelOrder : ModelOrder[i] = ModelOrder[j] => i = j
    /\ NumWorkers \in Nat \ {0}
    /\ Gated \subseteq Models
    /\ Limit \in Nat \ {0}
    /\ Results \subseteq ResultKinds

VARIABLES
    rrIndex,   \* analysis_rr_indices
    pc,        \* [Requests -> place in the endpoint]
    worker,    \* [Requests -> index of the worker chosen for it]
    queue,     \* [Gated -> requests waiting for a slot, oldest first]
    holders,   \* [Gated -> requests with a slot]
    working,   \* [worker -> queries its engine works on]
    alive,     \* [worker -> process.poll() is None]
    result,    \* [Requests -> lines of the engine, or <<>>]
    status,    \* [Requests -> HTTP status sent, or 0]
    outcomes,  \* _request_outcomes: [Models -> counts]
    latencies, \* _request_latency: [Models -> number of samples]
    polled,    \* how many workers the health check in progress has asked
    found,     \* those of them that were dead
    report     \* HealthReport.dead of the last complete check

routing == <<rrIndex, worker>>
gates == <<queue, holders>>
engines == <<working, alive>>
metrics == <<outcomes, latencies>>
health == <<polled, found, report>>
vars == <<routing, pc, gates, engines, result, status, metrics, health>>

Index == 0..(NumWorkers - 1)
Workers == Models \X Index
WorkerOf(r) == <<ModelOf[r], worker[r]>>

Texts == {"timeout", "internal", "other"}
Items == {"ok"} \cup Texts
NoResult == <<>>
TimedOut == <<"timeout">>

TypeOK ==
    /\ rrIndex \in [Models -> Index]
    /\ pc \in [Requests -> {"new", "queued", "waiting", "answered"}]
    /\ worker \in [Requests -> Index]
    /\ queue \in [Gated -> Seq(Requests)]
    /\ holders \in [Gated -> SUBSET Requests]
    /\ working \in [Workers -> SUBSET Requests]
    /\ alive \in [Workers -> BOOLEAN]
    /\ result \in [Requests -> Results \cup {NoResult}]
    /\ status \in [Requests -> {0, 200, 400, 500, 504}]
    /\ outcomes \in [Models -> [{"ok", "timeout", "error"} -> Nat]]
    /\ latencies \in [Models -> Nat]
    /\ polled \in 0..(Len(ModelOrder) * NumWorkers)
    /\ found \subseteq Workers
    /\ report \subseteq Models

Init ==
    /\ rrIndex = [m \in Models |-> 0]
    /\ pc = [r \in Requests |-> "new"]
    /\ worker = [r \in Requests |-> 0]
    /\ queue = [m \in Gated |-> <<>>]
    /\ holders = [m \in Gated |-> {}]
    /\ working = [w \in Workers |-> {}]
    /\ alive = [w \in Workers |-> TRUE]
    /\ result = [r \in Requests |-> NoResult]
    /\ status = [r \in Requests |-> 0]
    /\ outcomes = [m \in Models |-> [o \in {"ok", "timeout", "error"} |-> 0]]
    /\ latencies = [m \in Models |-> 0]
    /\ polled = 0
    /\ found = {}
    /\ report = {}

-----------------------------------------------------------------------------
Go(r, from, to) == pc[r] = from /\ pc' = [pc EXCEPT ![r] = to]

\* `return None` of get_analysis_worker, and the 400 of the endpoint.
UnknownModel(r) ==
    /\ ModelOf[r] \notin Models
    /\ Go(r, "new", "answered")
    /\ status' = [status EXCEPT ![r] = 400]
    /\ UNCHANGED <<routing, gates, engines, result, metrics, health>>

\* Mutants: the index wraps one worker early; it does not wrap.
NextIndexShort(i) == (i + 1) % (NumWorkers - 1)
NextIndexUnbounded(i) == i + 1

NextIndex(i) == (i + 1) % NumWorkers

\* get_analysis_worker, under _pool_lock: the next worker, dead or alive.
Choose(r) ==
    LET m == ModelOf[r] IN
        /\ m \in Models
        /\ worker' = [worker EXCEPT ![r] = rrIndex[m]]
        /\ rrIndex' = [rrIndex EXCEPT ![m] = NextIndex(rrIndex[m])]

\* worker.analyze up to its await: the query is on its way to the engine.
Submit(w, r) ==
    working' = IF alive[w] THEN [working EXCEPT ![w] = @ \cup {r}] ELSE working

\* A request of a model with a limit queues for a slot, its worker chosen.
ArriveGated(r) ==
    /\ ModelOf[r] \in Gated
    /\ Go(r, "new", "queued")
    /\ Choose(r)
    /\ queue' = [queue EXCEPT ![ModelOf[r]] = Append(@, r)]
    /\ UNCHANGED <<holders, engines, result, status, metrics, health>>

\* acquire_concurrency_slot gives a no-op context to the others.
ArriveFree(r) ==
    /\ ModelOf[r] \notin Gated
    /\ Go(r, "new", "waiting")
    /\ Choose(r)
    /\ Submit(<<ModelOf[r], rrIndex[ModelOf[r]]>>, r)
    /\ UNCHANGED <<gates, alive, result, status, metrics, health>>

\* Mutant: one slot too many.
SlotFreeAtLimit(m) == Cardinality(holders[m]) <= Limit

SlotFree(m) == Cardinality(holders[m]) < Limit

IsNext(m, r) == queue[m] # <<>> /\ Head(queue[m]) = r

\* The gate lets the request in, and it is submitted at once.
GetSlot(r) ==
    LET m == ModelOf[r] IN
        /\ Go(r, "queued", "waiting")
        /\ SlotFree(m)
        /\ IsNext(m, r)
        /\ queue' = [queue EXCEPT ![m] = Tail(@)]
        /\ holders' = [holders EXCEPT ![m] = @ \cup {r}]
        /\ Submit(WorkerOf(r), r)
        /\ UNCHANGED <<routing, alive, result, status, metrics, health>>

-----------------------------------------------------------------------------
IsError(item) == item # "ok"
Failed(items) == \E i \in DOMAIN items : IsError(items[i])

\* The item that `for item in result` raises at.
FirstError(items) ==
    items[CHOOSE i \in DOMAIN items :
             IsError(items[i]) /\ \A j \in 1..(i - 1) : ~IsError(items[j])]

\* handle_error: status and outcome by the text of the error.
StatusOf(text) ==
    CASE text = "timeout"  -> 504
      [] text = "internal" -> 500
      [] text = "other"    -> 400

OutcomeOf(text) == IF text = "timeout" THEN "timeout" ELSE "error"

\* Mutant: only the first item is looked at.
VerdictOfHead(items) ==
    IF IsError(Head(items))
    THEN [status |-> StatusOf(Head(items)), outcome |-> OutcomeOf(Head(items))]
    ELSE [status |-> 200, outcome |-> "ok"]

\* The first error of the result decides, else all is well.
Verdict(items) ==
    IF Failed(items)
    THEN [status |-> StatusOf(FirstError(items)), outcome |-> OutcomeOf(FirstError(items))]
    ELSE [status |-> 200, outcome |-> "ok"]

\* Mutant: the slot is kept when the result is an error.
FreeSlotOnSuccess(r, items) ==
    holders' = [m \in Gated |->
        IF Failed(items) THEN holders[m] ELSE holders[m] \ {r}]

\* The end of `async with acquire_concurrency_slot(model_id)`.
FreeSlot(r, items) == holders' = [m \in Gated |-> holders[m] \ {r}]

\* Mutant: an error response is sent before it is counted.
CountSuccess(m, outcome) ==
    outcomes' = IF outcome = "ok" THEN [outcomes EXCEPT ![m][outcome] = @ + 1]
                ELSE outcomes

\* record_request_outcome
CountOutcome(m, outcome) == outcomes' = [outcomes EXCEPT ![m][outcome] = @ + 1]

\* worker.analyze returns, and the endpoint runs to its end without awaiting.
Respond(r, items) ==
    /\ Go(r, "waiting", "answered")
    /\ FreeSlot(r, items)
    /\ latencies' = [latencies EXCEPT ![ModelOf[r]] = @ + 1]
    /\ CountOutcome(ModelOf[r], Verdict(items).outcome)
    /\ status' = [status EXCEPT ![r] = Verdict(items).status]
    /\ UNCHANGED <<routing, queue, engines, result, health>>

ReturnLines(r) == result[r] # NoResult /\ Respond(r, result[r])

ReturnTimeout(r) == Respond(r, TimedOut)

\* The engine is done with a query; nobody reads the lines of an abandoned one.
EngineFinishes(w, r) ==
    /\ alive[w]
    /\ r \in working[w]
    /\ working' = [working EXCEPT ![w] = @ \ {r}]
    /\ IF pc[r] = "waiting"
       THEN \E items \in Results : result' = [result EXCEPT ![r] = items]
       ELSE UNCHANGED result
    /\ UNCHANGED <<routing, pc, gates, alive, status, metrics, health>>

\* A process that dies is not started again.
WorkerDies(w) ==
    /\ alive[w]
    /\ alive' = [alive EXCEPT ![w] = FALSE]
    /\ working' = [working EXCEPT ![w] = {}]
    /\ UNCHANGED <<routing, pc, gates, result, status, metrics, health>>

\* The k-th worker in the order of analysis_worker_map.
WorkerAt(k) == <<ModelOrder[(k - 1) \div NumWorkers + 1], (k - 1) % NumWorkers>>

\* get_worker_liveness asks one worker after the other, while they live on.
PollWorker ==
    /\ polled < Len(ModelOrder) * NumWorkers
    /\ polled' = polled + 1
    /\ found' = IF alive[WorkerAt(polled + 1)] THEN found
                ELSE found \cup {WorkerAt(polled + 1)}
    /\ UNCHANGED <<routing, pc, gates, engines, result, status, metrics, report>>

\* Mutants: a model is down when none of its workers lives; a model whose
\* requests queue counts as down as well.
DeadModelsIfAllDown(F) == {m \in Models : \A i \in Index : <<m, i>> \in F}
DeadModelsOrBusy(F) ==
    {m \in Models : (\E i \in Index : <<m, i>> \in F) \/ (m \in Gated /\ queue[m] # <<>>)}

\* `state["alive"] < state["total"]`
DeadModels(F) == {m \in Models : \E i \in Index : <<m, i>> \in F}

\* check_health puts the report together.
ReportHealth ==
    /\ polled = Len(ModelOrder) * NumWorkers
    /\ report' = DeadModels(found)
    /\ polled' = 0
    /\ found' = {}
    /\ UNCHANGED <<routing, pc, gates, engines, result, status, metrics>>

Next ==
    \/ \E r \in Requests :
          \/ UnknownModel(r)
          \/ ArriveGated(r)
          \/ ArriveFree(r)
          \/ GetSlot(r)
          \/ ReturnLines(r)
          \/ ReturnTimeout(r)
          \/ \E w \in Workers : EngineFinishes(w, r)
    \/ \E w \in Workers : WorkerDies(w)
    \/ PollWorker
    \/ ReportHealth

Spec == Init /\ [][Next]_vars

(***************************************************************************)
(* Fairness.  The gate lets requests in (ConcurrencyGate) and every call   *)
(* of worker.analyze returns (KataGoWorker: EventuallyAnswered); a health  *)
(* check goes on to its end and the next one comes (the watchdog asks once *)
(* a minute).  Engines owe nothing.                                        *)
(***************************************************************************)
Fairness ==
    /\ \A r \in Requests : WF_vars(GetSlot(r)) /\ WF_vars(ReturnTimeout(r))
    /\ WF_vars(PollWorker \/ ReportHealth)

LiveSpec == Spec /\ Fairness

-----------------------------------------------------------------------------
Chosen(w) == Cardinality({r \in Requests :
    ModelOf[r] \in Models /\ pc[r] # "new" /\ WorkerOf(r) = w})

\* Requests of a model are spread evenly over its workers in whatever order
\* they come and end (pool.py:138-146).
RoundRobinBalanced ==
    \A m \in Models : \A i, j \in Index : Chosen(<<m, i>>) <= Chosen(<<m, j>>) + 1

Answered(m, codes) ==
    Cardinality({r \in Requests : ModelOf[r] = m /\ status[r] \in codes})

\* The statistics that the alert rules read agree with what clients were
\* told: every response of a known model is counted once, under its own
\* outcome, and timed once (main.py:130, 141-164).
OutcomesMatchResponses ==
    \A m \in Models :
        /\ outcomes[m]["ok"] = Answered(m, {200})
        /\ outcomes[m]["timeout"] = Answered(m, {504})
        /\ outcomes[m]["error"] = Answered(m, {400, 500})
        /\ latencies[m] = Answered(m, {200, 400, 500, 504})

\* A success is never sent for a query that the engine did not answer, or for
\* an answer with an error anywhere in it (main.py:156-165).
SuccessIsComplete ==
    \A r \in Requests : status[r] = 200 =>
        result[r] # NoResult /\ \A i \in DOMAIN result[r] : result[r][i] = "ok"

\* The health report names a model only for a worker that is dead, and a dead
\* worker stays dead; a saturated model is not reported (health.py:35-37).
HealthReportsOnlyDeath ==
    \A m \in report : \E i \in Index : ~alive[<<m, i>>]

\* A dead worker is reported for ever from some check on, even if the model
\* has other workers (pool.py:171-172).
DeathReachesHealth ==
    \A m \in Models : (\E i \in Index : ~alive[<<m, i>>]) ~> [](m \in report)

\* Every request that has arrived is answered, whether its model has a limit or
\* not, and also when all engines hang or are dead (main.py:117-165,
\* worker.py:155-162).
EveryRequestAnswered == \A r \in Requests : pc[r] # "new" ~> status[r] # 0

\* The queries of model m in its engines, and those whose callers wait for them
\* or had their answer: were not told of a timeout.
Load(m) == UNION {working[<<m, i>>] : i \in Index}
LiveLoad(m) == {r \in Load(m) : status[r] # 504}

\* The engines of a gated model work on no more queries than its limit at a time,
\* apart from those whose callers have given up (pool.py:47-65, 149-152).
LiveLoadWithinLimit == \A m \in Gated : Cardinality(LiveLoad(m)) <= Limit

\* An engine works on no more requests of a gated model at a time than its
\* limit (config.py:90-93, "하드 상한").
EngineLoadWithinLimit ==
    \A m \in Gated : Cardinality(Load(m)) <= Limit
=============================================================================
