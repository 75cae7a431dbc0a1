----------------------------- MODULE Monitoring -----------------------------
(***************************************************************************)
(* The watchdog of module Watchdog, together with what it watches: the     *)
(* server with its one model of one worker, the rolling windows of request *)
(* outcomes (analysis/metrics.py), and the rules of monitoring/rules.py    *)
(* that read them.  A snapshot, arbitrary in Watchdog, is what             *)
(* monitoring/collect.py makes of the server's state.  /health may give no *)
(* answer, or one that it cannot read, an error whose body is no report    *)
(* (of a proxy, or of the access control); /status and systemctl may fail, *)
(* whatever the state of the server is.                                    *)
(*                                                                         *)
(* `now' is the time of the last tick, `clock' the time.  A tick takes its *)
(* snapshot in one step and lasts less than a minute; as it reads nothing  *)
(* of the server after that, the server does not move while it runs.       *)
(***************************************************************************)
EXTENDS Watchdog, Sequences, FiniteSets

CONSTANTS
    Window,       \* DEFAULT_WINDOW_SECONDS, in minutes
    MaxLen,       \* maxlen of the deque of outcomes
    StalledMin,   \* cfg.stalled_min_samples
    TimeoutMin,   \* cfg.timeout_min_samples
    RatePercent,  \* cfg.timeout_rate
    MaxEvents     \* bound on what happens to the server: requests, failures, restarts

ASSUME MonitoringAssumption ==
    /\ {Window, MaxLen, StalledMin, TimeoutMin, RatePercent, MaxEvents} \subseteq Nat
    /\ 0 < StalledMin /\ StalledMin <= MaxLen
    /\ MetricRules \subseteq {"model_stalled", "timeout_rate"}
    /\ {"worker_dead", "crash_loop"} \subseteq Rules /\ For["worker_dead"] = 0

VARIABLES
    clock,
    unit,      \* ActiveState of the server
    engine,    \* what its KataGo process does
    samples,   \* OutcomeTracker._samples: [at, outcome]
    answer,    \* how /health answered the tick, None between ticks
    models,    \* the samples behind snap.models, None if /status was not read
    \* observers
    brokenAt,  \* when the engine left "serving"
    requests,  \* all that this process of the server has recorded
    happened,  \* events so far, up to MaxEvents
    readAt,    \* `restarts' when a completed tick last read the counter
    reachedAt, \* the last completed tick that read a report of a dead engine
    toldAt     \* the last completed tick that sent worker_dead

server == <<unit, engine, samples, brokenAt, requests, happened>>
seen == <<readAt, reachedAt, toldAt>>
system == <<clock, server, answer, models, seen>>

Outcomes == {"ok", "timeout", "error"}
Sample == [at : Nat, outcome : Outcomes]

SystemTypeOK ==
    /\ TypeOK
    /\ clock \in now .. now + MaxGap
    /\ unit \in {"active", "failed", "inactive"}
    /\ engine \in {"serving", "hung", "dead"}
    /\ samples \in Seq(Sample) /\ Len(samples) <= MaxLen
    /\ answer \in {None, "none", "unreadable", "report"}
    /\ models \in Seq(Sample) \cup {None}
    /\ requests \in Seq(Sample)
    /\ {brokenAt, readAt, reachedAt, toldAt} \subseteq Nat
    /\ happened \in 0 .. MaxEvents

\* The watchdog is installed while the server runs, be its engine well or not.
SystemInit ==
    /\ Init
    /\ clock = Epoch
    /\ unit = "active" /\ engine \in {"serving", "hung", "dead"}
    /\ brokenAt = IF engine = "serving" THEN 0 ELSE clock
    /\ samples = <<>> /\ requests = <<>> /\ happened = 0
    /\ answer = None /\ models = None
    /\ readAt = 0 /\ reachedAt = 0 /\ toldAt = 0

-----------------------------------------------------------------------------
\* Mutants: a full deque takes no more, or any number; the window is the deque.
KeepOldest(s, sample) == IF Len(s) < MaxLen THEN Append(s, sample) ELSE s
KeepAll(s, sample) == Append(s, sample)
AnyAge(sample) == TRUE

\* OutcomeTracker.record(): a deque with maxlen drops its oldest element.
Recorded(s, sample) ==
    LET all == Append(s, sample)
    IN  IF Len(all) > MaxLen THEN Tail(all) ELSE all

\* OutcomeTracker.counts(), at the time of the request to /status.
InWindow(sample) == sample.at >= clock - Window
Total(s) == Cardinality({i \in DOMAIN s : InWindow(s[i])})
Count(s, outcome) == Cardinality({i \in DOMAIN s : InWindow(s[i]) /\ s[i].outcome = outcome})

Stalled(s) ==
    /\ Total(s) >= StalledMin
    /\ Count(s, "ok") = 0
    /\ Count(s, "timeout") >= StalledMin

\* The rate is undefined, and raises, when no samples are enough samples.
TimeoutRateRaises(s) == TimeoutMin = 0 /\ Total(s) = 0

TimeoutRateHigh(s) ==
    /\ Total(s) >= TimeoutMin
    /\ Count(s, "timeout") * 100 > RatePercent * Total(s)

\* check_health(): a hung engine is alive.
EngineAlive == engine # "dead"

\* What may come of a request to /health.
HealthAnswers == {"none"} \cup (IF unit = "active" THEN {"unreadable", "report"} ELSE {})

\* _collect_health(): the report is a 200, or a 503 with the list of dead models.
HealthStatus(ans) ==
    IF ans = "none" THEN None
    ELSE IF ans = "report" /\ EngineAlive THEN 200
    ELSE 503

\* Mutant: the list of dead models is read from a body with status 200 only.
DeadListOf200(ans) == ans = "report" /\ ~EngineAlive /\ HealthStatus(ans) = 200

\* An answer that cannot be read has no list of dead models.
DeadListRead(ans) == ans = "report" /\ ~EngineAlive

\* Mutant: /status counts even if the server did not answer.
StatusAnswersAlways(ans) == {None, samples}

\* /status is asked only if /health gave an answer, whatever it was.
StatusAnswers(ans) == IF ans = "none" THEN {None} ELSE {None, samples}

\* The rules on outcomes that hold; without models there are no outcomes.
Known(status) == IF status = None THEN <<>> ELSE status

Over(s) ==
    {r \in MetricRules :
        \/ r = "model_stalled" /\ Stalled(s)
        \/ r = "timeout_rate" /\ TimeoutRateHigh(s) /\ ~TimeoutRateRaises(s)}

\* Snapshot as the rules read it; systemctl tells all, the state only, or nothing.
SnapshotOf(ans, status, systemctl) ==
    [reachable |-> ans # "none",
     status    |-> HealthStatus(ans),
     dead      |-> DeadListRead(ans),
     unit      |-> IF systemctl = "nothing" THEN None ELSE unit,
     restarts  |-> IF systemctl = "all" THEN nRestarts ELSE None,
     over      |-> Over(Known(status)),
     raising   |-> IF "timeout_rate" \in Rules /\ TimeoutRateRaises(Known(status))
                   THEN "timeout_rate" ELSE None]

-----------------------------------------------------------------------------
\* A minute passes; the timer is at most MaxGap minutes late.
Minute ==
    /\ pc = "idle"
    /\ clock < MaxTime /\ clock < now + MaxGap
    /\ clock' = clock + 1
    /\ UNCHANGED <<vars, server, answer, models, seen>>

\* collect_snapshot()
TickCollects ==
    /\ clock > now /\ now' = clock
    /\ \E ans \in HealthAnswers, systemctl \in {"all", "state", "nothing"} :
          \E status \in StatusAnswers(ans) :
             /\ snap' = SnapshotOf(ans, status, systemctl)
             /\ answer' = ans
             /\ models' = status
    /\ Collect
    /\ UNCHANGED <<clock, server, seen>>

TickGoesOn ==
    /\ SkipInactive \/ Evaluate \/ Send \/ SendRaises \/ AllSent \/ Ping
    /\ UNCHANGED system

TickCompletes ==
    /\ Save
    /\ answer' = None /\ models' = None
    /\ readAt' = IF snap.restarts = None THEN readAt ELSE restarts
    /\ reachedAt' = IF answer = "report" /\ engine = "dead" THEN now ELSE reachedAt
    /\ toldAt' = IF SentFire("worker_dead") THEN now ELSE toldAt
    /\ UNCHANGED <<clock, server>>

TickDies ==
    /\ Dies
    /\ answer' = None /\ models' = None
    /\ UNCHANGED <<clock, server, seen>>

Happens == pc = "idle" /\ happened < MaxEvents /\ happened' = happened + 1

\* record_request_outcome(): an engine that does not serve gives no result, apart
\* from what it answered in its last minute.  One that is dead lets every request
\* time out; one that hangs may still refuse some.
AnswerRequest(outcome) ==
    /\ Happens /\ unit = "active"
    /\ \/ engine = "serving" \/ clock = brokenAt
       \/ outcome = "timeout"
       \/ outcome = "error" /\ engine = "hung"
    /\ requests' = Append(requests, [at |-> clock, outcome |-> outcome])
    /\ samples' = Recorded(samples, [at |-> clock, outcome |-> outcome])
    /\ UNCHANGED <<vars, clock, unit, engine, answer, models, brokenAt, seen>>

\* The KataGo process (external) hangs or dies; nothing brings it back.
EngineFails(how) ==
    /\ Happens /\ unit = "active"
    /\ engine # "dead" /\ engine # how
    /\ engine' = how
    /\ brokenAt' = IF engine = "serving" THEN clock ELSE brokenAt
    /\ UNCHANGED <<vars, clock, unit, samples, answer, models, requests, seen>>

\* A new process of the server has a new engine and empty windows.
Started ==
    /\ unit' = "active" /\ engine' = "serving"
    /\ samples' = <<>> /\ requests' = <<>> /\ brokenAt' = 0

AutomaticRestart ==
    /\ Happens /\ unit = "active"
    /\ ServerRestarts
    /\ Started
    /\ UNCHANGED <<clock, answer, models, seen>>

\* systemd gives up, or the operator stops the unit.
UnitEnds(how) ==
    /\ Happens
    /\ unit = "active" \/ (unit = "failed" /\ how = "inactive")
    /\ unit' = how
    /\ engine' = "dead" /\ brokenAt' = 0 /\ samples' = <<>> /\ requests' = <<>>
    /\ UNCHANGED <<vars, clock, answer, models, seen>>

OperatorStarts ==
    /\ Happens /\ unit # "active"
    /\ CounterReset \/ (nRestarts = 0 /\ UNCHANGED vars)
    /\ Started
    /\ UNCHANGED <<clock, answer, models, seen>>

SystemNext ==
    \/ Minute
    \/ TickCollects
    \/ TickGoesOn
    \/ TickCompletes
    \/ TickDies
    \/ \E outcome \in Outcomes : AnswerRequest(outcome)
    \/ \E how \in {"hung", "dead"} : EngineFails(how)
    \/ AutomaticRestart
    \/ \E how \in {"failed", "inactive"} : UnitEnds(how)
    \/ OperatorStarts

SystemSpec == SystemInit /\ [][SystemNext]_<<vars, system>>

-----------------------------------------------------------------------------
\* Whatever the server does, the watchdog that watches it takes only steps of
\* module Watchdog: its snapshots are among those assumed there, so that what
\* holds there holds here.
ImplementsWatchdog == Spec

\* While the engine is dead and completed ticks read the report of /health,
\* worker_dead is announced at least every Repeat["worker_dead"]: ticks in between
\* that got no answer or an unreadable one, and resolved the alert with an empty
\* list of dead models (rules.py:50), that were killed, or that read no counter do
\* not prolong the silence.  While every answer is unreadable there is no alert: the
\* server counts as reached, its engines as alive (collect.py:70-75, 112-116).
DeadEngineAnnounced ==
    pc = "idle" /\ raised = {} /\ reachedAt > 0 =>
        toldAt > 0 /\ reachedAt - toldAt < Repeat["worker_dead"]

\* The deadman switch gets its success ping only while the unit is active and the
\* engine's process alive, whatever answers /health and systemctl gave: an answer
\* that cannot be read, which no rule notices, withholds it (collect.py:45-48).
OkPingMeansAlive == pinged = "ok" => unit = "active" /\ engine # "dead"

\* A GPU hang, which /health does not see, is in /status: when the engine has not
\* served for a whole window in which enough requests came, and refused none of
\* them, model_stalled holds, however many samples maxlen has dropped
\* (rules.py:109-113, metrics.py:70-97).
HungIsSeen ==
    LET recent == {i \in DOMAIN requests : requests[i].at >= now - Window} IN
    /\ pc = "collected" /\ models # None
    /\ engine # "serving" /\ now - brokenAt > Window
    /\ Cardinality(recent) >= StalledMin
    /\ \A i \in recent : requests[i].outcome # "error"
    => ("model_stalled" \in Rules => "model_stalled" \in snap.over)

\* An alert on outcomes never outlives its cause: when it is sent or repeated,
\* the running server has had a timeout within the last window (metrics.py:8-10).
MetricAlertsAreRecent ==
    \A r \in MetricRules : EventFor(r, "fire") =>
        \E i \in DOMAIN requests :
            requests[i].outcome = "timeout" /\ requests[i].at >= now - Window

\* A crash loop is announced only if the counter went up twice since a completed
\* tick last read it, whatever resets and failed ticks came in between
\* (rules.py:74, watchdog.py:147-150).  That tick may be longer ago than the one
\* minute of rules.py:68 and of the alert's own text, rules.py:76: ticks may be late,
\* killed, or get nothing from systemctl.  And NRestarts counts restarts by systemd:
\* a manual one, which rules.py:70 expects to count, starts it again.
CrashLoopIsReal == EventFor("crash_loop", "fire") => restarts - readAt >= 2
=============================================================================
