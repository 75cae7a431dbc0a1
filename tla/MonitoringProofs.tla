-------------------------- MODULE MonitoringProofs --------------------------
(***************************************************************************)
(* Module Monitoring implements module Watchdog, for every size of window, *)
(* every set of rules that Monitoring can evaluate and every bound: the    *)
(* snapshots that collect.py makes of the server are among those that      *)
(* Watchdog allows.  What WatchdogProofs proves of Watchdog then holds for *)
(* the monitored server as well, and the theorems on announcements below   *)
(* rest on it.                                                             *)
(***************************************************************************)
EXTENDS Monitoring, WatchdogProofs, FiniteSetTheorems

\* The environment moves between ticks only, and time is bounded.
SystemInv ==
    /\ IInv
    /\ unit \in {"active", "failed", "inactive"}
    /\ clock \in Nat /\ now <= clock /\ clock <= now + MaxGap
    /\ clock # now => clock <= MaxTime
    /\ pc # "idle" =>
          /\ clock = now /\ answer \in HealthAnswers
          /\ snap.status = HealthStatus(answer) /\ snap.dead = DeadListRead(answer)
          /\ snap.unit \in {unit, None}

\* The assumption on the constants, as facts to cite.
LEMMA Parameters ==
    /\ Window \in Nat /\ RatePercent \in Nat /\ StalledMin \in Nat /\ 0 < StalledMin
    /\ "worker_dead" \in Rules /\ "crash_loop" \in Rules /\ For["worker_dead"] = 0
    /\ MetricRules \subseteq {"model_stalled", "timeout_rate"}
BY MonitoringAssumption DEF MonitoringAssumption

\* No samples, no outcome rule holds.
LEMMA EmptyWindow ==
    ~Stalled(<<>>) /\ ~TimeoutRateHigh(<<>>)
<1>1. Total(<<>>) = 0 /\ \A o : Count(<<>>, o) = 0
  BY FS_EmptySet DEF Total, Count
<1>2. ~Stalled(<<>>)
  BY <1>1, Parameters DEF Stalled
<1>3. ~TimeoutRateHigh(<<>>)
  BY <1>1, Parameters DEF TimeoutRateHigh
<1> QED
  BY <1>2, <1>3

\* A collected snapshot is one that Watchdog expects.
LEMMA SnapshotIsExpected ==
    ASSUME nRestarts \in Nat, unit \in {"active", "failed", "inactive"},
           NEW ans \in HealthAnswers, NEW systemctl \in {"all", "state", "nothing"},
           NEW st \in StatusAnswers(ans)
    PROVE  SnapshotOf(ans, st, systemctl) \in Snapshots(nRestarts)
<1> DEFINE s == Known(st)
           snapshot == SnapshotOf(ans, st, systemctl)
<1>1. None \notin Rules \cup Nat \cup {"active", "failed", "inactive"}
  BY Constants
<1>2. snapshot \in [reachable : BOOLEAN,
                    status : {200, 503, None},
                    dead : BOOLEAN,
                    unit : {"active", "inactive", "failed", None},
                    restarts : {nRestarts, None},
                    over : SUBSET MetricRules,
                    raising : MetricRules \cup {None}]
  <2>1. HealthStatus(ans) \in {200, 503, None} /\ DeadListRead(ans) \in BOOLEAN
    BY DEF HealthStatus, DeadListRead, EngineAlive
  <2> QED
    BY <2>1 DEF SnapshotOf, Over, MetricRules, StatusRules
<1>3. snapshot.reachable <=> snapshot.status # None
  <2>1. None # 200 /\ None # 503
    BY <1>1
  <2> QED
    BY <2>1 DEF SnapshotOf, HealthStatus
<1>4. ~snapshot.reachable => ~snapshot.dead /\ snapshot.over \cap StatusRules = {}
  <2> SUFFICES ASSUME ans = "none" PROVE ~DeadListRead(ans) /\ snapshot.over = {}
    BY DEF SnapshotOf
  <2>1. s = <<>>
    BY DEF StatusAnswers, Known
  <2> QED
    BY <2>1, EmptyWindow DEF SnapshotOf, Over, DeadListRead
<1>5. snapshot.unit = None => snapshot.restarts = None /\ "cgroup_memory" \notin snapshot.over
  <2>1. "cgroup_memory" \notin snapshot.over
    BY DEF SnapshotOf, Over
  <2>2. snapshot.unit = None => snapshot.restarts = None
    BY <1>1 DEF SnapshotOf
  <2> QED
    BY <2>1, <2>2
<1>6. snapshot.raising \notin snapshot.over
  <2>1. None \notin snapshot.over
    BY <1>1 DEF SnapshotOf, Over, MetricRules
  <2> QED
    BY <2>1 DEF SnapshotOf, Over
<1> QED
  BY <1>2, <1>3, <1>4, <1>5, <1>6 DEF Snapshots

\* Every step of the monitored server is one of the watchdog, or none to it.
LEMMA StepRefines ==
    SystemInv /\ [SystemNext]_<<vars, system>> => [Next]_vars
<1> SUFFICES ASSUME SystemInv, [SystemNext]_<<vars, system>> PROVE [Next]_vars
  OBVIOUS
<1>1. CASE Minute
  BY <1>1 DEF Minute
<1>2. CASE TickCollects
  <2>1. snap' \in Snapshots(nRestarts)
    BY <1>2, SnapshotIsExpected DEF TickCollects, SystemInv, IInv, TypeOK
  <2>2. \E gap \in 1 .. MaxGap : now + gap <= MaxTime /\ now' = now + gap
    <3>1. now \in Nat /\ clock \in Nat /\ MaxGap \in Nat
      BY Constants DEF SystemInv, IInv, TypeOK
    <3>2. clock - now \in 1 .. MaxGap /\ now + (clock - now) = clock
      BY <1>2, <3>1 DEF TickCollects, SystemInv
    <3>3. clock <= MaxTime /\ now' = clock
      BY <1>2, <3>1 DEF TickCollects, SystemInv
    <3> QED
      BY <3>2, <3>3
  <2> QED
    BY <1>2, <2>1, <2>2 DEF TickCollects, StartTick, Next
<1>3. CASE TickGoesOn
  BY <1>3 DEF TickGoesOn, Next
<1>4. CASE TickCompletes
  BY <1>4 DEF TickCompletes, Next
<1>5. CASE TickDies
  BY <1>5 DEF TickDies, Next
<1>6. CASE \E outcome \in Outcomes : AnswerRequest(outcome)
  BY <1>6 DEF AnswerRequest
<1>7. CASE \E how \in {"hung", "dead"} : EngineFails(how)
  BY <1>7 DEF EngineFails
<1>8. CASE AutomaticRestart
  BY <1>8 DEF AutomaticRestart, Next
<1>9. CASE \E how \in {"failed", "inactive"} : UnitEnds(how)
  BY <1>9 DEF UnitEnds
<1>10. CASE OperatorStarts
  BY <1>10 DEF OperatorStarts, Next
<1>11. CASE UNCHANGED <<vars, system>>
  BY <1>11
<1> QED
  BY <1>1, <1>2, <1>3, <1>4, <1>5, <1>6, <1>7, <1>8, <1>9, <1>10, <1>11 DEF SystemNext

\* The invariant holds when the watchdog is installed.
LEMMA InitEstablishesSystemInv == SystemInit => SystemInv
<1> SUFFICES ASSUME SystemInit PROVE SystemInv
  OBVIOUS
<1>1. IInv
  BY InitEstablishesIInv DEF SystemInit
<1>2. now = Epoch /\ clock = Epoch /\ pc = "idle" /\ Epoch \in Nat /\ MaxGap \in Nat
  BY Constants DEF SystemInit, Init
<1> QED
  BY <1>1, <1>2 DEF SystemInit, SystemInv

\* Every step keeps it: the server moves between ticks, the watchdog in them.
LEMMA SystemStep == SystemInv /\ [SystemNext]_<<vars, system>> => SystemInv'
<1> SUFFICES ASSUME SystemInv, [SystemNext]_<<vars, system>>
             PROVE  SystemInv'
  OBVIOUS
<1>0. IInv' /\ clock \in Nat /\ now \in Nat /\ MaxGap \in Nat /\ MaxTime \in Nat
  BY StepRefines, StepKeepsIInv, Constants, WatchdogAssumption
     DEF SystemInv, IInv, TypeOK, WatchdogAssumption
<1>1. CASE Minute
  BY <1>0, <1>1 DEF Minute, SystemInv, vars, tick, server
<1>2. CASE TickCollects
  <2>1. PICK ans \in HealthAnswers, systemctl \in {"all", "state", "nothing"} :
            \E st \in StatusAnswers(ans) :
                snap' = SnapshotOf(ans, st, systemctl) /\ answer' = ans
    BY <1>2 DEF TickCollects
  <2>2. /\ snap'.status = HealthStatus(ans) /\ snap'.dead = DeadListRead(ans)
        /\ snap'.unit \in {unit, None} /\ answer' = ans
    BY <2>1 DEF SnapshotOf
  <2>3. /\ unit' = unit /\ engine' = engine /\ clock' = clock /\ now' = clock
        /\ HealthAnswers' = HealthAnswers
        /\ HealthStatus(answer)' = HealthStatus(ans) /\ DeadListRead(answer)' = DeadListRead(ans)
    BY <1>2, <2>2 DEF TickCollects, server, HealthAnswers, HealthStatus, DeadListRead, EngineAlive
  <2> QED
    BY <1>0, <2>2, <2>3 DEF SystemInv
<1>3. CASE TickGoesOn
  <2>1. now' = now /\ snap' = snap /\ pc # "idle"
    BY <1>3 DEF TickGoesOn, SkipInactive, Evaluate, Send, SendRaises, AllSent, Ping, observers
  <2>2. UNCHANGED <<unit, engine, clock, answer>>
    BY <1>3 DEF TickGoesOn, system, server
  <2>3. /\ HealthAnswers' = HealthAnswers /\ HealthStatus(answer)' = HealthStatus(answer)
        /\ DeadListRead(answer)' = DeadListRead(answer)
    BY <2>2 DEF HealthAnswers, HealthStatus, DeadListRead, EngineAlive
  <2> QED
    BY <1>0, <2>1, <2>2, <2>3 DEF SystemInv
<1>4. CASE TickCompletes \/ TickDies
  <2>1. now' = now /\ pc' = "idle" /\ unit' = unit /\ clock' = clock
    BY <1>4 DEF TickCompletes, Save, TickDies, Dies, server
  <2> QED
    BY <1>0, <2>1 DEF SystemInv
<1>5. CASE \/ \E outcome \in Outcomes : AnswerRequest(outcome)
           \/ \E how \in {"hung", "dead"} : EngineFails(how)
           \/ AutomaticRestart
           \/ \E how \in {"failed", "inactive"} : UnitEnds(how)
           \/ OperatorStarts
  <2>1. /\ now' = now /\ pc = "idle" /\ pc' = pc /\ clock' = clock
        /\ unit' \in {unit, "active", "failed", "inactive"}
    BY <1>5 DEF AnswerRequest, EngineFails, AutomaticRestart, ServerRestarts, UnitEnds,
                OperatorStarts, CounterReset, Started, Happens, vars, tick, observers
  <2> QED
    BY <1>0, <2>1 DEF SystemInv
<1>6. CASE UNCHANGED <<vars, system>>
  <2>1. UNCHANGED <<now, pc, snap, unit, engine, clock, answer>>
    BY <1>6 DEF vars, tick, system, server
  <2>2. /\ HealthAnswers' = HealthAnswers /\ HealthStatus(answer)' = HealthStatus(answer)
        /\ DeadListRead(answer)' = DeadListRead(answer)
    BY <2>1 DEF HealthAnswers, HealthStatus, DeadListRead, EngineAlive
  <2> QED
    BY <1>0, <2>1, <2>2 DEF SystemInv
<1> QED
  BY <1>1, <1>2, <1>3, <1>4, <1>5, <1>6 DEF SystemNext

\* The watchdog's inductive invariant holds of the monitored server; a tick's
\* snapshot is about the server as it still is.
THEOREM SystemInvariance == SystemSpec => []SystemInv
BY InitEstablishesSystemInv, SystemStep, PTL DEF SystemSpec

\* The server with its watchdog is an implementation of the watchdog with any
\* server: the snapshots of collect.py are among those that Watchdog allows.
THEOREM Implementation == SystemSpec => ImplementsWatchdog
<1>1. SystemInit => Init
  BY DEF SystemInit
<1> QED
  BY <1>1, StepRefines, SystemInvariance, PTL DEF SystemSpec, Spec, ImplementsWatchdog

-----------------------------------------------------------------------------
\* The difference that the next tick sees is made of restarts since the file
\* was last written by a tick that read the counter.
CrashInv ==
    /\ readAt \in Nat /\ readAt <= restarts
    /\ file.restarts # None => nRestarts - file.restarts <= restarts - readAt

\* Every step keeps that: restarts, resets and reads of the counter.
LEMMA CrashStep == SystemInv /\ CrashInv /\ [SystemNext]_<<vars, system>> => CrashInv'
<1> SUFFICES ASSUME SystemInv, CrashInv, [SystemNext]_<<vars, system>> PROVE CrashInv'
  OBVIOUS
<1>0. /\ restarts \in Nat /\ nRestarts \in Nat /\ file.restarts \in Nat \cup {None}
      /\ None \notin Nat
  BY Constants DEF SystemInv, IInv, TypeOK, States
<1>1. CASE TickCompletes
  <2>1. snap \in Snapshots(nRestarts) /\ file'.restarts = snap.restarts
    BY <1>1 DEF TickCompletes, Save, SystemInv, IInv, TypeOK, TickInv
  <2>2. snap.restarts \in {nRestarts, None} /\ nRestarts' = nRestarts /\ restarts' = restarts
    BY <1>1, <2>1, SnapshotTypes, <1>0 DEF TickCompletes, Save
  <2>3. readAt' = IF snap.restarts = None THEN readAt ELSE restarts
    BY <1>1 DEF TickCompletes
  <2> QED
    BY <1>0, <2>1, <2>2, <2>3 DEF CrashInv
<1>2. CASE AutomaticRestart
  BY <1>0, <1>2 DEF AutomaticRestart, ServerRestarts, seen, CrashInv
<1>3. CASE OperatorStarts
  BY <1>0, <1>3 DEF OperatorStarts, CounterReset, seen, CrashInv, vars, observers
<1>4. CASE TickCollects \/ TickGoesOn \/ TickDies
  <2>1. UNCHANGED <<file, nRestarts, restarts, readAt>>
    BY <1>4 DEF TickCollects, Collect, TickGoesOn, SkipInactive, Evaluate, Send, SendRaises, AllSent, Ping,
                TickDies, Dies, system, seen, observers
  <2> QED
    BY <2>1 DEF CrashInv
<1>5. CASE \/ Minute
           \/ \E outcome \in Outcomes : AnswerRequest(outcome)
           \/ \E how \in {"hung", "dead"} : EngineFails(how)
           \/ \E how \in {"failed", "inactive"} : UnitEnds(how)
           \/ UNCHANGED <<vars, system>>
  <2>1. UNCHANGED <<file, nRestarts, restarts, readAt>>
    BY <1>5 DEF Minute, AnswerRequest, EngineFails, UnitEnds, vars, observers, system, seen
  <2> QED
    BY <2>1 DEF CrashInv
<1> QED
  BY <1>1, <1>2, <1>3, <1>4, <1>5 DEF SystemNext

\* A crash loop is announced only after two restarts since a completed tick last
\* read the counter.
THEOREM CrashLoops == SystemSpec => []CrashLoopIsReal
<1>1. SystemInit => CrashInv
  BY DEF SystemInit, Init, Fresh, CrashInv
<1>2. SystemInv /\ CrashInv => CrashLoopIsReal
  <2> SUFFICES ASSUME SystemInv, CrashInv, EventFor("crash_loop", "fire")
               PROVE  restarts - readAt >= 2
    BY DEF CrashLoopIsReal
  <2>1. Evaluated /\ Holds("crash_loop", snap, Delta)
    BY FireIsDue, Parameters DEF SystemInv, FiresNow, Fires
  <2>2. snap \in Snapshots(nRestarts)
    BY <2>1 DEF Evaluated, SystemInv, IInv, TypeOK
  <2>3. Delta >= 2
    <3>1. "crash_loop" \notin snap.over
      BY <2>2 DEF Snapshots, MetricRules, StatusRules, HostRules
    <3> QED
      BY <2>1, <3>1 DEF Holds
  <2>4. /\ restarts \in Nat /\ nRestarts \in Nat /\ file.restarts \in Nat \cup {None}
        /\ snap.restarts \in {nRestarts, None} /\ None \notin Nat
    BY <2>2, SnapshotTypes, Constants DEF SystemInv, IInv, TypeOK, States
  <2>5. file.restarts # None /\ Delta = nRestarts - file.restarts
    BY <2>3, <2>4 DEF Delta, RestartsDelta
  <2> QED
    BY <2>3, <2>4, <2>5 DEF CrashInv
<1> QED
  BY <1>1, <1>2, CrashStep, SystemInvariance, PTL DEF SystemSpec

-----------------------------------------------------------------------------
WorkerDead == "worker_dead"

\* A completed tick that met the dead engine either announced it or found it
\* announced; what the file says of the last announcement is true.
AnnouncedInv ==
    /\ {reachedAt, toldAt} \subseteq Nat /\ reachedAt <= now /\ toldAt <= now
    /\ firedAt[WorkerDead] # None => firedAt[WorkerDead] = toldAt
    /\ raised = {} /\ reachedAt > 0 => toldAt > 0 /\ reachedAt - toldAt < Repeat[WorkerDead]

\* A tick that meets the dead engine and ends without an exception leaves the
\* alert announced.
LEMMA DeadIsAnnounced ==
    ASSUME SystemInv, AnnouncedInv, TickCompletes, raised = {},
           answer = "report", engine = "dead"
    PROVE  toldAt' > 0 /\ now - toldAt' < Repeat[WorkerDead]
<1> DEFINE rec == file.alerts[WorkerDead]
<1>1. /\ now \in Nat /\ toldAt \in Nat /\ rec \in Record \cup {None}
      /\ firedAt[WorkerDead] \in Nat \cup {None}
      /\ WorkerDead \in Rules /\ For[WorkerDead] = 0
      /\ Repeat[WorkerDead] \in Nat /\ 0 < Repeat[WorkerDead] /\ Repeat[WorkerDead] <= now
      /\ None \notin Nat /\ None # "active"
  BY Parameters, Constants DEF SystemInv, IInv, TypeOK, States, HistoryInv, WorkerDead, AnnouncedInv
<1>2. pc = "saving" /\ snap \in Snapshots(nRestarts)
  BY DEF TickCompletes, Save, SystemInv, IInv, TypeOK
<1>3. snap.dead /\ snap.unit # "inactive"
  BY <1>1, <1>2, Constants DEF SystemInv, HealthAnswers, DeadListRead, EngineAlive
<1>4. Evaluated /\ Holds(WorkerDead, snap, Delta)
  BY <1>2, <1>3 DEF Evaluated, Holds, WorkerDead
<1>5. events = {} /\ EventsOf(file.alerts, snap, Delta) \subseteq sent
  BY <1>2, <1>4 DEF SystemInv, IInv, TickInv
<1>6. CASE SentFire(WorkerDead)
  <2>1. toldAt' = now
    BY <1>6 DEF TickCompletes, WorkerDead
  <2> QED
    BY <1>1, <2>1
<1>7. CASE ~SentFire(WorkerDead)
  <2>1. toldAt' = toldAt
    BY <1>7 DEF TickCompletes, WorkerDead
  <2>2. ~FiresNow(WorkerDead)
    BY <1>1, <1>5, <1>7, EventMeaning DEF SentFire
  <2>3. ~Due(WorkerDead, Opened(rec))
    BY <1>4, <2>2 DEF FiresNow, Fires
  <2>4. Exact(WorkerDead) /\ Remembered(WorkerDead) /\ Sustained(WorkerDead)
    BY <1>1 DEF SystemInv, IInv, HistoryInv
  <2>5. rec # None
    BY <1>1, <2>3 DEF Due, Opened
  <2>6. rec.since \in Nat /\ rec.last \in Nat /\ rec \in Record
    BY <1>1, <2>5 DEF Record
  <2>7. rec.since <= now
    BY <2>4, <2>5 DEF Exact, Remembered, Sustained
  <2>8. now - rec.last < Repeat[WorkerDead]
    BY <1>1, <2>3, <2>5, <2>6, <2>7 DEF Due, Opened
  <2>9. firedAt[WorkerDead] = None => rec.last = 0
    BY <1>1, <2>4, <2>5, <2>6 DEF Exact
  <2>10. firedAt[WorkerDead] # None => firedAt[WorkerDead] = rec.last
    BY <1>1, <2>4, <2>5 DEF Exact
  <2>11. firedAt[WorkerDead] # None
    BY <1>1, <2>8, <2>9
  <2> QED
    BY <1>1, <2>1, <2>6, <2>8, <2>10, <2>11 DEF AnnouncedInv
<1> QED
  BY <1>6, <1>7

\* Every step keeps that: only a completed tick changes what has been announced.
LEMMA AnnouncedStep ==
    SystemInv /\ AnnouncedInv /\ [SystemNext]_<<vars, system>> => AnnouncedInv'
<1> SUFFICES ASSUME SystemInv, AnnouncedInv, [SystemNext]_<<vars, system>>
             PROVE  AnnouncedInv'
  OBVIOUS
<1>0. /\ now \in Nat /\ clock \in Nat /\ reachedAt \in Nat /\ toldAt \in Nat
      /\ WorkerDead \in Rules /\ Repeat[WorkerDead] \in Nat /\ 0 < Repeat[WorkerDead]
  BY Parameters, Constants DEF SystemInv, IInv, TypeOK, AnnouncedInv, WorkerDead
<1>1. CASE TickCollects
  <2>1. UNCHANGED <<firedAt, raised, reachedAt, toldAt>> /\ now' = clock
    BY <1>1 DEF TickCollects, Collect, seen, observers
  <2>2. now <= clock
    BY DEF SystemInv
  <2> QED
    BY <1>0, <2>1, <2>2 DEF AnnouncedInv
<1>2. CASE TickCompletes
  <2>1. /\ now' = now /\ raised' = raised
        /\ toldAt' = IF SentFire(WorkerDead) THEN now ELSE toldAt
        /\ firedAt'[WorkerDead] \in
              {None, IF SentFire(WorkerDead) THEN now ELSE firedAt[WorkerDead]}
    BY <1>0, <1>2 DEF TickCompletes, Save, Observe, WorkerDead
  <2>2. firedAt'[WorkerDead] # None => firedAt'[WorkerDead] = toldAt'
    BY <2>1 DEF AnnouncedInv
  <2>3. CASE answer = "report" /\ engine = "dead"
    <3>1. reachedAt' = now
      BY <1>2, <2>3 DEF TickCompletes
    <3> QED
      BY <1>0, <1>2, <2>1, <2>2, <2>3, <3>1, DeadIsAnnounced DEF AnnouncedInv
  <2>4. CASE ~(answer = "report" /\ engine = "dead")
    <3>1. reachedAt' = reachedAt
      BY <1>2, <2>4 DEF TickCompletes
    <3> QED
      BY <1>0, <2>1, <2>2, <3>1 DEF AnnouncedInv
  <2> QED
    BY <2>3, <2>4
<1>3. CASE TickGoesOn
  <2>1. UNCHANGED <<now, firedAt, reachedAt, toldAt>>
    BY <1>3 DEF TickGoesOn, SkipInactive, Evaluate, Send, SendRaises, AllSent, Ping, system, seen, observers
  <2>2. raised \subseteq raised'
    BY <1>3 DEF TickGoesOn, SkipInactive, Evaluate, Send, SendRaises, AllSent, Ping, observers
  <2> QED
    BY <2>1, <2>2 DEF AnnouncedInv
<1>4. CASE TickDies \/ AutomaticRestart \/ OperatorStarts
  <2>1. UNCHANGED <<now, firedAt, raised, reachedAt, toldAt>>
    BY <1>4 DEF TickDies, Dies, AutomaticRestart, ServerRestarts, OperatorStarts, CounterReset,
                seen, observers, vars
  <2> QED
    BY <2>1 DEF AnnouncedInv
<1>5. CASE \/ Minute
           \/ \E outcome \in Outcomes : AnswerRequest(outcome)
           \/ \E how \in {"hung", "dead"} : EngineFails(how)
           \/ \E how \in {"failed", "inactive"} : UnitEnds(how)
           \/ UNCHANGED <<vars, system>>
  <2>1. UNCHANGED <<now, firedAt, raised, reachedAt, toldAt>>
    BY <1>5 DEF Minute, AnswerRequest, EngineFails, UnitEnds, vars, observers, system, seen
  <2> QED
    BY <2>1 DEF AnnouncedInv
<1> QED
  BY <1>1, <1>2, <1>3, <1>4, <1>5 DEF SystemNext

\* While ticks read the report of a server with a dead engine, worker_dead is
\* announced at least once a period.
THEOREM DeadEngines == SystemSpec => []DeadEngineAnnounced
<1>1. SystemInit => AnnouncedInv
  BY Parameters, Constants DEF SystemInit, Init, AnnouncedInv, WorkerDead
<1>2. AnnouncedInv => DeadEngineAnnounced
  BY DEF AnnouncedInv, DeadEngineAnnounced, WorkerDead
<1> QED
  BY <1>1, <1>2, AnnouncedStep, SystemInvariance, PTL DEF SystemSpec

-----------------------------------------------------------------------------
\* The ping of a tick agrees with the snapshot, which is still true of the server.
PingInv ==
    /\ pinged = "ok" => pc = "saving" /\ DeadmanOk(snap)
    /\ pc = "idle" => pinged = "none"

\* Every step keeps that.
LEMMA PingStep == SystemInv /\ PingInv /\ [SystemNext]_<<vars, system>> => PingInv'
<1> SUFFICES ASSUME SystemInv, PingInv, [Next]_vars PROVE PingInv'
  BY StepRefines
<1>1. CASE StartTick
  BY <1>1 DEF StartTick, Collect, observers, PingInv
<1>2. CASE SkipInactive \/ AllSent
  BY <1>2 DEF SkipInactive, AllSent, observers, PingInv
<1>3. CASE Evaluate \/ Send \/ SendRaises
  BY <1>3 DEF Evaluate, Send, SendRaises, PlaceAfterException, PingInv
<1>4. CASE Ping
  BY <1>4 DEF Ping, PingInv, DeadmanOk
<1>5. CASE Save \/ Dies
  BY <1>5 DEF Save, Dies, PingInv
<1>6. CASE ServerRestarts \/ CounterReset \/ UNCHANGED vars
  BY <1>6 DEF ServerRestarts, CounterReset, vars, tick, observers, PingInv, DeadmanOk
<1> QED
  BY <1>1, <1>2, <1>3, <1>4, <1>5, <1>6 DEF Next

\* The success ping is withheld from a server whose engine is dead or whose unit
\* is not active, whatever answers the tick got.
THEOREM OkPings == SystemSpec => []OkPingMeansAlive
<1>1. SystemInit => PingInv
  BY DEF SystemInit, Init, PingInv
<1>2. SystemInv /\ PingInv => OkPingMeansAlive
  <2> SUFFICES ASSUME SystemInv, PingInv, pinged = "ok"
               PROVE  unit = "active" /\ engine # "dead"
    BY DEF OkPingMeansAlive
  <2>1. pc # "idle" /\ snap.status = 200
    BY DEF PingInv, DeadmanOk
  <2>2. HealthStatus(answer) = 200 /\ answer \in HealthAnswers
    BY <2>1 DEF SystemInv
  <2>3. answer = "report" /\ EngineAlive
    BY <2>2, Constants DEF HealthStatus
  <2> QED
    BY <2>2, <2>3 DEF HealthAnswers, EngineAlive
<1> QED
  BY <1>1, <1>2, PingStep, SystemInvariance, PTL DEF SystemSpec

-----------------------------------------------------------------------------
\* The deque holds the latest requests in the order of their times, and what
\* a snapshot says of outcomes is said of the deque as it still is.
WindowInv ==
    /\ brokenAt \in Nat
    /\ requests \in Seq(Sample) /\ samples \in Seq(Sample)
    /\ Len(samples) = IF Len(requests) < MaxLen THEN Len(requests) ELSE MaxLen
    /\ \A i \in 1 .. Len(samples) : samples[i] = requests[i + (Len(requests) - Len(samples))]
    /\ \A i, j \in 1 .. Len(requests) : i <= j => requests[i].at <= requests[j].at
    /\ \A i \in 1 .. Len(requests) : requests[i].at <= clock
    /\ engine # "serving" =>
          \A i \in 1 .. Len(requests) : requests[i].at > brokenAt => requests[i].outcome # "ok"
    /\ pc # "idle" => models \in {None, samples} /\ snap.over = Over(Known(models))

\* The times of the recorded requests are numbers, their outcomes outcomes.
LEMMA RequestTimes ==
    ASSUME WindowInv
    PROVE  \A i \in 1 .. Len(requests) :
               requests[i].at \in Nat /\ requests[i].outcome \in Outcomes
<1>1. \A i \in 1 .. Len(requests) : requests[i] \in Sample
  BY DEF WindowInv
<1> QED
  BY <1>1 DEF Sample

\* The step that moves the deque: it stays the tail of the requests.
LEMMA Answered ==
    ASSUME SystemInv, WindowInv, NEW outcome \in Outcomes, AnswerRequest(outcome)
    PROVE  WindowInv'
<1> DEFINE x == [at |-> clock, outcome |-> outcome]
           all == Append(samples, x)
           n == Len(requests)
           m == Len(samples)
<1>1. /\ requests' = Append(requests, x) /\ samples' = Recorded(samples, x)
      /\ pc = "idle" /\ pc' = "idle" /\ clock' = clock /\ engine' = engine /\ brokenAt' = brokenAt
  BY DEF AnswerRequest, Happens, vars, tick
<1>2. x \in Sample /\ clock \in Nat /\ MaxLen \in Nat /\ 0 < MaxLen
  BY MonitoringAssumption DEF MonitoringAssumption, Sample, SystemInv
<1>3. /\ requests \in Seq(Sample) /\ samples \in Seq(Sample) /\ n \in Nat /\ m \in Nat
      /\ m = IF n < MaxLen THEN n ELSE MaxLen
      /\ \A i \in 1 .. m : samples[i] = requests[i + (n - m)]
  BY DEF WindowInv
<1>4. /\ requests' \in Seq(Sample) /\ Len(requests') = n + 1 /\ requests'[n + 1] = x
      /\ \A i \in 1 .. n : requests'[i] = requests[i]
  BY <1>1, <1>2, <1>3
<1>5. /\ all \in Seq(Sample) /\ Len(all) = m + 1
      /\ \A i \in 1 .. m + 1 : all[i] = requests'[i + (n - m)]
  <2>1. /\ all \in Seq(Sample) /\ Len(all) = m + 1 /\ all[m + 1] = x
        /\ \A i \in 1 .. m : all[i] = samples[i]
    BY <1>2, <1>3
  <2>2. ASSUME NEW i \in 1 .. m + 1 PROVE all[i] = requests'[i + (n - m)]
    <3>1. CASE i = m + 1
      <4>1. i + (n - m) = n + 1
        BY <1>3, <3>1
      <4> QED
        BY <1>4, <2>1, <3>1, <4>1
    <3>2. CASE i # m + 1
      <4>1. i \in 1 .. m /\ i + (n - m) \in 1 .. n
        BY <1>2, <1>3, <3>2
      <4> QED
        BY <1>3, <1>4, <2>1, <4>1
    <3> QED
      BY <3>1, <3>2
  <2> QED
    BY <2>1, <2>2
<1>6. /\ samples' \in Seq(Sample)
      /\ Len(samples') = IF n + 1 < MaxLen THEN n + 1 ELSE MaxLen
      /\ \A i \in 1 .. Len(samples') : samples'[i] = requests'[i + ((n + 1) - Len(samples'))]
  <2>1. CASE m + 1 > MaxLen
    <3>1. samples' = Tail(all) /\ m = MaxLen
      BY <1>1, <1>2, <1>3, <1>5, <2>1 DEF Recorded
    <3>2. /\ samples' \in Seq(Sample) /\ Len(samples') = m
          /\ \A i \in 1 .. m : samples'[i] = all[i + 1]
      <4>1. all # <<>> /\ all \in Seq(Sample) /\ Len(all) = m + 1
        BY <1>3, <1>5
      <4>2. Tail(all) \in Seq(Sample) /\ Len(Tail(all)) = m
        BY <1>3, <4>1
      <4>3. \A i \in 1 .. m : Tail(all)[i] = all[i + 1]
        BY <1>3, <4>1
      <4> QED
        BY <3>1, <4>2, <4>3
    <3>3. ASSUME NEW i \in 1 .. m PROVE samples'[i] = requests'[i + ((n + 1) - m)]
      <4>1. i + 1 \in 1 .. m + 1 /\ (i + 1) + (n - m) = i + ((n + 1) - m)
        BY <1>3
      <4> QED
        BY <1>5, <3>2, <4>1
    <3>4. Len(samples') = IF n + 1 < MaxLen THEN n + 1 ELSE MaxLen
      BY <1>2, <1>3, <3>1, <3>2
    <3> QED
      BY <3>2, <3>3, <3>4
  <2>2. CASE ~(m + 1 > MaxLen)
    <3>1. samples' = all /\ m = n
      BY <1>1, <1>2, <1>3, <1>5, <2>2 DEF Recorded
    <3>2. Len(samples') = n + 1 /\ n + 1 <= MaxLen
      BY <1>2, <1>3, <1>5, <2>2, <3>1
    <3>3. \A i \in 1 .. n + 1 : i + (n - m) = i + ((n + 1) - (n + 1))
      BY <1>3, <3>1
    <3>4. \A i \in 1 .. Len(samples') : samples'[i] = requests'[i + ((n + 1) - Len(samples'))]
      BY <1>5, <3>1, <3>2, <3>3
    <3>5. Len(samples') = IF n + 1 < MaxLen THEN n + 1 ELSE MaxLen
      BY <1>2, <1>3, <3>2
    <3> QED
      BY <1>5, <3>1, <3>4, <3>5
  <2> QED
    BY <2>1, <2>2
<1>7. \A i \in 1 .. n + 1 : requests'[i].at <= clock
  BY <1>2, <1>3, <1>4 DEF WindowInv
<1>8. \A i, j \in 1 .. n + 1 : i <= j => requests'[i].at <= requests'[j].at
  <2> SUFFICES ASSUME NEW i \in 1 .. n + 1, NEW j \in 1 .. n + 1, i <= j
               PROVE  requests'[i].at <= requests'[j].at
    OBVIOUS
  <2>1. CASE j = n + 1
    BY <1>4, <1>7, <2>1
  <2>2. CASE j # n + 1
    <3>1. i \in 1 .. n /\ j \in 1 .. n
      BY <1>3, <2>2
    <3> QED
      BY <1>4, <3>1 DEF WindowInv
  <2> QED
    BY <2>1, <2>2
<1>9. ASSUME engine # "serving", NEW i \in 1 .. n + 1, requests'[i].at > brokenAt
      PROVE  requests'[i].outcome # "ok"
  <2>1. CASE i = n + 1
    <3>1. clock > brokenAt
      BY <1>4, <1>9, <2>1
    <3>2. brokenAt # clock
      BY <1>2, <3>1
    <3> QED
      BY <1>4, <1>9, <2>1, <3>2 DEF AnswerRequest
  <2>2. CASE i # n + 1
    <3>1. i \in 1 .. n
      BY <1>3, <2>2
    <3> QED
      BY <1>4, <1>9, <3>1 DEF WindowInv
  <2> QED
    BY <2>1, <2>2
<1> QED
  BY <1>1, <1>4, <1>6, <1>7, <1>8, <1>9 DEF WindowInv

\* Every step keeps that: record() adds at the end, a restart empties both.
LEMMA WindowStep == SystemInv /\ WindowInv /\ [SystemNext]_<<vars, system>> => WindowInv'
<1> SUFFICES ASSUME SystemInv, WindowInv, [SystemNext]_<<vars, system>>
             PROVE  WindowInv'
  OBVIOUS
<1>0. clock \in Nat /\ MaxLen \in Nat
  BY MonitoringAssumption DEF MonitoringAssumption, SystemInv
<1>1. CASE Minute
  <2>1. /\ clock' = clock + 1 /\ pc' = "idle"
        /\ UNCHANGED <<requests, samples, engine, brokenAt>>
    BY <1>1 DEF Minute, vars, tick, server
  <2>2. \A i \in 1 .. Len(requests) : requests[i].at <= clock + 1
    <3>1. \A i \in 1 .. Len(requests) : requests[i].at \in Nat
      BY RequestTimes
    <3> QED
      BY <1>0, <3>1 DEF WindowInv
  <2> QED
    BY <2>1, <2>2 DEF WindowInv
<1>2. CASE TickCollects
  <2>1. PICK ans \in HealthAnswers, systemctl \in {"all", "state", "nothing"} :
            \E st \in StatusAnswers(ans) :
                snap' = SnapshotOf(ans, st, systemctl) /\ models' = st
    BY <1>2 DEF TickCollects
  <2>2. models' \in {None, samples} /\ snap'.over = Over(Known(models'))
    BY <2>1 DEF SnapshotOf, StatusAnswers
  <2>3. UNCHANGED <<clock, requests, samples, engine, brokenAt>>
    BY <1>2 DEF TickCollects, server
  <2>4. Over(Known(models))' = Over(Known(models'))
    BY <2>3 DEF Over, Known, Stalled, TimeoutRateHigh, TimeoutRateRaises, Total, Count, InWindow
  <2> QED
    BY <2>2, <2>3, <2>4 DEF WindowInv
<1>3. CASE TickGoesOn \/ UNCHANGED <<vars, system>>
  <2>1. /\ UNCHANGED <<clock, requests, samples, engine, brokenAt, models, snap>>
        /\ pc' # "idle" => pc # "idle"
    BY <1>3 DEF TickGoesOn, SkipInactive, Evaluate, Send, SendRaises, AllSent, Ping, system, server, observers,
                vars, tick
  <2>2. Over(Known(models))' = Over(Known(models))
    BY <2>1 DEF Over, Known, Stalled, TimeoutRateHigh, TimeoutRateRaises, Total, Count, InWindow
  <2> QED
    BY <2>1, <2>2 DEF WindowInv
<1>4. CASE TickCompletes \/ TickDies
  <2>1. UNCHANGED <<clock, requests, samples, engine, brokenAt>> /\ pc' = "idle"
    BY <1>4 DEF TickCompletes, Save, TickDies, Dies, server
  <2> QED
    BY <2>1 DEF WindowInv
<1>5. CASE \E outcome \in Outcomes : AnswerRequest(outcome)
  BY <1>5, Answered
<1>6. CASE \E how \in {"hung", "dead"} : EngineFails(how)
  <2>1. /\ UNCHANGED <<clock, requests, samples>> /\ pc' = "idle"
        /\ brokenAt' = IF engine = "serving" THEN clock ELSE brokenAt
    BY <1>6 DEF EngineFails, Happens, vars, tick
  <2>2. ASSUME NEW i \in 1 .. Len(requests), requests[i].at > brokenAt'
        PROVE  requests[i].outcome # "ok"
    <3>1. requests[i].at <= clock /\ requests[i].at \in Nat
      BY RequestTimes DEF WindowInv
    <3>2. engine # "serving"
      BY <1>0, <2>1, <2>2, <3>1
    <3> QED
      BY <2>1, <2>2, <3>2 DEF WindowInv
  <2>3. brokenAt' \in Nat
    BY <1>0, <2>1 DEF WindowInv
  <2> QED
    BY <2>1, <2>2, <2>3 DEF WindowInv
<1>7. CASE \/ AutomaticRestart
           \/ \E how \in {"failed", "inactive"} : UnitEnds(how)
           \/ OperatorStarts
  <2>1. /\ clock' = clock /\ requests' = <<>> /\ samples' = <<>> /\ pc' = "idle"
        /\ brokenAt' = 0
    BY <1>7 DEF AutomaticRestart, ServerRestarts, UnitEnds, OperatorStarts, CounterReset, Started,
                Happens, vars, tick
  <2> QED
    BY <1>0, <2>1 DEF WindowInv
<1> QED
  BY <1>1, <1>2, <1>3, <1>4, <1>5, <1>6, <1>7 DEF SystemNext

\* At any time the deque of outcomes is the latest maxlen requests of the running
\* server process, and a snapshot's rules hold of it.
THEOREM WindowInvariance == SystemSpec => [](SystemInv /\ WindowInv)
<1>1. SystemInit => WindowInv
  BY MonitoringAssumption, Constants DEF MonitoringAssumption, SystemInit, Init, WindowInv
<1> QED
  BY <1>1, WindowStep, SystemInvariance, PTL DEF SystemSpec

\* The number of integers in an interval.
LEMMA IntervalSize ==
    ASSUME NEW a \in Int, NEW b \in Int, a <= b
    PROVE  IsFiniteSet(a .. b) /\ Cardinality(a .. b) = (b - a) + 1
<1>1. IsFiniteSet(a .. b) /\ Cardinality(a .. b) = IF a > b THEN 0 ELSE (b - a) + 1
  BY FS_Interval
<1> QED
  BY <1>1

\* What counts() counts is finite.
LEMMA CountsAreFinite ==
    ASSUME NEW s \in Seq(Sample), NEW T \in SUBSET DOMAIN s
    PROVE  IsFiniteSet(T) /\ Cardinality(T) \in Nat
<1>1. DOMAIN s = 1 .. Len(s) /\ Len(s) \in Nat
  OBVIOUS
<1>2. IsFiniteSet(DOMAIN s)
  BY <1>1, FS_Interval
<1>3. IsFiniteSet(T)
  BY <1>2, FS_Subset
<1> QED
  BY <1>3, FS_CardinalityType

\* A rule on outcomes holds only if there is a timeout in the window.
LEMMA OverHasTimeout ==
    ASSUME NEW s \in Seq(Sample), Over(s) # {}
    PROVE  \E i \in DOMAIN s : InWindow(s[i]) /\ s[i].outcome = "timeout"
<1> DEFINE T == {i \in DOMAIN s : InWindow(s[i]) /\ s[i].outcome = "timeout"}
<1>1. Stalled(s) \/ TimeoutRateHigh(s)
  BY DEF Over
<1>2. Count(s, "timeout") # 0
  <2>1. Total(s) \in Nat /\ Count(s, "timeout") \in Nat
    BY CountsAreFinite DEF Total, Count
  <2>2. \A a, b \in Nat : a * b >= 0
    OBVIOUS
  <2>3. RatePercent * Total(s) >= 0
    BY <2>1, <2>2, Parameters
  <2> QED
    BY <1>1, <2>1, <2>3, Parameters DEF Stalled, TimeoutRateHigh
<1>3. T # {}
  BY <1>2, FS_EmptySet DEF Count
<1> QED
  BY <1>3

\* An alert on outcomes is sent only while a timeout is in the window.
THEOREM RecentAlerts == SystemSpec => []MetricAlertsAreRecent
<1>1. SystemInv /\ WindowInv => MetricAlertsAreRecent
  <2> SUFFICES ASSUME SystemInv, WindowInv, NEW r \in MetricRules, EventFor(r, "fire")
               PROVE  \E j \in DOMAIN requests :
                          requests[j].outcome = "timeout" /\ requests[j].at >= now - Window
    BY DEF MetricAlertsAreRecent
  <2>1. r \in Rules /\ r \in {"model_stalled", "timeout_rate"}
    BY Parameters DEF MetricRules
  <2>2. Evaluated /\ Holds(r, snap, Delta)
    BY <2>1, FireIsDue DEF SystemInv, FiresNow, Fires
  <2>3. r \in snap.over
    BY <2>1, <2>2 DEF Holds
  <2>4. pc # "idle" /\ clock = now
    BY <2>2 DEF Evaluated, SystemInv
  <2>5. r \in Over(Known(models)) /\ models \in {None, samples}
    BY <2>3, <2>4 DEF WindowInv
  <2>6. Known(models) = samples
    <3>1. Over(<<>>) = {}
      BY EmptyWindow DEF Over
    <3> QED
      BY <2>5, <3>1 DEF Known
  <2>7. samples \in Seq(Sample) /\ requests \in Seq(Sample)
    BY DEF WindowInv
  <2>8. PICK i \in DOMAIN samples : InWindow(samples[i]) /\ samples[i].outcome = "timeout"
    BY <2>5, <2>6, <2>7, OverHasTimeout
  <2>9. /\ i \in 1 .. Len(samples) /\ i + (Len(requests) - Len(samples)) \in 1 .. Len(requests)
        /\ samples[i] = requests[i + (Len(requests) - Len(samples))]
    <3>1. /\ Len(samples) = IF Len(requests) < MaxLen THEN Len(requests) ELSE MaxLen
          /\ \A k \in 1 .. Len(samples) : samples[k] = requests[k + (Len(requests) - Len(samples))]
      BY DEF WindowInv
    <3>2. i \in 1 .. Len(samples) /\ MaxLen \in Nat
      BY <2>7, MonitoringAssumption DEF MonitoringAssumption
    <3>3. Len(requests) \in Nat /\ Len(samples) \in Nat /\ Len(samples) <= Len(requests)
      BY <2>7, <3>1, <3>2
    <3>4. i + (Len(requests) - Len(samples)) \in 1 .. Len(requests)
      BY <3>2, <3>3
    <3> QED
      BY <3>1, <3>2, <3>4
  <2> QED
    BY <2>4, <2>7, <2>8, <2>9 DEF InWindow
<1> QED
  BY <1>1, WindowInvariance, PTL

\* An engine that has not served for a window in which enough requests came is
\* seen as stalled, whatever maxlen (of at least stalled_min_samples) dropped.
THEOREM HungEngines == SystemSpec => []HungIsSeen
<1>1. SystemInv /\ WindowInv => HungIsSeen
  <2> DEFINE n == Len(requests)
             m == Len(samples)
             Late == {i \in DOMAIN requests : requests[i].at >= now - Window}
             first == (n - StalledMin) + 1
  <2> SUFFICES ASSUME SystemInv, WindowInv, pc = "collected", models # None,
                      engine # "serving", now - brokenAt > Window,
                      Cardinality(Late) >= StalledMin,
                      \A i \in Late : requests[i].outcome # "error",
                      "model_stalled" \in Rules
               PROVE  "model_stalled" \in snap.over
    BY DEF HungIsSeen
  <2>1. /\ requests \in Seq(Sample) /\ samples \in Seq(Sample)
        /\ n \in Nat /\ m \in Nat /\ now \in Nat /\ clock = now
        /\ StalledMin \in Nat /\ 0 < StalledMin /\ StalledMin <= MaxLen /\ MaxLen \in Nat
        /\ Window \in Nat
        /\ m = IF n < MaxLen THEN n ELSE MaxLen
    BY MonitoringAssumption DEF MonitoringAssumption, WindowInv, SystemInv, IInv, TypeOK
  <2>2. /\ \A i \in 1 .. n : requests[i].at \in Nat
        /\ \A i, j \in 1 .. n : i <= j => requests[i].at <= requests[j].at
        /\ \A i \in 1 .. n : requests[i].at > brokenAt => requests[i].outcome # "ok"
        /\ \A i \in 1 .. n : requests[i].outcome \in Outcomes
        /\ \A i \in 1 .. m : samples[i] = requests[i + (n - m)]
        /\ brokenAt \in Nat
    BY RequestTimes DEF WindowInv
  <2>3. n >= StalledMin
    <3> SUFFICES ASSUME n < StalledMin PROVE FALSE
      BY <2>1
    <3>1. Late \subseteq 1 .. n /\ Cardinality(Late) \in Nat
      BY <2>1, CountsAreFinite
    <3>2. CASE n = 0
      BY <2>1, <3>1, <3>2, FS_EmptySet
    <3>3. CASE 1 <= n
      <4>0. 1 \in Int /\ n \in Int /\ (n - 1) + 1 = n
        BY <2>1
      <4>1. IsFiniteSet(1 .. n) /\ Cardinality(1 .. n) = n
        BY <3>3, <4>0, IntervalSize
      <4>2. Cardinality(Late) <= n
        BY <3>1, <4>1, FS_Subset
      <4> QED
        BY <2>1, <3>1, <4>2
    <3> QED
      BY <2>1, <3>2, <3>3
  <2>4. first \in 1 .. n /\ requests[first].at >= now - Window
    <3>1. first \in 1 .. n
      BY <2>1, <2>3
    <3>2. SUFFICES ASSUME requests[first].at < now - Window PROVE FALSE
      BY <2>1, <2>2, <3>1
    <3>3. Late \subseteq first + 1 .. n
      <4> SUFFICES ASSUME NEW i \in Late, i <= first PROVE FALSE
        BY <2>1, <3>1
      <4>1. requests[i].at <= requests[first].at
        BY <2>1, <2>2, <3>1
      <4> QED
        BY <2>1, <2>2, <3>1, <3>2, <4>1
    <3>4. CASE StalledMin = 1
      <4>1. Late = {}
        BY <2>1, <3>3, <3>4
      <4>2. Cardinality(Late) = 0
        BY <4>1, FS_EmptySet
      <4> QED
        BY <2>1, <4>2
    <3>5. CASE StalledMin # 1
      <4>1. /\ first + 1 \in Int /\ n \in Int /\ first + 1 <= n
            /\ (n - (first + 1)) + 1 = StalledMin - 1
        BY <2>1, <3>5
      <4>2. IsFiniteSet(first + 1 .. n) /\ Cardinality(first + 1 .. n) = StalledMin - 1
        BY <4>1, IntervalSize
      <4>3. Cardinality(Late) <= StalledMin - 1
        BY <3>3, <4>2, FS_Subset
      <4>4. Cardinality(Late) \in Nat
        BY <2>1, CountsAreFinite
      <4> QED
        BY <2>1, <4>3, <4>4
    <3> QED
      BY <3>4, <3>5
  <2>5. ASSUME NEW i \in 1 .. m
        PROVE  /\ i + (n - m) \in 1 .. n /\ samples[i] = requests[i + (n - m)]
               /\ InWindow(samples[i]) => samples[i].outcome = "timeout"
               /\ first <= i + (n - m) => InWindow(samples[i])
    <3>1. i + (n - m) \in 1 .. n
      BY <2>1
    <3>2. samples[i] = requests[i + (n - m)]
      BY <2>2
    <3>3. samples[i].at \in Nat /\ brokenAt \in Nat
      BY <2>2, <3>1, <3>2
    <3>4. samples[i].at > brokenAt /\ samples[i].at >= now - Window
          => samples[i].outcome = "timeout"
      <4>1. samples[i].at >= now - Window => samples[i].outcome # "error"
        <5>0. DOMAIN requests = 1 .. n
          BY <2>1
        <5>1. i + (n - m) \in DOMAIN requests
          BY <3>1, <5>0
        <5>2. samples[i].at >= now - Window => i + (n - m) \in Late
          BY <3>2, <5>1
        <5> QED
          BY <3>2, <5>2
      <4> QED
        BY <2>2, <3>1, <3>2, <4>1 DEF Outcomes
    <3>5. first <= i + (n - m) => requests[first].at <= samples[i].at
      BY <2>2, <2>4, <3>1, <3>2
    <3>6. InWindow(samples[i]) => samples[i].outcome = "timeout"
      BY <2>1, <3>3, <3>4 DEF InWindow
    <3>7. first <= i + (n - m) => InWindow(samples[i])
      BY <2>1, <2>2, <2>4, <3>3, <3>5 DEF InWindow
    <3> QED
      BY <3>1, <3>2, <3>6, <3>7
  <2>6. DOMAIN samples = 1 .. m /\ StalledMin <= m
    BY <2>1, <2>3
  <2>7. Count(samples, "ok") = 0
    <3>1. {i \in DOMAIN samples : InWindow(samples[i]) /\ samples[i].outcome = "ok"} = {}
      BY <2>5, <2>6
    <3> QED
      BY <3>1, FS_EmptySet DEF Count
  <2>8. /\ Total(samples) >= StalledMin
        /\ Count(samples, "timeout") >= StalledMin
    <3> DEFINE Last == (m - StalledMin) + 1 .. m
               T == {i \in DOMAIN samples : InWindow(samples[i])}
               C == {i \in DOMAIN samples : InWindow(samples[i]) /\ samples[i].outcome = "timeout"}
    <3>1. (m - StalledMin) + 1 \in Int /\ m \in Int /\ (m - StalledMin) + 1 <= m
          /\ (m - ((m - StalledMin) + 1)) + 1 = StalledMin
      BY <2>1
    <3>2. Cardinality(Last) = StalledMin
      BY <3>1, IntervalSize
    <3>3. Last \subseteq C /\ C \subseteq T
      <4>0. /\ m \in Int /\ n \in Int /\ StalledMin \in Int /\ 0 < StalledMin
            /\ StalledMin <= m
        BY <2>1, <2>6
      <4>1. ASSUME NEW i \in Last PROVE i \in 1 .. m /\ first <= i + (n - m)
        <5>1. i \in Int /\ (m - StalledMin) + 1 <= i /\ i <= m
          BY <4>0
        <5> QED
          BY <4>0, <5>1
      <4>2. ASSUME NEW i \in Last PROVE i \in C
        BY <2>5, <2>6, <4>1
      <4> QED
        BY <4>2
    <3>4. IsFiniteSet(T) /\ IsFiniteSet(C) /\ Cardinality(T) \in Nat /\ Cardinality(C) \in Nat
      BY <2>1, CountsAreFinite
    <3>5. Cardinality(Last) <= Cardinality(C) /\ Cardinality(Last) <= Cardinality(T)
      BY <3>3, <3>4, FS_Subset
    <3> QED
      BY <2>1, <3>2, <3>4, <3>5 DEF Total, Count
  <2>9. Stalled(samples)
    BY <2>7, <2>8 DEF Stalled
  <2>10. "model_stalled" \in MetricRules
    BY DEF MetricRules, StatusRules
  <2>11. snap.over = Over(samples)
    BY DEF WindowInv, Known
  <2> QED
    BY <2>9, <2>10, <2>11 DEF Over
<1> QED
  BY <1>1, WindowInvariance, PTL

-----------------------------------------------------------------------------
\* The types that none of the invariants above states.
OtherTypes ==
    /\ engine \in {"serving", "hung", "dead"}
    /\ happened \in 0 .. MaxEvents
    /\ pc = "idle" => answer = None /\ models = None

\* Every step keeps the remaining types.
LEMMA OtherTypesStep == SystemInv /\ OtherTypes /\ [SystemNext]_<<vars, system>> => OtherTypes'
<1> SUFFICES ASSUME SystemInv, OtherTypes, [SystemNext]_<<vars, system>>
             PROVE  OtherTypes'
  OBVIOUS
<1>0. MaxEvents \in Nat
  BY MonitoringAssumption DEF MonitoringAssumption
<1>1. CASE Minute \/ UNCHANGED <<vars, system>>
  BY <1>1 DEF Minute, OtherTypes, vars, tick, system, server
<1>2. CASE TickCollects \/ TickGoesOn
  <2>1. pc' # "idle" /\ engine' = engine /\ happened' = happened
    BY <1>2 DEF TickCollects, Collect, TickGoesOn, SkipInactive, Evaluate, Send, SendRaises, AllSent, Ping,
                PlaceAfterException, system, server
  <2> QED
    BY <2>1 DEF OtherTypes
<1>3. CASE TickCompletes \/ TickDies
  BY <1>3 DEF TickCompletes, TickDies, server, OtherTypes
<1>4. CASE \/ \E outcome \in Outcomes : AnswerRequest(outcome)
           \/ \E how \in {"hung", "dead"} : EngineFails(how)
           \/ AutomaticRestart
           \/ \E how \in {"failed", "inactive"} : UnitEnds(how)
           \/ OperatorStarts
  <2>1. pc = "idle" /\ happened < MaxEvents /\ happened' = happened + 1 /\ models' = models /\ answer' = answer
    BY <1>4 DEF AnswerRequest, EngineFails, AutomaticRestart, UnitEnds, OperatorStarts, Happens
  <2>2. engine' \in {engine, "serving", "hung", "dead"}
    BY <1>4 DEF AnswerRequest, EngineFails, AutomaticRestart, UnitEnds, OperatorStarts, Started
  <2> QED
    BY <1>0, <2>1, <2>2 DEF OtherTypes
<1> QED
  BY <1>1, <1>2, <1>3, <1>4 DEF SystemNext

\* The variables of the monitored server keep their types: the deque never
\* exceeds maxlen, and no tick starts later than MaxGap.
THEOREM SystemTypes == SystemSpec => []SystemTypeOK
<1>1. SystemInit => OtherTypes /\ CrashInv /\ AnnouncedInv
  BY MonitoringAssumption, Parameters, Constants
     DEF MonitoringAssumption, SystemInit, Init, Fresh, OtherTypes, CrashInv, AnnouncedInv,
         WorkerDead
<1>2. SystemInv /\ WindowInv /\ OtherTypes /\ CrashInv /\ AnnouncedInv => SystemTypeOK
  <2> SUFFICES ASSUME SystemInv, WindowInv, OtherTypes, CrashInv, AnnouncedInv
               PROVE  SystemTypeOK
    OBVIOUS
  <2>1. Len(samples) <= MaxLen
    BY MonitoringAssumption DEF MonitoringAssumption, WindowInv
  <2>2. models \in Seq(Sample) \cup {None}
    BY DEF WindowInv, OtherTypes
  <2>3. clock \in now .. now + MaxGap
    BY Constants DEF SystemInv, IInv, TypeOK
  <2>4. answer \in {None, "none", "unreadable", "report"}
    BY DEF SystemInv, OtherTypes, HealthAnswers
  <2> QED
    BY <2>1, <2>2, <2>3, <2>4
       DEF SystemTypeOK, SystemInv, IInv, WindowInv, OtherTypes, CrashInv, AnnouncedInv
<1> QED
  BY <1>1, <1>2, CrashStep, AnnouncedStep, OtherTypesStep, WindowInvariance, SystemInvariance, PTL
     DEF SystemSpec

=============================================================================
