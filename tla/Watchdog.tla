------------------------------ MODULE Watchdog ------------------------------
(***************************************************************************)
(* monitoring/watchdog.py, state.py and the deadman part of collect.py and *)
(* notify.py: the check that a systemd timer starts once a minute as a new *)
(* process, which remembers nothing but what is in its state file.         *)
(*                                                                         *)
(* A tick collects a snapshot, loads the file, evaluates the alert rules,  *)
(* sends the resulting events one by one, pings the deadman switch and     *)
(* saves.  It can be killed between any two of these (power, reboot,       *)
(* TimeoutStartSec=60), and the save itself can fail; ticks can be late or *)
(* missing.  Two ticks never overlap: the unit is a oneshot.               *)
(*                                                                         *)
(* Time is counted in ticks of a minute, from an Epoch that is far enough  *)
(* from 0 for the initial last_notified = 0.0 to mean "never".  What a     *)
(* snapshot says is chosen anew in every tick, within what collect.py can  *)
(* produce; a rule on metrics is reduced to whether it holds, and may      *)
(* raise.  dispatch() may raise as well: a webhook URL that is not a URL   *)
(* raises in the constructor of the request, outside its `try'.            *)
(*                                                                         *)
(* Variables of the last group are observers: they record what happened    *)
(* and are read by properties only.                                        *)
(***************************************************************************)
EXTENDS Integers

CONSTANTS
    Rules,        \* the rules of the instance, some or all of build_rules(cfg)
    For,          \* [rule -> for_seconds, in ticks]
    RepeatTicks,  \* [severity -> REPEAT_SECONDS, in ticks]
    None,
    Epoch,        \* time of the installation
    MaxTime,      \* bound on time
    MaxGap,       \* bound on the time between two ticks
    MaxRestarts   \* bound on automatic restarts of the server

\* The names of build_rules(cfg), in the order of evaluation.
BuildOrder ==
    <<"server_unreachable", "worker_dead", "service_failed", "crash_loop",
      "model_stalled", "timeout_rate", "gate_wait", "judge_latency", "vram",
      "gpu_temp", "cgroup_memory", "restart_detected", "disk_free">>

Place == [r \in Rules |-> CHOOSE i \in DOMAIN BuildOrder : BuildOrder[i] = r]
Before(q, r) == Place[q] < Place[r]

Severity(r) ==
    IF r \in {"server_unreachable", "worker_dead", "service_failed", "crash_loop"} THEN "P1"
    ELSE IF r \in {"restart_detected", "disk_free"} THEN "P3"
    ELSE "P2"

Repeat == [r \in Rules |-> RepeatTicks[Severity(r)]]

\* Rules on what /health and systemd say, on the metrics of /status, and on
\* the memory and the disk of the host.
ServiceRules == {"server_unreachable", "worker_dead", "service_failed",
                 "crash_loop", "restart_detected"}
StatusRules == {"model_stalled", "timeout_rate", "gate_wait", "judge_latency",
                "vram", "gpu_temp"}
HostRules == {"cgroup_memory", "disk_free"}
MetricRules == Rules \cap (StatusRules \cup HostRules)

\* An entry of state.alerts.
Record == [since : Nat, last : Nat, notified : BOOLEAN]

ASSUME WatchdogAssumption ==
    /\ Rules \subseteq ServiceRules \cup StatusRules \cup HostRules
    /\ For \in [Rules -> Nat]
    /\ RepeatTicks \in [{"P1", "P2", "P3"} -> Nat \ {0}]
    /\ Epoch \in Nat /\ \A p \in {"P1", "P2", "P3"} : RepeatTicks[p] <= Epoch
    /\ MaxTime \in Nat /\ MaxGap \in Nat \ {0} /\ MaxRestarts \in Nat
    /\ None \notin Rules \cup Nat \cup Record \cup {"active", "inactive", "failed"}

VARIABLES
    now,        \* the clock; snap.now of a tick is its value at the start
    nRestarts,  \* NRestarts of the server's unit
    file,       \* state.json: [alerts, restarts]
    pc,         \* where the tick is, "idle" between ticks
    snap,       \* the snapshot of the tick
    state,      \* WatchdogState of the tick
    events,     \* events not sent yet, at most one of each rule, in BuildOrder
    \* observers
    trueSince,  \* [Rules -> first of the completed ticks in a row whose snapshots
                \*           satisfied its condition, or None]
    firedAt,    \* [Rules -> completed tick that last sent its alert, or None; None
                \*           again when a tick finds that it holds no longer]
    sent,       \* events sent in this tick
    announced,  \* rules whose last message was an alert, sent by whatever tick
    pinged,     \* the deadman ping of this tick: "none", "ok" or "fail"
    doneAt,     \* the last completed tick
    raised,     \* what has raised in some tick: a "rule" or "dispatch"
    unsaved,    \* a tick that had sent something has ended without a save
    restarts,   \* automatic restarts that took place
    told        \* restarts that completed ticks saw

tick == <<pc, snap, state, events>>
observers == <<trueSince, firedAt, sent, announced, pinged, doneAt, raised, unsaved,
               restarts, told>>
vars == <<now, nRestarts, file, tick, observers>>

Fresh == [alerts |-> [r \in Rules |-> None], restarts |-> None]
Events == [rule : Rules, kind : {"fire", "resolve"}]
States == [alerts : [Rules -> Record \cup {None}], restarts : Nat \cup {None}]

(***************************************************************************)
(* Snapshots: status is the one of /health, 503 standing for every other   *)
(* than 200, and dead says that dead_models is not empty; unit and         *)
(* restarts are None when systemctl failed or did not tell, and unit is    *)
(* "active" for any state of it that no rule asks for; over are the metric *)
(* rules that hold, none on /status if that was not asked; raising is the  *)
(* first rule that raises, if one does.  The parts are collected one after *)
(* the other while the server lives on, so they need not agree.            *)
(***************************************************************************)
Snapshots(n) ==
    {s \in [reachable : BOOLEAN,
            status    : {200, 503, None},
            dead      : BOOLEAN,
            unit      : {"active", "inactive", "failed", None},
            restarts  : {n, None},
            over      : SUBSET MetricRules,
            raising   : MetricRules \cup {None}] :
        /\ s.reachable <=> s.status # None
        /\ ~s.reachable => ~s.dead /\ s.over \cap StatusRules = {}
        /\ s.unit = None => s.restarts = None /\ "cgroup_memory" \notin s.over
        /\ s.raising \notin s.over}

TypeOK ==
    /\ now \in Nat /\ nRestarts \in Nat
    /\ file \in States
    /\ pc \in {"idle", "collected", "dispatching", "deadman", "saving"}
    /\ IF pc = "idle" THEN snap = None ELSE snap \in Snapshots(nRestarts)
    /\ state \in States
    /\ events \subseteq Events
    /\ trueSince \in [Rules -> Nat \cup {None}]
    /\ firedAt \in [Rules -> Nat \cup {None}]
    /\ sent \subseteq Events /\ announced \subseteq Rules
    /\ pinged \in {"none", "ok", "fail"}
    /\ raised \subseteq {"rule", "dispatch"} /\ unsaved \in BOOLEAN
    /\ {doneAt, restarts, told} \subseteq Nat

Init ==
    /\ now = Epoch
    /\ nRestarts \in 0..1
    /\ file = Fresh
    /\ pc = "idle" /\ snap = None /\ state = Fresh /\ events = {}
    /\ trueSince = [r \in Rules |-> None]
    /\ firedAt = [r \in Rules |-> None]
    /\ sent = {} /\ announced = {}
    /\ pinged = "none"
    /\ doneAt = 0
    /\ raised = {} /\ unsaved = FALSE
    /\ restarts = 0
    /\ told = 0

-----------------------------------------------------------------------------
\* Mutants: the difference may be negative; on the first run every restart
\* counts.
RestartsDeltaSigned(s, old) ==
    IF s.restarts = None \/ old = None THEN 0 ELSE s.restarts - old

RestartsDeltaFromZero(s, old) ==
    IF s.restarts = None THEN 0
    ELSE IF old = None THEN s.restarts
    ELSE IF s.restarts > old THEN s.restarts - old ELSE 0

\* snap.restarts_delta; None and 0 make no difference to the rules.
RestartsDelta(s, old) ==
    IF s.restarts = None \/ old = None THEN 0
    ELSE IF s.restarts > old THEN s.restarts - old ELSE 0

\* rule.evaluate(snap, cfg) is not None
Holds(r, s, delta) ==
    \/ r = "server_unreachable" /\ ~s.reachable
    \/ r = "worker_dead" /\ s.dead
    \/ r = "service_failed" /\ s.unit = "failed"
    \/ r = "crash_loop" /\ delta >= 2
    \/ r = "restart_detected" /\ delta = 1
    \/ r \in s.over

\* The rules that evaluate() gets to before one raises.
Reached(s) == {r \in Rules : s.raising = None \/ Before(r, s.raising)}

\* Mutant: an alert is sent once only.
DueOnce(r, rec) == now - rec.since >= For[r] /\ ~rec.notified

\* Long enough, and not announced too recently.
Due(r, rec) == now - rec.since >= For[r] /\ now - rec.last >= Repeat[r]

\* Mutant: the record stays when the condition clears before the alert was sent.
KeepsUnsent(rec) == IF rec # None /\ ~rec.notified THEN rec ELSE None

Cleared(rec) == None

Opened(rec) ==
    IF rec = None THEN [since |-> now, last |-> 0, notified |-> FALSE] ELSE rec

\* Mutant: the time of the alert is not stored.
MarkedWithoutTime(rec) == [rec EXCEPT !.notified = TRUE]

Marked(rec) == [rec EXCEPT !.last = now, !.notified = TRUE]

\* Mutant: a resolve for every record that goes.
ResolveAny(rec) == rec # None

Resolves(rec) == rec # None /\ rec.notified

Fires(r, rec, holds) == holds /\ Due(r, Opened(rec))
Ends(rec, holds) == ~holds /\ Resolves(rec)

\* One turn of the loop of evaluate(): the record after it.
RecordAfter(r, rec, holds) ==
    IF ~holds THEN Cleared(rec)
    ELSE IF Fires(r, rec, holds) THEN Marked(Opened(rec))
    ELSE Opened(rec)

\* A whole evaluation: the records after it, and the events.
AlertsAfter(alerts, s, delta) ==
    [r \in Rules |-> IF r \in Reached(s)
                     THEN RecordAfter(r, alerts[r], Holds(r, s, delta)) ELSE alerts[r]]

EventsOf(alerts, s, delta) ==
    {e \in Events :
        LET holds == Holds(e.rule, s, delta)
        IN  IF e.kind = "fire" THEN Fires(e.rule, alerts[e.rule], holds)
            ELSE Ends(alerts[e.rule], holds)}

-----------------------------------------------------------------------------
\* The timer starts the next tick, a new process, which collects a snapshot.
Collect ==
    /\ pc = "idle"
    /\ pc' = "collected"
    /\ UNCHANGED <<nRestarts, file, state, events, observers>>

StartTick ==
    /\ \E gap \in 1..MaxGap : now + gap <= MaxTime /\ now' = now + gap
    /\ snap' \in Snapshots(nRestarts)
    /\ Collect

\* main() with the unit stopped on purpose: no alert and no ping.
SkipInactive ==
    /\ pc = "collected"
    /\ snap.unit = "inactive"
    /\ state' = [alerts |-> Fresh.alerts, restarts |-> snap.restarts]
    /\ pc' = "saving"
    /\ UNCHANGED <<now, nRestarts, file, snap, events, observers>>

\* Mutant: the ping is inside the `try`.
PlaceAfterRaise == "saving"

\* `except Exception` of main(): the events are lost, the ping is not.
PlaceAfterException == "deadman"

\* load() and evaluate().  When a rule raises, the records of the rules before
\* it have been updated but their events are never returned.
Evaluate ==
    /\ pc = "collected"
    /\ snap.unit # "inactive"
    /\ LET delta == RestartsDelta(snap, file.restarts) IN
          /\ state' = [alerts |-> AlertsAfter(file.alerts, snap, delta),
                       restarts |-> snap.restarts]
          /\ IF snap.raising = None
             THEN /\ events' = EventsOf(file.alerts, snap, delta)
                  /\ pc' = "dispatching"
             ELSE /\ pc' = PlaceAfterException
                  /\ UNCHANGED events
    /\ raised' = IF snap.raising = None THEN raised ELSE raised \cup {"rule"}
    /\ UNCHANGED <<now, nRestarts, file, snap, trueSince, firedAt, sent, announced,
                   pinged, doneAt, unsaved, restarts, told>>

\* dispatch() sends one event.  A failure that send_slack() reports is logged, and
\* no more.
Send ==
    /\ pc = "dispatching"
    /\ \E e \in events :
          /\ \A f \in events : ~Before(f.rule, e.rule)
          /\ events' = events \ {e}
          /\ sent' = sent \cup {e}
          /\ announced' = IF e.kind = "fire" THEN announced \cup {e.rule}
                          ELSE announced \ {e.rule}
    /\ UNCHANGED <<now, nRestarts, file, pc, snap, state, trueSince, firedAt, pinged,
                   doneAt, raised, unsaved, restarts, told>>

\* dispatch() raises on an event: this one and those after it are lost.
SendRaises ==
    /\ pc = "dispatching"
    /\ events # {}
    /\ events' = {}
    /\ pc' = PlaceAfterException
    /\ raised' = raised \cup {"dispatch"}
    /\ UNCHANGED <<now, nRestarts, file, snap, state, trueSince, firedAt, sent,
                   announced, pinged, doneAt, unsaved, restarts, told>>

AllSent ==
    /\ pc = "dispatching"
    /\ events = {}
    /\ pc' = "deadman"
    /\ UNCHANGED <<now, nRestarts, file, snap, state, events, observers>>

\* Mutant: the status of /health does not matter.
ReachableAndNoneDead(s) == s.reachable /\ ~s.dead

\* Snapshot.deadman_ok
DeadmanOk(s) == s.reachable /\ s.status = 200 /\ ~s.dead

\* run_deadman(): a success ping, or a ping to /fail; it may get lost.
Ping ==
    /\ pc = "deadman"
    /\ pc' = "saving"
    /\ pinged' = IF DeadmanOk(snap) THEN "ok" ELSE "fail"
    /\ UNCHANGED <<now, nRestarts, file, snap, state, events, trueSince, firedAt,
                   sent, announced, doneAt, raised, unsaved, restarts, told>>

SentFire(r) == [rule |-> r, kind |-> "fire"] \in sent

\* What the completed tick means to an observer who knows its snapshot, the
\* rules that were not reached included.
Observe ==
    LET delta == RestartsDelta(snap, file.restarts)
        stopped == snap.unit = "inactive"
        holds(r) == Holds(r, snap, delta)
    IN  /\ trueSince' = [r \in Rules |->
              IF stopped \/ ~holds(r) THEN None
              ELSE IF trueSince[r] = None THEN now ELSE trueSince[r]]
        /\ firedAt' = [r \in Rules |->
              IF stopped \/ (r \in Reached(snap) /\ ~holds(r)) THEN None
              ELSE IF SentFire(r) THEN now ELSE firedAt[r]]
        /\ announced' = IF stopped THEN {} ELSE announced
        /\ told' = told + delta
        /\ doneAt' = now

\* state.save(): the file is replaced as a whole.
Save ==
    /\ pc = "saving"
    /\ file' = state
    /\ pc' = "idle" /\ snap' = None /\ state' = Fresh /\ events' = {}
    /\ Observe
    /\ sent' = {} /\ pinged' = "none"
    /\ UNCHANGED <<now, nRestarts, raised, unsaved, restarts>>

\* The process is killed, run_deadman() raises, or the save fails: the old file
\* stays.
Dies ==
    /\ pc # "idle"
    /\ pc' = "idle" /\ snap' = None /\ state' = Fresh /\ events' = {}
    /\ sent' = {} /\ pinged' = "none"
    /\ unsaved' = (unsaved \/ sent # {})
    /\ UNCHANGED <<now, nRestarts, file, trueSince, firedAt, announced, doneAt, raised,
                   restarts, told>>

\* systemd (external) restarts the server by itself.
ServerRestarts ==
    /\ pc = "idle"
    /\ restarts < MaxRestarts
    /\ restarts' = restarts + 1
    /\ nRestarts' = nRestarts + 1
    /\ UNCHANGED <<now, file, tick, trueSince, firedAt, sent, announced, pinged, doneAt,
                   raised, unsaved, told>>

\* The counter starts again, as after a manual start of the unit.
CounterReset ==
    /\ pc = "idle"
    /\ nRestarts > 0
    /\ nRestarts' = 0
    /\ UNCHANGED <<now, file, tick, observers>>

Next ==
    \/ StartTick
    \/ SkipInactive
    \/ Evaluate
    \/ Send
    \/ SendRaises
    \/ AllSent
    \/ Ping
    \/ Save
    \/ Dies
    \/ ServerRestarts
    \/ CounterReset

Spec == Init /\ [][Next]_vars

-----------------------------------------------------------------------------
EventFor(r, kind) == [rule |-> r, kind |-> kind] \in events

\* An alert goes out only if the snapshot of every completed tick of the last
\* For[r] minutes satisfied its condition, across all the processes and kills in
\* between (rules.py:6-8, watchdog.py:59-61), as long as no rule has raised: a tick
\* that does not get to a rule leaves its record alone, whatever the condition is.
FireIsSustained ==
    "rule" \notin raised =>
        \A r \in Rules : For[r] > 0 /\ EventFor(r, "fire") =>
            trueSince[r] # None /\ now - trueSince[r] >= For[r]

\* While a condition lasts, its alert is repeated no sooner than Repeat[r]
\* after a tick that sent it and completed (rules.py:27-30, watchdog.py:63-65).
RepeatsAreSpaced ==
    \A r \in Rules : EventFor(r, "fire") /\ firedAt[r] # None =>
        now - firedAt[r] >= Repeat[r]

\* Nothing is forgotten: after a completed tick, a condition that has lasted
\* long enough has been announced within the last Repeat[r], as long as nothing
\* has raised (watchdog.py:44-69).
NoMissedAlert ==
    pc = "idle" /\ raised = {} =>
        \A r \in Rules : trueSince[r] # None /\ doneAt - trueSince[r] >= For[r] =>
            firedAt[r] # None /\ doneAt - firedAt[r] < Repeat[r]

ResolvesAnnounced ==
    pc = "collected" /\ pc' = "dispatching" /\ raised = {} /\ ~unsaved =>
        \A r \in Rules : EventFor(r, "resolve")' <=>
            /\ r \in announced
            /\ ~Holds(r, snap, RestartsDelta(snap, file.restarts))

\* A tick resolves exactly the alerts that are the last message of their rule and
\* hold no longer: each of them, and once (watchdog.py:48-53, monitoring.md:269),
\* as long as nothing has raised and no tick that had sent something was killed
\* before its save.  After such a tick an alert may never be resolved, and a
\* resolve may be sent again.
ResolvesMatchFires == [][ResolvesAnnounced]_vars

\* Every tick that gets to its end has pinged the deadman switch, unless the
\* server was stopped on purpose; a rule or dispatch() that raises does not
\* prevent it (watchdog.py:164-172).
DeadmanAlwaysRuns ==
    pc = "saving" => pinged # "none" \/ snap.unit = "inactive"

\* Completed ticks never see more restarts than there were, whatever was lost
\* or reset in between (watchdog.py:147-150).
NoRestartInvented == told <= restarts

\* An alert that is suppressed as announced was sent (watchdog.py:63, "이미 알린
\* 건이다").
SuppressedOnlyIfSent ==
    \A r \in Rules : file.alerts[r] # None => (file.alerts[r].notified => firedAt[r] # None)
=============================================================================
