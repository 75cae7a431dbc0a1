--------------------------- MODULE WatchdogProofs ---------------------------
(***************************************************************************)
(* The safety properties of module Watchdog, for every set of rules, every *)
(* duration and repetition period, and ticks that are late, missing,       *)
(* killed or in which an exception is raised, in any number.               *)
(*                                                                         *)
(* The properties compare what a tick does with what happened long before. *)
(* Between the two there is only the state file, so the heart of the       *)
(* inductive invariant, HistoryInv, says how the file's records relate to  *)
(* the history that completed ticks have seen; TickInv carries it through  *)
(* a tick, from the evaluation to the save.                                *)
(***************************************************************************)
EXTENDS Watchdog, TLAPS

\* Abbreviations for a tick: what its evaluation computes, and whether it has.
Delta == RestartsDelta(snap, file.restarts)
FiresNow(r) == Fires(r, file.alerts[r], Holds(r, snap, Delta))
Evaluated == pc \in {"dispatching", "deadman", "saving"} /\ snap.unit # "inactive"

-----------------------------------------------------------------------------
\* The assumption on the constants, as facts to cite.
LEMMA Constants ==
    /\ For \in [Rules -> Nat]
    /\ Repeat \in [Rules -> Nat \ {0}]
    /\ \A r \in Rules : Repeat[r] <= Epoch
    /\ Epoch \in Nat /\ MaxGap \in Nat
    /\ None \notin Rules /\ None \notin Nat /\ None \notin Record
    /\ None \notin {"active", "inactive", "failed"}
<1>1. \A r \in Rules : Severity(r) \in {"P1", "P2", "P3"}
  BY DEF Severity
<1>2. \A r \in Rules : Repeat[r] \in Nat \ {0} /\ Repeat[r] <= Epoch
  BY <1>1, WatchdogAssumption DEF WatchdogAssumption, Repeat
<1>3. Repeat \in [Rules -> Nat \ {0}]
  BY <1>2 DEF Repeat
<1> QED
  BY <1>2, <1>3, WatchdogAssumption DEF WatchdogAssumption

\* The types of the parts of a snapshot.
LEMMA SnapshotTypes ==
    ASSUME NEW n \in Nat, NEW s \in Snapshots(n)
    PROVE  /\ s.restarts \in {n, None}
           /\ s.raising \in MetricRules \cup {None}
           /\ s.restarts \in Nat \cup {None}
BY DEF Snapshots

\* The difference of the restart counters is never negative.
LEMMA DeltaIsNat ==
    ASSUME NEW n \in Nat, NEW s \in Snapshots(n), NEW old \in Nat \cup {None}
    PROVE  RestartsDelta(s, old) \in Nat
BY SnapshotTypes DEF RestartsDelta

\* The loop of evaluate() makes records from records.
LEMMA RecordAfterType ==
    ASSUME now \in Nat, NEW r \in Rules, NEW rec \in Record \cup {None}, NEW holds
    PROVE  RecordAfter(r, rec, holds) \in Record \cup {None}
<1>1. Opened(rec) \in Record
  BY DEF Opened, Record
<1>2. Marked(Opened(rec)) \in Record
  BY <1>1 DEF Marked, Record
<1> QED
  BY <1>1, <1>2 DEF RecordAfter, Cleared

\* A state that was not loaded from a file is a state.
LEMMA FreshType == Fresh \in States
BY DEF Fresh, States

\* Types.
LEMMA TypeInit == Init => TypeOK
<1> SUFFICES ASSUME Init PROVE TypeOK
  OBVIOUS
<1>1. now \in Nat /\ nRestarts \in Nat
  BY Constants DEF Init
<1>2. trueSince \in [Rules -> Nat \cup {None}] /\ firedAt \in [Rules -> Nat \cup {None}]
  BY DEF Init
<1>3. {doneAt, restarts, told} \subseteq Nat
  BY DEF Init
<1> QED
  BY <1>1, <1>2, <1>3, FreshType DEF Init, TypeOK

\* Every step keeps the types.
LEMMA TypeStep == TypeOK /\ [Next]_vars => TypeOK'
<1> SUFFICES ASSUME TypeOK, [Next]_vars PROVE TypeOK'
  OBVIOUS
<1> USE DEF TypeOK
<1>0. Fresh \in States
  BY FreshType
<1>1. CASE StartTick
  <2>1. now' \in Nat
    BY <1>1, Constants DEF StartTick
  <2> QED
    BY <1>1, <2>1 DEF StartTick, Collect, observers
<1>2. CASE SkipInactive
  <2>1. state' \in States
    BY <1>0, <1>2, SnapshotTypes DEF SkipInactive, States, Fresh
  <2> QED
    BY <1>2, <2>1 DEF SkipInactive, observers
<1>3. CASE Evaluate
  <2>1. AlertsAfter(file.alerts, snap, Delta) \in [Rules -> Record \cup {None}]
    BY RecordAfterType DEF AlertsAfter, States
  <2>2. state' = [alerts |-> AlertsAfter(file.alerts, snap, Delta), restarts |-> snap.restarts]
    BY <1>3 DEF Evaluate, Delta
  <2>3. state' \in States
    BY <1>3, <2>1, <2>2, SnapshotTypes DEF Evaluate, States
  <2>4. events' \subseteq Events
    BY <1>3 DEF Evaluate, EventsOf
  <2>5. pc' \in {"dispatching", "deadman"} /\ raised' \subseteq {"rule", "dispatch"}
    BY <1>3 DEF Evaluate, PlaceAfterException
  <2> QED
    BY <1>3, <2>3, <2>4, <2>5 DEF Evaluate
<1>4. CASE Send
  BY <1>4 DEF Send, Events
<1>12. CASE SendRaises
  BY <1>12 DEF SendRaises, PlaceAfterException
<1>5. CASE AllSent
  BY <1>5 DEF AllSent, observers
<1>6. CASE Ping
  BY <1>6 DEF Ping
<1>7. CASE Save
  <2>1. Delta \in Nat
    BY <1>7, DeltaIsNat DEF Save, Delta, States
  <2>2. /\ trueSince' \in [Rules -> Nat \cup {None}]
        /\ firedAt' \in [Rules -> Nat \cup {None}]
        /\ announced' \subseteq Rules
    BY <1>7 DEF Save, Observe
  <2>3. told' \in Nat /\ doneAt' \in Nat
    BY <1>7, <2>1 DEF Save, Observe, Delta
  <2> QED
    BY <1>0, <1>7, <2>2, <2>3 DEF Save
<1>8. CASE Dies
  BY <1>0, <1>8 DEF Dies
<1>9. CASE ServerRestarts
  BY <1>9 DEF ServerRestarts, tick
<1>10. CASE CounterReset
  BY <1>10 DEF CounterReset, tick, observers
<1>11. CASE UNCHANGED vars
  BY <1>11 DEF vars, tick, observers
<1> QED
  BY <1>1, <1>2, <1>3, <1>4, <1>5, <1>6, <1>7, <1>8, <1>9, <1>10, <1>11, <1>12 DEF Next

-----------------------------------------------------------------------------
\* What a tick has computed so far, and what is sent and what is left of its
\* events: all of them, as long as nothing has raised.
TickInv ==
    /\ pc \in {"idle", "collected"} => events = {} /\ sent = {}
    /\ pc \in {"dispatching", "deadman", "saving"} => state.restarts = snap.restarts
    /\ pc \in {"dispatching", "deadman", "saving"} /\ snap.unit = "inactive" =>
           pc = "saving" /\ state.alerts = Fresh.alerts /\ events = {} /\ sent = {}
    /\ Evaluated =>
           /\ state.alerts = AlertsAfter(file.alerts, snap, Delta)
           /\ events \cup sent \subseteq EventsOf(file.alerts, snap, Delta)
           /\ raised = {} => EventsOf(file.alerts, snap, Delta) \subseteq events \cup sent
           /\ snap.raising # None => events = {} /\ sent = {} /\ "rule" \in raised
           /\ pc # "dispatching" => events = {}

\* What an evaluation computes depends on the time, the file and the snapshot only.
LEMMA TickStable ==
    ASSUME now' = now, file' = file, snap' = snap
    PROVE  /\ Delta' = Delta
           /\ \A r : FiresNow(r)' <=> FiresNow(r)
           /\ AlertsAfter(file.alerts, snap, Delta)' = AlertsAfter(file.alerts, snap, Delta)
           /\ EventsOf(file.alerts, snap, Delta)' = EventsOf(file.alerts, snap, Delta)
<1>1. Delta' = Delta
  BY DEF Delta
<1>2. ASSUME NEW r PROVE FiresNow(r)' <=> FiresNow(r)
  BY <1>1 DEF FiresNow, Fires, Due, Opened
<1>3. AlertsAfter(file.alerts, snap, Delta)' = AlertsAfter(file.alerts, snap, Delta)
  BY <1>1 DEF AlertsAfter, RecordAfter, Fires, Due, Opened, Marked
<1>4. EventsOf(file.alerts, snap, Delta)' = EventsOf(file.alerts, snap, Delta)
  BY <1>1 DEF EventsOf, Fires, Due, Opened
<1> QED
  BY <1>1, <1>2, <1>3, <1>4

\* The events of an evaluation are the rules that fire and the records that end.
LEMMA EventMeaning ==
    ASSUME NEW r \in Rules
    PROVE  /\ [rule |-> r, kind |-> "fire"] \in EventsOf(file.alerts, snap, Delta)
                 <=> FiresNow(r)
           /\ [rule |-> r, kind |-> "resolve"] \in EventsOf(file.alerts, snap, Delta)
                 <=> Ends(file.alerts[r], Holds(r, snap, Delta))
BY DEF EventsOf, FiresNow, Events

\* Every step of a tick keeps what is known of it; the steps between ticks do too.
LEMMA TickStep == TypeOK /\ TickInv /\ [Next]_vars => TickInv'
<1> SUFFICES ASSUME TypeOK, TickInv, [Next]_vars PROVE TickInv'
  OBVIOUS
<1>1. CASE StartTick
  BY <1>1 DEF StartTick, Collect, TickInv, Evaluated, observers
<1>2. CASE SkipInactive
  BY <1>2 DEF SkipInactive, TickInv, Evaluated, observers
<1>3. CASE Evaluate
  <2> USE <1>3 DEF Evaluate
  <2>1. now' = now /\ file' = file /\ snap' = snap /\ sent' = {} /\ snap.unit # "inactive"
    BY DEF TickInv
  <2>2. state' = [alerts |-> AlertsAfter(file.alerts, snap, Delta), restarts |-> snap.restarts]
    BY DEF Delta
  <2>3. CASE snap.raising = None
    <3>1. events' = EventsOf(file.alerts, snap, Delta) /\ pc' = "dispatching"
      BY <2>3 DEF Delta
    <3> QED
      BY <2>1, <2>2, <2>3, <3>1, TickStable DEF TickInv, Evaluated
  <2>4. CASE snap.raising # None
    <3>1. events' = {} /\ pc' = "deadman" /\ "rule" \in raised'
      BY <2>4 DEF TickInv, PlaceAfterException
    <3> QED
      BY <2>1, <2>2, <2>4, <3>1, TickStable DEF TickInv, Evaluated
  <2> QED
    BY <2>3, <2>4
<1>4. CASE Send
  <2> USE <1>4 DEF Send
  <2>1. now' = now /\ file' = file /\ snap' = snap /\ state' = state /\ pc' = pc
        /\ raised' = raised /\ pc = "dispatching"
    OBVIOUS
  <2>2. PICK e \in events : events' = events \ {e} /\ sent' = sent \cup {e}
    OBVIOUS
  <2>3. snap.unit # "inactive" /\ Evaluated
    BY <2>1 DEF TickInv, Evaluated
  <2>4. snap.raising = None
    BY <2>2, <2>3 DEF TickInv
  <2>5. events' \cup sent' = events \cup sent
    BY <2>2
  <2> QED
    BY <2>1, <2>3, <2>4, <2>5, TickStable DEF TickInv, Evaluated
<1>12. CASE SendRaises
  <2> USE <1>12 DEF SendRaises, PlaceAfterException
  <2>1. now' = now /\ file' = file /\ snap' = snap /\ state' = state /\ sent' = sent
        /\ pc = "dispatching" /\ pc' = "deadman" /\ events' = {} /\ raised' # {}
    OBVIOUS
  <2>2. snap.unit # "inactive" /\ Evaluated /\ snap.raising = None
    BY DEF TickInv, Evaluated
  <2> QED
    BY <2>1, <2>2, TickStable DEF TickInv, Evaluated
<1>5. CASE AllSent
  BY <1>5, TickStable DEF AllSent, TickInv, Evaluated, observers
<1>6. CASE Ping
  BY <1>6, TickStable DEF Ping, TickInv, Evaluated
<1>7. CASE Save
  BY <1>7 DEF Save, TickInv, Evaluated
<1>8. CASE Dies
  BY <1>8 DEF Dies, TickInv, Evaluated
<1>9. CASE ServerRestarts
  BY <1>9 DEF ServerRestarts, tick, TickInv, Evaluated
<1>10. CASE CounterReset
  BY <1>10 DEF CounterReset, tick, observers, TickInv, Evaluated
<1>11. CASE UNCHANGED vars
  BY <1>11, TickStable DEF vars, tick, observers, TickInv, Evaluated
<1> QED
  BY <1>1, <1>2, <1>3, <1>4, <1>5, <1>6, <1>7, <1>8, <1>9, <1>10, <1>11, <1>12 DEF Next

-----------------------------------------------------------------------------
\* The file knows no more than what completed ticks have seen: a record names the
\* last alert or a later time.
Remembered(r) ==
    /\ trueSince[r] # None => trueSince[r] <= now
    /\ firedAt[r] # None => file.alerts[r] # None /\ firedAt[r] <= file.alerts[r].last

\* As long as no rule has raised, a record began when its condition already held,
\* and the condition has held since.
Sustained(r) ==
    file.alerts[r] # None => trueSince[r] # None /\ trueSince[r] <= file.alerts[r].since

\* As long as nothing has raised, the file knows all that ticks have seen.
Exact(r) ==
    /\ trueSince[r] # None => file.alerts[r] # None /\ file.alerts[r].since = trueSince[r]
    /\ file.alerts[r] # None =>
          /\ IF file.alerts[r].notified THEN firedAt[r] = file.alerts[r].last
             ELSE firedAt[r] = None /\ file.alerts[r].last = 0
          /\ doneAt - file.alerts[r].since >= For[r] =>
                file.alerts[r].notified /\ doneAt - file.alerts[r].last < Repeat[r]

HistoryInv ==
    /\ now >= Epoch
    /\ \A r \in Rules : Remembered(r)
    /\ "rule" \notin raised => \A r \in Rules : Sustained(r)
    /\ raised = {} => \A r \in Rules : Exact(r)

\* Before the first tick there is nothing to remember.
LEMMA HistoryInit == Init => HistoryInv
BY Constants DEF Init, HistoryInv, Remembered, Sustained, Exact, Fresh

\* Between two completed ticks the file and what it is compared with stay.
LEMMA HistoryStable ==
    ASSUME TypeOK, HistoryInv, now' \in Nat, now' >= now, file' = file,
           trueSince' = trueSince, firedAt' = firedAt, doneAt' = doneAt,
           raised \subseteq raised'
    PROVE  HistoryInv'
<1>1. ASSUME NEW r \in Rules PROVE Remembered(r)'
  <2>1. trueSince[r] # None => trueSince[r] \in Nat /\ trueSince[r] <= now
    BY DEF TypeOK, HistoryInv, Remembered
  <2> QED
    BY <2>1 DEF HistoryInv, Remembered, TypeOK
<1>2. raised' = {} => \A r \in Rules : Exact(r)'
  BY DEF HistoryInv, Exact
<1>4. "rule" \notin raised' => \A r \in Rules : Sustained(r)'
  BY DEF HistoryInv, Sustained
<1>3. now' >= Epoch
  BY Constants DEF HistoryInv, TypeOK
<1> QED
  BY <1>1, <1>2, <1>3, <1>4 DEF HistoryInv

\* The save is the step that moves both, the file and the history.
LEMMA HistorySave == TypeOK /\ TickInv /\ HistoryInv /\ Save => HistoryInv'
<1> SUFFICES ASSUME TypeOK, TickInv, HistoryInv, Save PROVE HistoryInv'
  OBVIOUS
<1>1. /\ now' = now /\ file' = state /\ doneAt' = now /\ raised' = raised
      /\ now \in Nat /\ now >= Epoch /\ pc = "saving"
  BY DEF Save, Observe, HistoryInv, TypeOK
<1>2. ASSUME NEW r \in Rules PROVE Remembered(r)' /\ ("rule" \notin raised => Sustained(r)')
                                        /\ (raised = {} => Exact(r)')
  <2> DEFINE rec == file.alerts[r]
             holds == Holds(r, snap, Delta)
             stopped == snap.unit = "inactive"
  <2>1. /\ trueSince'[r] = IF stopped \/ ~holds THEN None
                           ELSE IF trueSince[r] = None THEN now ELSE trueSince[r]
        /\ firedAt'[r] = IF stopped \/ (r \in Reached(snap) /\ ~holds) THEN None
                         ELSE IF SentFire(r) THEN now ELSE firedAt[r]
    BY DEF Save, Observe, Delta
  <2>2. /\ rec \in Record \cup {None}
        /\ trueSince[r] \in Nat \cup {None} /\ firedAt[r] \in Nat \cup {None}
    BY DEF TypeOK, States
  <2>3. Remembered(r) /\ ("rule" \notin raised => Sustained(r)) /\ (raised = {} => Exact(r))
    BY DEF HistoryInv
  <2>4. /\ For[r] \in Nat /\ Repeat[r] \in Nat /\ Repeat[r] > 0 /\ Repeat[r] <= now
        /\ None \notin Nat /\ None \notin Record
    BY <1>1, Constants
  <2>5. CASE snap.unit = "inactive"
    <3>1. file'.alerts[r] = None /\ trueSince'[r] = None /\ firedAt'[r] = None
      BY <1>1, <2>1, <2>5 DEF TickInv, Fresh
    <3> QED
      BY <3>1 DEF Remembered, Sustained, Exact
  <2>6. CASE snap.unit # "inactive" /\ r \notin Reached(snap)
    <3>1. snap.raising # None /\ ~SentFire(r) /\ "rule" \in raised
      BY <1>1, <2>6 DEF Reached, TickInv, Evaluated, SentFire
    <3>2. file'.alerts[r] = rec
      BY <1>1, <2>6 DEF TickInv, Evaluated, AlertsAfter
    <3> QED
      BY <1>1, <2>1, <2>2, <2>3, <2>6, <3>1, <3>2 DEF Remembered
  <2>7. CASE snap.unit # "inactive" /\ r \in Reached(snap) /\ ~holds
    <3>1. file'.alerts[r] = None /\ trueSince'[r] = None /\ firedAt'[r] = None
      BY <1>1, <2>1, <2>7 DEF TickInv, Evaluated, AlertsAfter, RecordAfter, Cleared
    <3> QED
      BY <3>1 DEF Remembered, Sustained, Exact
  <2>8. CASE snap.unit # "inactive" /\ r \in Reached(snap) /\ holds
    <3>1. file'.alerts[r] = IF FiresNow(r) THEN Marked(Opened(rec)) ELSE Opened(rec)
      BY <1>1, <2>8 DEF TickInv, Evaluated, AlertsAfter, RecordAfter, FiresNow
    <3>2. FiresNow(r) <=> Due(r, Opened(rec))
      BY <2>8 DEF FiresNow, Fires
    <3>3. SentFire(r) => FiresNow(r)
      BY <1>1, <2>8, EventMeaning DEF TickInv, Evaluated, SentFire
    <3>4. raised = {} /\ FiresNow(r) => SentFire(r)
      BY <1>1, <2>8, EventMeaning DEF TickInv, Evaluated, SentFire
    <3>5. /\ trueSince'[r] = IF trueSince[r] = None THEN now ELSE trueSince[r]
          /\ firedAt'[r] = IF SentFire(r) THEN now ELSE firedAt[r]
      BY <2>1, <2>8
    <3>6. CASE FiresNow(r)
      <4>1. /\ file'.alerts[r] \in Record
            /\ file'.alerts[r].since = Opened(rec).since
            /\ file'.alerts[r].last = now /\ file'.alerts[r].notified
        BY <1>1, <2>2, <3>1, <3>6 DEF Marked, Opened, Record
      <4>2. Opened(rec).since = IF rec = None THEN now ELSE rec.since
        BY DEF Opened
      <4>3. firedAt[r] # None => firedAt[r] <= now
        <5>1. firedAt[r] # None => rec # None /\ firedAt[r] <= rec.last
          BY <2>3 DEF Remembered
        <5>2. rec # None => now - rec.last >= Repeat[r]
          BY <3>2, <3>6 DEF Due, Opened
        <5> QED
          BY <1>1, <2>2, <2>4, <5>1, <5>2 DEF Record
      <4>4. Remembered(r)'
        BY <1>1, <2>2, <2>3, <2>4, <3>5, <4>1, <4>2, <4>3 DEF Remembered
      <4>5. raised = {} => Exact(r)'
        BY <1>1, <2>2, <2>3, <2>4, <3>4, <3>5, <3>6, <4>1, <4>2 DEF Remembered, Sustained, Exact
      <4>6. "rule" \notin raised => Sustained(r)'
        BY <1>1, <2>2, <2>3, <2>4, <3>5, <4>1, <4>2 DEF Remembered, Sustained, Record
      <4> QED
        BY <4>4, <4>5, <4>6
    <3>7. CASE ~FiresNow(r)
      <4>1. ~SentFire(r) /\ file'.alerts[r] = Opened(rec) /\ firedAt'[r] = firedAt[r]
        BY <3>1, <3>3, <3>5, <3>7
      <4>2. CASE rec = None
        <5>1. file'.alerts[r] = [since |-> now, last |-> 0, notified |-> FALSE]
          BY <4>1, <4>2 DEF Opened
        <5>2. firedAt[r] = None /\ firedAt'[r] = None
          BY <2>3, <4>1, <4>2 DEF Remembered
        <5>3. trueSince'[r] \in Nat /\ trueSince'[r] <= now
          BY <1>1, <2>2, <2>3, <3>5 DEF Remembered
        <5>4. Remembered(r)'
          BY <1>1, <2>4, <5>1, <5>2, <5>3 DEF Remembered
        <5>5. ~(now - now >= For[r])
          <6>1. ~(now - now >= For[r] /\ now - 0 >= Repeat[r])
            BY <3>2, <3>7, <4>2 DEF Due, Opened
          <6> QED
            BY <1>1, <2>4, <6>1
        <5>6. raised = {} => trueSince'[r] = now
          BY <2>3, <3>5, <4>2 DEF Exact
        <5>7. file'.alerts[r] # None
          <6>1. file'.alerts[r] \in Record
            BY <1>1, <5>1 DEF Record
          <6> QED
            BY <2>4, <6>1
        <5>8. ~(doneAt' - file'.alerts[r].since >= For[r])
          BY <1>1, <5>1, <5>5
        <5>9. raised = {} => Exact(r)'
          BY <5>1, <5>2, <5>6, <5>7, <5>8 DEF Exact
        <5>10. "rule" \notin raised => Sustained(r)'
          BY <1>1, <2>4, <5>1, <5>3 DEF Sustained
        <5> QED
          BY <5>4, <5>9, <5>10
      <4>3. CASE rec # None
        <5>1. file'.alerts[r] = rec /\ rec \in Record
          BY <2>2, <4>1, <4>3 DEF Opened
        <5>2. ~(now - rec.since >= For[r] /\ now - rec.last >= Repeat[r])
          BY <3>2, <3>7, <4>1, <5>1 DEF Due
        <5>3. "rule" \notin raised => trueSince'[r] = trueSince[r] /\ trueSince[r] # None
          BY <2>3, <3>5, <4>3 DEF Sustained
        <5>4. Remembered(r)'
          BY <1>1, <2>2, <2>3, <3>5, <4>1, <5>1 DEF Remembered
        <5>5. raised = {} => Exact(r)'
          BY <1>1, <2>3, <2>4, <4>1, <4>3, <5>1, <5>2, <5>3 DEF Exact, Record
        <5>6. "rule" \notin raised => Sustained(r)'
          BY <1>1, <2>3, <4>3, <5>1, <5>3 DEF Sustained
        <5> QED
          BY <5>4, <5>5, <5>6
      <4> QED
        BY <4>2, <4>3
    <3> QED
      BY <3>6, <3>7
  <2> QED
    BY <2>5, <2>6, <2>7, <2>8
<1> QED
  BY <1>1, <1>2 DEF HistoryInv

\* Every step keeps what the file knows of completed ticks.
LEMMA HistoryStep == TypeOK /\ TickInv /\ HistoryInv /\ [Next]_vars => HistoryInv'
<1> SUFFICES ASSUME TypeOK, TickInv, HistoryInv, [Next]_vars PROVE HistoryInv'
  OBVIOUS
<1>1. CASE Save
  BY <1>1, HistorySave
<1>2. CASE StartTick
  <2>1. now' \in Nat /\ now' >= now
    BY <1>2, Constants DEF StartTick, TypeOK
  <2> QED
    BY <1>2, <2>1, HistoryStable DEF StartTick, Collect, observers
<1>3. CASE Evaluate
  BY <1>3, HistoryStable DEF Evaluate, TypeOK
<1>4. CASE SkipInactive \/ AllSent \/ CounterReset \/ UNCHANGED vars
  BY <1>4, HistoryStable DEF SkipInactive, AllSent, CounterReset, vars, tick, observers, TypeOK
<1>5. CASE Send \/ SendRaises \/ Ping \/ Dies \/ ServerRestarts
  BY <1>5, HistoryStable DEF Send, SendRaises, Ping, Dies, ServerRestarts, TypeOK
<1> QED
  BY <1>1, <1>2, <1>3, <1>4, <1>5 DEF Next

-----------------------------------------------------------------------------
\* What was last said of a rule, as long as no exception and no kill came between
\* a message and its save: what this tick has sent, and before that the file.
SentResolve(r) == [rule |-> r, kind |-> "resolve"] \in sent
Notified(r) == file.alerts[r] # None /\ file.alerts[r].notified

LastWordInv ==
    raised = {} /\ ~unsaved =>
        \A r \in Rules : r \in announced <=> SentFire(r) \/ (~SentResolve(r) /\ Notified(r))

\* Restarts that the next completed tick will see if its systemctl works.
Unseen ==
    IF file.restarts = None \/ nRestarts <= file.restarts THEN 0 ELSE nRestarts - file.restarts

RestartInv == told + Unseen <= restarts

\* Nothing was said, and nothing else is forgotten.
LEMMA LastWordStable ==
    ASSUME LastWordInv, file' = file, sent' = sent, announced' = announced,
           raised \subseteq raised', unsaved => unsaved'
    PROVE  LastWordInv'
BY DEF LastWordInv, SentFire, SentResolve, Notified

\* At the save the file takes over what the tick has said.
LEMMA LastWordSave == TypeOK /\ TickInv /\ LastWordInv /\ Save => LastWordInv'
<1> SUFFICES ASSUME TypeOK, TickInv, LastWordInv, Save, raised = {}, ~unsaved,
                    NEW r \in Rules
             PROVE  r \in announced' <=> Notified(r)'
  BY DEF Save, LastWordInv, SentFire, SentResolve, Notified
<1> DEFINE rec == file.alerts[r]
           holds == Holds(r, snap, Delta)
<1>1. pc = "saving" /\ file' = state
  BY DEF Save
<1>2. CASE snap.unit = "inactive"
  BY <1>1, <1>2 DEF Save, Observe, TickInv, Fresh, Notified
<1>3. CASE snap.unit # "inactive"
  <2>1. Evaluated /\ snap.raising = None /\ announced' = announced
    BY <1>1, <1>3 DEF Save, Observe, TickInv, Evaluated
  <2>2. sent = EventsOf(file.alerts, snap, Delta)
    BY <1>1, <2>1 DEF TickInv
  <2>3. SentFire(r) <=> FiresNow(r)
    BY <2>2, EventMeaning DEF SentFire
  <2>4. SentResolve(r) <=> Ends(rec, holds)
    BY <2>2, EventMeaning DEF SentResolve
  <2>5. r \in announced <=> FiresNow(r) \/ (~Ends(rec, holds) /\ Notified(r))
    BY <2>3, <2>4 DEF LastWordInv
  <2>6. file'.alerts[r] = RecordAfter(r, rec, holds)
    BY <1>1, <2>1 DEF TickInv, AlertsAfter, Reached
  <2>7. CASE ~holds
    BY <2>1, <2>5, <2>6, <2>7 DEF RecordAfter, Cleared, Ends, Resolves, Notified, FiresNow, Fires
  <2>8. CASE holds /\ FiresNow(r)
    <3>1. file'.alerts[r] = Marked(Opened(rec))
      BY <2>6, <2>8 DEF RecordAfter, FiresNow
    <3>2. Opened(rec) \in Record
      BY DEF TypeOK, States, Opened, Record
    <3>3. file'.alerts[r] \in Record /\ file'.alerts[r].notified
      BY <3>1, <3>2 DEF Marked, Record, TypeOK
    <3>4. Notified(r)'
      BY <3>3, Constants DEF Notified
    <3> QED
      BY <2>1, <2>5, <2>8, <3>4
  <2>9. CASE holds /\ ~FiresNow(r)
    <3>1. file'.alerts[r] = Opened(rec)
      BY <2>6, <2>9 DEF RecordAfter, FiresNow
    <3>2. ~Ends(rec, holds)
      BY <2>9 DEF Ends
    <3>3. CASE rec = None
      <4>1. ~Notified(r) /\ ~file'.alerts[r].notified
        BY <3>1, <3>3 DEF Notified, Opened
      <4> QED
        BY <2>1, <2>5, <2>9, <4>1 DEF Notified
    <3>4. CASE rec # None
      <4>1. file'.alerts[r] = file.alerts[r]
        BY <3>1, <3>4 DEF Opened
      <4>2. Notified(r)' <=> Notified(r)
        BY <4>1 DEF Notified
      <4> QED
        BY <2>1, <2>5, <2>9, <3>2, <4>2
    <3> QED
      BY <3>3, <3>4
  <2> QED
    BY <2>7, <2>8, <2>9
<1> QED
  BY <1>2, <1>3

\* Every step keeps what is known of the last message of each rule.
LEMMA LastWordStep == TypeOK /\ TickInv /\ LastWordInv /\ [Next]_vars => LastWordInv'
<1> SUFFICES ASSUME TypeOK, TickInv, LastWordInv, [Next]_vars PROVE LastWordInv'
  OBVIOUS
<1>1. CASE Save
  BY <1>1, LastWordSave
<1>2. CASE Send
  <2> SUFFICES ASSUME raised = {}, ~unsaved, NEW r \in Rules
               PROVE  r \in announced' <=> SentFire(r)' \/ (~SentResolve(r)' /\ Notified(r)')
    BY <1>2 DEF Send, LastWordInv
  <2>1. PICK e \in events : /\ sent' = sent \cup {e}
                            /\ announced' = IF e.kind = "fire" THEN announced \cup {e.rule}
                                            ELSE announced \ {e.rule}
    BY <1>2 DEF Send
  <2>2. e \in Events /\ Notified(r)' = Notified(r)
    BY <1>2, <2>1 DEF TypeOK, Send, Notified
  <2>3. r \in announced <=> SentFire(r) \/ (~SentResolve(r) /\ Notified(r))
    BY DEF LastWordInv
  <2>4. CASE e.rule # r
    BY <2>1, <2>2, <2>3, <2>4 DEF SentFire, SentResolve
  <2>5. CASE e.rule = r /\ e.kind = "fire"
    BY <2>1, <2>2, <2>5 DEF SentFire, Events
  <2>6. CASE e.rule = r /\ e.kind = "resolve"
    <3>1. e = [rule |-> r, kind |-> "resolve"]
      BY <2>2, <2>6 DEF Events
    <3>2. events \cup sent \subseteq EventsOf(file.alerts, snap, Delta)
      BY <1>2 DEF Send, TickInv, Evaluated
    <3>3. Ends(file.alerts[r], Holds(r, snap, Delta))
      BY <2>1, <3>1, <3>2, EventMeaning
    <3>4. ~FiresNow(r)
      BY <3>3 DEF FiresNow, Fires, Ends
    <3>5. ~SentFire(r)
      BY <3>2, <3>4, EventMeaning DEF SentFire
    <3> QED
      BY <2>1, <2>6, <3>1, <3>5 DEF SentFire, SentResolve
  <2> QED
    BY <2>2, <2>4, <2>5, <2>6 DEF Events
<1>3. CASE SendRaises
  BY <1>3 DEF SendRaises, LastWordInv
<1>4. CASE Dies
  <2>1. CASE sent = {}
    BY <1>4, <2>1, LastWordStable DEF Dies
  <2>2. CASE sent # {}
    BY <1>4, <2>2 DEF Dies, LastWordInv
  <2> QED
    BY <2>1, <2>2
<1>5. CASE Evaluate
  BY <1>5, LastWordStable DEF Evaluate
<1>6. CASE StartTick \/ SkipInactive \/ AllSent \/ CounterReset \/ UNCHANGED vars
  BY <1>6, LastWordStable DEF StartTick, Collect, SkipInactive, AllSent, CounterReset, vars,
                               tick, observers
<1>7. CASE Ping \/ ServerRestarts
  BY <1>7, LastWordStable DEF Ping, ServerRestarts
<1> QED
  BY <1>1, <1>2, <1>3, <1>4, <1>5, <1>6, <1>7 DEF Next

\* Every step keeps the bound on the restarts that have been seen.
LEMMA RestartStep == TypeOK /\ TickInv /\ RestartInv /\ [Next]_vars => RestartInv'
<1> SUFFICES ASSUME TypeOK, TickInv, RestartInv, [Next]_vars PROVE RestartInv'
  OBVIOUS
<1>0. /\ told \in Nat /\ restarts \in Nat /\ nRestarts \in Nat
      /\ file.restarts \in Nat \cup {None} /\ None \notin Nat
  BY Constants DEF TypeOK, States
<1>1. CASE Save
  <2>1. snap \in Snapshots(nRestarts) /\ file'.restarts = snap.restarts
    BY <1>1 DEF Save, TypeOK, TickInv
  <2>2. snap.restarts \in {nRestarts, None} /\ nRestarts' = nRestarts /\ restarts' = restarts
    BY <1>1, <2>1, SnapshotTypes, <1>0 DEF Save
  <2>3. Unseen' = 0
    BY <1>0, <2>1, <2>2 DEF Unseen
  <2>4. told' = told + RestartsDelta(snap, file.restarts)
    BY <1>1 DEF Save, Observe
  <2>5. RestartsDelta(snap, file.restarts) \in {0, Unseen} /\ Unseen \in Nat
    BY <1>0, <2>2 DEF RestartsDelta, Unseen
  <2> QED
    BY <1>0, <2>2, <2>3, <2>4, <2>5 DEF RestartInv
<1>2. CASE ServerRestarts
  BY <1>0, <1>2 DEF ServerRestarts, RestartInv, Unseen
<1>3. CASE CounterReset
  BY <1>0, <1>3 DEF CounterReset, RestartInv, Unseen, observers
<1>4. CASE StartTick \/ Ping \/ Dies \/ Evaluate \/ Send \/ SendRaises
  BY <1>4 DEF StartTick, Collect, Ping, Dies, Evaluate, Send, SendRaises, RestartInv, Unseen,
              observers
<1>5. CASE SkipInactive \/ AllSent \/ UNCHANGED vars
  BY <1>5 DEF SkipInactive, AllSent, RestartInv, Unseen, vars, tick, observers
<1> QED
  BY <1>1, <1>2, <1>3, <1>4, <1>5 DEF Next

\* Every step keeps that a tick does not reach its save without the ping.
LEMMA DeadmanStep == DeadmanAlwaysRuns /\ [Next]_vars => DeadmanAlwaysRuns'
<1> SUFFICES ASSUME DeadmanAlwaysRuns, [Next]_vars PROVE DeadmanAlwaysRuns'
  OBVIOUS
<1> USE DEF DeadmanAlwaysRuns
<1>1. CASE StartTick \/ SkipInactive
  BY <1>1 DEF StartTick, Collect, SkipInactive
<1>2. CASE Evaluate
  BY <1>2 DEF Evaluate, PlaceAfterException
<1>3. CASE Send \/ SendRaises \/ AllSent
  BY <1>3 DEF Send, SendRaises, AllSent, PlaceAfterException
<1>4. CASE Ping \/ Save \/ Dies
  BY <1>4 DEF Ping, Save, Dies
<1>5. CASE ServerRestarts \/ CounterReset \/ UNCHANGED vars
  BY <1>5 DEF ServerRestarts, CounterReset, vars, tick, observers
<1> QED
  BY <1>1, <1>2, <1>3, <1>4, <1>5 DEF Next

-----------------------------------------------------------------------------
\* The inductive invariant.
IInv ==
    /\ TypeOK
    /\ TickInv
    /\ HistoryInv
    /\ LastWordInv
    /\ RestartInv
    /\ DeadmanAlwaysRuns

\* The invariant holds when the watchdog is installed.
LEMMA InitEstablishesIInv == Init => IInv
<1>1. Init => TickInv /\ LastWordInv /\ DeadmanAlwaysRuns
  BY Constants DEF Init, TickInv, Evaluated, LastWordInv, SentFire, SentResolve, Notified,
                   Fresh, DeadmanAlwaysRuns
<1>2. Init => RestartInv
  BY DEF Init, RestartInv, Unseen, Fresh
<1> QED
  BY <1>1, <1>2, TypeInit, HistoryInit DEF IInv

\* Every step keeps the invariant.
LEMMA StepKeepsIInv == IInv /\ [Next]_vars => IInv'
BY TypeStep, TickStep, HistoryStep, LastWordStep, RestartStep, DeadmanStep DEF IInv

\* Every state that the watchdog reaches satisfies the inductive invariant: the
\* file tells no more, and without exceptions no less, than ticks have seen.
THEOREM Invariance == Spec => []IInv
BY InitEstablishesIInv, StepKeepsIInv, PTL DEF Spec

\* The variables of the watchdog keep their types; events are of known rules.
THEOREM TypeCorrectness == Spec => []TypeOK
<1>1. IInv => TypeOK
  BY DEF IInv
<1> QED
  BY <1>1, Invariance, PTL

\* What an unsent alert says of the records of the file.
LEMMA FireIsDue ==
    ASSUME IInv, NEW r \in Rules, EventFor(r, "fire")
    PROVE  Evaluated /\ FiresNow(r) /\ Due(r, Opened(file.alerts[r]))
<1>1. events # {}
  BY DEF EventFor
<1>2. Evaluated
  BY <1>1 DEF IInv, TypeOK, TickInv, Evaluated
<1>3. FiresNow(r)
  BY <1>2, EventMeaning DEF IInv, TickInv, EventFor
<1> QED
  BY <1>2, <1>3 DEF FiresNow, Fires

\* As long as no rule has raised, an alert is sent only after its condition held
\* in the snapshots of all completed ticks of for_seconds, however many processes
\* those took.
THEOREM FiresAreSustained == Spec => []FireIsSustained
<1>1. IInv => FireIsSustained
  <2> SUFFICES ASSUME IInv, "rule" \notin raised,
                      NEW r \in Rules, For[r] > 0, EventFor(r, "fire")
               PROVE  trueSince[r] # None /\ now - trueSince[r] >= For[r]
    BY DEF FireIsSustained
  <2> DEFINE rec == file.alerts[r]
  <2>1. now - Opened(rec).since >= For[r]
    BY FireIsDue DEF Due
  <2>2. now \in Nat /\ For[r] \in Nat /\ rec \in Record \cup {None}
    BY Constants DEF IInv, TypeOK, States
  <2>3. rec # None
    BY <2>1, <2>2 DEF Opened
  <2>4. trueSince[r] # None /\ trueSince[r] <= rec.since /\ trueSince[r] \in Nat
    BY <2>3 DEF IInv, HistoryInv, Sustained, TypeOK
  <2>5. Opened(rec).since = rec.since /\ rec.since \in Nat
    BY <2>2, <2>3 DEF Opened, Record
  <2> QED
    BY <2>1, <2>2, <2>4, <2>5
<1> QED
  BY <1>1, Invariance, PTL

\* A standing alert is repeated no sooner than its severity's period.
THEOREM Repeats == Spec => []RepeatsAreSpaced
<1>1. IInv => RepeatsAreSpaced
  <2> SUFFICES ASSUME IInv, NEW r \in Rules, EventFor(r, "fire"), firedAt[r] # None
               PROVE  now - firedAt[r] >= Repeat[r]
    BY DEF RepeatsAreSpaced
  <2> DEFINE rec == file.alerts[r]
  <2>1. now - Opened(rec).last >= Repeat[r]
    BY FireIsDue DEF Due
  <2>2. now \in Nat /\ Repeat[r] \in Nat /\ rec \in Record \cup {None}
    BY Constants DEF IInv, TypeOK, States
  <2>3. rec # None /\ firedAt[r] <= rec.last /\ firedAt[r] \in Nat
    BY DEF IInv, HistoryInv, Remembered, TypeOK
  <2>4. Opened(rec).last = rec.last /\ rec.last \in Nat
    BY <2>2, <2>3 DEF Opened, Record
  <2> QED
    BY <2>1, <2>2, <2>3, <2>4
<1> QED
  BY <1>1, Invariance, PTL

\* A condition that has lasted long enough has been announced within the period,
\* as long as nothing has raised.
THEOREM NothingMissed == Spec => []NoMissedAlert
<1>1. IInv => NoMissedAlert
  <2> SUFFICES ASSUME IInv, raised = {}, NEW r \in Rules,
                      trueSince[r] # None, doneAt - trueSince[r] >= For[r]
               PROVE  firedAt[r] # None /\ doneAt - firedAt[r] < Repeat[r]
    BY DEF NoMissedAlert
  <2> DEFINE rec == file.alerts[r]
  <2>1. Exact(r) /\ rec \in Record \cup {None} /\ None \notin Nat
    BY Constants DEF IInv, HistoryInv, TypeOK, States
  <2>2. rec # None /\ doneAt - rec.since >= For[r]
    BY <2>1 DEF Exact
  <2>3. rec.last \in Nat
    BY <2>1, <2>2 DEF Record
  <2>4. firedAt[r] = rec.last /\ doneAt - rec.last < Repeat[r]
    BY <2>1, <2>2 DEF Exact
  <2> QED
    BY <2>1, <2>3, <2>4
<1> QED
  BY <1>1, Invariance, PTL

\* Resolve events are sent for the rules whose last message was an alert and whose
\* condition holds no longer, for all of them and for no other, as long as nothing
\* has raised and no tick was killed between a message and its save.
THEOREM Resolving == Spec => ResolvesMatchFires
<1>1. IInv /\ [Next]_vars => [ResolvesAnnounced]_vars
  <2> SUFFICES ASSUME IInv, Evaluate, raised = {}, ~unsaved, pc' = "dispatching",
                      NEW r \in Rules
               PROVE  EventFor(r, "resolve")' <=> r \in announced /\ ~Holds(r, snap, Delta)
    BY DEF Next, StartTick, Collect, SkipInactive, Send, SendRaises, AllSent, Ping, Save,
           Dies, ServerRestarts, CounterReset, vars, tick, observers, ResolvesAnnounced,
           Delta, PlaceAfterException
  <2> DEFINE rec == file.alerts[r]
  <2>1. events' = EventsOf(file.alerts, snap, Delta) /\ sent = {}
    BY DEF Evaluate, PlaceAfterException, Delta, IInv, TickInv
  <2>2. EventFor(r, "resolve")' <=> Ends(rec, Holds(r, snap, Delta))
    BY <2>1 DEF EventFor, EventsOf, Events
  <2>3. r \in announced <=> Notified(r)
    BY <2>1 DEF IInv, LastWordInv, SentFire, SentResolve
  <2> QED
    BY <2>2, <2>3 DEF Ends, Resolves, Notified
<1> QED
  BY <1>1, Invariance, PTL DEF Spec, ResolvesMatchFires

\* A tick that gets to its save has pinged the deadman switch, unless the unit
\* was stopped on purpose.
THEOREM DeadmanRuns == Spec => []DeadmanAlwaysRuns
<1>1. IInv => DeadmanAlwaysRuns
  BY DEF IInv
<1> QED
  BY <1>1, Invariance, PTL

\* The restarts that completed ticks have counted did take place.
THEOREM RestartsAreReal == Spec => []NoRestartInvented
<1>1. IInv => NoRestartInvented
  <2> SUFFICES ASSUME IInv PROVE told <= restarts
    BY DEF NoRestartInvented
  <2>1. told \in Nat /\ restarts \in Nat /\ Unseen \in Nat
    BY DEF IInv, TypeOK, States, Unseen
  <2> QED
    BY <2>1 DEF IInv, RestartInv
<1> QED
  BY <1>1, Invariance, PTL

\* An alert is suppressed as announced only if it was sent, as long as neither a
\* rule nor dispatch() has raised: their exceptions are the ways to lose an alert
\* that the file calls announced, whatever else is killed or late (watchdog.py:63,
\* 166-170).
THEOREM SuppressionIsEarned == Spec => [](raised = {} => SuppressedOnlyIfSent)
<1>1. IInv => (raised = {} => SuppressedOnlyIfSent)
  <2> SUFFICES ASSUME IInv, raised = {}, NEW r \in Rules,
                      file.alerts[r] # None, file.alerts[r].notified
               PROVE  firedAt[r] # None
    BY DEF SuppressedOnlyIfSent
  <2>1. file.alerts[r] \in Record /\ None \notin Nat
    BY Constants DEF IInv, TypeOK, States
  <2>2. firedAt[r] = file.alerts[r].last
    BY DEF IInv, HistoryInv, Exact
  <2> QED
    BY <2>1, <2>2 DEF Record
<1> QED
  BY <1>1, Invariance, PTL
=============================================================================
