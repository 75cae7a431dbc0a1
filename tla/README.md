# A TLA+ model of katago-server

katago-server puts an HTTP API in front of KataGo engines that run as child
processes, and watches itself from outside: a systemd timer starts a watchdog
once a minute, which reads `/health`, `/status` and systemd, sends alerts to
Slack and pings an external deadman switch.  The modules here specify the parts
of it in which several things happen at once or one after the other in an order
nobody chose: the FIFO gate of a model, a worker with its threads and its
engine, the endpoint with its routing and its statistics, the watchdog with its
state file, the watchdog together with the server it watches, and the replay of
a game on a board.  TLC checks each of them on small instances; TLAPS proves
the safety properties and the refinements for every value of the constants.

Paths below are relative to `src/src/` unless they start with `src/`.

## 1. Inventory

| component | state it keeps | operations | interacts with | what makes it correct |
| --- | --- | --- | --- | --- |
| Concurrency gate (`analysis/pool.py`, `ConcurrencyGate`) | semaphore (counter, waiters), `_waiting`, `_in_flight` | `acquire` (enter, leave), `stats` | tasks of the event loop; the thread of `/status` | no lost slot or wake-up, FIFO, true gauges, nobody waits for ever |
| KataGo worker (`analysis/worker.py`, `payload_analyzer.py`) | child process and its pipes, `futures`, `write_queue`, `_exit_logged` | `analyze`, three thread loops, `_handle_process_exit`, `is_alive`, `get_stats` | event loop (futures, `call_soon_threadsafe`), the engine | each call is answered once, with its own lines or a timeout; no entry is left behind; the end of the process is logged |
| Worker pool (`analysis/pool.py`) | worker lists, round-robin indices, gates, trackers | `get_analysis_worker`, `acquire_concurrency_slot`, `record_*`, `get_worker_liveness`, `get_pool_stats` | endpoint, workers, gates | balanced routing, one gate per limited model, true liveness |
| Endpoint (`main.py`, `monitoring/health.py`) | none of its own | `/analyze/{model_id}`, `/health`, `/status`, `/check-end-game` | pool, metrics | every request is answered and counted under the outcome the client was told |
| Metrics (`analysis/metrics.py`) | deques of samples with their times, cached GPU values | `record`, `percentiles`, `counts` | pool, rules | what the window says is what happened in it, although `maxlen` drops samples |
| Watchdog (`monitoring/watchdog.py`, `state.py`) | state file: alert records, last NRestarts | one tick: collect, evaluate, dispatch, ping, save | `/health`, `/status`, systemd, Slack, deadman switch | alerts are sustained, spaced, complete, resolved; the ping is never skipped, and never a success while the engine is dead |
| Rules and collection (`monitoring/rules.py`, `collect.py`) | none | predicates on a snapshot, reading of endpoints and systemd | watchdog, server | a rule holds exactly when its condition does; an alert is true of the server |
| Notification (`monitoring/notify.py`) | none | `send_slack`, `healthchecks_ping` | outside | failure is reported to the caller |
| Board and SGF (`utils/go_board.py`, `sgf_parser.py`) | the stones of a replay | replay of a game, conversion of coordinates | benchmarks | captures as in the rules, true counts of empty points |
| Selftest (`monitoring/selftest.py`), access control (`auth.py`) | none | command-line tool; check of a header | | |
| Endgame (`endgame/`) | a model loaded once | `predict_proba` | `/check-end-game` | |
| Deployment (`src/deploy`, `src/scripts`) | systemd's unit state, NRestarts | start, stop, restart, timer | server, watchdog | |
| Benchmarks, load and API tests (`src/tests`) | | clients | API | |

How they interact.  A request handler (a task of the event loop) takes the next
worker of its model from the pool, waits for a slot of the model's gate if it
has one, and awaits `worker.analyze`.  The worker's writer thread moves the
query from an unbounded queue to the engine's stdin; its reader thread matches
output lines to calls by an internal uuid and schedules the completion of the
call's future on the loop; the loop's timer may cancel the future meanwhile.
The handler turns the result into a status and an outcome; the outcomes feed
`/status`, which the watchdog reads a minute later in another process.

What is hard here: tasks interleave at every `await`, threads anywhere outside
a lock; the engine may answer late, refuse, hang or die; the timer of a call
races the reader thread; the watchdog may be killed between any two of its steps
and remembers only what it saved; a rule may raise in the middle of an
evaluation, or the dispatch of its events; what the watchdog reads is a window of
the past, and any of its sources may fail to answer or answer with what cannot be
read.  `PROJECT.json` lists each hazard at its line with
the properties that cover it, or why none does.

## 2. Modules

| module | models | how |
| --- | --- | --- |
| `FifoGate` | what a gate promises | a queue and a set of holders |
| `ConcurrencyGate` | `ConcurrencyGate.acquire` and the semaphore in it | one action per stretch that neither another task nor a thread can split |
| `RequestReply` | what `KataGoWorker.analyze` promises | a set of calls and their replies |
| `KataGoWorker` | a worker, its threads, timers and engine | one action per critical section, await, pipe operation or engine event |
| `AnalyzeService` | `/analyze`, the pool, `/health` | gates appear as queues and holders, workers as calls that return |
| `Watchdog` | ticks of the watchdog over one state file | one action per step that can be lost if the process is killed |
| `Monitoring` | the watchdog composed with the server, its windows of outcomes and systemd | actions of `Watchdog` on snapshots of a server that acts between the ticks |
| `GoBoard` | `compute_empty_counts_before_each_move` and the coordinates | one action per move, next to a board that follows the rules |
| `*Proofs`, `SequenceLemmas` | | theorems (section 4) |
| `MC*` | | instances for TLC |

`AnalyzeService` is written on top of what the modules below it promise: its gate
takes the steps of `FifoGate`, which `ConcurrencyGate` implements with its
semaphore, and its fairness on the return of calls is what `KataGoWorker` shows as
`EventuallyAnswered`.  That the semaphore lets nobody overtake is shown in
`ConcurrencyGate` alone.  `Monitoring` composes `Watchdog` with the part of the
server that it reads, and implements `Watchdog`.  Definitions that start with
"Mutant" in their comment are broken variants of the definition after them, with
which every property has been seen to fail; nothing refers to them.

**ConcurrencyGate.**  `value`, `waiters` and `granted` are the semaphore:
`_value`, `_waiters`, and how many waiters have a completed future but have not
run yet.  `waiting` and `inFlight` are the gauges.  `running` is the task that
runs; an action that suspends its task sets it to `Nobody`.  `Arrive`,
`TakeFree`, `Enqueue`, `Resume`, `Enter`, `Leave`, `Release` follow `acquire`
from top to bottom.  The semaphore is library code, modelled from CPython 3.11
and later: `Wakes` allows both the version that hands one slot per resume and
the one that hands as many as there are.  Cancelled waiters are left out: the
server cancels no task while it serves.

**KataGoWorker.**  The call (`Register`, `Enqueue`, `Return`, `Expire`,
`Forget`), its timer (`TimerFires`), the loop's callbacks (`RunCallback`), the
writer (`WriterTake`, `WriterSend`), the stdout reader (`ReadLine`), the end of
both readers (`CheckExitLogged`, `ClaimExitLog`, `LogExit`) and the engine
(`EngineRead`, `EngineAnswers`, `EngineRefuses`, `EngineDies`).  The uuid of a
call is the call itself; the id the client sent is `ExternalId`, which several
clients may share.  A line is which call and position it is about.  The timer
may fire at any moment, and both the 3.11 and the 3.12 behaviour of `wait_for`
are allowed.

**AnalyzeService.**  `Choose` is `get_analysis_worker`; `ArriveGated`, `GetSlot`
and `Respond` are the endpoint up to the gate, in the gate, and from the return
of `worker.analyze` to the response; `PollWorker` and `ReportHealth` are the
health check, which asks one worker at a time while workers die.  A result is
the sequence of its items, each "ok" or what its error text contains, since the
status depends on nothing else; `FirstError` is the item at which the loop over
the result raises.  Statistics are counters here; their windows are in
`Monitoring`.

**Watchdog.**  `file` is the state file, `state` the copy a tick works on.
`StartTick` collects a snapshot, any of `Snapshots`; `SkipInactive` and
`Evaluate` are the two branches of `main`; `Send`, `AllSent`, `Ping`, `Save`
follow; `Dies` ends the process at any point without saving, and stands for a
failed save too.  Each rule is evaluated on its own record, so an evaluation is
a function of the old records (`AlertsAfter`) with a set of events
(`EventsOf`), which `Send` takes in the order of the rules.  When a rule raises,
the records of the rules before it are updated, their events are dropped, and
the tick goes on with the ping; when `dispatch` raises (`SendRaises`), the events
that are left are dropped in the same way.  A rule on metrics is reduced to
whether it holds (`over`) or raises (`raising`).  `ServerRestarts` and
`CounterReset` are what systemd does to NRestarts.  Variables under "observers"
only record the past for the properties: `trueSince` and `firedAt` what completed
ticks saw and sent, `announced` what was sent by any tick, those that were killed
before their save included.  A tick that did not get to a rule because another one
raised counts for `trueSince` by its snapshot, not by the record it left alone.

**Monitoring.**  The snapshot of a tick, arbitrary in `Watchdog`, is here what
`collect.py` makes of a server with one model and one worker.  `HealthAnswers` are
the answers of `/health`: none, the report, or an error with a body that cannot be
read, which counts as reached, with a status other than 200 and no dead models
(`HealthStatus`, `DeadListRead`).  `StatusAnswers` may fail as well, and systemctl
may tell all, the state without the counter, or nothing; `SnapshotOf` puts them
together.  `samples` is the deque of
`OutcomeTracker` with its `maxlen` (`Recorded`), `InWindow`, `Total` and `Count`
are `counts()`, and `Stalled`, `TimeoutRateHigh` and `TimeoutRateRaises` are the
rules on it.  The engine serves, hangs or dies (`EngineFails`), requests are
recorded (`AnswerRequest`; an engine that hangs may still refuse some), systemd restarts the server, gives up, or is told to
stop or start it.  `clock` is the time and `now` the time of the last tick:
`Minute` moves the clock between ticks, and a tick reads it once.  The server
moves only between ticks, because a tick reads nothing of it after the snapshot;
that the parts of a snapshot are taken one after the other is left to
`Watchdog`.  At the start the engine is in any state: the watchdog may be
installed next to an engine that is already hung or dead.  `requests` remembers
all that the running process has recorded, which the properties compare with the
deque.

**GoBoard.**  A move is an SGF point; `SgfCoordToGtp` and `GtpToXy` turn it into
the code's board coordinates, `GroupOf` and `HasLiberty` are `_group_liberties`,
`Placed` is the body of the loop: the stone, then captures around it, then its
own group.  Next to it the same moves are played by `ByTheRules`, which knows no
search: stones without liberty are those of the sets closed under adjacency that
touch no empty point (`Dead`).  The code counts columns from 0 and rows from 1,
but looks for neighbours in 1..size for both, so the replay is right only for games
that stay away from the left and right edges.  `Played` is the set of points on
which the games in question put stones; the goban they are played on is the whole
board, A1 included.  `AwayFromEdges` says that columns A and B and the last one have
no stones.  With stones in column A the replay is wrong (finding 5).

## 3. Runs

| run | instance | shows |
| --- | --- | --- |
| `gate` | 4 requests, limit 2 | the gate's invariants, `ImplementsFifoGate`, `EveryRequestGetsIn` |
| `worker` | 2 calls (two positions; one), pipes of one line | safety, liveness and `ImplementsRequestReply` of a worker |
| `worker_exit` | 2 calls | finding: both readers log the end of the process |
| `worker_duplicates` | a call with a repeated position | finding: it waits for more lines than there are |
| `service` | one gated model, 2 workers, limit 2, 4 requests and one for an unknown model | routing, statistics, no false success, no false death, the load of live callers |
| `service_live` | a gated model (limit 1) and one without a limit, 2 workers each, 3 requests | every request is answered; deaths reach the health report |
| `service_load` | as `service`, without the unknown model | finding: queries that timed out are still worked on |
| `watchdog` | 4 rules, 4 minutes, gaps of up to 2 minutes, 1 restart | the properties of alerts and of the ping, for any snapshots and exceptions |
| `watchdog_lost` | as `watchdog`, 5 minutes | finding: an alert lost to an exception counts as announced |
| `monitoring` | 4 rules, 3 minutes, 3 events of the server, 2 restarts | what alerts and the success ping say is true of the server; `ImplementsWatchdog` |
| `go_board` | 7x7 board, columns C to F of the rows 1 to 3, up to 6 stones | the replay follows the rules away from the side edges |
| `go_board_columns` | 3x3 board, up to 5 stones | finding: with stones in column A the counts are wrong |

Why the bounds are enough.  *Gate*: two slots can be held while two requests
queue, so a slot can be handed over while a waiter sleeps and a newcomer
arrives; more clients repeat these cases.  *Worker*: two calls are needed for
lines to interleave and ids to clash, two positions for a call to be half
answered; a pipe of one line makes both ends block.  *Service*: two slots and
four requests leave two in the queue whose workers are already chosen; two
workers are needed for routing and for a model that is dead in part, which is
why `service_live` has two for each of its models; its engines return one kind of
result only, since the kinds of errors make no difference to whether a request is
answered.
*Watchdog*: durations and repetitions are 1 to 3 ticks instead of minutes and
hours, so that in four ticks an alert can begin, reach its duration, be
repeated, clear and begin again; two durations and a rule that raises between
two others cover the orders of evaluation.  *Monitoring*: a window of one minute
and a deque of two samples against three events, so that samples expire and
`maxlen` drops one; with three minutes an engine can break, its alert be
announced, resolved by a tick without an answer, and come back.  `MaxGap` is 1;
a missing tick is a killed one, which leaves nothing behind either.  *GoBoard*:
the inner points touch the bottom edge, where six stones are enough for suicide, for
the capture of two stones and for a capture by a stone that has no liberty of its
own; a game may lift stones and go on, so games have any length.  The theorems of section 4 hold for all values, so these bounds
matter only for liveness, for the findings, and for trust in the models.  Time,
gaps, restarts, events and stones are bounded by `MaxTime`, `MaxGap`, `MaxRestarts`,
`MaxEvents` and `MaxStones`; all else is finite by itself.  The largest runs are
`watchdog` and `monitoring` with about six million states each.

Deadlock is checked in `gate`, `go_board` and `go_board_columns`.  In the others
the system stops rightly: every call has been answered and the engine is dead,
or the bound on time is reached.  `service` and `service_load` use symmetry
between the requests, the board runs between the colours, which no definition
tells apart; runs that check liveness use none.

### Fairness

* *Gate.*  A running task reaches its next await (weak).  A waiter whose future
  is complete is on the FIFO ready queue of the loop, and the body of a request
  ends, at the latest by the timeout of `worker.analyze`; other tasks run in
  between and disable these steps for a while, hence strong fairness.
* *Worker.*  The same for calls; `asyncio`'s timers fire.  The reader of stdout
  reads what there is, and both readers get to the end of `_handle_process_exit`.
  Nothing is assumed of the engine or of the writer thread: a hung engine and a
  pipe that stays full are behaviours of the specification.
* *Service.*  The gate admits and a call returns, at least with its timeout; a
  health check proceeds and is followed by another one, as the watchdog asks
  once a minute.  Engines owe nothing.
* *Watchdog, Monitoring, GoBoard.*  None: their properties are about safety.
  That an alert comes in time is stated with the clock (`NoMissedAlert`,
  `DeadEngineAnnounced`), for the ticks that complete.

## 4. What is proved

Every safety property that a passing run checks is a theorem, for all values of
the constants that satisfy the module's assumption (that of the replay for games
that stay away from the side edges, `AwayFromEdges`).  For three of the findings,
conditional theorems say how far they go.

`ConcurrencyGateProofs`, for every finite set of requests and every limit of at
least one (`GateAssumption`; the code creates a gate only for a limit that is
set):

* `TypeCorrectness`, `SlotsConserved`, `LimitHolds`, `NoLostWakeUp` and
  `GaugesTrue`: the invariants of the run `gate`, and that no more than `Limit`
  requests are inside.
* They follow from `Invariance`: the inductive invariant
  `IInv == TypeOK /\ OneTaskRuns /\ SlotConservation /\ NoIdleSlotWhileQueued /\
  GaugesAreTrue`.  None of its parts is inductive alone.  That `value` does not
  become negative, and `granted` not larger than the queue, needs the bound of
  `Wakes`; that slots are conserved needs `OneTaskRuns`, because the slot in
  transit belongs to the one task between two awaits; that no slot is idle needs
  that a newcomer never passes the queue (`Locked`).  `InFlightWithinLimit` is
  the consequence of slot conservation and types.
* One lemma per conjunct shows that each action preserves it; `WakesBounded` and
  `SetOfRequests` are the facts about the helpers that they rest on.

The second part of `ConcurrencyGateProofs`, under the same assumption:

* `Refinement`: `Spec => ImplementsFifoGate`.  A request is in the abstract
  queue (`GateQueue`) from the moment it is counted as waiting until it is
  counted as in flight, so only `Arrive`, `Enter` and `Leave` are abstract steps
  and the semaphore's own steps (`TakeFree`, `Enqueue`, `Resume`, `Release`)
  stutter: `StepImplements` has one step for each.
* `Arrive` needs `QueueInv` (whoever is in the semaphore's queue waits there, and
  is there once), which is inductive with `IInv`.  `Enter` needs `RoomToEnter`:
  the slot the task has taken is in transit, so by slot conservation and true
  gauges fewer than `Limit` requests are inside.  `TakeFree` needs that a free
  slot is taken only when nobody queues.

`KataGoWorkerProofs`, for every finite set of calls, every payload and every
pipe (`WorkerAssumption`; an empty `analyzeTurns` is excluded there):

* `NobodyStranded`, `CompletedOnce`, `EntriesDropped`, `ExitsLogged` and
  `TypeCorrectness`, from `IInv == TypeOK /\ CallsInv /\ ExitInv`.  `CallInv` ties
  the place of a call in `analyze` to its future, its entry in `self.futures` and
  the completion that may be on its way; the race of timer and reader is settled
  by `CallbackFor(r) => future[r] # "done" /\ r \notin registered`.  `OneCallback`
  says that one call has at most one completion scheduled.  `ExitInv` says that
  a reader that leaves the record of the exit to the other leaves it to one that
  has claimed it.
* `SecondRecordIsTheOtherReaders` bounds finding 1: when `ExitLoggedOnce` fails,
  there are two records and no third can come, because both readers are through.
  `RecordsInv` ties the length of the log to the places of the readers.

`WorkerAnswersProofs` adds three invariants to these:

* `PathInv`: a query is in one place on its way (queue, writer's hand, pipe,
  engine) and the engine reads it once.  `LedgerInv`: a position of an accepted
  query is unanswered, in the pipe, or read, and never two of these.
  `AnswerInv`: a completed call has an error line alone or a line for each of its
  positions (`Whole`), and the engine has nothing more to say about it.
* The lemma `Enough` carries the count of lines over to the whole answer: as many
  different lines as `get_expected_response_count` says leave no position out (the
  pigeonhole principle; duplicates in the payload can only raise the count).
* `LinesKept`; `Implementation`, the refinement to `RequestReply`, whose only
  steps are the registration of a call, its completion, and its reply; and
  `AllLinesReadCompletes`, which needs the premise that no payload names a
  position twice: without it the property is false (run `worker_duplicates`).

`AnalyzeServiceProofs`, for any number of models, workers, slots and requests
(`ServiceAssumption`):

* `Balanced`, `Statistics`, `Successes`, `HealthReports` and `TypeCorrectness`, from
  an invariant whose parts are `RequestInv` (how far a request has come and what it
  was sent), `HealthInv`, the statistics themselves, and `BalanceInv`: the workers
  before the round-robin index have been chosen once more than the others, from
  which the difference of one follows.
* `LiveLoadBounded` and `LimitHoldsUntilATimeout` bound finding 3: of the queries
  that the engines of a gated model work on, at most `Limit` have a caller that was
  not told 504, so `EngineLoadWithinLimit` holds until the first timeout.  The
  invariants are `LoadInv` (an engine works for a caller who holds a slot, or for
  one who has been told 504), `SlotsInv` (no more holders than slots) and
  `FreshInv` (whoever still waits for a slot has no answer yet).

`WatchdogProofs`, for every set of rules, durations and periods
(`WatchdogAssumption`; `Repeat[r] <= Epoch`: at the time of installation 0.0 is
long ago):

* `FiresAreSustained`, `Repeats`, `NothingMissed`, `Resolving`, `DeadmanRuns`,
  `RestartsAreReal`, `TypeCorrectness`.  `TickInv` says what a tick has computed and
  still has to send.  `HistoryInv` compares the file with the past: `Remembered`, in
  all behaviours, no alert that was sent is unknown to the file; `Sustained`, as long
  as no rule has raised, a record is no older than the condition it stands for;
  `Exact`, as long as nothing has raised, it says when the condition began and when it
  was last sent.  `LastWordInv` compares the file with what was sent by any tick, as
  long as none was killed in between.  `RestartInv` counts the restarts that the next
  tick may still see, so that none is counted twice after a reset of the counter.
* The premises are part of the properties, because the code fails without them.  A
  tick that does not reach a rule, since one before it raised, leaves its record
  alone, so `FireIsSustained` needs "no rule has raised" (section 5).  A tick that is
  killed after a message, before its save, makes `ResolvesMatchFires` fail, which
  therefore has `~unsaved`.
* `SuppressionIsEarned` bounds finding 4: `SuppressedOnlyIfSent` holds until a rule
  or `dispatch` raises, whatever is killed, late or not saved before that.

`MonitoringProofs`, for every window, `maxlen`, threshold and rate
(`MonitoringAssumption`: `0 < StalledMin <= MaxLen`, `worker_dead` without a
duration, as in `build_rules`; rules on outcomes are the only metric rules):

* `Implementation`: the snapshots of the real server are among those that
  `Watchdog` allows, so the invariant of `WatchdogProofs` holds here too, and the
  theorems below use it.
* `HungEngines` and `RecentAlerts` rest on `WindowInv`: the deque is the end of
  what was recorded, in the order of time; if more samples are in the window than
  the deque holds, then all that it holds are.  `CrashLoops` rests on `CrashInv`
  (what the next tick sees has happened since the file was written by a tick
  that read the counter), `DeadEngines` on `AnnouncedInv`, `OkPings` on `PingInv`
  and on `SystemInv`, which ties the snapshot of a tick to the server.
  `SystemTypes` is the type invariant.

`GoBoardProofs`, for every size of the board and every bound on the stones
(`GoBoardAssumption`: two colours, a size of at least one):

* `TypeCorrectness`, for all games.
* `RulesFollowed`, for games that put no stone in columns A and B and in the last one
  (`AwayFromEdges`): the code takes exactly the stones the rules take, and its counts
  are true.  The neighbours of such stones are in the columns 1..size in which
  `_neighbors` looks.  Nothing is claimed of other games: finding 5 has one with
  stones in column A, and with A empty a stone at B1 has no liberty at A1 for the code.
* The code looks for captures only from the neighbours of the last stone, the
  rules everywhere.  So `ReplayFollowsRules` is not inductive: a group that had no
  liberty before the move would be missed.  `IInv` adds that no stone of either
  colour is without a liberty between two moves (`Settled`); `PlacedTakesTheDead`
  shows for one turn that `Captured`, then the check of the own group, take all
  that is dead and leave the board settled.
* `GroupIsLeastClosed`: the recursion of `GroupOf` returns the least set of stones
  around the start that is closed under adjacency.  The recursive function exists
  because least closed sets satisfy its equation (`ClosureUnfolds`).  That its
  values are these needs no induction operator: strict inclusion is well founded
  on a finite set of stones, so there would be a largest group for which the
  statement fails, and one step of the recursion makes it larger.
* `PointsMatch`, `StonePlacedMatches`, `StonesTakenMatch` and `DeadMatch` carry
  stones, neighbours and the dead from GTP points to the code's coordinates, and
  `AsManyStones` the number of stones.

`SequenceLemmas` has the facts about sequences used as queues.

Only model-checked: liveness (`EveryRequestGetsIn`, `EventuallyAnswered`,
`DeathIsReported`, `EveryRequestAnswered`, `DeathReachesHealth`), because TLAPS
does not handle fairness and ENABLED; and the five findings, which are
counterexamples.

## 5. Findings

1. `worker_exit`: `_handle_process_exit` tests and sets its flag in two steps;
   both readers can log the end of the process (`analysis/worker.py:70-72`), once
   each (`SecondRecordIsTheOtherReaders`).
2. `worker_duplicates`: repeated positions in `analyzeTurns` are counted, but
   answered once; the call ends by its timeout with all answers in hand
   (`analysis/payload_analyzer.py:8`).
3. `service_load`: the limit is one of awaiting callers, not of queries in the
   engine: a timeout frees the slot and leaves the query (`main.py:127-128`); no
   other step does (`LimitHoldsUntilATimeout`).
4. `watchdog_lost`: records are marked as announced before anything is sent; an
   exception in a later rule, or in the dispatch of an event, loses the alert and
   suppresses it for its repeat interval (`monitoring/watchdog.py:67-69`, `166-170`,
   `monitoring/notify.py:29`).  Without an exception nothing has this effect in the
   model (`SuppressionIsEarned`); a message that Slack does not take counts as sent.
5. `go_board_columns`: columns are counted from 0 and rows from 1, neighbours are
   looked for in 1..size for both: a stone in column A is nobody's neighbour, and
   captures at both edges are missed or invented (`utils/go_board.py:14`, `22`).

Not runs, but worth knowing; each is left open by a premise of a property, or by
what it counts.

* A duration of N minutes takes N + 1 ticks (`monitoring/watchdog.py:60`), while
  `monitoring/rules.py:8` counts N ticks ("5 ticks in a row" for 300 seconds).
* `active_since` survives ticks in which an exception kept the rule from being
  evaluated, so an alert can be made of two episodes with a pause between them
  (`monitoring/watchdog.py:44-60`, `166-170`; premise of `FireIsSustained`).
* A tick that is killed after it sent a message and before it saved: an alert it sent
  may never be resolved, if the condition is gone in the next tick; a resolve it sent
  is sent again, or is the last word until the repeat interval is over, if the
  condition comes back.  `monitoring/docs/monitoring.md:269` promises one resolve
  (premise of `ResolvesMatchFires`).
* When the unit is found inactive, the records are cleared, and alerts that were
  announced are forgotten without a resolve (`monitoring/watchdog.py:157-162`).
* When the server does not answer, `worker_dead` is evaluated on an empty list and
  is resolved, although the engine is still dead; it comes back with the next
  report, and never later than its repeat interval (`DeadEngineAnnounced`).
* When `/health` answers with an error whose body cannot be read, the server counts as
  reached and no engine as dead (`monitoring/collect.py:70-75`, `106-116`): neither
  `server_unreachable` nor `worker_dead` is announced for as long as it goes on.  Only
  the success ping is withheld (`OkPingMeansAlive`).
* An engine that hangs but still refuses some requests can stay below the minimum of
  timeouts of `model_stalled` (premise of `HungIsSeen`).
* `crash_loop` says "within one minute" (`monitoring/rules.py:68`, `76`,
  `monitoring.md:251`), but the restarts are those since a completed tick last read
  NRestarts, which is longer ago when ticks are late, killed, or get nothing from
  systemctl.  And a manual restart, which `monitoring/rules.py:70` and
  `monitoring.md:271` take for one restart of the counter, resets NRestarts, as
  modelled here after systemd's description of it (`CrashLoopIsReal`).

## 6. Not modelled

* Latency percentiles of `analysis/metrics.py` and the sampling of `nvidia-smi`:
  arithmetic on floats.  The rules on latencies, GPU, memory and disk are
  reduced to whether they hold, do not, or raise (`over`, `raising`).
* More than one model in `Monitoring`: `model_stalled` looks at each model by
  itself, `timeout_rate` adds the outcomes of all of them up.
* `utils/generate_random_moves.py` and the regular expressions of the SGF parser.
* Endgame prediction: floating-point features and a classifier.
* Access control, selftest, response envelopes, logging: no state.
* Configuration: its values are the CONSTANTS.
* Start-up: a missing model file ends the process.
* Real time: the length of a tick's network calls, of a timeout, of a search.
* What the engine does with an empty `analyzeTurns`; partial and warning lines.
* In `_handle_process_exit`, the branch for a process that closes its pipes and lives
  on (`TimeoutExpired`, `analysis/worker.py:74-77`): in the model the pipes end with
  the process.  An exception of `readline` outside the `try`
  (`analysis/worker.py:111`), which would end the reader.
* In `Monitoring`, a 200 for `/health` that does not come from the server.
* SGF coordinates past the end of `GTP_COLS` raise `IndexError`
  (`utils/sgf_parser.py:16-18`), "tt" among them where it means a pass; the model has
  the points of the board, and a pass is the empty string.
* The length of `write_queue`, which the code does not bound.

## 7. Plan

Done: the gate, worker, service and watchdog with their runs; the composition
with the server and its windows; the board; theorems for all safety properties,
for the refinements, and for the limits of three findings.  What could
come next:

1. Two models in `Monitoring`: the timeouts of one can be hidden from
   `timeout_rate` by the traffic of the other, and only `model_stalled` is left.
2. A composition of `KataGoWorker` and `AnalyzeService` in one behaviour, in place
   of the argument of section 2: the fairness that the service assumes of calls
   is the liveness that the worker has.
3. A resolve whose truth is a property: today the code has no state for "not
   known", so none can be stated that holds.
4. The replay at the side edges: which counts go wrong, once column A is in play.
