---------------------------- MODULE KataGoWorker ----------------------------
(***************************************************************************)
(* analysis/worker.py, class KataGoWorker: one KataGo process, the three   *)
(* threads that serve its pipes, and the coroutine analyze() that the      *)
(* request handlers await.                                                 *)
(*                                                                         *)
(* Actors: the tasks of the event loop (one per call of analyze, running   *)
(* alone between two awaits, as in ConcurrencyGate), the writer thread,    *)
(* the reader of stdout, the reader of stderr, the loop's callback queue,  *)
(* the timer of each call, and the engine.  A section under futures_lock   *)
(* is one step.                                                            *)
(*                                                                         *)
(* The engine is external: it reads queries from stdin, works on many at   *)
(* once, answers with one line per distinct position in any order (it      *)
(* drops duplicates, tests/benchmarks/kg_bench_lib.py:86-90), may refuse a *)
(* query with an error line, may be arbitrarily slow or hung, and may die  *)
(* at any moment.  The contents of an analysis are reduced to the call and *)
(* the position it is about; an empty analyzeTurns is left out, what the   *)
(* engine does with it is not known from this repository.  Blank and       *)
(* unparsable lines are skipped like the lines of forgotten queries, and   *)
(* only the latter are modelled.                                           *)
(* Time is not measured: the timer of a call may fire at any moment.       *)
(***************************************************************************)
EXTENDS Integers, Sequences, FiniteSets

CONSTANTS
    Requests,    \* calls of analyze; the fresh uuid of a call is its member
    Turns,       \* [Requests -> payload["analyzeTurns"], or Unset]
    Unset,
    ExternalId,  \* [Requests -> payload["id"] as the client sent it]
    Error,       \* in place of a position: an "error" line
    Current,     \* the position analysed when analyzeTurns is not given
    PipeSize,    \* lines that fit in a pipe between server and engine
    Nobody

Position == {Current, Error} \cup
            UNION {{Turns[r][i] : i \in DOMAIN Turns[r]} :
                      r \in {q \in Requests : Turns[q] # Unset}}

ASSUME WorkerAssumption ==
    /\ IsFiniteSet(Requests)
    /\ Nobody \notin Requests
    /\ PipeSize \in Nat \ {0}
    /\ Error # Current
    /\ \A r \in Requests :
          Turns[r] # Unset => /\ Turns[r] \in Seq(Position \ {Error})
                              /\ Turns[r] # <<>>

VARIABLES
    \* calls of analyze, on the event loop
    pc,          \* [Requests -> place in analyze]
    running,     \* the call whose task runs, or Nobody
    future,      \* [Requests -> state of the call's asyncio future]
    result,      \* [Requests -> the lines the future was completed with]
    timerFired,  \* calls whose timeout has elapsed
    ready,       \* set_result callbacks scheduled by the reader thread
    reply,       \* [Requests -> what analyze returned]
    \* shared between threads
    registered,  \* keys of self.futures
    lines,       \* [Requests -> accumulated results list]
    writeQueue,  \* self.write_queue
    writing,     \* the query the writer thread has taken, or Nobody
    exitLogged,  \* self._exit_logged
    exitPc,      \* [{"stdout", "stderr"} -> place in _handle_process_exit]
    exitLog,     \* log records about the exit of the process
    \* the engine
    alive,       \* process.poll() is None
    exitCode,    \* how it ended
    stdin, stdout,
    left,        \* [Requests -> positions of an accepted query not answered]
    accepted     \* queries the engine has read

taskVars == <<pc, running>>
futureVars == <<future, result, timerFired, reply>>
callVars == <<taskVars, futureVars>>
readerVars == <<ready, registered, lines>>
writerVars == <<writeQueue, writing>>
exitVars == <<exitLogged, exitPc, exitLog>>
processVars == <<alive, exitCode, stdin>>
engineVars == <<left, accepted>>
threadVars == <<writing, exitVars, processVars, stdout, engineVars>>
vars == <<callVars, readerVars, writerVars, exitVars, processVars, stdout, engineVars>>

Readers == {"stdout", "stderr"}

\* The positions the engine answers a query for.
Positions == [r \in Requests |->
    IF Turns[r] = Unset THEN {Current} ELSE {Turns[r][i] : i \in DOMAIN Turns[r]}]

EngineLine(r, t) == [id |-> r, about |-> r, turn |-> t]

EngineLines == {EngineLine(r, t) : r \in Requests, t \in Position}
ReplyLines == {[id |-> ExternalId[r], about |-> q, turn |-> t] :
                  r \in Requests, q \in Requests, t \in Position}

Nothing == [kind |-> "nothing", lines |-> <<>>]
Timeout == [kind |-> "timeout", lines |-> <<>>]
Answer(ls) == [kind |-> "lines", lines |-> ls]

TypeOK ==
    /\ pc \in [Requests -> {"new", "registered", "awaiting", "expired", "answered"}]
    /\ running \in Requests \cup {Nobody}
    /\ future \in [Requests -> {"none", "pending", "done", "cancelled"}]
    /\ result \in [Requests -> Seq(EngineLines)]
    /\ timerFired \subseteq Requests
    /\ ready \in Seq([call : Requests, lines : Seq(EngineLines)])
    /\ reply \in [Requests ->
          [kind : {"nothing", "timeout", "lines"}, lines : Seq(ReplyLines)]]
    /\ registered \subseteq Requests
    /\ lines \in [Requests -> Seq(EngineLines)]
    /\ writeQueue \in Seq(Requests)
    /\ writing \in Requests \cup {Nobody}
    /\ exitLogged \in BOOLEAN
    /\ exitPc \in [Readers -> {"reading", "checked", "waiting", "done"}]
    /\ exitLog \in Seq({"info", "error"})
    /\ alive \in BOOLEAN
    /\ exitCode \in {"running", "sigterm", "other"}
    /\ stdin \in Seq(Requests)
    /\ stdout \in Seq(EngineLines)
    /\ left \in [Requests -> SUBSET Position]
    /\ accepted \subseteq Requests

Init ==
    /\ pc = [r \in Requests |-> "new"]
    /\ running = Nobody
    /\ future = [r \in Requests |-> "none"]
    /\ result = [r \in Requests |-> <<>>]
    /\ timerFired = {}
    /\ ready = <<>>
    /\ reply = [r \in Requests |-> Nothing]
    /\ registered = {}
    /\ lines = [r \in Requests |-> <<>>]
    /\ writeQueue = <<>>
    /\ writing = Nobody
    /\ exitLogged = FALSE
    /\ exitPc = [t \in Readers |-> "reading"]
    /\ exitLog = <<>>
    /\ alive = TRUE
    /\ exitCode = "running"
    /\ stdin = <<>>
    /\ stdout = <<>>
    /\ left = [r \in Requests |-> {}]
    /\ accepted = {}

-----------------------------------------------------------------------------
(* The calls of analyze, on the event loop.                                *)

\* get_expected_response_count(payload): duplicates are counted.
ExpectedCount(turns) ==
    IF turns = Unset THEN 1
    ELSE IF Len(turns) > 1 THEN Len(turns) ELSE 1

Go(r, from, to) == pc[r] = from /\ pc' = [pc EXCEPT ![r] = to]
Begin(r, from, to) == running = Nobody /\ Go(r, from, to) /\ running' = r
End(r, from, to) == running = r /\ Go(r, from, to) /\ running' = Nobody

\* Mutant: the future is stored under the client's own id.
RegisteredWithout(r) == registered

\* `self.futures[internal_id] = ...`
RegisteredWith(r) == registered \cup {r}

\* analyze() up to the end of the block that stores the future.
Register(r) ==
    /\ Begin(r, "new", "registered")
    /\ future' = [future EXCEPT ![r] = "pending"]
    /\ registered' = RegisteredWith(r)
    /\ UNCHANGED <<result, timerFired, reply, ready, lines, writeQueue, threadVars>>

\* `self.write_queue.put(query_str)`, then wait_for suspends the task.
Enqueue(r) ==
    /\ End(r, "registered", "awaiting")
    /\ writeQueue' = Append(writeQueue, r)
    /\ UNCHANGED <<futureVars, readerVars, threadVars>>

\* The timeout of wait_for elapses.  CPython 3.12 cancels the awaited future
\* at once, 3.11 when the task runs next.
TimerFires(r) ==
    /\ running = Nobody
    /\ pc[r] = "awaiting"
    /\ r \notin timerFired
    /\ timerFired' = timerFired \cup {r}
    /\ \/ UNCHANGED future
       \/ future[r] = "pending" /\ future' = [future EXCEPT ![r] = "cancelled"]
    /\ UNCHANGED <<taskVars, result, reply, readerVars, writeQueue, threadVars>>

\* The loop runs `future.set_result(results_list)`.  On a future that is no
\* longer pending it raises InvalidStateError, which the loop logs.
RunCallback ==
    /\ running = Nobody
    /\ ready # <<>>
    /\ ready' = Tail(ready)
    /\ LET c == Head(ready) IN
          IF future[c.call] = "pending"
          THEN /\ future' = [future EXCEPT ![c.call] = "done"]
               /\ result' = [result EXCEPT ![c.call] = c.lines]
          ELSE UNCHANGED <<future, result>>
    /\ UNCHANGED <<taskVars, timerFired, reply, registered, lines, writeQueue, threadVars>>

\* wait_for returns: the caller's id is put back on every line.  A timer that
\* has fired as well does not matter on CPython 3.11.
Return(r) ==
    /\ running = Nobody
    /\ Go(r, "awaiting", "answered")
    /\ future[r] = "done"
    /\ reply' = [reply EXCEPT ![r] = Answer(
          [i \in DOMAIN result[r] |-> [result[r][i] EXCEPT !.id = ExternalId[r]]])]
    /\ UNCHANGED <<running, future, result, timerFired, readerVars, writeQueue, threadVars>>

\* Mutant: a call whose entry the reader has taken goes on waiting.
ExpiredIfRegistered(r) == r \in timerFired /\ r \in registered

Expired(r) == r \in timerFired

\* wait_for raises TimeoutError and the handler is entered.  CPython 3.12 does
\* so even if the result came in after the timer.
Expire(r) ==
    /\ Expired(r)
    /\ Begin(r, "awaiting", "expired")
    /\ future' = [future EXCEPT ![r] = IF @ = "pending" THEN "cancelled" ELSE @]
    /\ UNCHANGED <<result, timerFired, reply, readerVars, writeQueue, threadVars>>

\* Mutant: the handler leaves the entry to the reader.
RegisteredStill(r) == registered

\* `if internal_id in self.futures: del self.futures[internal_id]`
RegisteredAfterTimeout(r) == registered \ {r}

\* The handler: drop the entry if the reader has not, and give up.
Forget(r) ==
    /\ End(r, "expired", "answered")
    /\ registered' = RegisteredAfterTimeout(r)
    /\ reply' = [reply EXCEPT ![r] = Timeout]
    /\ UNCHANGED <<future, result, timerFired, ready, lines, writeQueue, threadVars>>

-----------------------------------------------------------------------------
(* The three threads.                                                      *)

\* _writer_loop: the next query, if the thread is not inside a write.
WriterTake ==
    /\ writing = Nobody
    /\ writeQueue # <<>>
    /\ writing' = Head(writeQueue)
    /\ writeQueue' = Tail(writeQueue)
    /\ UNCHANGED <<callVars, readerVars, exitVars, processVars, stdout, engineVars>>

\* write and flush.  They block while the pipe is full; when the process is
\* gone they raise, which is printed: nobody is told.
WriterSend ==
    /\ writing # Nobody
    /\ alive => Len(stdin) < PipeSize
    /\ writing' = Nobody
    /\ stdin' = IF alive THEN Append(stdin, writing) ELSE stdin
    /\ UNCHANGED <<callVars, readerVars, writeQueue, exitVars, alive, exitCode,
                   stdout, engineVars>>

\* Mutants: the comparison is strict; any line completes the call.
CompletesLate(line, n, r) == line.turn = Error \/ n > ExpectedCount(Turns[r])
CompletesAtOnce(line, n, r) == n >= 1

\* `"error" in result or len(results_list) >= expected_lines`
Completes(line, n, r) == line.turn = Error \/ n >= ExpectedCount(Turns[r])

\* Mutants: an error line ends the query and completes nothing; a completed
\* query stays registered.
SwallowError(r, all) ==
    /\ registered' = registered \ {r}
    /\ ready' = IF all[Len(all)].turn = Error THEN ready
                ELSE Append(ready, [call |-> r, lines |-> all])

CompleteAgain(r, all) ==
    ready' = Append(ready, [call |-> r, lines |-> all]) /\ UNCHANGED registered

\* `del self.futures[query_id]; loop.call_soon_threadsafe(...)`
Complete(r, all) ==
    /\ registered' = registered \ {r}
    /\ ready' = Append(ready, [call |-> r, lines |-> all])

\* _reader_loop: one line of stdout.  Lines of unknown queries are skipped.
ReadLine ==
    /\ exitPc["stdout"] = "reading"
    /\ stdout # <<>>
    /\ stdout' = Tail(stdout)
    /\ LET line == Head(stdout)
           r    == line.id
           all  == Append(lines[r], line)
       IN IF r \notin registered
          THEN UNCHANGED readerVars
          ELSE /\ lines' = [lines EXCEPT ![r] = all]
               /\ IF Completes(line, Len(all), r)
                  THEN Complete(r, all)
                  ELSE UNCHANGED <<registered, ready>>
    /\ UNCHANGED <<callVars, writerVars, exitVars, processVars, engineVars>>

\* A pipe is at its end when the process is gone and all it printed is read.
EndOfFile(t) == ~alive /\ (t = "stdout" => stdout = <<>>)

ExitStep(t, from, to) ==
    /\ exitPc[t] = from
    /\ exitPc' = [exitPc EXCEPT ![t] = to]
    /\ UNCHANGED <<callVars, readerVars, writerVars, processVars, stdout, engineVars>>

\* Mutant: the guard is inverted.
LeavesLogToOther == ~exitLogged

\* `self._exit_logged.is_set()`
LoggedByOther == exitLogged

\* _handle_process_exit of the reader of pipe t, up to the early return.
CheckExitLogged(t) ==
    /\ EndOfFile(t)
    /\ ExitStep(t, "reading", IF LoggedByOther THEN "done" ELSE "checked")
    /\ UNCHANGED <<exitLogged, exitLog>>

\* `self._exit_logged.set()`
ClaimExitLog(t) ==
    /\ ExitStep(t, "checked", "waiting")
    /\ exitLogged' = TRUE
    /\ UNCHANGED exitLog

\* Mutants: the exit code is taken for the level of the record; an end by
\* SIGTERM is not recorded at all.
CodeRecord == <<exitCode>>
CrashRecord == IF exitCode = "sigterm" THEN <<>> ELSE <<"error">>

ExitRecord == IF exitCode = "sigterm" THEN <<"info">> ELSE <<"error">>

\* process.wait() and the record.
LogExit(t) ==
    /\ ExitStep(t, "waiting", "done")
    /\ exitLog' = exitLog \o ExitRecord
    /\ UNCHANGED exitLogged

-----------------------------------------------------------------------------
(* The engine (external).                                                  *)

EngineRead ==
    /\ alive
    /\ stdin # <<>>
    /\ stdin' = Tail(stdin)
    /\ accepted' = accepted \cup {Head(stdin)}
    /\ left' = [left EXCEPT ![Head(stdin)] = Positions[Head(stdin)]]
    /\ UNCHANGED <<callVars, readerVars, writerVars, exitVars, alive, exitCode, stdout>>

EnginePrints(line) ==
    /\ alive
    /\ Len(stdout) < PipeSize
    /\ stdout' = Append(stdout, line)
    /\ UNCHANGED <<callVars, readerVars, writerVars, exitVars, processVars, accepted>>

EngineAnswers(r, t) ==
    /\ t \in left[r]
    /\ left' = [left EXCEPT ![r] = @ \ {t}]
    /\ EnginePrints(EngineLine(r, t))

\* A query is checked before any of its positions is searched.
EngineRefuses(r) ==
    /\ r \in accepted
    /\ left[r] = Positions[r]
    /\ left' = [left EXCEPT ![r] = {}]
    /\ EnginePrints(EngineLine(r, Error))

\* A crash, a kill, or the SIGTERM of `systemctl stop`.
EngineDies(code) ==
    /\ alive
    /\ alive' = FALSE
    /\ exitCode' = code
    /\ UNCHANGED <<callVars, readerVars, writerVars, exitVars, stdin, stdout, engineVars>>

-----------------------------------------------------------------------------
Next ==
    \/ \E r \in Requests :
          \/ Register(r)
          \/ Enqueue(r)
          \/ TimerFires(r)
          \/ Return(r)
          \/ Expire(r)
          \/ Forget(r)
          \/ EngineRefuses(r)
          \/ \E t \in Positions[r] : EngineAnswers(r, t)
    \/ RunCallback
    \/ WriterTake
    \/ WriterSend
    \/ ReadLine
    \/ \E t \in Readers : CheckExitLogged(t) \/ ClaimExitLog(t) \/ LogExit(t)
    \/ EngineRead
    \/ \E code \in {"sigterm", "other"} : EngineDies(code)

Spec == Init /\ [][Next]_vars

(***************************************************************************)
(* Fairness.  A running task gets to its next await; timers fire, and the  *)
(* loop gets round to every callback and task that is ready (other tasks   *)
(* run in between, hence strong).  The reader threads log the end of the   *)
(* process.  The engine and the writer owe nothing: a hung engine or a     *)
(* full pipe is allowed to last for ever.                                  *)
(***************************************************************************)
Fairness ==
    /\ \A r \in Requests :
          /\ WF_vars(Enqueue(r) \/ Forget(r))
          /\ SF_vars(TimerFires(r))
          /\ SF_vars(Return(r) \/ Expire(r))
    /\ WF_vars(ReadLine)
    /\ \A t \in Readers :
          WF_vars(CheckExitLogged(t) \/ ClaimExitLog(t) \/ LogExit(t))

LiveSpec == Spec /\ Fairness

-----------------------------------------------------------------------------
\* Calls that wait and whose time is not up.
Waiting == {r \in Requests : pc[r] = "awaiting" /\ r \notin timerFired}

CallbackFor(r) == \E i \in DOMAIN ready : ready[i].call = r

\* A call that waits can still be completed: the reader knows its future, or
\* the completion is on its way (worker.py:119-128, 148-152).
NoStrandedRequest ==
    \A r \in Waiting : future[r] = "pending" => r \in registered \/ CallbackFor(r)

\* A future is completed at most once, however many lines arrive: while a
\* completion is on its way no other is, the future is not done, and the
\* reader no longer knows it (worker.py:126-128).
AtMostOneCompletion ==
    \A i \in DOMAIN ready :
       /\ future[ready[i].call] # "done"
       /\ ready[i].call \notin registered
       /\ \A j \in DOMAIN ready : ready[j].call = ready[i].call => i = j

\* A call that has been answered, in time or not, leaves no entry behind:
\* self.futures does not grow with timeouts (worker.py:160-164).
AnsweredRequestForgotten == \A r \in Requests : pc[r] = "answered" => r \notin registered

\* Lines of a call are never dropped while the call waits, not even when the
\* engine answers before the call got to await its future (worker.py:119-122).
NoLineDropped ==
    [][\A r \in Waiting : stdout # <<>> /\ stdout' = Tail(stdout) /\ Head(stdout).id = r
          => lines'[r] = Append(lines[r], Head(stdout))]_vars

\* Once every line the engine has for a call is read, the call is completed
\* (worker.py:125, payload_analyzer.py:1-9).
CompletedQueryNotLeftWaiting ==
    \A r \in registered :
       r \in accepted /\ left[r] = {} => \E i \in DOMAIN stdout : stdout[i].id = r

\* When the process ends, a reader says so in the log (worker.py:66-69).
ExitIsLogged == (\A t \in Readers : exitPc[t] = "done") => exitLog # <<>>

\* And says so once (worker.py:68, "한 번만 기록한다").
ExitLoggedOnce == Len(exitLog) <= 1

\* Every call is answered, even if the process is dead or hung (worker.py:155).
EventuallyAnswered == \A r \in Requests : pc[r] = "registered" ~> pc[r] = "answered"

\* The end of the process does not go unnoticed (worker.py:96, 133).
DeathIsReported == ~alive ~> exitLog # <<>>

\* What the calls observe is RequestReply.
Promise == INSTANCE RequestReply WITH
    asked <- {r \in Requests : pc[r] # "new"}

ImplementsRequestReply == Promise!Spec
=============================================================================
