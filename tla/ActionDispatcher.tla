-------------------------- MODULE ActionDispatcher --------------------------
(***************************************************************************)
(* The action dispatcher (runtime/action_dispatcher.go): callers of        *)
(* Execute and ExecuteAsync, the bounded task queue, the workers, the      *)
(* retries with their timeouts, and Start and Stop.                        *)
(*                                                                         *)
(* Each attempt of a call is a task of its own, <<caller, attempt>>, with  *)
(* a result channel of its own that holds one answer.  The timeout covers  *)
(* an attempt's wait for room in the queue and for its answer; time is a   *)
(* choice, so it may expire whenever the caller waits.  Nothing takes the  *)
(* task back: it stays queued or running when its caller has gone, and     *)
(* when the dispatcher is stopped and started again.                       *)
(*                                                                         *)
(* activeTasks is filled and emptied inside one critical section, so       *)
(* CancelAction never finds a task and returns false: it changes nothing   *)
(* and is left out, like cancelCh, which only it writes.  No handler in    *)
(* src calls ctx.CancelFunc.                                               *)
(***************************************************************************)
EXTENDS Integers, Sequences, FiniteSets

CONSTANTS
  Callers,       \* calls of Execute and ExecuteAsync, each with an action of its own
  Async,         \* those of ExecuteAsync
  Retries,       \* attempts of a call (Action.Retries, at least 1)
  WorkerCount,
  Goroutines,    \* numbers of worker goroutines
  QueueCap,      \* capacity of taskQueue (1000 in the code)
  MaxStarts,     \* bound on the number of Starts
  NoTask

ASSUME DispatcherAssumption ==
  /\ Async \subseteq Callers
  /\ Retries \in Nat \ {0} /\ WorkerCount \in Nat \ {0}
  /\ Goroutines \subseteq Nat /\ IsFiniteSet(Goroutines)
  /\ QueueCap \in Nat /\ MaxStarts \in Nat
  /\ NoTask \notin Callers \X (1..Retries)

VARIABLES
  call,         \* where each caller is, its attempt and what it returned
  queue,        \* taskQueue
  worker,       \* each worker goroutine: where it is, its task and the handler's outcome
  told,         \* workers whose stopCh is closed
  answers,      \* what each task's result channel was sent
  resultCache,  \* results by action, kept under ad.mu
  phase,        \* "stopped", "running", "stopping": Stop waits for the workers, or
                \* "dead": the process has panicked
  starts,
  runs          \* history: how often each task's handler was started

callVars   == <<call, answers>>
workerVars == <<worker, told, resultCache, runs>>
lifeVars   == <<phase, starts>>
vars == <<callVars, queue, workerVars, lifeVars>>

Tasks   == Callers \X (1..Retries)
Results == {"none", "ok", "failed"}

TaskOf(c) == <<c, call[c].attempt>>
Off  == [pc |-> "off", task |-> NoTask, result |-> "none"]
Idle == [pc |-> "idle", task |-> NoTask, result |-> "none"]

-----------------------------------------------------------------------------
(* Callers. *)

Execute(c) ==
  /\ c \notin Async /\ call[c].pc = "new"
  /\ call' = [call EXCEPT ![c] = [pc |-> "send", attempt |-> 1, result |-> "none"]]
  /\ UNCHANGED <<answers, queue, workerVars, lifeVars>>

Send(c) ==
  /\ call[c].pc = "send"
  /\ Len(queue) < QueueCap
  /\ queue' = Append(queue, TaskOf(c))
  /\ call' = [call EXCEPT ![c].pc = "wait"]
  /\ UNCHANGED <<answers, workerVars, lifeVars>>

\* A failed attempt: back off and try again, or give up with the last error.
Failed(c) ==
  call' = [call EXCEPT ![c] =
             IF c \notin Async /\ @.attempt < Retries
             THEN [@ EXCEPT !.pc = "backoff"]
             ELSE [@ EXCEPT !.pc = "done", !.result = "failed"]]

\* Mutant: only the wait for room is limited.
TimeOutUnsent(c) ==
  /\ c \notin Async /\ call[c].pc = "send"
  /\ Failed(c)
  /\ UNCHANGED <<answers, queue, workerVars, lifeVars>>

TimeOut(c) ==
  /\ c \notin Async /\ call[c].pc \in {"send", "wait"}
  /\ Failed(c)
  /\ UNCHANGED <<answers, queue, workerVars, lifeVars>>

\* Mutant: any attempt's answer will do.
ReceiveAny(c) ==
  /\ call[c].pc = "wait"
  /\ \E a \in 1..call[c].attempt :
       /\ answers[<<c, a>>] # "none"
       /\ IF answers[<<c, a>>] = "ok"
          THEN call' = [call EXCEPT ![c].pc = "done", ![c].result = "ok"]
          ELSE Failed(c)
  /\ UNCHANGED <<answers, queue, workerVars, lifeVars>>

Receive(c) ==
  /\ call[c].pc = "wait" /\ answers[TaskOf(c)] # "none"
  /\ IF answers[TaskOf(c)] = "ok"
     THEN call' = [call EXCEPT ![c].pc = "done", ![c].result = "ok"]
     ELSE Failed(c)
  /\ UNCHANGED <<answers, queue, workerVars, lifeVars>>

\* Mutant: the next attempt sends the same task again.
RetrySameTask(c) ==
  /\ call[c].pc = "backoff"
  /\ call' = [call EXCEPT ![c].pc = "send"]
  /\ UNCHANGED <<answers, queue, workerVars, lifeVars>>

Retry(c) ==
  /\ call[c].pc = "backoff"
  /\ call' = [call EXCEPT ![c].pc = "send", ![c].attempt = @ + 1]
  /\ UNCHANGED <<answers, queue, workerVars, lifeVars>>

\* ErrNoAvailableWorkers at once when the queue is full; no timeout later.
ExecuteAsync(c) ==
  LET room == Len(queue) < QueueCap
  IN  /\ c \in Async /\ call[c].pc = "new"
      /\ call' = [call EXCEPT ![c] = [pc      |-> IF room THEN "wait" ELSE "done",
                                      attempt |-> 1,
                                      result  |-> IF room THEN "none" ELSE "failed"]]
      /\ queue' = IF room THEN Append(queue, <<c, 1>>) ELSE queue
      /\ UNCHANGED <<answers, workerVars, lifeVars>>

CallerStep(c) == Send(c) \/ TimeOut(c) \/ Receive(c) \/ Retry(c)

-----------------------------------------------------------------------------
(* Workers. *)

\* The select of runWorker: with a task in the queue and stopCh closed, either
\* may be chosen.
Take(w) ==
  /\ worker[w].pc = "idle" /\ queue # << >>
  /\ worker' = [worker EXCEPT ![w] = [pc |-> "run", task |-> Head(queue), result |-> "none"]]
  /\ queue' = Tail(queue)
  /\ runs' = [runs EXCEPT ![Head(queue)] = @ + 1]
  /\ UNCHANGED <<callVars, told, resultCache, lifeVars>>

Quit(w) ==
  /\ worker[w].pc = "idle" /\ w \in told
  /\ worker' = [worker EXCEPT ![w] = Off]
  /\ told' = told \ {w}
  /\ UNCHANGED <<callVars, queue, resultCache, runs, lifeVars>>

\* The handler, the resolver or the external worker returns.
HandlerReturns(w, result) ==
  /\ worker[w].pc = "run"
  /\ worker' = [worker EXCEPT ![w].pc = "cache", ![w].result = result]
  /\ UNCHANGED <<callVars, queue, told, resultCache, runs, lifeVars>>

CacheResult(w) ==
  /\ worker[w].pc = "cache"
  /\ resultCache' = [resultCache EXCEPT ![worker[w].task[1]] = worker[w].result]
  /\ worker' = [worker EXCEPT ![w].pc = "answer"]
  /\ UNCHANGED <<callVars, queue, told, runs, lifeVars>>

\* The send that never waits: a full channel would drop the result.
Answer(w) ==
  /\ worker[w].pc = "answer"
  /\ answers' = [answers EXCEPT ![worker[w].task] = IF @ = "none" THEN worker[w].result ELSE @]
  /\ worker' = [worker EXCEPT ![w] = Idle]
  /\ UNCHANGED <<call, queue, told, resultCache, runs, lifeVars>>

TaskStep(w) ==
  \/ HandlerReturns(w, "ok") \/ HandlerReturns(w, "failed")
  \/ CacheResult(w) \/ Answer(w)

-----------------------------------------------------------------------------
(* Start and Stop. *)

\* Goroutines for the new workers: the lowest numbers that are free.
Fresh ==
  LET free == {w \in Goroutines : worker[w].pc = "off"}
  IN  {w \in free : Cardinality({v \in free : v < w}) < WorkerCount}

\* Start returns nil without effect while running, and so while Stop waits.
Start ==
  /\ phase = "stopped" /\ starts < MaxStarts
  /\ worker' = [w \in Goroutines |-> IF w \in Fresh THEN Idle ELSE worker[w]]
  /\ phase' = "running"
  /\ starts' = starts + 1
  /\ UNCHANGED <<callVars, queue, told, resultCache, runs>>

\* Mutant: only the dispatcher's own stopCh is closed.
BeginStopUntold ==
  /\ phase = "running"
  /\ phase' = "stopping"
  /\ UNCHANGED <<callVars, queue, workerVars, starts>>

BeginStop ==
  /\ phase = "running"
  /\ phase' = "stopping"
  /\ told' = {w \in Goroutines : worker[w].pc # "off"}
  /\ UNCHANGED <<callVars, queue, worker, resultCache, runs, starts>>

\* running is still true while Stop waits: another Stop passes the check and
\* closes stopCh, its first step, a second time.
StopAgain ==
  /\ phase = "stopping"
  /\ phase' = "dead"
  /\ UNCHANGED <<callVars, queue, workerVars, starts>>

\* wg.Wait is over.
FinishStop ==
  /\ phase = "stopping"
  /\ \A w \in Goroutines : worker[w].pc = "off"
  /\ phase' = "stopped"
  /\ UNCHANGED <<callVars, queue, workerVars, starts>>

-----------------------------------------------------------------------------
Init ==
  /\ call = [c \in Callers |-> [pc |-> "new", attempt |-> 1, result |-> "none"]]
  /\ queue = << >>
  /\ worker = [w \in Goroutines |-> Off] /\ told = {}
  /\ answers = [t \in Tasks |-> "none"]
  /\ resultCache = [c \in Callers |-> "none"]
  /\ phase = "stopped" /\ starts = 0
  /\ runs = [t \in Tasks |-> 0]

Alive == phase # "dead"

Next ==
  /\ Alive
  /\ \/ \E c \in Callers : Execute(c) \/ ExecuteAsync(c) \/ CallerStep(c)
     \/ \E w \in Goroutines : Take(w) \/ TaskStep(w) \/ Quit(w)
     \/ Start \/ BeginStop \/ StopAgain \/ FinishStop

Spec == Init /\ [][Next]_vars

\* Timers fire. Handlers return, and a worker that may choose to quit each time
\* it is idle does so in the end: Go's select chooses among the ready cases at
\* random. Nothing is assumed of Take: workers may be busy for ever.
Fairness ==
  /\ \A c \in Callers : WF_vars(Alive /\ CallerStep(c))
  /\ \A w \in Goroutines : WF_vars(Alive /\ TaskStep(w)) /\ SF_vars(Alive /\ Quit(w))
  /\ WF_vars(Alive /\ FinishStop)

FairSpec == Spec /\ Fairness

-----------------------------------------------------------------------------
\* Shape of the state.
TypeOK ==
  /\ call \in [Callers -> [pc : {"new", "send", "wait", "backoff", "done"},
                           attempt : 1..Retries, result : Results]]
  /\ queue \in Seq(Tasks) /\ Len(queue) <= QueueCap
  /\ worker \in [Goroutines -> [pc : {"off", "idle", "run", "cache", "answer"},
                                task : Tasks \cup {NoTask}, result : Results]]
  /\ told \subseteq Goroutines
  /\ answers \in [Tasks -> Results] /\ resultCache \in [Callers -> Results]
  /\ phase \in {"stopped", "running", "stopping", "dead"} /\ starts \in 0..MaxStarts
  /\ runs \in [Tasks -> Nat]

\* A call's handler is started at most once per attempt, however timeouts,
\* late answers, retries and a restart that finds old tasks in the queue
\* interleave: an action may run Retries times, and never more.
OneRunPerAttempt ==
  \A c \in Callers, a \in 1..Retries :
    /\ runs[<<c, a>>] <= 1
    /\ runs[<<c, a>>] = 1 => a <= call[c].attempt

\* What Execute returns is what the handler of its last attempt returned, never
\* a late answer of an attempt it gave up; and the result cache has an entry for
\* the action by the time its caller knows.
SuccessIsCurrent ==
  \A c \in Callers : call[c].result = "ok" =>
    /\ runs[TaskOf(c)] = 1 /\ answers[TaskOf(c)] = "ok"
    /\ resultCache[c] # "none"

\* "Concurrency control": stopping and starting again never leaves more workers
\* than were configured, and after Stop returned no handler runs.
WorkersBounded ==
  /\ Cardinality({w \in Goroutines : worker[w].pc # "off"}) <= WorkerCount
  /\ phase = "stopped" => \A w \in Goroutines : worker[w].pc = "off"

\* Together: no attempt of a call runs twice and no two generations of workers
\* run beside each other, so a handler runs as often, and as many run at once, as
\* Execute's retries and the configured workers allow.
RunsBounded == OneRunPerAttempt /\ WorkersBounded

\* Execute returns, even if no worker ever takes its task, because the
\* dispatcher was stopped, say, or all handlers hang; only the end of the process
\* by a second Stop keeps it from returning.
CallsEnd == \A c \in Callers \ Async : call[c].pc = "send" ~> call[c].pc = "done" \/ ~Alive

\* Stop returns when handlers do, however many tasks are queued, unless another
\* Stop ends the process.
StopEnds == phase = "stopping" ~> phase = "stopped" \/ ~Alive
=============================================================================
