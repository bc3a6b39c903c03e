----------------------- MODULE ActionDispatcher_proofs -----------------------
(***************************************************************************)
(* The dispatcher for any number of calls, retries, workers and starts and *)
(* any capacity of the queue.  That no attempt runs twice rests on where   *)
(* its task can be: unsent, at one place of the queue, with one worker, or *)
(* done with (TasksOnce); that callers hear of their own attempt rests on  *)
(* what has happened before an answer is there (AnswersEarned); and that   *)
(* two generations of workers never meet rests on Stop having told every   *)
(* worker that is left (ToldSound).                                        *)
(***************************************************************************)
EXTENDS ActionDispatcher, FiniteSetTheorems, TLAPS

Busy(w)   == worker[w].pc \in {"run", "cache", "answer"}
Unsent(t) == \/ t[2] > call[t[1]].attempt
             \/ t[2] = call[t[1]].attempt /\ call[t[1]].pc \in {"new", "send"}
Queued(t) == \E i \in 1..Len(queue) : queue[i] = t
Active    == {w \in Goroutines : worker[w].pc # "off"}

\* A call retries only while it has attempts left.
CallsSound ==
  \A c \in Callers : /\ call[c].pc = "new" => call[c].attempt = 1
                     /\ call[c].pc = "backoff" => call[c].attempt < Retries

\* A task was never sent, or is at one place of the queue, or with one worker, or done.
TasksOnce ==
  /\ \A t \in Tasks : runs[t] \in {0, 1} /\ (Unsent(t) => runs[t] = 0 /\ ~Queued(t))
  /\ \A i \in 1..Len(queue) : runs[queue[i]] = 0
  /\ \A i, j \in 1..Len(queue) : queue[i] = queue[j] => i = j
  /\ \A w \in Goroutines : Busy(w) => worker[w].task \in Tasks /\ runs[worker[w].task] = 1

\* Before there is an answer the handler has run and the result is in the cache.
AnswersEarned ==
  /\ \A t \in Tasks : answers[t] # "none" => runs[t] = 1 /\ resultCache[t[1]] # "none"
  /\ \A w \in Goroutines :
       /\ worker[w].pc \in {"cache", "answer"} => worker[w].result # "none"
       /\ worker[w].pc = "answer" => resultCache[worker[w].task[1]] # "none"
  /\ \A c \in Callers : call[c].result = "ok" => call[c].pc = "done" /\ answers[TaskOf(c)] = "ok"

\* While Stop waits, or was waiting when another ended the process, exactly the
\* workers that are left have been told to stop.
ToldSound ==
  /\ told = IF phase \in {"stopping", "dead"} THEN Active ELSE {}
  /\ phase = "stopped" => Active = {}
  /\ Cardinality(Active) <= WorkerCount

IInv == TypeOK /\ CallsSound /\ TasksOnce /\ AnswersEarned /\ ToldSound
Calls == [pc : {"new", "send", "wait", "backoff", "done"}, attempt : 1..Retries, result : Results]
Workers == [pc : {"off", "idle", "run", "cache", "answer"},
            task : Tasks \cup {NoTask}, result : Results]

-----------------------------------------------------------------------------
(* Callers. *)

LEMMA TaskFacts ==
  /\ \A t \in Tasks : t[1] \in Callers /\ t[2] \in 1..Retries /\ t = <<t[1], t[2]>>
  /\ \A c \in Callers, a \in 1..Retries : <<c, a>> \in Tasks
  /\ NoTask \notin Tasks
  /\ Retries \in Nat \ {0} /\ QueueCap \in Nat
BY DispatcherAssumption DEF Tasks

\* A step of a caller that sends nothing: no task becomes unsent by it.
LEMMA CallInv ==
  ASSUME IInv, NEW c \in Callers, NEW r \in Calls,
         call' = [call EXCEPT ![c] = r],
         UNCHANGED <<answers, queue, workerVars, lifeVars>>,
         r.pc # "new", r.pc = "backoff" => r.attempt < Retries,
         \/ r.attempt = call[c].attempt /\ (r.pc = "send" => call[c].pc \in {"new", "send"})
         \/ r.attempt = call[c].attempt + 1,
         r.result = "ok" => r.pc = "done" /\ answers[<<c, r.attempt>>] = "ok"
  PROVE  IInv'
<1> USE TaskFacts DEF Calls
<1>0. /\ call \in [Callers -> Calls] /\ call' \in [Callers -> Calls]
      /\ call'[c] = r /\ \A d \in Callers \ {c} : call'[d] = call[d]
  BY DEF IInv, TypeOK
<1>1. TypeOK'
  BY <1>0 DEF IInv, TypeOK, workerVars, lifeVars
<1>2. CallsSound'
  BY <1>0 DEF IInv, CallsSound
<1>3. TasksOnce'
  <2>1. \A t \in Tasks : Unsent(t)' => Unsent(t)
    <3> SUFFICES ASSUME NEW t \in Tasks, Unsent(t)' PROVE Unsent(t)
      OBVIOUS
    <3>1. CASE t[1] = c
      BY <1>0, <3>1 DEF Unsent
    <3>2. CASE t[1] # c
      BY <1>0, <3>2 DEF Unsent
    <3> QED BY <3>1, <3>2
  <2> QED BY <2>1 DEF IInv, TasksOnce, Queued, Busy, workerVars
<1>4. AnswersEarned'
  BY <1>0 DEF IInv, AnswersEarned, TaskOf, workerVars
<1>5. ToldSound'
  BY DEF IInv, ToldSound, Active, workerVars, lifeVars
<1> QED BY <1>1, <1>2, <1>3, <1>4, <1>5 DEF IInv

\* A step of a caller that sends the task of its attempt, which nobody has sent.
LEMMA SendInv ==
  ASSUME IInv, NEW c \in Callers, NEW r \in Calls,
         call' = [call EXCEPT ![c] = r], r.pc = "wait", r.result # "ok",
         r.attempt = call[c].attempt, call[c].pc \in {"new", "send"},
         Len(queue) < QueueCap, queue' = Append(queue, <<c, r.attempt>>),
         UNCHANGED <<answers, workerVars, lifeVars>>
  PROVE  IInv'
<1> USE TaskFacts DEF Calls
<1> DEFINE task == <<c, r.attempt>>
<1>0. /\ call \in [Callers -> Calls] /\ call' \in [Callers -> Calls]
      /\ call'[c] = r /\ \A d \in Callers \ {c} : call'[d] = call[d]
      /\ queue \in Seq(Tasks) /\ task \in Tasks
  BY DEF IInv, TypeOK
<1>1. /\ queue' \in Seq(Tasks) /\ Len(queue') = Len(queue) + 1
      /\ \A i \in 1..Len(queue) : queue'[i] = queue[i] /\ queue[i] \in Tasks
      /\ queue'[Len(queue) + 1] = task
  BY <1>0
<1>2. Unsent(task) /\ runs[task] = 0 /\ ~Queued(task)
  <2>1. Unsent(task)
    BY <1>0 DEF Unsent
  <2> QED BY <1>0, <2>1 DEF IInv, TasksOnce
<1>3. TypeOK'
  BY <1>0, <1>1 DEF IInv, TypeOK, workerVars, lifeVars
<1>4. CallsSound'
  BY <1>0 DEF IInv, CallsSound
<1>5. TasksOnce'
  <2>1. \A t \in Tasks : Unsent(t)' => Unsent(t) /\ t # task
    <3> SUFFICES ASSUME NEW t \in Tasks, Unsent(t)' PROVE Unsent(t) /\ t # task
      OBVIOUS
    <3>1. CASE t[1] = c
      BY <1>0, <3>1 DEF Unsent
    <3>2. CASE t[1] # c
      BY <1>0, <3>2 DEF Unsent
    <3> QED BY <3>1, <3>2
  <2>2. \A t \in Tasks : Queued(t)' => Queued(t) \/ t = task
    BY <1>0, <1>1 DEF Queued
  <2>3. \A i \in 1..Len(queue') : runs[queue'[i]] = 0
    BY <1>0, <1>1, <1>2 DEF IInv, TasksOnce
  <2>4. \A i, j \in 1..Len(queue') : queue'[i] = queue'[j] => i = j
    <3>1. \A i \in 1..Len(queue) : queue'[i] = queue[i] /\ queue[i] # task
      BY <1>0, <1>1, <1>2 DEF Queued
    <3>2. \A i, j \in 1..Len(queue) : queue[i] = queue[j] => i = j
      BY <1>0 DEF IInv, TasksOnce
    <3> SUFFICES ASSUME NEW i \in 1..Len(queue'), NEW j \in 1..Len(queue'),
                        queue'[i] = queue'[j]
                 PROVE  i = j
      OBVIOUS
    <3>3. \A k \in 1..Len(queue') : k \in 1..Len(queue) \/ k = Len(queue) + 1
      <4>1. Len(queue) \in Nat
        BY <1>0
      <4> QED BY <1>1, <4>1
    <3>4. CASE i \in 1..Len(queue) /\ j \in 1..Len(queue)
      <4>1. queue[i] = queue[j]
        BY <3>1, <3>4
      <4> QED BY <3>2, <3>4, <4>1
    <3>5. CASE i = Len(queue) + 1 /\ j \in 1..Len(queue)
      BY <1>1, <3>1, <3>5
    <3>6. CASE i \in 1..Len(queue) /\ j = Len(queue) + 1
      BY <1>1, <3>1, <3>6
    <3> QED BY <3>3, <3>4, <3>5, <3>6
  <2>5. \A t \in Tasks : Unsent(t)' => ~Queued(t)'
    BY <2>1, <2>2 DEF IInv, TasksOnce
  <2> QED BY <2>1, <2>3, <2>4, <2>5 DEF IInv, TasksOnce, Busy, workerVars
<1>6. AnswersEarned'
  BY <1>0 DEF IInv, AnswersEarned, TaskOf, workerVars
<1>7. ToldSound'
  BY DEF IInv, ToldSound, Active, workerVars, lifeVars
<1> QED BY <1>3, <1>4, <1>5, <1>6, <1>7 DEF IInv

LEMMA FailedInv ==
  ASSUME IInv, NEW c \in Callers, call[c].pc \in {"send", "wait"}, Failed(c),
         UNCHANGED <<answers, queue, workerVars, lifeVars>>
  PROVE  IInv'
<1>0. call[c] \in Calls /\ (call[c].result = "ok" => call[c].pc = "done")
  BY DEF IInv, TypeOK, Calls, AnswersEarned
<1>1. CASE c \notin Async /\ call[c].attempt < Retries
  <2> DEFINE r == [call[c] EXCEPT !.pc = "backoff"]
  <2>1. call' = [call EXCEPT ![c] = r]
    BY <1>1 DEF Failed
  <2>2. /\ r \in Calls /\ r.pc = "backoff" /\ r.attempt = call[c].attempt
        /\ r.result = call[c].result
    BY <1>0 DEF Calls
  <2> HIDE DEF r
  <2> QED BY <1>0, <1>1, <2>1, <2>2, CallInv
<1>2. CASE ~(c \notin Async /\ call[c].attempt < Retries)
  <2> DEFINE r == [call[c] EXCEPT !.pc = "done", !.result = "failed"]
  <2>1. call' = [call EXCEPT ![c] = r]
    BY <1>2 DEF Failed
  <2>2. r \in Calls /\ r.pc = "done" /\ r.attempt = call[c].attempt /\ r.result = "failed"
    BY <1>0 DEF Calls, Results
  <2> HIDE DEF r
  <2> QED BY <2>1, <2>2, CallInv
<1> QED BY <1>1, <1>2

LEMMA CallerInv ==
  ASSUME IInv, NEW c \in Callers, Execute(c) \/ ExecuteAsync(c) \/ CallerStep(c)
  PROVE  IInv'
<1>0. /\ call[c] \in Calls
      /\ call[c].pc = "new" => call[c].attempt = 1
      /\ call[c].pc = "backoff" => call[c].attempt < Retries
      /\ call[c].result = "ok" => call[c].pc = "done"
  BY DEF IInv, TypeOK, Calls, CallsSound, AnswersEarned
<1>1. CASE Execute(c)
  <2> DEFINE r == [pc |-> "send", attempt |-> 1, result |-> "none"]
  <2>1. r \in Calls /\ r.pc = "send" /\ r.attempt = 1 /\ r.result = "none"
    BY TaskFacts DEF Calls, Results
  <2>2. /\ call[c].pc = "new" /\ call' = [call EXCEPT ![c] = r]
        /\ UNCHANGED <<answers, queue, workerVars, lifeVars>>
    BY <1>1 DEF Execute
  <2> HIDE DEF r
  <2> QED BY <1>0, <2>1, <2>2, CallInv
<1>2. CASE ExecuteAsync(c) /\ Len(queue) < QueueCap
  <2> DEFINE r == [pc |-> "wait", attempt |-> 1, result |-> "none"]
  <2>1. r \in Calls /\ r.pc = "wait" /\ r.attempt = 1 /\ r.result = "none"
    BY TaskFacts DEF Calls, Results
  <2>2. /\ call[c].pc = "new" /\ call' = [call EXCEPT ![c] = r]
        /\ queue' = Append(queue, <<c, 1>>)
        /\ UNCHANGED <<answers, workerVars, lifeVars>>
    BY <1>2 DEF ExecuteAsync
  <2> HIDE DEF r
  <2> QED BY <1>0, <1>2, <2>1, <2>2, SendInv
<1>3. CASE ExecuteAsync(c) /\ ~(Len(queue) < QueueCap)
  <2> DEFINE r == [pc |-> "done", attempt |-> 1, result |-> "failed"]
  <2>1. r \in Calls /\ r.pc = "done" /\ r.attempt = 1 /\ r.result = "failed"
    BY TaskFacts DEF Calls, Results
  <2>2. /\ call[c].pc = "new" /\ call' = [call EXCEPT ![c] = r]
        /\ UNCHANGED <<answers, queue, workerVars, lifeVars>>
    BY <1>3 DEF ExecuteAsync
  <2> HIDE DEF r
  <2> QED BY <1>0, <2>1, <2>2, CallInv
<1>4. CASE Send(c)
  <2> DEFINE r == [call[c] EXCEPT !.pc = "wait"]
  <2>1. /\ r \in Calls /\ r.pc = "wait" /\ r.attempt = call[c].attempt
        /\ r.result = call[c].result
    BY <1>0 DEF Calls
  <2>2. /\ call[c].pc = "send" /\ Len(queue) < QueueCap /\ call' = [call EXCEPT ![c] = r]
        /\ queue' = Append(queue, <<c, call[c].attempt>>)
        /\ UNCHANGED <<answers, workerVars, lifeVars>>
    BY <1>4 DEF Send, TaskOf
  <2> HIDE DEF r
  <2> QED BY <1>0, <2>1, <2>2, SendInv
<1>5. CASE TimeOut(c)
  BY <1>5, FailedInv DEF TimeOut
<1>6. CASE Receive(c) /\ answers[TaskOf(c)] = "ok"
  <2> DEFINE r == [call[c] EXCEPT !.pc = "done", !.result = "ok"]
  <2>1. r \in Calls /\ r.pc = "done" /\ r.attempt = call[c].attempt /\ r.result = "ok"
    BY <1>0 DEF Calls, Results
  <2>2. /\ call' = [call EXCEPT ![c] = r] /\ answers[<<c, call[c].attempt>>] = "ok"
        /\ UNCHANGED <<answers, queue, workerVars, lifeVars>>
    BY <1>6 DEF Receive, TaskOf, IInv, TypeOK
  <2> HIDE DEF r
  <2> QED BY <2>1, <2>2, CallInv
<1>7. CASE Receive(c) /\ answers[TaskOf(c)] # "ok"
  BY <1>7, FailedInv DEF Receive
<1>8. CASE Retry(c)
  <2> DEFINE r == [call[c] EXCEPT !.pc = "send", !.attempt = @ + 1]
  <2>0. call[c].attempt + 1 \in 1..Retries
    BY <1>0, <1>8, TaskFacts DEF Retry, Calls
  <2>1. /\ r \in Calls /\ r.pc = "send" /\ r.attempt = call[c].attempt + 1
        /\ r.result = call[c].result
    BY <1>0, <2>0 DEF Calls
  <2>2. /\ call' = [call EXCEPT ![c] = r] /\ call[c].pc = "backoff"
        /\ UNCHANGED <<answers, queue, workerVars, lifeVars>>
    BY <1>8 DEF Retry, IInv, TypeOK
  <2> HIDE DEF r
  <2> QED BY <1>0, <2>1, <2>2, CallInv
<1> QED BY <1>1, <1>2, <1>3, <1>4, <1>5, <1>6, <1>7, <1>8 DEF CallerStep
-----------------------------------------------------------------------------
(* Workers. *)

LEMMA TakeInv ==
  ASSUME IInv, NEW w \in Goroutines, Take(w)
  PROVE  IInv'
<1> USE TaskFacts
<1> DEFINE task == Head(queue)
<1>0. /\ queue \in Seq(Tasks) /\ Len(queue) \in Nat \ {0} /\ worker[w].pc = "idle"
      /\ worker' = [worker EXCEPT ![w] = [pc |-> "run", task |-> task, result |-> "none"]]
      /\ queue' = Tail(queue) /\ runs' = [runs EXCEPT ![task] = @ + 1]
      /\ UNCHANGED <<callVars, told, resultCache, lifeVars>>
  BY DEF Take, IInv, TypeOK
<1>1. /\ task = queue[1] /\ task \in Tasks
      /\ queue' \in Seq(Tasks) /\ Len(queue') = Len(queue) - 1
      /\ \A i \in 1..Len(queue') : queue'[i] = queue[i + 1] /\ i + 1 \in 1..Len(queue)
  BY <1>0
<1> HIDE DEF task
<1>2. /\ runs[task] = 0 /\ ~Unsent(task)
      /\ \A i \in 1..Len(queue') : queue'[i] # task
  BY <1>0, <1>1 DEF IInv, TasksOnce, Queued
<1>3. /\ runs' \in [Tasks -> Nat] /\ runs'[task] = 1
      /\ \A t \in Tasks \ {task} : runs'[t] = runs[t]
      /\ worker'[w] = [pc |-> "run", task |-> task, result |-> "none"]
      /\ \A v \in Goroutines \ {w} : worker'[v] = worker[v]
  BY <1>0, <1>1, <1>2 DEF IInv, TypeOK
<1>4. TypeOK'
  <2>1. [pc |-> "run", task |-> task, result |-> "none"]
          \in Workers
    BY <1>1 DEF Results, Workers
  <2>2. worker' \in [Goroutines -> Workers]
    BY <1>0, <2>1 DEF IInv, TypeOK, Workers
  <2>3. Len(queue') <= QueueCap
    BY <1>0, <1>1 DEF IInv, TypeOK
  <2> QED BY <1>0, <1>1, <1>3, <2>2, <2>3 DEF IInv, TypeOK, Workers, callVars, lifeVars
<1>5. CallsSound'
  BY <1>0 DEF IInv, CallsSound, callVars
<1>6. TasksOnce'
  <2>1. \A t \in Tasks : Unsent(t)' <=> Unsent(t)
    BY <1>0 DEF Unsent, callVars
  <2>2. \A t \in Tasks : Queued(t)' => Queued(t)
    BY <1>1 DEF Queued
  <2>3. \A t \in Tasks : runs'[t] \in {0, 1} /\ (Unsent(t)' => runs'[t] = 0 /\ ~Queued(t)')
    BY <1>2, <1>3, <2>1, <2>2 DEF IInv, TasksOnce
  <2>4. \A i \in 1..Len(queue') : runs'[queue'[i]] = 0
    BY <1>0, <1>1, <1>2, <1>3 DEF IInv, TasksOnce
  <2>5. \A i, j \in 1..Len(queue') : queue'[i] = queue'[j] => i = j
    <3> SUFFICES ASSUME NEW i \in 1..Len(queue'), NEW j \in 1..Len(queue'), queue'[i] = queue'[j]
                 PROVE  i = j
      OBVIOUS
    <3>1. \A k \in 1..Len(queue') : k + 1 \in 1..Len(queue) /\ queue'[k] = queue[k + 1]
      BY <1>1
    <3>2. \A k, m \in 1..Len(queue) : queue[k] = queue[m] => k = m
      BY DEF IInv, TasksOnce
    <3>3. i + 1 = j + 1
      BY <3>1, <3>2
    <3> QED BY <3>3
  <2>6. \A v \in Goroutines : Busy(v)' => worker'[v].task \in Tasks /\ runs'[worker'[v].task] = 1
    <3> SUFFICES ASSUME NEW v \in Goroutines, Busy(v)'
                 PROVE  worker'[v].task \in Tasks /\ runs'[worker'[v].task] = 1
      OBVIOUS
    <3>1. CASE v = w
      BY <1>1, <1>3, <3>1
    <3>2. CASE v # w
      <4>1. worker[v].task \in Tasks /\ runs[worker[v].task] = 1
        BY <1>3, <3>2 DEF IInv, TasksOnce, Busy
      <4> QED BY <1>2, <1>3, <3>2, <4>1
    <3> QED BY <3>1, <3>2
  <2> QED BY <2>3, <2>4, <2>5, <2>6 DEF TasksOnce
<1>7. AnswersEarned'
  BY <1>0, <1>2, <1>3 DEF IInv, AnswersEarned, TaskOf, callVars
<1>8. ToldSound'
  <2>1. Active' = Active
    BY <1>0, <1>3 DEF Active
  <2> QED BY <1>0, <2>1 DEF IInv, ToldSound, lifeVars
<1> QED BY <1>4, <1>5, <1>6, <1>7, <1>8 DEF IInv

\* A worker goes on with the task it has, or is through with it.
LEMMA TaskStepInv ==
  ASSUME IInv, NEW w \in Goroutines, NEW r \in Workers,
         Busy(w), worker' = [worker EXCEPT ![w] = r],
         r.pc \in {"cache", "answer", "idle"},
         r.pc # "idle" => r.task = worker[w].task /\ r.result # "none",
         r.pc = "answer" => resultCache'[r.task[1]] # "none",
         UNCHANGED <<call, queue, told, runs, lifeVars>>,
         answers' \in [Tasks -> Results], resultCache' \in [Callers -> Results],
         \A t \in Tasks : \/ answers'[t] = answers[t]
                          \/ t = worker[w].task /\ answers[t] = "none" /\ worker[w].pc = "answer",
         \A c \in Callers : resultCache[c] # "none" => resultCache'[c] # "none"
  PROVE  IInv'
<1> USE TaskFacts DEF Workers
<1>0. /\ worker \in [Goroutines -> Workers] /\ worker' \in [Goroutines -> Workers]
      /\ worker'[w] = r /\ \A v \in Goroutines \ {w} : worker'[v] = worker[v]
      /\ worker[w].task \in Tasks /\ runs[worker[w].task] = 1
  BY DEF IInv, TypeOK, TasksOnce
<1>1. TypeOK'
  BY <1>0 DEF IInv, TypeOK, lifeVars
<1>2. CallsSound'
  BY DEF IInv, CallsSound
<1>3. TasksOnce'
  BY <1>0 DEF IInv, TasksOnce, Unsent, Queued, Busy
<1>4. AnswersEarned'
  <2>1. ASSUME NEW t \in Tasks, answers'[t] # "none"
        PROVE  runs[t] = 1 /\ resultCache'[t[1]] # "none"
    BY <1>0, <2>1 DEF IInv, AnswersEarned
  <2>2. ASSUME NEW v \in Goroutines
        PROVE  /\ worker'[v].pc \in {"cache", "answer"} => worker'[v].result # "none"
               /\ worker'[v].pc = "answer" => resultCache'[worker'[v].task[1]] # "none"
    <3>1. CASE v = w
      BY <1>0, <3>1
    <3>2. CASE v # w
      BY <1>0, <3>2 DEF IInv, AnswersEarned, TasksOnce, Busy
    <3> QED BY <3>1, <3>2
  <2>3. ASSUME NEW c \in Callers, call[c].result = "ok"
        PROVE  call[c].pc = "done" /\ answers'[TaskOf(c)] = "ok"
    <3>1. TaskOf(c) \in Tasks /\ answers[TaskOf(c)] = "ok" /\ call[c].pc = "done"
      BY <2>3 DEF IInv, TypeOK, AnswersEarned, TaskOf
    <3> QED BY <3>1
  <2> QED BY <2>1, <2>2, <2>3 DEF AnswersEarned, TaskOf
<1>5. ToldSound'
  <2>1. Active' = Active
    BY <1>0 DEF Active, Busy
  <2> QED BY <2>1 DEF IInv, ToldSound, lifeVars
<1> QED BY <1>1, <1>2, <1>3, <1>4, <1>5 DEF IInv

LEMMA WorkerInv ==
  ASSUME IInv, NEW w \in Goroutines, TaskStep(w)
  PROVE  IInv'
<1>0. /\ worker \in [Goroutines -> Workers] /\ worker[w] \in Workers
      /\ Busy(w) /\ worker[w].task \in Tasks /\ worker[w].task[1] \in Callers
      /\ answers \in [Tasks -> Results] /\ resultCache \in [Callers -> Results]
  BY TaskFacts DEF TaskStep, HandlerReturns, CacheResult, Answer, IInv, TypeOK, TasksOnce, Busy,
                   Workers
<1>1. ASSUME NEW result \in {"ok", "failed"}, HandlerReturns(w, result) PROVE IInv'
  <2> DEFINE r == [worker[w] EXCEPT !.pc = "cache", !.result = result]
  <2>1. /\ r \in Workers /\ r.pc = "cache" /\ r.task = worker[w].task /\ r.result = result
        /\ worker' = [worker EXCEPT ![w] = r]
    BY <1>0, <1>1 DEF HandlerReturns, Workers, Results
  <2>2. UNCHANGED <<call, answers, queue, told, resultCache, runs, lifeVars>>
    BY <1>1 DEF HandlerReturns, callVars
  <2> HIDE DEF r
  <2> QED BY <1>0, <2>1, <2>2, TaskStepInv
<1>2. CASE CacheResult(w)
  <2> DEFINE r == [worker[w] EXCEPT !.pc = "answer"]
  <2>1. /\ r \in Workers /\ r.pc = "answer" /\ r.task = worker[w].task
        /\ r.result = worker[w].result /\ worker' = [worker EXCEPT ![w] = r]
    BY <1>0, <1>2 DEF CacheResult, Workers
  <2>2. worker[w].result \in Results \ {"none"}
    BY <1>0, <1>2 DEF CacheResult, Workers, IInv, AnswersEarned
  <2>3. UNCHANGED <<call, answers, queue, told, runs, lifeVars>>
    BY <1>2 DEF CacheResult, callVars
  <2>4. /\ resultCache' \in [Callers -> Results]
        /\ resultCache'[r.task[1]] # "none"
        /\ \A c \in Callers : resultCache[c] # "none" => resultCache'[c] # "none"
    BY <1>0, <1>2, <2>1, <2>2 DEF CacheResult
  <2> HIDE DEF r
  <2> QED BY <1>0, <2>1, <2>2, <2>3, <2>4, TaskStepInv
<1>3. CASE Answer(w)
  <2>1. Idle \in Workers /\ Idle.pc = "idle"
    BY DEF Idle, Workers, Results
  <2>2. /\ worker' = [worker EXCEPT ![w] = Idle] /\ worker[w].pc = "answer"
        /\ UNCHANGED <<call, queue, told, resultCache, runs, lifeVars>>
    BY <1>3 DEF Answer
  <2>3. /\ answers' \in [Tasks -> Results]
        /\ \A t \in Tasks : \/ answers'[t] = answers[t]
                            \/ t = worker[w].task /\ answers[t] = "none"
    BY <1>0, <1>3 DEF Answer, Workers
  <2> QED BY <1>0, <2>1, <2>2, <2>3, TaskStepInv
<1> QED BY <1>1, <1>2, <1>3 DEF TaskStep
-----------------------------------------------------------------------------
(* Start and Stop. *)

\* Start makes no more than WorkerCount workers: numbering them by how many free
\* numbers are smaller is one-to-one.
LEMMA FreshBounded == IsFiniteSet(Fresh) /\ Cardinality(Fresh) <= WorkerCount
<1> DEFINE free == {w \in Goroutines : worker[w].pc = "off"}
           below(w) == {v \in free : v < w}
           place    == [w \in Fresh |-> Cardinality(below(w))]
<1>1. IsFiniteSet(free) /\ free \subseteq Nat
  BY DispatcherAssumption, FS_Subset
<1>2. \A w \in free : IsFiniteSet(below(w)) /\ Cardinality(below(w)) \in Nat
  BY <1>1, FS_Subset, FS_CardinalityType
<1>3. Fresh = {w \in free : Cardinality(below(w)) < WorkerCount}
  BY DEF Fresh
<1>4. \A w \in Fresh : Cardinality(below(w)) \in 0..(WorkerCount - 1)
  <2> SUFFICES ASSUME NEW w \in Fresh PROVE Cardinality(below(w)) \in 0..(WorkerCount - 1)
    OBVIOUS
  <2>1. w \in free /\ Cardinality(below(w)) < WorkerCount
    BY <1>3
  <2>2. Cardinality(below(w)) \in Nat
    BY <1>2, <2>1
  <2> QED BY <2>1, <2>2, DispatcherAssumption
<1>5. ASSUME NEW v \in free, NEW w \in free, v < w
      PROVE  Cardinality(below(v)) < Cardinality(below(w))
  <2>1. below(v) \subseteq below(w) /\ v \in below(w) /\ v \notin below(v)
    BY <1>1, <1>5
  <2>2. /\ Cardinality(below(v)) <= Cardinality(below(w))
        /\ Cardinality(below(v)) # Cardinality(below(w))
    BY <1>2, <2>1, FS_Subset
  <2>3. Cardinality(below(v)) \in Nat /\ Cardinality(below(w)) \in Nat
    BY <1>2
  <2> QED BY <2>2, <2>3
<1>6. ASSUME NEW v \in Fresh, NEW w \in Fresh, v # w
      PROVE  Cardinality(below(v)) # Cardinality(below(w))
  <2>1. v \in free /\ w \in free /\ (v < w \/ w < v)
    BY <1>1, <1>3, <1>6
  <2>2. Cardinality(below(v)) \in Nat /\ Cardinality(below(w)) \in Nat
    BY <1>2, <2>1
  <2> QED BY <1>5, <2>1, <2>2
<1>7. IsFiniteSet(Fresh)
  BY <1>1, <1>3, FS_Subset
<1>8. /\ IsFiniteSet(0..(WorkerCount - 1))
      /\ Cardinality(0..(WorkerCount - 1)) = WorkerCount
  BY FS_Interval, DispatcherAssumption
<1> HIDE DEF below
<1>9. place \in [Fresh -> 0..(WorkerCount - 1)]
  BY <1>4
<1>10. \A v, w \in Fresh : v # w => place[v] # place[w]
  BY <1>6
<1> HIDE DEF place
<1>11. ~(WorkerCount < Cardinality(Fresh))
  BY <1>7, <1>8, <1>9, <1>10, FS_PigeonHole
<1> QED BY <1>7, <1>11, FS_CardinalityType, DispatcherAssumption
\* Start finds no worker left, Stop tells them all, and one that quits was told.
LEMMA LifeInv ==
  ASSUME IInv, UNCHANGED <<callVars, queue, resultCache, runs>>,
         worker' \in [Goroutines -> Workers], told' \subseteq Goroutines,
         phase' \in {"stopped", "running", "stopping", "dead"}, starts' \in 0..MaxStarts,
         \A w \in Goroutines : worker'[w] = worker[w] \/ worker'[w] \in {Idle, Off},
         ToldSound'
  PROVE  IInv'
<1>1. TypeOK'
  BY DEF IInv, TypeOK, callVars, Workers
<1>2. CallsSound'
  BY DEF IInv, CallsSound, callVars
<1>3. \A w \in Goroutines : worker'[w] = worker[w] \/ worker'[w].pc \in {"idle", "off"}
  BY DEF Idle, Off
<1>4. TasksOnce'
  <2>1. \A w \in Goroutines : Busy(w)' => worker'[w] = worker[w] /\ Busy(w)
    BY <1>3 DEF Busy
  <2> QED BY <2>1 DEF IInv, TasksOnce, Unsent, Queued, callVars
<1>5. AnswersEarned'
  BY <1>3 DEF IInv, AnswersEarned, TaskOf, callVars
<1> QED BY <1>1, <1>2, <1>4, <1>5 DEF IInv

LEMMA StartStopInv ==
  ASSUME IInv, Start \/ BeginStop \/ StopAgain \/ FinishStop \/ \E w \in Goroutines : Quit(w)
  PROVE  IInv'
<1>0. /\ worker \in [Goroutines -> Workers] /\ told \subseteq Goroutines
      /\ phase \in {"stopped", "running", "stopping", "dead"} /\ starts \in 0..MaxStarts
      /\ ToldSound /\ IsFiniteSet(Active) /\ Active \subseteq Goroutines
      /\ Idle \in Workers /\ Off \in Workers
  BY DispatcherAssumption, FS_Subset
  DEF IInv, TypeOK, Workers, Active, Idle, Off, Results
<1>1. CASE Start
  <2>1. /\ UNCHANGED <<callVars, queue, resultCache, runs, told>>
        /\ phase = "stopped" /\ phase' = "running" /\ starts' \in 0..MaxStarts
        /\ worker' = [w \in Goroutines |-> IF w \in Fresh THEN Idle ELSE worker[w]]
    BY <1>0, <1>1, DispatcherAssumption DEF Start
  <2>2. \A w \in Goroutines : worker[w].pc = "off"
    BY <1>0, <2>1 DEF ToldSound, Active
  <2>3. Active' = Fresh
    BY <2>1, <2>2 DEF Active, Fresh, Idle
  <2>4. ToldSound'
    BY <1>0, <2>1, <2>3, FreshBounded DEF ToldSound
  <2> QED BY <1>0, <2>1, <2>4, LifeInv
<1>2. CASE BeginStop
  <2>1. ToldSound'
    BY <1>0, <1>2 DEF BeginStop, ToldSound, Active
  <2> QED BY <1>0, <1>2, <2>1, LifeInv DEF BeginStop
<1>3. CASE FinishStop
  <2>1. /\ UNCHANGED <<callVars, queue, worker, told, resultCache, runs, starts>>
        /\ phase = "stopping" /\ phase' = "stopped" /\ Active = {}
    BY <1>3 DEF FinishStop, workerVars, Active
  <2>2. ToldSound'
    BY <1>0, <2>1 DEF ToldSound, Active
  <2> QED BY <1>0, <2>1, <2>2, LifeInv
<1>4. ASSUME NEW w \in Goroutines, Quit(w) PROVE IInv'
  <2>1. /\ UNCHANGED <<callVars, queue, resultCache, runs, phase, starts>>
        /\ w \in told /\ told' = told \ {w} /\ worker' = [worker EXCEPT ![w] = Off]
    BY <1>4 DEF Quit, lifeVars
  <2>2. Active' = Active \ {w}
    BY <1>0, <2>1 DEF Active, Off
  <2>3. Cardinality(Active \ {w}) <= Cardinality(Active)
    BY <1>0, FS_Subset
  <2>4. Cardinality(Active') <= WorkerCount
    BY <1>0, <2>2, <2>3, FS_Subset, FS_CardinalityType, DispatcherAssumption DEF ToldSound
  <2>5. ToldSound'
    BY <1>0, <2>1, <2>2, <2>4 DEF ToldSound
  <2> QED BY <1>0, <2>1, <2>5, LifeInv
<1>5. CASE StopAgain
  <2>1. /\ UNCHANGED <<callVars, queue, worker, told, resultCache, runs, starts>>
        /\ phase = "stopping" /\ phase' = "dead"
    BY <1>5 DEF StopAgain, workerVars
  <2>2. ToldSound'
    BY <1>0, <2>1 DEF ToldSound, Active
  <2> QED BY <1>0, <2>1, <2>2, LifeInv
<1> QED BY <1>1, <1>2, <1>3, <1>4, <1>5

-----------------------------------------------------------------------------
LEMMA InitInv == Init => IInv
<1> SUFFICES ASSUME Init PROVE IInv
  OBVIOUS
<1>1. TypeOK
  <2>1. /\ call \in [Callers -> Calls] /\ worker \in [Goroutines -> Workers]
        /\ starts \in 0..MaxStarts /\ queue \in Seq(Tasks) /\ Len(queue) <= QueueCap
    BY TaskFacts, DispatcherAssumption DEF Init, Calls, Workers, Off, Results
  <2> QED BY <2>1 DEF Init, TypeOK, Calls, Workers, Results
<1>2. CallsSound
  BY DEF Init, CallsSound
<1>3. TasksOnce
  BY DEF Init, TasksOnce, Queued, Busy, Off
<1>4. AnswersEarned
  BY DEF Init, AnswersEarned, Off
<1>5. ToldSound
  <2>1. Active = {}
    BY DEF Init, Active, Off
  <2> QED BY <2>1, FS_EmptySet, DispatcherAssumption DEF Init, ToldSound
<1> QED BY <1>1, <1>2, <1>3, <1>4, <1>5 DEF IInv

LEMMA NextInv == IInv /\ [Next]_vars => IInv'
<1> SUFFICES ASSUME IInv, [Next]_vars PROVE IInv'
  OBVIOUS
<1>1. CASE Next
  BY <1>1, CallerInv, TakeInv, WorkerInv, StartStopInv DEF Next
<1>2. CASE UNCHANGED vars
  <2>1. TypeOK' /\ CallsSound'
    BY <1>2 DEF IInv, TypeOK, CallsSound, vars, callVars, workerVars, lifeVars
  <2>2. TasksOnce'
    BY <1>2 DEF IInv, TasksOnce, Unsent, Queued, Busy, vars, callVars, workerVars
  <2>3. AnswersEarned' /\ ToldSound'
    BY <1>2 DEF IInv, AnswersEarned, TaskOf, ToldSound, Active, vars, callVars, workerVars, lifeVars
  <2> QED BY <2>1, <2>2, <2>3 DEF IInv
<1> QED BY <1>1, <1>2

LEMMA InvHolds == Spec => []IInv
<1>1. Init => IInv
  BY InitInv
<1>2. IInv /\ [Next]_vars => IInv'
  BY NextInv
<1> QED BY <1>1, <1>2, PTL DEF Spec

\* Calls, queue, workers and answers keep their shape; the queue its capacity.
THEOREM TypeCorrect == Spec => []TypeOK
<1>1. IInv => TypeOK
  BY DEF IInv
<1> QED BY <1>1, InvHolds, PTL

\* action_dispatcher.go, Execute and runWorker: an attempt's handler is started once
\* at most, and no attempt's before the attempt was made.
THEOREM OneRunCorrect == Spec => []OneRunPerAttempt
<1>1. ASSUME IInv PROVE OneRunPerAttempt
  <2> SUFFICES ASSUME NEW c \in Callers, NEW a \in 1..Retries
               PROVE  runs[<<c, a>>] <= 1 /\ (runs[<<c, a>>] = 1 => a <= call[c].attempt)
    BY DEF OneRunPerAttempt
  <2>1. /\ runs[<<c, a>>] \in {0, 1}
        /\ a > call[c].attempt => runs[<<c, a>>] = 0
    BY <1>1, TaskFacts DEF IInv, TasksOnce, Unsent
  <2>2. call[c].attempt \in Nat
    BY <1>1 DEF IInv, TypeOK
  <2> QED BY <2>1, <2>2
<1> QED BY <1>1, InvHolds, PTL

\* action_dispatcher.go, Start and Stop: never more workers than configured, and none
\* once Stop has returned.
THEOREM WorkersBoundedCorrect == Spec => []WorkersBounded
<1>1. IInv => WorkersBounded
  BY DEF IInv, ToldSound, WorkersBounded, Active
<1> QED BY <1>1, InvHolds, PTL

\* action_dispatcher.go: handlers run as often, and as many at once, as the retries of
\* the calls and the configured workers allow.
THEOREM RunsBoundedCorrect == Spec => []RunsBounded
<1>1. OneRunPerAttempt /\ WorkersBounded => RunsBounded
  BY DEF RunsBounded
<1> QED BY <1>1, OneRunCorrect, WorkersBoundedCorrect, PTL

\* action_dispatcher.go, Execute: a success is that of the handler of the last attempt,
\* never a late answer, and it is in the result cache before the caller knows.
THEOREM SuccessIsCurrentCorrect == Spec => []SuccessIsCurrent
<1>1. ASSUME IInv PROVE SuccessIsCurrent
  <2> SUFFICES ASSUME NEW c \in Callers, call[c].result = "ok"
               PROVE  /\ runs[TaskOf(c)] = 1 /\ answers[TaskOf(c)] = "ok"
                      /\ resultCache[c] # "none"
    BY DEF SuccessIsCurrent
  <2>1. TaskOf(c) \in Tasks /\ TaskOf(c)[1] = c
    BY <1>1 DEF IInv, TypeOK, TaskOf, Tasks
  <2> QED BY <1>1, <2>1 DEF IInv, AnswersEarned
<1> QED BY <1>1, InvHolds, PTL
=============================================================================
