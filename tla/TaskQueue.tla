----------------------------- MODULE TaskQueue -----------------------------
(***************************************************************************)
(* The tasks of one task route (runtime/common/src/tasks.ts,               *)
(* schedule_function_core, lambda-cron/src/executor.ts).  A POST becomes a *)
(* message: on the route's standard queue while the task is delayed, on    *)
(* its FIFO queue when it may run.  SQS invokes the executor with messages *)
(* and delivers them again unless the invocation returns.                  *)
(*                                                                         *)
(*   POST       Arrive; Count; Save; Send                                  *)
(*   executor   delayed: Reschedule, Resend, Delete                        *)
(*              ready: StartRun, EndRun, Delete                            *)
(*                                                                         *)
(* The clock ticks in half seconds, because the code rounds to seconds.    *)
(***************************************************************************)
EXTENDS Naturals, FiniteSets

CONSTANTS Task,         \* the requests that schedule a task, as many as a run has
          Proc,         \* the processes of the API
          MaxPending,   \* the route's maxPending; 0 or not given is no limit
          MaxRunning,   \* its maxRunning, 10 if not given; 0 is no limit
          Due,          \* of each request: the not-before times it may carry; 0 is none
          MaxDelay,     \* MaxSQSDelaySeconds
          CacheTtl,     \* PendingTasksCacheTtlMs
          None,         \* no process, no message group, no count
          MaxTime,      \* bound: the clock
          Faults,       \* what goes wrong: "outage", "crash", "twice"
          MaxFaults     \* bound: how often it does

VARIABLES now,          \* the clock
          pc, host,     \* where each request is, and in which process
          due, hold,    \* its not-before time, the delay computed for its message
          cache,        \* of each process: the pending count it remembers, until when
          record,       \* DynamoDB: the status of each task
          msgs,         \* SQS: the messages that are not deleted
          recent,       \* SQS: the deduplication ids of the last five minutes
          faults, hit   \* what went wrong so far, and what went wrong with a task

api == <<pc, host, due, hold, cache>>
sqs == <<msgs, recent>>
broken == <<faults, hit>>
vars == <<now, api, record, sqs, broken>>

Second == 2
Status == {"none", "pending", "running", "completed", "error"}
Final  == {"completed", "error"}
Place  == {"idle", "count", "save", "send", "accepted", "rejected", "failed"}

\* A message that is not deleted, with the progress of its invocation: "waiting" in
\* the queue; "saved" or "running" in the executor; "handled", but not deleted yet.
Step == {"waiting", "saved", "running", "handled"}

\* Calls fail, the executor dies, SQS delivers twice.
Kind == {"outage", "crash", "twice"}

ASSUME ConstantsOK ==
  /\ MaxPending \in Nat /\ MaxRunning \in Nat
  /\ MaxDelay \in Nat \ {0} /\ CacheTtl \in Nat
  /\ MaxTime \in Nat /\ Due \in [Task -> SUBSET (0 .. MaxTime)]
  /\ None \notin Proc \cup Task \cup Nat \cup [count : Nat, until : Nat]
  /\ Faults \subseteq Kind /\ MaxFaults \in Nat

\* Slip: one group too many.
GroupsOneMore(t) == IF MaxRunning = 0 THEN {t} ELSE 0 .. MaxRunning

\* The message groups of a task: its own, or one at random of as many as may run.
Groups(t) == IF MaxRunning = 0 THEN {t} ELSE 0 .. MaxRunning - 1

Group == UNION {Groups(t) : t \in Task}

\* A message of the standard queue has no group.
Message == [id : Nat, task : Task, group : Group \cup {None}, at : Nat, step : Step, hold : Nat]

TypeOK ==
  /\ now \in 0 .. MaxTime
  /\ pc \in [Task -> Place] /\ host \in [Task -> Proc \cup {None}]
  /\ due \in [Task -> 0 .. MaxTime] /\ hold \in [Task -> Nat]
  /\ cache \in [Proc -> [count : Nat, until : Nat] \cup {None}]
  /\ record \in [Task -> Status]
  /\ msgs \subseteq Message /\ recent \subseteq Task
  /\ faults \in 0 .. MaxFaults /\ hit \subseteq Task \X Kind

----------------------------------------------------------------------------
(***************************************************************************)
(* The queues.                                                             *)
(***************************************************************************)

\* getDelay: whole seconds, and no more than SQS takes.
Delay(t) ==
  LET left == IF due[t] > now THEN (due[t] - now) \div Second ELSE 0 IN
  IF left > MaxDelay THEN MaxDelay ELSE left

Waiting == {m \in msgs : m.step = "waiting"}

\* SQS hands a message to the executor: the delay is over; of a group of the FIFO
\* queue the oldest only (BatchSize 1), and the next when that is deleted.
Ready(m) ==
  /\ m \in Waiting
  /\ m.at <= now \/ now = MaxTime
  /\ m.group # None => \A n \in msgs : n.group = m.group => n.id >= m.id

\* Messages are numbered in the order in which they are sent.
NextId == 1 + Cardinality(UNION {1 .. m.id : m \in msgs})

\* The message of a task that is delayed by d seconds, which SQS adds to what else
\* is there.  It drops a message of the FIFO queue whose MessageDeduplicationId, the
\* task's, was sent in the last five minutes; when they are over is left open.
Enqueue(t, d, others) ==
  LET add(g) == others \cup {[id |-> NextId, task |-> t, group |-> g,
                              at |-> IF d = 0 THEN 0 ELSE now + Second * d, step |-> "waiting", hold |-> 0]} IN
  \/ d > 0 /\ msgs' = add(None) /\ UNCHANGED recent
  \/ d = 0 /\ recent' = recent \cup {t} /\ \E g \in Groups(t) : msgs' = add(g)
  \/ d = 0 /\ t \in recent /\ msgs' = others /\ UNCHANGED recent

\* A message once it was delivered.
Put(m, step) == (msgs \ {m}) \cup {[m EXCEPT !.at = 0, !.step = step, !.hold = 0]}

Mark(t, s) == record' = [record EXCEPT ![t] = s]

----------------------------------------------------------------------------
Init ==
  /\ now = 0
  /\ pc = [t \in Task |-> "idle"] /\ host = [t \in Task |-> None]
  /\ due = [t \in Task |-> 0] /\ hold = [t \in Task |-> 0]
  /\ cache = [p \in Proc |-> None]
  /\ record = [t \in Task |-> "none"]
  /\ msgs = {} /\ recent = {}
  /\ faults = 0 /\ hit = {}

----------------------------------------------------------------------------
(***************************************************************************)
(* POST: schedule_function_core and scheduleTaskAsync.                     *)
(***************************************************************************)

Admits(count) == ~(MaxPending < count)
Checked(count) == IF Admits(count) THEN "save" ELSE "rejected"

\* A limited route needs the count of pending tasks: the remembered one, or a new one.
Arrive(t) ==
  /\ pc[t] = "idle"
  /\ \E p \in Proc, d \in Due[t] :
       /\ host' = [host EXCEPT ![t] = p]
       /\ due' = [due EXCEPT ![t] = d]
       /\ pc' = [pc EXCEPT ![t] = IF MaxPending = 0 THEN "save"
                                  ELSE IF cache[p] = None THEN "count"
                                  ELSE Checked(cache[p].count)]
  /\ UNCHANGED <<now, hold, cache, record, sqs, broken>>

\* One request asks SQS, and the others of its process that wait get its answer.
Count(p) ==
  LET n == Cardinality(Waiting) IN
  /\ \E t \in Task : pc[t] = "count" /\ host[t] = p
  /\ cache' = [cache EXCEPT ![p] = [count |-> n, until |-> now + CacheTtl]]
  /\ pc' = [t \in Task |-> IF pc[t] = "count" /\ host[t] = p THEN Checked(n) ELSE pc[t]]
  /\ UNCHANGED <<now, host, due, hold, record, sqs, broken>>

\* A timer drops the count when it has expired; how much later is left open.
Forget(p) ==
  /\ cache[p] # None /\ cache[p].until < now
  /\ cache' = [cache EXCEPT ![p] = None]
  /\ UNCHANGED <<now, pc, host, due, hold, record, sqs, broken>>

\* The delay is computed before the status is saved, and used after it.
Save(t) ==
  /\ pc[t] = "save"
  /\ hold' = [hold EXCEPT ![t] = Delay(t)]
  /\ Mark(t, "pending")
  /\ pc' = [pc EXCEPT ![t] = "send"]
  /\ UNCHANGED <<now, host, due, cache, sqs, broken>>

Send(t) ==
  /\ pc[t] = "send"
  /\ Enqueue(t, hold[t], msgs)
  /\ pc' = [pc EXCEPT ![t] = "accepted"] /\ hold' = [hold EXCEPT ![t] = 0]
  /\ UNCHANGED <<now, host, due, cache, record, broken>>

----------------------------------------------------------------------------
(***************************************************************************)
(* The executor.                                                           *)
(***************************************************************************)

\* Slip: a delayed task is sent on without a look at the time that is left.
RescheduleAtOnce(m) ==
  /\ m.group = None /\ Ready(m)
  /\ Mark(m.task, "pending")
  /\ msgs' = Put(m, "saved")
  /\ UNCHANGED <<now, api, recent, broken>>

\* rescheduleTask: a delayed task is scheduled again, for now or later.
Reschedule(m) ==
  /\ m.group = None /\ Ready(m)
  /\ Mark(m.task, "pending")
  /\ msgs' = (msgs \ {m}) \cup {[m EXCEPT !.at = 0, !.step = "saved", !.hold = Delay(m.task)]}
  /\ UNCHANGED <<now, api, recent, broken>>

Resend(m) ==
  /\ m.group = None /\ m.step = "saved"
  /\ Enqueue(m.task, m.hold, Put(m, "handled"))
  /\ UNCHANGED <<now, api, record, broken>>

\* runTask.
StartRun(m) ==
  /\ m.group # None /\ Ready(m)
  /\ Mark(m.task, "running")
  /\ msgs' = Put(m, "running")
  /\ UNCHANGED <<now, api, recent, broken>>

\* Slip: a word that nobody who polls knows.
OutcomesFailed == {"completed", "failed"}

\* The function returns, throws or times out.
Outcomes == {"completed", "error"}

EndRun(m) ==
  /\ m.step = "running"
  /\ \E s \in Outcomes : Mark(m.task, s)
  /\ msgs' = Put(m, "handled")
  /\ UNCHANGED <<now, api, recent, broken>>

\* Slip: the invocation fails, and its messages are delivered again.
DeleteForgotten(m) ==
  /\ m.step = "handled"
  /\ msgs' = Put(m, "waiting")
  /\ UNCHANGED <<now, api, record, recent, broken>>

\* The invocation returns, whatever became of its tasks: its messages are deleted.
Delete(m) ==
  /\ m.step = "handled"
  /\ msgs' = msgs \ {m}
  /\ UNCHANGED <<now, api, record, recent, broken>>

Tick == now < MaxTime /\ now' = now + 1 /\ UNCHANGED <<api, record, sqs, broken>>

----------------------------------------------------------------------------
(***************************************************************************)
(* What goes wrong.                                                        *)
(***************************************************************************)
Fault(kind) == kind \in Faults /\ faults < MaxFaults /\ faults' = faults + 1
Hurt(t, kind) == hit' = hit \cup {<<t, kind>>}

\* SQS does not say how many messages it has: an error for all that wait.
CountFails(p) ==
  /\ Fault("outage")
  /\ \E t \in Task : pc[t] = "count" /\ host[t] = p
  /\ pc' = [t \in Task |-> IF pc[t] = "count" /\ host[t] = p THEN "failed" ELSE pc[t]]
  /\ UNCHANGED <<now, host, due, hold, cache, record, sqs, hit>>

\* The status cannot be saved, or the message not be sent, or SQS took it and does
\* not say so: the request is answered with an error.
ScheduleFails(t) ==
  /\ Fault("outage") /\ pc[t] \in {"save", "send"}
  /\ pc' = [pc EXCEPT ![t] = "failed"]
  /\ \/ UNCHANGED sqs
     \/ pc[t] = "send" /\ Enqueue(t, hold[t], msgs)
  /\ UNCHANGED <<now, host, due, hold, cache, record, hit>>

\* Slip: rescheduleTask and runTask have no catch block that saves the error.
AbandonSilently(m) ==
  /\ Fault("outage")
  /\ Ready(m) \/ m.step \in {"saved", "running"}
  /\ msgs' = Put(m, "handled")
  /\ UNCHANGED <<now, api, record, recent, hit>>

\* A call for a message fails: the tags, a status, the queue; or the route is gone.
\* The task is given up, as an error if that can be saved.
Abandon(m) ==
  /\ Fault("outage")
  /\ Ready(m) \/ m.step \in {"saved", "running"}
  /\ \/ /\ msgs' = Put(m, "handled") /\ UNCHANGED <<recent>>
        /\ \/ Mark(m.task, "error") /\ UNCHANGED hit
           \/ Hurt(m.task, "outage") /\ UNCHANGED record
     \/ /\ m.step = "saved" /\ Enqueue(m.task, m.hold, Put(m, "handled"))
        /\ Mark(m.task, "error") /\ Hurt(m.task, "outage")
  /\ UNCHANGED <<now, api>>

\* The executor dies: SQS delivers the message again, after the visibility timeout
\* of twice the executor's longest life (MaxLambdaExecutionTimeSeconds * 2).  A
\* delayed one that was sent on already is then there twice.
Crash(m) ==
  /\ Fault("crash") /\ m.step # "waiting"
  /\ msgs' = Put(m, "waiting")
  /\ Hurt(m.task, IF m.group = None /\ m.step = "handled" THEN "twice" ELSE "crash")
  /\ UNCHANGED <<now, api, record, recent>>

\* The standard queue delivers a message to a second invocation.
DeliverTwice(m) ==
  /\ Fault("twice") /\ m.group = None /\ m.step # "waiting"
  /\ msgs' = msgs \cup {[m EXCEPT !.id = NextId, !.step = "waiting", !.hold = 0]}
  /\ Hurt(m.task, "twice")
  /\ UNCHANGED <<now, api, record, recent>>

----------------------------------------------------------------------------
Execute(m) == Reschedule(m) \/ Resend(m) \/ StartRun(m) \/ EndRun(m) \/ Delete(m)

Next ==
  \/ Tick
  \/ \E p \in Proc : Count(p) \/ Forget(p) \/ CountFails(p)
  \/ \E t \in Task : Arrive(t) \/ Save(t) \/ Send(t) \/ ScheduleFails(t)
  \/ \E m \in msgs : Execute(m) \/ Abandon(m) \/ Crash(m) \/ DeliverTwice(m)

\* Time passes, the calls of the executor return, a function ends by its timeout,
\* SQS delivers what can be delivered.
Spec ==
  /\ Init /\ [][Next]_vars
  /\ WF_vars(Tick)
  /\ \A t \in Task : WF_vars(\E m \in msgs : m.task = t /\ Execute(m))

----------------------------------------------------------------------------
(***************************************************************************)
(* What should hold.                                                       *)
(***************************************************************************)

Running == {m \in msgs : m.step = "running"}

\* However often a task is rescheduled, delivered twice or taken up after a crash, it
\* does not run a whole second before its time: the delays are rounded down, and
\* longer ones than SQS takes are cut in pieces (tasks.ts:135-142).
NotEarly == \A m \in Running : now + Second > due[m.task]

\* No more tasks of a route run at a time than its maxRunning says, although
\* executors die and tasks are scheduled again: groups of a FIFO queue do the
\* counting (tasks.ts:158-167, create_function_worker.js:248-252).
RunningLimit == MaxRunning > 0 => Cardinality(Running) <= MaxRunning

\* The status of a task that no fault has touched goes forward only: who polls never
\* sees a task that has run become pending or running again (the status is saved
\* before the message is sent, and rescheduling saves it again).
Forward == {<<"none", "pending">>, <<"pending", "running">>, <<"pending", "error">>,
            <<"running", "completed">>, <<"running", "error">>}
StatusForward ==
  [][\A t \in Task : record'[t] # record[t] =>
       <<record[t], record'[t]>> \in Forward \/ \E k \in Kind : <<t, k>> \in hit']_vars

\* A task that was accepted ends as completed or error and stays so, also when the
\* executor dies on the way; unless a delayed message was delivered after it had been
\* sent on, or the error could not be saved.
TasksSettle ==
  \A t \in Task : pc[t] = "accepted" ~>
    [](record[t] \in Final \/ <<t, "twice">> \in hit \/ <<t, "outage">> \in hit)

\* api_v1.yaml, maxPending: a request is rejected when the number of tasks that are
\* pending exceeds the limit.  So the last one to pass is the one that exceeds it.
PendingLimit == MaxPending > 0 => Cardinality(Waiting) <= MaxPending + 1

=============================================================================
