-------------------------- MODULE TaskQueueProofs --------------------------
(***************************************************************************)
(* Types, the limit on running tasks, the not-before times and the order   *)
(* of statuses, for any number of tasks, processes, messages and faults.   *)
(*                                                                         *)
(* The invariant is about the messages (Queues): their numbers tell them   *)
(* apart, one that was taken from a FIFO queue is the first of its group,  *)
(* and one that is on a FIFO queue, or about to be, is due within a second.*)
(* The order of statuses needs a second one: a task that no fault has      *)
(* touched has one message at a time, and its record says how far it is.   *)
(***************************************************************************)
EXTENDS TaskQueue, FiniteSetTheorems, TLAPS

Unique(M) == \A m, n \in M : m.id = n.id => m = n

\* What the FIFO queue gives out is the oldest of its group.
Foremost(M) ==
  \A m, n \in M : m.group # None /\ m.step # "waiting" /\ n.group = m.group => m.id <= n.id

Grouped(M) ==
  \A m \in M : /\ m.group # None => m.group \in Groups(m.task)
               /\ m.step = "running" => m.group # None
               /\ m.step = "saved" => m.group = None

OnTime(m) ==
  m.group # None \/ (m.step = "saved" /\ m.hold = 0) => now + Second > due[m.task]

Scheduled(M) == \A m \in M : pc[m.task] # "idle" /\ OnTime(m)

Queues(M) ==
  /\ M \subseteq Message /\ IsFiniteSet(M)
  /\ Unique(M) /\ Foremost(M) /\ Grouped(M) /\ Scheduled(M)

\* The delay that a request has computed was not over by a second then.
Requests == \A t \in Task : pc[t] = "send" /\ hold[t] = 0 => now + Second > due[t]

IInv == TypeOK /\ Queues(msgs) /\ Requests

----------------------------------------------------------------------------
(***************************************************************************)
(* Numbers and delays.                                                     *)
(***************************************************************************)
LEMMA NewNumber ==
  ASSUME Queues(msgs)
  PROVE  NextId \in Nat /\ \A m \in msgs : m.id < NextId
<1>. DEFINE I(m) == 1 .. m.id
            S == {1 .. m.id : m \in msgs}
            f == [m \in msgs |-> 1 .. m.id]
<1>1. \A m \in msgs : m.id \in Nat
  BY DEF Queues, Message
<1>2. IsFiniteSet(S)
  <2>1. f \in Surjection(msgs, S)
    BY DEF Surjection
  <2>. QED
    BY <2>1, FS_Surjection DEF Queues
<1>3. \A T \in S : IsFiniteSet(T)
  BY <1>1, FS_Interval
<1>4. IsFiniteSet(UNION S) /\ Cardinality(UNION S) \in Nat
  BY <1>2, <1>3, FS_UNION, FS_CardinalityType
<1>5. ASSUME NEW m \in msgs PROVE m.id <= Cardinality(UNION S)
  <2>1. 1 .. m.id \in SUBSET UNION S
    OBVIOUS
  <2>2. Cardinality(1 .. m.id) = m.id
    <3>1. m.id \in Nat
      BY <1>1
    <3>2. Cardinality(1 .. m.id) = IF 1 > m.id THEN 0 ELSE m.id - 1 + 1
      BY <3>1, FS_Interval
    <3>. QED
      BY <3>1, <3>2
  <2>3. Cardinality(1 .. m.id) <= Cardinality(UNION S)
    BY <1>4, <2>1, FS_Subset
  <2>. QED
    BY <2>2, <2>3
<1>6. NextId = 1 + Cardinality(UNION S)
  BY DEF NextId
<1>. QED
  BY <1>1, <1>4, <1>5, <1>6

LEMMA Delays ==
  ASSUME TypeOK, NEW t \in Task
  PROVE  Delay(t) \in Nat /\ (Delay(t) = 0 => now + Second > due[t])
<1>1. now \in Nat /\ due[t] \in Nat /\ MaxDelay \in Nat \ {0}
  BY ConstantsOK DEF TypeOK
<1>. DEFINE left == IF due[t] > now THEN (due[t] - now) \div 2 ELSE 0
<1>2. left \in Nat
  BY <1>1
<1>3. left = 0 => now + 2 > due[t]
  BY <1>1
<1>4. Delay(t) = IF left > MaxDelay THEN MaxDelay ELSE left
  BY DEF Delay, Second
<1>. HIDE DEF left
<1>. QED
  BY <1>1, <1>2, <1>3, <1>4 DEF Second

----------------------------------------------------------------------------
(***************************************************************************)
(* What a step may do to the messages.                                     *)
(***************************************************************************)
LEMMA Removed ==
  ASSUME NEW M, Queues(M), NEW N \in SUBSET M
  PROVE  Queues(N)
BY FS_Subset DEF Queues, Unique, Foremost, Grouped, Scheduled

LEMMA Replaced ==
  ASSUME NEW M, Queues(M), NEW m \in M, NEW k \in Message,
         k.id = m.id, k.task = m.task, k.group = m.group, OnTime(k),
         k.step = "running" => k.group # None, k.step = "saved" => k.group = None,
         k.group # None /\ k.step # "waiting" => \A n \in M : n.group = k.group => k.id <= n.id
  PROVE  Queues((M \ {m}) \cup {k})
<1>. DEFINE N == (M \ {m}) \cup {k}
<1>1. N \subseteq Message /\ IsFiniteSet(N)
  BY FS_RemoveElement, FS_AddElement DEF Queues
<1>2. Unique(N)
  BY DEF Queues, Unique
<1>3. Foremost(N)
  BY DEF Queues, Foremost, Message
<1>4. Grouped(N)
  BY DEF Queues, Grouped
<1>5. Scheduled(N)
  BY DEF Queues, Scheduled
<1>. QED
  BY <1>1, <1>2, <1>3, <1>4, <1>5 DEF Queues

LEMMA Added ==
  ASSUME NEW M, Queues(M), NEW k \in Message, \A m \in M : m.id < k.id,
         k.step = "waiting", k.group # None => k.group \in Groups(k.task),
         pc[k.task] # "idle", OnTime(k)
  PROVE  Queues(M \cup {k})
<1>. DEFINE N == M \cup {k}
<1>1. N \subseteq Message /\ IsFiniteSet(N)
  BY FS_AddElement DEF Queues
<1>2. Unique(N)
  BY DEF Queues, Unique, Message
<1>3. Foremost(N)
  BY DEF Queues, Foremost, Message
<1>4. Grouped(N)
  BY DEF Queues, Grouped
<1>5. Scheduled(N)
  BY DEF Queues, Scheduled
<1>. QED
  BY <1>1, <1>2, <1>3, <1>4, <1>5 DEF Queues

LEMMA Enqueued ==
  ASSUME IInv, NEW M, Queues(M), \A x \in M : \E y \in msgs : x.id = y.id,
         NEW t \in Task, pc[t] # "idle",
         NEW d \in Nat, d = 0 => now + Second > due[t], Enqueue(t, d, M)
  PROVE  Queues(msgs') /\ recent' \subseteq Task
<1>. DEFINE k(g) == [id |-> NextId, task |-> t, group |-> g,
                     at |-> IF d = 0 THEN 0 ELSE now + Second * d,
                     step |-> "waiting", hold |-> 0]
<1>1. recent' \subseteq Task
  BY DEF Enqueue, IInv, TypeOK
<1>2. NextId \in Nat /\ \A m \in M : m.id < NextId
  BY NewNumber DEF IInv
<1>3. (IF d = 0 THEN 0 ELSE now + Second * d) \in Nat
  BY ConstantsOK DEF IInv, TypeOK, Second
<1>4. ASSUME NEW g \in Groups(t) \cup {None}, g # None => d = 0
      PROVE  Queues(M \cup {k(g)})
  <2>1. k(g) \in Message
    BY <1>2, <1>3 DEF Message, Group, Step
  <2>2. OnTime(k(g))
    BY <1>4 DEF OnTime
  <2>. QED
    BY <1>2, <1>4, <2>1, <2>2, Added
<1>5. \/ d > 0 /\ msgs' = M \cup {k(None)}
      \/ d = 0 /\ \E g \in Groups(t) : msgs' = M \cup {k(g)}
      \/ msgs' = M
  BY DEF Enqueue
<1>6. CASE d > 0 /\ msgs' = M \cup {k(None)}
  BY <1>1, <1>4, <1>6
<1>7. CASE d = 0 /\ \E g \in Groups(t) : msgs' = M \cup {k(g)}
  BY <1>1, <1>4, <1>7
<1>8. CASE msgs' = M
  BY <1>1, <1>8
<1>. QED
  BY <1>5, <1>6, <1>7, <1>8

\* A message with the progress `step`, where Put leaves it.
LEMMA Puts ==
  ASSUME IInv, NEW m \in msgs, NEW step \in Step \ {"saved"},
         step = "running" => m.group # None,
         m.group # None /\ step # "waiting" => m.step # "waiting" \/ Ready(m)
  PROVE  Queues(Put(m, step)) /\ \A x \in Put(m, step) : \E y \in msgs : x.id = y.id
<1>. DEFINE k == [m EXCEPT !.at = 0, !.step = step, !.hold = 0]
<1>1. m \in Message
  BY DEF IInv, Queues
<1>2. k \in Message /\ k.id = m.id /\ k.task = m.task /\ k.group = m.group /\ k.step = step
  BY <1>1 DEF Message
<1>3. OnTime(k)
  BY <1>2 DEF IInv, Queues, Scheduled, OnTime
<1>4. k.group # None /\ k.step # "waiting" => \A n \in msgs : n.group = k.group => k.id <= n.id
  BY <1>1, <1>2 DEF IInv, Queues, Foremost, Ready, Message
<1>. QED
  BY <1>2, <1>3, <1>4, Replaced DEF IInv, Put

\* The rest of the state moves on.
LEMMA Carried ==
  ASSUME IInv, TypeOK', now' >= now, Queues(msgs'),
         \A t \in Task : pc[t] # "idle" => pc'[t] # "idle" /\ due'[t] = due[t]
  PROVE  Queues(msgs)'
<1>1. \A m \in msgs' : m.task \in Task
  BY DEF Queues, Message
<1>2. Scheduled(msgs)'
  BY <1>1 DEF Queues, Scheduled, OnTime, IInv, TypeOK, Second
<1>. QED
  BY <1>2 DEF Queues, Unique, Foremost, Grouped

----------------------------------------------------------------------------
(***************************************************************************)
(* The steps of the requests.                                              *)
(***************************************************************************)
LEMMA InitInv == Init => IInv
<1>. SUFFICES ASSUME Init PROVE IInv
  OBVIOUS
<1>1. TypeOK
  BY ConstantsOK DEF Init, TypeOK, Place, Status
<1>2. msgs = {}
  BY DEF Init
<1>3. Queues(msgs)
  BY <1>2, FS_EmptySet DEF Queues, Unique, Foremost, Grouped, Scheduled
<1>4. Requests
  BY DEF Init, Requests
<1>. QED
  BY <1>1, <1>3, <1>4 DEF IInv

\* The steps that leave the messages alone.
LEMMA Unsent ==
  ASSUME IInv, TypeOK', Requests', UNCHANGED msgs, now' >= now,
         \A t \in Task : pc[t] # "idle" => pc'[t] # "idle" /\ due'[t] = due[t]
  PROVE  IInv'
BY Carried DEF IInv

LEMMA ArriveStep == ASSUME IInv, NEW t \in Task, Arrive(t) PROVE IInv'
<1>1. PICK p \in Proc, d \in Due[t] :
        /\ host' = [host EXCEPT ![t] = p]
        /\ due' = [due EXCEPT ![t] = d]
        /\ pc' = [pc EXCEPT ![t] = IF MaxPending = 0 THEN "save"
                                    ELSE IF cache[p] = None THEN "count"
                                    ELSE Checked(cache[p].count)]
  BY DEF Arrive
<1>2. d \in 0 .. MaxTime
  BY ConstantsOK
<1>3. pc[t] = "idle" /\ pc'[t] \in {"save", "count", "rejected"} /\ pc' \in [Task -> Place]
  BY <1>1 DEF Arrive, Checked, IInv, TypeOK, Place
<1>4. TypeOK'
  BY <1>1, <1>2, <1>3 DEF Arrive, IInv, TypeOK, sqs, broken
<1>5. \A u \in Task \ {t} : pc'[u] = pc[u] /\ due'[u] = due[u]
  BY <1>1 DEF IInv, TypeOK
<1>6. now' = now /\ hold' = hold /\ msgs' = msgs
  BY DEF Arrive, sqs
<1>7. Requests'
  BY <1>3, <1>5, <1>6 DEF IInv, Requests
<1>. QED
  BY <1>3, <1>4, <1>5, <1>6, <1>7, Unsent DEF IInv, TypeOK

LEMMA CountStep == ASSUME IInv, NEW p \in Proc, Count(p) PROVE IInv'
<1>1. Cardinality(Waiting) \in Nat
  <2>1. Waiting \in SUBSET msgs /\ IsFiniteSet(msgs)
    BY DEF Waiting, IInv, Queues
  <2>. QED
    BY <2>1, FS_Subset, FS_CardinalityType
<1>2. now + CacheTtl \in Nat
  BY ConstantsOK DEF IInv, TypeOK
<1>3. cache' \in [Proc -> [count : Nat, until : Nat] \cup {None}]
  BY <1>1, <1>2 DEF Count, IInv, TypeOK
<1>4. pc' \in [Task -> Place]
  BY DEF Count, Checked, IInv, TypeOK, Place
<1>5. TypeOK'
  BY <1>3, <1>4 DEF Count, IInv, TypeOK, sqs, broken
<1>6. \A t \in Task : pc'[t] = pc[t] \/ (pc[t] = "count" /\ pc'[t] \in {"save", "rejected"})
  BY DEF Count, Checked
<1>7. now' = now /\ due' = due /\ hold' = hold /\ msgs' = msgs
  BY DEF Count, sqs
<1>8. Requests'
  BY <1>6, <1>7 DEF IInv, Requests
<1>. QED
  BY <1>5, <1>6, <1>7, <1>8, Unsent DEF IInv, TypeOK

LEMMA ForgetStep == ASSUME IInv, NEW p \in Proc, Forget(p) PROVE IInv'
<1>1. TypeOK'
  BY DEF Forget, IInv, TypeOK, sqs, broken
<1>2. now' = now /\ pc' = pc /\ due' = due /\ hold' = hold /\ msgs' = msgs
  BY DEF Forget, sqs
<1>3. Requests'
  BY <1>2 DEF IInv, Requests
<1>. QED
  BY <1>1, <1>2, <1>3, Unsent DEF IInv, TypeOK

LEMMA Marked ==
  ASSUME TypeOK, NEW t \in Task, NEW s \in Status, Mark(t, s)
  PROVE  record' \in [Task -> Status]
BY DEF Mark, TypeOK

LEMMA SaveStep == ASSUME IInv, NEW t \in Task, Save(t) PROVE IInv'
<1>1. Delay(t) \in Nat /\ (Delay(t) = 0 => now + Second > due[t])
  BY Delays DEF IInv
<1>2. record' \in [Task -> Status]
  BY Marked DEF Save, IInv, Status
<1>3. pc' = [pc EXCEPT ![t] = "send"] /\ hold' = [hold EXCEPT ![t] = Delay(t)] /\ pc[t] = "save"
  BY DEF Save
<1>4. now' = now /\ due' = due /\ msgs' = msgs
  BY DEF Save, sqs
<1>5. TypeOK'
  BY <1>1, <1>2, <1>3 DEF Save, IInv, TypeOK, sqs, broken, Place
<1>6. Requests'
  BY <1>1, <1>3, <1>4 DEF IInv, TypeOK, Requests
<1>7. \A u \in Task : pc[u] # "idle" => pc'[u] # "idle"
  BY <1>3 DEF IInv, TypeOK
<1>. QED
  BY <1>4, <1>5, <1>6, <1>7, Unsent DEF IInv, TypeOK

\* A request that sends its message, or had it sent when it fails.
LEMMA SendStep ==
  ASSUME IInv, NEW t \in Task, pc[t] = "send", NEW w \in {"accepted", "failed"},
         Enqueue(t, hold[t], msgs), pc' = [pc EXCEPT ![t] = w],
         \A u \in Task \ {t} : hold'[u] = hold[u], hold' \in [Task -> Nat],
         UNCHANGED <<now, host, due, cache, record>>,
         faults' \in 0 .. MaxFaults, UNCHANGED hit
  PROVE  IInv'
<1>1. hold[t] \in Nat /\ (hold[t] = 0 => now + Second > due[t])
  BY DEF IInv, TypeOK, Requests
<1>2. Queues(msgs') /\ recent' \subseteq Task
  BY <1>1, Enqueued DEF IInv
<1>3. TypeOK'
  BY <1>2 DEF IInv, TypeOK, Place, Queues
<1>4. \A u \in Task : pc[u] # "idle" => pc'[u] # "idle"
  BY DEF IInv, TypeOK
<1>5. Queues(msgs)'
  BY <1>2, <1>3, <1>4, Carried DEF IInv, TypeOK
<1>6. Requests'
  BY DEF IInv, TypeOK, Requests
<1>. QED
  BY <1>3, <1>5, <1>6 DEF IInv

LEMMA FaultCounts ==
  ASSUME IInv, NEW kind, Fault(kind)
  PROVE  faults' \in 0 .. MaxFaults
<1>1. faults \in 0 .. MaxFaults /\ MaxFaults \in Nat
  BY ConstantsOK DEF IInv, TypeOK
<1>. QED
  BY <1>1 DEF Fault

LEMMA CountFailsStep == ASSUME IInv, NEW p \in Proc, CountFails(p) PROVE IInv'
<1>1. pc' \in [Task -> Place]
  BY DEF CountFails, IInv, TypeOK, Place
<1>2. TypeOK'
  BY <1>1, FaultCounts DEF CountFails, IInv, TypeOK, sqs
<1>3. \A t \in Task : pc'[t] = pc[t] \/ (pc[t] = "count" /\ pc'[t] = "failed")
  BY DEF CountFails
<1>4. now' = now /\ due' = due /\ hold' = hold /\ msgs' = msgs
  BY DEF CountFails, sqs
<1>5. Requests'
  BY <1>3, <1>4 DEF IInv, Requests
<1>. QED
  BY <1>2, <1>3, <1>4, <1>5, Unsent DEF IInv, TypeOK

LEMMA ScheduleFailsStep == ASSUME IInv, NEW t \in Task, ScheduleFails(t) PROVE IInv'
<1>1. pc' = [pc EXCEPT ![t] = "failed"] /\ faults' \in 0 .. MaxFaults /\ pc[t] # "idle"
  BY FaultCounts DEF ScheduleFails
<1>2. CASE UNCHANGED sqs
  <2>1. TypeOK'
    BY <1>1, <1>2 DEF ScheduleFails, IInv, TypeOK, sqs, Place
  <2>2. \A u \in Task : pc[u] # "idle" => pc'[u] # "idle"
    BY <1>1 DEF IInv, TypeOK
  <2>3. now' = now /\ due' = due /\ hold' = hold /\ msgs' = msgs
    BY <1>2 DEF ScheduleFails, sqs
  <2>4. Requests'
    BY <1>1, <2>3 DEF IInv, TypeOK, Requests
  <2>. QED
    BY <2>1, <2>2, <2>3, <2>4, Unsent DEF IInv, TypeOK
<1>3. CASE pc[t] = "send" /\ Enqueue(t, hold[t], msgs)
  <2>1. hold' = hold /\ hold' \in [Task -> Nat]
    BY DEF ScheduleFails, IInv, TypeOK
  <2>. QED
    BY <1>1, <1>3, <2>1, SendStep DEF ScheduleFails
<1>. QED
  BY <1>2, <1>3 DEF ScheduleFails

LEMMA TickStep == ASSUME IInv, Tick PROVE IInv'
<1>1. TypeOK'
  BY ConstantsOK DEF Tick, IInv, TypeOK, api, sqs, broken
<1>2. now' >= now /\ pc' = pc /\ due' = due /\ hold' = hold /\ msgs' = msgs
  BY DEF Tick, IInv, TypeOK, api, sqs
<1>3. Requests'
  BY <1>2 DEF Tick, IInv, TypeOK, Requests, Second
<1>. QED
  BY <1>1, <1>2, <1>3, Unsent

----------------------------------------------------------------------------
(***************************************************************************)
(* The steps of the executor.                                              *)
(***************************************************************************)

\* Those that leave the requests and the clock alone.
LEMMA Executed ==
  ASSUME IInv, UNCHANGED <<now, api>>, Queues(msgs'), record' \in [Task -> Status],
         recent' \subseteq Task, faults' \in 0 .. MaxFaults, hit' \subseteq Task \X Kind
  PROVE  IInv'
<1>1. now' = now /\ pc' = pc /\ due' = due /\ hold' = hold /\ host' = host /\ cache' = cache
  BY DEF api
<1>2. TypeOK'
  BY <1>1 DEF IInv, TypeOK, Queues
<1>3. Queues(msgs)'
  BY <1>1, <1>2, Carried DEF IInv, TypeOK
<1>4. Requests'
  BY <1>1 DEF IInv, Requests
<1>. QED
  BY <1>2, <1>3, <1>4 DEF IInv

LEMMA RescheduleStep == ASSUME IInv, NEW m \in msgs, Reschedule(m) PROVE IInv'
<1>1. m \in Message /\ m.task \in Task
  BY DEF IInv, Queues, Message
<1>2. Delay(m.task) \in Nat /\ (Delay(m.task) = 0 => now + Second > due[m.task])
  BY <1>1, Delays DEF IInv
<1>. DEFINE k == [m EXCEPT !.at = 0, !.step = "saved", !.hold = Delay(m.task)]
<1>3. /\ k \in Message /\ k.id = m.id /\ k.task = m.task /\ k.group = m.group
      /\ k.step = "saved" /\ k.hold = Delay(m.task)
  BY <1>1, <1>2 DEF Message, Step
<1>4. m.group = None
  BY DEF Reschedule
<1>5. OnTime(k)
  BY <1>2, <1>3, <1>4 DEF OnTime
<1>6. Queues(msgs')
  BY <1>3, <1>4, <1>5, Replaced DEF IInv, Reschedule
<1>7. record' \in [Task -> Status]
  BY <1>1, Marked DEF Reschedule, IInv, Status
<1>. QED
  BY <1>6, <1>7, Executed DEF Reschedule, IInv, TypeOK, broken

\* The message that a delayed one is sent on as, while that one is handled.
LEMMA SentOn ==
  ASSUME IInv, NEW m \in msgs, m.group = None, m.step = "saved",
         Enqueue(m.task, m.hold, Put(m, "handled"))
  PROVE  Queues(msgs') /\ recent' \subseteq Task
<1>1. m.task \in Task /\ m.hold \in Nat
  BY DEF IInv, Queues, Message
<1>2. pc[m.task] # "idle" /\ (m.hold = 0 => now + Second > due[m.task])
  BY DEF IInv, Queues, Scheduled, OnTime
<1>3. Queues(Put(m, "handled")) /\ \A x \in Put(m, "handled") : \E y \in msgs : x.id = y.id
  BY Puts DEF Step
<1>. QED
  BY <1>1, <1>2, <1>3, Enqueued

LEMMA ResendStep == ASSUME IInv, NEW m \in msgs, Resend(m) PROVE IInv'
BY SentOn, Executed DEF Resend, IInv, TypeOK, broken

LEMMA StartRunStep == ASSUME IInv, NEW m \in msgs, StartRun(m) PROVE IInv'
<1>1. m.task \in Task
  BY DEF IInv, Queues, Message
<1>2. Queues(msgs')
  BY Puts DEF StartRun, Step
<1>3. record' \in [Task -> Status]
  BY <1>1, Marked DEF StartRun, IInv, Status
<1>. QED
  BY <1>2, <1>3, Executed DEF StartRun, IInv, TypeOK, broken

LEMMA EndRunStep == ASSUME IInv, NEW m \in msgs, EndRun(m) PROVE IInv'
<1>1. m.task \in Task
  BY DEF IInv, Queues, Message
<1>2. Queues(msgs')
  BY Puts DEF EndRun, Step
<1>3. record' \in [Task -> Status]
  BY <1>1, Marked DEF EndRun, Outcomes, IInv, Status
<1>. QED
  BY <1>2, <1>3, Executed DEF EndRun, IInv, TypeOK, broken

LEMMA DeleteStep == ASSUME IInv, NEW m \in msgs, Delete(m) PROVE IInv'
<1>1. Queues(msgs')
  BY Removed DEF Delete, IInv
<1>. QED
  BY <1>1, Executed DEF Delete, IInv, TypeOK, broken

LEMMA Hurts ==
  ASSUME IInv, NEW t \in Task, NEW kind \in Kind, Hurt(t, kind)
  PROVE  hit' \subseteq Task \X Kind
BY DEF Hurt, IInv, TypeOK

LEMMA AbandonStep == ASSUME IInv, NEW m \in msgs, Abandon(m) PROVE IInv'
<1>1. m.task \in Task
  BY DEF IInv, Queues, Message
<1>2. faults' \in 0 .. MaxFaults
  BY FaultCounts DEF Abandon
<1>3. record' \in [Task -> Status]
  BY <1>1, Marked DEF Abandon, IInv, TypeOK, Status
<1>4. hit' \subseteq Task \X Kind
  BY <1>1, Hurts DEF Abandon, IInv, TypeOK, Kind
<1>5. CASE msgs' = Put(m, "handled") /\ UNCHANGED recent
  <2>1. m.group # None => m.step # "waiting" \/ Ready(m)
    BY DEF Abandon
  <2>2. Queues(msgs')
    BY <1>5, <2>1, Puts DEF Step
  <2>. QED
    BY <1>2, <1>3, <1>4, <1>5, <2>2, Executed DEF Abandon, IInv, TypeOK
<1>6. CASE m.step = "saved" /\ Enqueue(m.task, m.hold, Put(m, "handled"))
  <2>1. m.group = None
    BY <1>6 DEF IInv, Queues, Grouped
  <2>2. Queues(msgs') /\ recent' \subseteq Task
    BY <1>6, <2>1, SentOn
  <2>. QED
    BY <1>2, <1>3, <1>4, <2>2, Executed DEF Abandon
<1>. QED
  BY <1>5, <1>6 DEF Abandon

LEMMA CrashStep == ASSUME IInv, NEW m \in msgs, Crash(m) PROVE IInv'
<1>1. m.task \in Task
  BY DEF IInv, Queues, Message
<1>2. Queues(msgs')
  BY Puts DEF Crash, Step
<1>3. hit' \subseteq Task \X Kind
  BY <1>1, Hurts DEF Crash, Kind
<1>. QED
  BY <1>2, <1>3, FaultCounts, Executed DEF Crash, IInv, TypeOK

LEMMA DeliverTwiceStep == ASSUME IInv, NEW m \in msgs, DeliverTwice(m) PROVE IInv'
<1>1. m \in Message /\ m.task \in Task
  BY DEF IInv, Queues, Message
<1>2. NextId \in Nat /\ \A x \in msgs : x.id < NextId
  BY NewNumber DEF IInv
<1>. DEFINE k == [m EXCEPT !.id = NextId, !.step = "waiting", !.hold = 0]
<1>3. k \in Message /\ k.id = NextId /\ k.task = m.task /\ k.group = m.group /\ k.step = "waiting"
  BY <1>1, <1>2 DEF Message, Step
<1>4. m.group = None /\ msgs' = msgs \cup {k}
  BY DEF DeliverTwice
<1>5. pc[k.task] # "idle" /\ OnTime(k)
  BY <1>3, <1>4 DEF IInv, Queues, Scheduled, OnTime
<1>. HIDE DEF k
<1>6. Queues(msgs')
  BY <1>2, <1>3, <1>4, <1>5, Added DEF IInv
<1>7. hit' \subseteq Task \X Kind
  BY <1>1, Hurts DEF DeliverTwice, Kind
<1>. QED
  BY <1>6, <1>7, FaultCounts, Executed DEF DeliverTwice, IInv, TypeOK

----------------------------------------------------------------------------
(***************************************************************************)
(* The theorems.                                                           *)
(***************************************************************************)
LEMMA NextInv == IInv /\ [Next]_vars => IInv'
<1>. SUFFICES ASSUME IInv, [Next]_vars PROVE IInv'
  OBVIOUS
<1>1. CASE UNCHANGED vars
  <2>1. UNCHANGED <<now, api>> /\ UNCHANGED <<record, msgs, recent, faults, hit>>
    BY <1>1 DEF vars, sqs, broken
  <2>. QED
    BY <2>1, Executed DEF IInv, TypeOK
<1>2. ASSUME NEW p \in Proc, Count(p) \/ Forget(p) \/ CountFails(p) PROVE IInv'
  BY <1>2, CountStep, ForgetStep, CountFailsStep
<1>3. ASSUME NEW t \in Task, Arrive(t) \/ Save(t) \/ Send(t) \/ ScheduleFails(t) PROVE IInv'
  <2>1. CASE Send(t)
    <3>1. hold' = [hold EXCEPT ![t] = 0] /\ hold' \in [Task -> Nat]
      BY <2>1 DEF Send, IInv, TypeOK
    <3>2. \A u \in Task \ {t} : hold'[u] = hold[u]
      BY <3>1 DEF IInv, TypeOK
    <3>. QED
      BY <2>1, <3>1, <3>2, SendStep DEF Send, IInv, TypeOK, broken
  <2>. QED
    BY <1>3, <2>1, ArriveStep, SaveStep, ScheduleFailsStep
<1>4. ASSUME NEW m \in msgs, Execute(m) \/ Abandon(m) \/ Crash(m) \/ DeliverTwice(m) PROVE IInv'
  BY <1>4, RescheduleStep, ResendStep, StartRunStep, EndRunStep, DeleteStep, AbandonStep,
     CrashStep, DeliverTwiceStep DEF Execute
<1>. QED
  BY <1>1, <1>2, <1>3, <1>4, TickStep DEF Next

LEMMA Invariant == Spec => []IInv
BY InitInv, NextInv, PTL DEF Spec

\* The messages, statuses, counts and requests keep their types.
THEOREM TypeCorrect == Spec => []TypeOK
<1>1. IInv => TypeOK
  BY DEF IInv
<1>. QED
  BY <1>1, Invariant, PTL

\* No task runs a whole second before its time, for any chain of delays, deliveries
\* and crashes (getDelay, rescheduleTask).
THEOREM NeverEarly == Spec => []NotEarly
<1>1. IInv => NotEarly
  BY DEF IInv, Queues, Grouped, Scheduled, OnTime, NotEarly, Running
<1>. QED
  BY <1>1, Invariant, PTL

\* The message groups bound the tasks that run: those that do are of different groups,
\* and there are maxRunning of these (scheduleTaskAsync).
THEOREM RunsWithinLimit == Spec => []RunningLimit
<1>1. ASSUME IInv, MaxRunning > 0 PROVE Cardinality(Running) <= MaxRunning
  <2>. DEFINE G == 0 .. MaxRunning - 1
              f == [m \in Running |-> m.group]
  <2>1. \A m \in Running : m \in msgs /\ m.group # None /\ m.group \in Groups(m.task)
    BY <1>1 DEF Running, IInv, Queues, Grouped
  <2>2. \A m \in Running : m.group \in G
    <3>1. MaxRunning # 0
      BY <1>1, ConstantsOK
    <3>. QED
      BY <2>1, <3>1 DEF Groups
  <2>3. \A m, n \in Running : m.group = n.group => m = n
    <3>. SUFFICES ASSUME NEW m \in Running, NEW n \in Running, m.group = n.group PROVE m = n
      OBVIOUS
    <3>1. m \in msgs /\ n \in msgs /\ m.id \in Nat /\ n.id \in Nat
      BY <1>1 DEF Running, IInv, Queues, Message
    <3>2. m.id <= n.id /\ n.id <= m.id
      BY <1>1, <2>1, <3>1 DEF Running, IInv, Queues, Foremost
    <3>3. m.id = n.id
      BY <3>1, <3>2
    <3>. QED
      BY <1>1, <3>1, <3>3 DEF IInv, Queues, Unique
  <2>4. f \in Injection(Running, G)
    BY <2>2, <2>3 DEF Injection, IsInjective
  <2>5. IsFiniteSet(G) /\ Cardinality(G) = MaxRunning
    <3>1. MaxRunning \in Nat /\ MaxRunning - 1 \in Int /\ ~ (0 > MaxRunning - 1)
      BY <1>1, ConstantsOK
    <3>2. IsFiniteSet(G) /\ Cardinality(G) = IF 0 > MaxRunning - 1 THEN 0 ELSE (MaxRunning - 1) - 0 + 1
      BY <3>1, FS_Interval
    <3>. QED
      BY <3>1, <3>2
  <2>6. Cardinality(Running) <= Cardinality(G)
    BY <2>4, <2>5, FS_Injection
  <2>. QED
    BY <2>5, <2>6
<1>2. IInv => RunningLimit
  BY <1>1 DEF RunningLimit
<1>. QED
  BY <1>2, Invariant, PTL

----------------------------------------------------------------------------
(***************************************************************************)
(* The status of a task goes forward.                                      *)
(***************************************************************************)

\* No fault has touched the task.
Clear(t) == \A k \in Kind : <<t, k>> \notin hit

\* The messages of a task that are still to be dealt with.
Open(t) == {m \in msgs : m.task = t /\ m.step # "handled"}

\* There is one such message at most, none before it was sent, and the record says how
\* far it is.
InStep(t) ==
  /\ pc[t] \in {"idle", "count", "save", "rejected"} => record[t] = "none"
  /\ pc[t] = "send" => record[t] = "pending"
  /\ pc[t] \notin {"accepted", "failed"} => Open(t) = {}
  /\ \A m, n \in Open(t) : m = n
  /\ \A m \in Open(t) : record[t] = IF m.step = "running" THEN "running" ELSE "pending"

Orderly == \A t \in Task : Clear(t) => InStep(t)

Moved(t) == record'[t] = record[t] \/ <<record[t], record'[t]>> \in Forward

LEMMA Members == ASSUME IInv, NEW m \in msgs PROVE m \in Message /\ m.task \in Task /\ m.step \in Step
BY DEF IInv, Queues, Message

\* Nothing happens to the task.
LEMMA Left ==
  ASSUME NEW t \in Task, InStep(t), pc'[t] = pc[t], record'[t] = record[t],
         \A x \in msgs' : x.task = t => x \in msgs \/ x.step = "handled"
  PROVE  InStep(t)' /\ Moved(t)
<1>1. \A x : x \in Open(t)' => x \in Open(t)
  BY DEF Open
<1>. QED
  BY <1>1 DEF InStep, Moved

\* The message of the task takes a step, or gives way to another.
LEMMA Turned ==
  ASSUME NEW t \in Task, InStep(t), pc'[t] = pc[t], NEW m \in Open(t), NEW K,
         \A x \in msgs' : x \in msgs \ {m} \/ x \in K,
         \A x, y \in K : x.step # "handled" /\ y.step # "handled" => x = y,
         \A x \in K : x.step # "handled" =>
           record'[t] = IF x.step = "running" THEN "running" ELSE "pending"
  PROVE  InStep(t)'
<1>1. pc[t] \in {"accepted", "failed"}
  BY DEF InStep
<1>2. \A x : x \in Open(t)' => x \in K /\ x.step # "handled"
  BY DEF Open, InStep
<1>. QED
  BY <1>1, <1>2 DEF InStep

\* What Enqueue adds is a message of the task that waits, one or none.
LEMMA Adds ==
  ASSUME NEW t \in Task, NEW d, NEW M, Enqueue(t, d, M)
  PROVE  \E K : /\ \A x \in msgs' : x \in M \/ x \in K
                /\ \A x \in K : x.task = t /\ x.step = "waiting"
                /\ \A x, y \in K : x = y
<1>. DEFINE k(g) == [id |-> NextId, task |-> t, group |-> g,
                     at |-> IF d = 0 THEN 0 ELSE now + Second * d, step |-> "waiting", hold |-> 0]
<1>. DEFINE Fits(K) == /\ \A x \in msgs' : x \in M \/ x \in K
                       /\ \A x \in K : x.task = t /\ x.step = "waiting"
                       /\ \A x, y \in K : x = y
<1>1. \/ msgs' = M
      \/ \E g : msgs' = M \cup {k(g)}
  BY DEF Enqueue
<1>2. ASSUME msgs' = M  PROVE \E K : Fits(K)
  <2>1. Fits({})
    BY <1>2
  <2>. HIDE DEF Fits
  <2>. QED
    BY <2>1
<1>3. ASSUME NEW g, msgs' = M \cup {k(g)}  PROVE \E K : Fits(K)
  <2>1. k(g).task = t /\ k(g).step = "waiting"
    OBVIOUS
  <2>. HIDE DEF k
  <2>2. Fits({k(g)})
    BY <1>3, <2>1
  <2>. HIDE DEF Fits
  <2>. QED
    BY <2>2
<1>4. \E K : Fits(K)
  BY <1>1, <1>2, <1>3
<1>. QED
  BY <1>4

\* Put replaces a message by itself, a step further.
LEMMA PutIs ==
  ASSUME IInv, NEW m \in msgs, NEW step
  PROVE  \E k : /\ Put(m, step) = (msgs \ {m}) \cup {k}
                /\ k.task = m.task /\ k.step = step
<1>. DEFINE k == [m EXCEPT !.at = 0, !.step = step, !.hold = 0]
<1>1. k.task = m.task /\ k.step = step
  BY Members DEF Message
<1>. QED
  BY <1>1 DEF Put

LEMMA Marks ==
  ASSUME IInv, NEW t \in Task, NEW u \in Task, NEW s, Mark(u, s)
  PROVE  record'[t] = IF t = u THEN s ELSE record[t]
BY DEF Mark, IInv, TypeOK

LEMMA RequestInStep ==
  ASSUME IInv, NEW t \in Task, InStep(t),
         NEW u \in Task, Arrive(u) \/ Save(u) \/ Send(u) \/ ScheduleFails(u)
  PROVE  InStep(t)' /\ Moved(t)
<1>1. CASE t # u
  <2>1. pc'[t] = pc[t] /\ record'[t] = record[t]
    BY <1>1 DEF Arrive, Save, Send, ScheduleFails, Mark, IInv, TypeOK
  <2>2. \/ msgs' = msgs
        \/ Enqueue(u, hold[u], msgs)
    BY DEF Arrive, Save, Send, ScheduleFails, sqs
  <2>3. \A x \in msgs' : x.task = t => x \in msgs
    BY <1>1, <2>2, Adds
  <2>. QED
    BY <2>1, <2>3, Left
<1>2. CASE t = u
  <2>1. CASE Arrive(t)
    <3>1. pc[t] = "idle" /\ pc'[t] \in {"save", "count", "rejected"} /\ UNCHANGED <<record, msgs>>
      BY <2>1 DEF Arrive, Checked, IInv, TypeOK, sqs
    <3>. QED
      BY <3>1 DEF InStep, Open, Moved
  <2>2. CASE Save(t)
    <3>1. /\ pc[t] = "save" /\ pc'[t] = "send" /\ UNCHANGED msgs /\ record'[t] = "pending"
      BY <2>2, Marks DEF Save, IInv, TypeOK, sqs
    <3>. QED
      BY <3>1 DEF InStep, Open, Moved, Forward
  <2>3. CASE Send(t) \/ (ScheduleFails(t) /\ pc[t] = "send" /\ Enqueue(t, hold[t], msgs))
    <3>1. /\ pc[t] = "send" /\ pc'[t] \in {"accepted", "failed"} /\ UNCHANGED record
          /\ Enqueue(t, hold[t], msgs)
      BY <2>3 DEF Send, ScheduleFails, IInv, TypeOK
    <3>2. PICK K : /\ \A x \in msgs' : x \in msgs \/ x \in K
                   /\ \A x \in K : x.task = t /\ x.step = "waiting"
                   /\ \A x, y \in K : x = y
      BY <3>1, Adds
    <3>3. Open(t) = {} /\ record[t] = "pending"
      BY <3>1 DEF InStep
    <3>4. \A x : x \in Open(t)' => x \in K
      BY <3>2, <3>3 DEF Open
    <3>. QED
      BY <3>1, <3>2, <3>3, <3>4 DEF InStep, Moved
  <2>4. CASE ScheduleFails(t) /\ UNCHANGED sqs
    <3>1. pc[t] \in {"save", "send"} /\ pc'[t] = "failed" /\ UNCHANGED <<record, msgs>>
      BY <2>4 DEF ScheduleFails, IInv, TypeOK, sqs
    <3>. QED
      BY <3>1 DEF InStep, Open, Moved
  <2>. QED
    BY <1>2, <2>1, <2>2, <2>3, <2>4 DEF ScheduleFails
<1>. QED
  BY <1>1, <1>2

LEMMA CountInStep ==
  ASSUME IInv, NEW t \in Task, InStep(t), NEW p \in Proc, Count(p) \/ Forget(p) \/ CountFails(p)
  PROVE  InStep(t)' /\ Moved(t)
<1>1. /\ UNCHANGED <<record, msgs>>
      /\ \/ pc'[t] = pc[t]
         \/ pc[t] = "count" /\ pc'[t] \in {"save", "rejected", "failed"}
  BY DEF Count, Forget, CountFails, Checked, sqs
<1>. QED
  BY <1>1 DEF InStep, Open, Moved

\* A step of the executor for the message of another task.
LEMMA ExecutedElse ==
  ASSUME IInv, NEW t \in Task, InStep(t), NEW m \in msgs, m.task # t,
         Execute(m) \/ Abandon(m) \/ Crash(m) \/ DeliverTwice(m)
  PROVE  InStep(t)' /\ Moved(t)
<1>1. pc'[t] = pc[t]
  BY DEF Execute, Reschedule, Resend, StartRun, EndRun, Delete, Abandon, Crash, DeliverTwice, api
<1>2. record'[t] = record[t]
  <2>1. UNCHANGED record \/ \E s : Mark(m.task, s)
    BY DEF Execute, Reschedule, Resend, StartRun, EndRun, Delete, Abandon, Crash, DeliverTwice
  <2>. QED
    BY <2>1, Marks, Members
<1>3. \A x \in msgs' : x.task = t => x \in msgs
  <2>1. CASE \E step : msgs' = Put(m, step)
    BY <2>1, PutIs
  <2>2. CASE Enqueue(m.task, m.hold, Put(m, "handled"))
    BY <2>2, PutIs, Adds, Members
  <2>3. CASE Reschedule(m)
    <3>1. [m EXCEPT !.at = 0, !.step = "saved", !.hold = Delay(m.task)].task = m.task
      BY Members DEF Message
    <3>. QED
      BY <2>3, <3>1 DEF Reschedule
  <2>4. CASE DeliverTwice(m)
    <3>1. [m EXCEPT !.id = NextId, !.step = "waiting", !.hold = 0].task = m.task
      BY Members DEF Message
    <3>. QED
      BY <2>4, <3>1 DEF DeliverTwice
  <2>5. CASE Delete(m)
    BY <2>5 DEF Delete
  <2>. QED
    BY <2>1, <2>2, <2>3, <2>4, <2>5 DEF Execute, Resend, StartRun, EndRun, Abandon, Crash
<1>. QED
  BY <1>1, <1>2, <1>3, Left

\* One for its own message, that no fault touches.
LEMMA ExecutedInStep ==
  ASSUME IInv, NEW t \in Task, InStep(t), Clear(t)', NEW m \in msgs, m.task = t,
         Execute(m) \/ Abandon(m) \/ Crash(m) \/ DeliverTwice(m)
  PROVE  InStep(t)' /\ Moved(t)
<1>1. pc'[t] = pc[t]
  BY DEF Execute, Reschedule, Resend, StartRun, EndRun, Delete, Abandon, Crash, DeliverTwice, api
<1>2. ~ Crash(m) /\ ~ DeliverTwice(m)
  BY DEF Crash, DeliverTwice, Hurt, Clear, Kind
<1>3. CASE Delete(m)
  BY <1>1, <1>3, Left DEF Delete
<1>4. CASE Reschedule(m)
  <2>. DEFINE k == [m EXCEPT !.at = 0, !.step = "saved", !.hold = Delay(m.task)]
  <2>1. k.step = "saved"
    BY Members DEF Message
  <2>2. m \in Open(t) /\ m.step = "waiting" /\ record[t] = "pending"
    BY <1>4 DEF Reschedule, Ready, Waiting, Open, InStep
  <2>3. record'[t] = "pending" /\ msgs' = (msgs \ {m}) \cup {k}
    BY <1>4, Marks DEF Reschedule
  <2>. HIDE DEF k
  <2>. QED
    BY <1>1, <2>1, <2>2, <2>3, Turned DEF Moved
<1>5. CASE Resend(m)
  <2>1. PICK h : Put(m, "handled") = (msgs \ {m}) \cup {h} /\ h.step = "handled"
    BY PutIs
  <2>2. PICK K : /\ \A x \in msgs' : x \in Put(m, "handled") \/ x \in K
                 /\ \A x \in K : x.task = t /\ x.step = "waiting"
                 /\ \A x, y \in K : x = y
    BY <1>5, Adds DEF Resend
  <2>3. m \in Open(t) /\ record[t] = "pending" /\ record' = record
    BY <1>5 DEF Resend, Open, InStep
  <2>4. InStep(t)'
    <3>. DEFINE L == K \cup {h}
    <3>1. /\ \A x \in msgs' : x \in msgs \ {m} \/ x \in L
          /\ \A x, y \in L : x.step # "handled" /\ y.step # "handled" => x = y
          /\ \A x \in L : x.step # "handled" => x.step = "waiting"
      BY <2>1, <2>2
    <3>. HIDE DEF L
    <3>. QED
      BY <1>1, <2>3, <3>1, Turned
  <2>. QED
    BY <2>3, <2>4 DEF Moved
<1>6. CASE StartRun(m)
  <2>1. PICK k : msgs' = (msgs \ {m}) \cup {k} /\ k.step = "running"
    BY <1>6, PutIs DEF StartRun
  <2>2. m \in Open(t) /\ record[t] = "pending"
    BY <1>6 DEF StartRun, Ready, Waiting, Open, InStep
  <2>3. record'[t] = "running"
    BY <1>6, Marks DEF StartRun
  <2>4. InStep(t)'
    BY <1>1, <2>1, <2>2, <2>3, Turned
  <2>. QED
    BY <2>2, <2>3, <2>4 DEF Moved, Forward
<1>7. CASE EndRun(m)
  <2>1. PICK k : msgs' = (msgs \ {m}) \cup {k} /\ k.step = "handled"
    BY <1>7, PutIs DEF EndRun
  <2>2. m \in Open(t) /\ record[t] = "running"
    BY <1>7 DEF EndRun, Open, InStep
  <2>3. record'[t] \in {"completed", "error"}
    BY <1>7, Marks DEF EndRun, Outcomes
  <2>4. InStep(t)'
    BY <1>1, <2>1, <2>2, Turned
  <2>. QED
    BY <2>2, <2>3, <2>4 DEF Moved, Forward
<1>8. CASE Abandon(m)
  <2>1. msgs' = Put(m, "handled") /\ Mark(m.task, "error")
    BY <1>8 DEF Abandon, Hurt, Clear, Kind
  <2>2. PICK k : msgs' = (msgs \ {m}) \cup {k} /\ k.step = "handled"
    BY <2>1, PutIs
  <2>3. m \in Open(t) /\ record[t] \in {"pending", "running"}
    BY <1>8 DEF Abandon, Ready, Waiting, Open, InStep
  <2>4. record'[t] = "error"
    BY <2>1, Marks
  <2>5. InStep(t)'
    BY <1>1, <2>2, <2>3, Turned
  <2>. QED
    BY <2>3, <2>4, <2>5 DEF Moved, Forward
<1>. QED
  BY <1>2, <1>3, <1>4, <1>5, <1>6, <1>7, <1>8 DEF Execute

LEMMA HitGrows == ASSUME [Next]_vars PROVE hit \subseteq hit'
BY DEF Next, Tick, Count, Forget, CountFails, Arrive, Save, Send, ScheduleFails, Execute, Reschedule, Resend,
   StartRun, EndRun, Delete, Abandon, Crash, DeliverTwice, Hurt, broken, vars

LEMMA NextInStep ==
  ASSUME IInv, [Next]_vars, NEW t \in Task, InStep(t), Clear(t)'
  PROVE  InStep(t)' /\ Moved(t)
<1>1. CASE Tick
  BY <1>1, Left DEF Tick, api, sqs
<1>2. CASE UNCHANGED vars
  BY <1>2, Left DEF vars, api, sqs
<1>3. CASE \E p \in Proc : Count(p) \/ Forget(p) \/ CountFails(p)
  BY <1>3, CountInStep
<1>4. CASE \E u \in Task : Arrive(u) \/ Save(u) \/ Send(u) \/ ScheduleFails(u)
  BY <1>4, RequestInStep
<1>5. CASE \E m \in msgs : Execute(m) \/ Abandon(m) \/ Crash(m) \/ DeliverTwice(m)
  BY <1>5, ExecutedElse, ExecutedInStep
<1>. QED
  BY <1>1, <1>2, <1>3, <1>4, <1>5 DEF Next

\* The status of a task that no fault has touched goes forward, because it has one
\* message at a time and the status is written with each of its steps (tasks.ts,
\* executor.ts).
THEOREM StatusesGoForward == Spec => StatusForward
<1>1. Init => Orderly
  BY DEF Init, Orderly, InStep, Open
<1>2. ASSUME IInv, Orderly, [Next]_vars PROVE Orderly'
  <2>. SUFFICES ASSUME NEW t \in Task, Clear(t)' PROVE InStep(t)'
    BY DEF Orderly
  <2>1. InStep(t)
    BY <1>2, HitGrows DEF Orderly, Clear
  <2>. QED
    BY <1>2, <2>1, NextInStep
<1>3. ASSUME IInv, Orderly, [Next]_vars
      PROVE  [\A t \in Task : record'[t] # record[t] =>
                <<record[t], record'[t]>> \in Forward \/ \E k \in Kind : <<t, k>> \in hit']_vars
  <2>. SUFFICES ASSUME NEW t \in Task, Clear(t)' PROVE Moved(t)
    BY DEF Clear, Moved
  <2>1. InStep(t)
    BY <1>3, HitGrows DEF Orderly, Clear
  <2>. QED
    BY <1>3, <2>1, NextInStep
<1>4. Spec => []Orderly
  BY <1>1, <1>2, Invariant, PTL DEF Spec
<1>. QED
  BY <1>3, <1>4, Invariant, PTL DEF Spec, StatusForward
============================================================================
