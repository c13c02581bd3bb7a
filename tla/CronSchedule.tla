---------------------------- MODULE CronSchedule ----------------------------
(***************************************************************************)
(* The scheduled executions ("CRON") of one function.  The schedule of a   *)
(* function is the name of an S3 object; a build creates and deletes these *)
(* objects.  A Lambda function, the scheduler, wakes up in the 8th minute  *)
(* of every 10 minutes, lists the objects, and sends a delayed message for *)
(* every occurrence in the NEXT 10 minutes; what is left of the current    *)
(* ones, and of the next when the scheduler may have passed, is sent by    *)
(* the build itself.  Another function, the executor, takes a message when *)
(* it is due and runs the user's function if the object is still there.    *)
(*                                                                         *)
(* Time is counted in ticks, Window of them to 10 minutes; the 8th minute  *)
(* begins at tick Eighth of a window.  Something done "at clock c" is done *)
(* at or after the instant c and before c + 1.                             *)
(***************************************************************************)
EXTENDS Naturals, FiniteSets

CONSTANTS
    Schedules,      \* cron expressions with a time zone
    Occurrences,    \* [Schedules -> set of instants]: what cron-parser yields
    Off,            \* no schedule
    Builds,         \* requests (PUT, DELETE) that may run at a time
    Window, Eighth, \* ticks in 10 minutes, and to the 8th minute
    MaxExecutions,  \* CRON_MAX_EXECUTIONS_PER_WINDOW
    MaxDelay,       \* ticks in the 15 minutes SQS can delay a message
    End,            \* bound: the clock stops here
    MaxBuilds,      \* bound: requests in all
    MaxCopies,      \* bound: messages for one occurrence
    MaxFaults       \* bound: failures

ASSUME CronAssumption ==
    /\ Off \notin Schedules
    /\ Window \in Nat \ {0} /\ Eighth \in 1..(Window - 1)
    /\ Occurrences \in [Schedules -> SUBSET (0..End)]
    /\ {MaxExecutions, MaxDelay, End, MaxBuilds, MaxCopies, MaxFaults} \subseteq Nat

\* From the 8th minute on, a message can be delayed to the end of the next
\* 10 minutes.
ASSUME DelayAssumption == 2 * Window <= Eighth + MaxDelay

VARIABLES
    clock,
    keys,       \* S3: the schedules that have an object
    spec,       \* S3: the schedule in the function's specification
    tags,       \* DynamoDB: the function's tags are there, so it can be run
    build,      \* what each request does
    due,        \* the scheduler has been triggered and has not begun
    run,        \* the scheduler's run: under way or not, from when, what is left
    waiting,    \* SQS: the messages for each occurrence that are not taken yet
    ran,        \* how often the function ran for each occurrence
    started, faults,
    since,      \* when the schedule's build last sent its imminent occurrences
    \* What has happened:
    overlapped, \* two requests ran at a time
    failed,     \* a request failed
    lapsed,     \* the scheduler did not end in the 10 minutes it was triggered in
    dropped,    \* SQS refused a message of the scheduler's
    again,      \* the scheduler was restarted, or the executor redelivered
    straddled,  \* the schedules that the scheduler and their build both covered
    skipped,    \* the occurrences the executor dropped though the object was there
    times       \* how often each schedule was registered

system == <<keys, spec, tags, build, due, run, waiting, ran>>
ghosts == <<since, overlapped, failed, lapsed, dropped, again, straddled, skipped, times>>
vars == <<clock, system, started, faults, ghosts>>

Instants == 0..End
Copies == 0..MaxCopies
NoBuild == [pc |-> "none", want |-> Off, plan |-> "none"]
NoRun == [on |-> FALSE, from |-> 0, left |-> {}]

TypeOK ==
    /\ clock \in Instants
    /\ keys \subseteq Schedules /\ spec \in Schedules \cup {Off}
    /\ build \in [Builds -> [pc : {"none", "delete", "register", "enqueue", "save", "remove"},
                             want : Schedules \cup {Off},
                             plan : {"none", "cancel", "set", "update"}]]
    /\ due \in BOOLEAN
    /\ run \in [on : BOOLEAN, from : 0..(End + Window), left : SUBSET Schedules]
    /\ {waiting, ran} \subseteq [Schedules -> [Instants -> Copies]]
    /\ started \in 0..MaxBuilds /\ faults \in 0..MaxFaults
    /\ since \in [Schedules -> 0..clock] /\ times \in [Schedules -> Nat]
    /\ {overlapped, failed, lapsed, dropped, again} \subseteq BOOLEAN
    /\ straddled \subseteq Schedules
    /\ tags \in BOOLEAN /\ skipped \in [Schedules -> SUBSET Instants]

NoneSent == [s \in Schedules |-> [t \in Instants |-> 0]]

Init ==
    /\ clock = 0
    /\ keys = {} /\ spec = Off /\ tags = FALSE
    /\ build = [b \in Builds |-> NoBuild]
    /\ due = FALSE /\ run = NoRun
    /\ waiting = NoneSent /\ ran = NoneSent
    /\ started = 0 /\ faults = 0
    /\ since = [s \in Schedules |-> 0] /\ times = [s \in Schedules |-> 0]
    /\ overlapped = FALSE /\ failed = FALSE /\ lapsed = FALSE /\ dropped = FALSE
    /\ again = FALSE /\ straddled = {} /\ skipped = [s \in Schedules |-> {}]

-----------------------------------------------------------------------------
\* The end of the 10 minutes that instant c is in.
NextFull(c) == (c \div Window + 1) * Window

\* The occurrences after instant a and not after b.
Between(s, a, b) == {t \in Occurrences[s] : a < t /\ t <= b}

\* The first MaxExecutions of a set of occurrences.
Few(S) == {t \in S : Cardinality({u \in S : u < t}) < MaxExecutions}

\* Messages are sent for the occurrences in S of schedule s.
Send(s, S) ==
    /\ \A t \in S : waiting[s][t] < MaxCopies
    /\ waiting' = [waiting EXCEPT ![s] = [t \in Instants |-> IF t \in S THEN @[t] + 1 ELSE @[t]]]

-----------------------------------------------------------------------------
(* Builds and deletions of the function.                                   *)

\* compute_build_plan: the schedule asked for against the recorded one.
Plan(want) ==
    CASE want = spec -> "none"
      [] want # spec /\ want = Off -> "cancel"
      [] want # spec /\ spec = Off -> "set"
      [] OTHER -> "update"

\* Slip: the objects of the old schedule stay when the schedule changes.
FirstOfNoDelete(plan) ==
    CASE plan = "none" -> "save" [] plan \in {"set", "update"} -> "register" [] OTHER -> "delete"
FirstOf(plan) == CASE plan = "none" -> "save" [] plan = "set" -> "register" [] OTHER -> "delete"

Begin(b, rec) ==
    /\ build[b] = NoBuild /\ started < MaxBuilds
    /\ started' = started + 1
    /\ build' = [build EXCEPT ![b] = rec]
    /\ overlapped' = (overlapped \/ \E c \in Builds : build[c] # NoBuild)
    /\ UNCHANGED <<clock, keys, spec, tags, due, run, waiting, ran, faults, since, failed, lapsed,
                   dropped, again, straddled, skipped, times>>

Put(b) ==
    \E want \in Schedules \cup {Off} :
        Begin(b, [pc |-> FirstOf(Plan(want)), want |-> want, plan |-> Plan(want)])

Remove(b) == Begin(b, [pc |-> "delete", want |-> Off, plan |-> "none"])

Goto(b, pc) == build' = [build EXCEPT ![b].pc = pc]

\* delete_cron: all objects of the function, listed and then deleted.  The
\* deletion of a function goes on to other things and then its specification.
DeleteKeys(b) ==
    /\ build[b].pc = "delete"
    /\ keys' = {}
    /\ Goto(b, CASE build[b].plan = "update" -> "register"
                 [] build[b].plan = "cancel" -> "save"
                 [] OTHER -> "remove")
    /\ UNCHANGED <<clock, spec, tags, due, run, waiting, ran, started, faults, ghosts>>

\* register_cron
Register(b) ==
    /\ build[b].pc = "register"
    /\ keys' = keys \cup {build[b].want}
    /\ times' = [times EXCEPT ![build[b].want] = @ + 1]
    /\ Goto(b, "enqueue")
    /\ UNCHANGED <<clock, spec, tags, due, run, waiting, ran, started, faults, since, overlapped,
                   failed, lapsed, dropped, again, straddled, skipped>>

\* Slip: the rest of the current 10 minutes only, whatever the minute.
ImminentCurrentOnly(s, c) == Between(s, c, NextFull(c))

\* Slip: the next 10 minutes as well, whatever the minute.
ImminentBoth(s, c) == Between(s, c, NextFull(c) + Window)

\* What enqueue_imminent_cron is to send at instant c: the rest of the current
\* 10 minutes and, once the 8th minute has come, the next 10 as well.
Imminent(s, c) ==
    Between(s, c, IF c % Window >= Eighth THEN NextFull(c) + Window ELSE NextFull(c))

Enqueue(b) ==
    LET s == build[b].want
    IN /\ build[b].pc = "enqueue"
       /\ Send(s, Imminent(s, clock))
       /\ since' = [since EXCEPT ![s] = clock]
       /\ Goto(b, "save")
       /\ UNCHANGED <<clock, keys, spec, tags, due, run, ran, started, faults, overlapped, failed, lapsed,
                      dropped, again, straddled, skipped, times>>

\* SQS accepts only some of the messages, or the build dies: it has failed.
\* The specification and the tags are saved side by side at its end, and a
\* deletion removes the tags first.
BuildFails(b) ==
    LET s == build[b].want
    IN /\ build[b].pc # "none" /\ faults < MaxFaults
       /\ faults' = faults + 1
       /\ failed' = TRUE
       /\ build' = [build EXCEPT ![b] = NoBuild]
       /\ IF build[b].pc = "enqueue"
          THEN /\ \E S \in SUBSET Imminent(s, clock) : Send(s, S)
               /\ since' = [since EXCEPT ![s] = clock]
          ELSE UNCHANGED <<waiting, since>>
       /\ spec' \in IF build[b].pc = "save" THEN {spec, s} ELSE {spec}
       /\ tags' \in {tags} \cup (CASE build[b].pc = "save" -> {TRUE}
                                  [] build[b].pc = "remove" -> {FALSE}
                                  [] OTHER -> {})
       /\ UNCHANGED <<clock, keys, due, run, ran, started, overlapped, lapsed, dropped,
                      again, straddled, skipped, times>>

\* finalize_function_status, or delete_function_tags and delete_function_spec.
Save(b) ==
    /\ build[b].pc \in {"save", "remove"}
    /\ spec' = build[b].want
    /\ tags' = (build[b].pc = "save")
    /\ build' = [build EXCEPT ![b] = NoBuild]
    /\ UNCHANGED <<clock, keys, due, run, waiting, ran, started, faults, ghosts>>

-----------------------------------------------------------------------------
(* The scheduler.                                                          *)

\* The trigger comes at the 8th minute; a scheduler that has not ended when
\* the next 10 minutes begin has lapsed.
Tick ==
    /\ clock < End
    /\ clock' = clock + 1
    /\ due' = (due \/ (clock + 1) % Window = Eighth)
    /\ lapsed' = (lapsed \/ ((clock + 1) % Window = 0 /\ (due \/ run.on)))
    /\ UNCHANGED <<keys, spec, tags, build, run, waiting, ran, started, faults, since, overlapped,
                   failed, dropped, again, straddled, skipped, times>>

\* scheduler: the window is fixed by the clock when it begins.
Fire ==
    /\ due /\ ~run.on
    /\ due' = FALSE
    /\ run' = [on |-> TRUE, from |-> NextFull(clock), left |-> Schedules]
    /\ UNCHANGED <<clock, keys, spec, tags, build, waiting, ran, started, faults, ghosts>>

\* What the scheduler sends for schedule s.
Scheduled(s) ==
    {t \in Few(Between(s, run.from, run.from + Window)) : t <= clock + MaxDelay}

\* The build of s has sent its imminent occurrences in this 8th minute, or is
\* still to send them.
Straddles(s) ==
    \/ \E b \in Builds : build[b].pc = "enqueue" /\ build[b].want = s
    \/ since[s] + Window >= run.from + Eighth

\* scheduleExecutions and sendToSqs for one schedule, if its object is listed.
\* A message that SQS does not accept is counted and forgotten.
Visit(s) ==
    /\ run.on /\ s \in run.left
    /\ run' = [run EXCEPT !.left = @ \ {s}]
    /\ IF s \in keys
       THEN \/ /\ Send(s, Scheduled(s))
               /\ UNCHANGED <<dropped, faults>>
            \/ /\ faults < MaxFaults /\ Scheduled(s) # {}
               /\ \E S \in SUBSET Scheduled(s) : S # Scheduled(s) /\ Send(s, S)
               /\ faults' = faults + 1
               /\ dropped' = TRUE
       ELSE UNCHANGED <<waiting, dropped, faults>>
    /\ straddled' = IF s \in keys /\ Straddles(s) THEN straddled \cup {s} ELSE straddled
    /\ UNCHANGED <<clock, keys, spec, tags, build, due, ran, started, since, overlapped, failed, lapsed,
                   again, skipped, times>>

EndRun ==
    /\ run.on /\ run.left = {}
    /\ run' = NoRun
    /\ UNCHANGED <<clock, keys, spec, tags, build, due, waiting, ran, started, faults, ghosts>>

\* The scheduler dies, and AWS Lambda invokes it once more from the start.
RunDies ==
    /\ run.on /\ faults < MaxFaults
    /\ faults' = faults + 1
    /\ run' = NoRun /\ due' = TRUE /\ again' = TRUE
    /\ UNCHANGED <<clock, keys, spec, tags, build, waiting, ran, started, since, overlapped, failed,
                   lapsed, dropped, straddled, skipped, times>>

-----------------------------------------------------------------------------
(* The executor.                                                           *)

\* A message that is due; that it is done with; the function has run; or the
\* message was dropped although the object it names is there.
Received(s, t) == t <= clock /\ waiting[s][t] > 0
Taken(s, t) == waiting' = [waiting EXCEPT ![s][t] = @ - 1]
Executed(s, t) == ran[s][t] < MaxCopies /\ ran' = [ran EXCEPT ![s][t] = @ + 1]
Skipped(s, t) == skipped' = [skipped EXCEPT ![s] = @ \cup {t}]

\* Slip: a message is taken that is not in the queue any more.
TakeUnasked(s, t) ==
    /\ t <= clock /\ s \in keys
    /\ Taken(s, t) /\ Executed(s, t)
    /\ UNCHANGED <<clock, keys, spec, tags, build, due, run, started, faults, ghosts>>

\* processCron runs the function if the object that the message names exists
\* and the function has tags, which its first build saves last.  Whatever it
\* does, the message is done with.
Take(s, t) ==
    /\ Received(s, t) /\ Taken(s, t)
    /\ IF s \in keys /\ tags THEN Executed(s, t) ELSE ran' = ran
    /\ IF s \in keys /\ ~tags THEN Skipped(s, t) ELSE skipped' = skipped
    /\ UNCHANGED <<clock, keys, spec, tags, build, due, run, started, faults, since, overlapped, failed,
                   lapsed, dropped, again, straddled, times>>

\* checkCronStillExists takes any error for an object that is not there, and
\* processCron keeps the errors of getFunctionTags and executeFunction to
\* itself: the message is done with, and the function has not run.
TakeFails(s, t) ==
    /\ Received(s, t) /\ s \in keys /\ faults < MaxFaults
    /\ faults' = faults + 1
    /\ Taken(s, t) /\ Skipped(s, t)
    /\ UNCHANGED <<clock, keys, spec, tags, build, due, run, ran, started, since, overlapped, failed,
                   lapsed, dropped, again, straddled, times>>

\* The executor dies when the function has run, and SQS delivers the message
\* once more.
TakeAndDie(s, t) ==
    /\ Received(s, t) /\ s \in keys /\ tags /\ faults < MaxFaults
    /\ Executed(s, t)
    /\ faults' = faults + 1 /\ again' = TRUE
    /\ UNCHANGED <<clock, keys, spec, tags, build, due, run, waiting, started, since, overlapped, failed,
                   lapsed, dropped, straddled, skipped, times>>

Next ==
    \/ \E b \in Builds : \/ Put(b) \/ Remove(b) \/ DeleteKeys(b) \/ Register(b) \/ Enqueue(b)
                         \/ BuildFails(b) \/ Save(b)
    \/ Tick \/ Fire \/ EndRun \/ RunDies
    \/ \E s \in Schedules : Visit(s)
    \/ \E s \in Schedules, t \in Instants : Take(s, t) \/ TakeFails(s, t) \/ TakeAndDie(s, t)

Spec == Init /\ [][Next]_vars

-----------------------------------------------------------------------------
AtRest == \A b \in Builds : build[b] = NoBuild

\* The occurrences the scheduler does not leave out for their number.
InLimit(s, t) == t \in Few(Between(s, ((t - 1) \div Window) * Window, NextFull(t - 1)))

\* No gap between the build and the scheduler: from the moment the build sends
\* the imminent occurrences of a schedule, every later one (up to the limit
\* per window) has a message by its time, or has had one that the executor
\* took while the object was there, whenever the build happened in the 10
\* minutes, however it interleaved with the scheduler, and also when the
\* scheduler died and was started again.  That the executor then ran the
\* function is not promised: an error, or tags that are not saved yet, makes
\* it drop the message (skipped).  Excused: a scheduler that does not end in
\* its 10 minutes, messages SQS refused, requests that overlapped or failed.
NoGap ==
    ~(overlapped \/ failed \/ lapsed \/ dropped) /\ AtRest /\ spec # Off =>
        \A t \in Occurrences[spec] : since[spec] < t /\ t <= clock /\ InLimit(spec, t) =>
            waiting[spec][t] + ran[spec][t] > 0 \/ t \in skipped[spec]

\* A schedule that was registered once runs at most once for an occurrence,
\* unless its build sent the imminent occurrences in or after the 8th minute
\* and the scheduler came to see it that late too, or the scheduler or the
\* executor had to start again: the two ways of sending share out the time.
RanOnce ==
    ~(lapsed \/ again) => \A s \in Schedules \ straddled : times[s] <= 1 =>
        \A t \in Instants : waiting[s][t] + ran[s][t] <= 1

\* After requests that came one after the other and succeeded, the objects
\* are what the specification says, so that a plan computed from the
\* specification next time is right.
KeysMatchSpec ==
    ~(overlapped \/ failed) /\ AtRest => keys = {spec} \ {Off}

=============================================================================
