--------------------------- MODULE FunctionBuild ---------------------------
(***************************************************************************)
(* PUT and DELETE of one function (put_function.js, delete_function.js and *)
(* create_function_worker.js): the requests plan a build from the stored   *)
(* specification and carry it out on S3, Lambda, SQS and DynamoDB, none of *)
(* which is written under a lock or a condition.                           *)
(*                                                                         *)
(* The stretches between two calls are actions:                            *)
(*                                                                         *)
(*   PUT     Plan; Accept; Start; Package; CreateFunction or SetConf and   *)
(*           SetCode; ClearCron, RegisterCron; UpdateTasks; ChangeConf and *)
(*           PublishConf; SaveSpec and SaveTags in any order; Report       *)
(*   DELETE  DeleteCron; ReadSpec; DeleteQueues; DeleteTags; DeletePackage;*)
(*           DeleteSpec; DeleteFunction                                    *)
(*                                                                         *)
(* A build plan takes the stages it needs and skips the others.  The keys  *)
(* of the build request and the build status hold the random buildId, so   *)
(* two calls in a row that touch nothing else are one action.              *)
(***************************************************************************)
EXTENDS Naturals, Sequences, FiniteSets

CONSTANTS Req,          \* the requests, numbered as they arrive; as many as a run has
          Code,         \* what a function may consist of: files and modules
          Slow,         \* the code that may take long: modules to build, a custom runtime
          Conf,         \* its configuration and compute settings
          Cron,         \* the schedules
          Route,        \* the routes that may have a task
          Wanted,       \* the functions that a PUT may ask for
          Deployed,     \* the functions that may be there at the start
          None,         \* no schedule, specification, tags, package, function
          Faults,       \* what goes wrong: "build", "final", "delete", "crash"
          MaxFaults     \* bound: how often it does

VARIABLES spec,             \* S3: the specification
          pkg,              \* S3: the code in the deployment package
          cron,             \* S3: the keys of the scheduled executions
          queues,           \* SQS: the queues of the task routes
          tags,             \* DynamoDB: the version that an execution invokes
          latest,           \* Lambda: $LATEST
          versions, live,   \* Lambda: all that was published, what is still there
          aged,             \* the versions up to this one are older than 3 minutes
          timers,           \* garbage collections to come, by what set them
          status, request,  \* S3: the status and the request of a build
          pc, ctx,          \* where each request is, what it holds in memory
          faults,           \* what went wrong so far
          clean             \* history: nothing did, and no two requests overlapped

lambda == <<latest, versions, live, timers>>
files == <<spec, pkg, tags>>
builds == <<status, request>>
told == <<aged, faults, clean>>
vars == <<files, cron, queues, lambda, builds, pc, ctx, told>>

Content == [code : Code, conf : Conf, cron : Cron \cup {None}, tasks : SUBSET Route]
Queue   == (Req \cup {None}) \X Route
QueuesOf == UNION {[R -> Queue] : R \in SUBSET Route}
Spec0   == [want : Content, ver : Nat, queues : QueuesOf]
Image   == [code : Code, conf : Conf]

Building == {"accept", "start", "package", "create", "setconf", "setcode", "clear",
             "register", "tasks", "changeconf", "publish", "final", "report"}
Deleting == {"delcron", "read", "delqueues", "deltags", "delpkg", "delspec", "delfun"}
\* "hung": its callback is lost; "dead": its process is; "unreported": its end failed.
Over == {"done", "hung", "dead", "unreported"}
Idle(r) == pc[r] \in {"idle"} \cup Over

BuildPlan == {"full_build", "partial_build", "configuration_update", "metadata_update", "none"}
CronPlan  == {"none", "cancel", "set", "update"}
\* ctx[r]: the function wanted, the specification as read, the plans, the version
\* and queues to record, the version that this build published (0 if none),
\* whether it went well, the writes of its end that are still to come.
Context == [want : Content, seen : Spec0 \cup {None}, build : BuildPlan, cron : CronPlan,
            ver : Nat, pub : Nat, queues : QueuesOf, ok : BOOLEAN,
            todo : SUBSET {"spec", "tags"}]

ASSUME ConstantsOK ==
  /\ Req \subseteq Nat
  /\ Slow \subseteq Code
  /\ Wanted \subseteq Content
  /\ Deployed \subseteq Content
  /\ None \notin Req \cup Cron \cup Spec0 \cup Image \cup Code \cup Nat \cup Content \cup Context
  /\ Faults \subseteq {"build", "final", "delete", "crash"}
  /\ MaxFaults \in Nat

TypeOK ==
  /\ spec \in Spec0 \cup {None}
  /\ pkg \in Code \cup {None}
  /\ cron \in SUBSET Cron
  /\ queues \in SUBSET Queue
  /\ tags \in Nat \cup {None}
  /\ latest \in Image \cup {None}
  /\ versions \in Seq(Image)
  /\ live \subseteq DOMAIN versions /\ timers \subseteq DOMAIN versions
  /\ aged \in 0 .. Len(versions)
  /\ status \in [Req -> {"none", "pending", "building", "success", "failed"}]
  /\ request \in SUBSET Req
  /\ pc \in [Req -> {"idle"} \cup Building \cup Deleting \cup Over]
  /\ ctx \in [Req -> Context \cup {None}]
  /\ faults \in 0 .. MaxFaults
  /\ clean \in BOOLEAN

----------------------------------------------------------------------------
(***************************************************************************)
(* The plan of a PUT.                                                      *)
(***************************************************************************)

ImageOf(c) == [code |-> c.code, conf |-> c.conf]
KeysOf(c)  == {c.cron} \ {None}

\* What the hashes of the stored specification stand for; a new function has none.
OldCron(old)  == IF old = None THEN None ELSE old.want.cron
OldTasks(old) == IF old = None THEN {} ELSE old.want.tasks

\* Slip: a changed schedule is registered like a new one.
PlanCronKeepsOld(c, old) ==
  IF c.cron = OldCron(old) THEN "none" ELSE IF c.cron = None THEN "cancel" ELSE "set"

PlanCron(c, old) ==
  IF c.cron = OldCron(old) THEN "none"
  ELSE IF c.cron = None THEN "cancel"
  ELSE IF OldCron(old) = None THEN "set" ELSE "update"

\* The first test that holds decides.
PlanBuild(c, old, slow) ==
  IF slow THEN "full_build"
  ELSE IF old = None \/ c.code # old.want.code THEN "partial_build"
  ELSE IF c.conf # old.want.conf \/ PlanCron(c, old) # "none" THEN "configuration_update"
  ELSE IF c.tasks # OldTasks(old) THEN "metadata_update" ELSE "none"

PlanFor(c, old, slow) ==
  [want |-> c, seen |-> old, build |-> PlanBuild(c, old, slow), cron |-> PlanCron(c, old),
   ver |-> IF old = None THEN 0 ELSE old.ver, pub |-> 0,
   queues |-> IF old = None THEN <<>> ELSE old.queues, ok |-> TRUE,
   todo |-> {"spec", "tags"}]

Rebuilds(r) == ctx[r].build \in {"full_build", "partial_build"}
IsAsync(r)  == ctx[r].build = "full_build"
TaskPlan(r) == IF ctx[r].want.tasks = OldTasks(ctx[r].seen) THEN "none" ELSE "update"
\* Slip: one `and` for the other in the worker's test.
SavesStatusBoth(r) == IsAsync(r) /\ TaskPlan(r) = "update"

\* The worker's own test of whether to save the status.
SavesStatus(r) == IsAsync(r) \/ TaskPlan(r) = "update"

Goto(r, where) == pc' = [pc EXCEPT ![r] = where]
Keep(r, c) == ctx' = [ctx EXCEPT ![r] = c]
\* A request that is over holds nothing.
Leave(r, how) == Goto(r, how) /\ Keep(r, None)
\* The build failed: the worker goes on to report it.
Fail(r) == Goto(r, "report") /\ Keep(r, [ctx[r] EXCEPT !.ok = FALSE])
Arrives(r) ==
  /\ pc[r] = "idle" /\ \A q \in Req : q < r => pc[q] # "idle"
  /\ clean' = (clean /\ \A q \in Req : Idle(q)) /\ UNCHANGED <<aged, faults>>

\* The stage that follows, the plans say which (each stage returns at once when
\* its plan does not need it).
AfterTasks(c) == IF c.build = "configuration_update" THEN "changeconf" ELSE "final"
AfterCron(c)  == IF c.want.tasks # OldTasks(c.seen) THEN "tasks" ELSE AfterTasks(c)
AfterCode(c)  == CASE c.cron = "none" -> AfterCron(c)
                   [] c.cron = "set"  -> "register"
                   [] OTHER           -> "clear"

\* Either nothing was deployed, or what an update left, its garbage collection to come.
Init ==
  /\ \E d \in Deployed \cup {None} :
       IF d = None
       THEN /\ spec = None /\ pkg = None /\ tags = None /\ latest = None
            /\ cron = {} /\ queues = {} /\ versions = <<>> /\ live = {}
            /\ aged = 0 /\ timers = {}
       ELSE /\ spec = [want |-> d, ver |-> 1, queues |-> [t \in d.tasks |-> <<None, t>>]]
            /\ pkg = d.code /\ tags = 1 /\ latest = ImageOf(d)
            /\ cron = KeysOf(d) /\ queues = {None} \X d.tasks
            /\ versions = <<ImageOf(d)>> /\ live = {1}
            /\ aged = 0 /\ timers = {1}
  /\ status = [r \in Req |-> "none"] /\ request = {}
  /\ pc = [r \in Req |-> "idle"] /\ ctx = [r \in Req |-> None]
  /\ faults = 0 /\ clean = TRUE

----------------------------------------------------------------------------
(***************************************************************************)
(* PUT.                                                                    *)
(***************************************************************************)

\* Read the specification and plan; nothing to do is answered at once (204).
Plan(r) ==
  /\ Arrives(r)
  /\ \E c \in Wanted : \E slow \in {FALSE, c.code \in Slow} :
       LET plan == PlanFor(c, spec, slow) IN
       IF plan.build = "none"
       THEN Leave(r, "done")
       ELSE Goto(r, "accept") /\ Keep(r, plan)
  /\ UNCHANGED <<files, cron, queues, lambda, builds>>

\* Save the status, of an asynchronous build only, and the build request.
Accept(r) ==
  /\ pc[r] = "accept"
  /\ status' = IF IsAsync(r) THEN [status EXCEPT ![r] = "pending"] ELSE status
  /\ request' = request \cup {r}
  /\ Goto(r, "start")
  /\ UNCHANGED <<files, cron, queues, lambda, ctx, told>>

\* The worker takes over.
Start(r) ==
  /\ pc[r] = "start"
  /\ status' = IF SavesStatus(r) THEN [status EXCEPT ![r] = "building"] ELSE status
  /\ Goto(r, IF Rebuilds(r) THEN "package" ELSE AfterCode(ctx[r]))
  /\ UNCHANGED <<files, cron, queues, lambda, request, ctx, told>>

\* The builder puts the deployment package where every build of the function does.
Package(r) ==
  /\ pc[r] = "package"
  /\ pkg' = ctx[r].want.code
  /\ Goto(r, IF ctx[r].seen = None THEN "create" ELSE "setconf")
  /\ UNCHANGED <<spec, tags, cron, queues, lambda, builds, ctx, told>>

\* A version was published, or was there already.  The build goes on, and when
\* `collect` a garbage collection is due in five minutes; or the version never
\* becomes active, and the build fails.
Published(r, image, new, collect, next) ==
  LET v == IF new THEN Len(versions) + 1 ELSE Len(versions) IN
  /\ latest' = image
  /\ versions' = IF new THEN Append(versions, image) ELSE versions
  /\ live' = live \cup {v}
  /\ \/ /\ Keep(r, [ctx[r] EXCEPT !.ver = v, !.pub = v])
        /\ timers' = IF collect THEN timers \cup {v} ELSE timers
        /\ Goto(r, next) /\ UNCHANGED faults
     \/ /\ "build" \in Faults /\ faults < MaxFaults /\ faults' = faults + 1
        /\ Fail(r) /\ UNCHANGED timers
  /\ clean' = (clean /\ faults' = faults)

\* createFunction, from the package that is there by now.
CreateFunction(r) ==
  /\ pc[r] = "create" /\ latest = None /\ pkg # None
  /\ Published(r, [code |-> pkg, conf |-> ctx[r].want.conf], TRUE, FALSE, AfterCode(ctx[r]))
  /\ UNCHANGED <<files, cron, queues, builds, aged>>

\* updateFunctionCode, with the configuration that is there by now.
SetCode(r) ==
  /\ pc[r] = "setcode" /\ latest # None /\ pkg # None
  /\ Published(r, [latest EXCEPT !.code = pkg], TRUE, TRUE, AfterCode(ctx[r]))
  /\ UNCHANGED <<files, cron, queues, builds, aged>>

\* updateFunctionConfiguration, before the code.
SetConf(r) ==
  /\ pc[r] = "setconf" /\ latest # None
  /\ latest' = [latest EXCEPT !.conf = ctx[r].want.conf]
  /\ Goto(r, "setcode")
  /\ UNCHANGED <<files, cron, queues, versions, live, timers, builds, ctx, told>>

\* It exists after all: update it; it does not exist any more: create it.
TurnAround(r) ==
  /\ \/ pc[r] = "create" /\ latest # None /\ Goto(r, "setconf")
     \/ pc[r] \in {"setconf", "setcode"} /\ latest = None /\ Goto(r, "create")
  /\ UNCHANGED <<files, cron, queues, lambda, builds, ctx, told>>

\* What the build needs was deleted meanwhile.
Missing(r) ==
  /\ \/ pc[r] = "create" /\ latest = None /\ pkg = None
     \/ pc[r] = "setcode" /\ latest # None /\ pkg = None
     \/ pc[r] \in {"changeconf", "publish"} /\ latest = None
  /\ Fail(r)
  /\ UNCHANGED <<files, cron, queues, lambda, builds, told>>

\* delete_cron of the worker.
ClearCron(r) ==
  /\ pc[r] = "clear"
  /\ cron' = {}
  /\ Goto(r, IF ctx[r].cron = "update" THEN "register" ELSE AfterCron(ctx[r]))
  /\ UNCHANGED <<files, queues, lambda, builds, ctx, told>>

RegisterCron(r) ==
  /\ pc[r] = "register"
  /\ cron' = cron \cup KeysOf(ctx[r].want)
  /\ Goto(r, AfterCron(ctx[r]))
  /\ UNCHANGED <<files, queues, lambda, builds, ctx, told>>

\* The queues to make, with names of their own, and the ones to delete, by the
\* specification that was read; what deleting them answers is ignored.
ToAdd(r) == {<<r, t>> : t \in ctx[r].want.tasks \ OldTasks(ctx[r].seen)}
\* Slip: the queues of the routes that stay go with the others.
ToDropAll(r) == IF ctx[r].seen = None THEN {}
                ELSE {ctx[r].seen.queues[t] : t \in OldTasks(ctx[r].seen)}

ToDrop(r) == IF ctx[r].seen = None THEN {}
             ELSE {ctx[r].seen.queues[t] : t \in OldTasks(ctx[r].seen) \ ctx[r].want.tasks}

UpdateTasks(r) ==
  /\ pc[r] = "tasks"
  /\ queues' = (queues \ ToDrop(r)) \cup ToAdd(r)
  /\ Keep(r, [ctx[r] EXCEPT !.queues =
       [t \in ctx[r].want.tasks |-> IF t \in OldTasks(ctx[r].seen)
                                    THEN ctx[r].seen.queues[t] ELSE <<r, t>>]])
  /\ Goto(r, AfterTasks(ctx[r]))
  /\ UNCHANGED <<files, cron, lambda, builds, told>>

\* A configuration_update: updateFunctionConfiguration, then publishVersion, which
\* makes no version when nothing has changed since the last one.
ChangeConf(r) ==
  /\ pc[r] = "changeconf" /\ latest # None
  /\ latest' = [latest EXCEPT !.conf = ctx[r].want.conf]
  /\ Goto(r, "publish")
  /\ UNCHANGED <<files, cron, queues, versions, live, timers, builds, ctx, told>>

PublishConf(r) ==
  /\ pc[r] = "publish" /\ latest # None
  /\ Published(r, latest, latest # versions[Len(versions)], TRUE, "final")
  /\ UNCHANGED <<files, cron, queues, builds, aged>>

\* Slip: the version that the next build will have.
SpecOfNext(r) == [want |-> ctx[r].want, ver |-> ctx[r].ver + 1, queues |-> ctx[r].queues]

\* The two writes of finalize_function_status, in parallel.
SpecOf(r) == [want |-> ctx[r].want, ver |-> ctx[r].ver, queues |-> ctx[r].queues]

Finalize(r, what) ==
  /\ pc[r] = "final" /\ what \in ctx[r].todo
  /\ spec' = IF what = "spec" THEN SpecOf(r) ELSE spec
  /\ tags' = IF what = "tags" THEN ctx[r].ver ELSE tags
  /\ Keep(r, [ctx[r] EXCEPT !.todo = @ \ {what}])
  /\ Goto(r, IF ctx[r].todo = {what} THEN "report" ELSE "final")
  /\ UNCHANGED <<pkg, cron, queues, lambda, builds, told>>

SaveSpec(r) == Finalize(r, "spec")
SaveTags(r) == Finalize(r, "tags")

\* Slip: the word of api_v1.yaml.
OutcomeFailure(r) == IF ctx[r].ok THEN "success" ELSE "failure"

Outcome(r) == IF ctx[r].ok THEN "success" ELSE "failed"

\* Delete the build request and save the status.
Report(r) ==
  /\ pc[r] = "report"
  /\ request' = request \ {r}
  /\ status' = IF SavesStatus(r)
               THEN [status EXCEPT ![r] = Outcome(r)]
               ELSE status
  /\ Leave(r, "done")
  /\ UNCHANGED <<files, cron, queues, lambda, told>>

----------------------------------------------------------------------------
(***************************************************************************)
(* DELETE.                                                                 *)
(***************************************************************************)

DeleteCron(r) ==
  /\ Arrives(r)
  /\ cron' = {}
  /\ Goto(r, "read")
  /\ UNCHANGED <<files, queues, lambda, builds, ctx>>

\* delete_task_queues reads the specification and, if there is one, the tags.
ReadSpec(r) ==
  /\ pc[r] = "read"
  /\ IF spec = None
     THEN Goto(r, "deltags") /\ UNCHANGED ctx
     ELSE Goto(r, "delqueues") /\ Keep(r, PlanFor(spec.want, spec, FALSE))
  /\ UNCHANGED <<files, cron, queues, lambda, builds, told>>

\* get_function_core uses the tags without looking at the error: without tags it
\* throws in the callback, and nothing answers the request any more.
DeleteQueues(r) ==
  /\ pc[r] = "delqueues"
  /\ IF tags = None
     THEN Leave(r, "hung") /\ UNCHANGED queues
     ELSE /\ Leave(r, "deltags")
          /\ queues' = queues \ {ctx[r].queues[t] : t \in DOMAIN ctx[r].queues}
  /\ UNCHANGED <<files, cron, lambda, builds, told>>

DeleteTags(r) ==
  /\ pc[r] = "deltags"
  /\ tags' = None
  /\ Goto(r, "delpkg")
  /\ UNCHANGED <<spec, pkg, cron, queues, lambda, builds, ctx, told>>

DeletePackage(r) ==
  /\ pc[r] = "delpkg"
  /\ pkg' = None
  /\ Goto(r, "delspec")
  /\ UNCHANGED <<spec, tags, cron, queues, lambda, builds, ctx, told>>

DeleteSpec(r) ==
  /\ pc[r] = "delspec"
  /\ spec' = None
  /\ Goto(r, "delfun")
  /\ UNCHANGED <<pkg, tags, cron, queues, lambda, builds, ctx, told>>

\* With all its versions; there may be none, which is answered with a 404.
DeleteFunction(r) ==
  /\ pc[r] = "delfun"
  /\ latest' = None /\ live' = {}
  /\ Goto(r, "done") /\ UNCHANGED ctx
  /\ UNCHANGED <<files, cron, queues, versions, timers, builds, told>>

----------------------------------------------------------------------------
(***************************************************************************)
(* Time, and what goes wrong.                                              *)
(***************************************************************************)

\* Three minutes pass.  What is left of a build once it has a version is a matter
\* of seconds; a version that takes minutes to become active is left out.
Age ==
  /\ aged < Len(versions)
  /\ \A r \in Req : pc[r] \in Building \ {"report"} => ctx[r].pub # aged + 1
  /\ aged' = aged + 1
  /\ UNCHANGED <<files, cron, queues, lambda, builds, pc, ctx, faults, clean>>

\* Slip: every old version goes, the largest too.
CollectAll(v) ==
  /\ v \in timers /\ v <= aged
  /\ timers' = timers \ {v}
  /\ live' = {x \in live : x > aged}
  /\ UNCHANGED <<files, cron, queues, latest, versions, builds, pc, ctx, told>>

\* scheduleGarbageCollection's timer, five minutes after version v: the old
\* versions go, but not the largest.
Collect(v) ==
  /\ v \in timers /\ v <= aged
  /\ timers' = timers \ {v}
  /\ live' = {x \in live : x > aged \/ \A y \in live : y <= x}
  /\ UNCHANGED <<files, cron, queues, latest, versions, builds, pc, ctx, told>>

Fault(kind) ==
  /\ kind \in Faults /\ faults < MaxFaults
  /\ faults' = faults + 1 /\ clean' = FALSE /\ UNCHANGED aged

\* A call of the build fails: S3, Lambda, the builder, SQS, a bad package.
StageThrows(r) ==
  /\ Fault("build")
  /\ pc[r] \in Building \ {"accept", "tasks", "final", "report"}
  /\ Fail(r)
  /\ UNCHANGED <<files, cron, queues, lambda, builds>>

\* The queues are made and deleted five at a time: some were.
TasksThrow(r) ==
  /\ Fault("build") /\ pc[r] = "tasks"
  /\ \E made \in SUBSET ToAdd(r), dropped \in SUBSET ToDrop(r) :
       queues' = (queues \ dropped) \cup made
  /\ Fail(r)
  /\ UNCHANGED <<files, cron, lambda, builds>>

\* The request cannot be saved: an error is answered, the status may have been saved.
AcceptThrows(r) ==
  /\ Fault("build") /\ pc[r] = "accept"
  /\ Leave(r, "done")
  /\ \/ UNCHANGED status
     \/ IsAsync(r) /\ status' = [status EXCEPT ![r] = "pending"]
  /\ UNCHANGED <<files, cron, queues, lambda, request>>

\* One of the writes of the end fails; the others may be made all the same, but the
\* status is not saved after it.
EndThrows(r) ==
  /\ Fault("final") /\ pc[r] \in {"final", "report"}
  /\ \E made \in SUBSET (IF pc[r] = "final" THEN ctx[r].todo ELSE {}) :
       /\ spec' = IF "spec" \in made THEN SpecOf(r) ELSE spec
       /\ tags' = IF "tags" \in made THEN ctx[r].ver ELSE tags
  /\ request' \in {request} \cup (IF pc[r] = "report" THEN {request \ {r}} ELSE {})
  /\ Leave(r, "unreported")
  /\ UNCHANGED <<pkg, cron, queues, lambda, status>>

DeleteThrows(r) ==
  /\ Fault("delete") /\ pc[r] \in Deleting
  /\ Leave(r, "done")
  /\ UNCHANGED <<files, cron, queues, lambda, builds>>

Crash(r) ==
  /\ Fault("crash") /\ pc[r] \in Building \cup Deleting
  /\ Leave(r, "dead")
  /\ UNCHANGED <<files, cron, queues, lambda, builds>>

----------------------------------------------------------------------------
Put(r) ==
  \/ Accept(r) \/ Start(r) \/ Package(r)
  \/ CreateFunction(r) \/ SetConf(r) \/ SetCode(r) \/ TurnAround(r) \/ Missing(r)
  \/ ClearCron(r) \/ RegisterCron(r) \/ UpdateTasks(r)
  \/ ChangeConf(r) \/ PublishConf(r)
  \/ SaveSpec(r) \/ SaveTags(r) \/ Report(r)

Delete(r) ==
  \/ ReadSpec(r) \/ DeleteQueues(r) \/ DeleteTags(r)
  \/ DeletePackage(r) \/ DeleteSpec(r) \/ DeleteFunction(r)

Breaks(r) ==
  StageThrows(r) \/ TasksThrow(r) \/ AcceptThrows(r) \/ EndThrows(r) \/ DeleteThrows(r) \/ Crash(r)

Next ==
  \/ \E r \in Req : Plan(r) \/ DeleteCron(r) \/ Put(r) \/ Delete(r) \/ Breaks(r)
  \/ Age
  \/ \E v \in timers : Collect(v)

\* A request that was made goes on: every call returns, at the latest by its timeout.
Spec == Init /\ [][Next]_vars /\ \A r \in Req : WF_vars(Put(r) \/ Delete(r))

----------------------------------------------------------------------------
(***************************************************************************)
(* What should hold.                                                       *)
(***************************************************************************)

\* After requests that neither overlapped nor failed, the six places that hold a
\* part of the function agree: what the specification asks for is what the recorded
\* version is, what the schedule and the queues are, and nothing is left of what
\* was there before (compute_build_plan_core decides what may be skipped).
AtRestConsistent ==
  clean /\ (\A r \in Req : Idle(r)) =>
    /\ request = {}
    /\ IF spec = None
       THEN pkg = None /\ tags = None /\ latest = None /\ live = {} /\ cron = {} /\ queues = {}
       ELSE /\ tags = spec.ver /\ tags \in live
            /\ versions[tags] = ImageOf(spec.want) /\ latest = ImageOf(spec.want)
            /\ pkg = spec.want.code
            /\ cron = KeysOf(spec.want)
            /\ DOMAIN spec.queues = spec.want.tasks
            /\ queues = {spec.queues[t] : t \in spec.want.tasks}

\* What others see of the function: a reader by the specification, an execution by the
\* tags, the scheduler by the keys, a caller of a task route by the queues.
Reads == IF spec = None THEN None ELSE spec.want
Runs  == IF tags = None THEN None ELSE versions[tags]
Open  == {<<r, IF pc[r] \in Building THEN ctx[r].want ELSE None>> : r \in {q \in Req : ~ Idle(q)}}

Contract == INSTANCE FunctionContract
  WITH Function <- Content, reads <- Reads, runs <- Runs, fires <- cron, feeds <- queues,
       open <- Open, orderly <- clean

\* Requests that follow each other without a fault keep the contract: each of the writes
\* of PUT and DELETE, in whatever order they come, takes one kind of reader from the
\* function as it was to the one that was asked for, and the answer comes when all are
\* there (put_function.js, delete_function.js, create_function_worker.js:97-163).
ImplementsContract == Contract!Spec

\* However builds, deletions and garbage collections interleave, a function keeps
\* the version that was published last (create_function_worker.js:661-662).
NewestStays == latest # None => Len(versions) \in live

\* An execution is told to run a version that exists or existed, and a PUT that plans
\* without a build carries on one that did, never version 0 of a build that did not get
\* as far (create_function_worker.js:147-163, put_function.js:696).
RecordedWasPublished ==
  /\ spec # None => spec.ver \in DOMAIN versions
  /\ tags # None => tags \in DOMAIN versions

\* The status of an accepted asynchronous build ends as success or failed, unless
\* the process died or the end of the build failed.
BuildsSettle ==
  \A r \in Req :
    r \in request /\ status[r] \in {"pending", "building"}
      ~> status[r] \in {"success", "failed"} \/ pc[r] \in {"dead", "unreported"}

\* function.test.ts:1037, "PUT updates function without a temporary 404": an
\* execution finds the version that the tags name, while updates follow each other
\* and none fails.
NoTemporary404 == clean /\ tags # None => tags \in live

\* api_v1.yaml, deleteFunction: a DELETE is answered, with 204 or with an error.
RequestsAnswered == \A r \in Req : pc[r] # "idle" ~> pc[r] \in Over \ {"hung"}

=============================================================================
