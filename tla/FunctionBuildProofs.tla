------------------------ MODULE FunctionBuildProofs ------------------------
(***************************************************************************)
(* Types, the version that garbage collection keeps, and what requests     *)
(* leave that follow each other without a fault, for any number of         *)
(* requests and faults and any functions.                                  *)
(*                                                                         *)
(* The invariant has four parts: what is stored (Stored), the versions     *)
(* (Versions, with NewestStays), the requests (Control) and, as long as    *)
(* none has overlapped or failed, what each stage finds (CleanTidy).  A    *)
(* build finds in its context what its stage uses because each stage       *)
(* leaves it there, which is what At says of a stage and a context.        *)
(***************************************************************************)
EXTENDS FunctionBuild, TLAPS

Place == {"idle"} \cup Building \cup Deleting \cup Over

\* The stages of a build in which its queues are still the ones it read.
Early == Building \ {"changeconf", "publish", "final", "report"}

\* A specification records a queue for each task route it has, no more and no less.
Recorded(s) == s # None => DOMAIN s.queues = s.want.tasks

\* Context c is one that a request may hold at p.
At(p, c) ==
  /\ p \in Place
  /\ c \in Context \cup {None}
  /\ p \in Building \cup {"delqueues"} => c # None
  /\ c # None =>
       /\ Recorded(c.seen)
       /\ p \in Early => DOMAIN c.queues = OldTasks(c.seen)
       /\ p \in {"changeconf", "publish", "final"} => DOMAIN c.queues = c.want.tasks

Control ==
  /\ pc \in [Req -> Place]
  /\ ctx \in [Req -> Context \cup {None}]
  /\ \A r \in Req : At(pc[r], ctx[r])

Stored ==
  /\ spec \in Spec0 \cup {None} /\ Recorded(spec)
  /\ pkg \in Code \cup {None}
  /\ cron \in SUBSET Cron
  /\ queues \in SUBSET Queue
  /\ tags \in Nat \cup {None}
  /\ status \in [Req -> {"none", "pending", "building", "success", "failed"}]
  /\ request \in SUBSET Req
  /\ faults \in 0 .. MaxFaults
  /\ clean \in BOOLEAN

Versions ==
  /\ latest \in Image \cup {None}
  /\ versions \in Seq(Image)
  /\ live \subseteq DOMAIN versions /\ timers \subseteq DOMAIN versions
  /\ aged \in 0 .. Len(versions)
  /\ NewestStays

IInv == Stored /\ Versions /\ Control

----------------------------------------------------------------------------
LEMMA NoneApart ==
  /\ None \notin Spec0 /\ None \notin Context /\ None \notin Image /\ None \notin Nat
  /\ None \notin Code /\ None \notin Content
BY ConstantsOK

LEMMA NoQueues == <<>> \in QueuesOf /\ DOMAIN <<>> = {}
<1>1. <<>> \in [{} -> Queue] /\ DOMAIN <<>> = {}
  OBVIOUS
<1>. QED
  BY <1>1 DEF QueuesOf

\* What a plan is made of.
LEMMA PlanTypes ==
  ASSUME NEW c \in Content, NEW old \in Spec0 \cup {None}, Recorded(old), NEW slow
  PROVE  /\ PlanFor(c, old, slow) \in Context
         /\ At("accept", PlanFor(c, old, slow)) /\ At("delqueues", PlanFor(c, old, slow))
<1>. DEFINE p == PlanFor(c, old, slow)
<1>1. PlanBuild(c, old, slow) \in BuildPlan /\ PlanCron(c, old) \in CronPlan
  BY DEF PlanBuild, PlanCron, BuildPlan, CronPlan
<1>2. p \in Context /\ p.seen = old /\ DOMAIN p.queues = OldTasks(old)
  <2>1. CASE old = None
    BY <1>1, <2>1, NoQueues DEF PlanFor, Context, OldTasks
  <2>2. CASE old # None
    BY <1>1, <2>2 DEF PlanFor, Context, OldTasks, Spec0, Recorded
  <2>. QED
    BY <2>1, <2>2
<1>. QED
  BY <1>2, NoneApart DEF At, Place, Building, Deleting, Early

\* Contexts after an assignment to one of their fields.
LEMMA ContextFields ==
  ASSUME NEW c \in Context
  PROVE  /\ c.want \in Content /\ c.seen \in Spec0 \cup {None}
         /\ c.ver \in Nat /\ c.queues \in QueuesOf /\ c.todo \subseteq {"spec", "tags"}
         /\ [c EXCEPT !.ok = FALSE] \in Context
         /\ \A v \in Nat : LET d == [c EXCEPT !.ver = v, !.pub = v] IN
              d \in Context /\ d.seen = c.seen /\ d.queues = c.queues /\ d.want = c.want
         /\ \A q \in QueuesOf : [c EXCEPT !.queues = q] \in Context
         /\ \A w : [c EXCEPT !.todo = c.todo \ {w}] \in Context
BY DEF Context

\* The requests after a step of one of them.
LEMMA Moves ==
  ASSUME Control, NEW r \in Req, NEW w, NEW c, At(w, c), Goto(r, w), Keep(r, c)
  PROVE  Control'
BY DEF Control, Goto, Keep, At

LEMMA MovesOn ==
  ASSUME Control, NEW r \in Req, NEW w, At(w, ctx[r]), Goto(r, w), UNCHANGED ctx
  PROVE  Control'
BY DEF Control, Goto, At

LEMMA Leaves ==
  ASSUME Control, NEW r \in Req, NEW w \in Over \cup {"deltags"}, Leave(r, w)
  PROVE  Control'
<1>1. At(w, None)
  BY DEF At, Place, Over, Building, Deleting
<1>. QED
  BY <1>1, Moves DEF Leave

\* The context of a request that is building.
LEMMA InBuild ==
  ASSUME Control, NEW r \in Req, pc[r] \in Building \cup {"delqueues"}
  PROVE  ctx[r] \in Context /\ ctx[r] # None /\ At(pc[r], ctx[r]) /\ Recorded(ctx[r].seen)
BY NoneApart DEF Control, At

LEMMA Fails ==
  ASSUME Control, NEW r \in Req, pc[r] \in Building, Fail(r)
  PROVE  Control'
<1>. DEFINE c == [ctx[r] EXCEPT !.ok = FALSE]
<1>1. ctx[r] \in Context /\ Recorded(ctx[r].seen)
  BY InBuild
<1>2. c \in Context /\ c.seen = ctx[r].seen
  BY <1>1, ContextFields DEF Context
<1>3. At("report", c)
  BY <1>1, <1>2, NoneApart DEF At, Place, Building, Early
<1>. QED
  BY <1>3, Moves DEF Fail

\* The stages that may follow.
LEMMA Stages ==
  ASSUME NEW c \in Context, Recorded(c.seen), DOMAIN c.queues = OldTasks(c.seen)
  PROVE  At(AfterCode(c), c) /\ At(AfterCron(c), c)
         /\ \A p \in Early : At(p, c)
<1>1. \A p \in Early : At(p, c)
  BY NoneApart DEF At, Place, Building, Early
<1>2. At(AfterCron(c), c)
  BY NoneApart, <1>1 DEF AfterCron, AfterTasks, At, Place, Building, Early
<1>3. AfterCode(c) \in {AfterCron(c), "register", "clear"}
  BY DEF AfterCode
<1>. QED
  BY <1>1, <1>2, <1>3 DEF Early, Building

LEMMA EarlyQueues ==
  ASSUME Control, NEW r \in Req, pc[r] \in Early
  PROVE  /\ pc[r] \in Building /\ ctx[r] \in Context /\ Recorded(ctx[r].seen)
         /\ DOMAIN ctx[r].queues = OldTasks(ctx[r].seen)
BY InBuild DEF At, Early

----------------------------------------------------------------------------
(***************************************************************************)
(* The steps of a PUT.                                                     *)
(***************************************************************************)
LEMMA PlanStep == ASSUME IInv, NEW r \in Req, Plan(r) PROVE IInv'
<1>1. PICK c \in Wanted : \E slow \in {FALSE, c.code \in Slow} :
        LET plan == PlanFor(c, spec, slow) IN
        IF plan.build = "none" THEN Leave(r, "done") ELSE Goto(r, "accept") /\ Keep(r, plan)
  BY DEF Plan
<1>2. PICK slow \in {FALSE, c.code \in Slow} :
        LET plan == PlanFor(c, spec, slow) IN
        IF plan.build = "none" THEN Leave(r, "done") ELSE Goto(r, "accept") /\ Keep(r, plan)
  BY <1>1
<1>3. c \in Content /\ spec \in Spec0 \cup {None} /\ Recorded(spec) /\ Control
  BY ConstantsOK DEF IInv, Stored
<1>4. At("accept", PlanFor(c, spec, slow))
  BY <1>3, PlanTypes
<1>5. Control'
  BY <1>2, <1>3, <1>4, Moves, Leaves DEF Over
<1>. QED
  BY <1>5 DEF IInv, Plan, Arrives, Stored, Versions, NewestStays, files, lambda, builds

LEMMA AcceptStep == ASSUME IInv, NEW r \in Req, Accept(r) PROVE IInv'
<1>1. Control'
  BY EarlyQueues, Stages, MovesOn DEF IInv, Accept, Early, Building
<1>. QED
  BY <1>1 DEF IInv, Accept, Stored, Versions, NewestStays, files, lambda, told

LEMMA StartStep == ASSUME IInv, NEW r \in Req, Start(r) PROVE IInv'
<1>1. Control'
  <2>1. At("package", ctx[r]) /\ At(AfterCode(ctx[r]), ctx[r])
    BY EarlyQueues, Stages DEF IInv, Start, Early, Building
  <2>. QED
    BY <2>1, MovesOn DEF IInv, Start
<1>. QED
  BY <1>1 DEF IInv, Start, Stored, Versions, NewestStays, files, lambda, told

LEMMA PackageStep == ASSUME IInv, NEW r \in Req, Package(r) PROVE IInv'
<1>1. ctx[r] \in Context /\ At("create", ctx[r]) /\ At("setconf", ctx[r])
  BY EarlyQueues, Stages DEF IInv, Package, Early, Building
<1>2. Control'
  BY <1>1, MovesOn DEF IInv, Package
<1>3. ctx[r].want.code \in Code
  BY <1>1 DEF Context, Content
<1>. QED
  BY <1>2, <1>3 DEF IInv, Package, Stored, Versions, NewestStays, lambda, builds, told

\* Publishing: the version is there, and it is the newest.
LEMMA PublishedStep ==
  ASSUME IInv, NEW r \in Req, NEW image \in Image, NEW new \in BOOLEAN, NEW collect \in BOOLEAN,
         NEW next, At(next, ctx[r]),
         pc[r] \in Building, ~ new => latest # None,
         Published(r, image, new, collect, next),
         UNCHANGED <<files, cron, queues, builds, aged>>
  PROVE  IInv'
<1>. DEFINE v == IF new THEN Len(versions) + 1 ELSE Len(versions)
<1>1. versions \in Seq(Image) /\ Len(versions) \in Nat /\ live \subseteq 1 .. Len(versions)
      /\ timers \subseteq 1 .. Len(versions) /\ aged \in 0 .. Len(versions)
  BY DEF IInv, Versions
<1>2. v \in 1 .. Len(versions') /\ v = Len(versions')
      /\ versions' \in Seq(Image) /\ Len(versions) <= Len(versions')
  <2>1. CASE new
    BY <1>1, <2>1 DEF Published
  <2>2. CASE ~ new
    BY <1>1, <2>2 DEF Published, IInv, Versions, NewestStays
  <2>. QED
    BY <2>1, <2>2
<1>3. live' = live \cup {v} /\ latest' = image /\ timers' \in {timers, timers \cup {v}}
  BY DEF Published
<1>4. Versions'
  <2>. HIDE DEF v
  <2>1. DOMAIN versions' = 1 .. Len(versions') /\ aged' = aged
    BY <1>2
  <2>2. live' \subseteq DOMAIN versions' /\ timers' \subseteq DOMAIN versions'
    <3>1. Len(versions') \in Nat
      BY <1>2
    <3>2. 1 .. Len(versions) \subseteq 1 .. Len(versions')
      BY <1>1, <1>2, <3>1
    <3>3. v \in DOMAIN versions'
      BY <1>2, <2>1
    <3>. QED
      BY <1>1, <1>3, <2>1, <3>2, <3>3
  <2>3. aged' \in 0 .. Len(versions')
    BY <1>1, <1>2, <2>1
  <2>. QED
    BY <1>1, <1>2, <1>3, <2>2, <2>3 DEF Versions, NewestStays
<1>5. Stored'
  <2>1. faults' \in 0 .. MaxFaults
    BY ConstantsOK DEF Published, IInv, Stored
  <2>2. clean' \in BOOLEAN
    BY DEF Published
  <2>. QED
    BY <2>1, <2>2 DEF IInv, Stored, files, builds
<1>6. Control'
  <2>1. ctx[r] \in Context /\ ctx[r] # None
    BY InBuild DEF IInv
  <2>2. CASE Fail(r)
    BY <2>2, Fails DEF IInv
  <2>3. CASE Keep(r, [ctx[r] EXCEPT !.ver = v, !.pub = v]) /\ Goto(r, next)
    <3>. DEFINE c == [ctx[r] EXCEPT !.ver = v, !.pub = v]
    <3>1. c \in Context /\ c.seen = ctx[r].seen /\ c.queues = ctx[r].queues /\ c.want = ctx[r].want
      <4>1. v \in Nat
        BY <1>1
      <4>. QED
        BY <2>1, <4>1, ContextFields
    <3>2. At(next, c)
      BY <2>1, <3>1, NoneApart DEF At
    <3>. QED
      BY <2>3, <3>2, Moves DEF IInv
  <2>. QED
    BY <2>2, <2>3 DEF Published
<1>. QED
  BY <1>4, <1>5, <1>6 DEF IInv

LEMMA CreateFunctionStep == ASSUME IInv, NEW r \in Req, CreateFunction(r) PROVE IInv'
<1>1. ctx[r] \in Context /\ At(AfterCode(ctx[r]), ctx[r]) /\ pc[r] \in Building
  BY EarlyQueues, Stages DEF IInv, CreateFunction, Early, Building
<1>2. [code |-> pkg, conf |-> ctx[r].want.conf] \in Image
  BY <1>1, NoneApart DEF IInv, Stored, CreateFunction, Image, Context, Content
<1>. QED
  BY <1>1, <1>2, PublishedStep DEF CreateFunction

LEMMA SetCodeStep == ASSUME IInv, NEW r \in Req, SetCode(r) PROVE IInv'
<1>1. ctx[r] \in Context /\ At(AfterCode(ctx[r]), ctx[r]) /\ pc[r] \in Building
  BY EarlyQueues, Stages DEF IInv, SetCode, Early, Building
<1>2. [latest EXCEPT !.code = pkg] \in Image
  BY NoneApart DEF IInv, Stored, Versions, SetCode, Image
<1>. QED
  BY <1>1, <1>2, PublishedStep DEF SetCode

LEMMA SetConfStep == ASSUME IInv, NEW r \in Req, SetConf(r) PROVE IInv'
<1>1. ctx[r] \in Context /\ At("setcode", ctx[r])
  BY EarlyQueues, Stages DEF IInv, SetConf, Early, Building
<1>2. latest' \in Image
  BY <1>1, NoneApart DEF IInv, Versions, SetConf, Image, Context, Content
<1>3. Control'
  BY <1>1, MovesOn DEF IInv, SetConf
<1>. QED
  BY <1>2, <1>3 DEF IInv, SetConf, Stored, Versions, NewestStays, files, builds, told

LEMMA TurnAroundStep == ASSUME IInv, NEW r \in Req, TurnAround(r) PROVE IInv'
<1>1. At("create", ctx[r]) /\ At("setconf", ctx[r])
  BY EarlyQueues, Stages DEF IInv, TurnAround, Early, Building
<1>2. Control'
  BY <1>1, MovesOn DEF IInv, TurnAround
<1>. QED
  BY <1>2 DEF IInv, TurnAround, Stored, Versions, NewestStays, files, lambda, builds, told

LEMMA MissingStep == ASSUME IInv, NEW r \in Req, Missing(r) PROVE IInv'
<1>1. Control'
  BY Fails DEF IInv, Missing, Building
<1>. QED
  BY <1>1 DEF IInv, Missing, Stored, Versions, NewestStays, files, lambda, builds, told

LEMMA CronSteps == ASSUME IInv, NEW r \in Req, ClearCron(r) \/ RegisterCron(r) PROVE IInv'
<1>1. ctx[r] \in Context /\ At("register", ctx[r]) /\ At(AfterCron(ctx[r]), ctx[r])
  BY EarlyQueues, Stages DEF IInv, ClearCron, RegisterCron, Early, Building
<1>2. Control'
  BY <1>1, MovesOn DEF IInv, ClearCron, RegisterCron
<1>3. cron' \in SUBSET Cron
  BY <1>1 DEF IInv, Stored, ClearCron, RegisterCron, KeysOf, Context, Content
<1>. QED
  BY <1>2, <1>3 DEF IInv, ClearCron, RegisterCron, Stored, Versions, NewestStays, files, lambda, builds, told

\* The queues that a build makes and drops are queues of the function's routes.
LEMMA QueueSets ==
  ASSUME Control, NEW r \in Req, pc[r] = "tasks"
  PROVE  ToAdd(r) \subseteq Queue
<1>1. ctx[r] \in Context
  BY InBuild DEF Building
<1>2. ctx[r].want.tasks \subseteq Route
  BY <1>1 DEF Context, Content
<1>. QED
  BY <1>2 DEF ToAdd, Queue

LEMMA UpdateTasksStep == ASSUME IInv, NEW r \in Req, UpdateTasks(r) PROVE IInv'
<1>. DEFINE c == ctx[r]
            q == [t \in c.want.tasks |-> IF t \in OldTasks(c.seen) THEN c.seen.queues[t] ELSE <<r, t>>]
            d == [c EXCEPT !.queues = q]
<1>1. c \in Context /\ c # None /\ Recorded(c.seen)
  BY EarlyQueues, NoneApart DEF IInv, UpdateTasks, Early, Building
<1>2. c.want.tasks \subseteq Route
  BY <1>1 DEF Context, Content
<1>3. \A t \in OldTasks(c.seen) : c.seen.queues[t] \in Queue
  <2>1. CASE c.seen = None
    BY <2>1 DEF OldTasks
  <2>2. CASE c.seen # None
    <3>1. c.seen \in Spec0 /\ DOMAIN c.seen.queues = OldTasks(c.seen)
      BY <1>1, <2>2 DEF Context, Recorded, OldTasks
    <3>2. c.seen.queues \in QueuesOf
      BY <3>1 DEF Spec0
    <3>. QED
      BY <3>1, <3>2 DEF QueuesOf
  <2>. QED
    BY <2>1, <2>2
<1>4. q \in [c.want.tasks -> Queue]
  BY <1>2, <1>3 DEF Queue
<1>5. q \in QueuesOf
  BY <1>2, <1>4 DEF QueuesOf
<1>6. d \in Context /\ d.seen = c.seen /\ d.want = c.want /\ d.queues = q /\ d.build = c.build
  BY <1>1, <1>5, ContextFields DEF Context
<1>7. At(AfterTasks(c), d)
  BY <1>1, <1>6, NoneApart DEF At, AfterTasks, Place, Building, Early
<1>8. Control'
  BY <1>7, Moves DEF IInv, UpdateTasks
<1>9. queues' \in SUBSET Queue
  BY QueueSets DEF IInv, Stored, UpdateTasks
<1>. QED
  BY <1>8, <1>9 DEF IInv, UpdateTasks, Stored, Versions, NewestStays, files, lambda, builds, told

LEMMA ChangeConfStep == ASSUME IInv, NEW r \in Req, ChangeConf(r) PROVE IInv'
<1>1. ctx[r] \in Context /\ At("changeconf", ctx[r])
  BY InBuild DEF IInv, ChangeConf, Building
<1>2. At("publish", ctx[r])
  BY <1>1 DEF At, Place, Building, Early
<1>3. latest' \in Image
  BY <1>1, NoneApart DEF IInv, Versions, ChangeConf, Image, Context, Content
<1>4. Control'
  BY <1>2, MovesOn DEF IInv, ChangeConf
<1>. QED
  BY <1>3, <1>4 DEF IInv, ChangeConf, Stored, Versions, NewestStays, files, builds, told

LEMMA PublishConfStep == ASSUME IInv, NEW r \in Req, PublishConf(r) PROVE IInv'
<1>1. At("publish", ctx[r]) /\ pc[r] \in Building
  BY InBuild DEF IInv, PublishConf, Building
<1>2. At("final", ctx[r])
  BY <1>1 DEF At, Place, Building, Early
<1>3. latest \in Image /\ latest # None
  BY DEF IInv, Versions, PublishConf
<1>. QED
  BY <1>1, <1>2, <1>3, PublishedStep DEF PublishConf

LEMMA FinalizeStep ==
  ASSUME IInv, NEW r \in Req, NEW what \in {"spec", "tags"}, Finalize(r, what) PROVE IInv'
<1>. DEFINE c == [ctx[r] EXCEPT !.todo = ctx[r].todo \ {what}]
<1>1. ctx[r] \in Context /\ At("final", ctx[r]) /\ ctx[r] # None
  BY InBuild DEF IInv, Finalize, Building
<1>2. c \in Context /\ c.seen = ctx[r].seen /\ c.queues = ctx[r].queues /\ c.want = ctx[r].want
  BY <1>1, ContextFields DEF Context
<1>3. At("final", c) /\ At("report", c)
  BY <1>1, <1>2, NoneApart DEF At, Place, Building, Early
<1>4. Control'
  BY <1>3, Moves DEF IInv, Finalize
<1>5. SpecOf(r) \in Spec0 /\ Recorded(SpecOf(r)) /\ ctx[r].ver \in Nat
  BY <1>1 DEF At, SpecOf, Recorded, Spec0, Context
<1>. QED
  BY <1>4, <1>5 DEF IInv, Finalize, Stored, Versions, NewestStays, lambda, builds, told

LEMMA ReportStep == ASSUME IInv, NEW r \in Req, Report(r) PROVE IInv'
<1>1. Control'
  BY Leaves DEF IInv, Report, Over
<1>2. status' \in [Req -> {"none", "pending", "building", "success", "failed"}]
  BY DEF IInv, Stored, Report, Outcome
<1>. QED
  BY <1>1, <1>2 DEF IInv, Report, Stored, Versions, NewestStays, files, lambda, told

----------------------------------------------------------------------------
(***************************************************************************)
(* The steps of a DELETE, time, and what goes wrong.                       *)
(***************************************************************************)

\* A request that holds no build's context may be anywhere in a deletion.
LEMMA InDeletion ==
  ASSUME Control, NEW r \in Req, pc[r] \in {"idle"} \cup Deleting
  PROVE  \A p \in {"read", "deltags", "delpkg", "delspec", "delfun", "done"} : At(p, ctx[r])
BY DEF Control, At, Place, Building, Deleting, Over, Early

LEMMA DeleteCronStep == ASSUME IInv, NEW r \in Req, DeleteCron(r) PROVE IInv'
<1>1. Control'
  BY InDeletion, MovesOn DEF IInv, DeleteCron, Arrives
<1>. QED
  BY <1>1 DEF IInv, DeleteCron, Arrives, Stored, Versions, NewestStays, files, lambda, builds

LEMMA ReadSpecStep == ASSUME IInv, NEW r \in Req, ReadSpec(r) PROVE IInv'
<1>1. CASE spec = None
  BY <1>1, InDeletion, MovesOn DEF IInv, ReadSpec, Deleting, Stored, Versions, NewestStays,
     files, lambda, builds, told
<1>2. CASE spec # None
  <2>1. spec \in Spec0 /\ spec.want \in Content /\ Recorded(spec)
    BY <1>2 DEF IInv, Stored, Spec0
  <2>2. At("delqueues", PlanFor(spec.want, spec, FALSE))
    BY <2>1, PlanTypes
  <2>3. Control'
    BY <1>2, <2>2, Moves DEF IInv, ReadSpec
  <2>. QED
    BY <2>3 DEF IInv, ReadSpec, Stored, Versions, NewestStays, files, lambda, builds, told
<1>. QED
  BY <1>1, <1>2

LEMMA DeleteQueuesStep == ASSUME IInv, NEW r \in Req, DeleteQueues(r) PROVE IInv'
<1>1. Control'
  BY Leaves DEF IInv, DeleteQueues, Over
<1>. QED
  BY <1>1 DEF IInv, DeleteQueues, Stored, Versions, NewestStays, files, lambda, builds, told

LEMMA DeleteFilesSteps ==
  ASSUME IInv, NEW r \in Req, DeleteTags(r) \/ DeletePackage(r) \/ DeleteSpec(r) PROVE IInv'
<1>1. Control'
  BY InDeletion, MovesOn DEF IInv, DeleteTags, DeletePackage, DeleteSpec, Deleting
<1>. QED
  BY <1>1 DEF IInv, DeleteTags, DeletePackage, DeleteSpec, Stored, Recorded, Versions, NewestStays,
     lambda, builds, told

LEMMA DeleteFunctionStep == ASSUME IInv, NEW r \in Req, DeleteFunction(r) PROVE IInv'
<1>1. Control'
  BY InDeletion, MovesOn DEF IInv, DeleteFunction, Deleting
<1>. QED
  BY <1>1 DEF IInv, DeleteFunction, Stored, Versions, NewestStays, files, builds, told

LEMMA AgeStep == ASSUME IInv, Age PROVE IInv'
<1>1. Control'
  BY DEF IInv, Age, Control
<1>2. aged' \in 0 .. Len(versions) /\ versions' = versions
  BY DEF IInv, Age, Versions, lambda
<1>. QED
  BY <1>1, <1>2 DEF IInv, Age, Stored, Versions, NewestStays, files, lambda, builds

\* The largest version that is left stays, and the newest one is the largest.
LEMMA CollectStep == ASSUME IInv, NEW v, Collect(v) PROVE IInv'
<1>1. Control'
  BY DEF IInv, Collect, Control
<1>2. live' \subseteq live /\ timers' \subseteq timers
  BY DEF Collect
<1>3. ASSUME latest # None PROVE Len(versions) \in live'
  <2>1. Len(versions) \in live /\ live \subseteq 1 .. Len(versions)
    BY <1>3 DEF IInv, Versions, NewestStays
  <2>2. \A y \in live : y <= Len(versions)
    BY <2>1
  <2>. QED
    BY <2>1, <2>2 DEF Collect
<1>4. latest' = latest /\ versions' = versions /\ aged' = aged
  BY DEF Collect, told
<1>5. live' \subseteq DOMAIN versions' /\ timers' \subseteq DOMAIN versions'
  BY <1>2, <1>4 DEF IInv, Versions
<1>6. NewestStays'
  BY <1>3, <1>4 DEF NewestStays
<1>7. Versions'
  BY <1>4, <1>5, <1>6 DEF IInv, Versions
<1>. QED
  BY <1>1, <1>7 DEF IInv, Collect, Stored, files, builds, told

LEMMA FaultCounts ==
  ASSUME IInv, NEW kind, Fault(kind)
  PROVE  faults' \in 0 .. MaxFaults /\ clean' \in BOOLEAN /\ aged' = aged
<1>1. faults \in 0 .. MaxFaults /\ MaxFaults \in Nat
  BY ConstantsOK DEF IInv, Stored
<1>2. faults < MaxFaults /\ faults' = faults + 1
  BY DEF Fault
<1>3. faults' \in 0 .. MaxFaults
  BY <1>1, <1>2
<1>4. clean' \in BOOLEAN /\ aged' = aged
  BY DEF Fault
<1>. QED
  BY <1>3, <1>4

LEMMA StageThrowsStep == ASSUME IInv, NEW r \in Req, StageThrows(r) PROVE IInv'
<1>1. Control'
  BY Fails DEF IInv, StageThrows
<1>. QED
  BY <1>1, FaultCounts DEF IInv, StageThrows, Stored, Versions, NewestStays, files, lambda, builds

LEMMA TasksThrowStep == ASSUME IInv, NEW r \in Req, TasksThrow(r) PROVE IInv'
<1>1. Control'
  BY Fails DEF IInv, TasksThrow, Building
<1>2. queues' \subseteq Queue
  BY QueueSets DEF IInv, Stored, TasksThrow
<1>. QED
  BY <1>1, <1>2, FaultCounts DEF IInv, TasksThrow, Stored, Versions, NewestStays, files, lambda, builds

LEMMA AcceptThrowsStep == ASSUME IInv, NEW r \in Req, AcceptThrows(r) PROVE IInv'
<1>1. Control'
  BY Leaves DEF IInv, AcceptThrows, Over
<1>. QED
  BY <1>1, FaultCounts DEF IInv, AcceptThrows, Stored, Versions, NewestStays, files, lambda

LEMMA EndThrowsStep == ASSUME IInv, NEW r \in Req, EndThrows(r) PROVE IInv'
<1>1. Control'
  BY Leaves DEF IInv, EndThrows, Over
<1>2. PICK made \in SUBSET (IF pc[r] = "final" THEN ctx[r].todo ELSE {}) :
        /\ spec' = IF "spec" \in made THEN SpecOf(r) ELSE spec
        /\ tags' = IF "tags" \in made THEN ctx[r].ver ELSE tags
  BY DEF EndThrows
<1>3. spec' \in Spec0 \cup {None} /\ Recorded(spec') /\ tags' \in Nat \cup {None}
  <2>1. CASE made = {}
    BY <1>2, <2>1 DEF IInv, Stored
  <2>2. CASE made # {}
    <3>1. pc[r] = "final"
      BY <2>2
    <3>2. SpecOf(r) \in Spec0 /\ Recorded(SpecOf(r)) /\ ctx[r].ver \in Nat
      BY <3>1, InBuild DEF IInv, Building, At, SpecOf, Recorded, Spec0, Context
    <3>. QED
      BY <1>2, <3>2 DEF IInv, Stored
  <2>. QED
    BY <2>1, <2>2
<1>4. request' \subseteq Req
  BY DEF EndThrows, IInv, Stored
<1>. QED
  BY <1>1, <1>3, <1>4, FaultCounts DEF IInv, EndThrows, Stored, Versions, NewestStays, lambda

LEMMA LeavingSteps == ASSUME IInv, NEW r \in Req, DeleteThrows(r) \/ Crash(r) PROVE IInv'
<1>1. Control'
  BY Leaves DEF IInv, DeleteThrows, Crash, Over
<1>. QED
  BY <1>1, FaultCounts DEF IInv, DeleteThrows, Crash, Stored, Versions, NewestStays, files, lambda, builds

----------------------------------------------------------------------------
(***************************************************************************)
(* The theorems.                                                           *)
(***************************************************************************)
LEMMA InitInv == Init => IInv
<1>. SUFFICES ASSUME Init PROVE IInv
  OBVIOUS
<1>1. Control
  BY DEF Init, Control, At, Place, Building, Early
<1>2. status \in [Req -> {"none", "pending", "building", "success", "failed"}]
      /\ request \in SUBSET Req /\ faults \in 0 .. MaxFaults /\ clean \in BOOLEAN
  BY ConstantsOK DEF Init
<1>3. PICK d \in Deployed \cup {None} :
       IF d = None
       THEN /\ spec = None /\ pkg = None /\ tags = None /\ latest = None
            /\ cron = {} /\ queues = {} /\ versions = <<>> /\ live = {}
            /\ aged = 0 /\ timers = {}
       ELSE /\ spec = [want |-> d, ver |-> 1, queues |-> [t \in d.tasks |-> <<None, t>>]]
            /\ pkg = d.code /\ tags = 1 /\ latest = ImageOf(d)
            /\ cron = KeysOf(d) /\ queues = {None} \X d.tasks
            /\ versions = <<ImageOf(d)>> /\ live = {1}
            /\ aged = 0 /\ timers = {1}
  BY DEF Init
<1>4. CASE d = None
  BY <1>1, <1>2, <1>3, <1>4 DEF IInv, Stored, Versions, NewestStays, Recorded
<1>5. CASE d # None
  <2>1. d \in Content /\ d.tasks \subseteq Route /\ d.code \in Code
    BY <1>5, ConstantsOK DEF Content
  <2>2. ImageOf(d) \in Image /\ KeysOf(d) \subseteq Cron
    BY <2>1 DEF ImageOf, Image, KeysOf, Content
  <2>. DEFINE q == [t \in d.tasks |-> <<None, t>>]
  <2>3. q \in [d.tasks -> Queue] /\ {None} \X d.tasks \subseteq Queue
    BY <2>1 DEF Queue
  <2>4. q \in QueuesOf
    BY <2>1, <2>3 DEF QueuesOf
  <2>5. spec \in Spec0 /\ Recorded(spec)
    BY <1>3, <1>5, <2>1, <2>4 DEF Spec0, Recorded
  <2>6. Stored
    BY <1>2, <1>3, <1>5, <2>1, <2>2, <2>3, <2>5 DEF Stored
  <2>7. versions \in Seq(Image) /\ Len(versions) = 1 /\ DOMAIN versions = {1}
    <3>1. versions = <<ImageOf(d)>>
      BY <1>3, <1>5
    <3>2. <<ImageOf(d)>> \in Seq(Image) /\ Len(<<ImageOf(d)>>) = 1
      BY <2>2
    <3>3. DOMAIN <<ImageOf(d)>> = {1}
      BY <3>2
    <3>. QED
      BY <3>1, <3>2, <3>3
  <2>8. Versions
    BY <1>3, <1>5, <2>2, <2>7 DEF Versions, NewestStays
  <2>. QED
    BY <1>1, <2>6, <2>8 DEF IInv
<1>. QED
  BY <1>4, <1>5

LEMMA NextInv == IInv /\ [Next]_vars => IInv'
<1>. SUFFICES ASSUME IInv, [Next]_vars PROVE IInv'
  OBVIOUS
<1>1. CASE UNCHANGED vars
  BY <1>1 DEF vars, IInv, Stored, Versions, NewestStays, Control, files, lambda, builds, told
<1>2. ASSUME NEW r \in Req, Plan(r) \/ DeleteCron(r) PROVE IInv'
  BY <1>2, PlanStep, DeleteCronStep
<1>3. ASSUME NEW r \in Req, Put(r) PROVE IInv'
  BY <1>3, AcceptStep, StartStep, PackageStep, CreateFunctionStep, SetConfStep, SetCodeStep,
     TurnAroundStep, MissingStep, CronSteps, UpdateTasksStep, ChangeConfStep, PublishConfStep,
     FinalizeStep, ReportStep DEF Put, SaveSpec, SaveTags
<1>4. ASSUME NEW r \in Req, Delete(r) PROVE IInv'
  BY <1>4, ReadSpecStep, DeleteQueuesStep, DeleteFilesSteps, DeleteFunctionStep DEF Delete
<1>5. ASSUME NEW r \in Req, Breaks(r) PROVE IInv'
  BY <1>5, StageThrowsStep, TasksThrowStep, AcceptThrowsStep, EndThrowsStep, LeavingSteps DEF Breaks
<1>. QED
  BY <1>1, <1>2, <1>3, <1>4, <1>5, AgeStep, CollectStep DEF Next

LEMMA Invariant == Spec => []IInv
BY InitInv, NextInv, PTL DEF Spec

\* Whatever builds, deletions, faults and garbage collections do, the status words,
\* the recorded queues and versions, and the contexts keep their types.
THEOREM TypeCorrect == Spec => []TypeOK
<1>1. IInv => TypeOK
  BY DEF IInv, Stored, Versions, Control, TypeOK, Place
<1>. QED
  BY <1>1, Invariant, PTL

\* Garbage collection never takes the version that was published last, for any
\* number of requests, collections and faults (create_function_worker.js:661-662).
THEOREM NewestVersionStays == Spec => []NewestStays
<1>1. IInv => NewestStays
  BY DEF IInv, Versions
<1>. QED
  BY <1>1, Invariant, PTL

\* A specification records a queue for each of its task routes and for no other,
\* however PUTs overlap and fail: a caller of such a route finds its queue, and
\* DELETE finds all of them (update_tasks, save_function_spec).
SpecNamesQueues == Recorded(spec)

THEOREM QueuesRecorded == Spec => []SpecNamesQueues
<1>1. IInv => SpecNamesQueues
  BY DEF IInv, Stored, SpecNamesQueues
<1>. QED
  BY <1>1, Invariant, PTL
----------------------------------------------------------------------------
(***************************************************************************)
(* Requests that follow each other without a fault: what is stored fits    *)
(* the specification when none is under way (AtRest), and on the way from  *)
(* one to the next what has been changed is known by the stage.            *)
(***************************************************************************)

\* The package, $LATEST and version v, the last one published, are w.
CodedAs(w, v) ==
  /\ pkg = w.code /\ latest = ImageOf(w)
  /\ v = Len(versions) /\ versions[v] = ImageOf(w)

CodeOf(s) == IF s = None THEN pkg = None /\ latest = None /\ live = {}
                         ELSE CodedAs(s.want, s.ver)
CronOf(s) == cron = IF s = None THEN {} ELSE KeysOf(s.want)
TasksOf(s) == queues = IF s = None THEN {} ELSE {s.queues[t] : t \in s.want.tasks}
TagsOf(s) == tags = IF s = None THEN None ELSE s.ver

AtRest(s) == CodeOf(s) /\ CronOf(s) /\ TasksOf(s) /\ TagsOf(s)

\* A queue bears the name of its task route.
NamedAs(q) == \A t \in DOMAIN q : q[t][2] = t

Rebuilt(c) == c.build \in {"full_build", "partial_build"}

\* What a plan leaves out is as it was.
Planned(c) ==
  /\ c.build # "none" /\ c.cron = PlanCron(c.want, c.seen)
  /\ ~ Rebuilt(c) => c.seen # None /\ c.want.code = c.seen.want.code
  /\ c.build = "metadata_update" => c.want.conf = c.seen.want.conf /\ c.cron = "none"

CodeStage(p, c) ==
  /\ p \in {"accept", "start", "package"} =>
       CodeOf(c.seen) /\ (c.seen # None => c.ver = c.seen.ver)
  /\ p \in {"package", "create", "setconf", "setcode"} => Rebuilt(c)
  /\ p = "create" => c.seen = None /\ pkg = c.want.code /\ latest = None
  /\ p = "setconf" => pkg = c.want.code /\ latest # None
  /\ p = "setcode" => pkg = c.want.code /\ latest # None /\ latest.conf = c.want.conf
  /\ p \in {"clear", "register", "tasks"} =>
       CodedAs(IF Rebuilt(c) THEN c.want ELSE c.seen.want, c.ver)
  /\ p = "changeconf" => c.build = "configuration_update" /\ CodedAs(c.seen.want, c.ver)
  /\ p = "publish" => pkg = c.want.code /\ latest = ImageOf(c.want)
  /\ p = "final" => CodedAs(c.want, c.ver)

CronStage(p, c) ==
  /\ p \in {"accept", "start", "package", "create", "setconf", "setcode", "clear"} =>
       CronOf(c.seen)
  /\ p = "clear" => c.cron \in {"cancel", "update"}
  /\ p = "register" => cron = {}
  /\ p \in {"tasks", "changeconf", "publish", "final"} => cron = KeysOf(c.want)

TasksStage(p, c) ==
  /\ p \in Early =>
       TasksOf(c.seen) /\ c.queues = (IF c.seen = None THEN <<>> ELSE c.seen.queues)
  /\ p \in {"changeconf", "publish", "final"} =>
       NamedAs(c.queues) /\ queues = {c.queues[t] : t \in c.want.tasks}

EndStage(p, c) ==
  /\ p # "final" =>
       /\ spec = c.seen /\ TagsOf(c.seen) /\ c.todo = {"spec", "tags"}
       /\ c.seen # None => NamedAs(c.seen.queues)
  /\ p = "final" =>
       /\ c.todo # {} /\ c.todo \subseteq {"spec", "tags"}
       /\ "spec" \in c.todo \/ spec = [want |-> c.want, ver |-> c.ver, queues |-> c.queues]
       /\ "tags" \in c.todo \/ tags = c.ver

\* A build with context c at stage p.
PutStage(p, c) ==
  IF p = "report" THEN AtRest(spec) /\ spec # None /\ spec.want = c.want
  ELSE Planned(c) /\ CodeStage(p, c) /\ CronStage(p, c) /\ TasksStage(p, c) /\ EndStage(p, c)

\* A deletion with context c at stage p.
DeleteStage(p, c) ==
  /\ request = {} /\ cron = {}
  /\ p = "read" => TasksOf(spec) /\ TagsOf(spec)
  /\ p = "delqueues" => tags # None /\ queues = {c.queues[t] : t \in DOMAIN c.queues}
  /\ p \in {"deltags", "delpkg", "delspec", "delfun"} => queues = {}
  /\ p \in {"delpkg", "delspec", "delfun"} => tags = None
  /\ p \in {"delspec", "delfun"} => pkg = None
  /\ p = "delfun" => spec = None

StageOf(r) ==
  /\ pc[r] \in Building =>
       PutStage(pc[r], ctx[r]) /\ request = (IF pc[r] = "accept" THEN {} ELSE {r})
  /\ pc[r] \in Deleting => DeleteStage(pc[r], ctx[r])

\* One request is under way at most, and what is stored fits its stage.
Tidy ==
  /\ \A r, s \in Req : Idle(r) \/ Idle(s) \/ r = s
  /\ spec # None => NamedAs(spec.queues)
  /\ (\A r \in Req : Idle(r)) => request = {} /\ AtRest(spec)
  /\ \A r \in Req : StageOf(r)

CleanTidy == clean => Tidy

----------------------------------------------------------------------------
(***************************************************************************)
(* What the stages leave to each other.                                    *)
(***************************************************************************)

\* A plan that is carried out leaves out what is as it was.
LEMMA PlanIsPlanned ==
  ASSUME NEW w, NEW old, NEW slow, PlanFor(w, old, slow).build # "none"
  PROVE  Planned(PlanFor(w, old, slow))
BY DEF PlanFor, Planned, Rebuilt, PlanBuild

\* What may be skipped after a change of the code: the schedule and the queues.
LEMMA CronKept ==
  ASSUME NEW c, Planned(c), c.cron = "none", CronOf(c.seen)'
  PROVE  cron' = KeysOf(c.want)
BY DEF Planned, PlanCron, CronOf, KeysOf, OldCron

LEMMA QueuesKept ==
  ASSUME NEW c, c.want.tasks = OldTasks(c.seen), TasksOf(c.seen)',
         c.queues = (IF c.seen = None THEN <<>> ELSE c.seen.queues),
         c.seen # None => NamedAs(c.seen.queues)
  PROVE  NamedAs(c.queues) /\ queues' = {c.queues[t] : t \in c.want.tasks}
BY NoQueues DEF OldTasks, TasksOf, NamedAs

\* The stage that follows finds what it expects: after the tasks, the schedule, the code.
LEMMA ToAfterTasks ==
  ASSUME NEW c, Planned(c), c.build \in BuildPlan,
         CodedAs(IF Rebuilt(c) THEN c.want ELSE c.seen.want, c.ver)',
         cron' = KeysOf(c.want), NamedAs(c.queues),
         queues' = {c.queues[t] : t \in c.want.tasks}, EndStage("tasks", c)'
  PROVE  PutStage(AfterTasks(c), c)'
<1>1. CASE c.build = "configuration_update"
  <2>1. AfterTasks(c) = "changeconf" /\ ~ Rebuilt(c)
    BY <1>1 DEF AfterTasks, Rebuilt
  <2>2. CodeStage("changeconf", c)'
    BY <1>1, <2>1 DEF CodeStage
  <2>. QED
    BY <2>1, <2>2 DEF PutStage, CronStage, TasksStage, EndStage, Early, Building
<1>2. CASE c.build # "configuration_update"
  <2>1. AfterTasks(c) = "final"
    BY <1>2 DEF AfterTasks
  <2>2. Rebuilt(c) \/ c.build = "metadata_update"
    BY <1>2 DEF Rebuilt, Planned, BuildPlan
  <2>3. CodedAs(c.want, c.ver)'
    BY <2>2 DEF CodedAs, Planned, ImageOf
  <2>4. CodeStage("final", c)'
    BY <2>3 DEF CodeStage
  <2>. QED
    BY <2>1, <2>4 DEF PutStage, CronStage, TasksStage, EndStage, Early, Building
<1>. QED
  BY <1>1, <1>2

LEMMA ToAfterCron ==
  ASSUME NEW c, Planned(c), c.build \in BuildPlan,
         CodedAs(IF Rebuilt(c) THEN c.want ELSE c.seen.want, c.ver)',
         cron' = KeysOf(c.want), TasksStage("tasks", c)', EndStage("tasks", c)'
  PROVE  PutStage(AfterCron(c), c)'
<1>0. /\ TasksOf(c.seen)' /\ c.queues = (IF c.seen = None THEN <<>> ELSE c.seen.queues)
      /\ c.seen # None => NamedAs(c.seen.queues)
  BY DEF TasksStage, EndStage, Early, Building
<1>1. CASE c.want.tasks # OldTasks(c.seen)
  <2>1. AfterCron(c) = "tasks"
    BY <1>1 DEF AfterCron
  <2>2. CodeStage("tasks", c)' /\ CronStage("tasks", c)'
    BY DEF CodeStage, CronStage
  <2>. QED
    BY <2>1, <2>2 DEF PutStage
<1>2. CASE c.want.tasks = OldTasks(c.seen)
  <2>1. AfterCron(c) = AfterTasks(c)
    BY <1>2 DEF AfterCron
  <2>2. NamedAs(c.queues) /\ queues' = {c.queues[t] : t \in c.want.tasks}
    BY <1>0, <1>2, QueuesKept
  <2>. QED
    BY <2>1, <2>2, ToAfterTasks
<1>. QED
  BY <1>1, <1>2

LEMMA ToAfterCode ==
  ASSUME NEW c, Planned(c), c.build \in BuildPlan, c.cron \in CronPlan,
         CodedAs(IF Rebuilt(c) THEN c.want ELSE c.seen.want, c.ver)',
         CronOf(c.seen)', TasksStage("tasks", c)', EndStage("tasks", c)'
  PROVE  PutStage(AfterCode(c), c)'
<1>1. CASE c.cron = "none"
  BY <1>1, CronKept, ToAfterCron DEF AfterCode
<1>2. CASE c.cron = "set"
  <2>1. AfterCode(c) = "register" /\ cron' = {}
    BY <1>2 DEF AfterCode, Planned, PlanCron, CronOf, KeysOf, OldCron
  <2>2. CodeStage("register", c)' /\ CronStage("register", c)'
    BY <2>1 DEF CodeStage, CronStage
  <2>. QED
    BY <2>1, <2>2 DEF PutStage, TasksStage, EndStage, Early, Building
<1>3. CASE c.cron \in {"cancel", "update"}
  <2>1. AfterCode(c) = "clear"
    BY <1>3 DEF AfterCode
  <2>2. CodeStage("clear", c)' /\ CronStage("clear", c)'
    BY <1>3 DEF CodeStage, CronStage
  <2>. QED
    BY <2>1, <2>2 DEF PutStage, TasksStage, EndStage, Early, Building
<1>. QED
  BY <1>1, <1>2, <1>3 DEF CronPlan

\* A request that is under way is the only one, and a build is what its stage says.
LEMMA OnlyOne ==
  ASSUME Control, Tidy, NEW r \in Req, pc[r] \in Building \cup Deleting
  PROVE  /\ \A s \in Req : s # r => Idle(s)
         /\ pc[r] \in Building => /\ PutStage(pc[r], ctx[r])
                                  /\ request = (IF pc[r] = "accept" THEN {} ELSE {r})
         /\ pc[r] \in Deleting => DeleteStage(pc[r], ctx[r])
         /\ spec # None => NamedAs(spec.queues)
<1>1. ~ Idle(r)
  BY DEF Idle, Over, Building, Deleting
<1>. QED
  BY <1>1 DEF Tidy, StageOf

\* A step of the only one that is under way.
LEMMA OneMoves ==
  ASSUME Control, NEW r \in Req, NEW w \in Place, NEW c,
         \A s \in Req : s # r => Idle(s),
         pc' = [pc EXCEPT ![r] = w], ctx'[r] = c,
         spec' # None => NamedAs(spec'.queues),
         w \in Building => PutStage(w, c)' /\ request' = (IF w = "accept" THEN {} ELSE {r}),
         w \in Deleting => DeleteStage(w, c)',
         w \notin Building \cup Deleting => request' = {} /\ AtRest(spec)'
  PROVE  Tidy'
<1>1. pc'[r] = w /\ \A s \in Req : s # r => pc'[s] = pc[s]
  BY DEF Control
<1>2. \A s \in Req : s # r => Idle(s)'
  BY <1>1 DEF Idle
<1>3. (\A s, t \in Req : Idle(s) \/ Idle(t) \/ s = t)'
  BY <1>2
<1>4. (\A s \in Req : Idle(s))' => (request = {} /\ AtRest(spec))'
  BY <1>1 DEF Idle, Over, Building, Deleting
<1>5. ASSUME NEW s \in Req PROVE StageOf(s)'
  <2>1. CASE s = r
    BY <1>1, <2>1 DEF StageOf
  <2>2. CASE s # r
    <3>1. pc'[s] \notin Building \cup Deleting
      BY <1>2, <2>2 DEF Idle, Over, Building, Deleting
    <3>. QED
      BY <3>1 DEF StageOf
  <2>. QED
    BY <2>1, <2>2
<1>6. (spec # None => NamedAs(spec.queues))'
  BY DEF NamedAs
<1>. QED
  BY <1>3, <1>4, <1>5, <1>6 DEF Tidy

----------------------------------------------------------------------------
(***************************************************************************)
(* The steps of requests that follow each other without a fault.           *)
(***************************************************************************)

\* A build at one of its stages before the end.
LEMMA OneBuild ==
  ASSUME IInv, Tidy, NEW r \in Req, pc[r] \in Building \ {"report"}
  PROVE  /\ Control /\ \A s \in Req : s # r => Idle(s)
         /\ Planned(ctx[r]) /\ CodeStage(pc[r], ctx[r]) /\ CronStage(pc[r], ctx[r])
         /\ TasksStage(pc[r], ctx[r]) /\ EndStage(pc[r], ctx[r])
         /\ request = (IF pc[r] = "accept" THEN {} ELSE {r})
         /\ spec # None => NamedAs(spec.queues)
         /\ ctx[r] \in Context /\ ctx[r].build \in BuildPlan /\ ctx[r].cron \in CronPlan
<1>1. Control /\ pc[r] \in Building
  BY DEF IInv
<1>2. ctx[r] \in Context
  BY <1>1, InBuild
<1>3. ctx[r].build \in BuildPlan /\ ctx[r].cron \in CronPlan
  BY <1>2 DEF Context
<1>. QED
  BY <1>1, <1>2, <1>3, OnlyOne DEF PutStage

LEMMA PlanTidy == ASSUME IInv, CleanTidy, clean', NEW r \in Req, Plan(r) PROVE Tidy'
<1>1. Tidy /\ (\A q \in Req : Idle(q)) /\ Control
  BY DEF CleanTidy, Plan, Arrives, IInv
<1>2. request = {} /\ AtRest(spec) /\ (spec # None => NamedAs(spec.queues))
  BY <1>1 DEF Tidy
<1>3. PICK w \in Wanted : \E slow \in {FALSE, w.code \in Slow} :
        LET plan == PlanFor(w, spec, slow) IN
        IF plan.build = "none" THEN Leave(r, "done") ELSE Goto(r, "accept") /\ Keep(r, plan)
  BY DEF Plan
<1>4. PICK slow \in {FALSE, w.code \in Slow} :
        LET plan == PlanFor(w, spec, slow) IN
        IF plan.build = "none" THEN Leave(r, "done") ELSE Goto(r, "accept") /\ Keep(r, plan)
  BY <1>3
<1>5. UNCHANGED <<files, cron, queues, lambda, builds>>
  BY DEF Plan
<1>6. AtRest(spec)' /\ request' = {} /\ (spec' # None => NamedAs(spec'.queues))
  <2>1. UNCHANGED <<spec, pkg, tags, cron, queues, latest, versions, live, request>>
    BY <1>5 DEF files, lambda, builds
  <2>. QED
    BY <1>2, <2>1 DEF AtRest, CodeOf, CodedAs, CronOf, TasksOf, TagsOf, NamedAs
<1>7. CASE PlanFor(w, spec, slow).build = "none"
  <2>1. pc' = [pc EXCEPT ![r] = "done"] /\ ctx'[r] = ctx'[r]
    BY <1>4, <1>7 DEF Leave, Goto
  <2>. QED
    BY <1>1, <1>6, <2>1, OneMoves DEF Place, Over, Building, Deleting
<1>8. CASE PlanFor(w, spec, slow).build # "none"
  <2>1. PICK c : c = PlanFor(w, spec, slow)
    OBVIOUS
  <2>2. pc' = [pc EXCEPT ![r] = "accept"] /\ ctx'[r] = c
    BY <1>1, <1>4, <1>8, <2>1 DEF Goto, Keep, Control
  <2>3. Planned(c)
    BY <1>8, <2>1, PlanIsPlanned
  <2>4. /\ c.seen = spec /\ spec' = spec /\ c.todo = {"spec", "tags"}
        /\ c.ver = (IF spec = None THEN 0 ELSE spec.ver)
        /\ c.queues = (IF spec = None THEN <<>> ELSE spec.queues)
    BY <1>5, <2>1 DEF PlanFor, files
  <2>5. CodeStage("accept", c)' /\ CronStage("accept", c)' /\ TasksStage("accept", c)'
    BY <1>6, <2>4 DEF AtRest, CodeStage, CronStage, TasksStage
  <2>6. EndStage("accept", c)'
    BY <1>6, <2>4 DEF AtRest, EndStage
  <2>. QED
    BY <1>1, <1>6, <2>2, <2>3, <2>5, <2>6, OneMoves DEF PutStage, Place, Building, Deleting
<1>. QED
  BY <1>7, <1>8

LEMMA AcceptTidy == ASSUME IInv, Tidy, NEW r \in Req, Accept(r) PROVE Tidy'
<1>1. PICK c : c = ctx[r]
  OBVIOUS
<1>2. pc[r] = "accept" /\ pc' = [pc EXCEPT ![r] = "start"] /\ ctx'[r] = c
      /\ request' = request \cup {r} /\ UNCHANGED <<files, cron, queues, lambda>>
  BY <1>1 DEF Accept, Goto
<1>3. PutStage("start", c)'
  BY <1>1, <1>2, OneBuild DEF PutStage, CodeStage, CodeOf, CodedAs, CronStage, CronOf, TasksStage,
     TasksOf, EndStage, TagsOf, Building, Early, files, lambda
<1>. QED
  BY <1>2, <1>3, OneBuild, OneMoves DEF Place, Building, Deleting, files

LEMMA StartTidy == ASSUME IInv, Tidy, NEW r \in Req, Start(r) PROVE Tidy'
<1>1. PICK c : c = ctx[r]
  OBVIOUS
<1>2. PICK w : w = IF Rebuilt(c) THEN "package" ELSE AfterCode(c)
  OBVIOUS
<1>3. pc[r] = "start" /\ pc' = [pc EXCEPT ![r] = w] /\ ctx'[r] = c
      /\ UNCHANGED <<files, cron, queues, lambda, request>>
  BY <1>1, <1>2 DEF Start, Goto, Rebuilds, Rebuilt
<1>4. PutStage(w, c)'
  <2>1. Planned(c) /\ CodeStage("start", c) /\ CronStage("start", c)
        /\ TasksStage("start", c) /\ EndStage("start", c)
        /\ c.build \in BuildPlan /\ c.cron \in CronPlan
    BY <1>1, <1>3, OneBuild DEF Building
  <2>2. /\ CodeOf(c.seen)' /\ CronOf(c.seen)' /\ TasksStage("tasks", c)' /\ EndStage("tasks", c)'
        /\ c.seen # None => c.ver = c.seen.ver
    BY <1>3, <2>1 DEF CodeStage, CodeOf, CodedAs, CronStage, CronOf, TasksStage, TasksOf,
       EndStage, TagsOf, Early, Building, files, lambda
  <2>3. CASE Rebuilt(c)
    BY <1>2, <2>1, <2>2, <2>3 DEF PutStage, CodeStage, CronStage, TasksStage, EndStage, Early, Building
  <2>4. CASE ~ Rebuilt(c)
    <3>1. CodedAs(c.seen.want, c.ver)'
      BY <2>1, <2>2, <2>4 DEF Planned, CodeOf
    <3>. QED
      BY <1>2, <2>1, <2>2, <2>4, <3>1, ToAfterCode
  <2>. QED
    BY <2>3, <2>4
<1>5. w \in Building \ {"accept"}
  BY <1>2 DEF AfterCode, AfterCron, AfterTasks, Building
<1>. QED
  BY <1>3, <1>4, <1>5, OneBuild, OneMoves DEF Place, Building, Deleting, files

LEMMA PackageTidy == ASSUME IInv, Tidy, NEW r \in Req, Package(r) PROVE Tidy'
<1>1. PICK c : c = ctx[r]
  OBVIOUS
<1>2. PICK w : w = IF c.seen = None THEN "create" ELSE "setconf"
  OBVIOUS
<1>3. pc[r] = "package" /\ pc' = [pc EXCEPT ![r] = w] /\ ctx'[r] = c /\ pkg' = c.want.code
      /\ UNCHANGED <<spec, tags, cron, queues, lambda, request>>
  BY <1>1, <1>2 DEF Package, Goto, builds
<1>4. PutStage(w, c)'
  <2>1. Planned(c) /\ CodeStage("package", c) /\ CronStage("package", c)
        /\ TasksStage("package", c) /\ EndStage("package", c)
    BY <1>1, <1>3, OneBuild DEF Building
  <2>2. latest = None <=> c.seen = None
    <3>1. \A x : ImageOf(x) \in Image => ImageOf(x) # None
      BY NoneApart
    <3>2. ASSUME c.seen # None PROVE latest # None
      <4>1. latest = ImageOf(c.seen.want)
        BY <2>1, <3>2 DEF CodeStage, CodeOf, CodedAs
      <4>0. c \in Context
        BY <1>1, <1>3, OneBuild DEF Building
      <4>2. c.seen.want \in Content
        BY <3>2, <4>0, ContextFields DEF Spec0
      <4>3. ImageOf(c.seen.want) \in Image
        BY <4>2 DEF Content, ImageOf, Image
      <4>. QED
        BY <3>1, <4>1, <4>3
    <3>. QED
      BY <2>1, <3>2 DEF CodeStage, CodeOf
  <2>3. CodeStage(w, c)'
    BY <1>2, <1>3, <2>1, <2>2 DEF CodeStage, lambda
  <2>4. CronStage(w, c)' /\ TasksStage(w, c)' /\ EndStage(w, c)'
    BY <1>2, <1>3, <2>1 DEF CronStage, CronOf, TasksStage, TasksOf, EndStage, TagsOf, Early, Building
  <2>. QED
    BY <1>2, <2>1, <2>3, <2>4 DEF PutStage
<1>. QED
  BY <1>2, <1>3, <1>4, OneBuild, OneMoves DEF Place, Building, Deleting

Noted(c, v) == [c EXCEPT !.ver = v, !.pub = v]

\* A build without a fault that publishes: its version is the image, and the last one.
LEMMA PublishedIs ==
  ASSUME IInv, NEW r \in Req, pc[r] \in Building, NEW image \in Image, NEW new \in BOOLEAN,
         NEW collect \in BOOLEAN, NEW next,
         ~ new => latest # None /\ versions[Len(versions)] = image,
         Published(r, image, new, collect, next), clean'
  PROVE  /\ latest' = image /\ pc' = [pc EXCEPT ![r] = next]
         /\ \E v \in Nat : /\ v = Len(versions') /\ versions'[v] = image
                           /\ ctx'[r] = Noted(ctx[r], v)
<1>. DEFINE v == IF new THEN Len(versions) + 1 ELSE Len(versions)
<1>1. versions \in Seq(Image) /\ Len(versions) \in Nat /\ ctx \in [Req -> Context \cup {None}]
      /\ faults \in Nat
  BY ConstantsOK DEF IInv, Versions, Control, Stored
<1>2. faults' = faults /\ faults' # faults + 1
  <2>1. clean' = (clean /\ faults' = faults)
    BY DEF Published
  <2>2. faults' = faults
    BY <2>1
  <2>. QED
    BY <1>1, <2>2
<1>3. Keep(r, Noted(ctx[r], v)) /\ Goto(r, next) /\ latest' = image
  BY <1>2 DEF Published, Noted
<1>4. v \in Nat /\ v = Len(versions') /\ versions'[v] = image
  <2>1. CASE new
    BY <1>1, <2>1 DEF Published
  <2>2. CASE ~ new
    BY <1>1, <2>2 DEF Published
  <2>. QED
    BY <2>1, <2>2
<1>5. ctx'[r] = Noted(ctx[r], v)
  BY <1>1, <1>3 DEF Keep
<1>. HIDE DEF v
<1>. QED
  BY <1>3, <1>4, <1>5 DEF Goto

\* A context after the publication has the plan of the one before.
LEMMA VersionNoted ==
  ASSUME NEW c \in Context, NEW v \in Nat, NEW d, d = Noted(c, v)
  PROVE  /\ d.want = c.want /\ d.seen = c.seen /\ d.build = c.build /\ d.cron = c.cron
         /\ d.queues = c.queues /\ d.todo = c.todo /\ d.ver = v
         /\ AfterCode(d) = AfterCode(c) /\ AfterTasks(d) = AfterTasks(c)
         /\ (Rebuilt(d) <=> Rebuilt(c)) /\ (Planned(d) <=> Planned(c))
<1>1. /\ d.want = c.want /\ d.seen = c.seen /\ d.build = c.build /\ d.cron = c.cron
      /\ d.queues = c.queues /\ d.todo = c.todo /\ d.ver = v
  BY DEF Context, Noted
<1>. QED
  BY <1>1 DEF AfterCode, AfterCron, AfterTasks, Rebuilt, Planned

\* The code is there: the build of new code goes on after it.
LEMMA CodeBuilt ==
  ASSUME IInv, Tidy, NEW r \in Req, pc[r] \in {"create", "setcode"}, clean',
         NEW image \in Image, image = ImageOf(ctx[r].want), pkg = ctx[r].want.code,
         NEW new \in BOOLEAN, ~ new => latest # None /\ versions[Len(versions)] = image,
         NEW collect \in BOOLEAN, Published(r, image, new, collect, AfterCode(ctx[r])),
         UNCHANGED <<files, cron, queues, builds, aged>>
  PROVE  Tidy'
<1>1. PICK c : c = ctx[r]
  OBVIOUS
<1>2. /\ latest' = image /\ pc' = [pc EXCEPT ![r] = AfterCode(c)]
      /\ \E v \in Nat : /\ v = Len(versions') /\ versions'[v] = image
                        /\ ctx'[r] = Noted(c, v)
  <2>1. pc[r] \in Building
    BY DEF Building
  <2>2. PICK next : next = AfterCode(c)
    OBVIOUS
  <2>3. Published(r, image, new, collect, next)
    BY <1>1, <2>2
  <2>4. /\ latest' = image /\ pc' = [pc EXCEPT ![r] = next]
        /\ \E v \in Nat : /\ v = Len(versions') /\ versions'[v] = image
                          /\ ctx'[r] = Noted(ctx[r], v)
    BY <2>1, <2>3, PublishedIs
  <2>. QED
    BY <1>1, <2>2, <2>4
<1>3. PICK v \in Nat : /\ v = Len(versions') /\ versions'[v] = image
                       /\ ctx'[r] = Noted(c, v)
  BY <1>2
<1>4. PICK d : d = Noted(c, v)
  OBVIOUS
<1>5. /\ c \in Context /\ Planned(c) /\ CodeStage(pc[r], c) /\ CronStage(pc[r], c)
      /\ TasksStage(pc[r], c) /\ EndStage(pc[r], c)
      /\ c.build \in BuildPlan /\ c.cron \in CronPlan /\ request = {r}
  BY <1>1, OneBuild DEF Building
<1>6. /\ d.want = c.want /\ d.seen = c.seen /\ d.build = c.build /\ d.cron = c.cron
      /\ d.queues = c.queues /\ d.todo = c.todo /\ d.ver = v
      /\ AfterCode(d) = AfterCode(c) /\ Rebuilt(d) /\ Planned(d)
  <2>1. Rebuilt(c)
    BY <1>5 DEF CodeStage
  <2>2. c \in Context
    BY <1>5
  <2>. QED
    BY <1>4, <1>5, <2>1, <2>2, VersionNoted
<1>7. CodedAs(d.want, d.ver)'
  BY <1>1, <1>2, <1>3, <1>6 DEF CodedAs, files
<1>8. CronOf(d.seen)'
  BY <1>5, <1>6 DEF CronStage, CronOf
<1>9. TasksStage("tasks", d)'
  BY <1>5, <1>6 DEF TasksStage, TasksOf, Early, Building
<1>10. EndStage("tasks", d)'
  BY <1>5, <1>6 DEF EndStage, TagsOf, files
<1>11. PutStage(AfterCode(d), d)'
  BY <1>5, <1>6, <1>7, <1>8, <1>9, <1>10, ToAfterCode
<1>12. AfterCode(c) \in Building \ {"accept"}
  BY DEF AfterCode, AfterCron, AfterTasks, Building
<1>. QED
  BY <1>2, <1>3, <1>4, <1>5, <1>6, <1>11, <1>12, OneBuild, OneMoves
     DEF Place, Building, Deleting, files, builds

LEMMA CreateFunctionTidy ==
  ASSUME IInv, Tidy, clean', NEW r \in Req, CreateFunction(r) PROVE Tidy'
<1>1. pc[r] = "create" /\ ctx[r] \in Context /\ pkg = ctx[r].want.code
  BY OneBuild DEF CreateFunction, CodeStage, Building
<1>2. PICK image : image = [code |-> pkg, conf |-> ctx[r].want.conf]
  OBVIOUS
<1>3. image \in Image /\ image = ImageOf(ctx[r].want)
  <2>1. ctx[r].want \in Content
    BY <1>1, ContextFields
  <2>. QED
    BY <1>1, <1>2, <2>1 DEF Image, ImageOf, Content
<1>. QED
  BY <1>1, <1>2, <1>3, CodeBuilt DEF CreateFunction

LEMMA SetConfTidy == ASSUME IInv, Tidy, NEW r \in Req, SetConf(r) PROVE Tidy'
<1>1. PICK c : c = ctx[r]
  OBVIOUS
<1>2. /\ pc[r] = "setconf" /\ pc' = [pc EXCEPT ![r] = "setcode"] /\ ctx'[r] = c
      /\ latest # None /\ latest' = [latest EXCEPT !.conf = c.want.conf]
      /\ UNCHANGED <<files, cron, queues, versions, live, request>>
  BY <1>1 DEF SetConf, Goto, builds
<1>3. /\ Planned(c) /\ CodeStage("setconf", c) /\ CronStage("setconf", c)
      /\ TasksStage("setconf", c) /\ EndStage("setconf", c) /\ c \in Context
  BY <1>1, <1>2, OneBuild DEF Building
<1>4. latest' # None /\ latest'.conf = c.want.conf
  <2>1. latest \in Image /\ c.want \in Content
    BY <1>2, <1>3, ContextFields DEF IInv, Versions
  <2>2. latest' \in Image /\ latest'.conf = c.want.conf
    BY <1>2, <2>1 DEF Image, Content
  <2>. QED
    BY <2>2, NoneApart
<1>5. PutStage("setcode", c)'
  BY <1>2, <1>3, <1>4 DEF PutStage, CodeStage, CronStage, CronOf, TasksStage, TasksOf, EndStage,
     TagsOf, Building, Early, files
<1>. QED
  BY <1>2, <1>5, OneBuild, OneMoves DEF Place, Building, Deleting, files

LEMMA SetCodeTidy == ASSUME IInv, Tidy, clean', NEW r \in Req, SetCode(r) PROVE Tidy'
<1>1. /\ pc[r] = "setcode" /\ ctx[r] \in Context /\ pkg = ctx[r].want.code
      /\ latest # None /\ latest.conf = ctx[r].want.conf
  BY OneBuild DEF SetCode, CodeStage, Building
<1>2. PICK image : image = [latest EXCEPT !.code = pkg]
  OBVIOUS
<1>3. image \in Image /\ image = ImageOf(ctx[r].want)
  <2>1. ctx[r].want \in Content /\ latest \in Image
    BY <1>1, ContextFields DEF IInv, Versions
  <2>. QED
    BY <1>1, <1>2, <2>1 DEF Image, ImageOf, Content
<1>. QED
  BY <1>1, <1>2, <1>3, CodeBuilt DEF SetCode

LEMMA ClearCronTidy == ASSUME IInv, Tidy, NEW r \in Req, ClearCron(r) PROVE Tidy'
<1>1. PICK c : c = ctx[r]
  OBVIOUS
<1>2. PICK w : w = IF c.cron = "update" THEN "register" ELSE AfterCron(c)
  OBVIOUS
<1>3. /\ pc[r] = "clear" /\ pc' = [pc EXCEPT ![r] = w] /\ ctx'[r] = c /\ cron' = {}
      /\ UNCHANGED <<files, queues, lambda, request>>
  BY <1>1, <1>2 DEF ClearCron, Goto, builds
<1>4. /\ Planned(c) /\ CodeStage("clear", c) /\ CronStage("clear", c)
      /\ TasksStage("clear", c) /\ EndStage("clear", c)
      /\ c.build \in BuildPlan /\ c.cron \in CronPlan
  BY <1>1, <1>3, OneBuild DEF Building
<1>5. /\ CodedAs(IF Rebuilt(c) THEN c.want ELSE c.seen.want, c.ver)'
      /\ TasksStage("tasks", c)' /\ EndStage("tasks", c)'
  BY <1>3, <1>4 DEF CodeStage, CodedAs, TasksStage, TasksOf, EndStage, TagsOf, Early, Building,
     files, lambda
<1>6. PutStage(w, c)'
  <2>1. CASE c.cron = "update"
    BY <1>2, <1>3, <1>4, <1>5, <2>1 DEF PutStage, CodeStage, CronStage, TasksStage, EndStage,
       Early, Building
  <2>2. CASE c.cron # "update"
    <3>1. cron' = KeysOf(c.want)
      BY <1>3, <1>4, <2>2 DEF CronStage, Planned, PlanCron, KeysOf
    <3>. QED
      BY <1>2, <1>4, <1>5, <2>2, <3>1, ToAfterCron
  <2>. QED
    BY <2>1, <2>2
<1>7. w \in Building \ {"accept"}
  BY <1>2 DEF AfterCron, AfterTasks, Building
<1>. QED
  BY <1>3, <1>6, <1>7, OneBuild, OneMoves DEF Place, Building, Deleting, files

LEMMA RegisterCronTidy == ASSUME IInv, Tidy, NEW r \in Req, RegisterCron(r) PROVE Tidy'
<1>1. PICK c : c = ctx[r]
  OBVIOUS
<1>2. PICK w : w = AfterCron(c)
  OBVIOUS
<1>3. /\ pc[r] = "register" /\ pc' = [pc EXCEPT ![r] = w] /\ ctx'[r] = c
      /\ cron' = cron \cup KeysOf(c.want) /\ UNCHANGED <<files, queues, lambda, request>>
  BY <1>1, <1>2 DEF RegisterCron, Goto, builds
<1>4. /\ Planned(c) /\ CodeStage("register", c) /\ CronStage("register", c)
      /\ TasksStage("register", c) /\ EndStage("register", c)
      /\ c.build \in BuildPlan /\ c.cron \in CronPlan
  BY <1>1, <1>3, OneBuild DEF Building
<1>5. /\ CodedAs(IF Rebuilt(c) THEN c.want ELSE c.seen.want, c.ver)'
      /\ TasksStage("tasks", c)' /\ EndStage("tasks", c)'
  BY <1>3, <1>4 DEF CodeStage, CodedAs, TasksStage, TasksOf, EndStage, TagsOf, Early, Building,
     files, lambda
<1>6. PutStage(w, c)'
  BY <1>2, <1>3, <1>4, <1>5, ToAfterCron DEF CronStage
<1>7. w \in Building \ {"accept"}
  BY <1>2 DEF AfterCron, AfterTasks, Building
<1>. QED
  BY <1>3, <1>6, <1>7, OneBuild, OneMoves DEF Place, Building, Deleting, files

LEMMA ImageTypes ==
  ASSUME NEW w \in Content
  PROVE  ImageOf(w) \in Image /\ ImageOf(w) # None /\ w.code \in Code /\ w.code # None
<1>1. ImageOf(w) \in Image /\ w.code \in Code
  BY DEF Content, ImageOf, Image
<1>. QED
  BY <1>1, NoneApart

\* What a build needs is there, and is not there twice, as long as nobody else is at it.
LEMMA NotMissing ==
  ASSUME IInv, Tidy, NEW r \in Req PROVE ~ TurnAround(r) /\ ~ Missing(r)
<1>1. ASSUME TurnAround(r) PROVE FALSE
  <2>1. pc[r] \in {"create", "setconf", "setcode"}
    BY <1>1 DEF TurnAround
  <2>2. CodeStage(pc[r], ctx[r])
    BY <2>1, OneBuild DEF Building
  <2>. QED
    BY <1>1, <2>2 DEF TurnAround, CodeStage
<1>2. ASSUME Missing(r) PROVE FALSE
  <2>1. pc[r] \in {"create", "setcode", "changeconf", "publish"}
    BY <1>2 DEF Missing
  <2>2. CodeStage(pc[r], ctx[r]) /\ Planned(ctx[r]) /\ ctx[r] \in Context
    BY <2>1, OneBuild DEF Building
  <2>3. ctx[r].want \in Content /\ ctx[r].seen \in Spec0 \cup {None}
    BY <2>2, ContextFields
  <2>4. CASE pc[r] \in {"create", "setcode"}
    BY <1>2, <2>2, <2>3, <2>4, ImageTypes DEF Missing, CodeStage
  <2>5. CASE pc[r] = "publish"
    BY <1>2, <2>2, <2>3, <2>5, ImageTypes DEF Missing, CodeStage
  <2>6. CASE pc[r] = "changeconf"
    <3>1. ctx[r].seen # None /\ latest = ImageOf(ctx[r].seen.want)
      BY <2>2, <2>6 DEF CodeStage, CodedAs, Planned, Rebuilt
    <3>2. ctx[r].seen.want \in Content
      BY <2>3, <3>1 DEF Spec0
    <3>. QED
      BY <1>2, <2>6, <3>1, <3>2, ImageTypes DEF Missing
  <2>. QED
    BY <2>1, <2>4, <2>5, <2>6
<1>. QED
  BY <1>1, <1>2

\* The queues after an update are the ones it records.  A queue that is dropped is the
\* queue of another route than any that stays, for it bears its route's name.
QueuesFor(r, c) ==
  [t \in c.want.tasks |-> IF t \in OldTasks(c.seen) THEN c.seen.queues[t] ELSE <<r, t>>]

LEMMA QueuesUpdated ==
  ASSUME NEW r, NEW c, NEW q, c = ctx[r], q = QueuesFor(r, c),
         Recorded(c.seen), c.seen # None => NamedAs(c.seen.queues), TasksOf(c.seen)
  PROVE  NamedAs(q) /\ (queues \ ToDrop(r)) \cup ToAdd(r) = {q[t] : t \in c.want.tasks}
<1>. DEFINE drop == ToDrop(r)
            add  == ToAdd(r)
<1>0. /\ drop = IF c.seen = None THEN {}
                ELSE {c.seen.queues[t] : t \in OldTasks(c.seen) \ c.want.tasks}
      /\ add = {<<r, t>> : t \in c.want.tasks \ OldTasks(c.seen)}
      /\ queues = (IF c.seen = None THEN {} ELSE {c.seen.queues[t] : t \in c.seen.want.tasks})
      /\ q = [t \in c.want.tasks |-> IF t \in OldTasks(c.seen) THEN c.seen.queues[t] ELSE <<r, t>>]
  BY DEF ToDrop, ToAdd, TasksOf, QueuesFor
<1>. HIDE DEF drop, add
<1>. SUFFICES NamedAs(q) /\ (queues \ drop) \cup add = {q[t] : t \in c.want.tasks}
  BY DEF drop, add
<1>1. CASE c.seen = None
  BY <1>0, <1>1 DEF OldTasks, NamedAs
<1>2. CASE c.seen # None
  <2>1. /\ OldTasks(c.seen) = c.seen.want.tasks /\ DOMAIN c.seen.queues = OldTasks(c.seen)
        /\ \A t \in OldTasks(c.seen) : c.seen.queues[t][2] = t
    BY <1>2 DEF OldTasks, Recorded, NamedAs
  <2>2. NamedAs(q)
    BY <1>0, <2>1 DEF NamedAs
  <2>3. ASSUME NEW x \in (queues \ drop) \cup add PROVE x \in {q[t] : t \in c.want.tasks}
    <3>1. CASE x \in add
      BY <1>0, <3>1
    <3>2. CASE x \in queues \ drop
      <4>1. PICK t \in OldTasks(c.seen) : x = c.seen.queues[t]
        <5>1. queues = {c.seen.queues[t] : t \in OldTasks(c.seen)}
          BY <1>0, <1>2, <2>1
        <5>. QED
          BY <3>2, <5>1
      <4>2. t \in c.want.tasks
        <5>1. drop = {c.seen.queues[u] : u \in OldTasks(c.seen) \ c.want.tasks}
          BY <1>0, <1>2
        <5>. QED
          BY <3>2, <4>1, <5>1
      <4>. QED
        BY <1>0, <4>1, <4>2
    <3>. QED
      BY <3>1, <3>2
  <2>4. ASSUME NEW t \in c.want.tasks PROVE q[t] \in (queues \ drop) \cup add
    <3>1. CASE t \in OldTasks(c.seen)
      <4>1. q[t] = c.seen.queues[t] /\ q[t] \in queues
        <5>1. queues = {c.seen.queues[u] : u \in OldTasks(c.seen)}
          BY <1>0, <1>2, <2>1
        <5>2. q[t] = c.seen.queues[t]
          BY <1>0, <3>1
        <5>. QED
          BY <3>1, <5>1, <5>2
      <4>2. ASSUME q[t] \in drop PROVE FALSE
        <5>1. PICK u \in OldTasks(c.seen) \ c.want.tasks : q[t] = c.seen.queues[u]
          BY <1>0, <1>2, <4>2
        <5>2. q[t][2] = u /\ q[t][2] = t
          BY <2>1, <3>1, <4>1, <5>1
        <5>. QED
          BY <5>1, <5>2
      <4>. QED
        BY <4>1, <4>2
    <3>2. CASE t \notin OldTasks(c.seen)
      BY <1>0, <3>2
    <3>. QED
      BY <3>1, <3>2
  <2>. QED
    BY <2>2, <2>3, <2>4
<1>. QED
  BY <1>1, <1>2

LEMMA UpdateTasksTidy == ASSUME IInv, Tidy, NEW r \in Req, UpdateTasks(r) PROVE Tidy'
<1>1. PICK c : c = ctx[r]
  OBVIOUS
<1>2. PICK q : q = QueuesFor(r, c)
  OBVIOUS
<1>3. PICK d : d = [c EXCEPT !.queues = q]
  OBVIOUS
<1>4. /\ pc[r] = "tasks" /\ pc' = [pc EXCEPT ![r] = AfterTasks(c)]
      /\ queues' = (queues \ ToDrop(r)) \cup ToAdd(r)
      /\ UNCHANGED <<files, cron, lambda, request>>
  BY <1>1 DEF UpdateTasks, Goto, builds
<1>5. /\ Planned(c) /\ CodeStage("tasks", c) /\ CronStage("tasks", c)
      /\ TasksStage("tasks", c) /\ EndStage("tasks", c)
      /\ c.build \in BuildPlan /\ c \in Context /\ Recorded(c.seen)
  BY <1>1, <1>4, OneBuild, InBuild DEF Building
<1>6. ctx'[r] = d
  <2>1. ctx \in [Req -> Context \cup {None}]
    BY DEF IInv, Control
  <2>. QED
    BY <1>1, <1>2, <1>3, <2>1 DEF UpdateTasks, Keep, QueuesFor
<1>7. /\ d.want = c.want /\ d.seen = c.seen /\ d.build = c.build /\ d.cron = c.cron
      /\ d.todo = c.todo /\ d.ver = c.ver /\ d.queues = q
  BY <1>3, <1>5 DEF Context
<1>8. NamedAs(d.queues) /\ queues' = {d.queues[t] : t \in d.want.tasks}
  <2>1. TasksOf(c.seen) /\ (c.seen # None => NamedAs(c.seen.queues))
    BY <1>5 DEF TasksStage, EndStage, Early, Building
  <2>2. NamedAs(q) /\ (queues \ ToDrop(r)) \cup ToAdd(r) = {q[t] : t \in c.want.tasks}
    BY <1>1, <1>2, <1>5, <2>1, QueuesUpdated
  <2>. QED
    BY <1>4, <1>7, <2>2
<1>9. /\ CodedAs(IF Rebuilt(d) THEN d.want ELSE d.seen.want, d.ver)'
      /\ EndStage("tasks", d)' /\ Planned(d) /\ cron' = KeysOf(d.want)
  BY <1>4, <1>5, <1>7 DEF CodeStage, CodedAs, CronStage, EndStage, TagsOf, Planned, Rebuilt,
     files, lambda
<1>10. PutStage(AfterTasks(d), d)'
  BY <1>5, <1>7, <1>8, <1>9, ToAfterTasks
<1>11. AfterTasks(d) = AfterTasks(c) /\ AfterTasks(d) \in Building \ {"accept"}
  BY <1>7 DEF AfterTasks, Building
<1>. QED
  BY <1>4, <1>6, <1>10, <1>11, OneBuild, OneMoves DEF Place, Building, Deleting, files

LEMMA ChangeConfTidy == ASSUME IInv, Tidy, NEW r \in Req, ChangeConf(r) PROVE Tidy'
<1>1. PICK c : c = ctx[r]
  OBVIOUS
<1>2. /\ pc[r] = "changeconf" /\ pc' = [pc EXCEPT ![r] = "publish"] /\ ctx'[r] = c
      /\ latest' = [latest EXCEPT !.conf = c.want.conf]
      /\ UNCHANGED <<files, cron, queues, versions, live, request>>
  BY <1>1 DEF ChangeConf, Goto, builds
<1>3. /\ Planned(c) /\ CodeStage("changeconf", c) /\ CronStage("changeconf", c)
      /\ TasksStage("changeconf", c) /\ EndStage("changeconf", c) /\ c \in Context
  BY <1>1, <1>2, OneBuild DEF Building
<1>4. pkg' = c.want.code /\ latest' = ImageOf(c.want)
  <2>1. /\ pkg = c.seen.want.code /\ latest = ImageOf(c.seen.want)
        /\ c.want.code = c.seen.want.code
    BY <1>3 DEF CodeStage, CodedAs, Planned, Rebuilt
  <2>. QED
    BY <1>2, <2>1 DEF ImageOf, files
<1>5. PutStage("publish", c)'
  BY <1>2, <1>3, <1>4 DEF PutStage, CodeStage, CronStage, TasksStage, EndStage,
     TagsOf, Building, Early, files
<1>. QED
  BY <1>2, <1>5, OneBuild, OneMoves DEF Place, Building, Deleting, files

LEMMA PublishConfTidy == ASSUME IInv, Tidy, clean', NEW r \in Req, PublishConf(r) PROVE Tidy'
<1>1. PICK c : c = ctx[r]
  OBVIOUS
<1>2. pc[r] = "publish" /\ pc[r] \in Building /\ UNCHANGED <<files, cron, queues, builds, aged>>
  BY DEF PublishConf, Building
<1>3. /\ c \in Context /\ Planned(c) /\ CodeStage("publish", c) /\ CronStage("publish", c)
      /\ TasksStage("publish", c) /\ EndStage("publish", c) /\ request = {r}
  BY <1>1, <1>2, OneBuild
<1>4. PICK image, next : image = latest /\ next = "final"
  OBVIOUS
<1>new. PICK new \in BOOLEAN : new <=> latest # versions[Len(versions)]
  OBVIOUS
<1>collect. PICK collect \in BOOLEAN : collect <=> TRUE
  OBVIOUS
<1>5. /\ image \in Image /\ (~ new => latest # None /\ versions[Len(versions)] = image)
      /\ Published(r, image, new, collect, next)
  <2>1. latest # None /\ latest \in Image /\ new = (latest # versions[Len(versions)]) /\ collect = TRUE
    BY <1>new, <1>collect DEF PublishConf, IInv, Versions
  <2>2. Published(r, latest, latest # versions[Len(versions)], TRUE, "final")
    BY DEF PublishConf
  <2>. QED
    BY <1>4, <2>1, <2>2
<1>6. /\ latest' = image /\ pc' = [pc EXCEPT ![r] = next]
      /\ \E v \in Nat : v = Len(versions') /\ versions'[v] = image /\ ctx'[r] = Noted(c, v)
  BY <1>1, <1>2, <1>5, PublishedIs
<1>7. PICK v \in Nat : v = Len(versions') /\ versions'[v] = image /\ ctx'[r] = Noted(c, v)
  BY <1>6
<1>8. PICK d : d = Noted(c, v)
  OBVIOUS
<1>9. /\ d.want = c.want /\ d.seen = c.seen /\ d.queues = c.queues /\ d.todo = c.todo /\ d.ver = v
      /\ Planned(d)
  BY <1>3, <1>8, VersionNoted
<1>10. CodeStage("final", d)'
  BY <1>2, <1>3, <1>4, <1>6, <1>7, <1>9 DEF CodeStage, CodedAs, files
<1>11. CronStage("final", d)' /\ TasksStage("final", d)' /\ EndStage("final", d)'
  BY <1>2, <1>3, <1>9 DEF CronStage, TasksStage, EndStage, Early, Building
<1>. QED
  BY <1>2, <1>3, <1>4, <1>6, <1>7, <1>8, <1>9, <1>10, <1>11, OneBuild, OneMoves
     DEF PutStage, Place, Building, Deleting, files, builds

LEMMA FinalizeTidy ==
  ASSUME IInv, Tidy, NEW r \in Req, NEW what \in {"spec", "tags"}, Finalize(r, what) PROVE Tidy'
<1>1. PICK c : c = ctx[r]
  OBVIOUS
<1>2. PICK w : w = IF c.todo = {what} THEN "report" ELSE "final"
  OBVIOUS
<1>3. PICK d : d = [c EXCEPT !.todo = c.todo \ {what}]
  OBVIOUS
<1>4. PICK s : s = [want |-> c.want, ver |-> c.ver, queues |-> c.queues]
  OBVIOUS
<1>5. /\ pc[r] = "final" /\ what \in c.todo /\ pc' = [pc EXCEPT ![r] = w]
      /\ spec' = (IF what = "spec" THEN s ELSE spec) /\ tags' = (IF what = "tags" THEN c.ver ELSE tags)
      /\ UNCHANGED <<pkg, cron, queues, lambda, request>>
  BY <1>1, <1>2, <1>4 DEF Finalize, SpecOf, Goto, builds
<1>6. ctx'[r] = d
  <2>1. ctx \in [Req -> Context \cup {None}]
    BY DEF IInv, Control
  <2>. QED
    BY <1>1, <1>3, <2>1 DEF Finalize, Keep
<1>7. /\ Planned(c) /\ CodeStage("final", c) /\ CronStage("final", c)
      /\ TasksStage("final", c) /\ EndStage("final", c) /\ c \in Context /\ request = {r}
      /\ spec # None => NamedAs(spec.queues)
  BY <1>1, <1>5, OneBuild DEF Building
<1>8. /\ CodedAs(c.want, c.ver)' /\ cron' = KeysOf(c.want)
      /\ NamedAs(c.queues) /\ queues' = {c.queues[t] : t \in c.want.tasks}
  BY <1>5, <1>7 DEF CodeStage, CodedAs, CronStage, TasksStage, lambda
<1>9. c.todo \subseteq {"spec", "tags"} /\ ("spec" \in c.todo \/ spec = s) /\ ("tags" \in c.todo \/ tags = c.ver)
  BY <1>4, <1>7 DEF EndStage
<1>10. s # None /\ s.want = c.want /\ s.ver = c.ver /\ s.queues = c.queues
  <2>1. s \in Spec0
    BY <1>4, <1>7, ContextFields DEF Spec0
  <2>. QED
    BY <1>4, <2>1, NoneApart
<1>11. spec' # None => NamedAs(spec'.queues)
  BY <1>5, <1>7, <1>8, <1>10
<1>12. CASE c.todo = {what}
  <2>1. w = "report" /\ spec' = s /\ tags' = c.ver /\ d.want = c.want
    BY <1>2, <1>3, <1>5, <1>7, <1>9, <1>12 DEF Context
  <2>2. AtRest(spec)'
    BY <1>8, <1>10, <2>1 DEF AtRest, CodeOf, CronOf, TasksOf, TagsOf
  <2>. QED
    BY <1>5, <1>6, <1>7, <1>10, <1>11, <2>1, <2>2, OneBuild, OneMoves
       DEF PutStage, Place, Building, Deleting
<1>13. CASE c.todo # {what}
  <2>1. /\ d.want = c.want /\ d.seen = c.seen /\ d.build = c.build /\ d.cron = c.cron
        /\ d.ver = c.ver /\ d.queues = c.queues /\ d.todo = c.todo \ {what}
    BY <1>3, <1>7 DEF Context
  <2>2. CodeStage("final", d)' /\ CronStage("final", d)' /\ TasksStage("final", d)'
    BY <1>8, <2>1 DEF CodeStage, CronStage, TasksStage, Early, Building
  <2>3. EndStage("final", d)'
    <3>1. d.todo # {} /\ d.todo \subseteq {"spec", "tags"}
      BY <1>5, <1>9, <1>13, <2>1
    <3>2. ("spec" \in d.todo \/ spec' = s) /\ ("tags" \in d.todo \/ tags' = c.ver)
      BY <1>5, <1>9, <2>1
    <3>. QED
      BY <1>4, <2>1, <3>1, <3>2 DEF EndStage
  <2>4. Planned(d)
    BY <1>7, <2>1 DEF Planned, Rebuilt
  <2>5. w = "final"
    BY <1>2, <1>13
  <2>. QED
    BY <1>5, <1>6, <1>7, <1>11, <2>2, <2>3, <2>4, <2>5, OneBuild, OneMoves
       DEF PutStage, Place, Building, Deleting
<1>. QED
  BY <1>12, <1>13

LEMMA ReportTidy == ASSUME IInv, Tidy, NEW r \in Req, Report(r) PROVE Tidy'
<1>1. /\ pc[r] = "report" /\ pc' = [pc EXCEPT ![r] = "done"] /\ request' = request \ {r}
      /\ UNCHANGED <<files, cron, queues, lambda>>
  BY DEF Report, Leave, Goto
<1>2. /\ AtRest(spec) /\ request = {r} /\ (\A s \in Req : s # r => Idle(s)) /\ Control
      /\ spec # None => NamedAs(spec.queues)
  BY <1>1, OnlyOne DEF IInv, PutStage, Building
<1>3. AtRest(spec)' /\ request' = {} /\ spec' = spec
  <2>1. UNCHANGED <<spec, pkg, tags, cron, queues, latest, versions, live>>
    BY <1>1 DEF files, lambda
  <2>. QED
    BY <1>1, <1>2, <2>1 DEF AtRest, CodeOf, CodedAs, CronOf, TasksOf, TagsOf
<1>4. PICK c : c = ctx'[r]
  OBVIOUS
<1>. QED
  BY <1>1, <1>2, <1>3, <1>4, OneMoves DEF Place, Over, Building, Deleting

\* A deletion at one of its stages.
LEMMA OneDelete ==
  ASSUME IInv, Tidy, NEW r \in Req, pc[r] \in Deleting
  PROVE  /\ Control /\ (\A s \in Req : s # r => Idle(s)) /\ DeleteStage(pc[r], ctx[r])
         /\ spec # None => NamedAs(spec.queues)
BY OnlyOne DEF IInv

LEMMA DeleteCronTidy ==
  ASSUME IInv, CleanTidy, clean', NEW r \in Req, DeleteCron(r) PROVE Tidy'
<1>1. Tidy /\ (\A q \in Req : Idle(q)) /\ Control
  BY DEF CleanTidy, DeleteCron, Arrives, IInv
<1>2. request = {} /\ AtRest(spec) /\ (spec # None => NamedAs(spec.queues))
  BY <1>1 DEF Tidy
<1>3. PICK c : c = ctx[r]
  OBVIOUS
<1>4. /\ pc' = [pc EXCEPT ![r] = "read"] /\ ctx'[r] = c /\ cron' = {}
      /\ UNCHANGED <<files, queues, request>>
  BY <1>3 DEF DeleteCron, Goto, builds
<1>5. DeleteStage("read", c)'
  BY <1>2, <1>4 DEF DeleteStage, AtRest, TasksOf, TagsOf, files
<1>. QED
  BY <1>1, <1>2, <1>4, <1>5, OneMoves DEF Place, Building, Deleting, files

LEMMA ReadSpecTidy == ASSUME IInv, Tidy, NEW r \in Req, ReadSpec(r) PROVE Tidy'
<1>1. /\ pc[r] = "read" /\ pc[r] \in Deleting /\ UNCHANGED <<files, cron, queues, request>>
  BY DEF ReadSpec, Deleting, builds
<1>2. request = {} /\ cron = {} /\ TasksOf(spec) /\ TagsOf(spec)
  BY <1>1, OneDelete DEF DeleteStage
<1>3. CASE spec = None
  <2>1. PICK c : c = ctx'[r]
    OBVIOUS
  <2>2. pc' = [pc EXCEPT ![r] = "deltags"] /\ DeleteStage("deltags", c)'
    BY <1>1, <1>2, <1>3 DEF ReadSpec, Goto, DeleteStage, TasksOf
  <2>. QED
    BY <1>1, <2>1, <2>2, OneDelete, OneMoves DEF Place, Building, Deleting, files
<1>4. CASE spec # None
  <2>1. PICK c : c = PlanFor(spec.want, spec, FALSE)
    OBVIOUS
  <2>2. c.queues = spec.queues /\ Recorded(spec) /\ ctx \in [Req -> Context \cup {None}]
        /\ spec \in Spec0
    BY <1>4, <2>1 DEF PlanFor, IInv, Stored, Control
  <2>3. pc' = [pc EXCEPT ![r] = "delqueues"] /\ ctx'[r] = c
    BY <1>4, <2>1, <2>2 DEF ReadSpec, Goto, Keep
  <2>4. tags' # None /\ queues' = {c.queues[t] : t \in DOMAIN c.queues}
    <3>1. tags = spec.ver /\ queues = {spec.queues[t] : t \in spec.want.tasks}
      BY <1>2, <1>4 DEF TasksOf, TagsOf
    <3>2. spec.ver \in Nat /\ DOMAIN spec.queues = spec.want.tasks
      BY <1>4, <2>2 DEF Spec0, Recorded
    <3>. QED
      BY <1>1, <2>2, <3>1, <3>2, NoneApart DEF files
  <2>5. DeleteStage("delqueues", c)'
    BY <1>1, <1>2, <2>4 DEF DeleteStage
  <2>. QED
    BY <1>1, <2>3, <2>5, OneDelete, OneMoves DEF Place, Building, Deleting, files
<1>. QED
  BY <1>3, <1>4

LEMMA DeleteQueuesTidy == ASSUME IInv, Tidy, NEW r \in Req, DeleteQueues(r) PROVE Tidy'
<1>1. pc[r] = "delqueues" /\ pc[r] \in Deleting /\ UNCHANGED <<files, cron, request>>
  BY DEF DeleteQueues, Deleting, builds
<1>2. /\ request = {} /\ cron = {} /\ tags # None
      /\ queues = {ctx[r].queues[t] : t \in DOMAIN ctx[r].queues}
  BY <1>1, OneDelete DEF DeleteStage
<1>3. PICK c : c = ctx'[r]
  OBVIOUS
<1>4. pc' = [pc EXCEPT ![r] = "deltags"] /\ queues' = {}
  BY <1>2 DEF DeleteQueues, Leave, Goto
<1>5. DeleteStage("deltags", c)'
  BY <1>1, <1>2, <1>4 DEF DeleteStage
<1>. QED
  BY <1>1, <1>3, <1>4, <1>5, OneDelete, OneMoves DEF Place, Building, Deleting, files

LEMMA DeleteFilesTidy ==
  ASSUME IInv, Tidy, NEW r \in Req, DeleteTags(r) \/ DeletePackage(r) \/ DeleteSpec(r) PROVE Tidy'
<1>1. PICK c : c = ctx[r]
  OBVIOUS
<1>2. pc[r] \in Deleting /\ ctx'[r] = c /\ UNCHANGED <<cron, queues, request>>
  BY <1>1 DEF DeleteTags, DeletePackage, DeleteSpec, Deleting, builds
<1>3. DeleteStage(pc[r], c)
  BY <1>1, <1>2, OneDelete
<1>4. CASE DeleteTags(r)
  <2>1. pc[r] = "deltags" /\ pc' = [pc EXCEPT ![r] = "delpkg"] /\ tags' = None /\ spec' = spec
    BY <1>4 DEF DeleteTags, Goto
  <2>2. DeleteStage("delpkg", c)'
    BY <1>2, <1>3, <2>1 DEF DeleteStage
  <2>. QED
    BY <1>2, <2>1, <2>2, OneDelete, OneMoves DEF Place, Building, Deleting
<1>5. CASE DeletePackage(r)
  <2>1. pc[r] = "delpkg" /\ pc' = [pc EXCEPT ![r] = "delspec"] /\ pkg' = None
        /\ tags' = tags /\ spec' = spec
    BY <1>5 DEF DeletePackage, Goto
  <2>2. DeleteStage("delspec", c)'
    BY <1>2, <1>3, <2>1 DEF DeleteStage
  <2>. QED
    BY <1>2, <2>1, <2>2, OneDelete, OneMoves DEF Place, Building, Deleting
<1>6. CASE DeleteSpec(r)
  <2>1. pc[r] = "delspec" /\ pc' = [pc EXCEPT ![r] = "delfun"] /\ spec' = None
        /\ tags' = tags /\ pkg' = pkg
    BY <1>6 DEF DeleteSpec, Goto
  <2>2. DeleteStage("delfun", c)'
    BY <1>2, <1>3, <2>1 DEF DeleteStage
  <2>. QED
    BY <1>2, <2>1, <2>2, OneDelete, OneMoves DEF Place, Building, Deleting
<1>. QED
  BY <1>4, <1>5, <1>6

LEMMA DeleteFunctionTidy == ASSUME IInv, Tidy, NEW r \in Req, DeleteFunction(r) PROVE Tidy'
<1>1. PICK c : c = ctx[r]
  OBVIOUS
<1>2. /\ pc[r] = "delfun" /\ pc[r] \in Deleting /\ pc' = [pc EXCEPT ![r] = "done"] /\ ctx'[r] = c
      /\ latest' = None /\ live' = {} /\ UNCHANGED <<files, cron, queues, request>>
  BY <1>1 DEF DeleteFunction, Goto, Deleting, builds
<1>3. spec = None /\ pkg = None /\ tags = None /\ queues = {} /\ cron = {} /\ request = {}
  BY <1>2, OneDelete DEF DeleteStage
<1>4. AtRest(spec)' /\ request' = {} /\ spec' = None
  BY <1>2, <1>3 DEF AtRest, CodeOf, CronOf, TasksOf, TagsOf, files
<1>. QED
  BY <1>2, <1>4, OneDelete, OneMoves DEF Place, Over, Building, Deleting

\* Time and garbage collections touch nothing of it: no version comes back.
LEMMA TimeTidy ==
  ASSUME Tidy, live' \subseteq live,
         UNCHANGED <<spec, pkg, tags, cron, queues, latest, versions, request, pc, ctx>>
  PROVE  Tidy'
<1>1. \A s : CodeOf(s) => CodeOf(s)'
  BY DEF CodeOf, CodedAs
<1>2. AtRest(spec) => AtRest(spec)'
  BY <1>1 DEF AtRest, CronOf, TasksOf, TagsOf
<1>3. ASSUME NEW p, NEW c, PutStage(p, c) PROVE PutStage(p, c)'
  <2>1. CodeStage(p, c) => CodeStage(p, c)'
    BY <1>1 DEF CodeStage, CodedAs
  <2>2. CronStage(p, c) => CronStage(p, c)'
    BY DEF CronStage, CronOf
  <2>3. TasksStage(p, c) => TasksStage(p, c)'
    BY DEF TasksStage, TasksOf
  <2>4. EndStage(p, c) => EndStage(p, c)'
    BY DEF EndStage, TagsOf
  <2>. QED
    BY <1>2, <1>3, <2>1, <2>2, <2>3, <2>4 DEF PutStage
<1>4. ASSUME NEW p, NEW c, DeleteStage(p, c) PROVE DeleteStage(p, c)'
  BY <1>4 DEF DeleteStage, TasksOf, TagsOf
<1>5. ASSUME NEW r \in Req PROVE StageOf(r)'
  <2>1. PICK p, c : p = pc[r] /\ c = ctx[r] /\ p = pc'[r] /\ c = ctx'[r]
    OBVIOUS
  <2>2. StageOf(r)
    BY DEF Tidy
  <2>. QED
    BY <1>3, <1>4, <2>1, <2>2 DEF StageOf
<1>. QED
  BY <1>2, <1>5 DEF Tidy, Idle, NamedAs

LEMMA InitTidy == Init => CleanTidy
<1>. SUFFICES ASSUME Init PROVE Tidy
  BY DEF CleanTidy
<1>1. request = {} /\ \A r \in Req : pc[r] = "idle"
  BY DEF Init
<1>2. \A r \in Req : Idle(r) /\ StageOf(r)
  BY <1>1 DEF Idle, StageOf, Building, Deleting
<1>3. PICK d \in Deployed \cup {None} :
       IF d = None
       THEN /\ spec = None /\ pkg = None /\ tags = None /\ latest = None
            /\ cron = {} /\ queues = {} /\ versions = <<>> /\ live = {}
            /\ aged = 0 /\ timers = {}
       ELSE /\ spec = [want |-> d, ver |-> 1, queues |-> [t \in d.tasks |-> <<None, t>>]]
            /\ pkg = d.code /\ tags = 1 /\ latest = ImageOf(d)
            /\ cron = KeysOf(d) /\ queues = {None} \X d.tasks
            /\ versions = <<ImageOf(d)>> /\ live = {1}
            /\ aged = 0 /\ timers = {1}
  BY DEF Init
<1>4. CASE d = None
  BY <1>1, <1>2, <1>3, <1>4 DEF Tidy, AtRest, CodeOf, CronOf, TasksOf, TagsOf
<1>5. CASE d # None
  <2>1. /\ spec.want = d /\ spec.ver = 1 /\ spec.queues = [t \in d.tasks |-> <<None, t>>]
        /\ spec # None
    <3>1. spec \in Spec0 \cup {None}
      BY InitInv DEF IInv, Stored
    <3>2. d \in Content
      BY <1>5, ConstantsOK
    <3>3. spec = [want |-> d, ver |-> 1, queues |-> [t \in d.tasks |-> <<None, t>>]]
      BY <1>3, <1>5
    <3>4. [t \in d.tasks |-> <<None, t>>] \in QueuesOf
      BY <3>2 DEF QueuesOf, Queue, Content
    <3>5. spec \in Spec0
      BY <3>2, <3>3, <3>4 DEF Spec0
    <3>. QED
      BY <3>3, <3>5, NoneApart
  <2>2. CodeOf(spec)
    BY <1>3, <1>5, <2>1 DEF CodeOf, CodedAs
  <2>3. CronOf(spec) /\ TagsOf(spec)
    BY <1>3, <1>5, <2>1 DEF CronOf, TagsOf
  <2>4. TasksOf(spec) /\ NamedAs(spec.queues)
    <3>1. queues = {None} \X d.tasks
      BY <1>3, <1>5
    <3>2. \A x : x \in {None} \X d.tasks <=> \E t \in d.tasks : x = <<None, t>>
      OBVIOUS
    <3>3. {spec.queues[t] : t \in spec.want.tasks} = {<<None, t>> : t \in d.tasks}
      BY <2>1
    <3>4. queues = {spec.queues[t] : t \in spec.want.tasks}
      BY <3>1, <3>2, <3>3
    <3>. QED
      BY <2>1, <3>4 DEF TasksOf, NamedAs
  <2>. QED
    BY <1>1, <1>2, <2>1, <2>2, <2>3, <2>4 DEF Tidy, AtRest
<1>. QED
  BY <1>4, <1>5

LEMMA NextTidy == IInv /\ CleanTidy /\ [Next]_vars => CleanTidy'
<1>. SUFFICES ASSUME IInv, CleanTidy, [Next]_vars, clean' PROVE Tidy'
  BY DEF CleanTidy
<1>1. CASE UNCHANGED vars
  <2>1. UNCHANGED <<spec, pkg, tags, cron, queues, latest, versions, live, request, pc, ctx, clean>>
    BY <1>1 DEF vars, files, lambda, builds, told
  <2>. QED
    BY <2>1, TimeTidy DEF CleanTidy
<1>2. ASSUME NEW r \in Req, Plan(r) \/ DeleteCron(r) PROVE Tidy'
  BY <1>2, PlanTidy, DeleteCronTidy
<1>3. ASSUME NEW r \in Req, Put(r) PROVE Tidy'
  <2>1. clean
    <3>1. (clean' = clean) \/ (clean' = (clean /\ faults' = faults))
      BY <1>3 DEF Put, Accept, Start, Package, CreateFunction, SetConf, SetCode, TurnAround, Missing,
         ClearCron, RegisterCron, UpdateTasks, ChangeConf, PublishConf, SaveSpec, SaveTags, Finalize,
         Report, Published, told
    <3>. QED
      BY <3>1
  <2>2. Tidy
    BY <2>1 DEF CleanTidy
  <2>. QED
    BY <1>3, <2>2, AcceptTidy, StartTidy, PackageTidy, CreateFunctionTidy, SetConfTidy, SetCodeTidy,
       NotMissing, ClearCronTidy, RegisterCronTidy, UpdateTasksTidy, ChangeConfTidy, PublishConfTidy,
       FinalizeTidy, ReportTidy DEF Put, SaveSpec, SaveTags
<1>4. ASSUME NEW r \in Req, Delete(r) PROVE Tidy'
  <2>1. clean
    BY <1>4 DEF Delete, ReadSpec, DeleteQueues, DeleteTags, DeletePackage, DeleteSpec,
       DeleteFunction, told
  <2>2. Tidy
    BY <2>1 DEF CleanTidy
  <2>. QED
    BY <1>4, <2>2, ReadSpecTidy, DeleteQueuesTidy, DeleteFilesTidy, DeleteFunctionTidy DEF Delete
<1>5. ASSUME NEW r \in Req, Breaks(r) PROVE Tidy'
  BY <1>5 DEF Breaks, StageThrows, TasksThrow, AcceptThrows, EndThrows, DeleteThrows, Crash, Fault
<1>6. ASSUME Age PROVE Tidy'
  <2>1. UNCHANGED <<spec, pkg, tags, cron, queues, latest, versions, live, request, pc, ctx, clean>>
    BY <1>6 DEF Age, files, lambda, builds
  <2>. QED
    BY <2>1, TimeTidy DEF CleanTidy
<1>7. ASSUME NEW v, Collect(v) PROVE Tidy'
  <2>1. /\ UNCHANGED <<spec, pkg, tags, cron, queues, latest, versions, request, pc, ctx, clean>>
        /\ live' \subseteq live
    BY <1>7 DEF Collect, files, builds, told
  <2>. QED
    BY <2>1, TimeTidy DEF CleanTidy
<1>. QED
  BY <1>1, <1>2, <1>3, <1>4, <1>5, <1>6, <1>7 DEF Next

\* After requests that neither overlapped nor failed, the specification, the package,
\* $LATEST and the recorded version, the schedule, the queues and the tags agree, and a
\* deleted function leaves nothing: whatever was built before and in whatever order, the
\* stages that compute_build_plan_core skips would have changed nothing.
THEOREM RestsConsistent == Spec => []AtRestConsistent
<1>1. IInv /\ CleanTidy => AtRestConsistent
  <2>. SUFFICES ASSUME IInv, CleanTidy, clean, \A r \in Req : Idle(r)
                PROVE  /\ request = {}
                       /\ IF spec = None
                          THEN /\ pkg = None /\ tags = None /\ latest = None
                               /\ live = {} /\ cron = {} /\ queues = {}
                          ELSE /\ tags = spec.ver /\ tags \in live
                               /\ versions[tags] = ImageOf(spec.want) /\ latest = ImageOf(spec.want)
                               /\ pkg = spec.want.code /\ cron = KeysOf(spec.want)
                               /\ DOMAIN spec.queues = spec.want.tasks
                               /\ queues = {spec.queues[t] : t \in spec.want.tasks}
    BY DEF AtRestConsistent
  <2>1. request = {} /\ AtRest(spec)
    BY DEF CleanTidy, Tidy
  <2>2. CASE spec = None
    BY <2>1, <2>2 DEF AtRest, CodeOf, CronOf, TasksOf, TagsOf
  <2>3. CASE spec # None
    <3>1. spec \in Spec0 /\ spec.want \in Content /\ DOMAIN spec.queues = spec.want.tasks
      BY <2>3 DEF IInv, Stored, Recorded, Spec0
    <3>2. /\ pkg = spec.want.code /\ latest = ImageOf(spec.want) /\ spec.ver = Len(versions)
          /\ versions[spec.ver] = ImageOf(spec.want) /\ tags = spec.ver
          /\ cron = KeysOf(spec.want) /\ queues = {spec.queues[t] : t \in spec.want.tasks}
      BY <2>1, <2>3 DEF AtRest, CodeOf, CodedAs, CronOf, TasksOf, TagsOf
    <3>3. Len(versions) \in live
      BY <3>1, <3>2, ImageTypes DEF IInv, Versions, NewestStays
    <3>. QED
      BY <2>1, <2>3, <3>1, <3>2, <3>3
  <2>. QED
    BY <2>2, <2>3
<1>. QED
  BY <1>1, Invariant, InitTidy, NextTidy, PTL DEF Spec

----------------------------------------------------------------------------
(***************************************************************************)
(* The versions that are recorded: however requests overlap and fail, the  *)
(* tags and the specification name a version that was published.  A build  *)
(* has such a version from the moment it has planned, when it saw one, and *)
(* from the end of its code stages otherwise.                              *)
(***************************************************************************)
Coded == {"clear", "register", "tasks", "changeconf", "publish", "final"}

Dated(p, c) ==
  p \in Building =>
    /\ Rebuilt(c) \/ c.seen # None
    /\ c.seen # None \/ p \in Coded => c.ver \in DOMAIN versions

DInv == RecordedWasPublished /\ \A r \in Req : Dated(pc[r], ctx[r])

\* Versions are only added.
LEMMA VersionsGrow ==
  ASSUME IInv, IInv', [Next]_vars
  PROVE  /\ Len(versions) <= Len(versions') /\ DOMAIN versions \subseteq DOMAIN versions'
         /\ \A v \in DOMAIN versions : versions'[v] = versions[v]
<1>1. versions \in Seq(Image) /\ Len(versions) \in Nat
  BY DEF IInv, Versions
<1>2. versions' = versions \/ \E image : versions' = Append(versions, image)
  <2>1. CASE UNCHANGED vars
    BY <2>1 DEF vars, lambda
  <2>2. ASSUME NEW r \in Req, Plan(r) \/ DeleteCron(r) \/ Delete(r) \/ Breaks(r)
        PROVE  versions' = versions
    BY <2>2 DEF Plan, DeleteCron, Delete, ReadSpec, DeleteQueues, DeleteTags, DeletePackage,
       DeleteSpec, DeleteFunction, Breaks, StageThrows, TasksThrow, AcceptThrows, EndThrows,
       DeleteThrows, Crash, lambda
  <2>3. ASSUME NEW r \in Req, Put(r)
        PROVE  versions' = versions \/ \E image : versions' = Append(versions, image)
    <3>1. CASE CreateFunction(r) \/ SetCode(r) \/ PublishConf(r)
      BY <3>1 DEF CreateFunction, SetCode, PublishConf, Published
    <3>2. CASE ~ (CreateFunction(r) \/ SetCode(r) \/ PublishConf(r))
      BY <2>3, <3>2 DEF Put, Accept, Start, Package, SetConf, TurnAround, Missing,
         ClearCron, RegisterCron, UpdateTasks, ChangeConf, SaveSpec, SaveTags, Finalize, Report, lambda
    <3>. QED
      BY <3>1, <3>2
  <2>4. CASE Age \/ \E v \in timers : Collect(v)
    BY <2>4 DEF Age, Collect, lambda
  <2>. QED
    BY <2>1, <2>2, <2>3, <2>4 DEF Next
<1>3. CASE versions' = versions
  BY <1>1, <1>3
<1>4. ASSUME NEW image, versions' = Append(versions, image)
      PROVE  /\ Len(versions) <= Len(versions') /\ DOMAIN versions \subseteq DOMAIN versions'
             /\ \A v \in DOMAIN versions : versions'[v] = versions[v]
  <2>1. image \in Image
    <3>1. versions' \in Seq(Image) /\ Len(versions') = Len(versions) + 1
      BY <1>1, <1>4 DEF IInv, Versions
    <3>2. versions'[Len(versions) + 1] = image
      BY <1>1, <1>4
    <3>. QED
      BY <1>1, <3>1, <3>2
  <2>. QED
    BY <1>1, <1>4, <2>1
<1>. QED
  BY <1>2, <1>3, <1>4

\* A step of one request.
LEMMA DatedMoves ==
  ASSUME Control, DInv, DOMAIN versions \subseteq DOMAIN versions', NEW r \in Req, NEW w, NEW c,
         Goto(r, w), ctx' = [ctx EXCEPT ![r] = c] \/ (UNCHANGED ctx /\ c = ctx[r]),
         Dated(w, c)', RecordedWasPublished'
  PROVE  DInv'
<1>1. ASSUME NEW s \in Req PROVE Dated(pc[s], ctx[s])'
  <2>1. CASE s = r
    BY <2>1 DEF Dated, Goto, Control
  <2>2. CASE s # r
    BY <2>2 DEF DInv, Dated, Goto, Control
  <2>. QED
    BY <2>1, <2>2
<1>. QED
  BY <1>1 DEF DInv

LEMMA RecordsKept ==
  ASSUME DInv, DOMAIN versions \subseteq DOMAIN versions', UNCHANGED <<spec, tags>>
  PROVE  RecordedWasPublished'
BY DEF DInv, RecordedWasPublished

LEMMA PlanDated ==
  ASSUME IInv, DInv, DOMAIN versions \subseteq DOMAIN versions', NEW r \in Req, Plan(r) PROVE DInv'
<1>1. PICK w \in Wanted : \E slow \in {FALSE, w.code \in Slow} :
        LET plan == PlanFor(w, spec, slow) IN
        IF plan.build = "none" THEN Leave(r, "done") ELSE Goto(r, "accept") /\ Keep(r, plan)
  BY DEF Plan
<1>2. PICK slow \in {FALSE, w.code \in Slow} :
        LET plan == PlanFor(w, spec, slow) IN
        IF plan.build = "none" THEN Leave(r, "done") ELSE Goto(r, "accept") /\ Keep(r, plan)
  BY <1>1
<1>3. Control /\ RecordedWasPublished'
  BY RecordsKept DEF IInv, Plan, files
<1>4. CASE PlanFor(w, spec, slow).build = "none"
  <2>1. Goto(r, "done") /\ ctx' = [ctx EXCEPT ![r] = None] /\ Dated("done", None)'
    BY <1>2, <1>4 DEF Leave, Keep, Dated, Building
  <2>. QED
    BY <1>3, <2>1, DatedMoves
<1>5. CASE PlanFor(w, spec, slow).build # "none"
  <2>1. PICK c : c = PlanFor(w, spec, slow)
    OBVIOUS
  <2>2. Planned(c) /\ c.seen = spec /\ (spec # None => c.ver = spec.ver)
    BY <1>5, <2>1, PlanIsPlanned DEF PlanFor
  <2>3. Dated("accept", c)'
    BY <2>2 DEF Dated, Planned, Coded, DInv, RecordedWasPublished
  <2>4. Goto(r, "accept") /\ ctx' = [ctx EXCEPT ![r] = c]
    BY <1>2, <1>5, <2>1 DEF Keep
  <2>. QED
    BY <1>3, <2>3, <2>4, DatedMoves
<1>. QED
  BY <1>4, <1>5

\* The stages that change neither the context nor what is recorded.
LEMMA StageDated ==
  ASSUME IInv, DInv, DOMAIN versions \subseteq DOMAIN versions', NEW r \in Req,
         \/ Accept(r) \/ Start(r) \/ Package(r) \/ SetConf(r) \/ TurnAround(r)
         \/ ClearCron(r) \/ RegisterCron(r) \/ ChangeConf(r)
  PROVE  DInv'
<1>1. PICK c : c = ctx[r]
  OBVIOUS
<1>2. PICK w : w = pc'[r]
  OBVIOUS
<1>3. Control /\ UNCHANGED <<spec, tags, ctx>> /\ Goto(r, w)
  <2>1. pc \in [Req -> Place] /\ Control
    BY DEF IInv, Control
  <2>2. UNCHANGED <<spec, tags, ctx>>
    BY DEF Accept, Start, Package, SetConf, TurnAround, ClearCron, RegisterCron, ChangeConf, files
  <2>3. \E x : Goto(r, x)
    BY DEF Accept, Start, Package, SetConf, TurnAround, ClearCron, RegisterCron, ChangeConf
  <2>. QED
    BY <1>2, <2>1, <2>2, <2>3 DEF Goto
<1>4. Dated(pc[r], c)
  BY <1>1 DEF DInv
<1>5. Dated(w, c)'
  <2>1. CASE Start(r)
    <3>1. pc[r] = "start" /\ w = (IF Rebuilt(c) THEN "package" ELSE AfterCode(c))
      BY <1>1, <1>2, <2>1 DEF Start, Goto, Rebuilds, Rebuilt, IInv, Control
    <3>. QED
      BY <1>4, <3>1 DEF Dated, Building, Coded
  <2>2. CASE ClearCron(r) \/ RegisterCron(r) \/ ChangeConf(r)
    BY <1>4, <2>2 DEF Dated, Building, Coded, ClearCron, RegisterCron, ChangeConf
  <2>3. CASE Accept(r) \/ Package(r) \/ SetConf(r) \/ TurnAround(r)
    <3>1. w \in {"start", "create", "setconf", "setcode"} /\ pc[r] \in Building
      BY <1>2, <2>3 DEF Accept, Package, SetConf, TurnAround, Goto, Building, IInv, Control
    <3>. QED
      BY <1>4, <3>1 DEF Dated, Coded
  <2>. QED
    BY <2>1, <2>2, <2>3
<1>. QED
  BY <1>1, <1>3, <1>5, RecordsKept, DatedMoves

\* A request that fails in a build, or ends.
LEMMA FailDated ==
  ASSUME IInv, DInv, DOMAIN versions \subseteq DOMAIN versions', NEW r \in Req, pc[r] \in Building,
         Fail(r), UNCHANGED <<spec, tags>>
  PROVE  DInv'
<1>1. PICK c : c = [ctx[r] EXCEPT !.ok = FALSE]
  OBVIOUS
<1>2. ctx[r] \in Context /\ Control
  BY InBuild DEF IInv
<1>3. c.build = ctx[r].build /\ c.seen = ctx[r].seen /\ c.ver = ctx[r].ver
  BY <1>1, <1>2 DEF Context
<1>4. Dated("report", c)'
  BY <1>3 DEF DInv, Dated, Rebuilt, Coded
<1>5. Goto(r, "report") /\ ctx' = [ctx EXCEPT ![r] = c]
  BY <1>1 DEF Fail, Keep
<1>. QED
  BY <1>2, <1>4, <1>5, RecordsKept, DatedMoves

LEMMA EndDated ==
  ASSUME IInv, DInv, DOMAIN versions \subseteq DOMAIN versions', NEW r \in Req,
         NEW w, w \notin Building, Goto(r, w), NEW c, Keep(r, c) \/ (UNCHANGED ctx /\ c = ctx[r]),
         RecordedWasPublished'
  PROVE  DInv'
<1>1. Dated(w, c)'
  BY DEF Dated
<1>. QED
  BY <1>1, DatedMoves DEF IInv, Keep

\* A version that is published is the newest, so it is there.
LEMMA PublishDated ==
  ASSUME IInv, IInv', DInv, DOMAIN versions \subseteq DOMAIN versions', NEW r \in Req,
         CreateFunction(r) \/ SetCode(r) \/ PublishConf(r)
  PROVE  DInv'
<1>1. pc[r] \in Building /\ UNCHANGED <<spec, tags>> /\ Control
  BY DEF CreateFunction, SetCode, PublishConf, Building, files, IInv
<1>2. PICK new \in BOOLEAN : \E image, collect, next : Published(r, image, new, collect, next)
  <2>1. CASE CreateFunction(r)
    BY <2>1 DEF CreateFunction
  <2>2. CASE SetCode(r)
    BY <2>2 DEF SetCode
  <2>3. CASE PublishConf(r)
    BY <2>3 DEF PublishConf
  <2>. QED
    BY <2>1, <2>2, <2>3
<1>2a. PICK image, collect, next : Published(r, image, new, collect, next)
  BY <1>2
<1>3. PICK v : v = IF new THEN Len(versions) + 1 ELSE Len(versions)
  OBVIOUS
<1>4. Fail(r) \/ (Keep(r, Noted(ctx[r], v)) /\ Goto(r, next))
  BY <1>2a, <1>3 DEF Published, Noted
<1>5. v \in live' /\ v \in DOMAIN versions' /\ v \in Nat
  <2>1. v \in live'
    BY <1>2a, <1>3 DEF Published
  <2>2. v \in Nat
    BY <1>3 DEF IInv, Versions
  <2>. QED
    BY <2>1, <2>2 DEF IInv, Versions
<1>6. CASE Fail(r)
  BY <1>1, <1>6, FailDated
<1>7. CASE Keep(r, Noted(ctx[r], v)) /\ Goto(r, next)
  <2>1. PICK c : c = Noted(ctx[r], v)
    OBVIOUS
  <2>2. ctx[r] \in Context
    BY <1>1, InBuild DEF IInv
  <2>3. c.seen = ctx[r].seen /\ c.build = ctx[r].build /\ c.ver = v
    BY <1>5, <2>1, <2>2, VersionNoted
  <2>4. Dated(next, c)'
    BY <1>1, <1>5, <2>3 DEF DInv, Dated, Rebuilt
  <2>. QED
    BY <1>1, <1>7, <2>1, <2>4, RecordsKept, DatedMoves DEF Keep
<1>. QED
  BY <1>4, <1>6, <1>7

LEMMA UpdateTasksDated ==
  ASSUME IInv, DInv, DOMAIN versions \subseteq DOMAIN versions', NEW r \in Req, UpdateTasks(r)
  PROVE  DInv'
<1>1. PICK c : c = [ctx[r] EXCEPT !.queues = QueuesFor(r, ctx[r])]
  OBVIOUS
<1>2. PICK w : w = AfterTasks(ctx[r])
  OBVIOUS
<1>3. pc[r] = "tasks" /\ Goto(r, w) /\ ctx' = [ctx EXCEPT ![r] = c] /\ UNCHANGED <<spec, tags>>
  BY <1>1, <1>2 DEF UpdateTasks, Keep, QueuesFor, files
<1>4. ctx[r] \in Context /\ Control
  BY <1>3, InBuild DEF IInv, Building
<1>5. c.build = ctx[r].build /\ c.seen = ctx[r].seen /\ c.ver = ctx[r].ver
  BY <1>1, <1>4 DEF Context
<1>6. Dated(w, c)'
  BY <1>3, <1>5 DEF DInv, Dated, Rebuilt, Coded, Building
<1>. QED
  BY <1>3, <1>4, <1>6, RecordsKept, DatedMoves

LEMMA FinalizeDated ==
  ASSUME IInv, DInv, DOMAIN versions \subseteq DOMAIN versions', NEW r \in Req,
         NEW what \in {"spec", "tags"}, Finalize(r, what)
  PROVE  DInv'
<1>1. PICK c : c = [ctx[r] EXCEPT !.todo = ctx[r].todo \ {what}]
  OBVIOUS
<1>2. PICK w : w = IF ctx[r].todo = {what} THEN "report" ELSE "final"
  OBVIOUS
<1>3. pc[r] = "final" /\ Goto(r, w) /\ ctx' = [ctx EXCEPT ![r] = c]
  BY <1>1, <1>2 DEF Finalize, Keep
<1>4. ctx[r] \in Context /\ Control /\ ctx[r].ver \in DOMAIN versions
  BY <1>3, InBuild DEF IInv, Building, DInv, Dated, Coded
<1>5. c.build = ctx[r].build /\ c.seen = ctx[r].seen /\ c.ver = ctx[r].ver
  BY <1>1, <1>4 DEF Context
<1>6. Dated(w, c)'
  BY <1>3, <1>4, <1>5 DEF DInv, Dated, Rebuilt, Coded, Building
<1>7. RecordedWasPublished'
  BY <1>4 DEF Finalize, SpecOf, DInv, RecordedWasPublished
<1>. QED
  BY <1>3, <1>4, <1>6, <1>7, DatedMoves

LEMMA EndThrowsDated ==
  ASSUME IInv, DInv, DOMAIN versions \subseteq DOMAIN versions', NEW r \in Req, EndThrows(r)
  PROVE  DInv'
<1>1. PICK made \in SUBSET (IF pc[r] = "final" THEN ctx[r].todo ELSE {}) :
        /\ spec' = IF "spec" \in made THEN SpecOf(r) ELSE spec
        /\ tags' = IF "tags" \in made THEN ctx[r].ver ELSE tags
  BY DEF EndThrows
<1>2. RecordedWasPublished'
  <2>1. CASE pc[r] = "final"
    <3>1. ctx[r].ver \in DOMAIN versions
      BY <2>1 DEF DInv, Dated, Coded, Building
    <3>. QED
      BY <1>1, <3>1 DEF SpecOf, DInv, RecordedWasPublished
  <2>2. CASE pc[r] # "final"
    BY <1>1, <2>2, RecordsKept
  <2>. QED
    BY <2>1, <2>2
<1>. QED
  BY <1>2, EndDated DEF EndThrows, Leave, Building

LEMMA NextDated == IInv /\ IInv' /\ DInv /\ [Next]_vars => DInv'
<1>. SUFFICES ASSUME IInv, IInv', DInv, [Next]_vars PROVE DInv'
  OBVIOUS
<1>0. DOMAIN versions \subseteq DOMAIN versions'
  BY VersionsGrow
<1>1. ASSUME UNCHANGED <<spec, tags, pc, ctx>> PROVE DInv'
  <2>1. \A r \in Req : Dated(pc[r], ctx[r])'
    BY <1>0, <1>1 DEF DInv, Dated
  <2>. QED
    BY <1>0, <1>1, <2>1, RecordsKept DEF DInv
<1>2. ASSUME NEW r \in Req, Put(r) PROVE DInv'
  <2>1. CASE Missing(r)
    BY <1>0, <2>1, FailDated DEF Missing, Building, files
  <2>2. CASE Report(r)
    BY <1>0, <2>2, EndDated, RecordsKept DEF Report, Leave, Building, files
  <2>. QED
    BY <1>0, <1>2, <2>1, <2>2, StageDated, PublishDated, UpdateTasksDated, FinalizeDated
       DEF Put, SaveSpec, SaveTags
<1>3. ASSUME NEW r \in Req, DeleteCron(r) \/ Delete(r) PROVE DInv'
  <2>1. RecordedWasPublished'
    BY <1>0, <1>3 DEF DInv, RecordedWasPublished, DeleteCron, Delete, ReadSpec, DeleteQueues,
       DeleteTags, DeletePackage, DeleteSpec, DeleteFunction, files
  <2>2. \E w : w \notin Building /\ Goto(r, w)
    BY <1>3 DEF DeleteCron, Delete, ReadSpec, DeleteQueues, DeleteTags, DeletePackage, DeleteSpec,
       DeleteFunction, Leave, Building
  <2>3. \E c : Keep(r, c) \/ (UNCHANGED ctx /\ c = ctx[r])
    BY <1>3 DEF DeleteCron, Delete, ReadSpec, DeleteQueues, DeleteTags, DeletePackage, DeleteSpec,
       DeleteFunction, Leave
  <2>. QED
    BY <1>0, <2>1, <2>2, <2>3, EndDated
<1>4. ASSUME NEW r \in Req, Breaks(r) PROVE DInv'
  <2>1. CASE StageThrows(r) \/ TasksThrow(r)
    BY <1>0, <2>1, FailDated DEF StageThrows, TasksThrow, Building, files
  <2>2. CASE AcceptThrows(r) \/ DeleteThrows(r) \/ Crash(r)
    <3>1. UNCHANGED <<spec, tags>> /\ Keep(r, None) /\ (Goto(r, "done") \/ Goto(r, "dead"))
      BY <2>2 DEF AcceptThrows, DeleteThrows, Crash, Leave, files
    <3>2. "done" \notin Building /\ "dead" \notin Building
      BY DEF Building
    <3>. QED
      BY <1>0, <3>1, <3>2, RecordsKept, EndDated
  <2>. QED
    BY <1>0, <1>4, <2>1, <2>2, EndThrowsDated DEF Breaks
<1>. QED
  BY <1>0, <1>1, <1>2, <1>3, <1>4, PlanDated DEF Next, vars, files, Age, Collect

LEMMA InitDated == Init => DInv
<1>. SUFFICES ASSUME Init PROVE DInv
  OBVIOUS
<1>1. \A r \in Req : Dated(pc[r], ctx[r])
  BY DEF Init, Dated, Building
<1>2. (spec = None /\ tags = None) \/ (spec.ver = 1 /\ tags = 1 /\ Len(versions) = 1)
  BY DEF Init
<1>3. versions \in Seq(Image)
  BY InitInv DEF IInv, Versions
<1>. QED
  BY <1>1, <1>2, <1>3 DEF DInv, RecordedWasPublished

\* The recorded versions, for any number of requests and faults in any order.
THEOREM RecordedVersionsExist == Spec => []RecordedWasPublished
<1>1. DInv => RecordedWasPublished
  BY DEF DInv
<1>. QED
  BY <1>1, Invariant, InitDated, NextDated, PTL DEF Spec

----------------------------------------------------------------------------
(***************************************************************************)
(* FunctionBuild implements FunctionContract: by the invariants, each step *)
(* of a request that is alone and does not fail is one of the contract or  *)
(* changes nothing that it speaks of.                                      *)
(***************************************************************************)

\* Queues that are named as their routes serve them, one each.
LEMMA QueuesServe ==
  ASSUME NEW q, NEW R, R \subseteq DOMAIN q, NamedAs(q), NEW Q, Q = {q[t] : t \in R}
  PROVE  Contract!Serve(Q, R)
<1>1. \A t \in R : q[t][2] = t
  BY DEF NamedAs
<1>2. {x[2] : x \in Q} = R
  BY <1>1
<1>3. \A x, y \in Q : x[2] = y[2] => x = y
  BY <1>1
<1>. QED
  BY <1>2, <1>3 DEF Contract!Serve

\* At rest every kind of reader sees the function of the specification.
LEMMA RestIsAll ==
  ASSUME IInv, AtRest(spec), spec # None => NamedAs(spec.queues)
  PROVE  Contract!IsAll(Reads)
<1>1. CASE spec = None
  <2>1. Reads = None /\ Runs = None /\ cron = {} /\ queues = {}
    BY <1>1 DEF AtRest, CronOf, TasksOf, TagsOf, Reads, Runs
  <2>2. Contract!Serve({}, {})
    BY DEF Contract!Serve
  <2>. QED
    BY <2>1, <2>2 DEF Contract!IsAll, Contract!ImageOf, Contract!KeysOf, Contract!TasksOf
<1>2. CASE spec # None
  <2>1. spec \in Spec0 /\ DOMAIN spec.queues = spec.want.tasks
    BY <1>2 DEF IInv, Stored, Recorded
  <2>2. Reads = spec.want /\ spec.want # None /\ spec.ver # None
    BY <1>2, <2>1, NoneApart DEF Reads, Spec0
  <2>3. /\ tags = spec.ver /\ versions[spec.ver] = ImageOf(spec.want)
        /\ cron = KeysOf(spec.want) /\ queues = {spec.queues[t] : t \in spec.want.tasks}
    BY <1>2 DEF AtRest, CodeOf, CodedAs, CronOf, TasksOf, TagsOf
  <2>4. Runs = ImageOf(spec.want)
    BY <2>2, <2>3 DEF Runs
  <2>5. Contract!Serve(queues, spec.want.tasks)
    BY <1>2, <2>1, <2>3, QueuesServe
  <2>. QED
    BY <2>2, <2>3, <2>4, <2>5 DEF Contract!IsAll, Contract!ImageOf, Contract!KeysOf,
       Contract!TasksOf, ImageOf, KeysOf
<1>. QED
  BY <1>1, <1>2

\* What is asked for, of the only request.
Asked(p, c) == IF p \in Building THEN c.want ELSE None

LEMMA OpenIs ==
  ASSUME NEW r \in Req, \A s \in Req : s # r => Idle(s)
  PROVE  /\ ~ Idle(r) => Open = {<<r, Asked(pc[r], ctx[r])>>}
         /\ Idle(r) => Open = {}
BY DEF Open, Asked

LEMMA OpenBecomes ==
  ASSUME Control, NEW r \in Req, \A s \in Req : s # r => Idle(s),
         NEW w, pc' = [pc EXCEPT ![r] = w], NEW c, ctx'[r] = c
  PROVE  /\ w \in Building \cup Deleting => Open' = {<<r, Asked(w, c)>>}
         /\ w \notin {"idle"} \cup Building \cup Deleting /\ w \in Place => Open' = {}
<1>1. pc'[r] = w /\ \A s \in Req : s # r => Idle(s)'
  BY DEF Control, Idle
<1>2. /\ w \in Building \cup Deleting => ~ Idle(r)'
      /\ w \notin {"idle"} \cup Building \cup Deleting /\ w \in Place => Idle(r)'
  BY <1>1 DEF Idle, Over, Building, Deleting, Place
<1>3. /\ ~ Idle(r)' => Open' = {<<r, Asked(w, c)>>}
      /\ Idle(r)' => Open' = {}
  BY <1>1 DEF Open, Asked
<1>. QED
  BY <1>2, <1>3

LEMMA OpenEnds ==
  ASSUME Control, NEW r \in Req, \A s \in Req : s # r => Idle(s), pc' = [pc EXCEPT ![r] = "done"]
  PROVE  Open' = {}
<1>1. PICK c, w : c = ctx'[r] /\ w = "done"
  OBVIOUS
<1>2. w \notin {"idle"} \cup Building \cup Deleting /\ w \in Place
  BY <1>1 DEF Place, Over, Building, Deleting
<1>3. pc' = [pc EXCEPT ![r] = w]
  BY <1>1
<1>. QED
  BY <1>1, <1>2, <1>3, OpenBecomes

LEMMA OpenToDelete ==
  ASSUME Control, NEW r \in Req, \A s \in Req : s # r => Idle(s),
         NEW w \in Deleting, pc' = [pc EXCEPT ![r] = w]
  PROVE  Open' = {<<r, None>>}
<1>1. PICK c : c = ctx'[r]
  OBVIOUS
<1>2. w \notin Building
  BY DEF Building, Deleting
<1>3. Asked(w, c) = None
  BY <1>2 DEF Asked
<1>. QED
  BY <1>1, <1>3, OpenBecomes

LEMMA OpenToPut ==
  ASSUME Control, NEW r \in Req, \A s \in Req : s # r => Idle(s),
         NEW w \in Building, pc' = [pc EXCEPT ![r] = w], NEW c, ctx'[r] = c
  PROVE  Open' = {<<r, c.want>>}
<1>1. Asked(w, c) = c.want
  BY DEF Asked
<1>. QED
  BY <1>1, OpenBecomes

\* What an execution runs stays as long as the tags do.
LEMMA RunsKept ==
  ASSUME IInv, IInv', DInv, [Next]_vars, tags' = tags
  PROVE  Runs' = Runs
BY VersionsGrow DEF Runs, DInv, RecordedWasPublished

\* A step that is none of the contract's.
LEMMA StepHides ==
  ASSUME Control, NEW r \in Req, \A s \in Req : s # r => Idle(s),
         pc[r] \in Building \cup Deleting,
         NEW w \in Building \cup Deleting, pc' = [pc EXCEPT ![r] = w], NEW c, ctx'[r] = c,
         Asked(w, c) = Asked(pc[r], ctx[r]),
         UNCHANGED <<spec, cron, queues, clean>>, Runs' = Runs
  PROVE  UNCHANGED Contract!contractVars
<1>1. Open = {<<r, Asked(pc[r], ctx[r])>>}
  BY OpenIs DEF Idle, Over, Building, Deleting
<1>2. Open' = Open
  BY <1>1, OpenBecomes
<1>. QED
  BY <1>2 DEF Contract!contractVars, Reads

\* A step of the contract for the request that is open.
LEMMA StepShows ==
  ASSUME clean, clean', NEW x, Open = {x},
         \/ Contract!Show(x[2]) \/ Contract!Run(x[2]) \/ Contract!Schedule(x[2])
         \/ Contract!Feed(x[2]) \/ Contract!Answer(x[2])
  PROVE  Contract!Next
<1>1. x \in Open
  OBVIOUS
<1>2. Contract!Orderly
  BY <1>1, Zenon DEF Contract!Orderly
<1>. QED
  BY <1>2 DEF Contract!Next

LEMMA PlanContract ==
  ASSUME IInv, IInv', DInv, CleanTidy, clean', NEW r \in Req, Plan(r), [Next]_vars
  PROVE  [Contract!Next]_(Contract!contractVars)
<1>1. clean /\ (\A q \in Req : Idle(q)) /\ Control /\ Open = {}
  BY OpenIs DEF CleanTidy, Plan, Arrives, IInv
<1>2. UNCHANGED <<spec, tags, cron, queues>> /\ Runs' = Runs
  BY RunsKept DEF Plan, files
<1>3. PICK w \in Wanted : \E slow \in {FALSE, w.code \in Slow} :
        LET plan == PlanFor(w, spec, slow) IN
        IF plan.build = "none" THEN Leave(r, "done") ELSE Goto(r, "accept") /\ Keep(r, plan)
  BY DEF Plan
<1>4. PICK slow \in {FALSE, w.code \in Slow} :
        LET plan == PlanFor(w, spec, slow) IN
        IF plan.build = "none" THEN Leave(r, "done") ELSE Goto(r, "accept") /\ Keep(r, plan)
  BY <1>3
<1>5. CASE PlanFor(w, spec, slow).build = "none"
  <2>1. pc' = [pc EXCEPT ![r] = "done"]
    BY <1>4, <1>5 DEF Leave, Goto
  <2>2. Open' = {}
    BY <1>1, <2>1, OpenEnds
  <2>3. clean' = clean
    BY <1>1 DEF Plan, Arrives
  <2>. QED
    BY <1>1, <1>2, <2>2, <2>3 DEF Contract!contractVars, Reads
<1>6. CASE PlanFor(w, spec, slow).build # "none"
  <2>1. PICK c : c = PlanFor(w, spec, slow)
    OBVIOUS
  <2>2. pc' = [pc EXCEPT ![r] = "accept"] /\ ctx'[r] = c /\ c.want = w /\ w \in Content
    BY <1>1, <1>4, <1>6, <2>1, ConstantsOK DEF Goto, Keep, Control, PlanFor
  <2>3. Open' = {<<r, w>>}
    BY <1>1, <2>2, OpenBecomes DEF Asked, Building
  <2>4. Contract!Ask(r, w)
    BY <1>1, <1>2, <2>3 DEF Contract!Ask, Reads
  <2>5. Contract!Orderly
    BY <2>2, <2>4 DEF Contract!Orderly
  <2>. QED
    BY <1>1, <2>5 DEF Contract!Next
<1>. QED
  BY <1>5, <1>6

LEMMA DeleteCronContract ==
  ASSUME IInv, IInv', DInv, CleanTidy, clean', NEW r \in Req, DeleteCron(r), [Next]_vars
  PROVE  Contract!Next
<1>1. clean /\ (\A q \in Req : Idle(q)) /\ Control /\ Open = {}
  BY OpenIs DEF CleanTidy, DeleteCron, Arrives, IInv
<1>2. UNCHANGED <<spec, tags, queues>> /\ Runs' = Runs /\ cron' = {}
  BY RunsKept DEF DeleteCron, files
<1>3. PICK w : w = "read"
  OBVIOUS
<1>4. w \in Deleting /\ pc' = [pc EXCEPT ![r] = w]
  BY <1>3 DEF DeleteCron, Goto, Deleting
<1>5. Open' = {<<r, None>>}
  BY <1>1, <1>4, OpenToDelete
<1>6. Contract!Ask(r, None)
  BY <1>1, <1>2, <1>5 DEF Contract!Ask, Reads
<1>7. Contract!Orderly
  BY <1>6 DEF Contract!Orderly
<1>. QED
  BY <1>1, <1>7 DEF Contract!Next

\* The stages of the code, and reading: nobody else sees them.
LEMMA HiddenSteps ==
  ASSUME IInv, IInv', DInv, Tidy, clean, clean', NEW r \in Req, [Next]_vars,
         \/ Accept(r) \/ Start(r) \/ Package(r) \/ CreateFunction(r) \/ SetConf(r) \/ SetCode(r)
         \/ ChangeConf(r) \/ PublishConf(r) \/ ReadSpec(r) \/ DeletePackage(r)
  PROVE  UNCHANGED Contract!contractVars
<1>1. UNCHANGED <<spec, tags, cron, queues>> /\ Runs' = Runs /\ clean' = clean /\ Control
  <2>1. UNCHANGED <<spec, tags, cron, queues>>
    BY DEF Accept, Start, Package, CreateFunction, SetConf, SetCode, ChangeConf, PublishConf,
       ReadSpec, DeletePackage, files
  <2>2. clean \in BOOLEAN /\ clean' \in BOOLEAN
    BY DEF IInv, Stored
  <2>. QED
    BY <2>1, <2>2, RunsKept DEF IInv
<1>2. PICK c, w : c = ctx'[r] /\ w = pc'[r]
  OBVIOUS
<1>3. CASE Accept(r) \/ Start(r) \/ Package(r) \/ SetConf(r) \/ ChangeConf(r)
  <2>1. pc[r] \in Building /\ c = ctx[r] /\ pc' = [pc EXCEPT ![r] = w]
    BY <1>1, <1>2, <1>3 DEF Accept, Start, Package, SetConf, ChangeConf, Goto, Building, Control
  <2>2. w \in Building
    BY <1>1, <1>2, <1>3 DEF Accept, Start, Package, SetConf, ChangeConf, Goto, Building, Control,
       AfterCode, AfterCron, AfterTasks
  <2>. QED
    BY <1>1, <1>2, <2>1, <2>2, OnlyOne, StepHides DEF Asked
<1>4. CASE CreateFunction(r) \/ SetCode(r) \/ PublishConf(r)
  <2>1. pc[r] \in Building /\ ctx[r] \in Context
    BY <1>4, InBuild DEF IInv, CreateFunction, SetCode, PublishConf, Building
  <2>2. PICK new \in BOOLEAN : \E image, collect, next :
          next \in Building /\ Published(r, image, new, collect, next)
    <3>1. AfterCode(ctx[r]) \in Building /\ "final" \in Building
      BY DEF AfterCode, AfterCron, AfterTasks, Building
    <3>2. CASE CreateFunction(r)
      BY <3>1, <3>2 DEF CreateFunction
    <3>3. CASE SetCode(r)
      BY <3>1, <3>3 DEF SetCode
    <3>4. CASE PublishConf(r)
      BY <3>1, <3>4 DEF PublishConf
    <3>. QED
      BY <1>4, <3>2, <3>3, <3>4
  <2>3. PICK image, collect, next : next \in Building /\ Published(r, image, new, collect, next)
    BY <2>2
  <2>4. PICK v : v = IF new THEN Len(versions) + 1 ELSE Len(versions)
    OBVIOUS
  <2>5. (Keep(r, Noted(ctx[r], v)) /\ Goto(r, next)) \/ Fail(r)
    BY <2>3, <2>4 DEF Published, Noted
  <2>6. c.want = ctx[r].want /\ pc' = [pc EXCEPT ![r] = w] /\ w \in Building
    <3>1. Noted(ctx[r], v).want = ctx[r].want
      BY <2>1 DEF Noted, Context
    <3>2. [ctx[r] EXCEPT !.ok = FALSE].want = ctx[r].want
      BY <2>1 DEF Context
    <3>. QED
      BY <1>1, <1>2, <2>3, <2>5, <3>1, <3>2 DEF Fail, Keep, Goto, Control, Building
  <2>. QED
    BY <1>1, <1>2, <2>1, <2>6, OnlyOne, StepHides DEF Asked
<1>5. CASE ReadSpec(r) \/ DeletePackage(r)
  <2>1. /\ pc[r] \in Deleting /\ w \in Deleting /\ pc' = [pc EXCEPT ![r] = w]
        /\ pc[r] \notin Building /\ w \notin Building
    BY <1>1, <1>2, <1>5 DEF ReadSpec, DeletePackage, Goto, Building, Deleting, Control
  <2>. QED
    BY <1>1, <1>2, <2>1, OnlyOne, StepHides DEF Asked
<1>. QED
  BY <1>3, <1>4, <1>5

\* The stages that others see.
LEMMA CronContract ==
  ASSUME IInv, IInv', DInv, Tidy, clean, clean', NEW r \in Req, [Next]_vars,
         ClearCron(r) \/ RegisterCron(r)
  PROVE  Contract!Next
<1>1. PICK c, w, x : c = ctx[r] /\ w = pc'[r] /\ x = <<r, c.want>>
  OBVIOUS
<1>2. /\ pc[r] \in {"clear", "register"} /\ pc' = [pc EXCEPT ![r] = w] /\ ctx'[r] = c
      /\ UNCHANGED <<spec, tags, queues>> /\ Runs' = Runs /\ Control /\ w \in Building
  BY <1>1, RunsKept DEF ClearCron, RegisterCron, Goto, files, IInv, Control, Building,
     AfterCron, AfterTasks
<1>3. (\A s \in Req : s # r => Idle(s)) /\ CronStage(pc[r], c) /\ c.want \in Content
  BY <1>1, <1>2, OneBuild, ContextFields DEF Building
<1>4. Open = {x} /\ Open' = {x}
  BY <1>1, <1>2, <1>3, OpenIs, OpenBecomes DEF Asked, Idle, Over, Building
<1>5. cron' \in {{}, KeysOf(c.want)}
  BY <1>1, <1>2, <1>3 DEF ClearCron, RegisterCron, CronStage
<1>6. Contract!Schedule(x[2])
  <2>1. Contract!KeysOf(c.want) = KeysOf(c.want)
    BY <1>3, NoneApart DEF Contract!KeysOf, KeysOf
  <2>. QED
    BY <1>1, <1>2, <1>4, <1>5, <2>1 DEF Contract!Schedule, Reads
<1>. QED
  BY <1>4, <1>6, StepShows

LEMMA TasksContract ==
  ASSUME IInv, IInv', DInv, Tidy, clean, clean', NEW r \in Req, [Next]_vars, UpdateTasks(r)
  PROVE  Contract!Next
<1>1. PICK c, w, x : c = ctx[r] /\ w = pc'[r] /\ x = <<r, c.want>>
  OBVIOUS
<1>2. PICK q : q = QueuesFor(r, c)
  OBVIOUS
<1>3. PICK d : d = [c EXCEPT !.queues = q]
  OBVIOUS
<1>4. /\ pc[r] = "tasks" /\ pc' = [pc EXCEPT ![r] = w] /\ w \in Building /\ ctx'[r] = d
      /\ queues' = (queues \ ToDrop(r)) \cup ToAdd(r)
      /\ UNCHANGED <<spec, tags, cron>> /\ Runs' = Runs /\ Control
  BY <1>1, <1>2, <1>3, RunsKept DEF UpdateTasks, Goto, Keep, QueuesFor, files, IInv, Control,
     Building, AfterTasks
<1>5. /\ \A s \in Req : s # r => Idle(s)
      /\ TasksStage("tasks", c) /\ EndStage("tasks", c) /\ c \in Context /\ Recorded(c.seen)
      /\ c.want \in Content
  BY <1>1, <1>4, OneBuild, InBuild, ContextFields DEF Building
<1>6. d.want = c.want
  BY <1>3, <1>5 DEF Context
<1>7. Open = {x} /\ Open' = {x}
  <2>1. Open = {x}
    BY <1>1, <1>4, <1>5, OpenIs DEF Asked, Idle, Over, Building
  <2>2. Open' = {<<r, d.want>>}
    BY <1>4, <1>5, OpenToPut
  <2>. QED
    BY <1>1, <1>6, <2>1, <2>2
<1>8. TasksOf(c.seen) /\ (c.seen # None => NamedAs(c.seen.queues))
  BY <1>5 DEF TasksStage, EndStage, Early, Building
<1>9. NamedAs(q) /\ queues' = {q[t] : t \in c.want.tasks}
  BY <1>1, <1>2, <1>4, <1>5, <1>8, QueuesUpdated
<1>10. Contract!Serve(queues', c.want.tasks)
  <2>1. DOMAIN q = c.want.tasks
    BY <1>2 DEF QueuesFor
  <2>2. PICK Q : Q = queues'
    OBVIOUS
  <2>3. Contract!Serve(Q, c.want.tasks)
    BY <1>9, <2>1, <2>2, QueuesServe
  <2>. QED
    BY <2>2, <2>3
<1>11. {y \in queues : y[2] \in c.want.tasks} \subseteq queues'
  <2>1. \A y \in ToDrop(r) : y[2] \notin c.want.tasks
    BY <1>1, <1>5, <1>8 DEF ToDrop, Recorded, NamedAs, OldTasks
  <2>. QED
    BY <1>4, <2>1
<1>12. Contract!Feed(x[2])
  <2>1. x[2] = c.want /\ Contract!TasksOf(c.want) = c.want.tasks
    BY <1>1, <1>5, NoneApart DEF Contract!TasksOf
  <2>. QED
    BY <1>4, <1>7, <1>10, <1>11, <2>1 DEF Contract!Feed, Reads
<1>. QED
  BY <1>7, <1>12, StepShows

LEMMA FinalizeContract ==
  ASSUME IInv, IInv', DInv, Tidy, clean, clean', NEW r \in Req, [Next]_vars,
         NEW what \in {"spec", "tags"}, Finalize(r, what)
  PROVE  Contract!Next
<1>1. PICK c, w, x : c = ctx[r] /\ w = pc'[r] /\ x = <<r, c.want>>
  OBVIOUS
<1>2. PICK d : d = [c EXCEPT !.todo = c.todo \ {what}]
  OBVIOUS
<1>3. /\ pc[r] = "final" /\ pc' = [pc EXCEPT ![r] = w] /\ w \in Building /\ ctx'[r] = d
      /\ UNCHANGED <<cron, queues, versions>> /\ Control
  BY <1>1, <1>2 DEF Finalize, Goto, Keep, lambda, IInv, Control, Building
<1>4. /\ \A s \in Req : s # r => Idle(s)
      /\ CodeStage("final", c) /\ c \in Context /\ c.want \in Content /\ c.want # None
  <2>1. (\A s \in Req : s # r => Idle(s)) /\ CodeStage("final", c) /\ c \in Context
    BY <1>1, <1>3, OneBuild DEF Building
  <2>2. c.want \in Content
    BY <2>1, ContextFields
  <2>. QED
    BY <2>1, <2>2, NoneApart
<1>5. d.want = c.want
  BY <1>2, <1>4 DEF Context
<1>6. Open = {x} /\ Open' = {x}
  <2>1. Open = {x}
    BY <1>1, <1>3, <1>4, OpenIs DEF Asked, Idle, Over, Building
  <2>2. Open' = {<<r, d.want>>}
    BY <1>3, <1>4, OpenToPut
  <2>. QED
    BY <1>1, <1>5, <2>1, <2>2
<1>7. CASE what = "spec"
  <2>1. spec' = SpecOf(r) /\ tags' = tags
    BY <1>7 DEF Finalize
  <2>2. Reads' = c.want /\ Runs' = Runs
    <3>1. SpecOf(r) \in Spec0 /\ SpecOf(r).want = c.want
      BY <1>1, <1>4, ContextFields DEF SpecOf, Spec0
    <3>. QED
      BY <1>3, <2>1, <3>1, NoneApart DEF Reads, Runs
  <2>3. Contract!Show(x[2])
    BY <1>1, <1>3, <1>6, <2>2 DEF Contract!Show
  <2>. QED
    BY <1>6, <2>3, StepShows
<1>8. CASE what = "tags"
  <2>1. spec' = spec /\ tags' = c.ver
    BY <1>1, <1>8 DEF Finalize
  <2>2. Runs' = ImageOf(c.want) /\ Reads' = Reads
    <3>1. c.ver # None /\ versions[c.ver] = ImageOf(c.want)
      BY <1>4, ContextFields, NoneApart DEF CodeStage, CodedAs
    <3>. QED
      BY <1>3, <2>1, <3>1 DEF Reads, Runs
  <2>3. Contract!Run(x[2])
    BY <1>1, <1>3, <1>4, <1>6, <2>2 DEF Contract!Run, Contract!ImageOf, ImageOf
  <2>. QED
    BY <1>6, <2>3, StepShows
<1>. QED
  BY <1>7, <1>8

LEMMA ReportContract ==
  ASSUME IInv, IInv', DInv, Tidy, clean, clean', NEW r \in Req, [Next]_vars, Report(r)
  PROVE  Contract!Next
<1>1. PICK c, x : c = ctx[r] /\ x = <<r, c.want>>
  OBVIOUS
<1>2. /\ pc[r] = "report" /\ pc' = [pc EXCEPT ![r] = "done"] /\ pc[r] \in Building /\ Control
      /\ UNCHANGED <<spec, tags, cron, queues>> /\ Runs' = Runs
  BY RunsKept DEF Report, Leave, Goto, files, IInv, Building
<1>3. /\ \A s \in Req : s # r => Idle(s)
      /\ AtRest(spec) /\ spec # None /\ spec.want = c.want /\ NamedAs(spec.queues)
  BY <1>1, <1>2, OnlyOne DEF PutStage
<1>4. Open = {x}
  BY <1>1, <1>2, <1>3, OpenIs DEF Asked, Idle, Over, Building
<1>5. Open' = {}
  BY <1>2, <1>3, OpenEnds
<1>6. Contract!IsAll(c.want)
  BY <1>3, RestIsAll DEF Reads
<1>7. Contract!Answer(x[2])
  BY <1>1, <1>2, <1>5, <1>6 DEF Contract!Answer, Reads
<1>. QED
  BY <1>4, <1>7, StepShows

LEMMA DeleteContract ==
  ASSUME IInv, IInv', DInv, Tidy, clean, clean', NEW r \in Req, [Next]_vars,
         DeleteQueues(r) \/ DeleteTags(r) \/ DeleteSpec(r) \/ DeleteFunction(r)
  PROVE  Contract!Next
<1>1. PICK c, w, x : c = ctx'[r] /\ w = pc'[r] /\ x = <<r, None>>
  OBVIOUS
<1>2. pc[r] \in Deleting /\ pc[r] \notin Building /\ Control
  BY DEF DeleteQueues, DeleteTags, DeleteSpec, DeleteFunction, Building, Deleting, IInv
<1>3. (\A s \in Req : s # r => Idle(s)) /\ DeleteStage(pc[r], ctx[r])
  BY <1>2, OnlyOne
<1>4. Open = {x}
  BY <1>1, <1>2, <1>3, OpenIs DEF Asked, Idle, Over, Deleting
<1>5. ASSUME DeleteQueues(r) PROVE Contract!Feed(None)
  <2>1. /\ pc' = [pc EXCEPT ![r] = "deltags"] /\ queues' = {}
        /\ UNCHANGED <<spec, tags, cron>> /\ Runs' = Runs
    BY <1>3, <1>5, RunsKept DEF DeleteQueues, DeleteStage, Leave, Goto, files
  <2>2. Open' = {x}
    <3>1. w \in Deleting /\ pc' = [pc EXCEPT ![r] = w]
      BY <1>1, <1>2, <2>1 DEF Control, Deleting
    <3>. QED
      BY <1>1, <1>2, <1>3, <3>1, OpenToDelete
  <2>. QED
    BY <1>4, <2>1, <2>2 DEF Contract!Feed, Contract!Serve, Contract!TasksOf, Reads
<1>6. ASSUME DeleteTags(r) PROVE Contract!Run(None)
  <2>1. /\ pc' = [pc EXCEPT ![r] = "delpkg"] /\ tags' = None
        /\ UNCHANGED <<spec, cron, queues>>
    BY <1>6 DEF DeleteTags, Goto
  <2>2. Open' = {x}
    <3>1. w \in Deleting /\ pc' = [pc EXCEPT ![r] = w]
      BY <1>1, <1>2, <2>1 DEF Control, Deleting
    <3>. QED
      BY <1>1, <1>2, <1>3, <3>1, OpenToDelete
  <2>. QED
    BY <1>4, <2>1, <2>2 DEF Contract!Run, Contract!ImageOf, Reads, Runs
<1>7. ASSUME DeleteSpec(r) PROVE Contract!Show(None)
  <2>1. /\ pc' = [pc EXCEPT ![r] = "delfun"] /\ spec' = None
        /\ UNCHANGED <<tags, cron, queues>> /\ Runs' = Runs
    BY <1>7, RunsKept DEF DeleteSpec, Goto
  <2>2. Open' = {x}
    <3>1. w \in Deleting /\ pc' = [pc EXCEPT ![r] = w]
      BY <1>1, <1>2, <2>1 DEF Control, Deleting
    <3>. QED
      BY <1>1, <1>2, <1>3, <3>1, OpenToDelete
  <2>. QED
    BY <1>4, <2>1, <2>2 DEF Contract!Show, Reads
<1>8. ASSUME DeleteFunction(r) PROVE Contract!Answer(None)
  <2>1. /\ pc[r] = "delfun" /\ pc' = [pc EXCEPT ![r] = "done"]
        /\ UNCHANGED <<spec, tags, cron, queues>> /\ Runs' = Runs
    BY <1>8, RunsKept DEF DeleteFunction, Goto, files
  <2>2. Open' = {}
    BY <1>2, <1>3, <2>1, OpenEnds
  <2>3. spec = None /\ tags = None /\ cron = {} /\ queues = {}
    BY <1>3, <2>1 DEF DeleteStage
  <2>4. Contract!IsAll(None)
    BY <2>3 DEF Contract!IsAll, Contract!ImageOf, Contract!KeysOf, Contract!TasksOf,
       Contract!Serve, Reads, Runs
  <2>. QED
    BY <2>1, <2>2, <2>4 DEF Contract!Answer, Reads
<1>. QED
  BY <1>1, <1>4, <1>5, <1>6, <1>7, <1>8, StepShows

LEMMA NextContract ==
  IInv /\ IInv' /\ DInv /\ CleanTidy /\ [Next]_vars => [Contract!Next]_(Contract!contractVars)
<1>. SUFFICES ASSUME IInv, IInv', DInv, CleanTidy, [Next]_vars
              PROVE  [Contract!Next]_(Contract!contractVars)
  OBVIOUS
<1>1. CASE ~ clean'
  <2>1. clean' = FALSE
    BY <1>1 DEF IInv, Stored
  <2>. QED
    BY <2>1 DEF Contract!Next
<1>2. CASE clean'
  <2>1. ASSUME UNCHANGED <<spec, tags, cron, queues, pc, ctx, clean>>
        PROVE  UNCHANGED Contract!contractVars
    <3>1. Open' = Open /\ Reads' = Reads /\ Runs' = Runs
      BY <2>1, RunsKept DEF Open, Reads, Idle
    <3>. QED
      BY <2>1, <3>1 DEF Contract!contractVars
  <2>2. ASSUME UNCHANGED vars \/ Age \/ \E v \in timers : Collect(v)
        PROVE  UNCHANGED Contract!contractVars
    BY <2>1, <2>2 DEF vars, Age, Collect, files, told
  <2>3. ASSUME NEW r \in Req, Plan(r) \/ DeleteCron(r)
        PROVE  [Contract!Next]_(Contract!contractVars)
    BY <1>2, <2>3, PlanContract, DeleteCronContract
  <2>4. ASSUME NEW r \in Req, Put(r) \/ Delete(r)
        PROVE  [Contract!Next]_(Contract!contractVars)
    <3>1. clean
      <4>1. (clean' = clean) \/ (clean' = (clean /\ faults' = faults))
        BY <2>4 DEF Put, Accept, Start, Package, CreateFunction, SetConf, SetCode, TurnAround,
           Missing, ClearCron, RegisterCron, UpdateTasks, ChangeConf, PublishConf, SaveSpec,
           SaveTags, Finalize, Report, Published, Delete, ReadSpec, DeleteQueues, DeleteTags,
           DeletePackage, DeleteSpec, DeleteFunction, told
      <4>. QED
        BY <1>2, <4>1
    <3>2. Tidy
      BY <3>1 DEF CleanTidy
    <3>. QED
      BY <1>2, <2>4, <3>1, <3>2, NotMissing, HiddenSteps, CronContract, TasksContract,
         FinalizeContract, ReportContract, DeleteContract DEF Put, Delete, SaveSpec, SaveTags
  <2>5. ASSUME NEW r \in Req, Breaks(r) PROVE FALSE
    BY <1>2, <2>5 DEF Breaks, StageThrows, TasksThrow, AcceptThrows, EndThrows, DeleteThrows,
       Crash, Fault
  <2>. QED
    BY <2>2, <2>3, <2>4, <2>5 DEF Next
<1>. QED
  BY <1>1, <1>2

LEMMA InitContract == Init => Contract!Init
<1>. SUFFICES ASSUME Init PROVE Contract!Init
  OBVIOUS
<1>1. IInv /\ Tidy /\ clean = TRUE /\ \A r \in Req : Idle(r)
  BY InitInv, InitTidy DEF Init, CleanTidy, Idle
<1>2. Contract!IsAll(Reads)
  BY <1>1, RestIsAll DEF Tidy
<1>3. Reads \in Content \cup {None}
  BY <1>1 DEF IInv, Stored, Reads, Spec0
<1>4. Open = {}
  BY <1>1 DEF Open
<1>. QED
  BY <1>1, <1>2, <1>3, <1>4 DEF Contract!Init

\* Requests that follow each other without a fault keep FunctionContract: whatever the
\* function was and whatever is asked for, each kind of reader sees it as it was or as it
\* is to be, task routes that stay keep their queues, and the answer comes when all see
\* what was asked for.
THEOREM BuildImplementsContract == Spec => ImplementsContract
BY Invariant, InitTidy, NextTidy, InitDated, NextDated, InitContract, NextContract, PTL
   DEF Spec, ImplementsContract, Contract!Spec

=============================================================================
