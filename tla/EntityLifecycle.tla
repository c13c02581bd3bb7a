-------------------------- MODULE EntityLifecycle --------------------------
(***************************************************************************)
(* The life of integrations and connectors: the requests that create,      *)
(* update, delete and tag an entity (BaseEntityService.ts), run by several *)
(* processes over the shared `entity` table (EntityStore) and over the     *)
(* deployed functions.                                                     *)
(*                                                                         *)
(* A request answers its caller once it has marked the row "processing"    *)
(* and goes on in a setImmediate callback: it builds the function, waits   *)
(* for the build and writes the outcome.  Each await is a point where      *)
(* other requests run, so each stretch between two awaits is one action:   *)
(*                                                                         *)
(*   create   CreateEntity; BuildStart; WaitBuild; Commit or Abort         *)
(*   update   GetEntity; Mark; BuildStart; WaitBuild; Commit or Abort;     *)
(*            Fallback when that write fails                               *)
(*   delete   GetEntity; Mark; Remove; Undeploy                            *)
(*   tags     SetTag or DeleteTag, one statement                           *)
(*                                                                         *)
(* A request that is refused before it changes anything (400, 404, 409) is *)
(* an action that is not enabled.                                          *)
(***************************************************************************)
EXTENDS EntityStore, FiniteSets

CONSTANTS Req,            \* the requests; each is used once, which bounds a run
          Data,           \* the values of entity.data
          BadData,        \* those that sanitizeEntity throws on
          NoData,         \* no function is deployed
          Tag,
          NoTag,          \* marks a PUT whose body has no `tags`
          NoCall,         \* a request not made yet
          ExpiringKeys,   \* keys whose entity was given an `expires`
          MaxFaults,      \* bound: crashes and failed calls
          MaxOld          \* bound: entities that are there at the start

VARIABLES fn,       \* fn[k]: the data that invocations of k's function run
          pc,       \* pc[r]: where request r is
          call,     \* call[r]: what r was asked
          held,     \* held[r]: the row r holds in memory (existingEntity)
          job,      \* job[r]: the build that r started
          faults,   \* how many calls failed or processes died
          clean     \* history: keys untouched by overlap, timeout, fault, expiry

requestVars == <<pc, call, held, job>>
vars == <<storeVars, fn, requestVars, faults, clean>>

NoTags == {NoTag}

State  == {"creating", "invalid", "active"}
Op     == {"creating", "updating", "deleting"}
Status == {"processing", "success", "failed"}

Body == [data : Data, tags : SUBSET Tag, state : State, op : Op, status : Status]
EntityRow == Row(Body)
\* What readers see of a row.
ViewRow == [ver : Nat \ {0}, state : State, data : Data, tags : SUBSET Tag]

Kind == {"create", "update", "delete", "tag"}
Call == [kind : Kind, id : Key, data : Data \cup {NoData},
         tags : (SUBSET Tag) \cup {NoTags}, ver : Nat]

Ended == {"done", "refused", "lost"}
Working == {"mark", "build", "wait", "commit", "abort", "fallback", "remove", "undeploy"}

ASSUME ConstantsOK ==
  /\ BadData \subseteq Data
  /\ NoData \notin Data
  /\ NoTag \notin Tag
  /\ NoRow \notin EntityRow \cup ViewRow
  /\ NoCall \notin Call
  /\ ExpiringKeys \subseteq Key
  /\ MaxFaults \in Nat
  /\ MaxOld \in Nat

TypeOK ==
  /\ StoreTypeOK(Body)
  /\ fn \in [Key -> Data \cup {NoData}]
  /\ pc \in [Req -> {"idle"} \cup Working \cup Ended]
  /\ call \in [Req -> Call \cup {NoCall}]
  /\ held \in [Req -> EntityRow \cup {NoRow}]
  /\ job \in [Req -> {"none", "running", "success", "failed"}]
  /\ faults \in 0 .. MaxFaults
  /\ clean \in SUBSET Key

\* An entity whose creation succeeded, unchanged since.
Settled(d) == [data |-> d, tags |-> {}, state |-> "active",
               op |-> "creating", status |-> "success"]

Init ==
  /\ \E S \in SUBSET Key : \E d \in [S -> Data \ BadData], v \in [S -> 1 .. MaxOld] :
       /\ StoreInit([k \in S |-> Settled(d[k])], v, MaxOld)
       /\ fn = [k \in Key |-> IF k \in S THEN d[k] ELSE NoData]
  /\ pc = [r \in Req |-> "idle"]
  /\ call = [r \in Req |-> NoCall]
  /\ held = [r \in Req |-> NoRow]
  /\ job = [r \in Req |-> "none"]
  /\ faults = 0
  /\ clean = Key

----------------------------------------------------------------------------
(***************************************************************************)
(* Requests.                                                               *)
(***************************************************************************)
OnKey(k) == {r \in Req : pc[r] \in Working /\ call[r].id = k}

Goto(r, where) == pc' = [pc EXCEPT ![r] = where]

Begin(r, c, where) ==
  /\ pc[r] = "idle"
  /\ Goto(r, where)
  /\ call' = [call EXCEPT ![r] = c]
  /\ clean' = IF OnKey(c.id) = {} THEN clean ELSE clean \ {c.id}

Fault == faults < MaxFaults /\ faults' = faults + 1

\* A call that fails, or a process that dies, while r works.
FaultOf(r) == Fault /\ clean' = clean \ {call[r].id}

\* The version that the service sees: crud.ts picks id, tags, data and expires
\* out of a PUT's body, and takes a DELETE's version from the query.
ServiceVersion(c) == IF c.kind = "update" THEN NoVersion ELSE c.ver

\* updateOperationStatus, keeping the state.
Noted(b, op, status) == [b EXCEPT !.op = op, !.status = status]

Doing(kind) == CASE kind = "create" -> "creating"
                 [] kind = "update" -> "updating"
                 [] OTHER -> "deleting"

\* Slip: the request's tags are written as they are.
OutcomeNoCoalesce(r) ==
  [data |-> call[r].data, tags |-> call[r].tags, state |-> "active",
   op |-> Doing(call[r].kind), status |-> "success"]

\* What r writes when its build succeeded: COALESCE keeps the row's tags when
\* the request has none.
Outcome(r) ==
  [data   |-> call[r].data,
   tags   |-> IF call[r].tags = NoTags THEN table[call[r].id].body.tags ELSE call[r].tags,
   state  |-> "active",
   op     |-> Doing(call[r].kind),
   status |-> "success"]

\* Slip: every failure makes the entity invalid.
FailureInvalid(r) ==
  [Noted(held[r].body, Doing(call[r].kind), "failed") EXCEPT !.state = "invalid"]

\* What r writes when its build failed: an update rewrites the row it found.
Failure(r) ==
  [Noted(held[r].body, Doing(call[r].kind), "failed")
     EXCEPT !.state = IF call[r].kind = "create" THEN "invalid" ELSE @]

\* Slip: the last write of an update or a delete forgets the version.
FinalVersionDropped(r) == IF call[r].kind = "create" THEN held[r].ver ELSE NoVersion

\* The version that r's last write insists on: the mark's version when the
\* entity carries one (a created entity does, a deleted one if the caller gave it).
FinalVersion(r) ==
  IF call[r].kind = "create" \/ ServiceVersion(call[r]) # NoVersion
  THEN held[r].ver ELSE NoVersion

\* Slip: nothing is tried after a final update that throws.
GiveUp(r) == "done"

\* A final update that throws: create gives up, update tries to note a failure.
AfterError(r) == IF call[r].kind = "create" THEN "done" ELSE "fallback"

----------------------------------------------------------------------------
(***************************************************************************)
(* The part before the answer.                                             *)
(***************************************************************************)

\* createEntity: the insert fails (400) when the id is taken.
CreateEntity(r, k, d, t) ==
  LET tags == IF t = NoTags THEN {} ELSE t
      row == [data |-> d, tags |-> tags, state |-> "creating",
              op |-> "creating", status |-> "processing"]
  IN /\ d \notin BadData
     /\ Begin(r, [kind |-> "create", id |-> k, data |-> d, tags |-> t, ver |-> NoVersion],
              "build")
     /\ InsertRow(k, row)
     /\ held' = [held EXCEPT ![r] = Stamped(row)]
     /\ UNCHANGED <<fn, job, faults>>

\* updateEntity and deleteEntity read the row and check the caller's version.
GetEntity(r, c) ==
  /\ Live(c.id)
  /\ VersionMatches(c.id, ServiceVersion(c))
  /\ Begin(r, c, "mark")
  /\ held' = [held EXCEPT ![r] = table[c.id]]
  /\ UNCHANGED <<storeVars, fn, job, faults>>

\* A caller knows versions that the API has returned.
GetForUpdate(r, k, d, t, v) ==
  GetEntity(r, [kind |-> "update", id |-> k, data |-> d, tags |-> t, ver |-> v])

GetForDelete(r, k, v) ==
  GetEntity(r, [kind |-> "delete", id |-> k, data |-> NoData, tags |-> NoTags, ver |-> v])

\* The first write is conditional on the row that was just read.
MarkRow(r, b) == UpdateRow(call[r].id, held[r].ver, b)

\* Slip: the failure is noted on the entity of the request.
UpdateRejectStores(r) ==
  /\ pc[r] = "mark" /\ call[r].kind = "update" /\ call[r].data \in BadData
  /\ MarkRow(r, [Noted(held[r].body, "updating", "failed") EXCEPT !.data = call[r].data])
  /\ Goto(r, "refused")
  /\ UNCHANGED <<fn, call, held, job, faults, clean>>

\* updateEntity when sanitizeEntity throws: the failure is noted, and answered.
UpdateReject(r) ==
  /\ pc[r] = "mark" /\ call[r].kind = "update" /\ call[r].data \in BadData
  /\ MarkRow(r, Noted(held[r].body, "updating", "failed"))
  /\ Goto(r, "refused")
  /\ UNCHANGED <<fn, call, held, job, faults, clean>>

Mark(r) ==
  LET b == Noted(held[r].body, Doing(call[r].kind), "processing")
  IN /\ pc[r] = "mark" /\ call[r].data \notin BadData
     /\ MarkRow(r, b)
     /\ held' = [held EXCEPT ![r] = Stamped(b)]
     /\ Goto(r, IF call[r].kind = "update" THEN "build" ELSE "remove")
     /\ UNCHANGED <<fn, call, job, faults, clean>>

\* The row changed or went away since it was read: 409 or 404.
MarkFails(r) ==
  /\ pc[r] = "mark"
  /\ ~ CanUpdate(call[r].id, held[r].ver)
  /\ Goto(r, "refused")
  /\ UNCHANGED <<storeVars, fn, call, held, job, faults, clean>>

----------------------------------------------------------------------------
(***************************************************************************)
(* createEntityOperation: createFunction, then waitForFunctionBuild.       *)
(***************************************************************************)

\* put_function answers 204: the specification is the one deployed.
BuildUnchanged(r) ==
  /\ pc[r] = "build"
  /\ fn[call[r].id] = call[r].data
  /\ Goto(r, "commit")
  /\ UNCHANGED <<storeVars, fn, call, held, job, faults, clean>>

BuildStart(r) ==
  /\ pc[r] = "build"
  /\ fn[call[r].id] # call[r].data
  /\ job' = [job EXCEPT ![r] = "running"]
  /\ Goto(r, "wait")
  /\ UNCHANGED <<storeVars, fn, call, held, faults, clean>>

\* put_function answers an error.
BuildRefused(r) ==
  /\ pc[r] = "build"
  /\ Goto(r, "abort")
  /\ UNCHANGED <<storeVars, fn, call, held, job, faults, clean>>

\* The builder lambda, a process of its own, finishes: only a successful build
\* records the new specification.
BuildSucceeds(r) ==
  /\ job[r] = "running"
  /\ job' = [job EXCEPT ![r] = "success"]
  /\ fn' = [fn EXCEPT ![call[r].id] = call[r].data]
  /\ UNCHANGED <<storeVars, pc, call, held, faults, clean>>

BuildFails(r) ==
  /\ job[r] = "running"
  /\ job' = [job EXCEPT ![r] = "failed"]
  /\ UNCHANGED <<storeVars, fn, pc, call, held, faults, clean>>

\* Slip: the answer of get_function_build is not looked at.
WaitAnyBuild(r) ==
  /\ pc[r] = "wait"
  /\ job[r] \in {"success", "failed"}
  /\ Goto(r, "commit")
  /\ UNCHANGED <<storeVars, fn, call, held, job, faults, clean>>

WaitBuild(r) ==
  /\ pc[r] = "wait"
  /\ job[r] \in {"success", "failed"}
  /\ Goto(r, IF job[r] = "success" THEN "commit" ELSE "abort")
  /\ UNCHANGED <<storeVars, fn, call, held, job, faults, clean>>

\* Slip: only a build that has ended is given up.
WaitForever(r) ==
  /\ pc[r] = "wait"
  /\ job[r] = "failed"
  /\ Goto(r, "abort")
  /\ UNCHANGED <<storeVars, fn, call, held, job, faults, clean>>

\* 100 seconds are over (408); the builder goes on.
WaitTimeout(r) ==
  /\ pc[r] = "wait"
  /\ job[r] = "running"
  /\ Goto(r, "abort")
  /\ clean' = clean \ {call[r].id}
  /\ UNCHANGED <<storeVars, fn, call, held, job, faults>>

----------------------------------------------------------------------------
(***************************************************************************)
(* The part after the answer.                                              *)
(***************************************************************************)
Commit(r) ==
  /\ pc[r] = "commit"
  /\ UpdateRow(call[r].id, FinalVersion(r), Outcome(r))
  /\ Goto(r, "done")
  /\ UNCHANGED <<fn, call, held, job, faults, clean>>

CommitFails(r) ==
  /\ pc[r] = "commit"
  /\ ~ CanUpdate(call[r].id, FinalVersion(r))
  /\ Goto(r, AfterError(r))
  /\ UNCHANGED <<storeVars, fn, call, held, job, faults, clean>>

Abort(r) ==
  /\ pc[r] = "abort"
  /\ UpdateRow(call[r].id, held[r].ver, Failure(r))
  /\ Goto(r, "done")
  /\ UNCHANGED <<fn, call, held, job, faults, clean>>

AbortFails(r) ==
  /\ pc[r] = "abort"
  /\ ~ CanUpdate(call[r].id, held[r].ver)
  /\ Goto(r, AfterError(r))
  /\ UNCHANGED <<storeVars, fn, call, held, job, faults, clean>>

\* updateEntity's second try, "into a failed state".
Fallback(r) ==
  /\ pc[r] = "fallback"
  /\ UpdateRow(call[r].id, held[r].ver, Failure(r))
  /\ Goto(r, "done")
  /\ UNCHANGED <<fn, call, held, job, faults, clean>>

FallbackFails(r) ==
  /\ pc[r] = "fallback"
  /\ ~ CanUpdate(call[r].id, held[r].ver)
  /\ Goto(r, "done")
  /\ UNCHANGED <<storeVars, fn, call, held, job, faults, clean>>

\* deleteEntity's callback: the row first, the function when that worked.
Remove(r) ==
  /\ pc[r] = "remove"
  /\ DeleteRow(call[r].id, FinalVersion(r))
  /\ Goto(r, "undeploy")
  /\ UNCHANGED <<fn, call, held, job, faults, clean>>

RemoveFails(r) ==
  /\ pc[r] = "remove"
  /\ ~ CanDelete(call[r].id, FinalVersion(r))
  /\ Goto(r, "done")
  /\ UNCHANGED <<storeVars, fn, call, held, job, faults, clean>>

Undeploy(r) ==
  /\ pc[r] = "undeploy"
  /\ fn' = [fn EXCEPT ![call[r].id] = NoData]
  /\ Goto(r, "done")
  /\ UNCHANGED <<storeVars, call, held, job, faults, clean>>

----------------------------------------------------------------------------
(***************************************************************************)
(* Tags, time and faults.                                                  *)
(***************************************************************************)

\* setEntityTag and deleteEntityTag: one unconditional statement, whatever
\* operation is in progress on the entity.
WriteTags(r, k, t) ==
  /\ Begin(r, [kind |-> "tag", id |-> k, data |-> NoData, tags |-> t, ver |-> NoVersion],
           "done")
  /\ UpdateRow(k, NoVersion, [table[k].body EXCEPT !.tags = t])
  /\ UNCHANGED <<fn, held, job, faults>>

SetTag(r, k, tag) == Live(k) /\ WriteTags(r, k, table[k].body.tags \cup {tag})

DeleteTag(r, k, tag) == Live(k) /\ WriteTags(r, k, table[k].body.tags \ {tag})

\* The time in `expires` comes.
ExpireEntity(k) ==
  /\ k \in ExpiringKeys
  /\ Expire(k)
  /\ clean' = clean \ {k}
  /\ UNCHANGED <<fn, requestVars, faults>>

Purge ==
  /\ PurgeExpiredItems
  /\ UNCHANGED <<fn, requestVars, faults, clean>>

\* The process that runs r dies.
Crash(r) ==
  /\ pc[r] \in Working
  /\ FaultOf(r)
  /\ Goto(r, "lost")
  /\ UNCHANGED <<storeVars, fn, call, held, job>>

\* A last write throws though the row allowed it, before or after it happened.
CommitThrows(r) ==
  /\ pc[r] = "commit"
  /\ FaultOf(r)
  /\ Goto(r, AfterError(r))
  /\ \/ UpdateRow(call[r].id, FinalVersion(r), Outcome(r))
     \/ UNCHANGED storeVars
  /\ UNCHANGED <<fn, call, held, job>>

\* The other last writes throw; after an abort, an update tries once more.
WriteThrows(r) ==
  /\ pc[r] \in {"abort", "fallback", "remove"}
  /\ FaultOf(r)
  /\ Goto(r, IF pc[r] = "abort" THEN AfterError(r) ELSE "done")
  /\ UNCHANGED <<storeVars, fn, call, held, job>>

\* deleteFunction throws; deleteEntity eats the error.
UndeployThrows(r) ==
  /\ pc[r] = "undeploy"
  /\ FaultOf(r)
  /\ Goto(r, "done")
  /\ UNCHANGED <<storeVars, fn, call, held, job>>

----------------------------------------------------------------------------
Ask(r) ==
  \E k \in Key :
    \/ \E d \in Data, t \in (SUBSET Tag) \cup {NoTags} :
         \/ CreateEntity(r, k, d, t)
         \/ \E v \in {NoVersion} \cup 1 .. clock : GetForUpdate(r, k, d, t, v)
    \/ \E v \in {NoVersion} \cup 1 .. clock : GetForDelete(r, k, v)
    \/ \E tag \in Tag : SetTag(r, k, tag) \/ DeleteTag(r, k, tag)

Answer(r) == UpdateReject(r) \/ Mark(r) \/ MarkFails(r)

Build(r) == BuildUnchanged(r) \/ BuildStart(r) \/ BuildRefused(r) \/ WaitBuild(r) \/ WaitTimeout(r)

Finish(r) == \/ Commit(r) \/ CommitFails(r) \/ Abort(r) \/ AbortFails(r)
             \/ Fallback(r) \/ FallbackFails(r)
             \/ Remove(r) \/ RemoveFails(r) \/ Undeploy(r)

Builder(r) == BuildSucceeds(r) \/ BuildFails(r)

Break(r) == Crash(r) \/ CommitThrows(r) \/ WriteThrows(r) \/ UndeployThrows(r)

Next ==
  \/ \E r \in Req : Ask(r) \/ Answer(r) \/ Build(r) \/ Finish(r) \/ Builder(r) \/ Break(r)
  \/ \E k \in Key : ExpireEntity(k)
  \/ Purge

Spec == Init /\ [][Next]_vars

\* Node runs the callback that setImmediate queued, and every await in it ends:
\* the calls answer or throw, the wait for a build stops after 100 seconds.
\* Nothing is assumed of clients, of the builder, of time or of the purge.
Fairness == \A r \in Req : WF_vars(Answer(r) \/ Build(r) \/ Finish(r))

FairSpec == Spec /\ Fairness

----------------------------------------------------------------------------
(***************************************************************************)
(* What should hold.                                                       *)
(***************************************************************************)

\* A version names one content of one entity, for good: versions in the table
\* differ, and a request that holds a version the table still has holds the very
\* row.  Optimistic concurrency in entity.ts rests on this.
TableVersions ==
  \A k \in Key : Present(k) =>
    /\ table[k].ver <= clock
    /\ \A l \in Key : Present(l) /\ table[l].ver = table[k].ver => l = k

HeldVersions ==
  \A r \in Req : held[r] # NoRow =>
    /\ held[r].ver <= clock
    /\ \A k \in Key : Present(k) /\ table[k].ver = held[r].ver =>
         k = call[r].id /\ table[k] = held[r]

VersionIdentifiesRow == TableVersions /\ HeldVersions

\* The row of k says what r's mark says: the mark itself, or a copy of it.
ShowsMark(r, k) ==
  /\ call[r] # NoCall /\ call[r].id = k /\ held[r] # NoRow
  /\ table[k].body.op = Doing(call[r].kind)

TagWritten(k) == \E q \in Req : call[q] # NoCall /\ call[q].kind = "tag" /\ call[q].id = k

\* How r may leave its mark on k: its process died; its last write threw, of an
\* update both tries; or a tag write gave the mark a new version, on which the last
\* writes conflict, but for those that insist on none.
LeavesMark(r, k) ==
  /\ ShowsMark(r, k)
  /\ \/ pc[r] = "lost"
     \/ pc[r] = "done" /\ faults >= IF call[r].kind = "update" THEN 2 ELSE 1
     \/ /\ pc[r] = "done" /\ held[r].ver # table[k].ver /\ TagWritten(k)
        /\ call[r].kind = "delete" => call[r].ver # NoVersion

\* A reader who polls operationState is left waiting for nobody only in the ways of
\* LeavesMark, and never by requests that came one after the other without a fault.
\* Neither a failed build nor requests that mark, write and remove the row under each
\* other leave "processing" behind: the last to mark it replaces its mark
\* (BaseEntityService.ts:226-231, 330-346 and 380-388).
StuckExplained ==
  \A k \in Key :
    Live(k) /\ table[k].body.status = "processing" /\ OnKey(k) = {}
    => k \notin clean /\ \E r \in Req : LeavesMark(r, k)

\* When the requests on an entity came one after the other and nothing failed, the
\* entity and its function agree: an active entity runs its data, and an invalid or
\* deleted one has no function left.
SerialConsistent ==
  \A k \in clean : OnKey(k) = {} =>
    fn[k] = IF Present(k) /\ table[k].body.state = "active" THEN table[k].body.data ELSE NoData

\* A step of r that writes, while r insists on version v, finds the row of that
\* version, or the very row that r's mark left.
FindsItsRow(r, v) ==
  pc[r] \in {"mark", "commit", "abort", "fallback", "remove"}
    /\ v # NoVersion /\ pc'[r] # pc[r] /\ table' # table
  => IF pc[r] = "mark" THEN table[call[r].id].ver = v ELSE table[call[r].id] = held[r]

\* No request overwrites or removes, on a version that reached the service, what
\* someone else wrote since this version was read.  That of a DELETE always does
\* (crud.ts:130-148), and holds for its mark and for its removal.
ServedConditionalWrite == [][\A r \in Req : FindsItsRow(r, ServiceVersion(call[r]))]_vars

\* The same of every version that a caller gives, that of a PUT included: "Do an
\* initial version check before it gets lost due to updating the operationState"
\* (BaseEntityService.ts:265).
ConditionalWrite == [][\A r \in Req : FindsItsRow(r, call[r].ver)]_vars

\* The entities that readers see obey the contract.
View == [k \in Key |->
  IF Present(k) THEN [ver |-> table[k].ver, state |-> table[k].body.state,
                      data |-> table[k].body.data, tags |-> table[k].body.tags]
                ELSE NoRow]

Contract == INSTANCE EntityContract WITH entity <- View, latest <- clock, Absent <- NoRow

\* Every step of every interleaving, crash and timeout is a step that the contract
\* allows an entity to take: no resurrection, no way back to "creating", no entity
\* that a late failure turns invalid, no data without activation.
ImplementsContract == Contract!Spec

\* Every request ends: the background part writes its outcome, gives up, or dies
\* with its process.  The wait for a build that never answers is cut short.
RequestsEnd == \A r \in Req : pc[r] \in Working ~> pc[r] \in Ended

\* api_v2.yaml:1265-1266: "While the operationState.status value is processing, the
\* entity is still being created", so a request that creates it is at work.
ProcessingMeansInProgress ==
  \A k \in Key :
    Live(k) /\ table[k].body.op = "creating" /\ table[k].body.status = "processing"
    => OnKey(k) # {}

\* api_v2.yaml:1266-1267: "Once the operationState.status value is success, the entity
\* is available for use", so a function is deployed for it.
SuccessMeansAvailable ==
  \A k \in Key :
    Live(k) /\ table[k].body.op = "creating" /\ table[k].body.status = "success"
    => fn[k] # NoData

=============================================================================
