---------------------- MODULE EntityLifecycleProofs ------------------------
(***************************************************************************)
(* Theorems about EntityLifecycle for any number of entities, requests,    *)
(* data and tags, and for any number of faults.                            *)
(*                                                                         *)
(* The inductive invariant is TypeOK, the control facts of each request    *)
(* (Control) and VersionIdentifiesRow.  From it follow the two action      *)
(* properties: what a conditional request may overwrite, and that each     *)
(* step is one the contract allows.  What requests leave behind rests on   *)
(* two invariants of their own, Marks and Serial.                          *)
(***************************************************************************)
EXTENDS EntityLifecycle, TLAPS

(***************************************************************************)
(* What a request's program counter says of what it was asked and holds.   *)
(***************************************************************************)
Builds(r) == call[r].kind \in {"create", "update"}

ControlOf(r) ==
  /\ (pc[r] = "idle") <=> (call[r] = NoCall)
  /\ pc[r] = "idle" => held[r] = NoRow /\ job[r] = "none"
  /\ pc[r] \in Working => held[r] # NoRow
  /\ pc[r] = "mark" => call[r].kind \in {"update", "delete"}
  /\ pc[r] \in {"build", "wait", "commit", "abort"} => Builds(r)
  /\ pc[r] = "fallback" => call[r].kind = "update"
  /\ pc[r] \in {"remove", "undeploy"} => call[r].kind = "delete"
  /\ job[r] # "none" => Builds(r)
  /\ call[r] # NoCall /\ Builds(r) => call[r].data \in Data
  /\ call[r] # NoCall /\ call[r].kind = "create" /\ held[r] # NoRow =>
       held[r].body.state = "creating"
  /\ pc[r] = "mark" /\ ServiceVersion(call[r]) # NoVersion =>
       held[r].ver = ServiceVersion(call[r])

Control == \A r \in Req : ControlOf(r)

IInv == TypeOK /\ Control /\ VersionIdentifiesRow

----------------------------------------------------------------------------
(***************************************************************************)
(* The statements of the store keep its type.                              *)
(***************************************************************************)

\* A row that is written has a proper version.
LEMMA StampedRow ==
  ASSUME clock \in Nat, NEW b \in Body
  PROVE  Stamped(b) \in EntityRow
  BY DEF Stamped, EntityRow, Row

\* Each statement maps a well-typed table to a well-typed table.
LEMMA InsertType ==
  ASSUME StoreTypeOK(Body), NEW k \in Key, NEW b \in Body, InsertRow(k, b)
  PROVE  StoreTypeOK(Body)'
  BY StampedRow DEF StoreTypeOK, InsertRow, EntityRow

LEMMA UpdateType ==
  ASSUME StoreTypeOK(Body), NEW k \in Key, NEW v, NEW b \in Body, UpdateRow(k, v, b)
  PROVE  StoreTypeOK(Body)'
  BY StampedRow DEF StoreTypeOK, UpdateRow, EntityRow

LEMMA DeleteType ==
  ASSUME StoreTypeOK(Body), NEW k \in Key, NEW v, DeleteRow(k, v)
  PROVE  StoreTypeOK(Body)'
  BY DEF StoreTypeOK, DeleteRow

LEMMA ExpireType ==
  ASSUME StoreTypeOK(Body), NEW k \in Key, Expire(k)
  PROVE  StoreTypeOK(Body)'
  BY DEF StoreTypeOK, Expire

LEMMA PurgeType ==
  ASSUME StoreTypeOK(Body), PurgeExpiredItems
  PROVE  StoreTypeOK(Body)'
  BY DEF StoreTypeOK, PurgeExpiredItems

\* A row that is there is a row.
LEMMA PresentRow ==
  ASSUME TypeOK, NEW k \in Key, Present(k)
  PROVE  table[k] \in EntityRow /\ table[k].ver \in Nat \ {0} /\ table[k].body \in Body
  BY DEF TypeOK, StoreTypeOK, Present, EntityRow, Row

\* So is what a working request holds; and it works on an entity of the table.
LEMMA WorkingRequest ==
  ASSUME TypeOK, Control, NEW r \in Req, pc[r] \in Working
  PROVE  /\ held[r] \in EntityRow /\ held[r].ver \in Nat \ {0} /\ held[r].body \in Body
         /\ call[r] \in Call /\ call[r].id \in Key
  <1>1. held[r] # NoRow /\ call[r] # NoCall
    BY DEF Control, ControlOf, Working
  <1>2. held[r] \in EntityRow /\ call[r] \in Call
    BY <1>1 DEF TypeOK
  <1> QED BY <1>2 DEF EntityRow, Row, Call

\* The bodies that a request writes are well typed.
LEMMA NotedBody ==
  ASSUME NEW b \in Body, NEW o \in Op, NEW s \in Status
  PROVE  Noted(b, o, s) \in Body
  BY DEF Noted, Body, Op, Status

LEMMA DoingOp ==
  ASSUME NEW k
  PROVE  Doing(k) \in Op
  BY DEF Doing, Op

LEMMA OutcomeBody ==
  ASSUME TypeOK, Control, NEW r \in Req, pc[r] = "commit", Live(call[r].id)
  PROVE  Outcome(r) \in Body
  <1>1. call[r] \in Call /\ call[r].id \in Key
    BY WorkingRequest DEF Working
  <1>2. call[r] # NoCall /\ call[r].data \in Data
    BY ConstantsOK, <1>1 DEF Control, ControlOf, ConstantsOK
  <1>3. table[call[r].id].body \in Body
    BY <1>1, PresentRow DEF Live
  <1>4. Doing(call[r].kind) \in Op
    BY DoingOp
  <1> QED BY <1>1, <1>2, <1>3, <1>4 DEF Outcome, Body, Call, State, Status

LEMMA FailureBody ==
  ASSUME TypeOK, Control, NEW r \in Req, pc[r] \in Working
  PROVE  Failure(r) \in Body
  <1>1. held[r].body \in Body
    BY WorkingRequest
  <1>2. Noted(held[r].body, Doing(call[r].kind), "failed") \in Body
    BY <1>1, NotedBody, DoingOp DEF Status
  <1> QED BY <1>2 DEF Failure, Body, State

----------------------------------------------------------------------------
(***************************************************************************)
(* How versions and control survive a step.                                *)
(***************************************************************************)

\* A step of r leaves the control facts of the other requests alone.
LEMMA ControlElsewhere ==
  ASSUME Control, NEW r \in Req, ControlOf(r)',
         \A s \in Req \ {r} : /\ pc'[s] = pc[s] /\ call'[s] = call[s]
                              /\ held'[s] = held[s] /\ job'[s] = job[s]
  PROVE  Control'
  <1> SUFFICES ASSUME NEW s \in Req, s # r PROVE ControlOf(s)'
    BY DEF Control
  <1>1. pc'[s] = pc[s] /\ call'[s] = call[s] /\ held'[s] = held[s] /\ job'[s] = job[s]
    OBVIOUS
  <1>2. ControlOf(s)
    BY DEF Control
  <1> QED BY <1>1, <1>2 DEF ControlOf, Builds, ServiceVersion

\* Writing a row under a fresh version keeps versions unambiguous, when each
\* request holds what it held or the row just written.
LEMMA WriteVersions ==
  ASSUME TypeOK, VersionIdentifiesRow, NEW k \in Key, NEW b \in Body,
         table' = [table EXCEPT ![k] = Stamped(b)], clock' = clock + 1,
         \A r \in Req : \/ held'[r] = NoRow
                        \/ held'[r] = held[r] /\ call'[r].id = call[r].id
                        \/ held'[r] = Stamped(b) /\ call'[r].id = k
  PROVE  VersionIdentifiesRow'
  <1>1. clock \in Nat /\ table \in [Key -> EntityRow \cup {NoRow}]
    BY DEF TypeOK, StoreTypeOK, EntityRow
  <1>2. Stamped(b) \in EntityRow /\ Stamped(b).ver = clock + 1
    BY <1>1, StampedRow DEF Stamped
  <1>3. \A l \in Key : /\ Present(l)' => l = k \/ Present(l)
                       /\ l # k => table'[l] = table[l]
                       /\ l = k => table'[l] = Stamped(b)
    BY <1>1 DEF Present
  <1>4. \A l \in Key : Present(l) => table[l] \in EntityRow /\ table[l].ver \in Nat
    BY PresentRow
  <1>5. TableVersions'
    BY <1>1, <1>2, <1>3, <1>4 DEF VersionIdentifiesRow, TableVersions
  <1>6. HeldVersions'
    <2> SUFFICES ASSUME NEW r \in Req, held'[r] # NoRow
                 PROVE  /\ held'[r].ver <= clock'
                        /\ \A l \in Key : Present(l)' /\ table'[l].ver = held'[r].ver =>
                             l = call'[r].id /\ table'[l] = held'[r]
      BY DEF HeldVersions
    <2>1. CASE held'[r] = held[r] /\ call'[r].id = call[r].id
      <3>1. held[r] \in EntityRow /\ held[r].ver \in Nat
        BY <2>1 DEF TypeOK, EntityRow, Row
      <3>2. held[r].ver <= clock /\ held[r].ver # clock + 1
        BY <1>1, <2>1, <3>1 DEF VersionIdentifiesRow, HeldVersions
      <3> QED BY <1>1, <1>2, <1>3, <2>1, <3>1, <3>2 DEF VersionIdentifiesRow, HeldVersions
    <2>2. CASE held'[r] = Stamped(b) /\ call'[r].id = k
      <3>1. \A l \in Key : Present(l) => table[l].ver # clock + 1
        BY <1>1, <1>4 DEF VersionIdentifiesRow, TableVersions
      <3> QED BY <1>1, <1>2, <1>3, <2>2, <3>1
    <2> QED BY <2>1, <2>2
  <1> QED BY <1>5, <1>6 DEF VersionIdentifiesRow

\* So does a step that writes no row: it may remove rows, and requests may read
\* what the table has.
LEMMA ReadVersions ==
  ASSUME TypeOK, VersionIdentifiesRow, clock' = clock,
         \A k \in Key : table'[k] \in {table[k], NoRow},
         \A r \in Req : \/ held'[r] = NoRow
                        \/ held'[r] = held[r] /\ call'[r].id = call[r].id
                        \/ /\ call'[r].id \in Key /\ Present(call'[r].id)
                           /\ held'[r] = table[call'[r].id]
  PROVE  VersionIdentifiesRow'
  <1>1. \A k \in Key : Present(k)' => Present(k) /\ table'[k] = table[k]
    BY DEF Present
  <1>2. TableVersions'
    BY <1>1 DEF VersionIdentifiesRow, TableVersions
  <1>3. HeldVersions'
    <2> SUFFICES ASSUME NEW r \in Req, held'[r] # NoRow
                 PROVE  /\ held'[r].ver <= clock'
                        /\ \A k \in Key : Present(k)' /\ table'[k].ver = held'[r].ver =>
                             k = call'[r].id /\ table'[k] = held'[r]
      BY DEF HeldVersions
    <2>1. CASE held'[r] = held[r] /\ call'[r].id = call[r].id
      BY <1>1, <2>1 DEF VersionIdentifiesRow, HeldVersions
    <2>2. CASE /\ call'[r].id \in Key /\ Present(call'[r].id)
               /\ held'[r] = table[call'[r].id]
      BY <1>1, <2>2 DEF VersionIdentifiesRow, TableVersions
    <2> QED BY <2>1, <2>2
  <1> QED BY <1>2, <1>3 DEF VersionIdentifiesRow

----------------------------------------------------------------------------
(***************************************************************************)
(* The invariant is inductive: the initial states.                         *)
(***************************************************************************)

\* The table that earlier requests left has distinct versions, up to the clock.
LEMMA InitInvariant == Init => IInv
  <1> SUFFICES ASSUME Init PROVE IInv
    OBVIOUS
  <1>1. PICK S \in SUBSET Key : \E d \in [S -> Data \ BadData], v \in [S -> 1 .. MaxOld] :
          /\ StoreInit([k \in S |-> Settled(d[k])], v, MaxOld)
          /\ fn = [k \in Key |-> IF k \in S THEN d[k] ELSE NoData]
    BY DEF Init
  <1>2. PICK d \in [S -> Data \ BadData], v \in [S -> 1 .. MaxOld] :
          /\ StoreInit([k \in S |-> Settled(d[k])], v, MaxOld)
          /\ fn = [k \in Key |-> IF k \in S THEN d[k] ELSE NoData]
    BY <1>1
  <1>3. \A k \in S : Settled(d[k]) \in Body
    BY DEF Settled, Body, State, Op, Status
  <1>4. MaxOld \in Nat
    BY ConstantsOK DEF ConstantsOK
  <1>5. StoreTypeOK(Body)
    <2>1. \A k \in S : [ver |-> v[k], body |-> Settled(d[k])] \in Row(Body)
      BY <1>3, <1>4 DEF Row
    <2>2. table = [k \in Key |-> IF k \in S THEN [ver |-> v[k], body |-> Settled(d[k])]
                                            ELSE NoRow]
      BY <1>2 DEF StoreInit
    <2>3. table \in [Key -> Row(Body) \cup {NoRow}]
      BY <2>1, <2>2
    <2> QED BY <1>2, <1>4, <2>3 DEF StoreInit, StoreTypeOK
  <1>6. TypeOK
    <2>1. \A k \in Key : (IF k \in S THEN d[k] ELSE NoData) \in Data \cup {NoData}
      OBVIOUS
    <2>2. fn \in [Key -> Data \cup {NoData}]
      BY <1>2, <2>1
    <2>3. /\ pc = [r \in Req |-> "idle"]
          /\ call = [r \in Req |-> NoCall]
          /\ held = [r \in Req |-> NoRow]
          /\ job = [r \in Req |-> "none"]
          /\ faults = 0
          /\ clean = Key
      BY DEF Init
    <2>4. faults \in 0 .. MaxFaults
      BY <2>3, ConstantsOK DEF ConstantsOK
    <2> QED BY <1>5, <2>2, <2>3, <2>4 DEF TypeOK
  <1>7. Control
    BY ConstantsOK DEF Init, Control, ControlOf, Working, ConstantsOK
  <1>8. TableVersions
    BY <1>2, <1>4 DEF StoreInit, TableVersions, Present
  <1>9. HeldVersions
    BY DEF Init, HeldVersions
  <1> QED BY <1>6, <1>7, <1>8, <1>9 DEF IInv, VersionIdentifiesRow

----------------------------------------------------------------------------
(***************************************************************************)
(* The steps, by what they touch.                                          *)
(***************************************************************************)

\* The steps that leave the table, and what requests hold, as they are.
LocalStep(r) ==
  \/ MarkFails(r) \/ BuildUnchanged(r) \/ BuildStart(r) \/ BuildRefused(r)
  \/ WaitBuild(r) \/ WaitTimeout(r) \/ BuildSucceeds(r) \/ BuildFails(r)
  \/ CommitFails(r) \/ AbortFails(r) \/ FallbackFails(r) \/ RemoveFails(r)
  \/ Undeploy(r) \/ Crash(r) \/ WriteThrows(r) \/ UndeployThrows(r)

\* A fault stays within the bound.
LEMMA FaultType ==
  ASSUME TypeOK, Fault
  PROVE  faults' \in 0 .. MaxFaults
  BY ConstantsOK DEF TypeOK, Fault, ConstantsOK

\* Each of them keeps the invariant.
LEMMA LocalStepInvariant ==
  ASSUME IInv, NEW r \in Req, LocalStep(r)
  PROVE  IInv'
  <1> USE DEF IInv
  <1>1. UNCHANGED <<table, clock, expired, call, held>>
    BY DEF LocalStep, MarkFails, BuildUnchanged, BuildStart, BuildRefused, WaitBuild,
           WaitTimeout, BuildSucceeds, BuildFails, CommitFails, AbortFails, FallbackFails,
           RemoveFails, Undeploy, Crash, WriteThrows, UndeployThrows, storeVars
  <1>2. VersionIdentifiesRow'
    BY <1>1, ReadVersions
  <1>3. call[r] # NoCall /\ ControlOf(r)
    BY DEF LocalStep, MarkFails, BuildUnchanged, BuildStart, BuildRefused, WaitBuild,
           WaitTimeout, BuildSucceeds, BuildFails, CommitFails, AbortFails, FallbackFails,
           RemoveFails, Undeploy, Crash, WriteThrows, UndeployThrows, Control, ControlOf,
           Working
  <1>4. call[r] \in Call
    BY <1>3 DEF TypeOK
  <1>5. faults' \in 0 .. MaxFaults
    BY FaultType DEF TypeOK, LocalStep, MarkFails, BuildUnchanged, BuildStart, BuildRefused,
           WaitBuild, WaitTimeout, BuildSucceeds, BuildFails, CommitFails, AbortFails,
           FallbackFails, RemoveFails, Undeploy, Crash, WriteThrows, UndeployThrows, FaultOf
  <1>6. clean' \in SUBSET Key
    BY DEF TypeOK, LocalStep, MarkFails, BuildUnchanged, BuildStart, BuildRefused,
           WaitBuild, WaitTimeout, BuildSucceeds, BuildFails, CommitFails, AbortFails,
           FallbackFails, RemoveFails, Undeploy, Crash, WriteThrows, UndeployThrows, FaultOf
  <1>7. fn' \in [Key -> Data \cup {NoData}]
    <2>1. CASE BuildSucceeds(r)
      <3>1. call[r].data \in Data
        BY <1>3, <2>1 DEF BuildSucceeds, ControlOf
      <3> QED BY <2>1, <3>1 DEF BuildSucceeds, TypeOK
    <2>2. CASE Undeploy(r)
      BY <2>2 DEF Undeploy, TypeOK
    <2> QED
      BY <2>1, <2>2 DEF TypeOK, LocalStep, MarkFails, BuildUnchanged, BuildStart,
         BuildRefused, WaitBuild, WaitTimeout, BuildFails, CommitFails, AbortFails,
         FallbackFails, RemoveFails, Crash, WriteThrows, UndeployThrows
  <1>8. /\ pc' \in [Req -> {"idle"} \cup Working \cup Ended]
        /\ job' \in [Req -> {"none", "running", "success", "failed"}]
    BY DEF TypeOK, LocalStep, MarkFails, BuildUnchanged, BuildStart, BuildRefused,
           WaitBuild, WaitTimeout, BuildSucceeds, BuildFails, CommitFails, AbortFails,
           FallbackFails, RemoveFails, Undeploy, Crash, WriteThrows, UndeployThrows,
           Goto, AfterError, Working, Ended
  <1>9. TypeOK'
    BY <1>1, <1>5, <1>6, <1>7, <1>8 DEF TypeOK, StoreTypeOK
  <1>10. ControlOf(r)'
    BY <1>1, <1>3
       DEF TypeOK, LocalStep, MarkFails, BuildUnchanged, BuildStart, BuildRefused,
           WaitBuild, WaitTimeout, BuildSucceeds, BuildFails, CommitFails, AbortFails,
           FallbackFails, RemoveFails, Undeploy, Crash, WriteThrows, UndeployThrows,
           Goto, AfterError, Working, ControlOf, Builds, ServiceVersion
  <1>11. \A s \in Req \ {r} : pc'[s] = pc[s] /\ job'[s] = job[s]
    BY DEF TypeOK, LocalStep, MarkFails, BuildUnchanged, BuildStart, BuildRefused,
           WaitBuild, WaitTimeout, BuildSucceeds, BuildFails, CommitFails, AbortFails,
           FallbackFails, RemoveFails, Undeploy, Crash, WriteThrows, UndeployThrows, Goto
  <1>12. Control'
    BY <1>1, <1>10, <1>11, ControlElsewhere
  <1> QED BY <1>2, <1>9, <1>12

----------------------------------------------------------------------------
(***************************************************************************)
(* The steps that read or write rows.                                      *)
(***************************************************************************)

\* A row that the store holds under the version of the row held is that row, so
\* that a write on that version writes over what the request has seen.
LEMMA HeldIsCurrent ==
  ASSUME IInv, NEW r \in Req, pc[r] \in Working, CanUpdate(call[r].id, held[r].ver)
  PROVE  Present(call[r].id) /\ table[call[r].id] = held[r]
  <1>1. held[r].ver # NoVersion /\ held[r] # NoRow /\ call[r].id \in Key
    BY WorkingRequest, ConstantsOK DEF IInv, NoVersion, ConstantsOK
  <1> QED
    BY <1>1 DEF IInv, CanUpdate, Live, VersionMatches, VersionIdentifiesRow, HeldVersions

\* createEntity.
LEMMA CreateInvariant ==
  ASSUME IInv, NEW r \in Req, NEW k \in Key, NEW d \in Data,
         NEW t \in (SUBSET Tag) \cup {NoTags}, CreateEntity(r, k, d, t)
  PROVE  IInv'
  <1> DEFINE tags == IF t = NoTags THEN {} ELSE t
             row == [data |-> d, tags |-> tags, state |-> "creating",
                     op |-> "creating", status |-> "processing"]
             c == [kind |-> "create", id |-> k, data |-> d, tags |-> t, ver |-> NoVersion]
  <1>1. row \in Body
    BY DEF Body, State, Op, Status
  <1>2. c \in Call
    BY DEF Call, Kind, NoVersion
  <1>3. /\ InsertRow(k, row) /\ Begin(r, c, "build")
        /\ held' = [held EXCEPT ![r] = Stamped(row)]
        /\ UNCHANGED <<fn, job, faults>>
    BY DEF CreateEntity
  <1> HIDE DEF row, c
  <1>4. Stamped(row) \in EntityRow /\ StoreTypeOK(Body)'
    BY <1>1, <1>3, StampedRow, InsertType DEF IInv, TypeOK, StoreTypeOK
  <1>5. TypeOK'
    BY <1>2, <1>3, <1>4 DEF IInv, TypeOK, Begin, Goto, Working
  <1>6. Control'
    <2>1. /\ c.kind = "create" /\ c.data \in Data /\ c # NoCall
          /\ Stamped(row).body.state = "creating" /\ Stamped(row) # NoRow
      BY <1>2, <1>4, ConstantsOK DEF c, row, Stamped, ConstantsOK
    <2>2. ControlOf(r)'
      BY <1>3, <2>1 DEF IInv, TypeOK, Control, ControlOf, Begin, Goto, Working, Builds
    <2> QED BY <1>3, <2>2, ControlElsewhere DEF IInv, TypeOK, Begin, Goto
  <1>7. VersionIdentifiesRow'
    <2>1. \A s \in Req : \/ held'[s] = held[s] /\ call'[s].id = call[s].id
                         \/ held'[s] = Stamped(row) /\ call'[s].id = k
      BY <1>3 DEF IInv, TypeOK, Begin, c
    <2> QED BY <1>1, <1>3, <2>1, WriteVersions DEF IInv, InsertRow
  <1> QED BY <1>5, <1>6, <1>7 DEF IInv

\* The read that begins an update or a delete.
LEMMA GetInvariant ==
  ASSUME IInv, NEW r \in Req, NEW c \in Call, GetEntity(r, c),
         c.kind \in {"update", "delete"}, c.kind = "update" => c.data \in Data
  PROVE  IInv'
  <1>1. /\ Live(c.id) /\ VersionMatches(c.id, ServiceVersion(c)) /\ Begin(r, c, "mark")
        /\ held' = [held EXCEPT ![r] = table[c.id]]
        /\ UNCHANGED <<storeVars, fn, job, faults>>
    BY DEF GetEntity
  <1>2. c.id \in Key /\ c # NoCall /\ table[c.id] \in EntityRow /\ table[c.id] # NoRow
    BY <1>1, ConstantsOK, PresentRow DEF IInv, Call, Live, Present, ConstantsOK
  <1>3. TypeOK'
    BY <1>1, <1>2 DEF IInv, TypeOK, StoreTypeOK, storeVars, Begin, Goto, Working
  <1>4. Control'
    <2>1. ControlOf(r)'
      BY <1>1, <1>2
         DEF IInv, TypeOK, Control, ControlOf, Begin, Goto, Working, Builds, VersionMatches,
             ServiceVersion
    <2> QED BY <1>1, <2>1, ControlElsewhere DEF IInv, TypeOK, Begin, Goto
  <1>5. VersionIdentifiesRow'
    <2>1. \A s \in Req : \/ held'[s] = held[s] /\ call'[s].id = call[s].id
                         \/ /\ call'[s].id \in Key /\ Present(call'[s].id)
                            /\ held'[s] = table[call'[s].id]
      BY <1>1, <1>2 DEF IInv, TypeOK, Begin, Live
    <2>2. clock' = clock /\ \A k \in Key : table'[k] = table[k]
      BY <1>1 DEF storeVars
    <2> QED BY <2>1, <2>2, ReadVersions DEF IInv
  <1> QED BY <1>3, <1>4, <1>5 DEF IInv

\* The writes after which a request has nothing more to hold.
LastWrite(r) == UpdateReject(r) \/ Commit(r) \/ Abort(r) \/ Fallback(r) \/ CommitThrows(r)

\* Each of them writes a well-typed body over its own entity, or nothing at all.
LEMMA LastWriteBody ==
  ASSUME IInv, NEW r \in Req, LastWrite(r)
  PROVE  \/ UNCHANGED storeVars
         \/ \E b \in Body, v \in Nat : UpdateRow(call[r].id, v, b)
  <1> USE DEF IInv
  <1>1. pc[r] \in Working
    BY DEF LastWrite, UpdateReject, Commit, Abort, Fallback, CommitThrows, Working
  <1>2. /\ held[r].ver \in Nat /\ held[r].body \in Body /\ Failure(r) \in Body
        /\ FinalVersion(r) \in Nat
    BY <1>1, WorkingRequest, FailureBody DEF FinalVersion, NoVersion
  <1>3. CASE UpdateReject(r)
    BY <1>2, <1>3, NotedBody DEF UpdateReject, MarkRow, Op, Status
  <1>4. CASE Abort(r) \/ Fallback(r)
    BY <1>2, <1>4 DEF Abort, Fallback
  <1>5. CASE Commit(r) \/ CommitThrows(r)
    <2>1. pc[r] = "commit"
      BY <1>5 DEF Commit, CommitThrows
    <2>2. CASE UpdateRow(call[r].id, FinalVersion(r), Outcome(r))
      <3>1. Outcome(r) \in Body
        BY <2>1, <2>2, OutcomeBody DEF UpdateRow, CanUpdate
      <3> QED BY <1>2, <2>2, <3>1
    <2> QED BY <1>5, <2>2 DEF Commit, CommitThrows
  <1> QED BY <1>3, <1>4, <1>5 DEF LastWrite

LEMMA LastWriteInvariant ==
  ASSUME IInv, NEW r \in Req, LastWrite(r)
  PROVE  IInv'
  <1>1. pc[r] \in Working /\ UNCHANGED <<fn, call, held, job>>
    BY DEF LastWrite, UpdateReject, Commit, Abort, Fallback, CommitThrows, Working
  <1>2. call[r].id \in Key /\ call[r] # NoCall
    BY <1>1, WorkingRequest, ConstantsOK DEF IInv, ConstantsOK
  <1>3. StoreTypeOK(Body)'
    BY <1>2, LastWriteBody, UpdateType DEF IInv, TypeOK, StoreTypeOK, storeVars
  <1>4. faults' \in 0 .. MaxFaults /\ clean' \in SUBSET Key
    BY FaultType
       DEF IInv, TypeOK, LastWrite, UpdateReject, Commit, Abort, Fallback, CommitThrows, FaultOf
  <1>5. pc' \in [Req -> {"idle"} \cup Working \cup Ended]
    BY DEF IInv, TypeOK, LastWrite, UpdateReject, Commit, Abort, Fallback, CommitThrows, Goto,
           AfterError, Working, Ended
  <1>6. TypeOK'
    BY <1>1, <1>3, <1>4, <1>5 DEF IInv, TypeOK
  <1>7. Control'
    <2>1. ControlOf(r)'
      BY <1>1, <1>2
         DEF IInv, TypeOK, Control, ControlOf, LastWrite, UpdateReject, Commit, Abort,
             Fallback, CommitThrows, Goto, AfterError, Working, Builds, ServiceVersion
    <2>2. \A s \in Req \ {r} : pc'[s] = pc[s]
      BY DEF LastWrite, UpdateReject, Commit, Abort, Fallback, CommitThrows, Goto, IInv, TypeOK
    <2> QED BY <1>1, <2>1, <2>2, ControlElsewhere DEF IInv
  <1>8. VersionIdentifiesRow'
    <2>1. CASE UNCHANGED storeVars
      BY <1>1, <2>1, ReadVersions DEF IInv, storeVars
    <2>2. ASSUME NEW b \in Body, NEW v \in Nat, UpdateRow(call[r].id, v, b)
          PROVE  VersionIdentifiesRow'
      BY <1>1, <1>2, <2>2, WriteVersions DEF IInv, UpdateRow
    <2> QED BY <2>1, <2>2, LastWriteBody
  <1> QED BY <1>6, <1>7, <1>8 DEF IInv

\* The write that marks a row "processing": the request holds the row it wrote.
LEMMA MarkInvariant ==
  ASSUME IInv, NEW r \in Req, Mark(r)
  PROVE  IInv'
  <1> DEFINE b == Noted(held[r].body, Doing(call[r].kind), "processing")
             k == call[r].id
  <1>1. pc[r] = "mark" /\ pc[r] \in Working
    BY DEF Mark, Working
  <1>2. held[r].ver \in Nat /\ b \in Body /\ k \in Key /\ call[r] \in Call
    BY <1>1, WorkingRequest, NotedBody, DoingOp DEF IInv, Status
  <1>3. /\ UpdateRow(k, held[r].ver, b)
        /\ held' = [held EXCEPT ![r] = Stamped(b)]
        /\ Goto(r, IF call[r].kind = "update" THEN "build" ELSE "remove")
        /\ UNCHANGED <<fn, call, job, faults, clean>>
    BY DEF Mark, MarkRow
  <1>4. b.state = held[r].body.state
    BY DEF Noted
  <1> HIDE DEF b, k
  <1>5. Stamped(b) \in EntityRow /\ Stamped(b) # NoRow /\ StoreTypeOK(Body)'
    BY <1>2, <1>3, StampedRow, UpdateType, ConstantsOK
       DEF IInv, TypeOK, StoreTypeOK, ConstantsOK
  <1>6. TypeOK'
    BY <1>3, <1>5 DEF IInv, TypeOK, Goto, Working
  <1>7. Control'
    <2>1. ControlOf(r)'
      BY <1>1, <1>2, <1>3, <1>5
         DEF IInv, TypeOK, Control, ControlOf, Goto, Working, Builds, ServiceVersion
    <2> QED BY <1>3, <2>1, ControlElsewhere DEF IInv, TypeOK, Goto
  <1>8. VersionIdentifiesRow'
    <2>1. \A s \in Req : \/ held'[s] = held[s] /\ call'[s].id = call[s].id
                         \/ held'[s] = Stamped(b) /\ call'[s].id = k
      BY <1>3 DEF IInv, TypeOK, k
    <2> QED BY <1>2, <1>3, <2>1, WriteVersions DEF IInv, UpdateRow
  <1> QED BY <1>6, <1>7, <1>8 DEF IInv

\* The deletion of a row.
LEMMA RemoveInvariant ==
  ASSUME IInv, NEW r \in Req, Remove(r)
  PROVE  IInv'
  <1>1. pc[r] = "remove" /\ pc[r] \in Working
    BY DEF Remove, Working
  <1>2. call[r].id \in Key
    BY <1>1, WorkingRequest DEF IInv
  <1>3. /\ DeleteRow(call[r].id, FinalVersion(r)) /\ Goto(r, "undeploy")
        /\ UNCHANGED <<fn, call, held, job, faults, clean>>
    BY DEF Remove
  <1>4. TypeOK'
    BY <1>2, <1>3, DeleteType DEF IInv, TypeOK, Goto, Working
  <1>5. Control'
    <2>1. ControlOf(r)'
      BY <1>1, <1>3
         DEF IInv, TypeOK, Control, ControlOf, Goto, Working, Builds, ServiceVersion
    <2> QED BY <1>3, <2>1, ControlElsewhere DEF IInv, TypeOK, Goto
  <1>6. VersionIdentifiesRow'
    <2>1. clock' = clock /\ \A k \in Key : table'[k] \in {table[k], NoRow}
      BY <1>3 DEF DeleteRow, IInv, TypeOK, StoreTypeOK
    <2> QED BY <1>3, <2>1, ReadVersions DEF IInv
  <1> QED BY <1>4, <1>5, <1>6 DEF IInv

\* The statement that sets or deletes a tag.
LEMMA TagInvariant ==
  ASSUME IInv, NEW r \in Req, NEW k \in Key, NEW t \in SUBSET Tag, WriteTags(r, k, t)
  PROVE  IInv'
  <1> DEFINE b == [table[k].body EXCEPT !.tags = t]
             c == [kind |-> "tag", id |-> k, data |-> NoData, tags |-> t, ver |-> NoVersion]
  <1>1. /\ Begin(r, c, "done") /\ UpdateRow(k, NoVersion, b)
        /\ UNCHANGED <<fn, held, job, faults>>
    BY DEF WriteTags
  <1>2. Present(k)
    BY <1>1 DEF UpdateRow, CanUpdate, Live
  <1>3. b \in Body
    <2>1. table[k].body \in Body
      BY <1>2, PresentRow DEF IInv
    <2> QED BY <2>1 DEF Body
  <1>4. c \in Call /\ c # NoCall /\ c.kind = "tag"
    <2>1. c \in Call
      BY DEF Call, Kind, NoVersion
    <2> QED BY <2>1, ConstantsOK DEF ConstantsOK
  <1>5. c.id = k
    OBVIOUS
  <1> HIDE DEF b, c
  <1>6. StoreTypeOK(Body)'
    BY <1>1, <1>3, UpdateType DEF IInv, TypeOK
  <1>7. TypeOK'
    BY <1>1, <1>4, <1>6 DEF IInv, TypeOK, Begin, Goto, Ended
  <1>8. Control'
    <2>1. ControlOf(r)'
      BY <1>1, <1>4 DEF IInv, TypeOK, Control, ControlOf, Begin, Goto, Working, Builds
    <2> QED BY <1>1, <2>1, ControlElsewhere DEF IInv, TypeOK, Begin, Goto
  <1>9. VersionIdentifiesRow'
    <2>1. \A s \in Req : \/ held'[s] = NoRow
                         \/ held'[s] = held[s] /\ call'[s].id = call[s].id
      BY <1>1 DEF IInv, TypeOK, Control, ControlOf, Begin
    <2> QED BY <1>1, <1>3, <2>1, WriteVersions DEF IInv, UpdateRow
  <1> QED BY <1>7, <1>8, <1>9 DEF IInv

\* Time and the purge.
LEMMA TimeInvariant ==
  ASSUME IInv, (\E k \in Key : ExpireEntity(k)) \/ Purge
  PROVE  IInv'
  <1>1. UNCHANGED <<fn, requestVars, faults>> /\ clock' = clock
    BY DEF ExpireEntity, Purge, Expire, PurgeExpiredItems
  <1>2. StoreTypeOK(Body)'
    BY ExpireType, PurgeType DEF IInv, TypeOK, ExpireEntity, Purge
  <1>3. clean' \in SUBSET Key
    BY DEF IInv, TypeOK, ExpireEntity, Purge
  <1>4. TypeOK'
    BY <1>1, <1>2, <1>3 DEF IInv, TypeOK, requestVars
  <1>5. Control'
    BY <1>1 DEF IInv, Control, ControlOf, Builds, ServiceVersion, requestVars
  <1>6. \A k \in Key : table'[k] \in {table[k], NoRow}
    BY DEF ExpireEntity, Purge, Expire, PurgeExpiredItems
  <1>7. VersionIdentifiesRow'
    BY <1>1, <1>6, ReadVersions DEF IInv, requestVars
  <1> QED BY <1>4, <1>5, <1>7 DEF IInv

\* A step that changes nothing.
LEMMA StutterInvariant ==
  ASSUME IInv, UNCHANGED vars
  PROVE  IInv'
  BY DEF IInv, TypeOK, StoreTypeOK, Control, ControlOf, Builds, ServiceVersion,
         VersionIdentifiesRow, TableVersions, HeldVersions, Present, vars, storeVars,
         requestVars

----------------------------------------------------------------------------
(***************************************************************************)
(* The theorems.                                                           *)
(***************************************************************************)

\* Ask is a creation, a read that begins an update or a delete, or a tag.
LEMMA AskInvariant ==
  ASSUME IInv, NEW r \in Req, Ask(r)
  PROVE  IInv'
  <1>1. PICK k \in Key :
          \/ \E d \in Data, t \in (SUBSET Tag) \cup {NoTags} :
               \/ CreateEntity(r, k, d, t)
               \/ \E v \in {NoVersion} \cup 1 .. clock : GetForUpdate(r, k, d, t, v)
          \/ \E v \in {NoVersion} \cup 1 .. clock : GetForDelete(r, k, v)
          \/ \E tag \in Tag : SetTag(r, k, tag) \/ DeleteTag(r, k, tag)
    BY DEF Ask
  <1>2. \A v \in {NoVersion} \cup 1 .. clock : v \in Nat
    BY DEF IInv, TypeOK, StoreTypeOK, NoVersion
  <1>3. ASSUME NEW d \in Data, NEW t \in (SUBSET Tag) \cup {NoTags}, CreateEntity(r, k, d, t)
        PROVE  IInv'
    BY <1>3, CreateInvariant
  <1>4. ASSUME NEW d \in Data, NEW t \in (SUBSET Tag) \cup {NoTags},
               NEW v \in {NoVersion} \cup 1 .. clock, GetForUpdate(r, k, d, t, v)
        PROVE  IInv'
    <2> DEFINE c == [kind |-> "update", id |-> k, data |-> d, tags |-> t, ver |-> v]
    <2>1. c \in Call
      BY <1>2 DEF Call, Kind
    <2>2. c.kind \in {"update", "delete"} /\ c.data \in Data /\ GetEntity(r, c)
      BY <1>4 DEF GetForUpdate
    <2> HIDE DEF c
    <2> QED BY <2>1, <2>2, GetInvariant
  <1>5. ASSUME NEW v \in {NoVersion} \cup 1 .. clock, GetForDelete(r, k, v)
        PROVE  IInv'
    <2> DEFINE c == [kind |-> "delete", id |-> k, data |-> NoData, tags |-> NoTags, ver |-> v]
    <2>1. c \in Call
      BY <1>2 DEF Call, Kind
    <2>2. c.kind = "delete" /\ GetEntity(r, c)
      BY <1>5 DEF GetForDelete
    <2> HIDE DEF c
    <2> QED BY <2>1, <2>2, GetInvariant
  <1>6. ASSUME NEW tag \in Tag, SetTag(r, k, tag) \/ DeleteTag(r, k, tag)
        PROVE  IInv'
    <2>1. Present(k)
      BY <1>6 DEF SetTag, DeleteTag, Live
    <2>2. table[k].body.tags \in SUBSET Tag
      BY <2>1, PresentRow DEF IInv, Body
    <2> QED BY <1>6, <2>2, TagInvariant DEF SetTag, DeleteTag
  <1> QED BY <1>1, <1>3, <1>4, <1>5, <1>6

\* Every step keeps the invariant.
LEMMA NextInvariant == IInv /\ [Next]_vars => IInv'
  <1> SUFFICES ASSUME IInv, [Next]_vars PROVE IInv'
    OBVIOUS
  <1>1. CASE \E r \in Req : Ask(r)
    BY <1>1, AskInvariant
  <1>2. CASE \E r \in Req : LocalStep(r)
    BY <1>2, LocalStepInvariant
  <1>3. CASE \E r \in Req : LastWrite(r)
    BY <1>3, LastWriteInvariant
  <1>4. CASE \E r \in Req : Mark(r)
    BY <1>4, MarkInvariant
  <1>5. CASE \E r \in Req : Remove(r)
    BY <1>5, RemoveInvariant
  <1>6. CASE (\E k \in Key : ExpireEntity(k)) \/ Purge
    BY <1>6, TimeInvariant
  <1>7. CASE UNCHANGED vars
    BY <1>7, StutterInvariant
  <1> QED
    BY <1>1, <1>2, <1>3, <1>4, <1>5, <1>6, <1>7
       DEF Next, Answer, Build, Finish, Builder, Break, LocalStep, LastWrite

LEMMA Invariance == Spec => []IInv
  BY InitInvariant, NextInvariant, PTL DEF Spec

\* The variables keep their types, in every run of any size.
THEOREM TypeCorrect == Spec => []TypeOK
  <1>1. IInv => TypeOK
    BY DEF IInv
  <1> QED BY Invariance, <1>1, PTL

\* A version names one content of one entity, whatever requests, faults and purges
\* do: the optimistic concurrency of the data access layer is sound.
THEOREM VersionsUnambiguous == Spec => []VersionIdentifiesRow
  <1>1. IInv => VersionIdentifiesRow
    BY DEF IInv
  <1> QED BY Invariance, <1>1, PTL

----------------------------------------------------------------------------
(***************************************************************************)
(* Conditional requests.                                                   *)
(***************************************************************************)

\* A deletion on the held version removes the row that the request has seen.
LEMMA HeldIsDeleted ==
  ASSUME IInv, NEW r \in Req, pc[r] \in Working, CanDelete(call[r].id, held[r].ver)
  PROVE  table[call[r].id] = held[r]
  <1>1. held[r].ver # NoVersion /\ held[r] # NoRow /\ call[r].id \in Key
    BY WorkingRequest, ConstantsOK DEF IInv, NoVersion, ConstantsOK
  <1> QED
    BY <1>1 DEF IInv, CanDelete, VersionMatches, VersionIdentifiesRow, HeldVersions

\* A request that is made was idle, and goes somewhere.
LEMMA AskBegins ==
  ASSUME NEW r \in Req, Ask(r)
  PROVE  pc[r] = "idle" /\ \E where : Goto(r, where)
  <1>1. ASSUME NEW c, NEW where, Begin(r, c, where)
        PROVE  pc[r] = "idle" /\ \E there : Goto(r, there)
    BY <1>1 DEF Begin
  <1>2. \A k, d, t : CreateEntity(r, k, d, t) => pc[r] = "idle" /\ \E where : Goto(r, where)
    BY <1>1 DEF CreateEntity
  <1>3. \A c : GetEntity(r, c) => pc[r] = "idle" /\ \E where : Goto(r, where)
    BY <1>1 DEF GetEntity
  <1>4. \A k, t : WriteTags(r, k, t) => pc[r] = "idle" /\ \E where : Goto(r, where)
    BY <1>1 DEF WriteTags
  <1> QED
    BY <1>2, <1>3, <1>4, Zenon DEF Ask, GetForUpdate, GetForDelete, SetTag, DeleteTag

\* The step of the theorem below.
LEMMA ConditionalStep ==
  ASSUME IInv, [Next]_vars, NEW r \in Req
  PROVE  FindsItsRow(r, ServiceVersion(call[r]))
  <1> SUFFICES ASSUME pc[r] \in {"mark", "commit", "abort", "fallback", "remove"},
                      ServiceVersion(call[r]) # NoVersion, pc'[r] # pc[r], table' # table
               PROVE  IF pc[r] = "mark" THEN table[call[r].id].ver = ServiceVersion(call[r])
                                        ELSE table[call[r].id] = held[r]
    BY DEF FindsItsRow
  <1>1. pc[r] \in Working
    BY DEF Working
  <1>2. FinalVersion(r) = held[r].ver
    BY <1>1 DEF FinalVersion
  <1>3. pc[r] = "mark" => held[r].ver = ServiceVersion(call[r])
    BY <1>1 DEF IInv, Control, ControlOf
  <1>4. CASE \E s \in Req : LastWrite(s) \/ Mark(s)
    <2>1. PICK s \in Req : LastWrite(s) \/ Mark(s)
      BY <1>4
    <2>2. s = r
      BY <2>1 DEF IInv, TypeOK, LastWrite, Mark, UpdateReject, Commit, Abort, Fallback,
                  CommitThrows, Goto
    <2>3. \E b : UpdateRow(call[r].id, held[r].ver, b)
      BY <1>2, <2>1, <2>2 DEF LastWrite, Mark, UpdateReject, Commit, Abort, Fallback,
                              CommitThrows, MarkRow, storeVars
    <2>4. CanUpdate(call[r].id, held[r].ver)
      BY <2>3 DEF UpdateRow
    <2> QED BY <1>1, <1>3, <2>4, HeldIsCurrent
  <1>5. CASE \E s \in Req : Remove(s)
    <2>1. Remove(r)
      BY <1>5 DEF IInv, TypeOK, Remove, Goto
    <2>2. CanDelete(call[r].id, held[r].ver) /\ pc[r] = "remove"
      BY <1>2, <2>1 DEF Remove, DeleteRow
    <2> QED BY <1>1, <2>2, HeldIsDeleted
  <1>6. CASE \E s \in Req : Ask(s)
    BY <1>6, AskBegins DEF Goto, IInv, TypeOK
  <1>7. CASE \E s \in Req : LocalStep(s)
    BY <1>7 DEF LocalStep, MarkFails, BuildUnchanged, BuildStart, BuildRefused,
           WaitBuild, WaitTimeout, BuildSucceeds, BuildFails, CommitFails, AbortFails,
           FallbackFails, RemoveFails, Undeploy, Crash, WriteThrows, UndeployThrows, storeVars
  <1>8. CASE (\E k \in Key : ExpireEntity(k)) \/ Purge
    BY <1>8 DEF ExpireEntity, Purge, requestVars
  <1>9. CASE UNCHANGED vars
    BY <1>9 DEF vars, requestVars
  <1> QED
    BY <1>4, <1>5, <1>6, <1>7, <1>8, <1>9
       DEF Next, Answer, Build, Finish, Builder, Break, LocalStep, LastWrite

\* No request overwrites or removes, on a version that reached the service, what
\* another wrote since this version was read (entity.ts, update_if_version).
THEOREM ServedConditionalWriteSafe == Spec => ServedConditionalWrite
  <1>1. IInv /\ [Next]_vars => [\A r \in Req : FindsItsRow(r, ServiceVersion(call[r]))]_vars
    BY ConditionalStep
  <1>2. Spec => [][\A r \in Req : FindsItsRow(r, ServiceVersion(call[r]))]_vars
    BY <1>1, Invariance, PTL DEF Spec
  <1> QED BY <1>2 DEF ServedConditionalWrite

----------------------------------------------------------------------------
(***************************************************************************)
(* EntityLifecycle implements EntityContract: the initial states map to    *)
(* initial states, and each step of each request, builder, fault, expiry   *)
(* and purge maps to a step of the contract or to a stutter.               *)
(***************************************************************************)

\* A row that is there is seen, as something else than nothing.
LEMMA ViewPresent ==
  ASSUME IInv, NEW k \in Key
  PROVE  /\ Present(k) =>
              View[k] = [ver |-> table[k].ver, state |-> table[k].body.state,
                         data |-> table[k].body.data, tags |-> table[k].body.tags]
         /\ Present(k) => /\ View[k].state = table[k].body.state
                          /\ View[k].data = table[k].body.data
                          /\ View[k].tags = table[k].body.tags
         /\ ~ Present(k) => View[k] = NoRow
         /\ Present(k) <=> Contract!Exists(k)
  <1>1. /\ Present(k) =>
              View[k] = [ver |-> table[k].ver, state |-> table[k].body.state,
                         data |-> table[k].body.data, tags |-> table[k].body.tags]
        /\ ~ Present(k) => View[k] = NoRow
    BY DEF View
  <1>2. Present(k) => View[k] \in ViewRow
    BY <1>1, PresentRow DEF IInv, Body, ViewRow
  <1>4. Present(k) => /\ View[k].state = table[k].body.state
                      /\ View[k].data = table[k].body.data
                      /\ View[k].tags = table[k].body.tags
    BY <1>1
  <1>3. NoRow \notin ViewRow
    BY ConstantsOK DEF ConstantsOK
  <1> QED BY <1>1, <1>2, <1>3, <1>4 DEF Contract!Exists

\* A write of the store is a write of the contract.
LEMMA WriteView ==
  ASSUME IInv, NEW k \in Key, NEW b \in Body,
         table' = [table EXCEPT ![k] = Stamped(b)], clock' = clock + 1
  PROVE  Contract!Write(k, b.state, b.data, b.tags)
  <1>1. clock \in Nat /\ table \in [Key -> EntityRow \cup {NoRow}]
    BY DEF IInv, TypeOK, StoreTypeOK, EntityRow
  <1>2. Stamped(b) # NoRow
    BY <1>1, StampedRow, ConstantsOK DEF ConstantsOK
  <1>3. \A l \in Key : l # k => View'[l] = View[l]
    BY <1>1 DEF View, Present
  <1>4. View'[k] = [ver |-> clock + 1, state |-> b.state, data |-> b.data, tags |-> b.tags]
    BY <1>1, <1>2 DEF View, Present, Stamped
  <1> QED BY <1>3, <1>4 DEF Contract!Write, View

\* A step that leaves the table and the clock is a stutter.
LEMMA SameView ==
  ASSUME UNCHANGED <<table, clock>>
  PROVE  UNCHANGED Contract!contractVars
  BY DEF Contract!contractVars, View, Present

\* A write over the row held that keeps its data, tags and state.
LEMMA TouchView ==
  ASSUME IInv, NEW r \in Req, pc[r] \in Working, NEW b \in Body,
         UpdateRow(call[r].id, held[r].ver, b),
         b.state = held[r].body.state, b.data = held[r].body.data, b.tags = held[r].body.tags
  PROVE  Contract!Touch(call[r].id)
  <1>1. call[r].id \in Key /\ Present(call[r].id) /\ table[call[r].id] = held[r]
    BY WorkingRequest, HeldIsCurrent DEF IInv, UpdateRow
  <1>2. Contract!Write(call[r].id, b.state, b.data, b.tags)
    BY <1>1, WriteView DEF UpdateRow
  <1> QED BY <1>1, <1>2, ViewPresent DEF Contract!Touch

----------------------------------------------------------------------------
(***************************************************************************)
(* The initial states and the steps.                                       *)
(***************************************************************************)
LEMMA InitContract == Init => Contract!Init
  <1> SUFFICES ASSUME Init PROVE Contract!Init
    OBVIOUS
  <1>1. PICK S \in SUBSET Key : \E d \in [S -> Data \ BadData], v \in [S -> 1 .. MaxOld] :
          StoreInit([k \in S |-> Settled(d[k])], v, MaxOld)
    BY DEF Init
  <1>2. PICK d \in [S -> Data \ BadData], v \in [S -> 1 .. MaxOld] :
          StoreInit([k \in S |-> Settled(d[k])], v, MaxOld)
    BY <1>1
  <1>3. /\ clock = MaxOld /\ clock \in Nat
        /\ \A k \in Key : table[k] = IF k \in S THEN [ver |-> v[k], body |-> Settled(d[k])]
                                                ELSE NoRow
    BY <1>2, ConstantsOK DEF StoreInit, ConstantsOK
  <1>4. ASSUME NEW k \in Key
        PROVE  View[k] \in {NoRow} \cup [ver : 1 .. clock, state : {"active"},
                                         data : Data, tags : SUBSET Tag]
    <2>1. CASE k \notin S
      BY <1>3, <2>1 DEF View, Present
    <2>2. CASE k \in S
      <3>1. table[k] = [ver |-> v[k], body |-> Settled(d[k])] /\ d[k] \in Data
        BY <1>3, <2>2
      <3>2. /\ table[k].ver \in 1 .. clock
            /\ table[k].body.state = "active" /\ table[k].body.tags = {}
            /\ table[k].body.data \in Data
        BY <1>3, <2>2, <3>1 DEF Settled
      <3> QED BY <3>2 DEF View
    <2> QED BY <2>1, <2>2
  <1>5. View = [k \in Key |-> View[k]]
    BY DEF View
  <1> QED BY <1>3, <1>4, <1>5 DEF Contract!Init

LEMMA AskContract ==
  ASSUME IInv, NEW r \in Req, Ask(r)
  PROVE  [Contract!Next]_(Contract!contractVars)
  <1>1. PICK k \in Key :
          \/ \E d \in Data, t \in (SUBSET Tag) \cup {NoTags} :
               \/ CreateEntity(r, k, d, t)
               \/ \E v \in {NoVersion} \cup 1 .. clock : GetForUpdate(r, k, d, t, v)
          \/ \E v \in {NoVersion} \cup 1 .. clock : GetForDelete(r, k, v)
          \/ \E tag \in Tag : SetTag(r, k, tag) \/ DeleteTag(r, k, tag)
    BY DEF Ask
  <1>2. ASSUME NEW d \in Data, NEW t \in (SUBSET Tag) \cup {NoTags}, CreateEntity(r, k, d, t)
        PROVE  Contract!Create(k)
    <2> DEFINE tags == IF t = NoTags THEN {} ELSE t
               row == [data |-> d, tags |-> tags, state |-> "creating",
                       op |-> "creating", status |-> "processing"]
    <2>1. row \in Body /\ tags \in SUBSET Tag
      BY DEF Body, State, Op, Status
    <2>2. InsertRow(k, row)
      BY <1>2 DEF CreateEntity
    <2>3. Contract!Write(k, row.state, row.data, row.tags)
      BY <2>1, <2>2, WriteView DEF InsertRow
    <2>4. ~ Contract!Exists(k)
      BY <2>2, ViewPresent DEF InsertRow
    <2> QED BY <2>1, <2>3, <2>4 DEF Contract!Create
  <1>3. ASSUME NEW tag \in Tag, SetTag(r, k, tag) \/ DeleteTag(r, k, tag)
        PROVE  Contract!Retag(k)
    <2>1. PICK t \in SUBSET (table[k].body.tags \cup Tag) : WriteTags(r, k, t) /\ Live(k)
      BY <1>3 DEF SetTag, DeleteTag
    <2>2. Present(k) /\ table[k].body \in Body
      BY <2>1, PresentRow DEF Live, IInv
    <2> DEFINE b == [table[k].body EXCEPT !.tags = t]
    <2>3. /\ b \in Body /\ t \in SUBSET Tag
          /\ b.state = table[k].body.state /\ b.data = table[k].body.data /\ b.tags = t
      BY <2>1, <2>2 DEF Body
    <2>4. UpdateRow(k, NoVersion, b)
      BY <2>1 DEF WriteTags
    <2> HIDE DEF b
    <2>5. Contract!Write(k, b.state, b.data, b.tags)
      BY <2>3, <2>4, WriteView DEF UpdateRow
    <2>6. /\ Contract!Exists(k)
          /\ View[k].state = table[k].body.state /\ View[k].data = table[k].body.data
      BY <2>2, ViewPresent
    <2> QED BY <2>3, <2>5, <2>6 DEF Contract!Retag
  <1>4. ASSUME NEW c, GetEntity(r, c)
        PROVE  UNCHANGED Contract!contractVars
    BY <1>4, SameView DEF GetEntity, storeVars
  <1> QED
    BY <1>1, <1>2, <1>3, <1>4, Zenon DEF Contract!Next, GetForUpdate, GetForDelete

\* What a request writes last: a note over the row it holds, the activation, or the
\* failure of a creation.
LEMMA LastWriteContract ==
  ASSUME IInv, NEW r \in Req, LastWrite(r)
  PROVE  [Contract!Next]_(Contract!contractVars)
  <1> DEFINE k == call[r].id
  <1>1. pc[r] \in Working
    BY DEF LastWrite, UpdateReject, Commit, Abort, Fallback, CommitThrows, Working
  <1>2. /\ call[r].id \in Key /\ call[r] \in Call /\ call[r] # NoCall
        /\ held[r].body \in Body /\ held[r] # NoRow
    BY <1>1, WorkingRequest, ConstantsOK DEF IInv, ConstantsOK
  <1>3. CASE UpdateReject(r)
    <2> DEFINE b == Noted(held[r].body, "updating", "failed")
    <2>1. b \in Body /\ UpdateRow(k, held[r].ver, b)
      BY <1>2, <1>3, NotedBody DEF UpdateReject, MarkRow, Op, Status
    <2>2. b.state = held[r].body.state /\ b.data = held[r].body.data /\ b.tags = held[r].body.tags
      BY DEF Noted
    <2> HIDE DEF b
    <2>3. Contract!Touch(k)
      BY <1>1, <2>1, <2>2, TouchView
    <2> QED BY <1>2, <2>3 DEF Contract!Next
  <1>4. CASE Commit(r) \/ CommitThrows(r)
    <2>1. pc[r] = "commit"
      BY <1>4 DEF Commit, CommitThrows
    <2>2. CASE UpdateRow(k, FinalVersion(r), Outcome(r))
      <3>1. Live(k)
        BY <2>2 DEF UpdateRow, CanUpdate
      <3>2. Outcome(r) \in Body
        BY <2>1, <3>1, OutcomeBody DEF IInv
      <3>3. Contract!Write(k, Outcome(r).state, Outcome(r).data, Outcome(r).tags)
        BY <1>2, <2>2, <3>2, WriteView DEF UpdateRow
      <3>4. Contract!Exists(k)
        BY <1>2, <3>1, ViewPresent DEF Live
      <3>5. Outcome(r).state = "active" /\ Outcome(r).data \in Data /\ Outcome(r).tags \in SUBSET Tag
        BY <3>2 DEF Body, Outcome
      <3>6. Contract!Activate(k)
        BY <3>3, <3>4, <3>5 DEF Contract!Activate
      <3> QED BY <1>2, <3>6 DEF Contract!Next
    <2>3. CASE UNCHANGED storeVars
      BY <2>3, SameView DEF storeVars
    <2> QED BY <1>4, <2>2, <2>3 DEF Commit, CommitThrows
  <1>5. CASE Abort(r) \/ Fallback(r)
    <2>1. Failure(r) \in Body
      BY <1>1, FailureBody DEF IInv
    <2>2. UpdateRow(k, held[r].ver, Failure(r))
      BY <1>5 DEF Abort, Fallback
    <2>3. /\ Failure(r).data = held[r].body.data /\ Failure(r).tags = held[r].body.tags
          /\ call[r].kind = "create" => Failure(r).state = "invalid"
          /\ call[r].kind # "create" => Failure(r).state = held[r].body.state
      <3> DEFINE n == Noted(held[r].body, Doing(call[r].kind), "failed")
      <3>1. /\ n.data = held[r].body.data /\ n.tags = held[r].body.tags
            /\ n.state = held[r].body.state
        BY DEF Noted
      <3>2. n \in Body
        BY <1>2, NotedBody, DoingOp DEF Status
      <3>3. Failure(r) = [n EXCEPT !.state = IF call[r].kind = "create" THEN "invalid" ELSE n.state]
        BY DEF Failure
      <3> HIDE DEF n
      <3> QED BY <3>1, <3>2, <3>3 DEF Body
    <2>4. CASE call[r].kind # "create"
      <3>1. Contract!Touch(k)
        BY <1>1, <2>1, <2>2, <2>3, <2>4, TouchView
      <3> QED BY <1>2, <3>1 DEF Contract!Next
    <2>5. CASE call[r].kind = "create"
      <3>1. held[r].body.state = "creating"
        BY <1>2, <2>5 DEF IInv, Control, ControlOf
      <3>2. Present(k) /\ table[k] = held[r]
        BY <1>1, <2>2, HeldIsCurrent DEF UpdateRow
      <3>3. Contract!Write(k, Failure(r).state, Failure(r).data, Failure(r).tags)
        BY <1>2, <2>1, <2>2, WriteView DEF UpdateRow
      <3>4. /\ Contract!Exists(k) /\ View[k].state = "creating"
            /\ View[k].data = Failure(r).data /\ View[k].tags = Failure(r).tags
        BY <1>2, <2>3, <3>1, <3>2, ViewPresent
      <3>5. Failure(r).state = "invalid"
        BY <2>3, <2>5
      <3>6. Contract!Invalidate(k)
        BY <3>3, <3>4, <3>5 DEF Contract!Invalidate
      <3> QED BY <1>2, <3>6 DEF Contract!Next
    <2> QED BY <2>4, <2>5
  <1> QED BY <1>3, <1>4, <1>5 DEF LastWrite

\* The mark leaves what the entity is.
LEMMA MarkContract ==
  ASSUME IInv, NEW r \in Req, Mark(r)
  PROVE  Contract!Next
  <1> DEFINE b == Noted(held[r].body, Doing(call[r].kind), "processing")
  <1>1. pc[r] \in Working
    BY DEF Mark, Working
  <1>2. held[r].body \in Body /\ call[r].id \in Key
    BY <1>1, WorkingRequest DEF IInv
  <1>3. b \in Body /\ UpdateRow(call[r].id, held[r].ver, b)
    BY <1>2, NotedBody, DoingOp DEF Mark, MarkRow, Status
  <1>4. b.state = held[r].body.state /\ b.data = held[r].body.data /\ b.tags = held[r].body.tags
    BY DEF Noted
  <1> HIDE DEF b
  <1>5. Contract!Touch(call[r].id)
    BY <1>1, <1>3, <1>4, TouchView
  <1> QED BY <1>2, <1>5 DEF Contract!Next

\* Deletion and purge remove entities.
LEMMA RemoveContract ==
  ASSUME IInv, (\E r \in Req : Remove(r)) \/ Purge
  PROVE  Contract!Next
  <1>1. PICK S \in SUBSET Key : /\ table' = [k \in Key |-> IF k \in S THEN NoRow ELSE table[k]]
                                /\ clock' = clock
    <2>1. ASSUME NEW r \in Req, Remove(r)
          PROVE  \E S \in SUBSET Key : /\ table' = [k \in Key |-> IF k \in S THEN NoRow ELSE table[k]]
                                       /\ clock' = clock
      <3>1. call[r].id \in Key
        BY <2>1, WorkingRequest DEF IInv, Remove, Working
      <3>2. table' = [table EXCEPT ![call[r].id] = NoRow] /\ clock' = clock
        BY <2>1 DEF Remove, DeleteRow
      <3>3. table' = [k \in Key |-> IF k \in {call[r].id} THEN NoRow ELSE table[k]]
        BY <3>2 DEF IInv, TypeOK, StoreTypeOK
      <3> QED BY <3>1, <3>2, <3>3
    <2>2. CASE Purge
      BY <2>2 DEF Purge, PurgeExpiredItems, IInv, TypeOK, StoreTypeOK
    <2> QED BY <2>1, <2>2
  <1>2. \A k \in Key : View'[k] = IF k \in S THEN NoRow ELSE View[k]
    BY <1>1 DEF View, Present
  <1>3. View' = [k \in Key |-> IF k \in S THEN NoRow ELSE View[k]]
    BY <1>2 DEF View
  <1> QED BY <1>1, <1>3 DEF Contract!Next, Contract!Remove

LEMMA NextContract == IInv /\ [Next]_vars => [Contract!Next]_(Contract!contractVars)
  <1> SUFFICES ASSUME IInv, [Next]_vars PROVE [Contract!Next]_(Contract!contractVars)
    OBVIOUS
  <1>1. CASE \E r \in Req : Ask(r)
    BY <1>1, AskContract
  <1>2. CASE \E r \in Req : LocalStep(r)
    <2>1. UNCHANGED <<table, clock>>
      BY <1>2 DEF LocalStep, MarkFails, BuildUnchanged, BuildStart, BuildRefused, WaitBuild,
           WaitTimeout, BuildSucceeds, BuildFails, CommitFails, AbortFails, FallbackFails,
           RemoveFails, Undeploy, Crash, WriteThrows, UndeployThrows, storeVars
    <2> QED BY <2>1, SameView
  <1>3. CASE \E r \in Req : LastWrite(r)
    BY <1>3, LastWriteContract
  <1>4. CASE \E r \in Req : Mark(r)
    BY <1>4, MarkContract
  <1>5. CASE (\E r \in Req : Remove(r)) \/ Purge
    BY <1>5, RemoveContract
  <1>6. CASE (\E k \in Key : ExpireEntity(k)) \/ UNCHANGED vars
    BY <1>6, SameView DEF ExpireEntity, Expire, vars, storeVars
  <1> QED
    BY <1>1, <1>2, <1>3, <1>4, <1>5, <1>6
       DEF Next, Answer, Build, Finish, Builder, Break, LocalStep, LastWrite

\* The detailed specification implements the contract, for any number of requests,
\* entities and faults.
THEOREM LifecycleImplementsContract == Spec => ImplementsContract
  <1>1. Spec => Contract!Spec
    BY InitContract, NextContract, Invariance, PTL DEF Spec, Contract!Spec
  <1> QED BY <1>1 DEF ImplementsContract

----------------------------------------------------------------------------
(***************************************************************************)
(* What requests leave behind: their marks (Marks), and an entity that     *)
(* agrees with its function (Serial).                                      *)
(***************************************************************************)

\* A tag write gave r's mark on k a new version.
Carried(r, k) == held[r].ver # table[k].ver /\ TagWritten(k) /\ k \notin clean

\* r is on its way to replace the mark.
Replaces(r, k) ==
  /\ ShowsMark(r, k)
  /\ pc[r] \in {"build", "wait", "commit", "abort", "fallback", "remove"}
  /\ held[r].ver = table[k].ver \/ Carried(r, k)
  /\ pc[r] = "fallback" => Carried(r, k) \/ (faults >= 1 /\ k \notin clean)

\* The "processing" that k shows is r's.
Owner(r, k) == Replaces(r, k) \/ (k \notin clean /\ LeavesMark(r, k))

Owned(k) == Live(k) /\ table[k].body.status = "processing" => \E r \in Req : Owner(r, k)

Marks == \A k \in Key : Owned(k)

\* The function of k runs what the row of k says.
Agree(k) ==
  fn[k] = IF Present(k) /\ table[k].body.state = "active" THEN table[k].body.data ELSE NoData

\* The function has the request's data, which the row has not got yet.
Built(r) == pc[r] = "commit" \/ (pc[r] = "wait" /\ job[r] = "success")

\* What the only request on an entity finds at each place.
Turn(r) ==
  /\ pc[r] # "fallback"
  /\ pc[r] = "undeploy" => ~ Present(call[r].id)
  /\ pc[r] # "undeploy" =>
       /\ Present(call[r].id) /\ table[call[r].id] = held[r]
       /\ Built(r) => fn[call[r].id] = call[r].data
       /\ ~ Built(r) => Agree(call[r].id)

Orderly(k) ==
  /\ k \notin expired
  /\ \A r, s \in OnKey(k) : r = s
  /\ \A r \in Req : call[r] # NoCall /\ call[r].id = k /\ job[r] = "running" => pc[r] = "wait"
  /\ \A r \in OnKey(k) : Turn(r)
  /\ OnKey(k) = {} => Agree(k)

Serial == \A k \in clean : Orderly(k)

\* A request stays where it is; faults only add up, keys only stop being clean.
Rests(r) ==
  /\ pc'[r] = pc[r] /\ call'[r] = call[r] /\ held'[r] = held[r]
  /\ faults' \in {faults, faults + 1} /\ clean' \subseteq clean

\* Once made, a request asks the same for good.
CallsKept == \A q \in Req : call[q] # NoCall => call'[q] = call[q]

\* The row of k stays; it does not come to life again.
Untouched(k) == table'[k] = table[k] /\ (Live(k)' => Live(k))

\* Who has an owner's mark keeps it while both the row and the request stay.
LEMMA OwnerRests ==
  ASSUME IInv, NEW k \in Key, NEW r \in Req, Owner(r, k), Rests(r), CallsKept, Untouched(k)
  PROVE  Owner(r, k)'
  <1>1. TagWritten(k) => TagWritten(k)'
    BY DEF TagWritten, CallsKept
  <1>2. faults \in Nat /\ faults' \in Nat /\ faults' >= faults
    BY ConstantsOK DEF IInv, TypeOK, Rests, ConstantsOK
  <1>3. k \notin clean => k \notin clean'
    BY DEF Rests
  <1>4. ShowsMark(r, k) => ShowsMark(r, k)'
    BY DEF ShowsMark, Rests, Untouched
  <1>5. held'[r].ver = held[r].ver /\ table'[k].ver = table[k].ver /\ pc'[r] = pc[r]
        /\ call'[r] = call[r]
    BY DEF Rests, Untouched
  <1>6. Carried(r, k) => Carried(r, k)'
    BY <1>1, <1>3, <1>5 DEF Carried
  <1>7. CASE Replaces(r, k)
    <2>1. Replaces(r, k)'
      BY <1>2, <1>3, <1>4, <1>5, <1>6, <1>7 DEF Replaces
    <2> QED BY <2>1 DEF Owner
  <1>8. CASE k \notin clean /\ LeavesMark(r, k)
    <2>1. LeavesMark(r, k)'
      BY <1>1, <1>2, <1>4, <1>5, <1>8 DEF LeavesMark
    <2> QED BY <1>3, <1>8, <2>1 DEF Owner
  <1> QED BY <1>7, <1>8 DEF Owner

\* A step of s that leaves the row of k keeps its owner, if it does when s is the owner.
LEMMA OwnedUntouched ==
  ASSUME IInv, NEW k \in Key, Owned(k), NEW s \in Req, \A r \in Req \ {s} : Rests(r),
         CallsKept, Untouched(k), Live(k) /\ Owner(s, k) => Owner(s, k)'
  PROVE  Owned(k)'
  <1> SUFFICES ASSUME Live(k)', table'[k].body.status = "processing"
               PROVE  \E r \in Req : Owner(r, k)'
    BY DEF Owned
  <1>1. PICK r \in Req : Owner(r, k)
    BY DEF Owned, Untouched
  <1>2. CASE r = s
    BY <1>1, <1>2 DEF Untouched
  <1>3. CASE r # s
    BY <1>1, <1>3, OwnerRests
  <1> QED BY <1>2, <1>3

\* Who makes a step, and what else it does.
LEMMA OthersRest ==
  ASSUME IInv, NEW s \in Req, LocalStep(s) \/ LastWrite(s) \/ Mark(s) \/ Remove(s)
  PROVE  /\ \A r \in Req \ {s} : Rests(r) /\ job'[r] = job[r]
         /\ call'[s] = call[s] /\ CallsKept
  <1>1. faults' \in {faults, faults + 1} /\ clean' \subseteq clean
    BY DEF IInv, TypeOK, LocalStep, LastWrite, UpdateReject, Mark, MarkFails, BuildUnchanged,
           BuildStart, BuildRefused, BuildSucceeds, BuildFails, WaitBuild, WaitTimeout, Commit,
           CommitFails, Abort, AbortFails, Fallback, FallbackFails, Remove, RemoveFails,
           Undeploy, Crash, CommitThrows, WriteThrows, UndeployThrows, FaultOf, Fault
  <1>2. \A r \in Req \ {s} : /\ pc'[r] = pc[r] /\ call'[r] = call[r]
                             /\ held'[r] = held[r] /\ job'[r] = job[r]
    BY DEF IInv, TypeOK, LocalStep, LastWrite, UpdateReject, Mark, MarkFails, BuildUnchanged,
           BuildStart, BuildRefused, BuildSucceeds, BuildFails, WaitBuild, WaitTimeout, Commit,
           CommitFails, Abort, AbortFails, Fallback, FallbackFails, Remove, RemoveFails,
           Undeploy, Crash, CommitThrows, WriteThrows, UndeployThrows, Goto
  <1>3. call' = call
    BY DEF LocalStep, LastWrite, UpdateReject, Mark, MarkFails, BuildUnchanged,
           BuildStart, BuildRefused, BuildSucceeds, BuildFails, WaitBuild, WaitTimeout, Commit,
           CommitFails, Abort, AbortFails, Fallback, FallbackFails, Remove, RemoveFails,
           Undeploy, Crash, CommitThrows, WriteThrows, UndeployThrows
  <1> QED BY <1>1, <1>2, <1>3 DEF Rests, CallsKept

\* The owner goes on, fails to write, or dies.
LEMMA OwnerLocal ==
  ASSUME IInv, NEW k \in Key, NEW r \in Req, Live(k), Owner(r, k), LocalStep(r)
  PROVE  Owner(r, k)'
  <1> USE DEF IInv
  <1>1. UNCHANGED <<table, clock, expired, call, held>>
    BY DEF LocalStep, MarkFails, BuildUnchanged, BuildStart, BuildRefused, WaitBuild,
           WaitTimeout, BuildSucceeds, BuildFails, CommitFails, AbortFails, FallbackFails,
           RemoveFails, Undeploy, Crash, WriteThrows, UndeployThrows, storeVars
  <1>2. call[r].id = k /\ ShowsMark(r, k) /\ ShowsMark(r, k)' /\ (TagWritten(k) => TagWritten(k)')
    BY <1>1 DEF Owner, Replaces, LeavesMark, ShowsMark, TagWritten
  <1>3. /\ clean' \subseteq clean /\ faults \in Nat /\ faults' \in Nat /\ faults' >= faults
    BY ConstantsOK DEF ConstantsOK, TypeOK, LocalStep, MarkFails, BuildUnchanged, BuildStart,
           BuildRefused, WaitBuild, WaitTimeout, BuildSucceeds, BuildFails, CommitFails,
           AbortFails, FallbackFails, RemoveFails, Undeploy, Crash, WriteThrows, UndeployThrows,
           FaultOf, Fault
  <1>4. Carried(r, k) => Carried(r, k)'
    BY <1>1, <1>2, <1>3 DEF Carried
  <1>5. CASE BuildSucceeds(r) \/ BuildFails(r)
    <2>1. Rests(r)
      BY <1>1, <1>5 DEF BuildSucceeds, BuildFails, Rests, TypeOK
    <2>2. CallsKept /\ Untouched(k)
      BY <1>1 DEF CallsKept, Untouched, Live, Present
    <2> QED BY <2>1, <2>2, OwnerRests
  <1>6. CASE BuildUnchanged(r) \/ BuildStart(r) \/ BuildRefused(r) \/ WaitBuild(r) \/ WaitTimeout(r)
    <2>1. pc[r] \in {"build", "wait"} /\ pc'[r] \in {"wait", "commit", "abort"}
      BY <1>6 DEF BuildUnchanged, BuildStart, BuildRefused, WaitBuild, WaitTimeout, Goto, TypeOK
    <2>2. held[r].ver = table[k].ver \/ Carried(r, k)
      BY <2>1 DEF Owner, Replaces, LeavesMark
    <2> QED BY <1>1, <1>2, <1>4, <2>1, <2>2 DEF Owner, Replaces
  <1>7. CASE Crash(r)
    <2>1. pc'[r] = "lost" /\ k \notin clean'
      BY <1>2, <1>7 DEF Crash, FaultOf, Goto, TypeOK
    <2> QED BY <1>2, <2>1 DEF Owner, LeavesMark
  <1>8. CASE CommitFails(r) \/ AbortFails(r) \/ FallbackFails(r) \/ RemoveFails(r)
    <2>1. pc[r] \in {"commit", "abort", "fallback", "remove"}
      BY <1>8 DEF CommitFails, AbortFails, FallbackFails, RemoveFails
    <2>2. held[r].ver = table[k].ver \/ Carried(r, k)
      BY <2>1 DEF Owner, Replaces, LeavesMark
    <2>3. held[r].ver # table[k].ver /\ (call[r].kind = "delete" => call[r].ver # NoVersion)
      <3>1. ~ VersionMatches(k, held[r].ver) \/ ~ VersionMatches(k, FinalVersion(r))
        BY <1>2, <1>8 DEF CommitFails, AbortFails, FallbackFails, RemoveFails, CanUpdate,
                          CanDelete, Live
      <3>2. call[r].kind = "delete" => pc[r] = "remove" /\ RemoveFails(r)
        BY <1>8, <2>1 DEF Control, ControlOf, Builds, CommitFails, AbortFails, FallbackFails
      <3>3. call[r].kind = "delete" => ~ VersionMatches(k, FinalVersion(r))
        BY <1>2, <3>2 DEF RemoveFails, CanDelete, Live
      <3> QED BY <3>1, <3>3 DEF VersionMatches, FinalVersion, ServiceVersion
    <2>4. Carried(r, k)'
      BY <1>4, <2>2, <2>3
    <2>5. pc'[r] = "done" \/ pc'[r] = "fallback"
      BY <1>8 DEF CommitFails, AbortFails, FallbackFails, RemoveFails, Goto, AfterError, TypeOK
    <2>6. CASE pc'[r] = "done"
      <3>1. LeavesMark(r, k)'
        BY <1>1, <1>2, <2>3, <2>4, <2>6 DEF LeavesMark, Carried
      <3> QED BY <2>4, <3>1 DEF Owner, Carried
    <2>7. CASE pc'[r] = "fallback"
      BY <1>2, <2>4, <2>7 DEF Owner, Replaces
    <2> QED BY <2>5, <2>6, <2>7
  <1>9. CASE WriteThrows(r)
    <2>1. /\ pc[r] \in {"abort", "fallback", "remove"} /\ faults' = faults + 1 /\ k \notin clean'
          /\ pc'[r] = IF pc[r] = "abort" THEN AfterError(r) ELSE "done"
      BY <1>2, <1>9 DEF WriteThrows, FaultOf, Fault, Goto, TypeOK
    <2>2. Replaces(r, k)
      BY <2>1 DEF Owner, LeavesMark
    <2>3. CASE pc'[r] = "fallback"
      <3>1. held'[r].ver = table'[k].ver \/ Carried(r, k)'
        BY <1>1, <1>4, <2>2 DEF Replaces
      <3>2. faults' >= 1
        BY <1>3, <2>1
      <3> QED BY <1>2, <2>1, <2>3, <3>1, <3>2 DEF Owner, Replaces
    <2>4. CASE pc[r] = "fallback"
      <3>1. pc'[r] = "done" /\ call[r].kind = "update"
        BY <2>1, <2>4 DEF Control, ControlOf
      <3>2. CASE Carried(r, k)
        <4>1. LeavesMark(r, k)'
          BY <1>1, <1>2, <1>4, <3>1, <3>2 DEF LeavesMark, Carried
        <4> QED BY <2>1, <4>1 DEF Owner
      <3>3. CASE ~ Carried(r, k)
        <4>1. faults' >= 2
          BY <1>3, <2>1, <2>2, <2>4, <3>3 DEF Replaces
        <4>2. LeavesMark(r, k)'
          BY <1>1, <1>2, <3>1, <4>1 DEF LeavesMark
        <4> QED BY <2>1, <4>2 DEF Owner
      <3> QED BY <3>2, <3>3
    <2>5. CASE pc[r] # "fallback" /\ pc'[r] # "fallback"
      <3>1. pc'[r] = "done" /\ call[r].kind # "update"
        BY <2>1, <2>5 DEF AfterError, Control, ControlOf, Builds
      <3>2. faults' >= 1
        BY <1>3, <2>1
      <3>3. LeavesMark(r, k)'
        BY <1>1, <1>2, <3>1, <3>2 DEF LeavesMark
      <3> QED BY <2>1, <3>3 DEF Owner
    <2> QED BY <2>3, <2>4, <2>5
  <1>10. CASE MarkFails(r) \/ Undeploy(r) \/ UndeployThrows(r)
    BY <1>10 DEF MarkFails, Undeploy, UndeployThrows, Owner, Replaces, LeavesMark
  <1> QED BY <1>5, <1>6, <1>7, <1>8, <1>9, <1>10 DEF LocalStep

\* The last write of a request replaces every mark.
LEMMA LastWriteStatus ==
  ASSUME IInv, NEW r \in Req, LastWrite(r)
  PROVE  \/ CommitThrows(r) /\ UNCHANGED storeVars
         \/ /\ table'[call[r].id].body.status # "processing"
            /\ \A k \in Key : k # call[r].id => table'[k] = table[k]
            /\ expired' = expired
  <1> USE DEF IInv
  <1>1. pc[r] \in Working
    BY DEF LastWrite, UpdateReject, Commit, Abort, Fallback, CommitThrows, Working
  <1>2. held[r].body \in Body /\ call[r].id \in Key
    BY <1>1, WorkingRequest
  <1>3. \A o : Noted(held[r].body, o, "failed").status = "failed"
    BY <1>2 DEF Noted, Body
  <1>4. Failure(r).status = "failed"
    <2>1. Noted(held[r].body, Doing(call[r].kind), "failed") \in Body
      BY <1>2, NotedBody, DoingOp DEF Status
    <2> QED BY <1>3, <2>1 DEF Failure, Body
  <1>5. Outcome(r).status = "success"
    BY DEF Outcome
  <1>6. \/ CommitThrows(r) /\ UNCHANGED storeVars
        \/ \E v, b : UpdateRow(call[r].id, v, b) /\ b.status # "processing"
    BY <1>3, <1>4, <1>5 DEF LastWrite, UpdateReject, Commit, Abort, Fallback, CommitThrows, MarkRow
  <1>7. ASSUME NEW v, NEW b, UpdateRow(call[r].id, v, b), b.status # "processing"
        PROVE  /\ table'[call[r].id].body.status # "processing"
               /\ \A k \in Key : k # call[r].id => table'[k] = table[k]
               /\ expired' = expired
    <2>1. table' = [table EXCEPT ![call[r].id] = Stamped(b)] /\ expired' = expired
      BY <1>7 DEF UpdateRow
    <2>2. table'[call[r].id] = Stamped(b) /\ Stamped(b).body = b
      BY <1>2, <2>1 DEF Stamped, TypeOK, StoreTypeOK
    <2> QED BY <1>2, <1>7, <2>1, <2>2 DEF TypeOK, StoreTypeOK
  <1> QED BY <1>6, <1>7

\* A last write that throws before it happened: a create gives up, an update falls back.
LEMMA OwnerCommitThrows ==
  ASSUME IInv, NEW k \in Key, NEW r \in Req, Owner(r, k), CommitThrows(r), UNCHANGED storeVars
  PROVE  Owner(r, k)'
  <1> USE DEF IInv
  <1>1. /\ UNCHANGED <<table, clock, expired, call, held>> /\ pc[r] = "commit"
        /\ pc'[r] = AfterError(r) /\ faults \in Nat /\ faults' = faults + 1
        /\ clean' = clean \ {call[r].id}
    BY DEF CommitThrows, FaultOf, Fault, Goto, storeVars, TypeOK
  <1>2. Replaces(r, k) /\ call[r].id = k /\ k \notin clean' /\ faults' >= 1
    BY <1>1 DEF Owner, LeavesMark, Replaces, ShowsMark
  <1>3. ShowsMark(r, k)' /\ (held'[r].ver = table'[k].ver \/ Carried(r, k)')
    BY <1>1, <1>2 DEF Replaces, ShowsMark, Carried, TagWritten
  <1>4. CASE call[r].kind = "create"
    <2>1. LeavesMark(r, k)'
      BY <1>1, <1>2, <1>3, <1>4 DEF LeavesMark, AfterError
    <2> QED BY <1>2, <2>1 DEF Owner
  <1>5. CASE call[r].kind # "create"
    BY <1>1, <1>2, <1>3, <1>5 DEF AfterError, Owner, Replaces
  <1> QED BY <1>4, <1>5

\* Whoever marks a row owns it.
LEMMA MarkOwns ==
  ASSUME IInv, NEW r \in Req, Mark(r)
  PROVE  /\ Owner(r, call[r].id)'
         /\ \A k \in Key : k # call[r].id => table'[k] = table[k]
         /\ expired' = expired /\ call' = call
  <1> USE DEF IInv
  <1>1. pc[r] \in Working
    BY DEF Mark, Working
  <1>2. held[r].body \in Body /\ call[r].id \in Key /\ call[r] # NoCall
    BY <1>1, WorkingRequest, ConstantsOK DEF ConstantsOK
  <1>3. PICK b : /\ b = Noted(held[r].body, Doing(call[r].kind), "processing")
                 /\ UpdateRow(call[r].id, held[r].ver, b)
                 /\ held' = [held EXCEPT ![r] = Stamped(b)]
    BY DEF Mark, MarkRow
  <1>4. b.op = Doing(call[r].kind)
    BY <1>2, <1>3 DEF Noted, Body
  <1>5. Stamped(b) # NoRow
    <2>1. b \in Body
      BY <1>2, <1>3, NotedBody, DoingOp DEF Status
    <2> QED BY <2>1, StampedRow, ConstantsOK DEF TypeOK, StoreTypeOK, ConstantsOK
  <1>6. table'[call[r].id] = Stamped(b) /\ held'[r] = Stamped(b) /\ Stamped(b).body = b
    BY <1>2, <1>3 DEF UpdateRow, Stamped, TypeOK, StoreTypeOK
  <1>7. call' = call /\ pc'[r] \in {"build", "remove"}
    BY DEF Mark, Goto, TypeOK
  <1>8. Replaces(r, call[r].id)'
    BY <1>2, <1>4, <1>5, <1>6, <1>7 DEF Replaces, ShowsMark
  <1> QED BY <1>2, <1>3, <1>7, <1>8 DEF Owner, UpdateRow, TypeOK, StoreTypeOK

\* A request that is made leaves the others alone.
LEMMA AskRests ==
  ASSUME IInv, NEW r \in Req, Ask(r)
  PROVE  /\ \A s \in Req \ {r} : Rests(s) /\ job'[s] = job[s]
         /\ CallsKept
  <1> USE DEF IInv
  <1>1. pc[r] = "idle" /\ call[r] = NoCall
    BY AskBegins DEF Control, ControlOf
  <1> DEFINE Fine == (\A s \in Req \ {r} : Rests(s) /\ job'[s] = job[s]) /\ CallsKept
  <1>2. ASSUME NEW c, NEW where, Begin(r, c, where), faults' = faults, job' = job,
               \A s \in Req \ {r} : held'[s] = held[s]
        PROVE  Fine
    BY <1>1, <1>2 DEF Begin, Goto, TypeOK, Rests, CallsKept
  <1>3. ASSUME NEW k \in Key, NEW d, NEW t, CreateEntity(r, k, d, t)
        PROVE  Fine
    BY <1>2, <1>3 DEF CreateEntity, TypeOK
  <1>4. ASSUME NEW c, GetEntity(r, c)
        PROVE  Fine
    BY <1>2, <1>4 DEF GetEntity, TypeOK
  <1>5. ASSUME NEW k \in Key, NEW t, WriteTags(r, k, t)
        PROVE  Fine
    BY <1>2, <1>5 DEF WriteTags
  <1> HIDE DEF Fine
  <1>6. Fine
    BY <1>3, <1>4, <1>5, Zenon DEF Ask, GetForUpdate, GetForDelete, SetTag, DeleteTag
  <1> QED BY <1>6 DEF Fine

\* A creation owns the mark it inserts.
LEMMA CreateOwns ==
  ASSUME IInv, NEW r \in Req, NEW k \in Key, NEW d \in Data,
         NEW t \in (SUBSET Tag) \cup {NoTags}, CreateEntity(r, k, d, t)
  PROVE  Owner(r, k)' /\ \A l \in Key : l # k => table'[l] = table[l]
  <1> USE DEF IInv
  <1>1. PICK row : /\ row = [data |-> d, tags |-> IF t = NoTags THEN {} ELSE t,
                             state |-> "creating", op |-> "creating", status |-> "processing"]
                   /\ InsertRow(k, row) /\ held' = [held EXCEPT ![r] = Stamped(row)]
    BY DEF CreateEntity
  <1>2. row \in Body /\ row.op = "creating"
    BY <1>1 DEF Body, State, Op, Status
  <1>3. Stamped(row) # NoRow /\ Stamped(row).body = row
    BY <1>2, StampedRow, ConstantsOK DEF TypeOK, StoreTypeOK, ConstantsOK, Stamped
  <1>4. table'[k] = Stamped(row) /\ held'[r] = Stamped(row)
    BY <1>1 DEF InsertRow, TypeOK, StoreTypeOK
  <1> DEFINE c == [kind |-> "create", id |-> k, data |-> d, tags |-> t, ver |-> NoVersion]
  <1>5. c \in Call /\ c.kind = "create" /\ c.id = k
    BY DEF Call, Kind, NoVersion
  <1>6. call'[r] = c /\ pc'[r] = "build"
    BY DEF CreateEntity, Begin, Goto, TypeOK
  <1> HIDE DEF c
  <1>7. call'[r] # NoCall /\ call'[r].kind = "create" /\ call'[r].id = k
    BY <1>5, <1>6, ConstantsOK DEF ConstantsOK
  <1>8. Replaces(r, k)'
    BY <1>2, <1>3, <1>4, <1>6, <1>7 DEF Replaces, ShowsMark, Doing
  <1> QED BY <1>1, <1>8 DEF Owner, InsertRow, TypeOK, StoreTypeOK

\* A tag write copies the mark of whoever owns it.
LEMMA TagCarries ==
  ASSUME IInv, NEW r \in Req, pc[r] = "idle", NEW k \in Key, Owned(k),
         NEW t \in SUBSET Tag, WriteTags(r, k, t)
  PROVE  Owned(k)' /\ \A l \in Key : l # k => table'[l] = table[l]
  <1> USE DEF IInv
  <1>1. /\ UpdateRow(k, NoVersion, [table[k].body EXCEPT !.tags = t]) /\ held' = held
        /\ faults' = faults /\ Live(k)
    BY DEF WriteTags, UpdateRow, CanUpdate
  <1>2. table[k].body \in Body
    BY <1>1, PresentRow DEF Live
  <1>3. /\ table'[k].ver = clock + 1 /\ table'[k].body.op = table[k].body.op
        /\ table'[k].body.status = table[k].body.status
    BY <1>1, <1>2 DEF UpdateRow, Stamped, TypeOK, StoreTypeOK, Body
  <1> DEFINE c == [kind |-> "tag", id |-> k, data |-> NoData, tags |-> t, ver |-> NoVersion]
  <1>4. Begin(r, c, "done") /\ c.kind = "tag" /\ c.id = k
    BY DEF WriteTags
  <1> HIDE DEF c
  <1>5. c # NoCall
    <2>1. c \in Call
      BY DEF c, Call, Kind, NoVersion
    <2> QED BY <2>1, ConstantsOK DEF ConstantsOK
  <1>6. call'[r] = c /\ TagWritten(k)'
    BY <1>4, <1>5 DEF Begin, TypeOK, TagWritten
  <1>7. \A s \in Req \ {r} : pc'[s] = pc[s] /\ call'[s] = call[s]
    BY <1>4 DEF Begin, Goto, TypeOK
  <1>8. clean' \subseteq clean /\ (OnKey(k) # {} => k \notin clean')
    BY <1>4 DEF Begin
  <1>9. ASSUME Live(k)', table'[k].body.status = "processing"
        PROVE  \E s \in Req : Owner(s, k)'
    <2>1. PICK s \in Req : Owner(s, k)
      BY <1>1, <1>3, <1>9 DEF Owned
    <2>2. ShowsMark(s, k) /\ s # r
      BY <2>1 DEF Owner, Replaces, LeavesMark, ShowsMark, Control, ControlOf
    <2>3. ShowsMark(s, k)'
      BY <1>1, <1>3, <1>7, <2>2 DEF ShowsMark
    <2>4. held'[s].ver # table'[k].ver
      BY <1>1, <1>3, <2>2
         DEF ShowsMark, VersionIdentifiesRow, HeldVersions, TypeOK, StoreTypeOK, EntityRow, Row
    <2>5. CASE Replaces(s, k)
      <3>1. s \in OnKey(k)
        BY <2>5 DEF Replaces, ShowsMark, OnKey, Working
      <3>2. k \notin clean'
        BY <1>8, <3>1
      <3>3. Carried(s, k)'
        BY <1>6, <2>4, <3>2 DEF Carried
      <3>4. Replaces(s, k)'
        BY <1>7, <2>2, <2>3, <2>5, <3>3 DEF Replaces
      <3> QED BY <3>4 DEF Owner
    <2>6. CASE k \notin clean /\ LeavesMark(s, k)
      <3>1. LeavesMark(s, k)'
        BY <1>1, <1>6, <1>7, <2>2, <2>3, <2>4, <2>6 DEF LeavesMark
      <3> QED BY <1>8, <2>6, <3>1 DEF Owner
    <2> QED BY <2>1, <2>5, <2>6 DEF Owner
  <1> QED BY <1>1, <1>9 DEF Owned, UpdateRow, TypeOK, StoreTypeOK

LEMMA MarksAsk ==
  ASSUME IInv, Marks, NEW r \in Req, Ask(r)
  PROVE  Marks'
  <1> USE DEF IInv
  <1>1. pc[r] = "idle" /\ call[r] = NoCall
    BY AskBegins DEF Control, ControlOf
  <1>2. \A k \in Key : ~ Owner(r, k)
    BY <1>1 DEF Owner, Replaces, LeavesMark, ShowsMark
  <1>3. ASSUME NEW k \in Key, table'[k] = table[k], expired' = expired
        PROVE  Owned(k)'
    <2>1. Untouched(k)
      BY <1>3 DEF Untouched, Live, Present
    <2> QED BY <1>2, <2>1, AskRests, OwnedUntouched DEF Marks
  <1>4. ASSUME NEW k \in Key, NEW d \in Data, NEW t \in (SUBSET Tag) \cup {NoTags},
               CreateEntity(r, k, d, t)
        PROVE  Marks'
    <2>1. expired' = expired
      BY <1>4 DEF CreateEntity, InsertRow
    <2> QED BY <1>3, <1>4, <2>1, CreateOwns DEF Marks, Owned
  <1>5. ASSUME NEW c, GetEntity(r, c)
        PROVE  Marks'
    <2>1. table' = table /\ expired' = expired
      BY <1>5 DEF GetEntity, storeVars
    <2> QED BY <1>3, <2>1 DEF Marks
  <1>6. ASSUME NEW k \in Key, NEW tag \in Tag, SetTag(r, k, tag) \/ DeleteTag(r, k, tag)
        PROVE  Marks'
    <2>1. table[k].body.tags \in SUBSET Tag
      BY <1>6, PresentRow DEF SetTag, DeleteTag, Live, Body
    <2>2. PICK t \in SUBSET Tag : WriteTags(r, k, t)
      BY <1>6, <2>1 DEF SetTag, DeleteTag
    <2>3. expired' = expired
      BY <2>2 DEF WriteTags, UpdateRow
    <2>4. Owned(k)' /\ \A l \in Key : l # k => table'[l] = table[l]
      BY <1>1, <2>2, TagCarries DEF Marks
    <2> QED BY <1>3, <2>3, <2>4 DEF Marks
  <1>7. PICK k \in Key :
          \/ \E d \in Data, t \in (SUBSET Tag) \cup {NoTags} :
               \/ CreateEntity(r, k, d, t)
               \/ \E v \in {NoVersion} \cup 1 .. clock : GetForUpdate(r, k, d, t, v)
          \/ \E v \in {NoVersion} \cup 1 .. clock : GetForDelete(r, k, v)
          \/ \E tag \in Tag : SetTag(r, k, tag) \/ DeleteTag(r, k, tag)
    BY DEF Ask
  <1> HIDE DEF IInv
  <1> QED
    BY <1>4, <1>5, <1>6, <1>7, Zenon DEF GetForUpdate, GetForDelete

\* A step of a request that is at work.
LEMMA MarksWork ==
  ASSUME IInv, Marks, NEW s \in Req, LocalStep(s) \/ LastWrite(s) \/ Mark(s) \/ Remove(s)
  PROVE  Marks'
  <1>1. /\ \A r \in Req \ {s} : Rests(r)
        /\ CallsKept /\ call'[s] = call[s]
    BY OthersRest
  <1>2. ASSUME NEW k \in Key, Untouched(k), Live(k) /\ Owner(s, k) => Owner(s, k)'
        PROVE  Owned(k)'
    BY <1>1, <1>2, OwnedUntouched DEF Marks
  <1>3. \A k \in Key : Owner(s, k) => k = call[s].id
    BY DEF Owner, Replaces, LeavesMark, ShowsMark
  <1>4. ASSUME NEW k \in Key, table'[k] = table[k], expired' = expired
        PROVE  Untouched(k)
    BY <1>4 DEF Untouched, Live, Present
  <1>5. CASE LocalStep(s)
    <2>1. table' = table /\ expired' = expired
      BY <1>5 DEF LocalStep, MarkFails, BuildUnchanged, BuildStart, BuildRefused, WaitBuild,
           WaitTimeout, BuildSucceeds, BuildFails, CommitFails, AbortFails, FallbackFails,
           RemoveFails, Undeploy, Crash, WriteThrows, UndeployThrows, storeVars
    <2> QED BY <1>2, <1>4, <1>5, <2>1, OwnerLocal DEF Marks
  <1>6. CASE LastWrite(s)
    <2>1. CASE CommitThrows(s) /\ UNCHANGED storeVars
      <3>1. table' = table /\ expired' = expired
        BY <2>1 DEF storeVars
      <3> QED BY <1>2, <1>4, <2>1, <3>1, OwnerCommitThrows DEF Marks
    <2>2. CASE /\ table'[call[s].id].body.status # "processing"
               /\ \A k \in Key : k # call[s].id => table'[k] = table[k]
               /\ expired' = expired
      <3> SUFFICES ASSUME NEW k \in Key PROVE Owned(k)'
        BY DEF Marks
      <3>1. CASE k = call[s].id
        BY <2>2, <3>1 DEF Owned
      <3>2. CASE k # call[s].id
        BY <1>2, <1>3, <1>4, <2>2, <3>2
      <3> QED BY <3>1, <3>2
    <2> QED BY <1>6, <2>1, <2>2, LastWriteStatus
  <1>7. CASE Mark(s)
    <2> SUFFICES ASSUME NEW k \in Key PROVE Owned(k)'
      BY DEF Marks
    <2>1. CASE k = call[s].id
      BY <1>7, <2>1, MarkOwns DEF Owned
    <2>2. CASE k # call[s].id
      BY <1>2, <1>3, <1>4, <1>7, <2>2, MarkOwns
    <2> QED BY <2>1, <2>2
  <1>8. CASE Remove(s)
    <2> SUFFICES ASSUME NEW k \in Key PROVE Owned(k)'
      BY DEF Marks
    <2>1. CASE k = call[s].id
      BY <1>8, <2>1 DEF Remove, DeleteRow, Owned, Live, Present, IInv, TypeOK, StoreTypeOK
    <2>2. CASE k # call[s].id
      <3>1. Untouched(k)
        BY <1>8, <2>2 DEF Remove, DeleteRow, Untouched, Live, Present, IInv, TypeOK, StoreTypeOK
      <3> QED BY <1>2, <1>3, <2>2, <3>1
    <2> QED BY <2>1, <2>2
  <1> QED BY <1>5, <1>6, <1>7, <1>8

LEMMA MarksNext == IInv /\ Marks /\ [Next]_vars => Marks'
  <1> SUFFICES ASSUME IInv, Marks, [Next]_vars PROVE Marks'
    OBVIOUS
  <1>1. ASSUME NEW s \in Req, Ask(s)
        PROVE  Marks'
    BY <1>1, MarksAsk
  <1>2. ASSUME NEW s \in Req, LocalStep(s) \/ LastWrite(s) \/ Mark(s) \/ Remove(s)
        PROVE  Marks'
    BY <1>2, MarksWork
  <1>3. ASSUME UNCHANGED requestVars, faults' = faults, clean' \subseteq clean,
               \A k \in Key : Live(k)' => Live(k) /\ table'[k] = table[k]
        PROVE  Marks'
    <2> SUFFICES ASSUME NEW k \in Key, Live(k)', table'[k].body.status = "processing"
                 PROVE  \E r \in Req : Owner(r, k)'
      BY DEF Marks, Owned
    <2>1. PICK r \in Req : Owner(r, k)
      BY <1>3 DEF Marks, Owned
    <2>2. Rests(r) /\ CallsKept /\ Untouched(k)
      BY <1>3 DEF Rests, CallsKept, Untouched, requestVars
    <2> QED BY <2>1, <2>2, OwnerRests
  <1>4. CASE (\E k \in Key : ExpireEntity(k)) \/ Purge
    <2>1. UNCHANGED requestVars /\ faults' = faults /\ clean' \subseteq clean
      BY <1>4 DEF ExpireEntity, Purge, requestVars
    <2>2. \A k \in Key : Live(k)' => Live(k) /\ table'[k] = table[k]
      BY <1>4 DEF ExpireEntity, Purge, Expire, PurgeExpiredItems, Live, Present
    <2> QED BY <1>3, <2>1, <2>2
  <1>5. CASE UNCHANGED vars
    BY <1>3, <1>5 DEF vars, requestVars, storeVars, Live, Present
  <1> QED
    BY <1>1, <1>2, <1>4, <1>5
       DEF Next, Answer, Build, Finish, Builder, Break, LocalStep, LastWrite

\* An entity is left in "processing" with nobody at work on it only by a request that
\* died, whose last writes threw, or whose mark a tag write carried to a new version;
\* never without overlap or fault (BaseEntityService.ts:226-231, 330-346 and 380-388).
THEOREM StuckMarksExplained == Spec => []StuckExplained
  <1>1. Init => Marks
    BY DEF Init, StoreInit, Settled, Marks, Owned, Live, Present
  <1>2. Spec => []Marks
    BY <1>1, MarksNext, Invariance, PTL DEF Spec
  <1>3. Marks => StuckExplained
    <2> SUFFICES ASSUME Marks, NEW k \in Key, Live(k), table[k].body.status = "processing",
                        OnKey(k) = {}
                 PROVE  k \notin clean /\ \E r \in Req : LeavesMark(r, k)
      BY DEF StuckExplained
    <2>1. PICK r \in Req : Owner(r, k)
      BY DEF Marks, Owned
    <2>2. ~ Replaces(r, k)
      BY DEF Replaces, ShowsMark, OnKey, Working
    <2> QED BY <2>1, <2>2 DEF Owner
  <1> QED BY <1>2, <1>3, PTL

----------------------------------------------------------------------------
(***************************************************************************)
(* Serial: a step is of one request, and of one entity.                    *)
(***************************************************************************)

SameRequest(s) ==
  pc'[s] = pc[s] /\ call'[s] = call[s] /\ held'[s] = held[s] /\ job'[s] = job[s]

\* Nothing happens to entity k.
LEMMA OrderlyElsewhere ==
  ASSUME IInv, NEW k \in Key, Orderly(k), NEW r \in Req,
         table'[k] = table[k], fn'[k] = fn[k], k \notin expired',
         \A s \in Req \ {r} : SameRequest(s),
         pc[r] # "idle" => call[r].id # k, call'[r].id # k
  PROVE  Orderly(k)'
  <1>1. OnKey(k)' = OnKey(k) /\ r \notin OnKey(k)
    BY DEF OnKey, SameRequest, Working
  <1>2. \A s \in OnKey(k) : Turn(s)'
    <2> SUFFICES ASSUME NEW s \in OnKey(k) PROVE Turn(s)'
      OBVIOUS
    <2>1. SameRequest(s) /\ call[s].id = k /\ Turn(s)
      BY <1>1 DEF OnKey, Orderly
    <2> QED BY <2>1 DEF SameRequest, Turn, Built, Agree, Present
  <1>3. Agree(k) => Agree(k)'
    BY DEF Agree, Present
  <1> QED BY <1>1, <1>2, <1>3 DEF Orderly, SameRequest

\* The only request on k takes a step.
LEMMA OrderlyOwn ==
  ASSUME IInv, NEW k \in Key, Orderly(k), NEW r \in Req, r \in OnKey(k),
         k \notin expired', call'[r] = call[r], \A s \in Req \ {r} : SameRequest(s),
         job'[r] = "running" => pc'[r] = "wait",
         pc'[r] \in Working => Turn(r)', pc'[r] \notin Working => Agree(k)'
  PROVE  Orderly(k)'
  <1>1. OnKey(k)' = IF pc'[r] \in Working THEN {r} ELSE {}
    BY DEF OnKey, Orderly, SameRequest
  <1>2. \A s \in Req : call'[s] # NoCall /\ call'[s].id = k /\ job'[s] = "running" =>
          pc'[s] = "wait"
    BY DEF Orderly, SameRequest
  <1> QED BY <1>1, <1>2 DEF Orderly

\* The first request on k begins, or sets a tag at once.
LEMMA OrderlyBegun ==
  ASSUME IInv, NEW k \in Key, Orderly(k), NEW r \in Req, pc[r] = "idle", OnKey(k) = {},
         k \notin expired', call'[r].id = k, job'[r] = job[r],
         \A s \in Req \ {r} : SameRequest(s),
         pc'[r] \in Working => Turn(r)', pc'[r] \notin Working => Agree(k)'
  PROVE  Orderly(k)'
  <1>1. OnKey(k)' = IF pc'[r] \in Working THEN {r} ELSE {}
    BY DEF OnKey, SameRequest
  <1>2. job[r] = "none"
    BY DEF IInv, Control, ControlOf
  <1>3. \A s \in Req : call'[s] # NoCall /\ call'[s].id = k /\ job'[s] = "running" =>
          pc'[s] = "wait"
    BY <1>2 DEF Orderly, SameRequest
  <1> QED BY <1>1, <1>3 DEF Orderly

\* What a step of r that goes on touches of the other entities: nothing.
LEMMA OnlyItsEntity ==
  ASSUME IInv, NEW r \in Req, LocalStep(r) \/ LastWrite(r) \/ Mark(r) \/ Remove(r)
  PROVE  /\ call'[r] = call[r] /\ clean' \subseteq clean /\ pc[r] # "idle"
         /\ \A s \in Req \ {r} : SameRequest(s)
         /\ \A k \in Key : k # call[r].id => table'[k] = table[k] /\ fn'[k] = fn[k]
         /\ \A k \in Key : k \notin expired => k \notin expired'
  <1> USE DEF IInv
  <1>1. \A s \in Req \ {r} : SameRequest(s)
    BY OthersRest DEF Rests, SameRequest
  <1>2. call'[r] = call[r] /\ clean' \subseteq clean
    BY DEF LocalStep, LastWrite, UpdateReject, Mark, MarkFails, BuildUnchanged,
           BuildStart, BuildRefused, BuildSucceeds, BuildFails, WaitBuild, WaitTimeout, Commit,
           CommitFails, Abort, AbortFails, Fallback, FallbackFails, Remove, RemoveFails,
           Undeploy, Crash, CommitThrows, WriteThrows, UndeployThrows, FaultOf, Fault
  <1>3. pc[r] # "idle"
    <2>1. job[r] = "running" => pc[r] # "idle"
      BY DEF Control, ControlOf
    <2> QED
      BY <2>1
         DEF LocalStep, LastWrite, UpdateReject, Mark, MarkFails, BuildUnchanged, BuildStart,
           BuildRefused, BuildSucceeds, BuildFails, WaitBuild, WaitTimeout, Commit, CommitFails,
           Abort, AbortFails, Fallback, FallbackFails, Remove, RemoveFails, Undeploy, Crash,
           CommitThrows, WriteThrows, UndeployThrows, Working
  <1>4. \A k \in Key : k # call[r].id => fn'[k] = fn[k]
    BY DEF TypeOK, LocalStep, LastWrite, UpdateReject, Mark, MarkFails, BuildUnchanged,
           BuildStart, BuildRefused, BuildSucceeds, BuildFails, WaitBuild, WaitTimeout, Commit,
           CommitFails, Abort, AbortFails, Fallback, FallbackFails, Remove, RemoveFails,
           Undeploy, Crash, CommitThrows, WriteThrows, UndeployThrows
  <1>5. \/ UNCHANGED storeVars
        \/ \E b, v : UpdateRow(call[r].id, v, b)
        \/ \E v : DeleteRow(call[r].id, v)
    <2>1. LastWrite(r) => UNCHANGED storeVars \/ \E b, v : UpdateRow(call[r].id, v, b)
      BY LastWriteBody
    <2>2. LocalStep(r) => UNCHANGED storeVars
      BY DEF LocalStep, MarkFails, BuildUnchanged, BuildStart, BuildRefused, WaitBuild,
         WaitTimeout, BuildSucceeds, BuildFails, CommitFails, AbortFails, FallbackFails,
         RemoveFails, Undeploy, Crash, WriteThrows, UndeployThrows
    <2> QED BY <2>1, <2>2 DEF Mark, MarkRow, Remove
  <1>6. \A k \in Key : /\ k # call[r].id => table'[k] = table[k]
                       /\ k \notin expired => k \notin expired'
    BY <1>5 DEF TypeOK, StoreTypeOK, storeVars, UpdateRow, DeleteRow
  <1> QED BY <1>1, <1>2, <1>3, <1>4, <1>6

\* What the version of a mark finds on a clean entity: the mark itself.
LEMMA OwnRow ==
  ASSUME IInv, NEW r \in Req, pc[r] \in Working, pc[r] # "undeploy", Turn(r),
         call[r].id \notin expired
  PROVE  /\ CanUpdate(call[r].id, held[r].ver) /\ CanUpdate(call[r].id, NoVersion)
         /\ CanDelete(call[r].id, held[r].ver) /\ CanDelete(call[r].id, NoVersion)
  BY DEF Turn, CanUpdate, CanDelete, Live, VersionMatches

\* The steps of the only request on a clean entity: those before its build is over.
LEMMA TurnBuild ==
  ASSUME IInv, NEW r \in Req, pc[r] \in Working, Turn(r),
         \/ BuildUnchanged(r) \/ BuildStart(r) \/ BuildRefused(r) \/ WaitBuild(r)
         \/ BuildSucceeds(r) \/ BuildFails(r),
         job[r] = "running" => pc[r] = "wait"
  PROVE  /\ Turn(r)' /\ pc'[r] \in Working
         /\ job'[r] = "running" => pc'[r] = "wait"
  <1> USE DEF IInv
  <1>1. UNCHANGED <<table, call, held>> /\ call[r].id \in Key
    BY WorkingRequest
       DEF BuildUnchanged, BuildStart, BuildRefused, WaitBuild, BuildSucceeds, BuildFails,
           storeVars
  <1>2. Present(call[r].id)' <=> Present(call[r].id)
    BY <1>1 DEF Present
  <1>3. pc[r] \in {"build", "wait"}
    BY DEF BuildUnchanged, BuildStart, BuildRefused, WaitBuild, BuildSucceeds, BuildFails
  <1>4. CASE BuildUnchanged(r)
    <2>1. pc'[r] = "commit" /\ fn'[call[r].id] = call[r].data /\ job'[r] = job[r]
      BY <1>4 DEF BuildUnchanged, Goto, TypeOK
    <2>2. pc[r] = "build"
      BY <1>4 DEF BuildUnchanged
    <2> QED BY <1>1, <1>2, <2>1, <2>2 DEF Turn, Built, Working, Agree, Present
  <1>5. CASE BuildStart(r)
    <2>1. pc'[r] = "wait" /\ job'[r] = "running" /\ fn' = fn /\ pc[r] = "build"
      BY <1>5 DEF BuildStart, Goto, TypeOK
    <2> QED BY <1>1, <1>2, <2>1 DEF Turn, Built, Working, Agree, Present
  <1>6. CASE BuildRefused(r)
    <2>1. pc'[r] = "abort" /\ job'[r] = job[r] /\ fn' = fn /\ pc[r] = "build"
      BY <1>6 DEF BuildRefused, Goto, TypeOK
    <2> QED BY <1>1, <1>2, <2>1 DEF Turn, Built, Working, Agree, Present
  <1>7. CASE WaitBuild(r)
    <2>1. /\ pc'[r] = IF job[r] = "success" THEN "commit" ELSE "abort"
          /\ job'[r] = job[r] /\ fn' = fn /\ pc[r] = "wait" /\ job[r] # "running"
      BY <1>7 DEF WaitBuild, Goto, TypeOK
    <2> QED BY <1>1, <1>2, <2>1 DEF Turn, Built, Working, Agree, Present
  <1>8. CASE BuildSucceeds(r)
    <2>1. /\ pc' = pc /\ pc[r] = "wait" /\ job'[r] = "success"
          /\ fn'[call[r].id] = call[r].data
      BY <1>1, <1>8 DEF BuildSucceeds, TypeOK
    <2> QED BY <1>1, <1>2, <2>1 DEF Turn, Built, Working, Agree, Present
  <1>9. CASE BuildFails(r)
    <2>1. /\ pc' = pc /\ pc[r] = "wait" /\ job'[r] = "failed" /\ fn' = fn
          /\ job[r] = "running"
      BY <1>9 DEF BuildFails, TypeOK
    <2> QED BY <1>1, <1>2, <2>1 DEF Turn, Built, Working, Agree, Present
  <1> QED BY <1>4, <1>5, <1>6, <1>7, <1>8, <1>9

\* The writes of the only request on a clean entity.
LEMMA TurnWrite ==
  ASSUME IInv, NEW r \in Req, Turn(r), call[r].id \notin expired,
         job[r] = "running" => pc[r] = "wait",
         Mark(r) \/ UpdateReject(r) \/ Commit(r) \/ Abort(r) \/ Remove(r) \/ Undeploy(r)
  PROVE  /\ pc'[r] \in Working => Turn(r)'
         /\ pc'[r] \notin Working => Agree(call[r].id)'
         /\ job'[r] = "running" => pc'[r] = "wait"
  <1> USE DEF IInv
  <1> DEFINE k == call[r].id
  <1>1. pc[r] \in {"mark", "commit", "abort", "remove", "undeploy"} /\ UNCHANGED <<call, job>>
    BY DEF Mark, UpdateReject, Commit, Abort, Remove, Undeploy
  <1>2. k \in Key /\ held[r] \in EntityRow /\ held[r] # NoRow
    BY <1>1, WorkingRequest, ConstantsOK DEF Working, ConstantsOK
  <1>3. job'[r] # "running"
    BY <1>1
  <1>4. table \in [Key -> EntityRow \cup {NoRow}] /\ fn \in [Key -> Data \cup {NoData}]
    BY DEF TypeOK, StoreTypeOK, EntityRow
  <1>5. \A b \in Body : Stamped(b) # NoRow
    BY StampedRow, ConstantsOK DEF TypeOK, StoreTypeOK, ConstantsOK
  <1>6. CASE Mark(r)
    <2> DEFINE b == Noted(held[r].body, Doing(call[r].kind), "processing")
    <2>1. b \in Body /\ b.state = held[r].body.state /\ b.data = held[r].body.data
      <3>1. held[r].body \in Body
        BY <1>1, WorkingRequest DEF Working
      <3>2. b \in Body
        BY <3>1, NotedBody, DoingOp DEF Status
      <3> QED BY <3>1, <3>2 DEF Noted, Body
    <2>2. /\ table' = [table EXCEPT ![k] = Stamped(b)]
          /\ held'[r] = Stamped(b) /\ fn' = fn /\ pc[r] = "mark"
          /\ pc'[r] \in {"build", "remove"}
      BY <1>6 DEF Mark, MarkRow, UpdateRow, Goto, TypeOK
    <2>3. Agree(k) /\ table[k] = held[r] /\ Present(k)
      BY <2>2 DEF Turn, Built
    <2>4. Stamped(b).body = b /\ Stamped(b) # NoRow
      BY <1>5, <2>1 DEF Stamped
    <2> HIDE DEF b
    <2>5. table'[k] = Stamped(b)
      BY <1>2, <1>4, <2>2
    <2>6. Present(k)' /\ Agree(k)'
      BY <1>1, <2>1, <2>2, <2>3, <2>4, <2>5 DEF Agree, Present
    <2> QED BY <1>1, <1>3, <2>2, <2>5, <2>6 DEF Turn, Built, Working
  <1>7. CASE UpdateReject(r)
    <2> DEFINE b == Noted(held[r].body, "updating", "failed")
    <2>1. b \in Body /\ b.state = held[r].body.state /\ b.data = held[r].body.data
      <3>1. held[r].body \in Body
        BY <1>1, WorkingRequest DEF Working
      <3>2. b \in Body
        BY <3>1, NotedBody DEF Op, Status
      <3> QED BY <3>1, <3>2 DEF Noted, Body
    <2>2. /\ table' = [table EXCEPT ![k] = Stamped(b)]
          /\ fn' = fn /\ pc[r] = "mark" /\ pc'[r] = "refused"
      BY <1>7 DEF UpdateReject, MarkRow, UpdateRow, Goto, TypeOK
    <2>3. Agree(k) /\ table[k] = held[r] /\ Present(k)
      BY <2>2 DEF Turn, Built
    <2>4. Stamped(b).body = b /\ Stamped(b) # NoRow
      BY <1>5, <2>1 DEF Stamped
    <2> HIDE DEF b
    <2>5. table'[k] = Stamped(b)
      BY <1>2, <1>4, <2>2
    <2>6. Agree(k)'
      BY <1>1, <2>1, <2>2, <2>3, <2>4, <2>5 DEF Agree, Present
    <2> QED BY <1>1, <1>3, <2>2, <2>6 DEF Working
  <1>8. CASE Commit(r)
    <2>1. /\ table' = [table EXCEPT ![k] = Stamped(Outcome(r))]
          /\ fn' = fn /\ pc[r] = "commit" /\ pc'[r] = "done" /\ Live(k)
      BY <1>8 DEF Commit, UpdateRow, CanUpdate, Goto, TypeOK
    <2>2. Outcome(r) \in Body /\ Outcome(r).state = "active" /\ Outcome(r).data = call[r].data
      BY <2>1, OutcomeBody DEF Outcome
    <2>3. table'[k] = Stamped(Outcome(r)) /\ fn'[k] = call[r].data
      BY <1>2, <1>4, <2>1 DEF Turn, Built
    <2>4. Agree(k)'
      BY <1>1, <1>5, <2>2, <2>3 DEF Agree, Present, Stamped
    <2> QED BY <1>1, <1>3, <2>1, <2>4 DEF Working
  <1>9. CASE Abort(r)
    <2>1. /\ table' = [table EXCEPT ![k] = Stamped(Failure(r))]
          /\ fn' = fn /\ pc[r] = "abort" /\ pc'[r] = "done"
      BY <1>9 DEF Abort, UpdateRow, Goto, TypeOK
    <2>2. Failure(r) \in Body /\ held[r].body \in Body
      BY <2>1, FailureBody, WorkingRequest DEF Working
    <2>3. /\ Failure(r).data = held[r].body.data
          /\ Failure(r).state = IF call[r].kind = "create" THEN "invalid" ELSE held[r].body.state
      BY <2>2 DEF Failure, Noted, Body
    <2>4. call[r].kind = "create" => held[r].body.state = "creating"
      BY <1>1, <1>2, <2>1 DEF Control, ControlOf
    <2>5. Agree(k) /\ table[k] = held[r] /\ Present(k)
      BY <2>1 DEF Turn, Built
    <2>6. table'[k] = Stamped(Failure(r))
      BY <1>2, <1>4, <2>1
    <2>7. Agree(k)'
      BY <1>1, <1>5, <2>1, <2>2, <2>3, <2>4, <2>5, <2>6 DEF Agree, Present, Stamped
    <2> QED BY <1>1, <1>3, <2>1, <2>7 DEF Working
  <1>10. CASE Remove(r)
    <2>1. table'[k] = NoRow /\ pc'[r] = "undeploy"
      BY <1>2, <1>4, <1>10 DEF Remove, DeleteRow, Goto, TypeOK
    <2> QED BY <1>1, <1>3, <2>1 DEF Turn, Present, Working
  <1>11. CASE Undeploy(r)
    <2>1. table' = table /\ pc[r] = "undeploy" /\ pc'[r] = "done" /\ fn'[k] = NoData
      BY <1>2, <1>4, <1>11 DEF Undeploy, storeVars, Goto, TypeOK
    <2>2. Agree(k)'
      BY <1>1, <2>1 DEF Turn, Agree, Present
    <2> QED BY <1>1, <1>3, <2>1, <2>2 DEF Working
  <1> QED BY <1>6, <1>7, <1>8, <1>9, <1>10, <1>11

\* These steps are those that an entity without overlaps and faults sees.
LEMMA CleanSteps ==
  ASSUME IInv, NEW r \in Req, Orderly(call[r].id), call[r].id \in clean',
         LocalStep(r) \/ LastWrite(r) \/ Mark(r) \/ Remove(r)
  PROVE  /\ pc[r] \in Working
         /\ \/ BuildUnchanged(r) \/ BuildStart(r) \/ BuildRefused(r) \/ WaitBuild(r)
            \/ BuildSucceeds(r) \/ BuildFails(r)
            \/ Mark(r) \/ UpdateReject(r) \/ Commit(r) \/ Abort(r) \/ Remove(r) \/ Undeploy(r)
  <1> USE DEF IInv
  <1>1. job[r] = "running" => pc[r] = "wait" /\ call[r] # NoCall
    BY DEF Control, ControlOf, Orderly
  <1>2. pc[r] \in Working
    BY <1>1
       DEF LocalStep, LastWrite, UpdateReject, Mark, MarkFails, BuildUnchanged, BuildStart,
           BuildRefused, BuildSucceeds, BuildFails, WaitBuild, WaitTimeout, Commit, CommitFails,
           Abort, AbortFails, Fallback, FallbackFails, Remove, RemoveFails, Undeploy, Crash,
           CommitThrows, WriteThrows, UndeployThrows, Working
  <1>3. r \in OnKey(call[r].id) /\ Turn(r) /\ call[r].id \notin expired
    BY <1>2 DEF Orderly, OnKey
  <1>4. ~ MarkFails(r) /\ ~ CommitFails(r) /\ ~ AbortFails(r) /\ ~ RemoveFails(r)
    BY <1>2, <1>3, OwnRow DEF MarkFails, CommitFails, AbortFails, RemoveFails, FinalVersion
  <1>5. ~ Fallback(r) /\ ~ FallbackFails(r)
    BY <1>3 DEF Turn, Fallback, FallbackFails
  <1>6. ~ WaitTimeout(r) /\ ~ Crash(r) /\ ~ CommitThrows(r) /\ ~ WriteThrows(r) /\ ~ UndeployThrows(r)
    BY DEF WaitTimeout, Crash, CommitThrows, WriteThrows, UndeployThrows, FaultOf
  <1> QED BY <1>2, <1>4, <1>5, <1>6 DEF LocalStep, LastWrite

LEMMA SerialStep ==
  ASSUME IInv, Serial, NEW r \in Req, LocalStep(r) \/ LastWrite(r) \/ Mark(r) \/ Remove(r)
  PROVE  Serial'
  <1> SUFFICES ASSUME NEW k \in clean' PROVE Orderly(k)'
    BY DEF Serial
  <1>1. k \in clean /\ k \in Key /\ Orderly(k) /\ k \notin expired'
    BY OnlyItsEntity DEF Serial, IInv, TypeOK, Orderly
  <1>2. CASE call[r].id # k
    BY <1>1, <1>2, OnlyItsEntity, OrderlyElsewhere
  <1>3. CASE call[r].id = k
    <2>1. pc[r] \in Working /\ r \in OnKey(k)
      BY <1>1, <1>3, CleanSteps DEF OnKey
    <2>2. Turn(r) /\ call[r] # NoCall /\ call[r].id \notin expired
      BY <1>1, <1>3, <2>1 DEF Orderly, IInv, Control, ControlOf, Working
    <2>3. job[r] = "running" => pc[r] = "wait"
      BY <1>1, <1>3, <2>2 DEF Orderly
    <2>4. /\ job'[r] = "running" => pc'[r] = "wait"
          /\ pc'[r] \in Working => Turn(r)'
          /\ pc'[r] \notin Working => Agree(k)'
      <3>1. CASE \/ BuildUnchanged(r) \/ BuildStart(r) \/ BuildRefused(r) \/ WaitBuild(r)
                 \/ BuildSucceeds(r) \/ BuildFails(r)
        BY <2>1, <2>2, <2>3, <3>1, TurnBuild
      <3>2. CASE Mark(r) \/ UpdateReject(r) \/ Commit(r) \/ Abort(r) \/ Remove(r) \/ Undeploy(r)
        <4>1. call'[r] = call[r]
          BY OnlyItsEntity
        <4>2. Agree(call[r].id)' => Agree(k)'
          BY <1>3, <4>1 DEF Agree, Present
        <4> QED BY <2>2, <2>3, <3>2, <4>2, TurnWrite
      <3> QED BY <1>1, <1>3, <3>1, <3>2, CleanSteps
    <2> QED BY <1>1, <2>1, <2>4, OnlyItsEntity, OrderlyOwn
  <1> QED BY <1>2, <1>3

LEMMA SerialAsk ==
  ASSUME IInv, Serial, NEW r \in Req, Ask(r)
  PROVE  Serial'
  <1> USE DEF IInv
  <1>1. pc[r] = "idle"
    BY AskBegins
  <1>2. table \in [Key -> EntityRow \cup {NoRow}]
    BY DEF TypeOK, StoreTypeOK, EntityRow
  <1>3. \A s \in Req \ {r} : SameRequest(s)
    BY AskRests DEF Rests, SameRequest
  \* The entity that the request is about has no other request on it, if it stays clean.
  <1>4. ASSUME NEW c, NEW where, Begin(r, c, where), NEW k \in clean', job' = job, fn' = fn,
               \A l \in Key : l # c.id => table'[l] = table[l],
               expired' = expired,
               c.id = k /\ Orderly(k) /\ OnKey(k) = {} =>
                 /\ where \in Working => Turn(r)'
                 /\ where \notin Working => Agree(k)'
        PROVE  Orderly(k)'
    <2>1. k \in clean /\ k \in Key /\ Orderly(k) /\ (c.id = k => OnKey(k) = {})
      BY <1>4 DEF Begin, Serial, TypeOK
    <2>2. call'[r] = c /\ pc'[r] = where /\ k \notin expired'
      BY <1>4, <2>1 DEF Begin, Goto, TypeOK, Orderly
    <2>3. CASE c.id # k
      BY <1>1, <1>3, <1>4, <2>1, <2>2, <2>3, OrderlyElsewhere
    <2>4. CASE c.id = k
      BY <1>1, <1>3, <1>4, <2>1, <2>2, <2>4, OrderlyBegun
    <2> QED BY <2>3, <2>4
  <1>5. ASSUME NEW k \in Key, NEW d \in Data, NEW t \in (SUBSET Tag) \cup {NoTags},
               CreateEntity(r, k, d, t), NEW l \in clean'
        PROVE  Orderly(l)'
    <2> DEFINE tags == IF t = NoTags THEN {} ELSE t
               row == [data |-> d, tags |-> tags, state |-> "creating",
                       op |-> "creating", status |-> "processing"]
               c == [kind |-> "create", id |-> k, data |-> d, tags |-> t, ver |-> NoVersion]
    <2>1. row \in Body /\ row.state = "creating"
      BY DEF Body, State, Op, Status
    <2>2. c.id = k /\ c.kind = "create"
      OBVIOUS
    <2>3. /\ InsertRow(k, row) /\ Begin(r, c, "build")
          /\ held' = [held EXCEPT ![r] = Stamped(row)]
          /\ UNCHANGED <<fn, job, faults>>
      BY <1>5 DEF CreateEntity
    <2> HIDE DEF row, c
    <2>4. Stamped(row) # NoRow /\ Stamped(row).body = row
      BY <2>1, StampedRow, ConstantsOK DEF TypeOK, StoreTypeOK, ConstantsOK, Stamped
    <2>5. /\ table'[k] = Stamped(row) /\ expired' = expired /\ ~ Present(k)
          /\ held'[r] = Stamped(row) /\ call'[r] = c /\ pc'[r] = "build"
          /\ \A j \in Key : j # k => table'[j] = table[j]
      BY <1>2, <2>3 DEF InsertRow, Begin, Goto, TypeOK
    <2>6. Orderly(k) /\ OnKey(k) = {} => Turn(r)'
      <3> SUFFICES ASSUME Orderly(k), OnKey(k) = {} PROVE Turn(r)'
        OBVIOUS
      <3>1. fn[k] = NoData
        BY <2>5 DEF Orderly, Agree
      <3>2. Present(k)' /\ Agree(k)'
        BY <2>1, <2>3, <2>4, <2>5, <3>1 DEF Agree, Present
      <3> QED BY <2>2, <2>5, <3>2 DEF Turn, Built
    <2> QED BY <1>4, <2>2, <2>3, <2>5, <2>6 DEF Working
  <1>6. ASSUME NEW c, GetEntity(r, c), c.id \in Key, NEW l \in clean'
        PROVE  Orderly(l)'
    <2>1. /\ Begin(r, c, "mark") /\ Present(c.id) /\ UNCHANGED <<table, expired, fn, job>>
          /\ held'[r] = table[c.id] /\ call'[r] = c /\ pc'[r] = "mark"
      BY <1>6 DEF GetEntity, Live, storeVars, Begin, Goto, TypeOK
    <2>2. Orderly(c.id) /\ OnKey(c.id) = {} => Turn(r)'
      BY <2>1 DEF Orderly, Turn, Built, Agree, Present
    <2> QED BY <1>4, <2>1, <2>2 DEF Working
  <1>7. ASSUME NEW k \in Key, NEW t \in SUBSET Tag, WriteTags(r, k, t), NEW l \in clean'
        PROVE  Orderly(l)'
    <2> DEFINE b == [table[k].body EXCEPT !.tags = t]
               c == [kind |-> "tag", id |-> k, data |-> NoData, tags |-> t, ver |-> NoVersion]
    <2>1. /\ Begin(r, c, "done") /\ UpdateRow(k, NoVersion, b) /\ c.id = k
          /\ UNCHANGED <<fn, held, job, faults>>
      BY <1>7 DEF WriteTags
    <2>2. Present(k)
      BY <2>1 DEF UpdateRow, CanUpdate, Live
    <2>3. b \in Body /\ b.state = table[k].body.state /\ b.data = table[k].body.data
      BY <2>2, PresentRow DEF Body
    <2> HIDE DEF b, c
    <2>4. Stamped(b) # NoRow /\ Stamped(b).body = b
      BY <2>3, StampedRow, ConstantsOK DEF TypeOK, StoreTypeOK, ConstantsOK, Stamped
    <2>5. /\ table'[k] = Stamped(b) /\ expired' = expired
          /\ \A j \in Key : j # k => table'[j] = table[j]
      BY <1>2, <2>1 DEF UpdateRow
    <2>6. Agree(k) => Agree(k)'
      BY <2>1, <2>2, <2>3, <2>4, <2>5 DEF Agree, Present
    <2>7. Orderly(k) /\ OnKey(k) = {} => Agree(k)'
      BY <2>6 DEF Orderly
    <2> QED BY <1>4, <2>1, <2>5, <2>7 DEF Working
  <1>8. PICK k \in Key :
          \/ \E d \in Data, t \in (SUBSET Tag) \cup {NoTags} :
               \/ CreateEntity(r, k, d, t)
               \/ \E v \in {NoVersion} \cup 1 .. clock : GetForUpdate(r, k, d, t, v)
          \/ \E v \in {NoVersion} \cup 1 .. clock : GetForDelete(r, k, v)
          \/ \E tag \in Tag : SetTag(r, k, tag) \/ DeleteTag(r, k, tag)
    BY DEF Ask
  <1>9. CASE \E d \in Data, t \in (SUBSET Tag) \cup {NoTags} : CreateEntity(r, k, d, t)
    BY <1>5, <1>9 DEF Serial
  <1>10. CASE \E c : GetEntity(r, c) /\ c.id = k
    BY <1>6, <1>10 DEF Serial
  <1>11. CASE \E t \in SUBSET Tag : WriteTags(r, k, t)
    BY <1>7, <1>11 DEF Serial
  <1>12. \A d, t, v : GetForUpdate(r, k, d, t, v) => \E c : GetEntity(r, c) /\ c.id = k
    <2> TAKE d, t, v
    <2> DEFINE c == [kind |-> "update", id |-> k, data |-> d, tags |-> t, ver |-> v]
    <2>1. GetForUpdate(r, k, d, t, v) => GetEntity(r, c) /\ c.id = k
      BY DEF GetForUpdate
    <2> QED BY <2>1
  <1>13. \A v : GetForDelete(r, k, v) => \E c : GetEntity(r, c) /\ c.id = k
    <2> TAKE v
    <2> DEFINE c == [kind |-> "delete", id |-> k, data |-> NoData, tags |-> NoTags, ver |-> v]
    <2>1. GetForDelete(r, k, v) => GetEntity(r, c) /\ c.id = k
      BY DEF GetForDelete
    <2> QED BY <2>1
  <1>14. \A tag \in Tag : SetTag(r, k, tag) \/ DeleteTag(r, k, tag) =>
           \E t \in SUBSET Tag : WriteTags(r, k, t)
    <2>1. Present(k) => table[k].body.tags \in SUBSET Tag
      BY PresentRow DEF Body
    <2> QED BY <2>1 DEF SetTag, DeleteTag, Live
  <1> QED BY <1>8, <1>9, <1>10, <1>11, <1>12, <1>13, <1>14, Zenon

LEMMA SerialTime ==
  ASSUME IInv, Serial, (\E k \in Key : ExpireEntity(k)) \/ Purge \/ UNCHANGED vars
  PROVE  Serial'
  <1> SUFFICES ASSUME NEW k \in clean' PROVE Orderly(k)'
    BY DEF Serial
  <1>1. UNCHANGED <<fn, requestVars>> /\ clean' \subseteq clean
    BY DEF ExpireEntity, Purge, vars
  <1>2. k \in clean /\ k \in Key /\ Orderly(k)
    BY <1>1 DEF Serial, IInv, TypeOK
  <1>3. k \notin expired' /\ table'[k] = table[k]
    BY <1>2 DEF ExpireEntity, Expire, Purge, PurgeExpiredItems, vars, storeVars, Orderly,
                IInv, TypeOK, StoreTypeOK
  <1>4. OnKey(k)' = OnKey(k) /\ (Agree(k)' <=> Agree(k))
    BY <1>1, <1>3 DEF OnKey, requestVars, Agree, Present
  <1>5. \A r \in OnKey(k) : Turn(r) => Turn(r)'
    BY <1>1, <1>3, <1>4 DEF OnKey, requestVars, Turn, Built, Agree, Present
  <1> QED BY <1>1, <1>2, <1>3, <1>4, <1>5 DEF Orderly, requestVars

LEMMA SerialNext == IInv /\ Serial /\ [Next]_vars => Serial'
  <1> SUFFICES ASSUME IInv, Serial, [Next]_vars PROVE Serial'
    OBVIOUS
  <1> QED
    BY SerialStep, SerialAsk, SerialTime
       DEF Next, Answer, Build, Finish, Builder, Break, LocalStep, LastWrite

LEMMA SerialInit == Init => Serial
  <1> SUFFICES ASSUME Init PROVE Serial
    OBVIOUS
  <1>1. PICK S \in SUBSET Key : \E d \in [S -> Data \ BadData], v \in [S -> 1 .. MaxOld] :
          /\ StoreInit([k \in S |-> Settled(d[k])], v, MaxOld)
          /\ fn = [k \in Key |-> IF k \in S THEN d[k] ELSE NoData]
    BY DEF Init
  <1>2. PICK d \in [S -> Data \ BadData], v \in [S -> 1 .. MaxOld] :
          /\ StoreInit([k \in S |-> Settled(d[k])], v, MaxOld)
          /\ fn = [k \in Key |-> IF k \in S THEN d[k] ELSE NoData]
    BY <1>1
  <1>3. /\ \A r \in Req : pc[r] = "idle" /\ call[r] = NoCall
        /\ expired = {} /\ clean = Key
    BY <1>2 DEF Init, StoreInit
  <1>4. \A k \in Key : Agree(k)
    <2> SUFFICES ASSUME NEW k \in Key PROVE Agree(k)
      OBVIOUS
    <2>1. /\ table[k] = IF k \in S THEN [ver |-> v[k], body |-> Settled(d[k])] ELSE NoRow
          /\ fn[k] = IF k \in S THEN d[k] ELSE NoData
      BY <1>2 DEF StoreInit
    <2>2. k \in S => table[k].body.state = "active" /\ table[k].body.data = d[k]
      BY <2>1 DEF Settled
    <2>3. Present(k) <=> k \in S
      <3>1. IInv
        BY InitInvariant
      <3>2. k \in S => [ver |-> v[k], body |-> Settled(d[k])] \in EntityRow
        <4>1. k \in S => Settled(d[k]) \in Body /\ v[k] \in Nat \ {0}
          BY ConstantsOK DEF Settled, Body, State, Op, Status, ConstantsOK
        <4> QED BY <4>1 DEF EntityRow, Row
      <3> QED BY <2>1, <3>2, ConstantsOK DEF Present, ConstantsOK
    <2> QED BY <2>1, <2>2, <2>3 DEF Agree
  <1> QED BY <1>3, <1>4 DEF Serial, Orderly, OnKey, Working

\* When requests on an entity come one after the other and nothing fails, the entity
\* and its function agree, after any number of them (BaseEntityService.ts:178-416).
THEOREM SerialRequestsAgree == Spec => []SerialConsistent
  <1>1. Spec => []Serial
    BY SerialInit, SerialNext, Invariance, PTL DEF Spec
  <1>2. Serial => SerialConsistent
    BY DEF Serial, Orderly, Agree, SerialConsistent
  <1> QED BY <1>1, <1>2, PTL

=============================================================================
