--------------------------- MODULE SessionCommit ---------------------------
(***************************************************************************)
(* The sessions of SessionedEntityService.ts: a trunk session walks a user *)
(* through the steps of an integration, one leaf session per step, and its *)
(* commit turns what the leaves hold into an install and its identities.   *)
(*                                                                         *)
(* One trunk session is modelled, with every request that reaches it, its  *)
(* leaves or its installs.  The stretches between two awaits are actions:  *)
(*                                                                         *)
(*   start, finish   ReadParent, ReadInstall; CreateLeaf                   *)
(*   put             PutSession; WriteOutput                               *)
(*   commit          CommitSession; CheckLeaf for each step;               *)
(*                   CreateInstall; NameInstall    (no install yet)        *)
(*                   or MarkInstall                (there is one)          *)
(*     in background PersistLeaf for each step; GatherInstall; Persist     *)
(*     on an error   ReadBroken; MarkFailed                                *)
(*                                                                         *)
(* A transaction shows others nothing before it commits, so its writes are *)
(* staged in the request and happen in Persist.  A version is a number per *)
(* row: only versions of one row are ever compared.  Ids are positions in  *)
(* the sequences leaf, install and identity, as good as the unique random  *)
(* ones of the code; 0 is no id.                                           *)
(***************************************************************************)
EXTENDS Naturals, Sequences, FiniteSets

CONSTANTS Req,          \* the requests; each is used once, which bounds a run
          N,            \* the number of steps (data.components)
          Connector,    \* the steps of entityType connector
          DependsOn,    \* DependsOn[s]: the steps that s depends on
          Gone,         \* an install that was deleted
          NoCall,       \* a request not made yet
          MaxFaults     \* bound: crashes and calls that throw

VARIABLES trunk,      \* the row of the trunk session
          leaf,       \* the rows of the leaf sessions
          install,    \* the rows of the installs
          identity,   \* the rows of the identities
          pc, call,   \* where each request is and what it was asked
          mem,        \* what it holds in memory
          faults,     \* calls that threw, processes that died
          edited      \* history: the installs that a user edited

tables == <<trunk, leaf, install, identity>>
vars == <<tables, pc, call, mem, faults, edited>>

Step == 1 .. N

\* What a step may put out; a leaf with an `error` in its output has Failed.
NoOutput == 0
Good     == 1
Failed   == 2
Output   == {NoOutput, Good, Failed}

\* An install's data has an entry per step: what a form put out, or the
\* identity of a connector.
Data == [Step -> Nat]
NoData == [s \in Step |-> 0]

Trunk    == [ver : Nat, child : [Step -> Nat], target : Nat, output : Nat]
Leaf     == [ver : Nat, step : Step, output : Output, target : Nat]
Install  == [ver : Nat, state : {"creating", "active", "invalid"},
             op : {"creating", "updating"},
             status : {"processing", "success", "failed"}, data : Data]
Identity == [step : Step, output : Output]

Kind  == {"start", "finish", "put", "commit", "edit", "delete"}
Call  == [kind : Kind, arg : Nat, output : Output]
Ended == {"idle", "done", "refused", "unnamed", "lost"}
\* Before the answer of a commit, and after it.
Answering == {"check", "create", "name", "mark"}
Background == {"leaves", "gather", "persist", "broken", "fail"}
Working == {"parent", "install", "leaf", "put"} \cup Answering \cup Background

ASSUME ConstantsOK ==
  /\ N \in Nat \ {0}
  /\ Connector \subseteq Step
  /\ DependsOn \in [Step -> SUBSET Step]
  /\ Gone \notin Install
  /\ NoCall \notin Call
  /\ MaxFaults \in Nat

\* mem[r]: the trunk and the install as read; the steps still to read and what
\* the others gave; the install's id, and its state and operation in memory.
NoLeaf == [ver |-> 0, step |-> 1, output |-> NoOutput, target |-> 0]
Memory == [trunk : Trunk, old : Install \cup {Gone}, todo : SUBSET Step,
           got : [Step -> Leaf], id : Nat,
           state : {"none", "creating", "active"}, op : {"creating", "updating"}]

TypeOK ==
  /\ trunk \in Trunk
  /\ leaf \in Seq(Leaf)
  /\ install \in Seq(Install \cup {Gone})
  /\ identity \in Seq(Identity)
  /\ pc \in [Req -> Ended \cup Working]
  /\ call \in [Req -> Call \cup {NoCall}]
  /\ mem \in [Req -> Memory]
  /\ faults \in 0 .. MaxFaults
  /\ edited \in SUBSET Nat

\* A session some steps on its way, for a new install or to configure again one
\* that an earlier session left (sessionDetails.installId).
Init ==
  /\ \E started \in 0 .. N, again \in BOOLEAN, outs \in [Step -> {NoOutput, Good}] :
       LET id(s) == IF again /\ s \in Connector
                    THEN Cardinality({t \in Connector : t <= s}) ELSE 0
       IN /\ trunk = [ver |-> 1, child |-> [s \in Step |-> IF s <= started THEN s ELSE 0],
                      target |-> IF again THEN 1 ELSE 0, output |-> 0]
          /\ leaf = [s \in 1 .. started |->
                       [ver |-> 1, step |-> s, output |-> outs[s],
                        target |-> IF again /\ s \notin Connector THEN 1 ELSE id(s)]]
          /\ install = IF again THEN <<[ver |-> 1, state |-> "active", op |-> "creating",
                                       status |-> "success",
                                       data |-> [s \in Step |-> IF s \in Connector THEN id(s)
                                                                ELSE Good]]>>
                                ELSE <<>>
          /\ identity = IF again THEN [i \in 1 .. Cardinality(Connector) |->
                                         [step |-> CHOOSE s \in Connector : id(s) = i,
                                          output |-> Good]]
                                 ELSE <<>>
          /\ mem = [r \in Req |-> [trunk |-> trunk, old |-> Gone, todo |-> {},
                                   got |-> [s \in Step |-> NoLeaf], id |-> 0,
                                   state |-> "none", op |-> "creating"]]
  /\ pc = [r \in Req |-> "idle"]
  /\ call = [r \in Req |-> NoCall]
  /\ faults = 0
  /\ edited = {}

----------------------------------------------------------------------------
Goto(r, where) == pc' = [pc EXCEPT ![r] = where]

Begin(r, c, where) ==
  /\ pc[r] = "idle"
  /\ Goto(r, where)
  /\ call' = [call EXCEPT ![r] = c]

Read(r, field, value) == mem' = [mem EXCEPT ![r][field] = value]

\* update_if_version on the trunk's row.
TrunkUnchanged(r) == trunk.ver = mem[r].trunk.ver

\* The step that a start or a finish goes to.
Target(r) == IF call[r].kind = "start" THEN 1 ELSE leaf[call[r].arg].step + 1

There(i) == i \in DOMAIN install /\ install[i] # Gone

Rewrite(i, row) == install' = [install EXCEPT ![i] = [row EXCEPT !.ver = install[i].ver + 1]]

----------------------------------------------------------------------------
(***************************************************************************)
(* From step to step.                                                      *)
(***************************************************************************)
StartSession(r) ==
  /\ Begin(r, [kind |-> "start", arg |-> 0, output |-> NoOutput], "parent")
  /\ UNCHANGED <<tables, mem, faults, edited>>

\* The last step, and one that failed, redirect the user and change nothing.
FinishSession(r, l) ==
  /\ leaf[l].step < N /\ leaf[l].output # Failed
  /\ Begin(r, [kind |-> "finish", arg |-> l, output |-> NoOutput], "parent")
  /\ UNCHANGED <<tables, mem, faults, edited>>

ReadParent(r) ==
  /\ pc[r] = "parent"
  /\ Read(r, "trunk", trunk)
  /\ Goto(r, IF trunk.target = 0 THEN "leaf" ELSE "install")
  /\ UNCHANGED <<tables, call, faults, edited>>

\* getSessionInstall.
ReadInstall(r) ==
  /\ pc[r] = "install"
  /\ IF There(mem[r].trunk.target)
     THEN Goto(r, "leaf") /\ Read(r, "old", install[mem[r].trunk.target])
     ELSE Goto(r, "refused") /\ UNCHANGED mem
  /\ UNCHANGED <<tables, call, faults, edited>>

\* Slip: the parent's row is written whatever its version.
CreateLeafBlind(r) ==
  /\ pc[r] = "leaf"
  /\ mem[r].trunk.child[Target(r)] = 0
  /\ leaf' = Append(leaf, [ver |-> 1, step |-> Target(r), output |-> NoOutput, target |-> 0])
  /\ trunk' = [mem[r].trunk EXCEPT !.child[Target(r)] = Len(leaf) + 1, !.ver = trunk.ver + 1]
  /\ Goto(r, "done")
  /\ UNCHANGED <<install, identity, call, mem, faults, edited>>

\* createLeafSession, in one transaction with the parent's row.  The leaf of a
\* session that configures an install again starts from what is there.
CreateLeaf(r) ==
  LET m == mem[r]
      s == Target(r)
      known == IF m.trunk.target # 0 THEN m.old.data[s] ELSE 0
      new == [ver |-> 1, step |-> s,
              output |-> IF known = 0 THEN NoOutput
                         ELSE IF s \in Connector THEN identity[known].output ELSE Good,
              target |-> IF s \in Connector THEN known ELSE m.trunk.target]
  IN /\ pc[r] = "leaf"
     /\ m.trunk.child[s] = 0
     /\ \A d \in DependsOn[s] : m.trunk.child[d] # 0
     /\ TrunkUnchanged(r)
     /\ leaf' = Append(leaf, new)
     /\ trunk' = [m.trunk EXCEPT !.child[s] = Len(leaf) + 1, !.ver = trunk.ver + 1]
     /\ Goto(r, "done")
     /\ UNCHANGED <<install, identity, call, mem, faults, edited>>

\* The step has its leaf, or lacks one it depends on, or the parent changed.
LeafNotCreated(r) ==
  /\ pc[r] = "leaf"
  /\ \/ mem[r].trunk.child[Target(r)] # 0 /\ Goto(r, "done")
     \/ /\ mem[r].trunk.child[Target(r)] = 0
        /\ (\E d \in DependsOn[Target(r)] : mem[r].trunk.child[d] = 0) \/ ~ TrunkUnchanged(r)
        /\ Goto(r, "refused")
  /\ UNCHANGED <<tables, call, mem, faults, edited>>

PutSession(r, l, out) ==
  /\ Begin(r, [kind |-> "put", arg |-> l, output |-> out], "put")
  /\ mem' = [mem EXCEPT ![r].got[leaf[l].step] = leaf[l]]
  /\ UNCHANGED <<tables, faults, edited>>

WriteOutput(r) ==
  LET l == call[r].arg IN
  /\ pc[r] = "put"
  /\ IF leaf[l].ver = mem[r].got[leaf[l].step].ver
     THEN /\ leaf' = [leaf EXCEPT ![l].output = call[r].output, ![l].ver = @ + 1]
          /\ Goto(r, "done")
     ELSE Goto(r, "refused") /\ UNCHANGED leaf
  /\ UNCHANGED <<trunk, install, identity, call, mem, faults, edited>>

----------------------------------------------------------------------------
(***************************************************************************)
(* commitSession, up to the answer.                                        *)
(***************************************************************************)
CommitSession(r) ==
  /\ \A s \in Step : trunk.child[s] # 0
  /\ Begin(r, [kind |-> "commit", arg |-> 0, output |-> NoOutput], "check")
  /\ mem' = [mem EXCEPT ![r].trunk = trunk, ![r].todo = Step]
  /\ UNCHANGED <<tables, faults, edited>>

\* The leaves are looked at one after the other.
CheckLeaf(r) ==
  LET m == mem[r]
      s == CHOOSE s \in m.todo : \A t \in m.todo : s <= t
  IN /\ pc[r] = "check"
     /\ Read(r, "todo", m.todo \ {s})
     /\ Goto(r, IF leaf[m.trunk.child[s]].output = Failed THEN "refused"
                ELSE IF m.todo # {s} THEN "check"
                ELSE IF m.trunk.target = 0 THEN "create" ELSE "mark")
     /\ UNCHANGED <<tables, call, faults, edited>>

CreateInstall(r) ==
  /\ pc[r] = "create"
  /\ install' = Append(install, [ver |-> 1, state |-> "creating", op |-> "creating",
                                 status |-> "processing", data |-> NoData])
  /\ mem' = [mem EXCEPT ![r].id = Len(install) + 1, ![r].state = "creating",
                        ![r].op = "creating"]
  /\ Goto(r, "name")
  /\ UNCHANGED <<trunk, leaf, identity, call, faults, edited>>

\* The session notes its install; then the request is answered.
NameInstall(r) ==
  LET new == [mem[r].trunk EXCEPT !.target = mem[r].id, !.ver = @ + 1] IN
  /\ pc[r] = "name"
  /\ TrunkUnchanged(r)
  /\ trunk' = new
  /\ mem' = [mem EXCEPT ![r].trunk = new, ![r].todo = Step]
  /\ Goto(r, "leaves")
  /\ UNCHANGED <<leaf, install, identity, call, faults, edited>>

\* Another commit was first: 409, and the install just created stays.
NameConflict(r) ==
  /\ pc[r] = "name"
  /\ ~ TrunkUnchanged(r)
  /\ Goto(r, "unnamed")
  /\ UNCHANGED <<tables, call, mem, faults, edited>>

\* An unconditional update; a deleted install answers 404.
MarkInstall(r) ==
  LET i == mem[r].trunk.target IN
  /\ pc[r] = "mark"
  /\ IF There(i)
     THEN /\ Rewrite(i, [install[i] EXCEPT !.op = "updating", !.status = "processing"])
          /\ mem' = [mem EXCEPT ![r].id = i, ![r].op = "updating", ![r].todo = Step]
          /\ Goto(r, "leaves")
     ELSE Goto(r, "refused") /\ UNCHANGED <<install, mem>>
  /\ UNCHANGED <<trunk, leaf, identity, call, faults, edited>>

----------------------------------------------------------------------------
(***************************************************************************)
(* persistTrunkSession, in the background and in a transaction.            *)
(***************************************************************************)

\* Slip: what the commit checked is taken to be still true.
PersistLeafUnchecked(r, s) ==
  /\ pc[r] = "leaves" /\ s \in mem[r].todo
  /\ mem' = [mem EXCEPT ![r].todo = @ \ {s}, ![r].got[s] = leaf[mem[r].trunk.child[s]]]
  /\ Goto(r, IF mem[r].todo # {s} THEN "leaves" ELSE "gather")
  /\ UNCHANGED <<tables, call, faults, edited>>

\* The leaves are read again, in any order; an error in one fails the commit when
\* all have been read.
PersistLeaf(r, s) ==
  LET got == [mem[r].got EXCEPT ![s] = leaf[mem[r].trunk.child[s]]] IN
  /\ pc[r] = "leaves" /\ s \in mem[r].todo
  /\ mem' = [mem EXCEPT ![r].todo = @ \ {s}, ![r].got = got]
  /\ Goto(r, IF mem[r].todo # {s} THEN "leaves"
             ELSE IF \E t \in Step : got[t].output = Failed THEN "broken" ELSE "gather")
  /\ UNCHANGED <<tables, call, faults, edited>>

\* The object in memory turns active before the row is read or anything is written.
\* What the row holds for components that are not steps of the session is kept.
GatherInstall(r) ==
  /\ pc[r] = "gather"
  /\ IF There(mem[r].id)
     THEN Goto(r, "persist")
     ELSE Goto(r, "broken")
  /\ Read(r, "state", "active")
  /\ UNCHANGED <<tables, call, faults, edited>>

\* Connector steps without an identity of theirs get one.
NewIdentities(r) == {s \in Connector : mem[r].got[s].target = 0}

IdentityId(r, s) ==
  IF s \in NewIdentities(r)
  THEN Len(identity) + Cardinality({t \in NewIdentities(r) : t <= s})
  ELSE mem[r].got[s].target

IdentitiesOf(r) ==
  [i \in 1 .. Len(identity) + Cardinality(NewIdentities(r)) |->
     IF \E s \in Connector : IdentityId(r, s) = i
     THEN LET s == CHOOSE s \in Connector : IdentityId(r, s) = i
          IN [step |-> s, output |-> mem[r].got[s].output]
     ELSE identity[i]]

\* leafSessionResults.
PersistedData(r) ==
  [s \in Step |-> IF s \in Connector THEN IdentityId(r, s) ELSE mem[r].got[s].output]

\* The writes of the transaction: identities, the install whatever its version,
\* the session if it is the one that was read.
PersistWrites(r) ==
  LET m == mem[r] IN
  /\ TrunkUnchanged(r) /\ There(m.id)
  /\ identity' = IdentitiesOf(r)
  /\ Rewrite(m.id, [ver |-> 0, state |-> "active", op |-> m.op, status |-> "success",
                    data |-> PersistedData(r)])
  /\ trunk' = [m.trunk EXCEPT !.output = m.id, !.ver = @ + 1]

Persist(r) ==
  /\ pc[r] = "persist"
  /\ PersistWrites(r)
  /\ Goto(r, "done")
  /\ UNCHANGED <<leaf, call, mem, faults, edited>>

\* Slip: nobody hears of the failed transaction.
RollbackUnheard(r) ==
  /\ pc[r] = "persist"
  /\ ~ (TrunkUnchanged(r) /\ There(mem[r].id))
  /\ Goto(r, "done")
  /\ UNCHANGED <<tables, call, mem, faults, edited>>

Rollback(r) ==
  /\ pc[r] = "persist"
  /\ ~ (TrunkUnchanged(r) /\ There(mem[r].id))
  /\ Goto(r, "broken")
  /\ UNCHANGED <<tables, call, mem, faults, edited>>

\* The catch block: an install that is gone throws once more, unheard.
ReadBroken(r) ==
  /\ pc[r] = "broken"
  /\ IF There(mem[r].id)
     THEN Goto(r, "fail") /\ Read(r, "old", install[mem[r].id])
     ELSE Goto(r, "done") /\ UNCHANGED mem
  /\ UNCHANGED <<tables, call, faults, edited>>

\* Slip: the state of the object in memory, which an update has none of.
FailedStateOfObject(r) == IF mem[r].state = "creating" THEN "invalid" ELSE mem[r].state

FailedState(r) == IF mem[r].state = "creating" THEN "invalid" ELSE mem[r].old.state

\* Slip: the row read is not compared with the one written.
MarkFailedBlind(r) ==
  /\ pc[r] = "fail"
  /\ IF There(mem[r].id)
     THEN Rewrite(mem[r].id, [mem[r].old EXCEPT !.state = FailedState(r), !.op = mem[r].op,
                                                !.status = "failed"])
     ELSE UNCHANGED install
  /\ Goto(r, "done")
  /\ UNCHANGED <<trunk, leaf, identity, call, mem, faults, edited>>

\* The second write is conditional; when it fails nobody hears of it.
MarkFailed(r) ==
  LET m == mem[r] IN
  /\ pc[r] = "fail"
  /\ IF There(m.id) /\ install[m.id].ver = m.old.ver
     THEN Rewrite(m.id, [m.old EXCEPT !.state = FailedState(r), !.op = m.op,
                                      !.status = "failed"])
     ELSE UNCHANGED install
  /\ Goto(r, "done")
  /\ UNCHANGED <<trunk, leaf, identity, call, mem, faults, edited>>

----------------------------------------------------------------------------
(***************************************************************************)
(* Users' requests on an install, and faults.                              *)
(***************************************************************************)

\* A PUT or a tag: unconditional, and the version changes.
EditInstall(r, i) ==
  /\ There(i)
  /\ Begin(r, [kind |-> "edit", arg |-> i, output |-> NoOutput], "done")
  /\ \E d \in {install[i].data, NoData} : Rewrite(i, [install[i] EXCEPT !.data = d])
  /\ edited' = edited \cup {i}
  /\ UNCHANGED <<trunk, leaf, identity, mem, faults>>

DeleteInstall(r, i) ==
  /\ There(i)
  /\ Begin(r, [kind |-> "delete", arg |-> i, output |-> NoOutput], "done")
  /\ install' = [install EXCEPT ![i] = Gone]
  /\ UNCHANGED <<trunk, leaf, identity, mem, faults, edited>>

Fault == faults < MaxFaults /\ faults' = faults + 1

\* The process that runs r dies.
Crash(r) ==
  /\ pc[r] \in Working
  /\ Fault
  /\ Goto(r, "lost")
  /\ UNCHANGED <<tables, call, mem, edited>>

\* A call of the background part throws; the commit of its transaction may have
\* taken effect all the same.
CallThrows(r) ==
  /\ pc[r] \in Background
  /\ Fault
  /\ Goto(r, IF pc[r] \in {"broken", "fail"} THEN "lost" ELSE "broken")
  /\ \/ UNCHANGED tables
     \/ pc[r] = "persist" /\ PersistWrites(r) /\ UNCHANGED leaf
  /\ UNCHANGED <<call, mem, edited>>

----------------------------------------------------------------------------
Ask(r) ==
  \/ StartSession(r) \/ CommitSession(r)
  \/ \E l \in DOMAIN leaf :
       FinishSession(r, l) \/ \E out \in {Good, Failed} : PutSession(r, l, out)
  \/ \E i \in DOMAIN install : EditInstall(r, i) \/ DeleteInstall(r, i)

Walk(r) == ReadParent(r) \/ ReadInstall(r) \/ CreateLeaf(r) \/ LeafNotCreated(r) \/ WriteOutput(r)

Answer(r) == CheckLeaf(r) \/ CreateInstall(r) \/ NameInstall(r) \/ NameConflict(r) \/ MarkInstall(r)

Finish(r) ==
  \/ \E s \in Step : PersistLeaf(r, s)
  \/ GatherInstall(r) \/ Persist(r) \/ Rollback(r) \/ ReadBroken(r) \/ MarkFailed(r)

Next == \E r \in Req : Ask(r) \/ Walk(r) \/ Answer(r) \/ Finish(r) \/ Crash(r) \/ CallThrows(r)

Spec == Init /\ [][Next]_vars

----------------------------------------------------------------------------
(***************************************************************************)
(* What should hold.                                                       *)
(***************************************************************************)

\* However many browsers start or finish a step at once, a step has one leaf, and
\* no leaf is left that its parent does not name (createLeafSession).
OneLeafPerStep ==
  /\ \A l \in DOMAIN leaf : trunk.child[leaf[l].step] = l
  /\ \A s \in Step : trunk.child[s] # 0 =>
       trunk.child[s] \in DOMAIN leaf /\ leaf[trunk.child[s]].step = s

\* An install that says success and that no user edited holds what every step gave:
\* an identity of the step's own for a connector, no error anywhere, even when a
\* leaf failed between the commit's check and its background part.
CommittedWhole ==
  \A i \in DOMAIN install :
    There(i) /\ i \notin edited /\ install[i].status = "success" =>
      \A s \in Step : LET d == install[i].data[s] IN
        IF s \in Connector
        THEN d \in DOMAIN identity /\ identity[d].step = s /\ identity[d].output # Failed
        ELSE d # Failed

\* An install that shows "processing" has a commit at work on it, unless that commit
\* died, or it lost the race to name its install in the session, or a user's edit
\* took the version from under the catch block's write.
ProcessingExplained ==
  \A i \in DOMAIN install :
    There(i) /\ install[i].status = "processing" =>
      \/ i \in edited
      \/ \E r \in Req : mem[r].id = i /\ pc[r] \in Working \cup {"unnamed", "lost"}

\* What the session reports as its output is the install that it names, and that
\* install has been active: a client that sees `output` need not poll.
OutputIsCommitted ==
  trunk.output # 0 =>
    /\ trunk.output = trunk.target
    /\ There(trunk.output) => install[trunk.output].state # "creating"

\* api_v2.yaml:1292: "On failure, operationState.status will be set to failed and
\* state will be invalid" (of an install that is being created).
FailedMeansInvalid ==
  \A i \in DOMAIN install :
    There(i) /\ install[i].op = "creating" /\ install[i].status = "failed" =>
      install[i].state = "invalid"

=============================================================================
